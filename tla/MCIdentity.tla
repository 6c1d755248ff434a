----------------------------- MODULE MCIdentity -----------------------------
(***************************************************************************)
(* Small installations, each with the requests of one part of the          *)
(* interface.                                                              *)
(***************************************************************************)
EXTENDS Identity

CONSTANTS Peer, Proxy

\* Straight from the client, through the proxy, and through the proxy with a list that does not parse.
MCAddresses == {[peer |-> Peer, forwarded |-> << >>], [peer |-> Proxy, forwarded |-> <<Peer, Proxy>>], [peer |-> Proxy, forwarded |-> << >>],
                [peer |-> Proxy, forwarded |-> None]}

Setup(redis, durable, limit, accounts, ops, names, requests, until) ==
    [redis |-> redis, durable |-> durable, limit |-> limit, accounts |-> accounts, ops |-> ops, names |-> names, requests |-> requests, until |-> until]
Limit(redis) == [max |-> 2, window |-> 3, redis |-> redis]

Addressing == {"register", "verify_email", "resend_verification", "request_email_change", "confirm_email_change", "admin_create",
               "admin_update", "admin_delete"}
Entering == {"login", "forgot_password", "reset_password", "request_magic_link", "verify_magic_link", "change_password", "delete_account"}
Moving == {"login", "register", "request_email_change", "confirm_email_change"}
Linking == {"oauth_authorize", "oauth_link", "oauth_callback", "oauth_signup", "unlink", "admin_delete"}

MCSetups ==
    {Setup(FALSE, TRUE, None, <<"a">>, Addressing, {"a", "b"}, 5, 1), Setup(FALSE, FALSE, None, <<"a">>, Addressing, {"a", "b"}, 4, 1)}
    \cup {Setup(redis, TRUE, None, <<"a">>, Entering, {"a", "b"}, 4, 1) : redis \in BOOLEAN}
    \cup {Setup(FALSE, TRUE, None, <<"a">>, Moving, Names, 4, 1)}
    \cup {Setup(FALSE, TRUE, None, <<"a">>, Linking, {"a", "b"}, 5, 2)}
    \cup {Setup(FALSE, TRUE, Limit(redis), <<"a", "b">>, {"register"}, {"a", "b"}, 5, 5) : redis \in BOOLEAN}
=============================================================================
