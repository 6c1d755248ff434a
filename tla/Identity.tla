------------------------------ MODULE Identity ------------------------------
(***************************************************************************)
(* Accounts and external sign-in together, behind the rate limiter.        *)
(***************************************************************************)
EXTENDS ExternalSignIn

\* An installation starts with the accounts that an administrator has made, some of them signed in.
Init ==
    /\ setup \in Setups
    /\ now = 0 /\ letters = {} /\ request = [c \in Clients |-> Idle] /\ begun = 0
    /\ users = [i \in DOMAIN setup.accounts |-> [NewUser(setup.accounts[i], "chosen") EXCEPT !.verified = TRUE]]
    /\ sessions = [i \in DOMAIN setup.accounts |-> [user |-> i, name |-> setup.accounts[i]]]
    /\ issued = Len(setup.accounts)
    /\ hits = << >> /\ proven = Range(setup.accounts) /\ used = << >> /\ admitted = << >>
    /\ states = << >> /\ signups = << >> /\ links = {}

Next ==
    \/ \E c \in Clients : AccountStep(c) /\ UNCHANGED external
    \/ \E c \in Clients : ExternalStep(c)
    \/ Tick /\ UNCHANGED external
    \/ Cleanup

Spec == Init /\ [][Next]_vars

Rows == [name : Names, password : {"chosen", "random"}, deleted : BOOLEAN, verified : BOOLEAN, external : BOOLEAN, pending : Names \cup {None},
         slots : [Purposes -> [token : 0 .. MaxTokens, at : 0 .. MaxNow + MagicTtl]]]

\* The types of the tables; usernames are unique, an identity belongs to one account, and an account
\* has one connection to a provider.
TypeOK ==
    /\ setup \in Setups /\ now \in 0 .. MaxNow /\ issued \in 0 .. MaxTokens /\ begun \in 0 .. setup.requests
    /\ \A u \in DOMAIN users : users[u] \in Rows /\ Named(users[u].name) = {u}
    /\ \A t \in DOMAIN sessions : t \in 1 .. issued /\ sessions[t] \in [user : DOMAIN users, name : Names]
    /\ \A l \in letters : l.purpose \in Purposes /\ l.token \in 1 .. issued /\ {l.user, l.to} \subseteq Names
    /\ \A s \in DOMAIN states : s \in 1 .. issued /\ states[s].provider \in Providers /\ states[s].flow \in {"login", "link"}
    /\ DOMAIN signups \subseteq Providers \X Identities
    /\ \A k, l \in links : k.identity = l.identity \/ (k.user = l.user /\ k.identity[1] = l.identity[1]) => k = l

(***************************************************************************)
(* Properties                                                              *)
(***************************************************************************)
\* A verified address was proven: a token mailed to that very address came back, or an administrator
\* vouched for it (verify_managed_email, confirm_email_change, the administration of users).
AddressProven == \A u \in DOMAIN users : users[u].verified => users[u].name \in proven

\* A verification, a change of address, an OAuth state and a signup are consumed once, however many
\* requests carry the same token.
TokenUsedOnce == \A i, j \in DOMAIN used : used[i] = used[j] => i = j

\* A session in the table authenticates its own account only, also after that account has changed its
\* address and another one has taken the old one (current_user, find_by_token).
SessionStaysWithAccount ==
    ~setup.redis => \A t \in DOMAIN sessions : Authenticates(t) => Live(sessions[t].name) = {sessions[t].user}

\* An account that was made by an external signup, and has no password that anybody knows, keeps a
\* connection to sign in with (unlink_connection, link_connection).
ExternalOnlyKeepsConnection == \A u \in DOMAIN users : users[u].external => LinksOf(u) # {}

\* No window holds more requests of a client on a path than the limit, and a client that waits as
\* long as Redis told it to is let through, if it is alone (MemoryRateLimiter::check and the script in
\* Redis, which rounds retry_after up; the memory rounds down, and its clients may come too early).
SlidingWindow ==
    setup.limit # None =>
        /\ \A i \in DOMAIN admitted :
              Cardinality({j \in 1 .. i : admitted[j].key = admitted[i].key /\ admitted[i].at - admitted[j].at < setup.limit.window})
                  <= setup.limit.max
        /\ setup.limit.redis =>
              \A k \in DOMAIN hits :
                 LET recent == Recent(hits[k], now, setup.limit.window)
                 IN  Len(recent) >= setup.limit.max =>
                        Decision(recent, now + Second * RetryAfter(recent, now, setup.limit.window, TRUE), setup.limit).allowed
=============================================================================
