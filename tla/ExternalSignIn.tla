--------------------------- MODULE ExternalSignIn ---------------------------
(***************************************************************************)
(* Signing in with an external provider (OAuthAppService): a state is      *)
(* stored and the browser sent to the provider; the callback takes the     *)
(* state, asks the provider who it is, and links, signs in or prepares a   *)
(* signup that the user completes.                                         *)
(***************************************************************************)
EXTENDS Accounts

CONSTANTS Providers,    \* those that are enabled and configured
          Identities,   \* accounts at a provider
          StateTtl, SignupTtl

VARIABLES states,       \* oauth_states, by number: [provider, flow, username, expires]
          signups,      \* oauth_pending_signups, by identity: [token, expires]
          links         \* user_oauth_connections: [user, identity], identity a pair of provider and id

external == <<states, signups, links>>
vars == <<setup, now, users, sessions, letters, request, issued, begun, hits, history, external>>

Put(f, k, x) == [j \in DOMAIN f \cup {k} |-> IF j = k THEN x ELSE f[j]]
Drop(f, k) == [j \in DOMAIN f \ {k} |-> f[j]]
LinksOf(u) == {l \in links : l.user = u}
Owners(identity) == {l.user : l \in {m \in links : m.identity = identity}}
Other == UNCHANGED <<users, sessions, letters, proven>>
NoUse == UNCHANGED used

\* normalize_provider, provider_settings: any other provider is refused before anything is stored.
CreateAuthorizeUrl(c, flow, username) ==
    /\ Issue
    /\ \E p \in Providers : states' = Put(states, Token, [provider |-> p, flow |-> flow, username |-> username, expires |-> now + StateTtl])
    /\ End(c) /\ Other /\ NoUse /\ UNCHANGED <<signups, links>> /\ Rest

Authorize(c) == At(c, "oauth_authorize", "start") /\ CreateAuthorizeUrl(c, "login", None)
LinkAuthorize(c) == At(c, "oauth_link", "actor") /\ CreateAuthorizeUrl(c, "link", request[c].name)

\* take_state: gone whatever comes of it.
TakeState(c) ==
    /\ At(c, "oauth_callback", "start")
    /\ \E s \in DOMAIN states, p \in Providers :
          IF states[s].expires <= now THEN End(c) /\ NoUse /\ UNCHANGED states
          ELSE /\ states' = Drop(states, s) /\ Consumed(s)
               /\ IF states[s].provider # p THEN End(c)
                  ELSE Set(c, [request[c] EXCEPT !.pc = states[s].flow, !.provider = p, !.name = states[s].username])
    /\ Other /\ Issued /\ UNCHANGED <<signups, links>> /\ Rest

\* fetch_user: an identity, or the exchange fails.
ExchangeFails(c) ==
    /\ request[c].pc \in {"link", "login"} /\ request[c].op = "oauth_callback"
    /\ End(c) /\ Other /\ NoUse /\ Issued /\ UNCHANGED external /\ Rest

\* One connection of an account to a provider, one account for an identity.
LinkConnection(c) ==
    LET r == request[c]
        u == The(Live(r.name))
        id(i) == <<r.provider, i>>
        kept == {l \in links : l.user # u \/ l.identity[1] # r.provider}
    IN  /\ At(c, "oauth_callback", "link")
        /\ \E i \in Identities :
              links' = IF Live(r.name) = {} \/ Owners(id(i)) \notin {{}, {u}} THEN links
                       ELSE kept \cup {[user |-> u, identity |-> id(i)]}
        /\ End(c) /\ Other /\ NoUse /\ Issued /\ UNCHANGED <<states, signups>> /\ Rest

\* username_for_connection; an identity that nobody has gets a signup, which replaces an earlier one.
FindConnection(c) ==
    LET r == request[c]
        id(i) == <<r.provider, i>>
        live(i) == {u \in Owners(id(i)) : ~users[u].deleted}
    IN  /\ At(c, "oauth_callback", "login")
        /\ \E i \in Identities :
              IF live(i) # {} THEN Found(c, The(live(i)), "session") /\ Issued /\ UNCHANGED signups
              ELSE /\ Issue /\ End(c)
                   /\ signups' = Put(signups, id(i), [token |-> Token, expires |-> now + SignupTtl])
        /\ Other /\ NoUse /\ UNCHANGED <<states, links>> /\ Rest

\* complete_oauth_signup: the account, its connection and the end of the signup, or none of them.
CompleteSignup(c) ==
    LET row == Len(users) + 1
        fails(id, n) == Named(n) # {} \/ Owners(id) # {}
    IN  /\ At(c, "oauth_signup", "start")
        /\ \E t \in {signups[id].token : id \in DOMAIN signups} \cup Range(used), n \in setup.names :
              LET found == {id \in DOMAIN signups : signups[id].token = t /\ signups[id].expires > now}
                  id == The(found)
              IN  IF found = {} \/ fails(id, n) THEN End(c) /\ NoUse /\ UNCHANGED <<users, signups, links>>
                  ELSE /\ users' = Added([NewUser(n, "random") EXCEPT !.external = TRUE])
                       /\ links' = links \cup {[user |-> row, identity |-> id]}
                       /\ signups' = Drop(signups, id) /\ Consumed(t)
                       /\ Set(c, [request[c] EXCEPT !.pc = "session", !.name = n, !.user = row])
        /\ UNCHANGED <<sessions, letters, proven, states>> /\ Issued /\ Rest

\* Mutant of Unlink: off by one, the last connection goes too.
UnlinkLast(c) ==
    LET found == Live(request[c].name)
        u == The(found)
        gone(p) == {l \in LinksOf(u) : l.identity[1] = p}
    IN  /\ At(c, "unlink", "actor")
        /\ \E p \in Providers : links' = IF found = {} \/ (users[u].external /\ Cardinality(LinksOf(u)) < 1) THEN links ELSE links \ gone(p)
        /\ End(c) /\ Other /\ NoUse /\ Issued /\ UNCHANGED <<states, signups>> /\ Rest

\* unlink_connection: the last connection of an account without a password of its own stays.
Unlink(c) ==
    LET found == Live(request[c].name)
        u == The(found)
        gone(p) == {l \in LinksOf(u) : l.identity[1] = p}
        last == users[u].external /\ Cardinality(LinksOf(u)) <= 1
    IN  /\ At(c, "unlink", "actor")
        /\ \E p \in Providers : links' = IF found = {} \/ last THEN links ELSE links \ gone(p)
        /\ End(c) /\ Other /\ NoUse /\ Issued /\ UNCHANGED <<states, signups>> /\ Rest

\* delete_expired: the states and signups that are past their time.
Cleanup ==
    LET old(f) == {k \in DOMAIN f : f[k].expires < now}
    IN  /\ (old(states) # {} \/ old(signups) # {})
        /\ states' = [s \in DOMAIN states \ old(states) |-> states[s]]
        /\ signups' = [s \in DOMAIN signups \ old(signups) |-> signups[s]]
        /\ UNCHANGED <<setup, now, users, sessions, letters, request, issued, begun, hits, history, links>>

ExternalStep(c) ==
    \/ Authorize(c) \/ LinkAuthorize(c) \/ TakeState(c) \/ ExchangeFails(c) \/ LinkConnection(c) \/ FindConnection(c)
    \/ CompleteSignup(c) \/ Unlink(c)
=============================================================================
