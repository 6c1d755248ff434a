------------------------------ MODULE Accounts ------------------------------
(***************************************************************************)
(* Accounts and one-time tokens of the identity module: AuthAppService and *)
(* UserAppService over the users table, the outbox and the sessions.  A    *)
(* request runs a few statements; other requests, and the clock, move      *)
(* between any two of them.  The statements name an account by its         *)
(* username, which is its mail address and which the account may change.   *)
(*                                                                         *)
(* TwoFactor, Sessions and Roles model the second factor, the lifetime of  *)
(* a session and the roles; here a login has no second factor, a session   *)
(* does not expire and a user has no roles.                                *)
(***************************************************************************)
EXTENDS RateLimits

CONSTANTS
    Clients,        \* requests that are handled at the same time
    Addresses,      \* addresses the requests come from: [peer, forwarded]
    Names,          \* usernames
    Protected,      \* the one of the protected administrator
    Setups,         \* installations: [redis, durable, limit, accounts], the operations that are asked
                    \* of them (ops), the names they give (names), how many there are (requests), until when (until)
    VerifyTtl, ChangeTtl, MagicTtl,   \* 24 hours, one hour, five minutes
    MaxTokens, MaxNow                 \* bounds on the tokens that are issued and on the clock

\* An installation begins with accounts of different names, before the first token is issued.
ASSUME AccountsAssumption ==
    /\ {MaxTokens, MaxNow, MagicTtl} \subseteq Nat /\ None \notin Names
    /\ \A s \in Setups :
          /\ {s.redis, s.durable} \subseteq BOOLEAN /\ s.requests \in Nat /\ s.until \in 0 .. MaxNow /\ s.names \subseteq Names
          /\ s.accounts \in Seq(Names) /\ Len(s.accounts) <= MaxTokens
          /\ \A i, j \in DOMAIN s.accounts : s.accounts[i] = s.accounts[j] => i = j
          \* RateLimiter::from_options raises both to one at least
          /\ s.limit = None \/ s.limit \in [max : Nat \ {0}, window : Nat \ {0}, redis : BOOLEAN]

VARIABLES
    setup,      \* the installation, which stays as it is configured
    now,        \* Utc::now()
    users,      \* the table of the users, by id
    sessions,   \* the sessions that are stored, by token: [user, name], name as the token signs it
    letters,    \* mail that was sent or is in the outbox: [purpose, user, at, to, token]
    request,    \* what each client's request has come to
    issued,     \* tokens, sessions, states and signups are numbered as they are made
    begun,      \* how many requests have begun
    hits,       \* the limiter's times, by operation and address
    proven,     \* history: addresses for which a token mailed there came back, or an administrator vouched
    used,       \* history: the tokens that were consumed, in that order
    admitted    \* history: the times of the requests that passed the limiter

history == <<proven, used, admitted>>

Purposes == {"verify_email", "reset_password", "magic_link", "change_email"}
Blank == [token |-> 0, at |-> 0]
NewUser(name, password) ==
    [name |-> name, password |-> password, deleted |-> FALSE, verified |-> FALSE, external |-> FALSE, pending |-> None,
     slots |-> [p \in Purposes |-> Blank]]

Idle == [op |-> None, pc |-> "idle", name |-> None, token |-> 0, user |-> 0, row |-> 0, provider |-> None, letter |-> None, listed |-> {}]

(***************************************************************************)
(* Queries.  A username is unique, among deleted accounts too.             *)
(***************************************************************************)
Named(n) == {u \in DOMAIN users : users[u].name = n}
Live(n) == {u \in Named(n) : ~users[u].deleted}
Holding(p, t) == {u \in DOMAIN users : users[u].slots[p].token = t /\ ~users[u].deleted}
The(S) == CHOOSE x \in S : TRUE

\* A session in the table follows its account, one in Redis the name that it was opened with.
SessionName(t) == IF setup.redis THEN sessions[t].name ELSE users[sessions[t].user].name
SessionFound(t) == setup.redis \/ ~users[sessions[t].user].deleted
\* Mutant of Authenticates: the account is looked up by the name that the token signs, and the stored
\* session's own is not compared with it.
AuthenticatesByName(t) == t \in DOMAIN sessions /\ SessionFound(t) /\ Live(sessions[t].name) # {}

Authenticates(t) ==
    /\ t \in DOMAIN sessions /\ SessionFound(t)
    /\ Live(sessions[t].name) # {} /\ SessionName(t) = sessions[t].name

(***************************************************************************)
(* Mail.  A letter's key is its purpose, the account's name and the time:  *)
(* a second one with that key is dropped.                                  *)
(***************************************************************************)
Letter(p, name, at, to, t) == [purpose |-> p, user |-> name, at |-> at, to |-> to, token |-> t]
SameKey(l, m) == l.purpose = m.purpose /\ l.user = m.user /\ l.at = m.at
Enqueued(l) == IF \E m \in letters : SameKey(l, m) THEN letters ELSE letters \cup {l}

(***************************************************************************)
(* Statements: what a row becomes.                                         *)
(***************************************************************************)
WithToken(u, p, t, at) == [users EXCEPT ![u].slots[p] = [token |-> t, at |-> at]]
Added(row) == Append(users, row)
Registered(n, t) == Added([NewUser(n, "chosen") EXCEPT !.slots["verify_email"] = [token |-> t, at |-> now]])
Verified(u) == [users EXCEPT ![u] = [@ EXCEPT !.verified = TRUE, !.slots["verify_email"] = Blank]]
Pending(u, n, t) == [users EXCEPT ![u] = [@ EXCEPT !.pending = n, !.slots["change_email"] = [token |-> t, at |-> now]]]
Moved(u) ==
    [users EXCEPT ![u] = [@ EXCEPT !.name = users[u].pending, !.pending = None, !.verified = TRUE, !.slots["change_email"] = Blank]]
Updated(u, verified) == [users EXCEPT ![u].verified = verified]
Revived(u, password, verified) ==
    [users EXCEPT ![u] = [@ EXCEPT !.password = password, !.verified = verified, !.deleted = FALSE,
                                   !.slots = [p \in Purposes |-> IF p = "change_email" THEN users[u].slots[p] ELSE Blank]]]

Deleted(n) == IF Live(n) = {} THEN users ELSE [users EXCEPT ![The(Live(n))].deleted = TRUE]

(***************************************************************************)
(* Steps of a request.  What a client sends is chosen in the step that     *)
(* first looks at it.                                                      *)
(***************************************************************************)
Set(c, r) == request' = [request EXCEPT ![c] = r]
End(c) == Set(c, Idle)
Go(c, pc) == Set(c, [request[c] EXCEPT !.pc = pc])
At(c, op, pc) == request[c].op = op /\ request[c].pc = pc
Rest == UNCHANGED <<setup, now, begun, hits, admitted>>
Still == UNCHANGED <<users, sessions, letters, proven, used>>

\* new_token()
Token == issued + 1
Issue == issued < MaxTokens /\ issued' = Token
Issued == UNCHANGED issued

(***************************************************************************)
(* The HTTP interface.  A request is admitted by the limiter, which keeps  *)
(* a window for each path and address; then the service runs, for a bearer *)
(* with the check of the session.                                          *)
(***************************************************************************)
Method(op) ==
    CASE op = "delete_account" -> "DELETE"
      [] op \in {"oauth_authorize", "oauth_link", "oauth_callback"} -> "GET"
      [] OTHER -> "POST"
BearerOperations ==
    {"resend_verification", "delete_account", "change_password", "request_email_change", "oauth_link", "unlink"}
HitsOf(key) == IF key \in DOMAIN hits THEN hits[key] ELSE << >>

\* The memory forgets every client whose window is empty, Redis the times of the key that is asked for.
Swept(key, d) ==
    LET keep(k) == IF k = key THEN d.times ELSE IF setup.limit.redis THEN hits[k] ELSE Recent(hits[k], now, setup.limit.window)
        keys == {k \in DOMAIN hits \cup {key} : keep(k) # << >>}
    IN  [k \in keys |-> keep(k)]

Admit(c, r, key, d) ==
    /\ hits' = Swept(key, d)
    /\ Set(c, IF d.allowed THEN r ELSE Idle)
    /\ admitted' = IF d.allowed THEN Append(admitted, [key |-> key, at |-> now]) ELSE admitted

Begin(c) ==
    /\ request[c] = Idle /\ begun < setup.requests /\ begun' = begun + 1
    /\ \E op \in setup.ops, a \in Addresses :
          LET r == [Idle EXCEPT !.op = op, !.pc = IF op \in BearerOperations THEN "bearer" ELSE "start"]
              address == ResolveAddress(a.peer, a.forwarded)
          IN  IF ~Limited(setup.limit, Method(op)) THEN Set(c, r) /\ UNCHANGED <<hits, admitted>>
              ELSE IF address = None THEN End(c) /\ UNCHANGED <<hits, admitted>>
              ELSE Admit(c, r, <<op, address>>, Decision(HitsOf(<<op, address>>), now, setup.limit))
    /\ Still /\ Issued /\ UNCHANGED <<setup, now>>

\* current_user
Bearer(c) ==
    /\ request[c].pc = "bearer"
    /\ \E t \in DOMAIN sessions :
          IF Authenticates(t) THEN Set(c, [request[c] EXCEPT !.pc = "actor", !.name = sessions[t].name]) ELSE End(c)
    /\ Still /\ Issued /\ Rest

Found(c, u, pc) == Set(c, [request[c] EXCEPT !.pc = pc, !.name = users[u].name, !.user = u])

\* The account by its name; the password that the client sends is the account's or not, and nobody
\* has one that was made up for an external account.
FindUser(c, name, verify, pc) ==
    /\ IF Live(name) = {} THEN End(c)
       ELSE LET u == The(Live(name))
            IN  \/ (verify => users[u].password = "chosen") /\ Found(c, u, pc)
                \/ verify /\ End(c)
    /\ Still /\ Issued /\ Rest

(***************************************************************************)
(* Tokens by mail.  Durable mail is enqueued in the transaction that       *)
(* stores the token, other mail is sent after it and may fail.             *)
(***************************************************************************)
SentAt(p) == IF p = "magic_link" THEN now + MagicTtl ELSE now
PurposeOf(op) ==
    CASE op = "resend_verification" -> "verify_email" [] op = "forgot_password" -> "reset_password"
      [] op = "request_magic_link" -> "magic_link"

\* The row that set_..._with_mail updates: a verified account takes no verification token.
Takes(p, name) == {u \in Live(name) : p = "verify_email" => ~users[u].verified}

StoreWithMail(c, p, name, at) ==
    IF Takes(p, name) = {} THEN UNCHANGED <<users, letters>>
    ELSE /\ users' = WithToken(The(Takes(p, name)), p, Token, at)
         /\ letters' = Enqueued(Letter(p, name, at, name, Token))

StoreToken(p, name, at) == users' = IF Live(name) = {} THEN users ELSE WithToken(The(Live(name)), p, Token, at)

Store(c) ==
    LET r == request[c]
        p == PurposeOf(r.op)
    IN  /\ r.pc = "store" /\ Issue
        /\ \/ setup.durable /\ StoreWithMail(c, p, r.name, SentAt(p)) /\ End(c)
           \/ /\ ~setup.durable /\ StoreToken(p, r.name, SentAt(p)) /\ UNCHANGED letters
              /\ Set(c, [r EXCEPT !.pc = "send", !.letter = Letter(p, r.name, SentAt(p), r.name, Token)])
        /\ UNCHANGED <<sessions, proven, used>> /\ Rest

Send(c) ==
    /\ request[c].pc = "send"
    /\ letters' \in {letters, letters \cup {request[c].letter}}
    /\ End(c) /\ UNCHANGED <<users, sessions, proven, used>> /\ Issued /\ Rest

\* register_managed_user: a name that is taken, by a deleted account too, is a conflict.
RegisterManagedUser(c, n) ==
    LET letter == Letter("verify_email", n, now, n, Token)
    IN  IF Named(n) # {} THEN End(c) /\ Issued /\ UNCHANGED <<users, letters>>
        ELSE /\ Issue /\ users' = Registered(n, Token)
             /\ \/ setup.durable /\ letters' = Enqueued(letter) /\ End(c)
                \/ ~setup.durable /\ UNCHANGED letters /\ Set(c, [request[c] EXCEPT !.pc = "send", !.letter = letter])

Register(c) ==
    /\ At(c, "register", "start") /\ \E n \in setup.names : RegisterManagedUser(c, n)
    /\ UNCHANGED <<sessions, proven, used>> /\ Rest

\* forgot_password, request_magic_link
AskForToken(c) ==
    /\ At(c, "forgot_password", "start") \/ At(c, "request_magic_link", "start")
    /\ \E n \in setup.names : FindUser(c, n, FALSE, "store")

ResendVerification(c) ==
    /\ At(c, "resend_verification", "actor")
    /\ LET u == Live(request[c].name)
       IN  IF u = {} \/ users[The(u)].verified THEN End(c) /\ Still /\ Issued /\ Rest
           ELSE FindUser(c, request[c].name, FALSE, "store")

(***************************************************************************)
(* Tokens that come back.  A client has those that were mailed.            *)
(***************************************************************************)
Mailed(p) == {l.token : l \in {m \in letters : m.purpose = p}}
AddressesOf(t) == {l.to : l \in {m \in letters : m.token = t}}
Within(p, t, ttl) == {u \in Holding(p, t) : users[u].slots[p].at > now - ttl}
Consumed(t) == used' = Append(used, t)

\* Mutant of VerifyManagedEmail: the token stays where it is.
VerifyManagedEmailKeeps(c, t) ==
    LET found == Within("verify_email", t, VerifyTtl)
    IN  IF found = {} THEN UNCHANGED <<users, proven, used>>
        ELSE /\ users' = [users EXCEPT ![The(found)].verified = TRUE]
             /\ proven' = proven \cup AddressesOf(t) /\ Consumed(t)

VerifyManagedEmail(c, t) ==
    LET found == Within("verify_email", t, VerifyTtl)
    IN  IF found = {} THEN UNCHANGED <<users, proven, used>>
        ELSE /\ users' = Verified(The(found))
             /\ proven' = proven \cup AddressesOf(t) /\ Consumed(t)

VerifyEmail(c) ==
    /\ At(c, "verify_email", "start") /\ \E t \in Mailed("verify_email") : VerifyManagedEmail(c, t)
    /\ End(c) /\ UNCHANGED <<sessions, letters>> /\ Issued /\ Rest

\* A reset token does not expire.
FindByResetToken(c) ==
    /\ At(c, "reset_password", "start")
    /\ \E t \in Mailed("reset_password") :
          IF Holding("reset_password", t) = {} THEN End(c) ELSE Found(c, The(Holding("reset_password", t)), "password")
    /\ Still /\ Issued /\ Rest

\* The new password, for whatever account has the name by now; a pending reset is off.
ResetPassword(c) ==
    /\ request[c].pc = "password"
    /\ LET u == Live(request[c].name)
       IN  users' = IF u = {} THEN users
                    ELSE [users EXCEPT ![The(u)] = [@ EXCEPT !.password = "chosen", !.slots["reset_password"] = Blank]]
    /\ End(c) /\ UNCHANGED <<sessions, letters, proven, used>> /\ Issued /\ Rest

ChangePassword(c) == At(c, "change_password", "actor") /\ FindUser(c, request[c].name, TRUE, "password")

\* magic_link_expires_at is not before now.
FindByMagicLink(c) ==
    /\ At(c, "verify_magic_link", "start")
    /\ \E t \in Mailed("magic_link") :
          LET found == {u \in Holding("magic_link", t) : users[u].slots["magic_link"].at >= now}
          IN  IF found = {} THEN End(c) ELSE Found(c, The(found), "clear")
    /\ Still /\ Issued /\ Rest

ClearMagicLink(c) ==
    /\ request[c].pc = "clear"
    /\ LET u == Live(request[c].name)
       IN  users' = IF u = {} THEN users ELSE WithToken(The(u), "magic_link", 0, 0)
    /\ Go(c, "session") /\ UNCHANGED <<sessions, letters, proven, used>> /\ Issued /\ Rest

(***************************************************************************)
(* Sessions: the table takes the id of the account that has the name.      *)
(***************************************************************************)
Login(c) == At(c, "login", "start") /\ \E n \in setup.names : FindUser(c, n, TRUE, "session")

CreateSession(c) ==
    /\ request[c].pc = "session"
    /\ IF setup.redis THEN Set(c, [request[c] EXCEPT !.pc = "insert", !.row = request[c].user])
       ELSE IF Live(request[c].name) = {} THEN End(c)
       ELSE Set(c, [request[c] EXCEPT !.pc = "insert", !.row = The(Live(request[c].name))])
    /\ Still /\ Issued /\ Rest

InsertSession(c) ==
    /\ request[c].pc = "insert" /\ Issue
    /\ sessions' = [t \in DOMAIN sessions \cup {Token} |->
                       IF t = Token THEN [user |-> request[c].row, name |-> request[c].name] ELSE sessions[t]]
    /\ End(c) /\ UNCHANGED <<users, letters, proven, used>> /\ Rest

(***************************************************************************)
(* A change of address: asked for by the account, confirmed by whoever     *)
(* reads the mail at the new one.                                          *)
(***************************************************************************)
AskForChange(c) == At(c, "request_email_change", "actor") /\ FindUser(c, request[c].name, TRUE, "change")

\* Mutant of RequestEmailChange: a change that is pending keeps its token, and only the address is new.
RequestEmailChangeKeeps(c) ==
    LET r == request[c]
        found == Live(r.name)
        slot(u) == users[u].slots["change_email"].token
        t(u) == IF slot(u) = 0 THEN Token ELSE slot(u)
        letter(n) == Letter("change_email", r.name, now, n, Token)
    IN  /\ r.pc = "change"
        /\ \E n \in setup.names :
              IF found = {} \/ Live(n) # {} THEN End(c) /\ Issued /\ UNCHANGED <<users, letters>>
              ELSE /\ Issue /\ users' = Pending(The(found), n, t(The(found)))
                   /\ letters' = Enqueued(letter(n)) /\ End(c)
        /\ UNCHANGED <<sessions, proven, used>> /\ Rest

RequestEmailChange(c) ==
    LET r == request[c]
        found == Live(r.name)
        letter(n) == Letter("change_email", r.name, now, n, Token)
    IN  /\ r.pc = "change"
        /\ \E n \in setup.names :
              IF found = {} \/ Live(n) # {} THEN End(c) /\ Issued /\ UNCHANGED <<users, letters>>
              ELSE /\ Issue /\ users' = Pending(The(found), n, Token)
                   /\ \/ setup.durable /\ letters' = Enqueued(letter(n)) /\ End(c)
                      \/ ~setup.durable /\ UNCHANGED letters /\ Set(c, [r EXCEPT !.pc = "send", !.letter = letter(n)])
        /\ UNCHANGED <<sessions, proven, used>> /\ Rest

\* The name may have been taken since: then the statement fails and nothing changes.
ConfirmManagedChange(c, t) ==
    LET found == {u \in Within("change_email", t, ChangeTtl) : users[u].pending # None}
        u == The(found)
    IN  IF found = {} \/ Named(users[u].pending) \ {u} # {} THEN UNCHANGED <<users, proven, used>>
        ELSE /\ users' = Moved(u)
             /\ proven' = proven \cup AddressesOf(t) /\ Consumed(t)

ConfirmEmailChange(c) ==
    /\ At(c, "confirm_email_change", "start") /\ \E t \in Mailed("change_email") : ConfirmManagedChange(c, t)
    /\ End(c) /\ UNCHANGED <<sessions, letters>> /\ Issued /\ Rest

(***************************************************************************)
(* Leaving: the sessions are listed, the account is marked deleted, the    *)
(* sessions of the list are deleted one by one.                            *)
(***************************************************************************)
IsProtected(n) == n = Protected
SessionsOf(n) == {t \in DOMAIN sessions : SessionName(t) = n}
Without(t) == [s \in DOMAIN sessions \ {t} |-> sessions[s]]

LeaveCheck(c) ==
    /\ At(c, "delete_account", "actor")
    /\ \/ IsProtected(request[c].name) /\ End(c) /\ Still /\ Issued /\ Rest
       \/ ~IsProtected(request[c].name) /\ FindUser(c, request[c].name, TRUE, "list")

LeaveList(c) ==
    /\ request[c].pc = "list"
    /\ Set(c, [request[c] EXCEPT !.pc = "delete", !.listed = SessionsOf(request[c].name)])
    /\ Still /\ Issued /\ Rest

LeaveDelete(c) ==
    /\ request[c].pc = "delete"
    /\ users' = Deleted(request[c].name)
    /\ IF Live(request[c].name) = {} THEN End(c) ELSE Go(c, "purge")
    /\ UNCHANGED <<sessions, letters, proven, used>> /\ Issued /\ Rest

LeavePurge(c) ==
    LET r == request[c]
        t == The(r.listed)
    IN  /\ r.pc = "purge"
        /\ IF r.listed = {} THEN End(c) /\ UNCHANGED sessions
           ELSE /\ Set(c, [r EXCEPT !.listed = @ \ {t}])
                /\ sessions' = IF t \in SessionsOf(r.name) THEN Without(t) ELSE sessions
        /\ UNCHANGED <<users, letters, proven, used>> /\ Issued /\ Rest

(***************************************************************************)
(* Administration of the users.  Creating a user revives a deleted one of  *)
(* that name; deleting one leaves its sessions.                            *)
(***************************************************************************)
Vouched(n, verified) == proven' = IF verified THEN proven \cup {n} ELSE proven

AdminStart(c) ==
    /\ request[c].op \in {"admin_create", "admin_update"} /\ request[c].pc = "start"
    /\ \E n \in setup.names :
          IF (Live(n) = {}) = (request[c].op = "admin_create") THEN Set(c, [request[c] EXCEPT !.pc = "write", !.name = n]) ELSE End(c)
    /\ Still /\ Issued /\ Rest

CreateManagedUser(c) ==
    LET n == request[c].name
    IN  /\ At(c, "admin_create", "write")
        /\ \E verified \in BOOLEAN :
              IF Live(n) # {} THEN UNCHANGED <<users, proven>>
              ELSE /\ users' = IF Named(n) = {} THEN Added([NewUser(n, "chosen") EXCEPT !.verified = verified])
                               ELSE Revived(The(Named(n)), "chosen", verified)
                   /\ Vouched(n, verified)
        /\ End(c) /\ UNCHANGED <<sessions, letters, used>> /\ Issued /\ Rest

UpdateManagedUser(c) ==
    LET n == request[c].name
    IN  /\ At(c, "admin_update", "write")
        /\ \E verified \in BOOLEAN :
              IF Live(n) = {} THEN UNCHANGED <<users, proven>>
              ELSE users' = Updated(The(Live(n)), verified) /\ Vouched(n, verified)
        /\ End(c) /\ UNCHANGED <<sessions, letters, used>> /\ Issued /\ Rest

DeleteManagedUser(c) ==
    /\ At(c, "admin_delete", "start")
    /\ \E n \in setup.names : users' = IF IsProtected(n) THEN users ELSE Deleted(n)
    /\ End(c) /\ UNCHANGED <<sessions, letters, proven, used>> /\ Issued /\ Rest

Tick == now < setup.until /\ now' = now + 1 /\ UNCHANGED <<setup, users, sessions, letters, request, issued, begun, hits, history>>

AccountStep(c) ==
    \/ Begin(c) \/ Bearer(c) \/ Store(c) \/ Send(c) \/ Register(c) \/ AskForToken(c) \/ ResendVerification(c)
    \/ VerifyEmail(c) \/ FindByResetToken(c) \/ ResetPassword(c) \/ ChangePassword(c)
    \/ FindByMagicLink(c) \/ ClearMagicLink(c) \/ Login(c) \/ CreateSession(c) \/ InsertSession(c)
    \/ AskForChange(c) \/ RequestEmailChange(c) \/ ConfirmEmailChange(c)
    \/ LeaveCheck(c) \/ LeaveList(c) \/ LeaveDelete(c) \/ LeavePurge(c)
    \/ AdminStart(c) \/ CreateManagedUser(c) \/ UpdateManagedUser(c) \/ DeleteManagedUser(c)
=============================================================================
