------------------------------ MODULE Sessions ------------------------------
(***************************************************************************)
(* Sessions of the identity module: AuthAppService with its two stores,    *)
(* the sessions table (PostgreSQL and SQLite) and Redis.  A request checks *)
(* the signed token, reads the session, computes new times from its own    *)
(* clock and writes; other requests, the cleanup job and the clock move    *)
(* between any two of its statements.                                      *)
(***************************************************************************)
EXTENDS Integers, FiniteSets

CONSTANTS
    Clients,     \* requests in progress
    Stores,      \* the installations: RedisSessionRepository or the table, and a bound on
                 \* the tokens that are issued
    SlidingTtl,  \* session_policy.sliding_ttl
    Lifetime,    \* lifetime of a signed token, the maximum of a session
    Percent,     \* refresh_threshold_percent
    MaxTokens,   \* the largest of these bounds
    MaxNow       \* bound on the clock

ASSUME SessionsAssumption ==
    /\ Stores \subseteq [redis : BOOLEAN, tokens : 1 .. MaxTokens]
    /\ {SlidingTtl, Lifetime} \subseteq Nat \ {0}
    /\ {Percent, MaxTokens, MaxNow} \subseteq Nat

Tokens == 1 .. MaxTokens
Times == 0 .. MaxNow + Lifetime
Least(a, b) == IF a < b THEN a ELSE b

VARIABLES
    setup,     \* the installation, which stays as it is configured
    now,       \* Utc::now(), NOW()
    claims,    \* expiry in each signed token; 0 before it is issued
    store,     \* the stored sessions, by token
    index,     \* Redis: the set sessions:user:<username>
    request,   \* the request of each client
    login,     \* the first token of the login a token continues; 0 before it is issued
    born,      \* history: when a token was issued
    stored,    \* history: tokens whose session has been stored
    revoked,   \* history: the sessions (pid) a revoke_session has deleted
    unlisted   \* history: Redis tokens whose insertion was cut off, or written after deletion

\* sessions.backend, by which SessionRepositoryAdapter passes every call on.
Redis == setup.redis

vars == <<setup, now, claims, store, index, request, login, born, stored, revoked, unlisted>>
history == <<born, stored, revoked, unlisted>>

Idle == [pc |-> "idle", token |-> 0, fresh |-> 0, target |-> 0, expires |-> 0, max |-> 0]

Requests == [pc : {"idle", "insert", "index", "refresh", "refreshWrite", "renew", "delete",
                   "unindex", "drop", "revoke"},
             token : 0 .. MaxTokens, fresh : 0 .. MaxTokens, target : 0 .. MaxTokens,
             expires : Times, max : Times]

TypeOK ==
    /\ setup \in Stores
    /\ now \in 0 .. MaxNow
    /\ claims \in [Tokens -> Times]
    /\ DOMAIN store \subseteq Tokens
    /\ \A t \in DOMAIN store : store[t] \in [expires : Times, max : Times]
    /\ index \subseteq Tokens
    /\ request \in [Clients -> Requests]
    /\ login \in [Tokens -> 0 .. MaxTokens]
    /\ born \in [Tokens -> 0 .. MaxNow]
    /\ stored \subseteq Tokens /\ revoked \subseteq Tokens /\ unlisted \subseteq Tokens

Init ==
    /\ setup \in Stores
    /\ now = 0
    /\ claims = [t \in Tokens |-> 0]
    /\ store = <<>>
    /\ index = {}
    /\ request = [c \in Clients |-> Idle]
    /\ login = [t \in Tokens |-> 0]
    /\ born = [t \in Tokens |-> 0]
    /\ stored = {} /\ revoked = {} /\ unlisted = {}

Put(t, expires, max) ==
    store' = [u \in DOMAIN store \cup {t} |-> IF u = t THEN [expires |-> expires, max |-> max] ELSE store[u]]
Without(t) == [u \in DOMAIN store \ {t} |-> store[u]]

\* What find_by_token and exists see.
Valid(t) == t \in DOMAIN store /\ store[t].expires > now /\ store[t].max > now

\* verify_token: the signature is good and the token has not expired.
Verified(t) == claims[t] > now

\* The public id of a session: a table row keeps its pid when its token is
\* renewed, a Redis session gets a new one with every insert.
Pid(t) == IF Redis THEN t ELSE login[t]

Start(c, q) == request' = [request EXCEPT ![c] = q]
Finish(c) == Start(c, Idle)

\* Any error ends a request; the statements it has run stay.
Abort(c) ==
    /\ request[c].pc # "idle"
    /\ Finish(c)
    /\ unlisted' = IF request[c].pc = "index" THEN unlisted \cup {request[c].fresh} ELSE unlisted
    /\ UNCHANGED <<now, claims, store, index, login, born, stored, revoked>>

Tick ==
    /\ now < MaxNow
    /\ now' = now + 1
    /\ UNCHANGED <<claims, store, index, request, login, history>>

-----------------------------------------------------------------------------
(* Issuing a token                                                         *)

\* Tokens are numbered in the order in which they are issued.
Fresh(t) == t <= setup.tokens /\ login[t] = 0 /\ \A u \in Tokens : u < t => login[u] # 0

\* create_token, token_expiry and next_session_expires_at, all from the clock.
Issue(c, pc, old, t) ==
    /\ Fresh(t)
    /\ claims' = [claims EXCEPT ![t] = now + Lifetime]
    /\ login' = [login EXCEPT ![t] = IF old = 0 THEN t ELSE login[old]]
    /\ born' = [born EXCEPT ![t] = now]
    /\ Start(c, [Idle EXCEPT !.pc = pc, !.token = old, !.fresh = t,
                             !.expires = Least(now + SlidingTtl, now + Lifetime), !.max = now + Lifetime])
    /\ UNCHANGED <<now, store, index, stored, revoked, unlisted>>

\* create_session, at the end of a successful login.
CreateSession(c, t) ==
    /\ request[c].pc = "idle"
    /\ Issue(c, "insert", 0, t)

\* insert: a row, or a Redis key whose token then joins the user's set.
InsertSession(c) ==
    /\ request[c].pc = "insert"
    /\ Put(request[c].fresh, request[c].expires, request[c].max)
    /\ stored' = stored \cup {request[c].fresh}
    /\ Start(c, IF Redis THEN [request[c] EXCEPT !.pc = "index"] ELSE Idle)
    /\ UNCHANGED <<now, claims, index, login, born, revoked, unlisted>>

IndexSession(c) ==
    /\ request[c].pc = "index"
    /\ index' = index \cup {request[c].fresh}
    /\ Finish(c)
    /\ UNCHANGED <<now, claims, store, login, history>>

\* renew_session up to its write.
RenewSession(c, old, t) ==
    /\ request[c].pc = "idle"
    /\ Verified(old) /\ Valid(old)
    /\ Issue(c, "renew", old, t)

\* The mutated update adds the new token and leaves the old one.
UpdateTokenKeepsOld(c) ==
    LET q == request[c] IN
    /\ ~Redis /\ q.pc = "renew"
    /\ IF Valid(q.token)
       THEN Put(q.fresh, q.expires, q.max) /\ stored' = stored \cup {q.fresh}
       ELSE UNCHANGED <<store, stored>>
    /\ Finish(c)
    /\ UNCHANGED <<now, claims, index, login, born, revoked, unlisted>>

\* update_token of the table: one statement moves the row to the new token.
UpdateToken(c) ==
    LET q == request[c] IN
    /\ ~Redis /\ q.pc = "renew"
    /\ IF Valid(q.token)
       THEN /\ store' = [u \in (DOMAIN store \ {q.token}) \cup {q.fresh} |->
                           IF u = q.fresh THEN [expires |-> q.expires, max |-> q.max] ELSE store[u]]
            /\ stored' = stored \cup {q.fresh}
       ELSE UNCHANGED <<store, stored>>
    /\ Finish(c)
    /\ UNCHANGED <<now, claims, index, login, born, revoked, unlisted>>

\* update_token of Redis: finds the old session, then deletes it and inserts the new one.
UpdateTokenFind(c) ==
    /\ Redis /\ request[c].pc = "renew"
    /\ Start(c, IF Valid(request[c].token) THEN [request[c] EXCEPT !.pc = "delete"] ELSE Idle)
    /\ UNCHANGED <<now, claims, store, index, login, history>>

-----------------------------------------------------------------------------
(* current_user, alone and as the first step of revoke_session             *)

\* What follows once the session of the caller has been refreshed.
AfterRefresh(q) == IF q.target = 0 THEN Idle ELSE [Idle EXCEPT !.pc = "revoke", !.target = q.target]

\* Seconds left at which a session is refreshed.
RefreshAtOrBelow == (SlidingTtl * Percent) \div 100

\* Finds the session and, when little time is left, computes its next expiry;
\* target is the listed session that revoke_session is to delete, 0 for none.
CurrentUser(c, t, target) ==
    LET q == [Idle EXCEPT !.token = t, !.target = target] IN
    /\ request[c].pc = "idle"
    /\ Verified(t) /\ Valid(t)
    /\ target # 0 => target \in stored
    /\ Start(c, IF store[t].expires - now > RefreshAtOrBelow
                THEN AfterRefresh(q)
                ELSE [q EXCEPT !.pc = "refresh", !.expires = Least(now + SlidingTtl, store[t].max)])
    /\ UNCHANGED <<now, claims, store, index, login, history>>

\* The mutated update also touches a session that has run out.
RefreshAnyway(c) ==
    LET t == request[c].token IN
    /\ ~Redis /\ request[c].pc = "refresh"
    /\ IF t \in DOMAIN store
       THEN Put(t, Least(request[c].expires, store[t].max), store[t].max)
       ELSE UNCHANGED store
    /\ Start(c, AfterRefresh(request[c]))
    /\ UNCHANGED <<now, claims, index, login, history>>

\* refresh of the table: only while the session is valid, never past its maximum.
Refresh(c) ==
    LET t == request[c].token IN
    /\ ~Redis /\ request[c].pc = "refresh"
    /\ IF Valid(t)
       THEN Put(t, Least(request[c].expires, store[t].max), store[t].max)
       ELSE UNCHANGED store
    /\ Start(c, AfterRefresh(request[c]))
    /\ UNCHANGED <<now, claims, index, login, history>>

\* refresh of Redis: reads the session, caps the expiry, then sets the whole value.
RefreshFind(c) ==
    LET t == request[c].token IN
    /\ Redis /\ request[c].pc = "refresh"
    /\ Start(c, IF Valid(t)
                THEN [request[c] EXCEPT !.pc = "refreshWrite", !.max = store[t].max,
                                        !.expires = Least(@, store[t].max)]
                ELSE AfterRefresh(request[c]))
    /\ UNCHANGED <<now, claims, store, index, login, history>>

RefreshWrite(c) ==
    LET q == request[c] IN
    /\ q.pc = "refreshWrite"
    /\ Put(q.token, q.expires, q.max)
    /\ unlisted' = IF q.token \in DOMAIN store THEN unlisted ELSE unlisted \cup {q.token}
    /\ Start(c, AfterRefresh(q))
    /\ UNCHANGED <<now, claims, index, login, born, stored, revoked>>

\* find_by_token of Redis: an expired session is deleted once it has been read.
FindExpired(c, t) ==
    /\ Redis /\ request[c].pc = "idle"
    /\ Verified(t) /\ t \in DOMAIN store /\ ~Valid(t)
    /\ Start(c, [Idle EXCEPT !.pc = "drop", !.token = t])
    /\ UNCHANGED <<now, claims, store, index, login, history>>

DropExpired(c) ==
    /\ request[c].pc = "drop"
    /\ store' = Without(request[c].token)
    /\ Finish(c)
    /\ UNCHANGED <<now, claims, index, login, history>>

-----------------------------------------------------------------------------
(* Ending a session                                                        *)

\* logout deletes the session of a verified token.
Logout(c, t) ==
    /\ request[c].pc = "idle" /\ Verified(t)
    /\ Start(c, [Idle EXCEPT !.pc = "delete", !.token = t])
    /\ UNCHANGED <<now, claims, store, index, login, history>>

\* The rest of a Redis request that has deleted its session's key.
AfterDelete(q) == IF q.fresh = 0 THEN Idle ELSE [q EXCEPT !.pc = "insert"]

\* The mutated delete takes the token out of the set first.
DeleteSessionSetFirst(c) ==
    LET q == request[c] IN
    /\ q.pc \in {"delete", "unindex"}
    /\ IF Redis /\ q.pc = "delete" /\ Valid(q.token)
       THEN index' = index \ {q.token} /\ Start(c, [q EXCEPT !.pc = "unindex"]) /\ UNCHANGED store
       ELSE store' = Without(q.token) /\ Start(c, AfterDelete(q)) /\ UNCHANGED index
    /\ UNCHANGED <<now, claims, login, history>>

\* delete: the row, or the Redis key; the session read just before it only decides
\* whether its token is also taken out of the user's set.
DeleteSession(c) ==
    LET q == request[c] IN
    /\ q.pc = "delete"
    /\ store' = Without(q.token)
    /\ Start(c, IF Redis /\ Valid(q.token) THEN [q EXCEPT !.pc = "unindex"] ELSE AfterDelete(q))
    /\ UNCHANGED <<now, claims, index, login, history>>

UnindexSession(c) ==
    LET q == request[c] IN
    /\ q.pc = "unindex"
    /\ index' = index \ {q.token}
    /\ Start(c, AfterDelete(q))
    /\ UNCHANGED <<now, claims, store, login, history>>

\* delete_for_user of the table: by pid, whichever token the row has by now.
RevokeSession(c) ==
    LET target == request[c].target IN
    /\ ~Redis /\ request[c].pc = "revoke"
    /\ store' = [t \in {u \in DOMAIN store : Pid(u) # Pid(target)} |-> store[t]]
    /\ revoked' = IF \E u \in DOMAIN store : Pid(u) = Pid(target)
                  THEN revoked \cup {Pid(target)} ELSE revoked
    /\ Finish(c)
    /\ UNCHANGED <<now, claims, index, login, born, stored, unlisted>>

\* delete_for_user of Redis: the valid session with that pid among the user's set.
RevokeSessionFind(c) ==
    LET target == request[c].target IN
    /\ Redis /\ request[c].pc = "revoke"
    /\ Start(c, IF target \in index /\ Valid(target)
                THEN [Idle EXCEPT !.pc = "delete", !.token = target]
                ELSE Idle)
    /\ UNCHANGED <<now, claims, store, index, login, history>>

\* The cleanup job deletes what has expired; a Redis key disappears by itself.
DeleteExpired ==
    LET expired == {t \in DOMAIN store : store[t].expires < now \/ store[t].max < now} IN
    /\ expired # {}
    /\ store' = [t \in DOMAIN store \ expired |-> store[t]]
    /\ UNCHANGED <<now, claims, index, request, login, history>>

Step ==
    \/ Tick
    \/ DeleteExpired
    \/ \E c \in Clients :
        \/ Abort(c)
        \/ InsertSession(c)
        \/ IndexSession(c)
        \/ UpdateToken(c)
        \/ UpdateTokenFind(c)
        \/ Refresh(c)
        \/ RefreshFind(c)
        \/ RefreshWrite(c)
        \/ DropExpired(c)
        \/ DeleteSession(c)
        \/ UnindexSession(c)
        \/ RevokeSession(c)
        \/ RevokeSessionFind(c)
        \/ \E t \in Tokens :
            \/ CreateSession(c, t)
            \/ \E old \in Tokens : RenewSession(c, old, t)
            \/ \E target \in 0 .. MaxTokens : CurrentUser(c, t, target)
            \/ FindExpired(c, t)
            \/ Logout(c, t)

Next == Step /\ UNCHANGED setup

Spec == Init /\ [][Next]_vars

-----------------------------------------------------------------------------
(* Properties                                                              *)

\* A session ends in time and stays ended.  What is stored expires by its own maximum,
\* which lies within the lifetime that began when its token was issued (create_session,
\* renew_session): refreshing, however late the write lands, does not stretch it.  And
\* in the table a session that has ended - logged out, revoked, renewed away, expired
\* or cleaned up - never becomes valid again, although a request that saw it valid may
\* still write (refresh, update_token).
EndedStaysEnded ==
    [][/\ \A t \in DOMAIN store' :
            /\ store'[t].expires <= store'[t].max
            /\ store'[t].max <= born'[t] + Lifetime
       /\ ~Redis => \A t \in stored : ~Valid(t) => ~Valid(t)']_vars

\* In the table, concurrent renewals of one session leave at most one valid token:
\* the update of the row is the point where one of them wins.  Once revoke_session
\* has succeeded none is valid again, not even that of a renewal that was under way.
RenewalsDoNotFork ==
    ~Redis => \A t, u \in Tokens :
        Valid(t) => /\ Valid(u) /\ login[t] = login[u] => t = u
                    /\ Pid(t) \notin revoked

\* In Redis, every valid session is in the set that list_for_user reads, so that it
\* can be listed and revoked, except when its insert is between its two commands or
\* was cut off there, or when a refresh wrote it back after it had been deleted.
ListedUnlessRaced ==
    Redis => \A t \in Tokens :
        Valid(t) => \/ t \in index \cup unlisted
                    \/ \E c \in Clients : request[c].pc = "index" /\ request[c].fresh = t

=============================================================================
