--------------------------- MODULE SessionsProofs ---------------------------
(***************************************************************************)
(* For any number of concurrent requests, tokens and any length of time:   *)
(* renewals do not fork a session of the table and a revoked one does not  *)
(* come back, what has ended stays ended and keeps its maximum, and Redis  *)
(* loses a session from the user's set only in the races it is known for.  *)
(***************************************************************************)
EXTENDS Sessions, TLAPS

\* A request that has issued a token whose session it is still to store.
Waits(q) == q.pc \in {"insert", "renew"} \/ (q.pc \in {"delete", "unindex"} /\ q.fresh # 0)

\* The token that waits is issued, not yet stored, and its times are those of its issue.
FreshSound(q) ==
    Waits(q) => /\ q.fresh \in Tokens \ stored /\ login[q.fresh] # 0
                /\ q.expires <= q.max /\ q.max <= born[q.fresh] + Lifetime

\* What a request works on: a renewal continues a login, an insertion into the table begins
\* one, the value that Redis is to write back is within its maximum, and a token that is about
\* to leave the user's set has no session, or one that was written back.
WorkSound(q) ==
    /\ q.pc = "renew" => q.token \in Tokens /\ login[q.token] = login[q.fresh]
    /\ q.pc = "insert" /\ ~Redis => \A u \in Tokens : login[u] = q.fresh <=> u = q.fresh
    /\ q.pc = "refresh" => q.token \in Tokens
    /\ q.pc = "refreshWrite" => /\ q.token \in stored
                                /\ q.expires <= q.max /\ q.max <= born[q.token] + Lifetime
    /\ q.pc = "index" => q.fresh \in Tokens
    /\ q.pc = "unindex" => q.token \in stored /\ (q.token \in DOMAIN store => q.token \in unlisted)

\* Steps that only Redis takes.
RedisOnly(q) ==
    q.pc \in {"index", "unindex", "drop", "refreshWrite"} \/ (q.pc = "delete" /\ q.fresh # 0) => Redis

RequestsSound == \A c \in Clients : FreshSound(request[c]) /\ WorkSound(request[c]) /\ RedisOnly(request[c])

\* No two requests wait to store the same token.
FreshDistinct ==
    \A c, d \in Clients : Waits(request[c]) /\ Waits(request[d]) /\ request[c].fresh = request[d].fresh => c = d

\* Only issued tokens verify, are stored or belong to a revoked session.
HistoriesAgree ==
    /\ \A t \in Tokens : claims[t] # 0 => login[t] # 0
    /\ \A t \in Tokens : login[t] # 0 => login[login[t]] # 0
    /\ \A t \in stored : login[t] # 0
    /\ DOMAIN store \subseteq stored
    /\ \A r \in revoked : \E u \in stored : login[u] = r

\* What is stored expires by its maximum, within the lifetime of its token.
WithinLifetime ==
    \A t \in DOMAIN store : store[t].expires <= store[t].max /\ store[t].max <= born[t] + Lifetime

\* The table has one row for each login, and none for a revoked one.
OneRowEach ==
    ~Redis => /\ \A t, u \in DOMAIN store : login[t] = login[u] => t = u
              /\ \A t \in DOMAIN store : login[t] \notin revoked

\* Redis can list what it stores, but for the races.
StoredIsListed ==
    Redis => \A t \in DOMAIN store : \/ t \in index \cup unlisted
                                     \/ \E c \in Clients : request[c].pc = "index" /\ request[c].fresh = t

IInv ==
    /\ TypeOK
    /\ RequestsSound /\ FreshDistinct /\ HistoriesAgree
    /\ WithinLifetime /\ OneRowEach /\ StoredIsListed

-----------------------------------------------------------------------------
(* Facts about every step                                                  *)

\* The requests that a step leaves alone stay sound.
LEMMA OthersStaySound ==
    ASSUME RequestsSound, FreshDistinct, HistoriesAgree, TypeOK, NEW c \in Clients, Redis <=> Redis',
           \A d \in Clients : d # c => request'[d] = request[d],
           \A t \in Tokens : login[t] # 0 => login'[t] = login[t] /\ born'[t] = born[t],
           \A t \in Tokens : login[t] = 0 => \/ login'[t] \in {0, t}
                                             \/ \E u \in stored : login'[t] = login[u],
           stored \subseteq stored',
           \A t \in stored' \ stored : Waits(request[c]) /\ t = request[c].fresh,
           unlisted \subseteq unlisted',
           \A t \in DOMAIN store' \ DOMAIN store : t \in unlisted' \/ t \notin stored
    PROVE  \A d \in Clients \ {c} : FreshSound(request[d])' /\ WorkSound(request[d])' /\ RedisOnly(request[d])'
<1> SUFFICES ASSUME NEW d \in Clients, d # c
             PROVE  FreshSound(request[d])' /\ WorkSound(request[d])' /\ RedisOnly(request[d])'
  OBVIOUS
<1>1. FreshSound(request[d]) /\ WorkSound(request[d]) /\ RedisOnly(request[d]) /\ request'[d] = request[d]
  BY DEF RequestsSound
<1>2. stored \subseteq Tokens /\ request[d] \in Requests
  BY DEF TypeOK
<1>3. FreshSound(request[d])'
  BY <1>1, <1>2 DEF FreshSound, Waits, FreshDistinct
<1>4. WorkSound(request[d])'
  <2>1. (request[d].pc = "renew" => request[d].token \in Tokens /\ login[request[d].token] = login[request[d].fresh])'
    BY <1>1, <1>2 DEF WorkSound, FreshSound, Waits
  <2>2. (request[d].pc = "insert" /\ ~Redis => \A u \in Tokens : login[u] = request[d].fresh <=> u = request[d].fresh)'
    BY <1>1, <1>2 DEF WorkSound, FreshSound, Waits
  <2> QED BY <1>1, <1>2, <2>1, <2>2 DEF WorkSound, FreshSound, Waits, HistoriesAgree
<1>5. RedisOnly(request[d])'
  BY <1>1 DEF RedisOnly
<1> QED BY <1>3, <1>4, <1>5

\* With the request that moves, all are sound and wait for different tokens.
LEMMA RequestsAdvance ==
    ASSUME RequestsSound, FreshDistinct, HistoriesAgree, TypeOK, NEW c \in Clients, Redis <=> Redis',
           request' = [request EXCEPT ![c] = request'[c]],
           \A t \in Tokens : login[t] # 0 => login'[t] = login[t] /\ born'[t] = born[t],
           \A t \in Tokens : login[t] = 0 => \/ login'[t] \in {0, t}
                                             \/ \E u \in stored : login'[t] = login[u],
           stored \subseteq stored',
           \A t \in stored' \ stored : Waits(request[c]) /\ t = request[c].fresh,
           unlisted \subseteq unlisted',
           \A t \in DOMAIN store' \ DOMAIN store : t \in unlisted' \/ t \notin stored,
           FreshSound(request[c])', WorkSound(request[c])', RedisOnly(request[c])',
           Waits(request'[c]) => \/ login[request'[c].fresh] = 0
                                 \/ Waits(request[c]) /\ request'[c].fresh = request[c].fresh
    PROVE  RequestsSound' /\ FreshDistinct'
<1>1. \A d \in Clients : d # c => request'[d] = request[d]
  BY DEF TypeOK
<1>2. \A d \in Clients \ {c} : FreshSound(request[d])' /\ WorkSound(request[d])' /\ RedisOnly(request[d])'
  BY <1>1, OthersStaySound
<1>3. RequestsSound'
  BY <1>2 DEF RequestsSound
<1>4. FreshDistinct'
  <2>1. \A d \in Clients : Waits(request[d]) => login[request[d].fresh] # 0
    BY DEF RequestsSound, FreshSound
  <2> QED BY <1>1, <2>1 DEF FreshDistinct, Waits
<1> QED BY <1>3, <1>4

\* A step that moves one request and leaves everything else alone.
LEMMA RequestOnly ==
    ASSUME IInv, NEW c \in Clients,
           request' = [request EXCEPT ![c] = request'[c]], request'[c] \in Requests,
           UNCHANGED <<setup, now, claims, store, index, login, born, stored, revoked, unlisted>>,
           request[c].pc # "index",
           FreshSound(request'[c]), WorkSound(request'[c]), RedisOnly(request'[c]),
           Waits(request'[c]) => Waits(request[c]) /\ request'[c].fresh = request[c].fresh
    PROVE  IInv'
<1> USE DEF IInv
<1>1. Redis <=> Redis'
  BY DEF Redis
<1>2. TypeOK'
  BY DEF TypeOK
<1>3. FreshSound(request[c])' /\ WorkSound(request[c])' /\ RedisOnly(request[c])'
  BY <1>1 DEF FreshSound, WorkSound, RedisOnly, Waits
<1>4. RequestsSound' /\ FreshDistinct'
  BY <1>1, <1>3, RequestsAdvance
<1>5. HistoriesAgree' /\ WithinLifetime' /\ OneRowEach'
  BY <1>1 DEF HistoriesAgree, WithinLifetime, OneRowEach
<1>6. StoredIsListed'
  <2>1. \A d \in Clients : request[d].pc = "index" => request'[d] = request[d]
    BY DEF TypeOK
  <2> QED BY <1>1, <2>1 DEF StoredIsListed
<1> QED BY <1>2, <1>4, <1>5, <1>6

-----------------------------------------------------------------------------
(* The actions                                                             *)

\* What the constants are.
LEMMA ConstantsTyped ==
    /\ SlidingTtl \in Nat /\ Lifetime \in Nat /\ Percent \in Nat /\ MaxTokens \in Nat /\ MaxNow \in Nat
    /\ 0 \in 0 .. MaxTokens /\ 0 \in Times /\ Tokens \subseteq 0 .. MaxTokens
BY SessionsAssumption DEF Times, Tokens

\* The empty request, and what follows a refresh, is a request that waits for nothing.
LEMMA IdleSound == Idle \in Requests /\ FreshSound(Idle) /\ WorkSound(Idle) /\ RedisOnly(Idle) /\ ~Waits(Idle)
<1>1. Idle \in Requests
  BY ConstantsTyped DEF Idle, Requests
<1>2. Idle.pc = "idle"
  BY DEF Idle
<1> QED BY <1>1, <1>2 DEF FreshSound, WorkSound, RedisOnly, Waits

\* A request that is to delete or to drop the session of a token.
LEMMA EndingSound ==
    ASSUME NEW t \in 0 .. MaxTokens, NEW pc \in {"delete", "drop"}, pc = "drop" => Redis,
           NEW q, q = [Idle EXCEPT !.pc = pc, !.token = t]
    PROVE  q \in Requests /\ FreshSound(q) /\ WorkSound(q) /\ RedisOnly(q) /\ ~Waits(q)
<1>1. q \in Requests
  BY ConstantsTyped DEF Idle, Requests
<1>2. q.pc = pc /\ q.fresh = 0
  BY DEF Idle
<1> QED BY <1>1, <1>2 DEF FreshSound, WorkSound, RedisOnly, Waits

LEMMA AfterRefreshSound ==
    ASSUME NEW q \in Requests
    PROVE  /\ AfterRefresh(q) \in Requests /\ FreshSound(AfterRefresh(q)) /\ WorkSound(AfterRefresh(q))
           /\ RedisOnly(AfterRefresh(q)) /\ ~Waits(AfterRefresh(q)) /\ AfterRefresh(q).pc \in {"idle", "revoke"}
<1>1. AfterRefresh(q) \in Requests
  BY ConstantsTyped DEF AfterRefresh, Idle, Requests
<1>2. AfterRefresh(q).pc \in {"idle", "revoke"}
  BY DEF AfterRefresh, Idle
<1> QED BY <1>1, <1>2 DEF FreshSound, WorkSound, RedisOnly, Waits

LEMMA UpdateTokenFindStep ==
    ASSUME IInv, NEW c \in Clients, UpdateTokenFind(c), UNCHANGED setup PROVE IInv'
<1> DEFINE r == request[c]
<1>1. /\ r \in Requests /\ r.pc = "renew" /\ Redis /\ FreshSound(r) /\ WorkSound(r) /\ Waits(r)
      /\ request' = [request EXCEPT ![c] = IF Valid(r.token) THEN [r EXCEPT !.pc = "delete"] ELSE Idle]
  BY DEF IInv, TypeOK, UpdateTokenFind, Start, RequestsSound, Waits
<1>2. request'[c] = IF Valid(r.token) THEN [r EXCEPT !.pc = "delete"] ELSE Idle
  BY <1>1 DEF IInv, TypeOK
<1>3. request'[c] \in Requests
  BY <1>1, <1>2, IdleSound DEF Requests
<1>4. FreshSound(request'[c]) /\ WorkSound(request'[c]) /\ RedisOnly(request'[c])
  BY <1>1, <1>2, IdleSound DEF FreshSound, WorkSound, RedisOnly, Waits, Requests
<1>5. Waits(request'[c]) => request'[c].fresh = r.fresh
  BY <1>1, <1>2, IdleSound DEF Requests
<1> QED BY <1>1, <1>2, <1>3, <1>4, <1>5, RequestOnly DEF UpdateTokenFind, history

LEMMA CurrentUserStep ==
    ASSUME IInv, NEW c \in Clients, NEW t \in Tokens, NEW target \in 0 .. MaxTokens,
           CurrentUser(c, t, target), UNCHANGED setup
    PROVE  IInv'
<1> DEFINE q == [Idle EXCEPT !.token = t, !.target = target]
           e == Least(now + SlidingTtl, store[t].max)
<1>1. q \in Requests
  BY ConstantsTyped DEF Idle, Requests
<1>2. e \in Times
  BY SessionsAssumption DEF CurrentUser, Valid, IInv, TypeOK, Least, Times
<1>3. [q EXCEPT !.pc = "refresh", !.expires = e] \in Requests
  BY <1>1, <1>2 DEF Requests
<1>4. /\ request[c].pc = "idle"
      /\ request' = [request EXCEPT ![c] = request'[c]]
      /\ \/ request'[c] = AfterRefresh(q)
         \/ request'[c] = [q EXCEPT !.pc = "refresh", !.expires = e]
  BY DEF CurrentUser, Start, IInv, TypeOK
<1>5. /\ FreshSound([q EXCEPT !.pc = "refresh", !.expires = e]) /\ WorkSound([q EXCEPT !.pc = "refresh", !.expires = e])
      /\ RedisOnly([q EXCEPT !.pc = "refresh", !.expires = e]) /\ ~Waits([q EXCEPT !.pc = "refresh", !.expires = e])
  BY <1>1 DEF FreshSound, WorkSound, RedisOnly, Waits, Idle, Requests
<1>6. /\ request'[c] \in Requests /\ FreshSound(request'[c]) /\ WorkSound(request'[c])
      /\ RedisOnly(request'[c]) /\ ~Waits(request'[c])
  BY <1>1, <1>3, <1>4, <1>5, AfterRefreshSound
<1> QED BY <1>4, <1>6, RequestOnly DEF CurrentUser, history

LEMMA RefreshFindStep ==
    ASSUME IInv, NEW c \in Clients, RefreshFind(c), UNCHANGED setup PROVE IInv'
<1> DEFINE r == request[c]
           w == [r EXCEPT !.pc = "refreshWrite", !.max = store[r.token].max, !.expires = Least(@, store[r.token].max)]
<1>1. r \in Requests /\ r.pc = "refresh" /\ Redis /\ WorkSound(r)
  BY DEF IInv, TypeOK, RefreshFind, RequestsSound
<1>2. /\ request' = [request EXCEPT ![c] = request'[c]]
      /\ request'[c] = IF Valid(r.token) THEN w ELSE AfterRefresh(r)
  BY DEF RefreshFind, Start, IInv, TypeOK
<1>3. ASSUME Valid(r.token)
      PROVE  w \in Requests /\ FreshSound(w) /\ WorkSound(w) /\ RedisOnly(w) /\ ~Waits(w)
  <2>1. r.token \in DOMAIN store /\ store[r.token] \in [expires : Times, max : Times] /\ r.expires \in Times
    BY <1>1, <1>3 DEF Valid, IInv, TypeOK, Requests
  <2>2. Least(r.expires, store[r.token].max) \in Times /\ Least(r.expires, store[r.token].max) <= store[r.token].max
    BY <2>1, SessionsAssumption DEF Least, Times
  <2>3. w \in Requests
    BY <1>1, <2>1, <2>2 DEF Requests
  <2>4. r.token \in stored /\ store[r.token].max <= born[r.token] + Lifetime
    BY <2>1 DEF IInv, HistoriesAgree, WithinLifetime
  <2> QED BY <1>1, <2>2, <2>3, <2>4 DEF FreshSound, WorkSound, RedisOnly, Waits, Requests
<1>4. /\ request'[c] \in Requests /\ FreshSound(request'[c]) /\ WorkSound(request'[c])
      /\ RedisOnly(request'[c]) /\ ~Waits(request'[c])
  BY <1>1, <1>2, <1>3, AfterRefreshSound
<1> QED BY <1>1, <1>2, <1>4, RequestOnly DEF RefreshFind, history

\* FindExpired, Logout and RevokeSessionFind begin to delete a session.
LEMMA BeginEndStep ==
    ASSUME IInv, NEW c \in Clients, UNCHANGED setup,
           (\E t \in Tokens : FindExpired(c, t) \/ Logout(c, t)) \/ RevokeSessionFind(c)
    PROVE  IInv'
<1>1. /\ request[c].pc \in {"idle", "revoke"} /\ request \in [Clients -> Requests]
      /\ UNCHANGED <<now, claims, store, index, login, born, stored, revoked, unlisted>>
  BY DEF FindExpired, Logout, RevokeSessionFind, history, IInv, TypeOK
<1>2. PICK q : /\ request' = [request EXCEPT ![c] = q]
               /\ \/ q = Idle
                  \/ \E t \in 0 .. MaxTokens, pc \in {"delete", "drop"} :
                        q = [Idle EXCEPT !.pc = pc, !.token = t] /\ (pc = "drop" => Redis)
  <2>1. CASE \E t \in Tokens : FindExpired(c, t) \/ Logout(c, t)
    BY <2>1, ConstantsTyped DEF FindExpired, Logout, Start
  <2>2. CASE RevokeSessionFind(c)
    <3>1. request[c].target \in 0 .. MaxTokens
      BY <1>1 DEF Requests
    <3> QED BY <2>2, <3>1 DEF RevokeSessionFind, Start
  <2> QED BY <2>1, <2>2
<1>3. q \in Requests /\ FreshSound(q) /\ WorkSound(q) /\ RedisOnly(q) /\ ~Waits(q)
  <2>1. CASE q = Idle
    BY <2>1, IdleSound
  <2>2. CASE q # Idle
    <3>1. PICK t \in 0 .. MaxTokens, pc \in {"delete", "drop"} :
              q = [Idle EXCEPT !.pc = pc, !.token = t] /\ (pc = "drop" => Redis)
      BY <1>2, <2>2
    <3> QED BY <3>1, EndingSound
  <2> QED BY <2>1, <2>2
<1>4. request'[c] = q /\ request' = [request EXCEPT ![c] = request'[c]]
  BY <1>1, <1>2
<1> QED BY <1>1, <1>3, <1>4, RequestOnly

\* A token is issued, for a login or for a renewal of a stored session.
LEMMA IssueStep ==
    ASSUME IInv, NEW c \in Clients, NEW t \in Tokens, NEW old \in 0 .. MaxTokens, NEW pc \in {"insert", "renew"},
           request[c].pc = "idle", Issue(c, pc, old, t), UNCHANGED setup,
           pc = "insert" => old = 0, pc = "renew" => old \in stored
    PROVE  IInv'
<1> DEFINE q == [Idle EXCEPT !.pc = pc, !.token = old, !.fresh = t,
                             !.expires = Least(now + SlidingTtl, now + Lifetime), !.max = now + Lifetime]
<1> USE DEF IInv
<1>1. /\ request' = [request EXCEPT ![c] = q] /\ request'[c] = q
      /\ claims' = [claims EXCEPT ![t] = now + Lifetime]
      /\ login' = [login EXCEPT ![t] = IF old = 0 THEN t ELSE login[old]]
      /\ born' = [born EXCEPT ![t] = now]
      /\ login[t] = 0
      /\ UNCHANGED <<now, store, index, stored, revoked, unlisted, setup>>
  BY DEF Issue, Start, Fresh, TypeOK
<1>2. Redis <=> Redis'
  BY DEF Redis
<1>3. /\ t \notin stored /\ t # 0 /\ now \in Nat /\ now <= MaxNow
      /\ login \in [Tokens -> 0 .. MaxTokens] /\ born \in [Tokens -> 0 .. MaxNow] /\ claims \in [Tokens -> Times]
      /\ stored \subseteq Tokens
  BY <1>1, ConstantsTyped DEF TypeOK, HistoriesAgree, Tokens
<1>4. /\ now + Lifetime \in Times /\ Least(now + SlidingTtl, now + Lifetime) \in Times
      /\ Least(now + SlidingTtl, now + Lifetime) <= now + Lifetime
  BY <1>3, ConstantsTyped DEF Least, Times
<1>5. q \in Requests
  BY <1>4, ConstantsTyped DEF Idle, Requests
<1>6. /\ q.pc = pc /\ q.token = old /\ q.fresh = t /\ q.max = now + Lifetime
      /\ q.expires = Least(now + SlidingTtl, now + Lifetime)
  BY DEF Idle
<1> HIDE DEF q
<1>7. /\ \A u \in Tokens : u # t => login'[u] = login[u] /\ born'[u] = born[u] /\ claims'[u] = claims[u]
      /\ login'[t] = (IF old = 0 THEN t ELSE login[old]) /\ born'[t] = now
  BY <1>1, <1>3
<1>8. /\ old # 0 => old \in stored /\ login[old] # 0 /\ old # t
      /\ old = 0 <=> pc = "insert"
      /\ login'[t] # 0 /\ login'[t] \in 0 .. MaxTokens
  BY <1>3, <1>7, ConstantsTyped DEF HistoriesAgree, Tokens
<1>9. TypeOK'
  <2>1. request' \in [Clients -> Requests]
    BY <1>1, <1>5 DEF TypeOK
  <2>2. claims' \in [Tokens -> Times] /\ born' \in [Tokens -> 0 .. MaxNow]
    BY <1>1, <1>3, <1>4, ConstantsTyped
  <2>3. login' \in [Tokens -> 0 .. MaxTokens]
    BY <1>1, <1>3, <1>7, <1>8
  <2> QED BY <1>1, <2>1, <2>2, <2>3 DEF TypeOK
<1>10. FreshSound(request[c])'
  BY <1>1, <1>3, <1>4, <1>6, <1>7, <1>8, ConstantsTyped DEF FreshSound
<1>11. WorkSound(request[c])'
  <2>1. \A u \in Tokens : login[u] # t
    BY <1>1, <1>3 DEF HistoriesAgree
  <2> QED BY <1>1, <1>2, <1>3, <1>6, <1>7, <1>8, <2>1 DEF WorkSound
<1>12. RedisOnly(request[c])'
  BY <1>1, <1>6 DEF RedisOnly
<1>13. RequestsSound' /\ FreshDistinct'
  <2>1. /\ \A u \in Tokens : login[u] # 0 => login'[u] = login[u] /\ born'[u] = born[u]
        /\ \A u \in Tokens : login[u] = 0 => \/ login'[u] \in {0, u}
                                             \/ \E w \in stored : login'[u] = login[w]
    BY <1>1, <1>7, <1>8
  <2>2. stored' = stored /\ unlisted' = unlisted /\ store' = store
    BY <1>1
  <2>3. request' = [request EXCEPT ![c] = request'[c]] /\ login[request'[c].fresh] = 0
    BY <1>1, <1>6
  <2> QED BY <1>2, <1>10, <1>11, <1>12, <2>1, <2>2, <2>3, RequestsAdvance
<1>14. HistoriesAgree'
  <2>1. \A u \in Tokens : login'[u] # 0 => login'[login'[u]] # 0
    <3> SUFFICES ASSUME NEW u \in Tokens, login'[u] # 0 PROVE login'[login'[u]] # 0
      OBVIOUS
    <3>1. CASE u # t
      BY <1>3, <1>7, <3>1, <1>8 DEF HistoriesAgree, Tokens
    <3>2. CASE u = t /\ old = 0
      BY <1>7, <1>8, <3>2
    <3>3. CASE u = t /\ old # 0
      <4>1. login[old] \in Tokens /\ login[login[old]] # 0
        BY <1>3, <1>8, <3>3, ConstantsTyped DEF HistoriesAgree, Tokens
      <4> QED BY <1>1, <1>7, <3>3, <4>1
    <3> QED BY <3>1, <3>2, <3>3
  <2>2. \A u \in Tokens : claims'[u] # 0 => login'[u] # 0
    BY <1>7, <1>8 DEF HistoriesAgree
  <2>3. \A u \in stored : login'[u] = login[u]
    BY <1>3, <1>7
  <2> QED BY <1>1, <2>1, <2>2, <2>3 DEF HistoriesAgree
<1>15. \A u \in DOMAIN store : login'[u] = login[u] /\ born'[u] = born[u]
  BY <1>3, <1>7 DEF HistoriesAgree
<1>16. WithinLifetime' /\ OneRowEach'
  BY <1>1, <1>2, <1>15 DEF WithinLifetime, OneRowEach
<1>17. StoredIsListed'
  <2>1. \A d \in Clients : request[d].pc = "index" => request'[d] = request[d]
    BY <1>1 DEF TypeOK
  <2> QED BY <1>1, <1>2, <2>1 DEF StoredIsListed
<1> QED BY <1>9, <1>13, <1>14, <1>16, <1>17

LEMMA CreateSessionStep ==
    ASSUME IInv, NEW c \in Clients, NEW t \in Tokens, CreateSession(c, t), UNCHANGED setup PROVE IInv'
BY IssueStep, ConstantsTyped DEF CreateSession

LEMMA RenewSessionStep ==
    ASSUME IInv, NEW c \in Clients, NEW t \in Tokens, NEW old \in Tokens, RenewSession(c, old, t), UNCHANGED setup
    PROVE  IInv'
<1>1. old \in stored /\ old \in 0 .. MaxTokens
  BY ConstantsTyped DEF RenewSession, Valid, IInv, HistoriesAgree
<1> QED BY <1>1, IssueStep DEF RenewSession

\* The steps that store, move or delete sessions keep what is known of the tokens.
LEMMA StoreStep ==
    ASSUME IInv, NEW c \in Clients, UNCHANGED <<setup, now, claims, login, born>>,
           request' = [request EXCEPT ![c] = request'[c]], request'[c] \in Requests,
           \A t \in DOMAIN store' : store'[t] \in [expires : Times, max : Times],
           \A t \in DOMAIN store' : store'[t].expires <= store'[t].max /\ store'[t].max <= born[t] + Lifetime,
           DOMAIN store' \subseteq stored', stored \subseteq stored',
           \A t \in stored' \ stored : Waits(request[c]) /\ t = request[c].fresh,
           index' \subseteq Tokens, unlisted \subseteq unlisted', unlisted' \subseteq Tokens,
           \A r \in revoked' \ revoked : \E u \in stored : login[u] = r, revoked' \subseteq Tokens,
           \A t \in DOMAIN store' \ DOMAIN store : t \in unlisted' \/ t \notin stored,
           FreshSound(request[c])', WorkSound(request[c])', RedisOnly(request[c])',
           Waits(request'[c]) => Waits(request[c]) /\ request'[c].fresh = request[c].fresh,
           OneRowEach', StoredIsListed'
    PROVE  IInv'
<1> USE DEF IInv
<1>1. Redis <=> Redis'
  BY DEF Redis
<1>2. \A t \in stored' \ stored : t \in Tokens /\ login[t] # 0
  BY DEF RequestsSound, FreshSound
<1>3. TypeOK'
  <2>1. stored' \subseteq Tokens
    BY <1>2 DEF TypeOK
  <2>2. request' \in [Clients -> Requests]
    BY DEF TypeOK
  <2> QED BY <2>1, <2>2 DEF TypeOK
<1>4. RequestsSound' /\ FreshDistinct'
  <2>1. \A t \in Tokens : login'[t] = login[t] /\ born'[t] = born[t]
    OBVIOUS
  <2>2. \A t \in Tokens : login[t] = 0 => login'[t] \in {0, t}
    BY <2>1
  <2> QED BY <1>1, <2>1, <2>2, RequestsAdvance
<1>5. HistoriesAgree'
  <2>1. \A t \in stored' : login[t] # 0
    BY <1>2 DEF HistoriesAgree
  <2>2. \A r \in revoked' : \E u \in stored' : login[u] = r
    BY DEF HistoriesAgree
  <2> QED BY <2>1, <2>2 DEF HistoriesAgree
<1>6. WithinLifetime'
  BY DEF WithinLifetime
<1> QED BY <1>3, <1>4, <1>5, <1>6

\* What the request of a client is known to be.
LEMMA RequestKnown ==
    ASSUME IInv, NEW c \in Clients
    PROVE  /\ request[c] \in Requests /\ FreshSound(request[c]) /\ WorkSound(request[c]) /\ RedisOnly(request[c])
           /\ \A q : request' = [request EXCEPT ![c] = q] =>
                /\ request'[c] = q /\ request' = [request EXCEPT ![c] = request'[c]]
                /\ \A d \in Clients : d # c => request'[d] = request[d]
BY DEF IInv, TypeOK, RequestsSound

LEMMA InsertSessionStep ==
    ASSUME IInv, NEW c \in Clients, InsertSession(c), UNCHANGED setup PROVE IInv'
<1> DEFINE r == request[c]
           q == IF Redis THEN [r EXCEPT !.pc = "index"] ELSE Idle
<1> USE DEF IInv
<1>1. r.pc = "insert" /\ request' = [request EXCEPT ![c] = q] /\ stored' = stored \cup {r.fresh}
  BY DEF InsertSession, Start
<1>2. UNCHANGED <<setup, now, claims, index, login, born, revoked, unlisted>>
  BY DEF InsertSession
<1>3. /\ r \in Requests /\ FreshSound(r) /\ WorkSound(r) /\ RedisOnly(r) /\ Waits(r)
      /\ request'[c] = q /\ request' = [request EXCEPT ![c] = request'[c]]
      /\ \A d \in Clients : d # c => request'[d] = request[d]
  BY <1>1, RequestKnown DEF Waits
<1>4. /\ r.fresh \in Tokens \ stored /\ r.expires <= r.max /\ r.max <= born[r.fresh] + Lifetime
      /\ r.expires \in Times /\ r.max \in Times
  BY <1>3 DEF FreshSound, Requests
<1>5. /\ DOMAIN store' = DOMAIN store \cup {r.fresh} /\ r.fresh \notin DOMAIN store
      /\ store'[r.fresh] = [expires |-> r.expires, max |-> r.max]
      /\ \A t \in DOMAIN store : store'[t] = store[t]
  BY <1>4 DEF InsertSession, Put, HistoriesAgree
<1>6. /\ \A t \in DOMAIN store' : store'[t] \in [expires : Times, max : Times]
      /\ \A t \in DOMAIN store' : store'[t].expires <= store'[t].max /\ store'[t].max <= born[t] + Lifetime
  BY <1>4, <1>5 DEF TypeOK, WithinLifetime
<1>7. q \in Requests /\ ~Waits(q) /\ (q = Idle \/ (Redis /\ q.pc = "index" /\ q.fresh = r.fresh))
  BY <1>3, IdleSound DEF Requests, Waits
<1>8. FreshSound(request[c])' /\ WorkSound(request[c])' /\ RedisOnly(request[c])'
  BY <1>2, <1>3, <1>4, <1>7 DEF FreshSound, WorkSound, RedisOnly, Idle, Waits, Redis
<1>9. OneRowEach'
  <2> SUFFICES ASSUME ~Redis
               PROVE  /\ \A t, u \in DOMAIN store' : login[t] = login[u] => t = u
                      /\ \A t \in DOMAIN store' : login[t] \notin revoked
    BY <1>2 DEF OneRowEach, Redis
  <2>1. \A u \in Tokens : login[u] = r.fresh <=> u = r.fresh
    BY <1>1, <1>3 DEF WorkSound
  <2>2. DOMAIN store \subseteq Tokens /\ stored \subseteq Tokens
    BY DEF TypeOK
  <2>3. login[r.fresh] \notin revoked
    BY <1>4, <2>1, <2>2 DEF HistoriesAgree
  <2> QED BY <1>4, <1>5, <2>1, <2>2, <2>3 DEF OneRowEach
<1>10. StoredIsListed'
  <2> SUFFICES ASSUME Redis, NEW t \in DOMAIN store'
               PROVE  \/ t \in index \cup unlisted
                      \/ \E d \in Clients : request'[d].pc = "index" /\ request'[d].fresh = t
    BY <1>2 DEF StoredIsListed, Redis
  <2>1. CASE t = r.fresh
    BY <1>3, <1>7, <2>1 DEF Requests
  <2>2. CASE t # r.fresh
    BY <1>1, <1>3, <1>5, <2>2 DEF StoredIsListed
  <2> QED BY <2>1, <2>2
<1>11. /\ index' \subseteq Tokens /\ unlisted' \subseteq Tokens /\ revoked' \subseteq Tokens /\ DOMAIN store \subseteq stored
  BY <1>2 DEF TypeOK, HistoriesAgree
<1> HIDE DEF q
<1> QED BY <1>1, <1>2, <1>3, <1>4, <1>5, <1>6, <1>7, <1>8, <1>9, <1>10, <1>11, StoreStep

LEMMA IndexSessionStep ==
    ASSUME IInv, NEW c \in Clients, IndexSession(c), UNCHANGED setup PROVE IInv'
<1> DEFINE r == request[c]
<1> USE DEF IInv
<1>1. /\ r.pc = "index" /\ request' = [request EXCEPT ![c] = Idle] /\ index' = index \cup {r.fresh}
      /\ UNCHANGED <<setup, now, claims, store, login, born, stored, revoked, unlisted>>
  BY DEF IndexSession, Finish, Start, history
<1>2. /\ request'[c] = Idle /\ request' = [request EXCEPT ![c] = request'[c]]
      /\ \A d \in Clients : d # c => request'[d] = request[d]
      /\ r.fresh \in Tokens
  BY <1>1, RequestKnown DEF WorkSound
<1>3. FreshSound(request[c])' /\ WorkSound(request[c])' /\ RedisOnly(request[c])' /\ ~Waits(request'[c])
  BY <1>2 DEF FreshSound, WorkSound, RedisOnly, Idle, Waits
<1>4. StoredIsListed'
  <2> SUFFICES ASSUME Redis, NEW t \in DOMAIN store
               PROVE  \/ t \in index' \cup unlisted
                      \/ \E d \in Clients : request'[d].pc = "index" /\ request'[d].fresh = t
    BY <1>1 DEF StoredIsListed, Redis
  <2> QED BY <1>1, <1>2 DEF StoredIsListed
<1>5. OneRowEach'
  BY <1>1 DEF OneRowEach, Redis
<1>6. /\ index' \subseteq Tokens /\ unlisted' \subseteq Tokens /\ revoked' \subseteq Tokens /\ DOMAIN store \subseteq stored
      /\ \A t \in DOMAIN store : /\ store[t] \in [expires : Times, max : Times]
                                 /\ store[t].expires <= store[t].max /\ store[t].max <= born[t] + Lifetime
  BY <1>1, <1>2 DEF TypeOK, HistoriesAgree, WithinLifetime
<1> QED BY <1>1, <1>2, <1>3, <1>4, <1>5, <1>6, StoreStep, IdleSound

LEMMA UpdateTokenStep ==
    ASSUME IInv, NEW c \in Clients, UpdateToken(c), UNCHANGED setup PROVE IInv'
<1> DEFINE r == request[c]
<1> USE DEF IInv
<1>1. /\ r.pc = "renew" /\ ~Redis /\ request' = [request EXCEPT ![c] = Idle]
      /\ UNCHANGED <<setup, now, claims, index, login, born, revoked, unlisted>>
  BY DEF UpdateToken, Finish, Start
<1>2. /\ request'[c] = Idle /\ request' = [request EXCEPT ![c] = request'[c]]
      /\ r \in Requests /\ FreshSound(r) /\ WorkSound(r) /\ Waits(r)
  BY <1>1, RequestKnown DEF Waits
<1>3. FreshSound(request[c])' /\ WorkSound(request[c])' /\ RedisOnly(request[c])' /\ ~Waits(request'[c])
  BY <1>2 DEF FreshSound, WorkSound, RedisOnly, Idle, Waits
<1>4. StoredIsListed'
  BY <1>1 DEF StoredIsListed, Redis
<1>5. /\ index' \subseteq Tokens /\ unlisted' \subseteq Tokens /\ revoked' \subseteq Tokens /\ DOMAIN store \subseteq stored
      /\ \A t \in DOMAIN store : /\ store[t] \in [expires : Times, max : Times]
                                 /\ store[t].expires <= store[t].max /\ store[t].max <= born[t] + Lifetime
      /\ DOMAIN store \subseteq Tokens
  BY <1>1, <1>2 DEF TypeOK, HistoriesAgree, WithinLifetime
<1>6. CASE ~Valid(r.token)
  <2>1. store' = store /\ stored' = stored
    BY <1>6 DEF UpdateToken
  <2>2. OneRowEach'
    BY <1>1, <2>1 DEF OneRowEach, Redis
  <2> QED BY <1>1, <1>2, <1>3, <1>4, <1>5, <2>1, <2>2, StoreStep, IdleSound
<1>7. CASE Valid(r.token)
  <2>1. /\ stored' = stored \cup {r.fresh}
        /\ store' = [u \in (DOMAIN store \ {r.token}) \cup {r.fresh} |->
                        IF u = r.fresh THEN [expires |-> r.expires, max |-> r.max] ELSE store[u]]
    BY <1>7 DEF UpdateToken
  <2>2. /\ r.fresh \in Tokens \ stored /\ r.expires <= r.max /\ r.max <= born[r.fresh] + Lifetime
        /\ r.expires \in Times /\ r.max \in Times
        /\ r.token \in DOMAIN store /\ login[r.token] = login[r.fresh]
    BY <1>1, <1>2, <1>7 DEF FreshSound, WorkSound, Valid, Requests
  <2>3. /\ DOMAIN store' = (DOMAIN store \ {r.token}) \cup {r.fresh}
        /\ store'[r.fresh] = [expires |-> r.expires, max |-> r.max]
        /\ \A t \in DOMAIN store \ {r.token} : store'[t] = store[t]
    BY <2>1, <2>2, <1>5
  <2>4. /\ \A t \in DOMAIN store' : store'[t] \in [expires : Times, max : Times]
        /\ \A t \in DOMAIN store' : store'[t].expires <= store'[t].max /\ store'[t].max <= born[t] + Lifetime
    BY <1>5, <2>2, <2>3
  <2>5. OneRowEach'
    <3>1. /\ \A t, u \in DOMAIN store' : login[t] = login[u] => t = u
          /\ \A t \in DOMAIN store' : login[t] \notin revoked
      BY <1>1, <2>2, <2>3 DEF OneRowEach
    <3> QED BY <1>1, <3>1 DEF OneRowEach
  <2> QED BY <1>1, <1>2, <1>3, <1>4, <1>5, <2>1, <2>2, <2>3, <2>4, <2>5, StoreStep, IdleSound
<1> QED BY <1>6, <1>7

LEMMA RefreshStep ==
    ASSUME IInv, NEW c \in Clients, Refresh(c), UNCHANGED setup PROVE IInv'
<1> DEFINE r == request[c]
           t == r.token
<1> USE DEF IInv
<1>1. /\ r.pc = "refresh" /\ ~Redis /\ request' = [request EXCEPT ![c] = AfterRefresh(r)]
      /\ UNCHANGED <<setup, now, claims, index, login, born, stored, revoked, unlisted>>
  BY DEF Refresh, Start, history
<1>2. /\ request'[c] = AfterRefresh(r) /\ request' = [request EXCEPT ![c] = request'[c]]
      /\ r \in Requests
  BY <1>1, RequestKnown
<1>3. request'[c] \in Requests /\ request'[c].pc \in {"idle", "revoke"} /\ ~Waits(request'[c])
  BY <1>2, AfterRefreshSound
<1>4. FreshSound(request[c])' /\ WorkSound(request[c])' /\ RedisOnly(request[c])'
  BY <1>3 DEF FreshSound, WorkSound, RedisOnly, Waits
<1>5. /\ index' \subseteq Tokens /\ unlisted' \subseteq Tokens /\ revoked' \subseteq Tokens /\ DOMAIN store \subseteq stored
      /\ \A u \in DOMAIN store : /\ store[u] \in [expires : Times, max : Times]
                                 /\ store[u].expires <= store[u].max /\ store[u].max <= born[u] + Lifetime
  BY <1>1, <1>2 DEF TypeOK, HistoriesAgree, WithinLifetime
<1>6. /\ DOMAIN store' = DOMAIN store
      /\ \A u \in DOMAIN store : /\ store'[u] \in [expires : Times, max : Times]
                                 /\ store'[u].expires <= store'[u].max /\ store'[u].max <= born[u] + Lifetime
  <2>1. CASE ~Valid(t)
    BY <1>5, <2>1 DEF Refresh
  <2>2. CASE Valid(t)
    <3>1. t \in DOMAIN store /\ r.expires \in Times
      BY <1>2, <2>2 DEF Valid, Requests
    <3>2. /\ Least(r.expires, store[t].max) \in Times /\ Least(r.expires, store[t].max) <= store[t].max
      BY <1>5, <3>1, ConstantsTyped DEF Least, Times
    <3>3. /\ DOMAIN store' = DOMAIN store
          /\ store'[t] = [expires |-> Least(r.expires, store[t].max), max |-> store[t].max]
          /\ \A u \in DOMAIN store : u # t => store'[u] = store[u]
      BY <2>2, <3>1 DEF Refresh, Put
    <3> QED BY <1>5, <3>1, <3>2, <3>3
  <2> QED BY <2>1, <2>2
<1>7. OneRowEach' /\ StoredIsListed'
  BY <1>1, <1>6 DEF OneRowEach, StoredIsListed, Redis
<1> QED BY <1>1, <1>2, <1>3, <1>4, <1>5, <1>6, <1>7, StoreStep

LEMMA RefreshWriteStep ==
    ASSUME IInv, NEW c \in Clients, RefreshWrite(c), UNCHANGED setup PROVE IInv'
<1> DEFINE r == request[c]
           t == r.token
<1> USE DEF IInv
<1>1. /\ r.pc = "refreshWrite" /\ request' = [request EXCEPT ![c] = AfterRefresh(r)]
      /\ unlisted' = IF t \in DOMAIN store THEN unlisted ELSE unlisted \cup {t}
      /\ UNCHANGED <<setup, now, claims, index, login, born, stored, revoked>>
  BY DEF RefreshWrite, Start
<1>2. /\ request'[c] = AfterRefresh(r) /\ request' = [request EXCEPT ![c] = request'[c]]
      /\ \A d \in Clients : d # c => request'[d] = request[d]
      /\ r \in Requests /\ WorkSound(r) /\ RedisOnly(r)
  BY <1>1, RequestKnown
<1>3. request'[c] \in Requests /\ request'[c].pc \in {"idle", "revoke"} /\ ~Waits(request'[c])
  BY <1>2, AfterRefreshSound
<1>4. FreshSound(request[c])' /\ WorkSound(request[c])' /\ RedisOnly(request[c])'
  BY <1>3 DEF FreshSound, WorkSound, RedisOnly, Waits
<1>5. /\ Redis /\ t \in stored /\ r.expires <= r.max /\ r.max <= born[t] + Lifetime
      /\ r.expires \in Times /\ r.max \in Times
  BY <1>1, <1>2 DEF WorkSound, RedisOnly, Requests
<1>6. /\ index \subseteq Tokens /\ unlisted' \subseteq Tokens /\ revoked \subseteq Tokens /\ DOMAIN store \subseteq stored
      /\ \A u \in DOMAIN store : /\ store[u] \in [expires : Times, max : Times]
                                 /\ store[u].expires <= store[u].max /\ store[u].max <= born[u] + Lifetime
  BY <1>1, <1>5 DEF TypeOK, HistoriesAgree, WithinLifetime
<1>7. /\ DOMAIN store' = DOMAIN store \cup {t} /\ store'[t] = [expires |-> r.expires, max |-> r.max]
      /\ \A u \in DOMAIN store : u # t => store'[u] = store[u]
  BY DEF RefreshWrite, Put
<1>8. /\ \A u \in DOMAIN store' : store'[u] \in [expires : Times, max : Times]
      /\ \A u \in DOMAIN store' : store'[u].expires <= store'[u].max /\ store'[u].max <= born[u] + Lifetime
  BY <1>5, <1>6, <1>7
<1>9. OneRowEach'
  BY <1>1, <1>5 DEF OneRowEach, Redis
<1>10. StoredIsListed'
  <2> SUFFICES ASSUME NEW u \in DOMAIN store'
               PROVE  \/ u \in index \cup unlisted'
                      \/ \E d \in Clients : request'[d].pc = "index" /\ request'[d].fresh = u
    BY <1>1 DEF StoredIsListed
  <2> QED BY <1>1, <1>2, <1>5, <1>7 DEF StoredIsListed
<1> QED BY <1>1, <1>2, <1>3, <1>4, <1>5, <1>6, <1>7, <1>8, <1>9, <1>10, StoreStep

\* Deleting sessions, whichever they are, while one request goes on.
LEMMA DeleteStep ==
    ASSUME IInv, NEW c \in Clients, UNCHANGED <<setup, now, claims, index, login, born, stored, unlisted>>,
           request' = [request EXCEPT ![c] = request'[c]], request'[c] \in Requests,
           DOMAIN store' \subseteq DOMAIN store, \A t \in DOMAIN store' : store'[t] = store[t],
           request[c].pc # "index",
           \A r \in revoked' \ revoked : r \in Tokens /\ \E u \in stored : login[u] = r,
           ~Redis => \A r \in revoked' \ revoked : \A t \in DOMAIN store' : login[t] # r,
           revoked \subseteq revoked',
           FreshSound(request[c])', WorkSound(request[c])', RedisOnly(request[c])',
           Waits(request'[c]) => Waits(request[c]) /\ request'[c].fresh = request[c].fresh
    PROVE  IInv'
<1> USE DEF IInv
<1>1. /\ index' \subseteq Tokens /\ unlisted' \subseteq Tokens /\ revoked' \subseteq Tokens /\ DOMAIN store' \subseteq stored'
      /\ \A u \in DOMAIN store' : /\ store'[u] \in [expires : Times, max : Times]
                                  /\ store'[u].expires <= store'[u].max /\ store'[u].max <= born[u] + Lifetime
  BY DEF TypeOK, HistoriesAgree, WithinLifetime
<1>2. OneRowEach'
  <2> SUFFICES ASSUME ~Redis
               PROVE  /\ \A t, u \in DOMAIN store' : login[t] = login[u] => t = u
                      /\ \A t \in DOMAIN store' : login[t] \notin revoked'
    BY DEF OneRowEach, Redis
  <2> QED BY DEF OneRowEach
<1>3. StoredIsListed'
  <2>1. \A d \in Clients : request[d].pc = "index" => request'[d] = request[d]
    BY DEF TypeOK
  <2> SUFFICES ASSUME Redis, NEW u \in DOMAIN store'
               PROVE  \/ u \in index \cup unlisted
                      \/ \E d \in Clients : request'[d].pc = "index" /\ request'[d].fresh = u
    BY DEF StoredIsListed, Redis
  <2> QED BY <2>1 DEF StoredIsListed
<1> QED BY <1>1, <1>2, <1>3, StoreStep

LEMMA DropExpiredStep ==
    ASSUME IInv, NEW c \in Clients, DropExpired(c), UNCHANGED setup PROVE IInv'
<1>1. /\ request[c].pc = "drop" /\ request' = [request EXCEPT ![c] = Idle] /\ store' = Without(request[c].token)
      /\ UNCHANGED <<setup, now, claims, index, login, born, stored, revoked, unlisted>>
  BY DEF DropExpired, Finish, Start, history
<1>2. request'[c] = Idle /\ request' = [request EXCEPT ![c] = request'[c]]
  BY <1>1, RequestKnown
<1>3. FreshSound(request[c])' /\ WorkSound(request[c])' /\ RedisOnly(request[c])' /\ ~Waits(request'[c])
  BY <1>2 DEF FreshSound, WorkSound, RedisOnly, Idle, Waits
<1>4. DOMAIN store' \subseteq DOMAIN store /\ \A t \in DOMAIN store' : store'[t] = store[t]
  BY <1>1 DEF Without
<1> QED BY <1>1, <1>2, <1>3, <1>4, DeleteStep, IdleSound

\* What goes on after the deletion of a key.
LEMMA AfterDeleteSound ==
    ASSUME IInv, NEW c \in Clients, request[c].pc \in {"delete", "unindex"}, NEW q, q = AfterDelete(request[c])
    PROVE  /\ q \in Requests /\ q.pc \in {"idle", "insert"} /\ FreshSound(q)
           /\ q.pc = "insert" => Redis
           /\ Waits(q) => Waits(request[c]) /\ q.fresh = request[c].fresh
<1>1. request[c] \in Requests /\ FreshSound(request[c]) /\ RedisOnly(request[c])
  BY RequestKnown
<1>2. CASE request[c].fresh = 0
  <2>1. q = Idle /\ q.pc = "idle"
    BY <1>2 DEF AfterDelete, Idle
  <2> QED BY <2>1, IdleSound
<1>3. CASE request[c].fresh # 0
  <2>1. q = [request[c] EXCEPT !.pc = "insert"]
    BY <1>3 DEF AfterDelete
  <2>2. q \in Requests /\ q.pc = "insert" /\ q.fresh = request[c].fresh /\ q.expires = request[c].expires /\ q.max = request[c].max
    BY <1>1, <2>1 DEF Requests
  <2>3. Waits(request[c]) /\ Redis
    BY <1>1, <1>3 DEF Waits, RedisOnly
  <2> QED BY <1>1, <2>2, <2>3 DEF FreshSound
<1> QED BY <1>2, <1>3

LEMMA DeleteSessionStep ==
    ASSUME IInv, NEW c \in Clients, DeleteSession(c), UNCHANGED setup PROVE IInv'
<1> DEFINE r == request[c]
           q == IF Redis /\ Valid(r.token) THEN [r EXCEPT !.pc = "unindex"] ELSE AfterDelete(r)
<1>1. /\ r.pc = "delete" /\ request' = [request EXCEPT ![c] = q] /\ store' = Without(r.token)
      /\ UNCHANGED <<setup, now, claims, index, login, born, stored, revoked, unlisted>>
  BY DEF DeleteSession, Start, history
<1>2. /\ request'[c] = q /\ request' = [request EXCEPT ![c] = request'[c]]
      /\ r \in Requests /\ FreshSound(r)
  BY <1>1, RequestKnown
<1>3. /\ DOMAIN store' \subseteq DOMAIN store /\ \A t \in DOMAIN store' : store'[t] = store[t]
      /\ r.token \notin DOMAIN store'
  BY <1>1 DEF Without
<1>4. CASE Redis /\ Valid(r.token)
  <2>1. /\ q \in Requests /\ q.pc = "unindex" /\ q.token = r.token /\ q.fresh = r.fresh /\ q.expires = r.expires /\ q.max = r.max
    BY <1>2, <1>4 DEF Requests
  <2>2. q.token \in stored
    BY <1>4, <2>1 DEF Valid, IInv, HistoriesAgree
  <2>3. Waits(q) => Waits(r) /\ q.fresh = r.fresh
    BY <1>1, <2>1 DEF Waits
  <2> HIDE DEF q
  <2>4. FreshSound(request[c])' /\ WorkSound(request[c])' /\ RedisOnly(request[c])'
    BY <1>1, <1>2, <1>3, <1>4, <2>1, <2>2, <2>3 DEF FreshSound, WorkSound, RedisOnly, Redis, Waits
  <2> QED BY <1>1, <1>2, <1>3, <2>1, <2>3, <2>4, DeleteStep
<1>5. CASE ~(Redis /\ Valid(r.token))
  <2>1. q = AfterDelete(r)
    BY <1>5
  <2> HIDE DEF q
  <2>2. /\ q \in Requests /\ q.pc \in {"idle", "insert"} /\ FreshSound(q) /\ (q.pc = "insert" => Redis)
        /\ Waits(q) => Waits(r) /\ q.fresh = r.fresh
    BY <1>1, <2>1, AfterDeleteSound
  <2>3. FreshSound(request[c])' /\ WorkSound(request[c])' /\ RedisOnly(request[c])'
    BY <1>1, <1>2, <2>2 DEF FreshSound, WorkSound, RedisOnly, Redis, Waits
  <2> QED BY <1>1, <1>2, <1>3, <2>2, <2>3, DeleteStep
<1> QED BY <1>4, <1>5

LEMMA UnindexSessionStep ==
    ASSUME IInv, NEW c \in Clients, UnindexSession(c), UNCHANGED setup PROVE IInv'
<1> DEFINE r == request[c]
           q == AfterDelete(r)
<1> USE DEF IInv
<1>1. /\ r.pc = "unindex" /\ request' = [request EXCEPT ![c] = q] /\ index' = index \ {r.token}
      /\ UNCHANGED <<setup, now, claims, store, login, born, stored, revoked, unlisted>>
  BY DEF UnindexSession, Start, history
<1>2. /\ request'[c] = q /\ request' = [request EXCEPT ![c] = request'[c]]
      /\ \A d \in Clients : d # c => request'[d] = request[d]
      /\ WorkSound(r)
  BY <1>1, RequestKnown
<1>3. /\ q \in Requests /\ q.pc \in {"idle", "insert"} /\ FreshSound(q) /\ (q.pc = "insert" => Redis)
      /\ Waits(q) => Waits(r) /\ q.fresh = r.fresh
  BY <1>1, AfterDeleteSound
<1> HIDE DEF q
<1>4. FreshSound(request[c])' /\ WorkSound(request[c])' /\ RedisOnly(request[c])'
  BY <1>1, <1>2, <1>3 DEF FreshSound, WorkSound, RedisOnly, Redis, Waits
<1>5. OneRowEach'
  BY <1>1 DEF OneRowEach, Redis
<1>6. StoredIsListed'
  <2> SUFFICES ASSUME Redis, NEW u \in DOMAIN store
               PROVE  \/ u \in index' \cup unlisted
                      \/ \E d \in Clients : request'[d].pc = "index" /\ request'[d].fresh = u
    BY <1>1 DEF StoredIsListed, Redis
  <2> QED BY <1>1, <1>2 DEF StoredIsListed, WorkSound
<1>7. /\ index' \subseteq Tokens /\ unlisted' \subseteq Tokens /\ revoked' \subseteq Tokens /\ DOMAIN store \subseteq stored
      /\ \A u \in DOMAIN store : /\ store[u] \in [expires : Times, max : Times]
                                 /\ store[u].expires <= store[u].max /\ store[u].max <= born[u] + Lifetime
  BY <1>1 DEF TypeOK, HistoriesAgree, WithinLifetime
<1> QED BY <1>1, <1>2, <1>3, <1>4, <1>5, <1>6, <1>7, StoreStep

LEMMA RevokeSessionStep ==
    ASSUME IInv, NEW c \in Clients, RevokeSession(c), UNCHANGED setup PROVE IInv'
<1> DEFINE p == Pid(request[c].target)
<1>1. /\ request[c].pc = "revoke" /\ ~Redis /\ request' = [request EXCEPT ![c] = Idle]
      /\ store' = [t \in {u \in DOMAIN store : Pid(u) # p} |-> store[t]]
      /\ revoked' = IF \E u \in DOMAIN store : Pid(u) = p THEN revoked \cup {p} ELSE revoked
      /\ UNCHANGED <<setup, now, claims, index, login, born, stored, unlisted>>
  BY DEF RevokeSession, Finish, Start
<1>2. request'[c] = Idle /\ request' = [request EXCEPT ![c] = request'[c]]
  BY <1>1, RequestKnown
<1>3. FreshSound(request[c])' /\ WorkSound(request[c])' /\ RedisOnly(request[c])' /\ ~Waits(request'[c])
  BY <1>2 DEF FreshSound, WorkSound, RedisOnly, Idle, Waits
<1>4. \A u \in DOMAIN store : Pid(u) = login[u] /\ u \in stored /\ login[u] \in Tokens
  BY <1>1, ConstantsTyped DEF Pid, IInv, TypeOK, HistoriesAgree, Tokens
<1>5. /\ DOMAIN store' \subseteq DOMAIN store /\ \A t \in DOMAIN store' : store'[t] = store[t] /\ Pid(t) # p
      /\ revoked \subseteq revoked'
  BY <1>1
<1>6. /\ \A r \in revoked' \ revoked : r \in Tokens /\ \E u \in stored : login[u] = r
      /\ \A r \in revoked' \ revoked : \A t \in DOMAIN store' : login[t] # r
  BY <1>1, <1>4, <1>5
<1> QED BY <1>1, <1>2, <1>3, <1>5, <1>6, DeleteStep, IdleSound

LEMMA AbortStep ==
    ASSUME IInv, NEW c \in Clients, Abort(c), UNCHANGED setup PROVE IInv'
<1> DEFINE r == request[c]
<1> USE DEF IInv
<1>1. /\ request' = [request EXCEPT ![c] = Idle]
      /\ unlisted' = IF r.pc = "index" THEN unlisted \cup {r.fresh} ELSE unlisted
      /\ UNCHANGED <<setup, now, claims, store, index, login, born, stored, revoked>>
  BY DEF Abort, Finish, Start
<1>2. /\ request'[c] = Idle /\ request' = [request EXCEPT ![c] = request'[c]]
      /\ \A d \in Clients : d # c => request'[d] = request[d]
      /\ WorkSound(r)
  BY <1>1, RequestKnown
<1>3. FreshSound(request[c])' /\ WorkSound(request[c])' /\ RedisOnly(request[c])' /\ ~Waits(request'[c])
  BY <1>2 DEF FreshSound, WorkSound, RedisOnly, Idle, Waits
<1>4. OneRowEach'
  BY <1>1 DEF OneRowEach, Redis
<1>5. StoredIsListed'
  <2> SUFFICES ASSUME Redis, NEW u \in DOMAIN store
               PROVE  \/ u \in index \cup unlisted'
                      \/ \E d \in Clients : request'[d].pc = "index" /\ request'[d].fresh = u
    BY <1>1 DEF StoredIsListed, Redis
  <2> QED BY <1>1, <1>2 DEF StoredIsListed
<1>6. /\ index' \subseteq Tokens /\ unlisted' \subseteq Tokens /\ revoked' \subseteq Tokens /\ DOMAIN store \subseteq stored
      /\ \A u \in DOMAIN store : /\ store[u] \in [expires : Times, max : Times]
                                 /\ store[u].expires <= store[u].max /\ store[u].max <= born[u] + Lifetime
  BY <1>1, <1>2 DEF TypeOK, HistoriesAgree, WithinLifetime, WorkSound
<1> QED BY <1>1, <1>2, <1>3, <1>4, <1>5, <1>6, StoreStep, IdleSound

\* The clock and the cleanup job leave the requests alone.
LEMMA BackgroundStep ==
    ASSUME IInv, Tick \/ DeleteExpired, UNCHANGED setup PROVE IInv'
<1> USE DEF IInv
<1>1. /\ UNCHANGED <<setup, claims, index, request, login, born, stored, revoked, unlisted>>
      /\ now' \in 0 .. MaxNow
      /\ DOMAIN store' \subseteq DOMAIN store /\ \A t \in DOMAIN store' : store'[t] = store[t]
  BY ConstantsTyped DEF Tick, DeleteExpired, history, TypeOK
<1>2. TypeOK'
  BY <1>1 DEF TypeOK
<1>3. RequestsSound' /\ FreshDistinct'
  BY <1>1 DEF RequestsSound, FreshDistinct, FreshSound, WorkSound, RedisOnly, Waits, Redis
<1>4. HistoriesAgree' /\ WithinLifetime'
  BY <1>1 DEF HistoriesAgree, WithinLifetime
<1>5. OneRowEach' /\ StoredIsListed'
  BY <1>1 DEF OneRowEach, StoredIsListed, Redis
<1> QED BY <1>2, <1>3, <1>4, <1>5

-----------------------------------------------------------------------------
(* The theorems                                                            *)

LEMMA InitIInv == Init => IInv
<1> SUFFICES ASSUME Init PROVE IInv
  OBVIOUS
<1>1. DOMAIN store = {} /\ request = [c \in Clients |-> Idle] /\ \A c \in Clients : request[c] = Idle
  BY DEF Init
<1>2. TypeOK
  BY <1>1, IdleSound, ConstantsTyped DEF Init, TypeOK
<1>3. RequestsSound /\ FreshDistinct
  BY <1>1, IdleSound DEF RequestsSound, FreshDistinct
<1>4. HistoriesAgree /\ WithinLifetime /\ OneRowEach /\ StoredIsListed
  BY <1>1 DEF Init, HistoriesAgree, WithinLifetime, OneRowEach, StoredIsListed
<1> QED BY <1>2, <1>3, <1>4 DEF IInv

LEMMA NextIInv == IInv /\ [Next]_vars => IInv'
<1> SUFFICES ASSUME IInv, [Next]_vars PROVE IInv'
  OBVIOUS
<1>1. CASE UNCHANGED vars
  BY <1>1 DEF vars, IInv, TypeOK, RequestsSound, FreshDistinct, FreshSound, WorkSound, RedisOnly, Waits, Redis,
              HistoriesAgree, WithinLifetime, OneRowEach, StoredIsListed
<1>2. CASE Next
  <2>1. Step /\ UNCHANGED setup
    BY <1>2 DEF Next
  <2>2. CASE Tick \/ DeleteExpired
    BY <2>1, <2>2, BackgroundStep
  <2>3. CASE \E c \in Clients : \/ Abort(c) \/ InsertSession(c) \/ IndexSession(c) \/ UpdateToken(c)
                                \/ UpdateTokenFind(c) \/ Refresh(c) \/ RefreshFind(c) \/ RefreshWrite(c)
                                \/ DropExpired(c) \/ DeleteSession(c) \/ UnindexSession(c)
                                \/ RevokeSession(c) \/ RevokeSessionFind(c)
    BY <2>1, <2>3, AbortStep, InsertSessionStep, IndexSessionStep, UpdateTokenStep, UpdateTokenFindStep,
       RefreshStep, RefreshFindStep, RefreshWriteStep, DropExpiredStep, DeleteSessionStep, UnindexSessionStep,
       RevokeSessionStep, BeginEndStep
  <2>4. CASE \E c \in Clients, t \in Tokens :
                \/ CreateSession(c, t) \/ (\E old \in Tokens : RenewSession(c, old, t))
                \/ (\E target \in 0 .. MaxTokens : CurrentUser(c, t, target))
                \/ FindExpired(c, t) \/ Logout(c, t)
    BY <2>1, <2>4, CreateSessionStep, RenewSessionStep, CurrentUserStep, BeginEndStep
  <2> QED BY <2>1, <2>2, <2>3, <2>4 DEF Step
<1> QED BY <1>1, <1>2

LEMMA Inductive == Spec => []IInv
BY InitIInv, NextIInv, PTL DEF Spec

\* Every variable of the session module keeps its type.
THEOREM TypeCorrect == Spec => []TypeOK
BY Inductive, PTL DEF IInv

\* Renewals of one session of the table, however many run at once and wherever revoke_session
\* and the cleanup job come between, leave at most one valid token, and none of a revoked one.
THEOREM NoForks == Spec => []RenewalsDoNotFork
<1>1. IInv => RenewalsDoNotFork
  BY DEF IInv, OneRowEach, RenewalsDoNotFork, Valid, Pid
<1> QED BY <1>1, Inductive, PTL

\* Redis lists every valid session but those of its three races: an insert under way or cut
\* off between its commands, and a refresh that lands after the deletion.
THEOREM Listed == Spec => []ListedUnlessRaced
<1>1. IInv => ListedUnlessRaced
  BY DEF IInv, StoredIsListed, ListedUnlessRaced, Valid
<1> QED BY <1>1, Inductive, PTL

\* A step of the table that keeps a stored session as it is, or one that is valid, revives none.
LEMMA NoneRevived ==
    ASSUME TypeOK, now' \in Nat, now' >= now, NEW t \in stored, ~Valid(t),
           \A u \in stored : u \in DOMAIN store' => Valid(u) \/ (u \in DOMAIN store /\ store'[u] = store[u])
    PROVE  ~Valid(t)'
<1> SUFFICES ASSUME t \in DOMAIN store', store'[t].expires > now', store'[t].max > now' PROVE FALSE
  BY DEF Valid
<1>1. t \in DOMAIN store /\ store'[t] = store[t]
  OBVIOUS
<1>2. store[t].expires \in Nat /\ store[t].max \in Nat /\ now \in Nat
  BY <1>1, ConstantsTyped DEF TypeOK, Times
<1> QED BY <1>1, <1>2 DEF Valid

LEMMA KeptOrValid ==
    ASSUME IInv, ~Redis, Next
    PROVE  \A u \in stored : u \in DOMAIN store' => Valid(u) \/ (u \in DOMAIN store /\ store'[u] = store[u])
<1> SUFFICES ASSUME NEW u \in stored, u \in DOMAIN store', ~Valid(u)
             PROVE  u \in DOMAIN store /\ store'[u] = store[u]
  OBVIOUS
<1>1. CASE UNCHANGED store
  BY <1>1
<1>2. CASE DeleteExpired
  BY <1>2 DEF DeleteExpired
<1>3. ASSUME NEW c \in Clients, DropExpired(c) \/ DeleteSession(c) \/ RevokeSession(c)
      PROVE  u \in DOMAIN store /\ store'[u] = store[u]
  BY <1>3 DEF DropExpired, DeleteSession, RevokeSession, Without
<1>4. ASSUME NEW c \in Clients, InsertSession(c) \/ UpdateToken(c)
      PROVE  u \in DOMAIN store /\ store'[u] = store[u]
  <2>1. request[c].fresh \notin stored
    BY <1>4, RequestKnown DEF InsertSession, UpdateToken, FreshSound, Waits
  <2> QED BY <1>4, <2>1 DEF InsertSession, UpdateToken, Put
<1>5. ASSUME NEW c \in Clients, Refresh(c)
      PROVE  u \in DOMAIN store /\ store'[u] = store[u]
  BY <1>5 DEF Refresh, Put, Valid
<1>6. ASSUME NEW c \in Clients, RefreshWrite(c) PROVE FALSE
  BY <1>6, RequestKnown DEF RefreshWrite, RedisOnly
<1> QED BY <1>1, <1>2, <1>3, <1>4, <1>5, <1>6
        DEF Next, Step, Tick, Abort, IndexSession, UpdateTokenFind, RefreshFind, UnindexSession, RevokeSessionFind,
            CreateSession, RenewSession, CurrentUser, FindExpired, Logout, Issue

LEMMA ClockAdvances == ASSUME TypeOK, Next PROVE now' \in Nat /\ now' >= now
<1>1. now \in Nat
  BY ConstantsTyped DEF TypeOK
<1>2. Tick \/ UNCHANGED now
  <2>1. ASSUME NEW c \in Clients, NEW t \in Tokens,
               \/ CreateSession(c, t) \/ (\E old \in Tokens : RenewSession(c, old, t))
               \/ (\E target \in 0 .. MaxTokens : CurrentUser(c, t, target))
               \/ FindExpired(c, t) \/ Logout(c, t)
        PROVE  UNCHANGED now
    BY <2>1 DEF CreateSession, RenewSession, Issue, CurrentUser, FindExpired, Logout
  <2>2. ASSUME NEW c \in Clients,
               \/ Abort(c) \/ InsertSession(c) \/ IndexSession(c) \/ UpdateToken(c)
               \/ UpdateTokenFind(c) \/ Refresh(c) \/ RefreshFind(c) \/ RefreshWrite(c)
               \/ DropExpired(c) \/ DeleteSession(c) \/ UnindexSession(c)
               \/ RevokeSession(c) \/ RevokeSessionFind(c)
        PROVE  UNCHANGED now
    BY <2>2 DEF Abort, InsertSession, IndexSession, UpdateToken, UpdateTokenFind, Refresh, RefreshFind, RefreshWrite,
                DropExpired, DeleteSession, UnindexSession, RevokeSession, RevokeSessionFind
  <2>3. ASSUME DeleteExpired PROVE UNCHANGED now
    BY <2>3 DEF DeleteExpired
  <2> QED BY <2>1, <2>2, <2>3 DEF Next, Step
<1>3. now' = now + 1 \/ now' = now
  BY <1>2 DEF Tick
<1> QED BY <1>1, <1>3

\* A session of the table that has ended never becomes valid again, and no write stretches a
\* session past the lifetime its token began with.
THEOREM StaysEnded == Spec => EndedStaysEnded
<1>1. IInv /\ IInv' /\ [Next]_vars =>
        [/\ \A t \in DOMAIN store' : /\ store'[t].expires <= store'[t].max
                                     /\ store'[t].max <= born'[t] + Lifetime
         /\ ~Redis => \A t \in stored : ~Valid(t) => ~Valid(t)']_vars
  <2> SUFFICES ASSUME IInv, IInv', Next
               PROVE  /\ \A t \in DOMAIN store' : /\ store'[t].expires <= store'[t].max
                                                  /\ store'[t].max <= born'[t] + Lifetime
                      /\ ~Redis => \A t \in stored : ~Valid(t) => ~Valid(t)'
    OBVIOUS
  <2>1. \A t \in DOMAIN store' : store'[t].expires <= store'[t].max /\ store'[t].max <= born'[t] + Lifetime
    BY DEF IInv, WithinLifetime
  <2>2. ASSUME ~Redis PROVE \A t \in stored : ~Valid(t) => ~Valid(t)'
    BY <2>2, KeptOrValid, ClockAdvances, NoneRevived DEF IInv
  <2> QED BY <2>1, <2>2
<1> QED BY <1>1, NextIInv, InitIInv, PTL DEF Spec, EndedStaysEnded
=============================================================================
