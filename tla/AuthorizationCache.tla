-------------------------- MODULE AuthorizationCache --------------------------
(***************************************************************************)
(* The authorization cache of the layered application: CachedAuthorization *)
(* answers a permission check from a cached list of the user's permissions *)
(* under a key that holds a version; every administrative change commits   *)
(* and then replaces the version.  A check is six awaited calls, and other *)
(* requests, failures of the cache and the clock come between them.        *)
(*                                                                         *)
(* The database is abstracted to the permissions user_permissions returns  *)
(* for a username; module Roles models the tables behind them.             *)
(***************************************************************************)
EXTENDS Integers, FiniteSets

CONSTANTS
    Usernames,       \* usernames
    Registry,        \* the permission registry
    Nodes,           \* caches: one for Redis, one per process for MemoryCache
    Readers,         \* requests that check a permission
    Writers,         \* requests that change permissions
    Ttl,             \* cache.authorization_ttl_seconds
    RequestTimeout,  \* server.request_timeout_seconds
    CacheFails,      \* TRUE: any call of the cache may fail
    MaxChanges,      \* bound on committed changes
    MaxNow           \* bound on the clock

ASSUME AuthorizationCacheAssumption ==
    /\ {Ttl, RequestTimeout} \subseteq Nat \ {0}
    /\ {MaxChanges, MaxNow} \subseteq Nat
    /\ CacheFails \in BOOLEAN
    /\ Nodes # {} /\ Usernames # {}

\* 0 is DEFAULT_VERSION; the others are the identifiers invalidate() generates.
Versions == 0 .. MaxChanges

VARIABLES
    now,      \* the clock
    granted,  \* the permissions the database gives each username
    version,  \* VERSION_KEY of each cache; 0 when it is absent
    issued,   \* identifiers generated so far
    entry,    \* cached permissions: entry[node][version][user]
    reader,   \* the permission checks in progress
    writer,   \* the changes in progress
    epoch,    \* history: number of committed changes
    changed,  \* history: when a username's permissions last changed; -1: never
    acked     \* history: the last change that has invalidated each cache

cacheVars == <<now, granted, version, issued, entry, reader, writer, epoch, changed, acked>>

\* The entry a cache does not hold: it has expired since ever.
Missing == [perms |-> {}, until |-> 0, asOf |-> 0, setAt |-> 0]

Entries == [perms : SUBSET Registry, until : 0 .. MaxNow + Ttl,
            asOf : 0 .. MaxChanges, setAt : 0 .. MaxChanges]

\* A check: "key" reads the version, "get" the entry, "load" the database, "restamp" the
\* version again and "set" writes the entry.  asOf, setAt and seen are history: the last
\* change when the database was read, the last when the entry was written, and the last that
\* had invalidated its cache when the check began, 0 once its lookup of the version has failed.
Checks == [pc : {"idle", "key", "get", "load", "restamp", "set", "answered"},
           node : Nodes, user : Usernames, key : Versions, perms : SUBSET Registry,
           since : 0 .. MaxNow, asOf : 0 .. MaxChanges, setAt : 0 .. MaxChanges,
           seen : 0 .. MaxChanges]

NoCheck == [pc |-> "idle", node |-> CHOOSE n \in Nodes : TRUE, user |-> CHOOSE u \in Usernames : TRUE,
            key |-> 0, perms |-> {}, since |-> 0, asOf |-> 0, setAt |-> 0, seen |-> 0]

Changes == [pc : {"idle", "invalidate"}, node : Nodes,
            change : 0 .. MaxChanges, since : 0 .. MaxNow]

NoChange == [pc |-> "idle", node |-> CHOOSE n \in Nodes : TRUE, change |-> 0, since |-> 0]

CacheTyped ==
    /\ now \in 0 .. MaxNow
    /\ granted \in [Usernames -> SUBSET Registry]
    /\ version \in [Nodes -> Versions]
    /\ issued \in Versions
    /\ entry \in [Nodes -> [Versions -> [Usernames -> Entries]]]
    /\ reader \in [Readers -> Checks]
    /\ writer \in [Writers -> Changes]
    /\ epoch \in 0 .. MaxChanges
    /\ changed \in [Usernames -> -1 .. MaxNow]
    /\ acked \in [Nodes -> 0 .. MaxChanges]

CacheInit ==
    /\ now = 0
    /\ granted \in [Usernames -> SUBSET Registry]
    /\ version = [n \in Nodes |-> 0]
    /\ issued = 0
    /\ entry = [n \in Nodes |-> [v \in Versions |-> [u \in Usernames |-> Missing]]]
    /\ reader = [q \in Readers |-> NoCheck]
    /\ writer = [w \in Writers |-> NoChange]
    /\ epoch = 0
    /\ changed = [u \in Usernames |-> -1]
    /\ acked = [n \in Nodes |-> 0]

------------------------------------------------------------------------------
(* The permission check: CachedAuthorization::require.                     *)

unchangedByReader == <<now, granted, version, issued, writer, epoch, changed, acked>>

\* require() of an authenticated user.
Begin(q, n, u) ==
    /\ reader[q].pc = "idle"
    /\ reader' = [reader EXCEPT ![q].pc = "key", ![q].node = n, ![q].user = u,
                                ![q].since = now, ![q].seen = acked[n]]
    /\ UNCHANGED <<unchangedByReader, entry>>

\* current_version(): what a check takes for the version: the default when the lookup fails.
CurrentVersion(n) == {version[n]} \cup (IF CacheFails THEN {0} ELSE {})

\* user_permissions_key() of cached_permissions().
ReadVersion(q) ==
    /\ reader[q].pc = "key"
    /\ \E v \in CurrentVersion(reader[q].node) :
          reader' = [reader EXCEPT ![q].pc = "get", ![q].key = v,
                                   ![q].seen = IF v = version[reader[q].node] THEN @ ELSE 0]
    /\ UNCHANGED <<unchangedByReader, entry>>

Cached(q) == entry[reader[q].node][reader[q].key][reader[q].user]

\* MemoryCache::get_string drops an entry whose expires_at <= now; Redis does so itself.
Live(e) == now < e.until

\* A cached list answers the check.
Hit(q) ==
    /\ reader[q].pc = "get"
    /\ Live(Cached(q))
    /\ reader' = [reader EXCEPT ![q].pc = "answered", ![q].perms = Cached(q).perms,
                                ![q].asOf = Cached(q).asOf, ![q].setAt = Cached(q).setAt]
    /\ UNCHANGED <<unchangedByReader, entry>>

\* No entry, an expired one, or a failed read.
Miss(q) ==
    /\ reader[q].pc = "get"
    /\ ~Live(Cached(q)) \/ CacheFails
    /\ reader' = [reader EXCEPT ![q].pc = "load", ![q].key = 0]
    /\ UNCHANGED <<unchangedByReader, entry>>

\* repository.user_permissions().
LoadPermissions(q) ==
    /\ reader[q].pc = "load"
    /\ reader' = [reader EXCEPT ![q].pc = "restamp", ![q].perms = granted[reader[q].user],
                                ![q].asOf = epoch, ![q].setAt = epoch]
    /\ UNCHANGED <<unchangedByReader, entry>>

\* user_permissions_key() of store_permissions(): the version is looked up again.
ReadVersionAgain(q) ==
    /\ reader[q].pc = "restamp"
    /\ \E v \in CurrentVersion(reader[q].node) :
          reader' = [reader EXCEPT ![q].pc = "set", ![q].key = v]
    /\ UNCHANGED <<unchangedByReader, entry>>

\* Mutant of Store: the entry is kept for ever, as the version is.
StoreForever(q) ==
    /\ reader[q].pc = "set"
    /\ reader' = [reader EXCEPT ![q].pc = "answered"]
    /\ \/ entry' = [entry EXCEPT ![reader[q].node][reader[q].key][reader[q].user] =
                      [perms |-> reader[q].perms, until |-> MaxNow + Ttl, asOf |-> reader[q].asOf,
                       setAt |-> epoch]]
       \/ CacheFails /\ UNCHANGED entry
    /\ UNCHANGED unchangedByReader

\* set_string() with the time to live; a failure is logged and the check still answers.
Store(q) ==
    /\ reader[q].pc = "set"
    /\ reader' = [reader EXCEPT ![q].pc = "answered"]
    /\ \/ entry' = [entry EXCEPT ![reader[q].node][reader[q].key][reader[q].user] =
                      [perms |-> reader[q].perms, until |-> now + Ttl, asOf |-> reader[q].asOf,
                       setAt |-> epoch]]
       \/ CacheFails /\ UNCHANGED entry
    /\ UNCHANGED unchangedByReader

\* The request ends: it was answered, the database failed, the client went away, or
\* TimeoutLayer dropped it at one of its awaits.
EndCheck(q) ==
    /\ reader[q].pc # "idle"
    /\ reader' = [reader EXCEPT ![q] = NoCheck]
    /\ UNCHANGED <<unchangedByReader, entry>>

------------------------------------------------------------------------------
(* Changes of permissions.                                                 *)

Commits(u, perms) ==
    /\ epoch < MaxChanges
    /\ perms # granted[u]
    /\ granted' = [granted EXCEPT ![u] = perms]
    /\ epoch' = epoch + 1
    /\ changed' = [changed EXCEPT ![u] = now]

\* The repository call of PermissionAppService and UserAppService: create_role, update_role,
\* delete_role, set_role_permissions, assign_user_role, create, update, delete.
Commit(w, n, u, perms) ==
    /\ writer[w].pc = "idle"
    /\ Commits(u, perms)
    /\ writer' = [writer EXCEPT ![w] = [pc |-> "invalidate", node |-> n,
                                        change |-> epoch + 1, since |-> now]]
    /\ UNCHANGED <<now, version, issued, entry, reader, acked>>

\* Mutant of Invalidate: the version is deleted, not replaced.
InvalidateResets(w) ==
    /\ writer[w].pc = "invalidate"
    /\ version' = [version EXCEPT ![writer[w].node] = 0]
    /\ writer' = [writer EXCEPT ![w] = NoChange]
    /\ acked' = [acked EXCEPT ![writer[w].node] = IF @ < writer[w].change THEN writer[w].change ELSE @]
    /\ UNCHANGED <<now, granted, issued, entry, reader, epoch, changed>>

\* permission_cache::invalidate(): a new version, kept for ever; a failure is skipped.
\* The request then returns.
Invalidate(w) ==
    /\ writer[w].pc = "invalidate"
    /\ \/ /\ issued < MaxChanges
          /\ issued' = issued + 1
          /\ version' = [version EXCEPT ![writer[w].node] = issued + 1]
          /\ acked' = [acked EXCEPT ![writer[w].node] =
                          IF @ < writer[w].change THEN writer[w].change ELSE @]
       \/ CacheFails /\ UNCHANGED <<issued, version, acked>>
    /\ writer' = [writer EXCEPT ![w] = NoChange]
    /\ UNCHANGED <<now, granted, entry, reader, epoch, changed>>

\* The request is dropped after its commit and before its invalidation.
DropWriter(w) ==
    /\ writer[w].pc = "invalidate"
    /\ writer' = [writer EXCEPT ![w] = NoChange]
    /\ UNCHANGED <<now, granted, version, issued, entry, reader, epoch, changed, acked>>

\* AuthAppService::confirm_email_change and delete_account change what a username stands for
\* and leave the cache alone.
CommitQuietly(u, perms) ==
    /\ Commits(u, perms)
    /\ UNCHANGED <<now, version, issued, entry, reader, writer, acked>>

\* Time passes, and entries expire: Redis deletes them, MemoryCache at the next read.
\* TimeoutLayer: no request grows older than RequestTimeout.
Tick ==
    /\ now < MaxNow
    /\ \A q \in Readers : reader[q].pc # "idle" => now < reader[q].since + RequestTimeout
    /\ \A w \in Writers : writer[w].pc # "idle" => now < writer[w].since + RequestTimeout
    /\ now' = now + 1
    /\ entry' = [n \in Nodes |-> [v \in Versions |-> [u \in Usernames |->
                   IF now' < entry[n][v][u].until THEN entry[n][v][u] ELSE Missing]]]
    /\ UNCHANGED <<granted, version, issued, reader, writer, epoch, changed, acked>>

Check(q) ==
    \/ \E n \in Nodes, u \in Usernames : Begin(q, n, u)
    \/ ReadVersion(q) \/ Hit(q) \/ Miss(q) \/ LoadPermissions(q)
    \/ ReadVersionAgain(q) \/ Store(q) \/ EndCheck(q)

Change(w) ==
    \/ \E n \in Nodes, u \in Usernames, perms \in SUBSET Registry : Commit(w, n, u, perms)
    \/ Invalidate(w) \/ DropWriter(w)

CacheNext ==
    \/ \E q \in Readers : Check(q)
    \/ \E w \in Writers : Change(w)
    \/ \E u \in Usernames, perms \in SUBSET Registry : CommitQuietly(u, perms)
    \/ Tick

CacheSpec == CacheInit /\ [][CacheNext]_cacheVars

------------------------------------------------------------------------------
(* Properties.                                                             *)

Answering(q) == reader[q].pc # "answered" /\ reader'[q].pc = "answered"

\* CachedAuthorization::require: whatever fails, races or is never invalidated, an answer
\* that differs from the database is given only while the username's permissions have
\* changed within the last Ttl + RequestTimeout: the entry's life, after the longest that
\* a check can hold what it read from the database.
StaleAnswersExpire ==
    [][\A q \in Readers :
          LET u == reader'[q].user IN
          Answering(q) /\ reader'[q].perms # granted[u] => now - changed[u] < Ttl + RequestTimeout]_cacheVars

\* permission_cache::invalidate: a check that begins after a change has invalidated its cache, and
\* whose lookup of the version does not fail, reflects that change, whatever else fails; unless it
\* is served an entry whose check had read the database before a change and wrote it after.
InvalidatedChangesAreSeen ==
    [][\A q \in Readers :
          Answering(q) /\ reader'[q].asOf = reader'[q].setAt => reader[q].seen <= reader'[q].asOf]_cacheVars

=============================================================================
