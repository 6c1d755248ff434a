-------------------------- MODULE SearchProjection --------------------------
(***************************************************************************)
(* The search projection of the identity users: the managed writer bumps a *)
(* user's search_revision and puts one index command into the outbox in    *)
(* the same transaction, durable-job workers apply the commands to the     *)
(* Meilisearch index under the revision recorded in                        *)
(* search_projection_versions, and reindex_identity_users rebuilds the     *)
(* whole index from a database snapshot and swaps it in.                   *)
(*                                                                         *)
(* The outbox is used through what DurableJobs establishes of it: a        *)
(* command is handed out at most MaxAttempts times, possibly to two        *)
(* workers at once and in any order, until a delivery that returned Ok has *)
(* been recorded.  Meilisearch is external: it runs the tasks it accepted  *)
(* one after the other in the order of acceptance.                         *)
(***************************************************************************)
EXTENDS Integers, Sequences, FiniteSets, SequencesExt, FiniteSetsExt

CONSTANTS
    NumDocs,      \* users; the primary key orders the rebuild's pages
    Workers,      \* durable-job workers, one handler call each
    Rebuilders,   \* callers of reindex_identity_users
    Setups,       \* deployments, with bounds on what happens to them: see setup
    MaxRevision,  \* bound on the writes to one user
    MaxAttempts,  \* bound on max_attempts of an index command
    MaxRebuilds,  \* bound on the calls of reindex_identity_users
    BatchSize     \* rows of a rebuild page

ASSUME SearchAssumption ==
    /\ {NumDocs, MaxRevision, MaxAttempts, BatchSize} \subseteq Nat \ {0}
    /\ MaxRebuilds \in Nat
    /\ IsFiniteSet(Workers) /\ IsFiniteSet(Rebuilders) /\ "live" \notin Rebuilders
    /\ Setups \subseteq [postgres : BOOLEAN, docs : 1 .. NumDocs, revisions : 1 .. MaxRevision,
                         attempts : 1 .. MaxAttempts, rebuilds : 0 .. MaxRebuilds]
    \* reindex_identity_users needs PostgreSQL
    /\ \A s \in Setups : s.postgres \/ s.rebuilds = 0

VARIABLES
    setup,     \* the database (PostgreSQL: SearchIndexJobHandler; SQLite: its own handler), the
               \* users and writes, max_attempts and the calls of reindex_identity_users; fixed
    hist,      \* hist[d]: kinds of the committed writes to d; its length is search_revision
    jobs,      \* jobs[d][r]: deliveries so far of command r of d, and whether it is processed
    versions,  \* search_projection_versions: the revision recorded for d, 0 for no row
    worker,    \* the handler call of each worker
    rebuild,   \* the progress of each rebuilder
    rebuilds,  \* calls of reindex_identity_users so far
    queue,     \* Meilisearch: accepted tasks
    index,     \* Meilisearch: the live and the temporary index; 0 for no document
    missed     \* history: see MissedBy

projection == <<setup, hist, jobs, versions, worker, rebuild, rebuilds, queue, index, missed>>

Docs == 1 .. NumDocs
Revisions == 1 .. MaxRevision
Kinds == {"upsert", "delete"}

\* What the index shows for a row whose writes are h: a revision, or nothing.
Shown(h) == IF h # <<>> /\ Last(h) = "upsert" THEN Len(h) ELSE 0

Idle == [pc |-> "idle", doc |-> 1, rev |-> 1, fresh |-> TRUE, pos |-> 0]
Resting == [pc |-> "idle", snap |-> [d \in Docs |-> <<>>], last |-> 0, pos |-> 0]

\* Locks belong to the transaction: the rebuild lock shared by the handlers,
\* the document's lock, and the rebuild lock held alone by a rebuilder.
SharesRebuildLock(w) == setup.postgres /\ worker[w].pc \in {"document", "post", "wait", "record"}
LocksDocument(w, d) ==
    setup.postgres /\ worker[w].pc \in {"post", "wait", "record"} /\ worker[w].doc = d
HoldsRebuildLock(b) == rebuild[b].pc \notin {"idle", "waiting"}

ProjectionTypeOK ==
    /\ setup \in Setups
    /\ DOMAIN hist = Docs
    /\ \A d \in Docs : hist[d] \in Seq(Kinds) /\ Len(hist[d]) <= MaxRevision
    /\ jobs \in [Docs -> [Revisions -> [attempts : 0 .. MaxAttempts, processed : BOOLEAN]]]
    /\ versions \in [Docs -> 0 .. MaxRevision]
    /\ \A w \in Workers :
          /\ worker[w].pc \in {"idle", "begin", "document", "post", "wait", "record"}
          /\ worker[w].doc \in Docs /\ worker[w].rev \in Revisions
          /\ worker[w].fresh \in BOOLEAN /\ worker[w].pos \in 0 .. Len(queue)
    /\ \A b \in Rebuilders :
          /\ rebuild[b].pc \in {"idle", "waiting", "granted", "paging", "swapping", "dropping"}
          /\ rebuild[b].last \in 0 .. NumDocs /\ rebuild[b].pos \in 0 .. Len(queue)
    /\ rebuilds \in 0 .. MaxRebuilds
    /\ index \in [{"live", "temporary"} -> [Docs -> 0 .. MaxRevision]]
    /\ missed \in [Rebuilders \cup {"live"} -> SUBSET Docs]

ProjectionInit ==
    /\ setup \in Setups
    /\ hist = [d \in Docs |-> <<>>]
    /\ jobs = [d \in Docs |-> [r \in Revisions |-> [attempts |-> 0, processed |-> FALSE]]]
    /\ versions = [d \in Docs |-> 0]
    /\ worker = [w \in Workers |-> Idle]
    /\ rebuild = [b \in Rebuilders |-> Resting]
    /\ rebuilds = 0
    /\ queue = <<>>
    /\ index = [i \in {"live", "temporary"} |-> [d \in Docs |-> 0]]
    /\ missed = [x \in Rebuilders \cup {"live"} |-> {}]

-----------------------------------------------------------------------------
(* Writes to the users table                                               *)

\* A SQLite transaction that has read cannot write once another one has committed.
Outdated(ws) == [w \in Workers |-> [ws[w] EXCEPT !.fresh = setup.postgres \/ ws[w].pc = "idle"]]

\* create (a deleted user comes back), update and verify index the row anew;
\* delete needs a row that is not deleted.  The command is in the transaction.
WriteUser(d, kind) ==
    /\ d <= setup.docs /\ Len(hist[d]) < setup.revisions
    /\ kind = "delete" => Shown(hist[d]) # 0
    /\ hist' = [hist EXCEPT ![d] = Append(@, kind)]
    /\ worker' = Outdated(worker)
    /\ UNCHANGED <<jobs, versions, rebuild, rebuilds, queue, index, missed>>

-----------------------------------------------------------------------------
(* The handler of the index command                                        *)

\* A split SQLite deployment is rejected at startup: one process with one worker.
MayWork(w) == setup.postgres \/ \A v \in Workers : worker[v].pc = "idle"

Claim(w, d, r) ==
    /\ worker[w].pc = "idle" /\ MayWork(w)
    /\ r <= Len(hist[d])
    /\ ~jobs[d][r].processed /\ jobs[d][r].attempts < setup.attempts
    /\ jobs' = [jobs EXCEPT ![d][r].attempts = @ + 1]
    /\ worker' = [worker EXCEPT ![w] = [Idle EXCEPT !.pc = "begin", !.doc = d, !.rev = r]]
    /\ UNCHANGED <<hist, versions, rebuild, rebuilds, queue, index, missed>>

\* PostgreSQL only: waits while a rebuild holds its lock.
ShareRebuildLock(w) ==
    /\ setup.postgres /\ worker[w].pc = "begin"
    /\ \A b \in Rebuilders : ~HoldsRebuildLock(b)
    /\ worker' = [worker EXCEPT ![w].pc = "document"]
    /\ UNCHANGED <<hist, jobs, versions, rebuild, rebuilds, queue, index, missed>>

\* Handler returned Ok: mark_completed records it, or fails and the command stays.
Processed(w) ==
    LET d == worker[w].doc  r == worker[w].rev IN
    /\ \/ jobs' = [jobs EXCEPT ![d][r].processed = TRUE]
       \/ UNCHANGED jobs
    /\ worker' = [worker EXCEPT ![w] = Idle]

\* Reads the recorded revision: a command that is not newer is stale and done.
ReadVersion(w) ==
    IF versions[worker[w].doc] >= worker[w].rev
    THEN /\ Processed(w)
         /\ UNCHANGED <<hist, versions, rebuild, rebuilds, queue, index, missed>>
    ELSE /\ worker' = [worker EXCEPT ![w].pc = "post", ![w].fresh = TRUE]
         /\ UNCHANGED <<hist, jobs, versions, rebuild, rebuilds, queue, index, missed>>

\* The mutated step reads without the document's lock.
LockDocumentNot(w) ==
    /\ worker[w].pc = IF setup.postgres THEN "document" ELSE "begin"
    /\ ReadVersion(w)

LockDocument(w) ==
    /\ worker[w].pc = IF setup.postgres THEN "document" ELSE "begin"
    /\ \A v \in Workers \ {w} : ~LocksDocument(v, worker[w].doc)
    /\ ReadVersion(w)

Command(w) == [op |-> hist[worker[w].doc][worker[w].rev], doc |-> worker[w].doc, rev |-> worker[w].rev]

\* upsert or delete: the request is accepted, and the wait starts.
PostCommand(w) ==
    /\ worker[w].pc = "post"
    /\ queue' = Append(queue, Command(w))
    /\ worker' = [worker EXCEPT ![w].pc = "wait", ![w].pos = Len(queue) + 1]
    /\ UNCHANGED <<hist, jobs, versions, rebuild, rebuilds, index, missed>>

\* The mutated wait takes an elapsed timeout for success, as wait_for_swap does.
TaskSucceededOrTimedOut(w) ==
    /\ worker[w].pc = "wait"
    /\ worker' = [worker EXCEPT ![w].pc = "record", ![w].pos = 0]
    /\ UNCHANGED <<hist, jobs, versions, rebuild, rebuilds, queue, index, missed>>

\* wait: the task has succeeded.
TaskSucceeded(w) ==
    /\ worker[w].pc = "wait" /\ worker[w].pos = 0
    /\ worker' = [worker EXCEPT ![w].pc = "record"]
    /\ UNCHANGED <<hist, jobs, versions, rebuild, rebuilds, queue, index, missed>>

\* History: a rebuilder that waits for its lock already has its snapshot, so it
\* misses what a handler records before the lock is granted.
MissedBy(x, d) ==
    IF x = "live" THEN missed[x] \ {d}
    ELSE IF rebuild[x].pc = "waiting" THEN missed[x] \cup {d} ELSE missed[x]

\* Records the revision and commits; the caller may still see the commit fail.
RecordVersion(w) ==
    LET d == worker[w].doc IN
    /\ worker[w].pc = "record" /\ worker[w].fresh
    /\ versions' = [versions EXCEPT ![d] = worker[w].rev]
    /\ missed' = [x \in DOMAIN missed |-> MissedBy(x, d)]
    /\ Processed(w)
    /\ UNCHANGED <<hist, rebuild, rebuilds, queue, index>>

\* Any error of the database or of a request, the timeout of the wait, a response
\* that is lost after the task was accepted, a crash: the transaction rolls back.
Abandon(w) ==
    /\ worker[w].pc # "idle"
    /\ worker' = [worker EXCEPT ![w] = Idle]
    /\ UNCHANGED <<hist, jobs, versions, rebuild, rebuilds, queue, index, missed>>

WorkerStep(w) ==
    \/ \E d \in Docs, r \in Revisions : Claim(w, d, r)
    \/ ShareRebuildLock(w)
    \/ LockDocument(w)
    \/ PostCommand(w)
    \/ TaskSucceeded(w)
    \/ RecordVersion(w)
    \/ Abandon(w)

-----------------------------------------------------------------------------
(* reindex_identity_users                                                  *)

\* The REPEATABLE READ snapshot is that of the statement that asks for the lock.
BeginRebuild(b) ==
    /\ rebuild[b].pc = "idle" /\ rebuilds < setup.rebuilds
    /\ rebuilds' = rebuilds + 1
    /\ rebuild' = [rebuild EXCEPT ![b] = [Resting EXCEPT !.pc = "waiting", !.snap = hist]]
    /\ missed' = [missed EXCEPT ![b] = {}]
    /\ UNCHANGED <<hist, jobs, versions, worker, queue, index>>

Post(b, pc, task) ==
    /\ queue' = Append(queue, task)
    /\ rebuild' = [rebuild EXCEPT ![b].pc = pc, ![b].pos = Len(queue) + 1]
    /\ UNCHANGED <<hist, jobs, versions, worker, rebuilds, index, missed>>

EmptyTemporary == [op |-> "empty"]

\* The lock is granted; prepare_rebuild drops and creates the temporary index.
\* (Creation and settings are tasks of their own that are waited for in turn.)
GrantRebuildLock(b) ==
    /\ rebuild[b].pc = "waiting"
    /\ \A w \in Workers : ~SharesRebuildLock(w)
    /\ \A c \in Rebuilders : ~HoldsRebuildLock(c)
    /\ Post(b, "granted", EmptyTemporary)

\* next_page: the first BatchSize rows of the snapshot after last that are not deleted.
NextPage(b) ==
    LET rows == {d \in Docs : d > rebuild[b].last /\ Shown(rebuild[b].snap[d]) # 0}
    IN  {d \in rows : Cardinality({e \in rows : e < d}) < BatchSize}

ReadsPages(b) == rebuild[b].pc \in {"granted", "paging"} /\ rebuild[b].pos = 0

UpsertPage(b) ==
    LET page == NextPage(b)
        task == [op |-> "page", rows |-> [d \in page |-> Shown(rebuild[b].snap[d])]]
    IN
    /\ ReadsPages(b) /\ page # {}
    /\ queue' = Append(queue, task)
    /\ rebuild' = [rebuild EXCEPT ![b].pc = "paging", ![b].last = Max(page), ![b].pos = Len(queue) + 1]
    /\ UNCHANGED <<hist, jobs, versions, worker, rebuilds, index, missed>>

\* promote_rebuild asks for the swap; the task carries, as history, whose it is.
PostSwap(b) ==
    /\ ReadsPages(b) /\ NextPage(b) = {}
    /\ Post(b, "swapping", [op |-> "swap", snap |-> rebuild[b].snap, missed |-> missed[b]])

\* The swap is confirmed: the old documents, now in the temporary index, are dropped.
DropTemporary(b) ==
    /\ rebuild[b].pc = "swapping" /\ rebuild[b].pos = 0
    /\ Post(b, "dropping", EmptyTemporary)

\* The transaction ends: after the drop, when the swap is not confirmed in time,
\* and on any error, lost response or crash (the tasks stay accepted).
EndRebuild(b) ==
    /\ rebuild[b].pc # "idle"
    /\ rebuild' = [rebuild EXCEPT ![b] = Resting]
    /\ missed' = [missed EXCEPT ![b] = {}]
    /\ UNCHANGED <<hist, jobs, versions, worker, rebuilds, queue, index>>

RebuildStep(b) ==
    \/ BeginRebuild(b)
    \/ GrantRebuildLock(b)
    \/ UpsertPage(b)
    \/ PostSwap(b)
    \/ DropTemporary(b)
    \/ EndRebuild(b)

-----------------------------------------------------------------------------
(* Meilisearch                                                             *)

\* What a task that succeeds makes of the two indexes.
Applied(task) ==
    CASE task.op = "upsert" -> [index EXCEPT !["live"][task.doc] = task.rev]
      [] task.op = "delete" -> [index EXCEPT !["live"][task.doc] = 0]
      [] task.op = "empty"  -> [index EXCEPT !["temporary"] = [d \in Docs |-> 0]]
      [] task.op = "page"   -> [index EXCEPT !["temporary"] =
                                   [d \in Docs |-> IF d \in DOMAIN task.rows THEN task.rows[d] ELSE @[d]]]
      [] task.op = "swap"   -> [i \in {"live", "temporary"} |->
                                   index[IF i = "live" THEN "temporary" ELSE "live"]]

RunTask ==
    /\ queue # <<>>
    /\ queue' = Tail(queue)
    /\ index' = Applied(Head(queue))
    /\ missed' = IF Head(queue).op = "swap" THEN [missed EXCEPT !["live"] = Head(queue).missed] ELSE missed
    /\ worker' = [w \in Workers |-> [worker[w] EXCEPT !.pos = IF @ = 0 THEN 0 ELSE @ - 1]]
    /\ rebuild' = [b \in Rebuilders |-> [rebuild[b] EXCEPT !.pos = IF @ = 0 THEN 0 ELSE @ - 1]]
    /\ UNCHANGED <<hist, jobs, versions, rebuilds>>

\* A task that ends failed or canceled changes nothing; whoever waits for it sees an error.
FailTask ==
    /\ queue # <<>>
    /\ queue' = Tail(queue)
    /\ worker' = [w \in Workers |-> IF worker[w].pos = 1 THEN Idle
                                    ELSE [worker[w] EXCEPT !.pos = IF @ = 0 THEN 0 ELSE @ - 1]]
    /\ rebuild' = [b \in Rebuilders |-> IF rebuild[b].pos = 1 THEN Resting
                                        ELSE [rebuild[b] EXCEPT !.pos = IF @ = 0 THEN 0 ELSE @ - 1]]
    /\ UNCHANGED <<hist, jobs, versions, rebuilds, index, missed>>

ProjectionNext ==
    /\ UNCHANGED setup
    /\ \/ \E d \in Docs, kind \in Kinds : WriteUser(d, kind)
       \/ \E w \in Workers : WorkerStep(w)
       \/ \E b \in Rebuilders : RebuildStep(b)
       \/ RunTask
       \/ FailTask

ProjectionSpec == ProjectionInit /\ [][ProjectionNext]_projection

-----------------------------------------------------------------------------
(* Properties                                                              *)

\* A search never shows a user in a revision older than the one recorded as
\* applied - a deleted user does not come back - whatever order the commands
\* are delivered in, how often they are retried after a timeout whose task ran
\* later, and with rebuilds in between.  Excepted are exactly the users whose
\* command was recorded while the rebuild now live was waiting for its lock.
NoSupersededHit ==
    \A d \in Docs \ missed["live"] :
        index["live"][d] # 0 => index["live"][d] >= versions[d]

\* When every command is processed and nothing is in flight, the live index shows
\* every user as the users table has it, the missed ones excepted.
ConvergesWhenQuiet ==
    (/\ queue = <<>>
     /\ \A w \in Workers : worker[w].pc = "idle"
     /\ \A b \in Rebuilders : rebuild[b].pc = "idle"
     /\ \A d \in Docs : \A r \in 1 .. Len(hist[d]) : jobs[d][r].processed)
    => \A d \in Docs \ missed["live"] : index["live"][d] = Shown(hist[d])

=============================================================================
