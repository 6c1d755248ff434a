------------------------------ MODULE Resources ------------------------------
(***************************************************************************)
(* A generated resource as it runs: the program that resource_generator    *)
(* emits (source.rs, persistence.rs, http.rs, web.rs, web_pagination.rs)   *)
(* over the roles of Roles.  The use-case service asks for a permission    *)
(* and then goes to the repository; bearer clients call it over HTTP, and  *)
(* a browser's page calls it through server functions.  The page keeps     *)
(* several requests in flight, and their answers come in any order.        *)
(*                                                                         *)
(* A row is its identifier: what its fields hold decides nothing here.     *)
(***************************************************************************)
EXTENDS Roles, Integers, FiniteSetsExt

CONSTANTS
    Ids,          \* identifiers, in the order of ORDER BY id
    Slots,        \* calls that are in flight at the same time, 1..n
    Limit,        \* ResourcePageRequest::LIMIT
    MaxOffset,    \* the largest offset that both databases bind, i64::MAX
    Granting,     \* use case -> the permission it asks for
    None,
    MaxLoads      \* bound: how often the page loads its list

ASSUME ResourcesAssumption ==
    /\ Ids \subseteq Nat \ {0} /\ IsFiniteSet(Ids) /\ None \notin Nat
    /\ Slots \subseteq Nat /\ {Limit, MaxLoads} \subseteq Nat \ {0} /\ MaxOffset \in Nat
    /\ DOMAIN Granting = {"list", "get", "create", "update", "delete"}

VARIABLES
    rows,         \* the table
    used,         \* identifiers that were given out: Uuid::new_v4 gives none twice
    call,         \* the calls in flight
    page,         \* the browser's page
    asked         \* how many calls bearer clients made, and changes the page asked for: setup.calls bounds them

resourceVars == <<rows, used, call, page, asked>>
allVars == <<vars, resourceVars>>

\* The account that the page and the clients act for.
Actor == Root

\* A call goes through "require", "act" and, where a list is not read at once, "read" to "answer".
\* could is history: the actor held the permission at some moment since the call began.
NoCall == [pc |-> "idle", kind |-> None, client |-> None, id |-> None, offset |-> 0, request |-> None, total |-> 0, answer |-> None, could |-> FALSE]

\* ResourcePagination, the rows shown, whether a change is pending, the row whose deletion is to be confirmed and
\* form_open with editing: the row that the form is for, or New.
\* The generation wraps at 2^64, which no page reaches: it counts the loads.
\* shown and gone are history: the load whose answer is shown, the rows that were reported deleted.
New == 0
Page ==
    [number |-> 0, total |-> None, loading |-> FALSE, generation |-> 0, items |-> {}, pending |-> FALSE, candidate |-> None, form |-> None,
     shown |-> 0, gone |-> {}]

------------------------------------------------------------------------------
(* The use-case service and the repository.                                *)

Permitted(kind) == Granting[kind] \in Granted(Actor)

\* The rows of a page, ORDER BY id LIMIT .. OFFSET ..
Rank(i) == Cardinality({j \in rows : j < i})
Selected(offset) == {i \in rows : Rank(i) >= offset /\ Rank(i) < offset + Limit}

SetCall(c, r) == call' = [call EXCEPT ![c] = r]
Answered(outcome, total, items) == [outcome |-> outcome, total |-> total, items |-> items]
AnswerWith(c, answer) == SetCall(c, [call[c] EXCEPT !.pc = "answer", !.offset = 0, !.total = 0, !.answer = answer])

\* A server function gives the page an error and its wording, whatever went wrong.
Failure == Answered("error", 0, {})
Answer(c, outcome) == AnswerWith(c, IF call[c].client = "page" /\ outcome # "ok" THEN Failure ELSE Answered(outcome, 0, {}))
AnswerRows(c, total) == AnswerWith(c, Answered("ok", total, Selected(call[c].offset)))

\* A plausible bug: deleting needs no permission.
RequireForgets(c) ==
    /\ call[c].pc = "require"
    /\ \/ SetCall(c, [call[c] EXCEPT !.pc = "act"]) /\ (Permitted(call[c].kind) \/ call[c].kind = "delete")
       \/ ~Permitted(call[c].kind) /\ Answer(c, "forbidden")
       \/ \E failure \in {"unauthorized", "persistence"} : Answer(c, failure)

\* The authorization adapter: the session, the user and the permission.
Require(c) ==
    /\ call[c].pc = "require"
    /\ \/ Permitted(call[c].kind) /\ SetCall(c, [call[c] EXCEPT !.pc = "act"])
       \/ ~Permitted(call[c].kind) /\ Answer(c, "forbidden")
       \/ \E failure \in {"unauthorized", "persistence"} : Answer(c, failure)

\* The repository's transaction counts and then selects; SQLite gives both the same snapshot.
List(c) ==
    /\ call[c].kind = "list"
    /\ IF call[c].offset > MaxOffset THEN Answer(c, "invalid-input")
       ELSE IF setup.postgres THEN SetCall(c, [call[c] EXCEPT !.pc = "read", !.total = Cardinality(rows)])
       ELSE AnswerRows(c, Cardinality(rows))
    /\ UNCHANGED <<rows, used>>

Read(c) ==
    /\ call[c].pc = "read"
    /\ AnswerRows(c, call[c].total)
    /\ UNCHANGED <<rows, used>>

Found(c) == IF call[c].id \in rows THEN "ok" ELSE "not-found"

Get(c) == call[c].kind = "get" /\ Answer(c, Found(c)) /\ UNCHANGED <<rows, used>>

\* The repository's INSERT, UPDATE and DELETE: each is a statement and a transaction of its own.
Insert(i) == rows' = rows \cup {i} /\ used' = used \cup {i}
Overwrite == UNCHANGED <<rows, used>>
Remove(i) == rows' = rows \ {i} /\ UNCHANGED used

\* ids.next_id() and the insertion.
Create(c) == call[c].kind = "create" /\ Answer(c, "ok") /\ \E i \in Ids \ used : Insert(i)

\* UPDATE .. WHERE id = .. RETURNING: no row comes back where there is none.
Update(c) == call[c].kind = "update" /\ Answer(c, Found(c)) /\ Overwrite

Delete(c) == call[c].kind = "delete" /\ Answer(c, Found(c)) /\ Remove(call[c].id)

\* persistence_error and write_error: nothing was changed.
Fails(c) == call[c].pc \in {"act", "read"} /\ Answer(c, "persistence") /\ UNCHANGED <<rows, used>>

Serve(c) ==
    /\ \/ Require(c) /\ UNCHANGED <<rows, used>>
       \/ call[c].pc = "act" /\ (List(c) \/ Get(c) \/ Create(c) \/ Update(c) \/ Delete(c))
       \/ Read(c) \/ Fails(c)
    /\ UNCHANGED <<page, asked>>

------------------------------------------------------------------------------
(* Bearer clients.                                                         *)

IdleSlots == {c \in Slots : call[c].pc = "idle"}
Slot == Min(IdleSlots)

Begun(kind, client, id, offset, ticket) ==
    [NoCall EXCEPT !.pc = "require", !.kind = kind, !.client = client, !.id = id, !.offset = offset, !.request = ticket, !.could = Permitted(kind)]

\* The five routes; a client names any identifier.  The page's lists ask for the offsets that a
\* database can bind, this one for the first that it cannot.
Request ==
    /\ IdleSlots # {} /\ asked < setup.calls
    /\ \E kind \in DOMAIN Granting, i \in used \cup {None} :
          /\ (i = None) = (kind \in {"list", "create"})
          /\ kind = "create" => Ids # used
          /\ SetCall(Slot, Begun(kind, "http", i, IF kind = "list" THEN MaxOffset + 1 ELSE 0, None))
    /\ asked' = asked + 1
    /\ UNCHANGED <<rows, used, page>>

StatusOf(kind, outcome) ==
    CASE outcome = "unauthorized" -> 401 [] outcome = "forbidden" -> 403 [] outcome = "not-found" -> 404
      [] outcome = "invalid-input" -> 400 [] outcome \in {"persistence", "error"} -> 500
      [] OTHER -> IF kind = "create" THEN 201 ELSE IF kind = "delete" THEN 204 ELSE 200

Respond(c) ==
    /\ call[c].pc = "answer" /\ call[c].client = "http"
    /\ SetCall(c, NoCall)
    /\ UNCHANGED <<rows, used, page, asked>>

------------------------------------------------------------------------------
(* The page: pagination.                                                   *)

\* A plausible bug: any answer for the page that is selected will do.
IsCurrentPage(p, ticket) == p.loading /\ p.number = ticket.number

IsCurrent(p, ticket) == p.loading /\ p.generation = ticket.generation /\ p.number = ticket.number

\* A plausible bug: a page whose load failed goes on loading.
FailKeepsLoading(p) == [p EXCEPT !.total = None]

Fail(p) == [p EXCEPT !.total = None, !.loading = FALSE]

RequestOf(p) == [number |-> p.number, generation |-> p.generation]

BeginLoad(p, number) ==
    [p EXCEPT !.number = Min({number, MaxOffset \div Limit}), !.generation = @ + 1, !.total = None, !.loading = TRUE]

LastOf(total) == (IF total = 0 THEN 0 ELSE total - 1) \div Limit

Pages(p) == IF p.total \in {None, 0} THEN 0 ELSE (p.total - 1) \div Limit + 1
Ready(p) == ~p.loading /\ p.total # None

\* The load callback: the rows and the confirmation are cleared before anything is awaited.
Loading(p, number) == [BeginLoad(p, number) EXCEPT !.items = {}, !.candidate = None]

Load(p, number, c, others) ==
    LET q == Loading(p, number)
    IN  /\ page' = q
        /\ call' = [others EXCEPT ![c] = Begun("list", "page", None, q.number * Limit, RequestOf(q))]

\* The page is opened.
Open ==
    /\ page.generation = 0 /\ IdleSlots # {} /\ Load(page, 0, Slot, call)
    /\ UNCHANGED <<rows, used, asked>>

\* The buttons: first, previous, next, last and refresh.
Targets ==
    LET previous == Ready(page) /\ page.number > 0
        next == Ready(page) /\ page.number + 1 < Pages(page)
    IN  (IF previous THEN {0, page.number - 1} ELSE {}) \cup (IF next THEN {page.number + 1, Pages(page) - 1} ELSE {})
        \cup (IF page.loading THEN {} ELSE {page.number})

Navigate ==
    /\ page.generation \in 1..MaxLoads - 1 /\ ~page.pending /\ IdleSlots # {}
    /\ \E number \in Targets : Load(page, number, Slot, call)
    /\ UNCHANGED <<rows, used, asked>>

\* A server function's answer may also be lost on its way.
Failed(a) == a.outcome # "ok"
Answers(c) == {call[c].answer, Failure}

\* The task of a load: an answer that is no longer asked for is dropped; the last page that
\* there is takes the place of one that there is not any more.
ReceiveList(c) ==
    /\ call[c].pc = "answer" /\ call[c].client = "page" /\ call[c].kind = "list"
    /\ \E a \in Answers(c) :
          IF ~IsCurrent(page, call[c].request) THEN SetCall(c, NoCall) /\ UNCHANGED page
          ELSE IF Failed(a)
               THEN SetCall(c, NoCall) /\ page' = Fail(page)
          ELSE IF page.number > LastOf(a.total)
               THEN LET q == BeginLoad(page, LastOf(a.total))
                    IN  page' = q /\ SetCall(c, Begun("list", "page", None, q.number * Limit, RequestOf(q)))
          ELSE /\ SetCall(c, NoCall)
               /\ page' = [page EXCEPT !.total = a.total, !.loading = FALSE, !.items = a.items, !.shown = call[c].request.generation]
    /\ UNCHANGED <<rows, used, asked>>

------------------------------------------------------------------------------
(* The page: the form and the deletion of a row.  The gates of the buttons *)
(* say what the session was told; the service does not rely on them.       *)

Touch(p) == page' = p /\ UNCHANGED <<rows, used, call, asked>>

AskDelete == \E i \in page.items : Touch([page EXCEPT !.candidate = i])
CancelDelete == page.candidate # None /\ Touch([page EXCEPT !.candidate = None])

Mutate(kind, id, p) ==
    /\ ~page.pending /\ asked < setup.calls /\ IdleSlots # {}
    /\ kind = "create" => Ids # used
    /\ SetCall(Slot, Begun(kind, "page", id, 0, None))
    /\ page' = [p EXCEPT !.pending = TRUE]
    /\ asked' = asked + 1
    /\ UNCHANGED <<rows, used>>

\* The form may be opened, or opened for another row, while a change is pending.
BeginForm == \E i \in page.items \cup {New} : page.generation > 0 /\ Touch([page EXCEPT !.form = i])
CancelForm == page.form # None /\ Touch([page EXCEPT !.form = None])

\* Values that parse are sent.
Submit ==
    /\ page.form # None
    /\ IF page.form = New THEN Mutate("create", None, page) ELSE Mutate("update", page.form, page)

ConfirmDelete == page.candidate # None /\ Mutate("delete", page.candidate, [page EXCEPT !.candidate = None])

\* The task of a change: success closes the form, whatever it is for by now, and loads the page
\* that is selected by now again.
ReceiveChange(c) ==
    /\ call[c].pc = "answer" /\ call[c].client = "page" /\ call[c].kind \in {"create", "update", "delete"}
    /\ \E a \in Answers(c) :
          LET deletes == call[c].kind = "delete"
              p == [page EXCEPT !.pending = FALSE, !.gone = IF deletes THEN @ \cup {call[c].id} ELSE @, !.form = IF deletes THEN @ ELSE None]
          IN  IF Failed(a) THEN SetCall(c, NoCall) /\ page' = [page EXCEPT !.pending = FALSE]
              ELSE page.generation < MaxLoads /\ Load(p, page.number, c, call)
    /\ UNCHANGED <<rows, used, asked>>

------------------------------------------------------------------------------
ResourcesInit ==
    /\ Init
    /\ IF setup.calls > 0 THEN \E n \in Limit..Cardinality(Ids) : rows = {i \in Ids : Cardinality({j \in Ids : j < i}) < n} ELSE rows = {}
    /\ used = rows
    /\ call = [c \in Slots |-> NoCall]
    /\ page = Page
    /\ asked = 0

\* What an administrator does meanwhile.
RolesStep ==
    /\ Step
    /\ call' = [c \in Slots |-> IF call[c].pc \in {"idle", "answer"} THEN call[c] ELSE [call[c] EXCEPT !.could = @ \/ Granting[call[c].kind] \in Granted(Actor)']]
    /\ UNCHANGED <<setup, rows, used, page, asked>>

Call(c) == Serve(c) \/ Respond(c) \/ ReceiveList(c) \/ ReceiveChange(c)

PageStep ==
    Open \/ Navigate \/ AskDelete \/ CancelDelete \/ BeginForm \/ CancelForm \/ Submit \/ ConfirmDelete

ResourcesNext ==
    \/ RolesStep
    \/ setup.calls > 0 /\ (Request \/ PageStep \/ \E c \in Slots : Call(c)) /\ UNCHANGED vars

\* A server that is asked answers, and the browser runs its tasks.
Fairness == \A c \in Slots : WF_allVars(setup.calls > 0 /\ Call(c) /\ UNCHANGED vars)

ResourcesSpec == ResourcesInit /\ [][ResourcesNext]_allVars /\ Fairness

------------------------------------------------------------------------------
(* Properties.                                                             *)

\* The generations of web_pagination.rs and the order of the load callback: rows and counts on
\* the page are the answer to its last request, whatever was in flight; while it waits, and after
\* a failure, it shows none.  A deletion is only confirmed for a row that is shown, and a row
\* that was reported deleted is not shown again.  complete(): a page that is shown exists, is
\* full or the last, and is empty only when there are no rows; over PostgreSQL the rows may be
\* fewer than the count says, as READ COMMITTED lets another commit come between the two.
ShownRowsAreCurrent ==
    /\ ~Ready(page) => page.items = {}
    /\ page.candidate # None => page.candidate \in page.items
    /\ page.items \cap page.gone = {}
    /\ Ready(page) =>
        LET rest == page.total - page.number * Limit
        IN  /\ page.shown = page.generation
            /\ page.total > 0 => page.number < Pages(page)
            /\ page.total = 0 => page.number = 0
            /\ ~setup.postgres => Cardinality(page.items) = Min({Limit, rest})
            /\ Cardinality(page.items) <= Limit

\* authorization.require() of every use case comes before the repository: no row is read or
\* changed for an actor who held the permission at no moment since the call began.
AnsweredOnlyIfPermitted ==
    \A c \in Slots : call[c].pc = "answer" /\ StatusOf(call[c].kind, call[c].answer.outcome) \in {200, 201, 204, 404} => call[c].could

\* The loop of the load callback ends: each correction goes to an earlier page, so that a page
\* that loads shows rows or an error in the end, whatever other clients delete.
LoadingEnds == page.loading ~> ~page.loading
=============================================================================
