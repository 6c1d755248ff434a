----------------------------- MODULE ChangePlans -----------------------------
(***************************************************************************)
(* What a command wants to do to an application's files, and the editors   *)
(* that work it out (tools/application_mutator: lib.rs and editor.rs).     *)
(*                                                                         *)
(* A change is a record of path, op, the contents before and after (None   *)
(* where the file is absent) and, for a retirement, the integration that   *)
(* manages the file.  A plan is a function from paths to changes: the code *)
(* keeps the changes sorted by path, one for each.                         *)
(***************************************************************************)
EXTENDS ApplicationManifest

\* Outcomes of an editor that are not a new text: it refuses the text, finds what it would
\* add already there, or finds something else in its place.
CONSTANTS Error, Present, Occupied

Creation(path, after) ==
    IF ValidPath(path) THEN [path |-> path, op |-> "create", before |-> None, after |-> after, managed |-> None]
    ELSE None

Edit(path, before, after) ==
    IF ValidPath(path) /\ before # after
    THEN [path |-> path, op |-> "edit", before |-> before, after |-> after, managed |-> None]
    ELSE None

Declares(ownership, path, integration) ==
    [path |-> path, class |-> "managed-integration", integration |-> integration] \in Range(ownership.claims)

\* Only a file that the ownership record gives to the integration is retired.
Retirement(ownership, path, integration, before) ==
    IF ValidPath(path) /\ ValidOwnership(ownership) /\ Declares(ownership, path, integration)
    THEN [path |-> path, op |-> "retire", before |-> before, after |-> None, managed |-> integration]
    ELSE None

\* ChangePlan::new: a path is changed once.
PlanOf(changes) ==
    IF None \notin Range(changes) /\ Cardinality({changes[i].path : i \in DOMAIN changes}) = Len(changes)
    THEN [p \in {changes[i].path : i \in DOMAIN changes} |-> CHOOSE c \in Range(changes) : c.path = p]
    ELSE None

(***************************************************************************)
(* Plans one after the other become one plan, where the second expects     *)
(* what the first leaves.                                                  *)
(***************************************************************************)
Chain(first, second) ==
    LET ops == <<first.op, second.op>>
    IN  CASE second.before # first.after -> Error
          [] ops \in {<<"create", "edit">>, <<"edit", "edit">>} -> [first EXCEPT !.after = second.after]
          [] ops = <<"create", "retire">> -> None
          [] ops = <<"edit", "retire">> -> [second EXCEPT !.before = first.before]
          [] ops = <<"retire", "create">> ->
                [path |-> first.path, op |-> "edit", before |-> first.before, after |-> second.after, managed |-> None]
          [] OTHER -> Error

ComposeTwo(plan, next) ==
    IF plan = None \/ next = None THEN None
    ELSE LET both == DOMAIN plan \cap DOMAIN next
             joined == [p \in both |-> Chain(plan[p], next[p])]
             kept == {p \in DOMAIN plan \cup DOMAIN next : p \in both => joined[p] # None}
         IN  IF \E p \in both : joined[p] = Error THEN None
             ELSE [p \in kept |-> CASE p \in both -> joined[p]
                                    [] p \in DOMAIN plan \ both -> plan[p]
                                    [] OTHER -> next[p]]

Compose(plans) == FoldLeft(ComposeTwo, << >>, plans)

\* The files after a plan, for files that are as the plan expects.
Fits(plan, files) == \A p \in DOMAIN plan : files[p] = plan[p].before
Apply(plan, files) == [p \in DOMAIN files |-> IF p \in DOMAIN plan THEN plan[p].after ELSE files[p]]

(***************************************************************************)
(* Registrations in a Rust source file.  A file is its lines, or None      *)
(* where its line ends are not all of one kind; a line is a marker, a      *)
(* registration of a key, or other code.  Keys are numbers: only their     *)
(* order matters.                                                          *)
(***************************************************************************)
Positions(lines, line) == {i \in DOMAIN lines : lines[i] = line}
Registered(k) == <<"mod", k>>
Opens(k) == <<"open", k>>
Closes(k) == <<"close", k>>
Block == <<"block">>
BlockEnd == <<"block-end">>

\* One block, its start before its end.
Delimited(lines) ==
    /\ Cardinality(Positions(lines, Block)) = 1 /\ Cardinality(Positions(lines, BlockEnd)) = 1
    /\ \A s \in Positions(lines, Block), e \in Positions(lines, BlockEnd) : s < e

StartOf(lines) == CHOOSE i \in DOMAIN lines : lines[i] = Block
EndOf(lines) == CHOOSE i \in DOMAIN lines : lines[i] = BlockEnd

Ascending(keys) == \A i, j \in DOMAIN keys : i < j => keys[i] < keys[j]

\* plan_rust_module: the new lines, Present or Error.
PlanRustModule(lines, k) ==
    IF k \notin Nat \/ lines = None \/ ~Delimited(lines) THEN Error
    ELSE LET s == StartOf(lines)
             e == EndOf(lines)
             inside == SubSeq(lines, s + 1, e - 1)
             keys == [i \in DOMAIN inside |-> inside[i][2]]
         IN  CASE \E i \in DOMAIN lines \ (s .. e) : lines[i] = Registered(k) -> Error
               [] \E i \in DOMAIN inside : inside[i][1] # "mod" \/ inside[i][2] \notin Nat -> Error
               [] ~(\E i \in DOMAIN inside : inside[i][1] # "mod" \/ inside[i][2] \notin Nat) /\ ~Ascending(keys) -> Error
               [] Registered(k) \in Range(inside) -> Present
               [] OTHER -> SubSeq(lines, 1, s)
                           \o SortSeq(Append(inside, Registered(k)), LAMBDA a, b : a[2] < b[2])
                           \o SubSeq(lines, e, Len(lines))

\* The keyed entries between two lines, as [key, at, to]; Error where the block holds anything else.
Entries(lines, start, e) ==
    LET from[cursor \in start .. e] ==
            IF cursor = e THEN << >>
            ELSE IF lines[cursor] = <<"blank">> THEN from[cursor + 1]
            ELSE IF lines[cursor][1] # "open" \/ lines[cursor][2] \notin Nat THEN Error
            ELSE LET k == lines[cursor][2]
                     closing == {i \in cursor + 1 .. e - 1 : lines[i] = Closes(k)}
                 IN  IF closing = {} THEN Error
                     ELSE LET to == CHOOSE i \in closing : \A j \in closing : i <= j
                              rest == from[to + 1]
                          IN  IF rest = Error \/ \E i \in cursor + 1 .. to - 1 : lines[i][1] \in {"open", "close"}
                              THEN Error ELSE <<[key |-> k, at |-> cursor, to |-> to]>> \o rest
    IN  from[start]

\* plan_rust_managed_entry: an entry that is there already is left as it is.
PlanManagedEntry(lines, k, entry) ==
    IF k \notin Nat \/ entry = << >> \/ lines = None \/ ~Delimited(lines) THEN Error
    ELSE LET s == StartOf(lines)
             e == EndOf(lines)
             found == Entries(lines, s + 1, e)
         IN  IF \/ \E i \in DOMAIN lines \ (s .. e) : lines[i] \in {Opens(k), Closes(k)}
                \/ found = Error THEN Error
             ELSE IF ~Ascending([i \in DOMAIN found |-> found[i].key]) THEN Error
             ELSE IF \E i \in DOMAIN found : found[i].key = k THEN Present
             ELSE LET after == {found[i].at : i \in {j \in DOMAIN found : found[j].key > k}}
                      at == IF after = {} THEN e ELSE CHOOSE i \in after : \A j \in after : i <= j
                  IN  SubSeq(lines, 1, at - 1) \o <<Opens(k)>> \o entry \o <<Closes(k)>> \o SubSeq(lines, at, Len(lines))

(***************************************************************************)
(* Entries of a TOML document: table -> key -> value.  A declaration of a  *)
(* dependency is a function from the keys that it gives.                   *)
(***************************************************************************)
WorkspaceDependencies == <<"workspace", "dependencies">>
Dependency(name, source, optional, features) ==
    [name |-> name, source |-> source, optional |-> optional, features |-> features]
FrameworkSource(repository, version, defaults) ==
    [kind |-> "framework", repository |-> repository, version |-> version, defaults |-> defaults]

ValidCargoDependency(section, d) ==
    /\ ValidIdentifier(d.name) /\ \A f \in d.features : ValidIdentifier(f)
    /\ IF section = WorkspaceDependencies
       THEN /\ d.source.kind # "workspace" /\ ~d.optional
            /\ ValidRelease(d.source.version)
            /\ d.source.kind = "framework" => d.source.repository \in Repositories
       ELSE d.source.kind = "workspace"

Given(x, key, otherwise) == IF key \in DOMAIN x THEN x[key] ELSE otherwise

CargoMatches(x, d) ==
    /\ x # None
    /\ DOMAIN x \subseteq {"workspace", "git", "tag", "version", "default-features", "optional", "features"}
    /\ CASE d.source.kind = "workspace" ->
              Given(x, "workspace", FALSE) = TRUE /\ DOMAIN x \cap {"git", "tag", "default-features"} = {}
         [] d.source.kind = "registry" ->
              DOMAIN x \cap {"workspace", "git", "tag", "default-features"} = {} /\ Given(x, "version", None) = d.source.version
         [] OTHER -> /\ "workspace" \notin DOMAIN x
                     /\ Given(x, "git", None) = d.source.repository /\ Given(x, "tag", None) = d.source.version
                     /\ Given(x, "default-features", TRUE) = d.source.defaults
    /\ Given(x, "optional", FALSE) = d.optional
    /\ Given(x, "features", {}) = d.features

CargoValue(d) ==
    CASE d.source.kind = "workspace" -> [x \in {"workspace"} |-> TRUE]
      [] d.source.kind = "registry" -> [x \in {"version"} |-> d.source.version]
      [] OTHER -> [x \in {"git", "tag"} \cup (IF d.source.defaults THEN {} ELSE {"default-features"}) |->
                      CASE x = "git" -> d.source.repository [] x = "tag" -> d.source.version [] OTHER -> FALSE]

CargoDeclaration(d) ==
    [x \in DOMAIN CargoValue(d) \cup (IF d.optional THEN {"optional"} ELSE {}) \cup (IF d.features # {} THEN {"features"} ELSE {}) |->
        CASE x = "optional" -> TRUE [] x = "features" -> d.features [] OTHER -> CargoValue(d)[x]]

Put(doc, table, key, v) == [doc EXCEPT ![table] = [k \in DOMAIN @ \cup {key} |-> IF k = key THEN v ELSE @[k]]]

PlanCargoDependency(doc, section, d) ==
    CASE ~ValidCargoDependency(section, d) \/ section \notin DOMAIN doc -> Error
      [] section \in DOMAIN doc /\ d.name \in DOMAIN doc[section] ->
            IF CargoMatches(doc[section][d.name], d) THEN Present ELSE Occupied
      [] OTHER -> Put(doc, section, d.name, CargoDeclaration(d))

\* The declaration of one release becomes that of another; only the release differs.
PlanCargoTransition(doc, section, from, to) ==
    CASE \/ ~ValidCargoDependency(section, from) \/ ~ValidCargoDependency(section, to)
         \/ from.source.kind # "framework" \/ to.source.kind # "framework"
         \/ [from EXCEPT !.source.version = None] # [to EXCEPT !.source.version = None]
         \/ from.source.version = to.source.version
         \/ section \notin DOMAIN doc -> Error
      [] section \in DOMAIN doc /\ from.name \notin DOMAIN doc[section] -> Occupied
      [] section \in DOMAIN doc /\ from.name \in DOMAIN doc[section] /\ ~CargoMatches(doc[section][from.name], from) -> Occupied
      [] OTHER -> Put(doc, section, to.name, CargoDeclaration(to))

\* A string in an array, the identity of a component or a module in a list, a string under a key.
PlanArrayString(doc, table, key, entry) ==
    IF ~(table \in DOMAIN doc /\ key \in DOMAIN doc[table]) \/ entry = "" THEN Error
    ELSE LET a == doc[table][key]
         IN  CASE Cardinality(Range(a)) # Len(a) -> Error
               [] entry \in Range(a) -> Present
               [] OTHER -> Put(doc, table, key, Append(a, entry))

PlanIdentityEntry(list, id, version) ==
    IF ~ValidIdentifier(id) \/ ~ValidRelease(version) THEN Error
    ELSE IF \E i \in DOMAIN list : list[i].id = id
         THEN IF \E i \in DOMAIN list : list[i] = [id |-> id, version |-> version] THEN Present ELSE Error
    ELSE IF list # Sorted(list) \/ Cardinality(Ids(list)) # Len(list) THEN Error
    ELSE Sorted(Append(list, [id |-> id, version |-> version]))

=============================================================================
