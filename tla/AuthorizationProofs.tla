------------------------ MODULE AuthorizationProofs -------------------------
(***************************************************************************)
(* For any roles, users and permissions and any number of renames at once: *)
(* the administrator keeps its role and the role its row, and a rename     *)
(* that nothing disturbs carries the access of its members.  For any       *)
(* number of calls in flight and any size of a page: no row is read or     *)
(* changed without the permission, and the page shows what it asked for    *)
(* last.  For any number of users, caches, requests and changes: a cached  *)
(* answer is stale only for a bounded time, and a change that has been     *)
(* invalidated is seen by the checks that begin after it.                  *)
(***************************************************************************)
EXTENDS Resources, AuthorizationCache, FiniteSetTheorems, WellFoundedInduction, TLAPS

-----------------------------------------------------------------------------
(* Roles: the inductive invariant                                          *)

\* Renames leave the names of the administrator's role alone, none of which is ever deleted.
AdminUntouched ==
    /\ \A r \in AdminLike : role[r] # "deleted"
    /\ \A q \in Requests : request[q].pc # "idle" => request[q].from \notin AdminLike

\* What a rename has copied is what there is, as long as nothing else was committed.
CopiesCurrent ==
    \A q \in Requests : request[q].clean /\ request[q].pc # "idle" =>
        /\ role[request[q].from] = "live"
        /\ request[q].pc \in {"members", "finish"} => request[q].perms = rolePerms[request[q].from]
        /\ request[q].pc = "finish" => request[q].members = {u \in Users : request[q].from \in userRoles[u]}

RolesInv == TypeOK /\ AdminProtected /\ AdminUntouched /\ CopiesCurrent

-----------------------------------------------------------------------------
(* Roles: the steps                                                        *)

LEMMA NoRenameTyped == NoRename \in Renames /\ NoRename.pc = "idle"
BY RolesAssumption DEF NoRename, Renames

\* Every rename that another commit disturbs goes on where it was, no longer clean.
LEMMA DisturbedRenames ==
    ASSUME request \in [Requests -> Renames]
    PROVE  /\ Disturbed \in [Requests -> Renames]
           /\ \A q \in Requests : /\ Disturbed[q].pc = request[q].pc /\ Disturbed[q].from = request[q].from
                                  /\ Disturbed[q].pc # "idle" => ~Disturbed[q].clean
<1> SUFFICES ASSUME NEW q \in Requests
             PROVE  /\ Disturbed[q] \in Renames
                    /\ Disturbed[q].pc = request[q].pc /\ Disturbed[q].from = request[q].from
                    /\ Disturbed[q].pc # "idle" => ~Disturbed[q].clean
  BY DEF Disturbed
<1>1. request[q] \in Renames
  OBVIOUS
<1>2. CASE request[q].pc = "idle"
  BY <1>1, <1>2 DEF Disturbed
<1>3. CASE request[q].pc # "idle"
  BY <1>1, <1>3 DEF Disturbed, Renames
<1> QED BY <1>2, <1>3

\* A committed change: what it has to keep.
LEMMA CommitStep ==
    ASSUME RolesInv, setup' = setup, request' = Disturbed,
           role' \in [Names -> {"absent", "live", "deleted"}],
           rolePerms' \in [Names -> SUBSET Perms], userRoles' \in [Users -> SUBSET Names], live' \subseteq Users,
           \A r \in Names : rolePerms'[r] # {} => role'[r] # "absent",
           \A u \in Users, r \in Names : r \in userRoles'[u] => role'[r] # "absent",
           \A r \in AdminLike : role'[r] # "deleted", role'[Admin] = "live",
           Root \in live', userRoles'[Root] \cap AdminLike # {}
    PROVE  RolesInv'
<1> USE DEF RolesInv
<1>1. request \in [Requests -> Renames]
  BY DEF TypeOK
<1>2. TypeOK'
  BY <1>1, DisturbedRenames DEF TypeOK
<1>3. AdminProtected'
  <2>1. PICK r \in AdminLike : r \in userRoles'[Root]
    OBVIOUS
  <2>2. r \in Names /\ Root \in Users
    BY RolesAssumption
  <2>3. role'[r] = "live"
    BY <2>1, <2>2
  <2> QED BY <2>1, <2>3 DEF AdminProtected
<1>4. AdminUntouched'
  BY <1>1, DisturbedRenames DEF AdminUntouched
<1>5. CopiesCurrent'
  BY <1>1, DisturbedRenames DEF CopiesCurrent
<1> QED BY <1>2, <1>3, <1>4, <1>5

\* A step of one rename before its commit, or its end.
LEMMA RenameStep ==
    ASSUME RolesInv, UNCHANGED <<setup, role, rolePerms, userRoles, live>>, NEW q \in Requests, NEW n \in Renames,
           request' = [request EXCEPT ![q] = n],
           n.pc # "idle" => n.from \notin AdminLike,
           n.pc # "idle" /\ n.clean =>
              /\ role[n.from] = "live"
              /\ n.pc \in {"members", "finish"} => n.perms = rolePerms[n.from]
              /\ n.pc = "finish" => n.members = {u \in Users : n.from \in userRoles[u]}
    PROVE  RolesInv'
<1> USE DEF RolesInv
<1>1. request'[q] = n /\ \A p \in Requests \ {q} : request'[p] = request[p]
  BY DEF TypeOK
<1>2. TypeOK'
  BY DEF TypeOK
<1>3. AdminProtected'
  BY DEF AdminProtected
<1>4. AdminUntouched'
  BY <1>1 DEF AdminUntouched
<1>5. CopiesCurrent'
  BY <1>1 DEF CopiesCurrent
<1> QED BY <1>2, <1>3, <1>4, <1>5

\* What is known of the administrator before a change.
LEMMA AdminFacts ==
    ASSUME RolesInv
    PROVE  /\ role \in [Names -> {"absent", "live", "deleted"}] /\ rolePerms \in [Names -> SUBSET Perms]
           /\ userRoles \in [Users -> SUBSET Names] /\ live \subseteq Users
           /\ setup.names \subseteq Names /\ setup.users \subseteq Users /\ setup.perms \subseteq Perms
           /\ Admin \in AdminLike /\ AdminLike \subseteq Names /\ Root \in Users
           /\ userRoles[Root] \cap AdminLike # {} /\ role[Admin] = "live" /\ Root \in live
           /\ \A r \in AdminLike : role[r] # "deleted"
           /\ request \in [Requests -> Renames]
BY RolesAssumption DEF RolesInv, TypeOK, AdminProtected, AdminUntouched

LEMMA RoleSteps ==
    ASSUME RolesInv, setup' = setup, NEW r \in setup.names,
           CreateRole(r) \/ DeleteRole(r) \/ \E perms \in SUBSET setup.perms : SetRolePermissions(r, perms)
    PROVE  RolesInv'
<1> USE AdminFacts
<1>1. CASE CreateRole(r)
  <2>1. /\ role' \in [Names -> {"absent", "live", "deleted"}] /\ role'[r] = "live"
        /\ \A n \in Names \ {r} : role'[n] = role[n]
    BY <1>1 DEF CreateRole
  <2> QED BY <1>1, <2>1, CommitStep DEF CreateRole, RolesInv, TypeOK
<1>2. CASE DeleteRole(r)
  <2>1. /\ role' \in [Names -> {"absent", "live", "deleted"}] /\ role'[r] = "deleted" /\ r \notin AdminLike
        /\ \A n \in Names \ {r} : role'[n] = role[n]
    BY <1>2 DEF DeleteRole
  <2> QED BY <1>2, <2>1, CommitStep DEF DeleteRole, RolesInv, TypeOK
<1>3. ASSUME NEW perms \in SUBSET setup.perms, SetRolePermissions(r, perms) PROVE RolesInv'
  <2>1. /\ role' \in [Names -> {"absent", "live", "deleted"}] /\ role'[r] = "live"
        /\ \A n \in Names \ {r} : role'[n] = role[n] /\ rolePerms'[n] = rolePerms[n]
        /\ rolePerms' \in [Names -> SUBSET Perms]
    BY <1>3 DEF SetRolePermissions
  <2> QED BY <1>3, <2>1, CommitStep DEF SetRolePermissions, RolesInv, TypeOK
<1> QED BY <1>1, <1>2, <1>3

LEMMA UserSteps ==
    ASSUME RolesInv, setup' = setup, NEW u \in setup.users,
           \/ \E r \in setup.names : AssignRole(u, r)
           \/ \E roles \in SUBSET setup.names : SetUserRoles(u, roles)
           \/ DeleteUser(u)
    PROVE  RolesInv'
<1> USE AdminFacts
<1>1. ASSUME NEW r \in setup.names, AssignRole(u, r) PROVE RolesInv'
  <2>1. /\ userRoles' \in [Users -> SUBSET Names] /\ userRoles'[u] = userRoles[u] \cup {r} /\ role[r] # "absent"
        /\ \A v \in Users \ {u} : userRoles'[v] = userRoles[v]
    BY <1>1 DEF AssignRole
  <2>2. userRoles'[Root] \cap AdminLike # {}
    BY <2>1
  <2>3. \A v \in Users, n \in Names : n \in userRoles'[v] => role[n] # "absent"
    BY <2>1 DEF RolesInv, TypeOK
  <2> QED BY <1>1, <2>1, <2>2, <2>3, CommitStep DEF AssignRole, RolesInv, TypeOK
<1>2. ASSUME NEW given \in SUBSET setup.names, SetUserRoles(u, given) PROVE RolesInv'
  <2> DEFINE roles == NormalizedRoles(u, given)
  <2>1. roles \subseteq Names /\ (u = Root => roles \cap AdminLike # {})
    BY DEF NormalizedRoles
  <2> HIDE DEF roles
  <2>2. /\ userRoles' \in [Users -> SUBSET Names] /\ userRoles'[u] = roles
        /\ \A v \in Users \ {u} : userRoles'[v] = userRoles[v]
        /\ \A n \in roles : role[n] # "absent"
        /\ live' \subseteq Users /\ Root \in live'
    BY <1>2, <2>1 DEF SetUserRoles, roles
  <2>3. userRoles'[Root] \cap AdminLike # {}
    BY <2>1, <2>2
  <2>4. \A v \in Users, n \in Names : n \in userRoles'[v] => role[n] # "absent"
    BY <2>2 DEF RolesInv, TypeOK
  <2> QED BY <1>2, <2>2, <2>3, <2>4, CommitStep DEF SetUserRoles, RolesInv, TypeOK
<1>3. CASE DeleteUser(u)
  BY <1>3, CommitStep DEF DeleteUser, RolesInv, TypeOK
<1> QED BY <1>1, <1>2, <1>3

LEMMA SeedStep == ASSUME RolesInv, setup' = setup, Seed PROVE RolesInv'
<1> USE AdminFacts
<1>1. /\ role' \in [Names -> {"absent", "live", "deleted"}] /\ role'[Admin] = "live"
      /\ \A n \in Names \ {Admin} : role'[n] = role[n] /\ rolePerms'[n] = rolePerms[n]
      /\ rolePerms' \in [Names -> SUBSET Perms] /\ live' = live /\ request' = Disturbed
  BY DEF Seed
<1>2. /\ userRoles' \in [Users -> SUBSET Names] /\ userRoles'[Root] = userRoles[Root] \cup {Admin}
      /\ \A v \in Users \ {Root} : userRoles'[v] = userRoles[v]
  BY DEF Seed
<1>3. userRoles'[Root] \cap AdminLike # {}
  BY <1>2
<1>4. \A v \in Users, n \in Names : n \in userRoles'[v] => role'[n] # "absent"
  BY <1>1, <1>2 DEF RolesInv, TypeOK
<1> QED BY <1>1, <1>2, <1>3, <1>4, CommitStep DEF RolesInv, TypeOK

\* The commit of a rename, which disturbs the others.
LEMMA FinishRenameStep == ASSUME RolesInv, setup' = setup, NEW q \in Requests, FinishRename(q) PROVE RolesInv'
<1> DEFINE from == request[q].from
           to == request[q].to
<1> USE AdminFacts
<1>1. request[q] \in Renames /\ from \in Names \ AdminLike /\ to \in Names
  BY DEF FinishRename, Renames, RolesInv, AdminUntouched
<1>2. /\ role' \in [Names -> {"absent", "live", "deleted"}] /\ role'[from] = "deleted"
      /\ to # from => role'[to] = "live"
      /\ \A n \in Names \ {from, to} : role'[n] = role[n]
  BY <1>1 DEF FinishRename
<1>3. /\ rolePerms' \in [Names -> SUBSET Perms]
      /\ \A n \in Names \ {to} : rolePerms'[n] = rolePerms[n]
  BY <1>1 DEF FinishRename, Renames
<1>4. /\ userRoles' \in [Users -> SUBSET Names]
      /\ \A u \in Users : userRoles[u] \subseteq userRoles'[u] /\ userRoles'[u] \subseteq userRoles[u] \cup {to}
  BY <1>1 DEF FinishRename
<1>5. /\ request' \in [Requests -> Renames] /\ request'[q] = NoRename
      /\ \A p \in Requests \ {q} : request'[p] = Disturbed[p]
      /\ live' = live
  BY DisturbedRenames, NoRenameTyped DEF FinishRename
<1>6. TypeOK'
  <2>1. \A r \in Names : rolePerms'[r] # {} => role'[r] # "absent"
    BY <1>2, <1>3 DEF RolesInv, TypeOK
  <2>2. \A u \in Users, r \in Names : r \in userRoles'[u] => role'[r] # "absent"
    BY <1>1, <1>2, <1>4 DEF RolesInv, TypeOK
  <2> QED BY <1>2, <1>3, <1>4, <1>5, <2>1, <2>2 DEF RolesInv, TypeOK
<1>7. \A r \in AdminLike : role'[r] # "deleted" /\ (role[r] = "live" => role'[r] = "live")
  BY <1>1, <1>2
<1>8. AdminProtected'
  BY <1>4, <1>5, <1>7 DEF RolesInv, AdminProtected
<1>9. AdminUntouched'
  BY <1>5, <1>7, DisturbedRenames, NoRenameTyped DEF RolesInv, AdminUntouched
<1>10. CopiesCurrent'
  BY <1>5, DisturbedRenames, NoRenameTyped DEF CopiesCurrent
<1> QED BY <1>6, <1>8, <1>9, <1>10 DEF RolesInv

LEMMA RenameSteps == ASSUME RolesInv, setup' = setup, NEW q \in Requests, Rename(q) PROVE RolesInv'
<1> USE AdminFacts
<1> DEFINE n == request[q]
<1>1. n \in Renames /\ (n.pc # "idle" => n.from \in Names \ AdminLike)
  BY DEF Renames, RolesInv, AdminUntouched
<1>2. n.clean /\ n.pc # "idle" =>
        /\ role[n.from] = "live"
        /\ n.pc \in {"members", "finish"} => n.perms = rolePerms[n.from]
  BY DEF RolesInv, CopiesCurrent
<1>3. ASSUME NEW from \in setup.names, NEW to \in setup.names, SelectRole(q, from, to) PROVE RolesInv'
  <2> DEFINE m == [NoRename EXCEPT !.pc = "insert", !.from = from, !.to = to]
  <2>1. m \in Renames /\ m.pc = "insert" /\ m.from = from
    BY NoRenameTyped DEF Renames
  <2> HIDE DEF m
  <2>2. /\ request' = [request EXCEPT ![q] = m] /\ UNCHANGED <<role, rolePerms, userRoles, live>>
        /\ from \notin AdminLike /\ role[from] = "live"
    BY <1>3 DEF SelectRole, m
  <2> QED BY <2>1, <2>2, RenameStep
<1>4. CASE InsertRole(q)
  <2> DEFINE m == [n EXCEPT !.pc = "permissions"]
  <2>1. m \in Renames /\ m.pc = "permissions" /\ m.from = n.from /\ m.clean = n.clean /\ n.pc # "idle"
    BY <1>1, <1>4 DEF Renames, InsertRole
  <2>2. request' = [request EXCEPT ![q] = m] /\ UNCHANGED <<role, rolePerms, userRoles, live>>
    BY <1>4 DEF InsertRole
  <2> HIDE DEF m
  <2> QED BY <1>1, <1>2, <2>1, <2>2, RenameStep
<1>5. CASE CopyPermissions(q)
  <2> DEFINE m == [n EXCEPT !.pc = "members", !.perms = rolePerms[n.from]]
  <2>1. n.from \in Names /\ rolePerms[n.from] \subseteq Perms /\ n.pc = "permissions"
    BY <1>1, <1>5 DEF CopyPermissions
  <2>2. m \in Renames /\ m.pc = "members" /\ m.from = n.from /\ m.clean = n.clean /\ m.perms = rolePerms[n.from]
    BY <1>1, <2>1 DEF Renames
  <2>3. request' = [request EXCEPT ![q] = m] /\ UNCHANGED <<role, rolePerms, userRoles, live>>
    BY <1>5 DEF CopyPermissions
  <2> HIDE DEF m
  <2> QED BY <1>1, <1>2, <2>1, <2>2, <2>3, RenameStep
<1>6. CASE CopyMembers(q)
  <2> DEFINE m == [n EXCEPT !.pc = "finish", !.members = {u \in Users : n.from \in userRoles[u]}]
  <2>1. /\ m \in Renames /\ m.pc = "finish" /\ m.from = n.from /\ m.clean = n.clean /\ m.perms = n.perms
        /\ m.members = {u \in Users : n.from \in userRoles[u]} /\ n.pc = "members"
    BY <1>1, <1>6 DEF Renames, CopyMembers
  <2>2. request' = [request EXCEPT ![q] = m] /\ UNCHANGED <<role, rolePerms, userRoles, live>>
    BY <1>6 DEF CopyMembers
  <2> HIDE DEF m
  <2> QED BY <1>1, <1>2, <2>1, <2>2, RenameStep
<1>7. CASE AbortRename(q)
  BY <1>7, RenameStep, NoRenameTyped DEF AbortRename
<1> QED BY <1>3, <1>4, <1>5, <1>6, <1>7, FinishRenameStep DEF Rename

LEMMA RolesInductive == ASSUME RolesInv, [Next]_vars PROVE RolesInv'
<1>1. CASE UNCHANGED vars
  BY <1>1 DEF vars, RolesInv, TypeOK, AdminProtected, AdminUntouched, CopiesCurrent
<1>2. CASE Next
  BY <1>2, RoleSteps, UserSteps, SeedStep, RenameSteps DEF Next, Step
<1> QED BY <1>1, <1>2

LEMMA RolesInitially == Init => RolesInv
<1> SUFFICES ASSUME Init PROVE RolesInv
  OBVIOUS
<1> USE RolesAssumption DEF Init
<1>1. \A q \in Requests : request[q] = NoRename
  OBVIOUS
<1>2. setup.perms \subseteq Perms /\ setup.users \subseteq Users /\ Root \in setup.users
  OBVIOUS
<1>3. TypeOK
  <2>1. request \in [Requests -> Renames]
    BY NoRenameTyped
  <2> QED BY <1>2, <2>1 DEF TypeOK
<1>4. AdminProtected
  <2>1. role[Admin] = "live" /\ userRoles[Root] = {Admin}
    OBVIOUS
  <2> QED BY <1>2, <2>1 DEF AdminProtected
<1>5. AdminUntouched /\ CopiesCurrent
  BY <1>1, NoRenameTyped DEF AdminUntouched, CopiesCurrent
<1> QED BY <1>3, <1>4, <1>5 DEF RolesInv

-----------------------------------------------------------------------------
(* Roles: the theorems                                                     *)

\* The step that a committed rename is.
LEMMA CommittedFinishes ==
    ASSUME RolesInv, Next, NEW q \in Requests, Committed(q)
    PROVE  FinishRename(q)
<1> USE AdminFacts
<1>1. request[q].pc = "finish" /\ request'[q].pc = "idle" /\ ~UNCHANGED role
  BY DEF Committed
<1>2. request' # Disturbed
  BY <1>1, DisturbedRenames
<1>3. ASSUME NEW p \in Requests, Rename(p) PROVE FinishRename(q)
  <2>1. FinishRename(p)
    BY <1>1, <1>3 DEF Rename, SelectRole, InsertRole, CopyPermissions, CopyMembers, AbortRename
  <2>2. CASE p = q
    BY <2>1, <2>2
  <2>3. CASE p # q
    <3>1. request'[q] = Disturbed[q]
      BY <2>1, <2>3, DisturbedRenames DEF FinishRename
    <3> QED BY <1>1, <3>1, DisturbedRenames
  <2> QED BY <2>2, <2>3
<1> QED BY <1>2, <1>3 DEF Next, Step, CreateRole, DeleteRole, SetRolePermissions, AssignRole, SetUserRoles, DeleteUser, Seed

\* A rename that nothing disturbed carries what its members were granted.
LEMMA CleanRenameCarries ==
    ASSUME RolesInv, NEW q \in Requests, FinishRename(q), request[q].clean, request[q].from # request[q].to,
           NEW u \in Users
    PROVE  /\ Granted(u) \subseteq Granted(u)'
           /\ role[request[q].to] = "absent" => Granted(u)' = Granted(u)
<1> DEFINE from == request[q].from
           to == request[q].to
<1> USE AdminFacts
<1>1. /\ request[q] \in Renames /\ from \in Names /\ to \in Names /\ from # to
  BY DEF Renames
<1>2. /\ role[from] = "live" /\ request[q].perms = rolePerms[from]
      /\ request[q].members = {v \in Users : from \in userRoles[v]}
  BY DEF FinishRename, RolesInv, CopiesCurrent
<1>3. /\ role'[from] = "deleted" /\ role'[to] = "live"
      /\ \A n \in Names \ {from, to} : role'[n] = role[n]
  BY <1>1 DEF FinishRename
<1>4. /\ rolePerms'[to] = rolePerms[to] \cup rolePerms[from]
      /\ \A n \in Names \ {to} : rolePerms'[n] = rolePerms[n]
  BY <1>1, <1>2 DEF FinishRename
<1>5. /\ userRoles'[u] = userRoles[u] \cup (IF from \in userRoles[u] THEN {to} ELSE {})
      /\ userRoles[u] \subseteq Names /\ userRoles'[u] \subseteq Names
      /\ live' = live
  BY <1>1, <1>2 DEF FinishRename
<1>6. \A p : p \in Granted(u) <=> u \in live /\ \E r \in userRoles[u] : role[r] = "live" /\ p \in rolePerms[r]
  BY DEF Granted
<1>7. \A p : p \in Granted(u)' <=> u \in live /\ \E r \in userRoles'[u] : role'[r] = "live" /\ p \in rolePerms'[r]
  BY <1>5 DEF Granted
<1>8. Granted(u) \subseteq Granted(u)'
  <2> SUFFICES ASSUME NEW p, u \in live, NEW r \in userRoles[u], role[r] = "live", p \in rolePerms[r]
               PROVE  \E n \in userRoles'[u] : role'[n] = "live" /\ p \in rolePerms'[n]
    BY <1>6, <1>7
  <2>1. CASE r = from
    BY <1>3, <1>4, <1>5, <2>1
  <2>2. CASE r # from
    BY <1>3, <1>4, <1>5, <2>2
  <2> QED BY <2>1, <2>2
<1>9. ASSUME role[to] = "absent" PROVE Granted(u)' \subseteq Granted(u)
  <2>1. rolePerms[to] = {} /\ to \notin userRoles[u]
    BY <1>1, <1>9 DEF RolesInv, TypeOK
  <2> SUFFICES ASSUME NEW p, u \in live, NEW r \in userRoles'[u], role'[r] = "live", p \in rolePerms'[r]
               PROVE  \E n \in userRoles[u] : role[n] = "live" /\ p \in rolePerms[n]
    BY <1>6, <1>7
  <2>2. CASE r = to
    <3>1. from \in userRoles[u] /\ p \in rolePerms[from]
      BY <1>4, <1>5, <2>1, <2>2
    <3> QED BY <1>2, <3>1
  <2>3. CASE r # to
    BY <1>3, <1>4, <1>5, <2>3
  <2> QED BY <2>2, <2>3
<1> QED BY <1>8, <1>9

LEMMA RenameCarries ==
    RolesInv /\ [Next]_vars =>
        [\A q \in Requests : Committed(q) /\ request[q].clean /\ request[q].from # request[q].to =>
            \A u \in Users : /\ Granted(u) \subseteq Granted(u)'
                             /\ role[request[q].to] = "absent" => Granted(u)' = Granted(u)]_vars
BY CommittedFinishes, CleanRenameCarries

\* A generated resource leaves the roles to the administrator's actions: it implements Roles.
THEOREM ImplementsRoles == ResourcesSpec => Spec
<1>1. ResourcesInit => Init
  BY DEF ResourcesInit
<1>2. [ResourcesNext]_allVars => [Next]_vars
  BY DEF ResourcesNext, RolesStep, Next, allVars
<1> QED BY <1>1, <1>2, PTL DEF ResourcesSpec, Spec

LEMMA RolesInvariant == Spec => []RolesInv
<1>1. RolesInv /\ [Next]_vars => RolesInv'
  BY RolesInductive
<1> QED BY <1>1, RolesInitially, PTL DEF Spec

\* Every variable of the roles keeps its type, and every row that names a role its foreign key.
THEOREM RolesTypeCorrect == Spec => []TypeOK
BY RolesInvariant, PTL DEF RolesInv

\* Whatever renames are under way, the administrator's role is live and its account holds one.
THEOREM AdminStays == Spec => []AdminProtected
BY RolesInvariant, PTL DEF RolesInv

\* A rename that no other commit came into takes no permission from anybody, and gives none
\* where the new name was never used.
THEOREM RenamesCarryAccess == Spec => RenameCarriesAccess
BY RolesInvariant, RenameCarries, PTL DEF Spec, RenameCarriesAccess

-----------------------------------------------------------------------------
(* Resources: facts about the operators                                    *)

\* A set of natural numbers has a least element.
LEMMA LeastExists == ASSUME NEW S, S \subseteq Nat, S # {} PROVE Min(S) \in S /\ \A y \in S : Min(S) <= y
<1> DEFINE R == {ss \in Nat \X Nat : ss[1] < ss[2]}
<1>1. IsWellFoundedOn(R, Nat)
  BY NatLessThanWellFounded, Zenon DEF OpToRel
<1> HIDE DEF R
<1>2. PICK x \in S : \A y \in S : ~(<<y, x>> \in R)
  BY <1>1, WFMin
<1>3. ASSUME NEW y \in S PROVE x <= y
  <2>1. <<y, x>> \notin R
    BY <1>2
  <2> QED BY <2>1 DEF R
<1> QED BY <1>3 DEF Min

LEMMA LesserOfTwo == ASSUME NEW a \in Int, NEW b \in Int PROVE Min({a, b}) = IF a <= b THEN a ELSE b
BY DEF Min

\* A call that can begin has a slot.
LEMMA SlotIdle == ASSUME IdleSlots # {} PROVE Slot \in Slots /\ call[Slot].pc = "idle"
<1>1. IdleSlots \subseteq Nat
  BY ResourcesAssumption DEF IdleSlots
<1>2. Slot \in IdleSlots
  BY <1>1, LeastExists DEF Slot
<1> QED BY <1>2 DEF IdleSlots

\* How many of n rows a page of Limit rows shows that begins at the k-th.
Window(n, k) == IF n <= k THEN 0 ELSE IF n - k < Limit THEN n - k ELSE Limit

LEMMA RankBijective ==
    ASSUME rows \subseteq Nat, IsFiniteSet(rows)
    PROVE  [i \in rows |-> Rank(i)] \in Bijection(rows, 0 .. Cardinality(rows) - 1)
<1> DEFINE n == Cardinality(rows)
           f == [i \in rows |-> Rank(i)]
           below(i) == {j \in rows : j < i}
<1>1. n \in Nat
  BY FS_CardinalityType
<1>2. ASSUME NEW i \in rows PROVE IsFiniteSet(below(i)) /\ Cardinality(below(i)) \in Nat /\ Cardinality(below(i)) < n
  <2>1. IsFiniteSet(below(i)) /\ Cardinality(below(i)) <= n /\ (n = Cardinality(below(i)) => rows = below(i))
    BY FS_Subset
  <2>2. i \notin below(i)
    OBVIOUS
  <2>3. Cardinality(below(i)) \in Nat
    BY <2>1, FS_CardinalityType
  <2> QED BY <1>1, <2>1, <2>2, <2>3
<1>3. ASSUME NEW i \in rows, NEW j \in rows, i < j PROVE Cardinality(below(i)) < Cardinality(below(j))
  <2>1. below(i) \in SUBSET below(j) /\ i \in below(j) /\ i \notin below(i)
    <3>1. i \in Nat /\ j \in Nat /\ \A x \in rows : x \in Nat
      OBVIOUS
    <3>2. \A x \in below(i) : x \in rows /\ x < j
      BY <1>3, <3>1
    <3>3. \A x \in below(i) : x \in below(j)
      BY <3>2
    <3>4. i \in below(j) /\ i \notin below(i)
      BY <1>3, <3>1
    <3> QED BY <3>3, <3>4
  <2>2. /\ Cardinality(below(i)) <= Cardinality(below(j))
        /\ Cardinality(below(j)) = Cardinality(below(i)) => below(j) = below(i)
    BY <1>2, <2>1, FS_Subset
  <2>3. Cardinality(below(i)) \in Nat /\ Cardinality(below(j)) \in Nat
    BY <1>2
  <2>4. Cardinality(below(j)) # Cardinality(below(i))
    BY <2>1, <2>2
  <2> QED BY <2>2, <2>3, <2>4
<1>4. \A i \in rows : f[i] = Cardinality(below(i))
  BY DEF Rank
<1>5. f \in [rows -> 0 .. n - 1]
  <2>1. \A i \in rows : Cardinality(below(i)) \in 0 .. n - 1
    BY <1>1, <1>2
  <2> QED BY <1>4, <2>1
<1>6. \A i, j \in rows : f[i] = f[j] => i = j
  <2> SUFFICES ASSUME NEW i \in rows, NEW j \in rows, i # j PROVE f[i] # f[j]
    OBVIOUS
  <2>1. i < j \/ j < i
    OBVIOUS
  <2>2. Cardinality(below(i)) \in Nat /\ Cardinality(below(j)) \in Nat
    BY <1>2
  <2>3. Cardinality(below(i)) # Cardinality(below(j))
    BY <1>3, <2>1, <2>2
  <2> QED BY <1>4, <2>3
<1> HIDE DEF f
<1>7. f \in Injection(rows, 0 .. n - 1)
  BY <1>5, <1>6 DEF Injection, IsInjective
<1>8. IsFiniteSet(0 .. n - 1) /\ Cardinality(0 .. n - 1) = n
  <2>1. 0 \in Int /\ n - 1 \in Int
    BY <1>1
  <2>2. IsFiniteSet(0 .. n - 1) /\ Cardinality(0 .. n - 1) = IF 0 > n - 1 THEN 0 ELSE (n - 1) - 0 + 1
    BY <2>1, FS_Interval, Zenon
  <2> QED BY <1>1, <2>2
<1>9. f \in Surjection(rows, 0 .. n - 1)
  BY <1>7, <1>8, FS_Injection
<1>10. f \in Bijection(rows, 0 .. n - 1)
  BY <1>7, <1>9 DEF Bijection
<1> QED BY <1>10 DEF f

\* LIMIT and OFFSET: a page has as many rows as it has room for and the table still has.
LEMMA SelectedCount ==
    ASSUME rows \subseteq Nat, IsFiniteSet(rows), NEW k \in Nat
    PROVE  Selected(k) \subseteq rows /\ Cardinality(Selected(k)) = Window(Cardinality(rows), k)
<1> DEFINE n == Cardinality(rows)
           f == [i \in rows |-> Rank(i)]
           last == IF n <= k + Limit THEN n - 1 ELSE k + Limit - 1
           g == [i \in Selected(k) |-> Rank(i)]
<1>1. n \in Nat /\ Limit \in Nat \ {0} /\ last \in Int
  BY FS_CardinalityType, ResourcesAssumption
<1>2. f \in Bijection(rows, 0 .. n - 1)
  BY RankBijective
<1>3. /\ \A i \in rows : Rank(i) \in 0 .. n - 1
      /\ \A i, j \in rows : Rank(i) = Rank(j) => i = j
      /\ \A m \in 0 .. n - 1 : \E i \in rows : Rank(i) = m
  BY <1>2 DEF Bijection, Injection, Surjection, IsInjective
<1>4. Selected(k) \subseteq rows /\ \A i \in Selected(k) : Rank(i) >= k /\ Rank(i) < k + Limit
  BY DEF Selected
<1>5. g \in [Selected(k) -> k .. last]
  <2>1. ASSUME NEW i \in Selected(k) PROVE Rank(i) \in k .. last
    <3>1. Rank(i) \in 0 .. n - 1 /\ Rank(i) >= k /\ Rank(i) < k + Limit
      BY <1>3, <1>4
    <3> HIDE DEF n
    <3> QED BY <1>1, <3>1
  <2> QED BY <2>1
<1>6. \A i, j \in Selected(k) : g[i] = g[j] => i = j
  BY <1>3, <1>4
<1>7. \A m \in k .. last : \E i \in Selected(k) : g[i] = m
  <2> SUFFICES ASSUME NEW m \in k .. last PROVE \E i \in Selected(k) : Rank(i) = m
    OBVIOUS
  <2>1. m \in 0 .. n - 1 /\ m >= k /\ m < k + Limit
    BY <1>1
  <2>2. PICK i \in rows : Rank(i) = m
    BY <1>3, <2>1
  <2> QED BY <2>1, <2>2 DEF Selected
<1> HIDE DEF g
<1>8. g \in Bijection(Selected(k), k .. last)
  BY <1>5, <1>6, <1>7 DEF Bijection, Injection, Surjection, IsInjective
<1>9. IsFiniteSet(Selected(k))
  BY <1>4, FS_Subset
<1>10. Cardinality(Selected(k)) = Cardinality(k .. last)
  BY <1>8, <1>9, FS_Bijection DEF ExistsBijection
<1>11. Cardinality(k .. last) = IF k > last THEN 0 ELSE last - k + 1
  <2>1. k \in Int /\ last \in Int
    BY <1>1
  <2> HIDE DEF last
  <2> QED BY <2>1, FS_Interval, Zenon
<1> QED BY <1>1, <1>4, <1>10, <1>11 DEF Window

-----------------------------------------------------------------------------
(* Resources: the inductive invariant                                      *)

Outcomes == {"ok", "unauthorized", "forbidden", "not-found", "invalid-input", "persistence", "error"}
AnswerTypes == [outcome : Outcomes, total : Nat, items : SUBSET Ids]
Tickets == [number : Nat, generation : Nat]

CallTypes ==
    [pc : {"idle", "require", "act", "read", "answer"}, kind : DOMAIN Granting \cup {None}, client : {"http", "page", None},
     id : Ids \cup {None}, offset : Nat, request : Tickets \cup {None}, total : Nat, answer : AnswerTypes \cup {None},
     could : BOOLEAN]

PageTypes ==
    [number : Nat, total : Nat \cup {None}, loading : BOOLEAN, generation : Nat, items : SUBSET Ids, pending : BOOLEAN,
     candidate : Ids \cup {None}, form : Ids \cup {None, New}, shown : Nat, gone : SUBSET Ids]

ResourceTypes ==
    /\ rows \subseteq used /\ used \subseteq Ids
    /\ call \in [Slots -> CallTypes]
    /\ page \in PageTypes
    /\ asked \in Nat

\* A list that the page asked for.
Ticketed(r) == r.pc # "idle" /\ r.client = "page" /\ r.kind = "list"

\* A call keeps what it was made for until it is answered, and no ticket is ahead of the page.
CallSound(r) ==
    /\ r.pc # "idle" => r.kind \in DOMAIN Granting
    /\ r.pc = "answer" => r.answer \in AnswerTypes
    /\ Ticketed(r) => /\ r.request \in Tickets /\ r.request.generation <= page.generation
                      /\ r.pc # "answer" => r.offset = r.request.number * Limit
    /\ r.pc = "read" => setup.postgres /\ r.kind = "list"

\* could holds of every call that has passed the authorization, or would pass it now.
MaySee(r) ==
    /\ r.pc = "require" /\ Permitted(r.kind) => r.could
    /\ r.pc \in {"act", "read"} => r.could
    /\ r.pc = "answer" /\ r.answer.outcome \in {"ok", "not-found"} => r.could

\* What a good answer says: a row that was deleted is gone for good, and a list that is still
\* asked for has none of the rows that the page was told are gone.
AnswerSound(r) ==
    r.pc = "answer" /\ r.answer.outcome = "ok" =>
        /\ r.kind = "delete" => r.id \in used \ rows
        /\ Ticketed(r) =>
            /\ r.request.generation = page.generation => r.answer.items \cap page.gone = {}
            /\ Cardinality(r.answer.items) <= Limit
            /\ ~setup.postgres => Cardinality(r.answer.items) = Window(r.answer.total, r.request.number * Limit)

CallsSound == \A c \in Slots : CallSound(call[c]) /\ MaySee(call[c]) /\ AnswerSound(call[c])

PageSound == ShownRowsAreCurrent /\ page.gone \subseteq used \ rows

ResourcesInv == ResourceTypes /\ CallsSound /\ PageSound

-----------------------------------------------------------------------------
(* Resources: the steps                                                    *)

LEMMA Constants == /\ Limit \in Nat /\ Limit > 0 /\ MaxOffset \in Nat /\ None \notin Nat /\ Ids \subseteq Nat
                   /\ 0 \notin Ids /\ None \notin Ids /\ IsFiniteSet(Ids)
                   /\ DOMAIN Granting = {"list", "get", "create", "update", "delete"}
<1>1. Ids \subseteq Nat \ {0} /\ {Limit, MaxLoads} \subseteq Nat \ {0} /\ MaxOffset \in Nat /\ None \notin Nat
  BY ResourcesAssumption
<1>2. IsFiniteSet(Ids) /\ DOMAIN Granting = {"list", "get", "create", "update", "delete"}
  BY ResourcesAssumption, Zenon
<1>3. Limit \in Nat /\ Limit > 0
  BY <1>1
<1>4. Ids \subseteq Nat /\ 0 \notin Ids /\ None \notin Ids
  BY <1>1, Zenon
<1> QED BY <1>1, <1>2, <1>3, <1>4, Zenon

\* What the resource does leaves the roles, and so the permissions, alone.
LEMMA PermittedStays == UNCHANGED vars => UNCHANGED setup /\ \A k : Permitted(k)' <=> Permitted(k)
BY DEF vars, Permitted, Granted, Actor

\* The calls that a step of another one leaves alone stay sound.
LEMMA OtherCallsSound ==
    ASSUME ResourcesInv, UNCHANGED vars, NEW d \in Slots, call'[d] = call[d],
           used \subseteq used', used \ rows \subseteq used' \ rows',
           page' \in PageTypes, page'.generation >= page.generation,
           page'.gone = page.gone \/ page'.generation > page.generation
    PROVE  CallSound(call[d])' /\ MaySee(call[d])' /\ AnswerSound(call[d])'
<1>1. /\ CallSound(call[d]) /\ MaySee(call[d]) /\ AnswerSound(call[d])
      /\ page \in PageTypes /\ page.generation \in Nat /\ page'.generation \in Nat
  BY DEF ResourcesInv, CallsSound, ResourceTypes, PageTypes
<1>2. UNCHANGED setup /\ \A k : Permitted(k)' <=> Permitted(k)
  BY PermittedStays
<1>3. Ticketed(call[d])' = Ticketed(call[d])
  BY DEF Ticketed
<1>4. Ticketed(call[d]) => call[d].request \in Tickets /\ call[d].request.generation \in Nat
  BY <1>1 DEF CallSound, Tickets
<1>5. CallSound(call[d])'
  BY <1>1, <1>2, <1>3, <1>4 DEF CallSound
<1>6. MaySee(call[d])'
  BY <1>1, <1>2 DEF MaySee
<1>7. AnswerSound(call[d])'
  <2> SUFFICES ASSUME call[d].pc = "answer", call[d].answer.outcome = "ok"
               PROVE  /\ call[d].kind = "delete" => call[d].id \in used' \ rows'
                      /\ Ticketed(call[d]) =>
                          /\ call[d].request.generation = page'.generation => call[d].answer.items \cap page'.gone = {}
                          /\ Cardinality(call[d].answer.items) <= Limit
                          /\ ~setup.postgres => Cardinality(call[d].answer.items) = Window(call[d].answer.total, call[d].request.number * Limit)
    BY <1>2, <1>3 DEF AnswerSound, Window
  <2>1. call[d].kind = "delete" => call[d].id \in used' \ rows'
    BY <1>1 DEF AnswerSound
  <2>2. ASSUME Ticketed(call[d]), call[d].request.generation = page'.generation
        PROVE  call[d].answer.items \cap page'.gone = {}
    <3>1. call[d].request.generation <= page.generation
      BY <1>1, <2>2 DEF CallSound
    <3>2. page'.gone = page.gone /\ call[d].request.generation = page.generation
      BY <1>1, <1>4, <2>2, <3>1
    <3> QED BY <1>1, <2>2, <3>2 DEF AnswerSound
  <2> QED BY <1>1, <2>1, <2>2 DEF AnswerSound
<1> QED BY <1>5, <1>6, <1>7

\* A step of one call.
LEMMA OneCallStep ==
    ASSUME ResourcesInv, UNCHANGED vars, NEW c \in Slots, call' = [call EXCEPT ![c] = call'[c]], call'[c] \in CallTypes,
           CallSound(call[c])', MaySee(call[c])', AnswerSound(call[c])',
           rows' \subseteq used', used' \subseteq Ids, used \subseteq used', used \ rows \subseteq used' \ rows',
           page' \in PageTypes, page'.generation >= page.generation,
           page'.gone = page.gone \/ page'.generation > page.generation,
           PageSound', asked' \in Nat
    PROVE  ResourcesInv'
<1>1. \A d \in Slots : d # c => call'[d] = call[d]
  BY DEF ResourcesInv, ResourceTypes
<1>2. ResourceTypes'
  BY DEF ResourcesInv, ResourceTypes
<1>3. CallsSound'
  BY <1>1, OtherCallsSound DEF CallsSound
<1> QED BY <1>2, <1>3 DEF ResourcesInv

\* The page as it is stays sound while rows are inserted and removed.
LEMMA PageStaysSound ==
    ASSUME PageSound, page' = page, UNCHANGED vars, used \ rows \subseteq used' \ rows'
    PROVE  PageSound'
<1>1. setup' = setup
  BY DEF vars
<1> QED BY <1>1 DEF PageSound, ShownRowsAreCurrent, Ready, Pages

LEMMA PageUnmoved ==
    ASSUME ResourcesInv, UNCHANGED <<page, asked>>
    PROVE  page' \in PageTypes /\ page'.generation >= page.generation /\ page'.gone = page.gone /\ asked' \in Nat
BY DEF ResourcesInv, ResourceTypes, PageTypes

LEMMA CallKnown ==
    ASSUME ResourcesInv, NEW c \in Slots
    PROVE  /\ call[c] \in CallTypes /\ CallSound(call[c]) /\ MaySee(call[c]) /\ AnswerSound(call[c])
           /\ page \in PageTypes /\ page.generation \in Nat /\ page.gone \subseteq used \ rows
           /\ rows \subseteq used /\ used \subseteq Ids /\ asked \in Nat
           /\ \A r : call' = [call EXCEPT ![c] = r] =>
                call'[c] = r /\ call' = [call EXCEPT ![c] = call'[c]]
BY DEF ResourcesInv, CallsSound, ResourceTypes, PageSound, PageTypes

\* A call is answered, while the rows change as they may.
LEMMA AnswerStep ==
    ASSUME ResourcesInv, UNCHANGED vars, NEW c \in Slots, NEW a \in AnswerTypes, AnswerWith(c, a),
           call[c].pc \in {"require", "act", "read"}, UNCHANGED <<page, asked>>,
           rows' \subseteq used', used' \subseteq Ids, used \subseteq used', used \ rows \subseteq used' \ rows',
           a.outcome \in {"ok", "not-found"} => call[c].could,
           a.outcome = "ok" => /\ call[c].kind = "delete" => call[c].id \in used' \ rows'
                               /\ Ticketed(call[c]) =>
                                    /\ a.items \cap page.gone = {}
                                    /\ Cardinality(a.items) <= Limit
                                    /\ ~setup.postgres => Cardinality(a.items) = Window(a.total, call[c].request.number * Limit)
    PROVE  ResourcesInv'
<1> DEFINE r == [call[c] EXCEPT !.pc = "answer", !.offset = 0, !.total = 0, !.answer = a]
<1>1. /\ call[c] \in CallTypes /\ CallSound(call[c]) /\ page \in PageTypes /\ page.generation \in Nat /\ asked \in Nat
      /\ call' = [call EXCEPT ![c] = r] /\ call'[c] = r /\ call' = [call EXCEPT ![c] = call'[c]]
  BY CallKnown DEF AnswerWith, SetCall
<1>2. /\ r \in CallTypes /\ r.pc = "answer" /\ r.answer = a /\ r.kind = call[c].kind /\ r.client = call[c].client
      /\ r.id = call[c].id /\ r.request = call[c].request /\ r.could = call[c].could
  BY <1>1 DEF CallTypes
<1> HIDE DEF r
<1>3. UNCHANGED setup
  BY PermittedStays
<1>4. Ticketed(call[c])' <=> Ticketed(call[c])
  BY <1>1, <1>2 DEF Ticketed
<1>5. CallSound(call[c])'
  BY <1>1, <1>2, <1>3, <1>4 DEF CallSound
<1>6. MaySee(call[c])'
  BY <1>1, <1>2 DEF MaySee
<1>7. AnswerSound(call[c])'
  BY <1>1, <1>2, <1>3, <1>4 DEF AnswerSound, Window
<1>8. PageSound'
  BY PageStaysSound DEF ResourcesInv
<1>9. page' \in PageTypes /\ page'.generation >= page.generation /\ page'.gone = page.gone /\ asked' \in Nat
  BY PageUnmoved
<1> QED BY <1>1, <1>2, <1>5, <1>6, <1>7, <1>8, <1>9, OneCallStep

\* An answer without rows, in the wording of the client that gets it.
LEMMA PlainAnswerStep ==
    ASSUME ResourcesInv, UNCHANGED vars, NEW c \in Slots, NEW o \in Outcomes, Answer(c, o),
           call[c].pc \in {"require", "act", "read"}, UNCHANGED <<page, asked>>,
           rows' \subseteq used', used' \subseteq Ids, used \subseteq used', used \ rows \subseteq used' \ rows',
           o \in {"ok", "not-found"} => call[c].could,
           o = "ok" => call[c].kind # "list" /\ (call[c].kind = "delete" => call[c].id \in used' \ rows')
    PROVE  ResourcesInv'
<1> DEFINE a == IF call[c].client = "page" /\ o # "ok" THEN Failure ELSE Answered(o, 0, {})
<1>1. a \in AnswerTypes /\ (a.outcome = o \/ a.outcome = "error") /\ AnswerWith(c, a)
  BY DEF Failure, Answered, AnswerTypes, Outcomes, Answer
<1> HIDE DEF a
<1>2. a.outcome \in {"ok", "not-found"} => call[c].could
  BY <1>1
<1>3. a.outcome = "ok" => ~Ticketed(call[c]) /\ (call[c].kind = "delete" => call[c].id \in used' \ rows')
  BY <1>1 DEF Ticketed
<1> QED BY <1>1, <1>2, <1>3, AnswerStep

\* A call goes on to its next statement.
LEMMA AdvanceStep ==
    ASSUME ResourcesInv, UNCHANGED vars, NEW c \in Slots, UNCHANGED <<rows, used, page, asked>>, call[c].could, NEW r,
           SetCall(c, r),
           call[c].pc \in {"require", "act"},
           \/ r = [call[c] EXCEPT !.pc = "act"]
           \/ setup.postgres /\ call[c].kind = "list" /\ \E n \in Nat : r = [call[c] EXCEPT !.pc = "read", !.total = n]
    PROVE  ResourcesInv'
<1>1. /\ call[c] \in CallTypes /\ CallSound(call[c]) /\ page \in PageTypes /\ page.generation \in Nat /\ asked \in Nat
      /\ rows \subseteq used /\ used \subseteq Ids
  BY CallKnown
<1>2. call' = [call EXCEPT ![c] = r]
  BY DEF SetCall
<1>3. /\ r \in CallTypes /\ r.pc \in {"act", "read"} /\ r.kind = call[c].kind /\ r.client = call[c].client
      /\ r.request = call[c].request /\ r.could = call[c].could /\ r.offset = call[c].offset
      /\ r.pc = "read" => setup.postgres /\ r.kind = "list"
  BY <1>1, <1>2 DEF CallTypes
<1>4. call'[c] = r /\ call' = [call EXCEPT ![c] = call'[c]]
  BY <1>2, CallKnown
<1>5. UNCHANGED setup
  BY PermittedStays
<1>6. CallSound(call[c])'
  BY <1>1, <1>3, <1>4, <1>5 DEF CallSound, Ticketed
<1>7. MaySee(call[c])' /\ AnswerSound(call[c])'
  BY <1>3, <1>4 DEF MaySee, AnswerSound
<1>8. PageSound'
  BY PageStaysSound DEF ResourcesInv
<1>9. page' \in PageTypes /\ page'.generation >= page.generation /\ page'.gone = page.gone /\ asked' \in Nat
  BY PageUnmoved
<1> QED BY <1>1, <1>3, <1>4, <1>6, <1>7, <1>8, <1>9, OneCallStep

LEMMA RequireStep ==
    ASSUME ResourcesInv, UNCHANGED vars, NEW c \in Slots, Require(c), UNCHANGED <<rows, used, page, asked>>
    PROVE  ResourcesInv'
<1>1. /\ MaySee(call[c]) /\ call[c].pc = "require" /\ rows \subseteq used /\ used \subseteq Ids
  BY CallKnown DEF Require
<1>2. CASE Permitted(call[c].kind) /\ SetCall(c, [call[c] EXCEPT !.pc = "act"])
  BY <1>1, <1>2, AdvanceStep DEF MaySee
<1>3. ASSUME NEW o \in {"forbidden", "unauthorized", "persistence"}, Answer(c, o) PROVE ResourcesInv'
  BY <1>1, <1>3, PlainAnswerStep DEF Outcomes
<1> QED BY <1>2, <1>3 DEF Require

\* The rows of a list come from one page of the table as it is.
LEMMA AnswerRowsStep ==
    ASSUME ResourcesInv, UNCHANGED vars, NEW c \in Slots, NEW n \in Nat, AnswerRows(c, n), UNCHANGED <<rows, used, page, asked>>,
           call[c].pc \in {"act", "read"}, ~setup.postgres => n = Cardinality(rows), call[c].kind = "list"
    PROVE  ResourcesInv'
<1> DEFINE a == Answered("ok", n, Selected(call[c].offset))
<1>1. /\ call[c] \in CallTypes /\ call[c].offset \in Nat /\ CallSound(call[c]) /\ MaySee(call[c])
      /\ page.gone \subseteq used \ rows /\ rows \subseteq used /\ used \subseteq Ids
  BY CallKnown DEF CallTypes
<1>2. rows \subseteq Nat /\ IsFiniteSet(rows) /\ Cardinality(rows) \in Nat
  <2>1. rows \subseteq Ids /\ rows \subseteq Nat
    BY <1>1, Constants
  <2>2. IsFiniteSet(rows)
    BY <2>1, Constants, FS_Subset
  <2> QED BY <2>1, <2>2, FS_CardinalityType
<1>3. Selected(call[c].offset) \subseteq rows /\ Cardinality(Selected(call[c].offset)) = Window(Cardinality(rows), call[c].offset)
  BY <1>1, <1>2, SelectedCount
<1>4. Window(Cardinality(rows), call[c].offset) <= Limit
  BY <1>1, <1>2, Constants DEF Window
<1>5. /\ a \in AnswerTypes /\ a.outcome = "ok" /\ a.total = n /\ a.items = Selected(call[c].offset) /\ AnswerWith(c, a)
  BY <1>1, <1>3 DEF Answered, AnswerTypes, Outcomes, AnswerRows
<1> HIDE DEF a
<1>6. Ticketed(call[c]) => call[c].offset = call[c].request.number * Limit
  BY <1>1 DEF CallSound
<1>7. a.items \cap page.gone = {}
  BY <1>1, <1>3, <1>5
<1>8. call[c].could
  BY <1>1 DEF MaySee
<1> QED BY <1>1, <1>3, <1>4, <1>5, <1>6, <1>7, <1>8, AnswerStep

LEMMA ServeStep == ASSUME ResourcesInv, UNCHANGED vars, NEW c \in Slots, Serve(c) PROVE ResourcesInv'
<1>1. /\ call[c] \in CallTypes /\ MaySee(call[c]) /\ rows \subseteq used /\ used \subseteq Ids /\ UNCHANGED <<page, asked>>
      /\ CallSound(call[c])
  BY CallKnown DEF Serve
<1>2. Cardinality(rows) \in Nat
  BY <1>1, Constants, FS_Subset, FS_CardinalityType
<1>3. CASE Require(c) /\ UNCHANGED <<rows, used>>
  BY <1>1, <1>3, RequireStep
<1>4. CASE call[c].pc = "act" /\ List(c)
  <2>1. CASE call[c].offset > MaxOffset
    BY <1>1, <1>4, <2>1, PlainAnswerStep DEF List, Outcomes
  <2>2. CASE ~(call[c].offset > MaxOffset) /\ setup.postgres
    BY <1>1, <1>2, <1>4, <2>2, AdvanceStep DEF List, MaySee
  <2>3. CASE ~(call[c].offset > MaxOffset) /\ ~setup.postgres
    BY <1>1, <1>2, <1>4, <2>3, AnswerRowsStep DEF List
  <2> QED BY <2>1, <2>2, <2>3
<1>5. CASE call[c].pc = "act" /\ (Get(c) \/ Update(c))
  <2>1. /\ Answer(c, Found(c)) /\ Found(c) \in Outcomes /\ UNCHANGED <<rows, used>> /\ call[c].kind \in {"get", "update"}
    BY <1>5 DEF Get, Update, Overwrite, Found, Outcomes
  <2> QED BY <1>1, <1>5, <2>1, PlainAnswerStep DEF MaySee
<1>6. CASE call[c].pc = "act" /\ Create(c)
  <2>1. PICK i \in Ids \ used : Insert(i)
    BY <1>6 DEF Create
  <2>2. rows' \subseteq used' /\ used' \subseteq Ids /\ used \subseteq used' /\ used \ rows \subseteq used' \ rows'
    BY <1>1, <2>1 DEF Insert
  <2>3. Answer(c, "ok") /\ call[c].kind = "create"
    BY <1>6 DEF Create
  <2> QED BY <1>1, <1>6, <2>2, <2>3, PlainAnswerStep DEF MaySee, Outcomes
<1>7. CASE call[c].pc = "act" /\ Delete(c)
  <2>1. Answer(c, Found(c)) /\ Found(c) \in Outcomes /\ Remove(call[c].id) /\ call[c].kind = "delete"
    BY <1>7 DEF Delete, Found, Outcomes
  <2>2. rows' \subseteq used' /\ used' \subseteq Ids /\ used \subseteq used' /\ used \ rows \subseteq used' \ rows'
    BY <1>1, <2>1 DEF Remove
  <2>3. Found(c) = "ok" => call[c].id \in used' \ rows'
    BY <1>1, <2>1 DEF Remove, Found
  <2> QED BY <1>1, <1>7, <2>1, <2>2, <2>3, PlainAnswerStep DEF MaySee
<1>8. CASE Read(c)
  BY <1>1, <1>8, AnswerRowsStep DEF Read, CallSound, CallTypes
<1>9. CASE Fails(c)
  BY <1>1, <1>9, PlainAnswerStep DEF Fails, Outcomes
<1> QED BY <1>3, <1>4, <1>5, <1>6, <1>7, <1>8, <1>9 DEF Serve

\* The last page that there is begins before the last row.
LEMMA Multiplied == ASSUME NEW x \in Nat, NEW y \in Nat, NEW l \in Nat, x <= y PROVE x * l <= y * l
OBVIOUS

LEMMA Divided == ASSUME NEW a \in Nat, NEW l \in Nat, l > 0 PROVE (a \div l) \in Nat /\ (a \div l) * l <= a
OBVIOUS

LEMMA BeginsBefore ==
    ASSUME NEW a \in Nat, NEW l \in Nat, l > 0, NEW n \in Nat, n <= a \div l PROVE n * l <= a
<1> DEFINE q == a \div l
<1>1. q \in Nat /\ q * l <= a
  BY Divided
<1> HIDE DEF q
<1>2. n * l <= q * l
  BY <1>1, Multiplied DEF q
<1>3. n * l \in Nat
  OBVIOUS
<1> QED BY <1>1, <1>2, <1>3

LEMMA LastIsNumber ==
    ASSUME NEW t \in Nat
    PROVE  LastOf(t) \in Nat /\ (t > 0 => t - 1 \in Nat /\ LastOf(t) = (t - 1) \div Limit)
<1> DEFINE b == IF t = 0 THEN 0 ELSE t - 1
<1>1. b \in Nat /\ (t > 0 => b = t - 1) /\ LastOf(t) = b \div Limit
  BY DEF LastOf
<1> HIDE DEF b
<1>2. b \div Limit \in Nat
  BY <1>1, Constants, Divided
<1> QED BY <1>1, <1>2

-----------------------------------------------------------------------------
(* Resources: calls begin and end                                          *)

LEMMA NoCallTyped == NoCall \in CallTypes /\ NoCall.pc = "idle"
BY DEF NoCall, CallTypes

LEMMA BegunTyped ==
    ASSUME NEW kind \in DOMAIN Granting, NEW client \in {"http", "page"}, NEW id \in Ids \cup {None},
           NEW offset \in Nat, NEW ticket \in Tickets \cup {None}
    PROVE  LET r == Begun(kind, client, id, offset, ticket)
           IN  /\ r \in CallTypes /\ r.pc = "require" /\ r.kind = kind /\ r.client = client /\ r.offset = offset
               /\ r.request = ticket /\ r.could = Permitted(kind)
<1>1. Permitted(kind) \in BOOLEAN
  BY DEF Permitted
<1> QED BY <1>1 DEF Begun, NoCall, CallTypes

\* A call begins, and the page may move on with it.
LEMMA BeginStep ==
    ASSUME ResourcesInv, UNCHANGED vars, UNCHANGED <<rows, used>>, NEW c \in Slots,
           NEW kind \in DOMAIN Granting, NEW client \in {"http", "page"}, NEW id \in Ids \cup {None},
           NEW offset \in Nat, NEW ticket \in Tickets \cup {None},
           call' = [call EXCEPT ![c] = Begun(kind, client, id, offset, ticket)],
           client = "page" /\ kind = "list" =>
              ticket \in Tickets /\ ticket.generation <= page'.generation /\ offset = ticket.number * Limit,
           page' \in PageTypes, page'.generation >= page.generation,
           page'.gone = page.gone \/ page'.generation > page.generation, PageSound', asked' \in Nat
    PROVE  ResourcesInv'
<1> DEFINE r == Begun(kind, client, id, offset, ticket)
<1>1. /\ r \in CallTypes /\ r.pc = "require" /\ r.kind = kind /\ r.client = client /\ r.offset = offset
      /\ r.request = ticket /\ r.could = Permitted(kind)
  BY BegunTyped
<1>2. call' = [call EXCEPT ![c] = r]
  OBVIOUS
<1> HIDE DEF r
<1>3. call'[c] = r /\ call' = [call EXCEPT ![c] = call'[c]] /\ rows \subseteq used /\ used \subseteq Ids
  BY <1>2, CallKnown
<1>4. CallSound(call[c])'
  BY <1>1, <1>3 DEF CallSound, Ticketed
<1>5. MaySee(call[c])' /\ AnswerSound(call[c])'
  BY <1>1, <1>3, PermittedStays DEF MaySee, AnswerSound
<1> QED BY <1>1, <1>3, <1>4, <1>5, OneCallStep

\* A call ends, and the page may move on with it.
LEMMA EndStep ==
    ASSUME ResourcesInv, UNCHANGED vars, UNCHANGED <<rows, used>>, NEW c \in Slots, call' = [call EXCEPT ![c] = NoCall],
           page' \in PageTypes, page'.generation >= page.generation,
           page'.gone = page.gone \/ page'.generation > page.generation, PageSound', asked' \in Nat
    PROVE  ResourcesInv'
<1>1. call'[c] = NoCall /\ call' = [call EXCEPT ![c] = call'[c]] /\ rows \subseteq used /\ used \subseteq Ids
  BY CallKnown
<1>2. CallSound(call[c])' /\ MaySee(call[c])' /\ AnswerSound(call[c])'
  BY <1>1, NoCallTyped DEF CallSound, MaySee, AnswerSound, Ticketed
<1> QED BY <1>1, <1>2, NoCallTyped, OneCallStep

LEMMA RespondStep == ASSUME ResourcesInv, UNCHANGED vars, NEW c \in Slots, Respond(c) PROVE ResourcesInv'
<1>1. UNCHANGED <<rows, used, page, asked>> /\ call' = [call EXCEPT ![c] = NoCall]
  BY DEF Respond, SetCall
<1>2. PageSound'
  BY <1>1, PageStaysSound DEF ResourcesInv
<1>3. page' \in PageTypes /\ page'.generation >= page.generation /\ page'.gone = page.gone /\ asked' \in Nat
  BY <1>1, PageUnmoved
<1> QED BY <1>1, <1>2, <1>3, EndStep

LEMMA RequestStep == ASSUME ResourcesInv, UNCHANGED vars, Request PROVE ResourcesInv'
<1>1. /\ UNCHANGED <<rows, used, page>> /\ Slot \in Slots /\ asked' = asked + 1
      /\ used \subseteq Ids /\ asked \in Nat /\ page \in PageTypes /\ page.generation \in Nat
  BY SlotIdle DEF Request, ResourcesInv, ResourceTypes, PageTypes
<1>2. PICK kind \in DOMAIN Granting, i \in used \cup {None} :
         call' = [call EXCEPT ![Slot] = Begun(kind, "http", i, IF kind = "list" THEN MaxOffset + 1 ELSE 0, None)]
  BY DEF Request, SetCall
<1>3. i \in Ids \cup {None} /\ (IF kind = "list" THEN MaxOffset + 1 ELSE 0) \in Nat
  BY <1>1, Constants
<1>4. PageSound'
  BY <1>1, PageStaysSound DEF ResourcesInv
<1>5. page' \in PageTypes /\ page'.generation >= page.generation /\ page'.gone = page.gone /\ asked' \in Nat
  BY <1>1
<1> QED BY <1>1, <1>2, <1>3, <1>4, <1>5, BeginStep

-----------------------------------------------------------------------------
(* Resources: the page                                                     *)

LEMMA BeginLoadTyped ==
    ASSUME NEW p \in PageTypes, NEW n \in Nat
    PROVE  LET q == BeginLoad(p, n)
           IN  /\ q \in PageTypes /\ q.loading /\ q.generation = p.generation + 1
               /\ q.items = p.items /\ q.candidate = p.candidate /\ q.gone = p.gone
<1>1. MaxOffset \div Limit \in Nat
  BY Constants, Divided
<1>2. Min({n, MaxOffset \div Limit}) \in Nat
  BY <1>1, LesserOfTwo
<1>3. p.generation + 1 \in Nat
  BY DEF PageTypes
<1> DEFINE m == Min({n, MaxOffset \div Limit})
           g == p.generation + 1
<1>4. BeginLoad(p, n) = [p EXCEPT !.number = m, !.generation = g, !.total = None, !.loading = TRUE]
  BY DEF BeginLoad, PageTypes
<1> HIDE DEF m
<1>5. m \in Nat
  BY <1>2 DEF m
<1>6. [p EXCEPT !.number = m, !.generation = g, !.total = None, !.loading = TRUE] \in PageTypes
  BY <1>3, <1>5 DEF PageTypes
<1> QED BY <1>4, <1>6 DEF PageTypes

LEMMA RequestOfTyped ==
    ASSUME NEW p \in PageTypes
    PROVE  /\ RequestOf(p) \in Tickets /\ RequestOf(p).number = p.number /\ RequestOf(p).generation = p.generation
           /\ p.number * Limit \in Nat
BY Constants DEF RequestOf, Tickets, PageTypes

\* A page that shows nothing.
LEMMA EmptyPageSound ==
    ASSUME ~Ready(page)', page'.items = {}, page'.candidate = None, page'.gone \subseteq used' \ rows'
    PROVE  PageSound'
BY DEF PageSound, ShownRowsAreCurrent

\* The page that it asks for next, and the call of it.
LEMMA LoadsStep ==
    ASSUME ResourcesInv, UNCHANGED vars, UNCHANGED <<rows, used, asked>>, NEW c \in Slots, page' \in PageTypes,
           page'.loading, page'.generation = page.generation + 1, page'.items = {}, page'.candidate = None,
           page'.gone \subseteq used \ rows,
           call' = [call EXCEPT ![c] = Begun("list", "page", None, page'.number * Limit, RequestOf(page'))]
    PROVE  ResourcesInv'
<1>1. PageSound'
  BY EmptyPageSound DEF Ready
<1>2. page.generation \in Nat /\ asked' \in Nat
  BY CallKnown
<1>3. page'.generation >= page.generation /\ page'.generation > page.generation
  BY <1>2
<1>4. /\ RequestOf(page') \in Tickets /\ RequestOf(page').number = page'.number
      /\ RequestOf(page').generation = page'.generation /\ page'.number * Limit \in Nat
  BY RequestOfTyped
<1>5. RequestOf(page').generation <= page'.generation
  BY <1>2, <1>4
<1>6. "list" \in DOMAIN Granting
  BY Constants
<1> QED BY <1>1, <1>2, <1>3, <1>4, <1>5, <1>6, BeginStep

LEMMA LoadStep ==
    ASSUME ResourcesInv, UNCHANGED vars, UNCHANGED <<rows, used, asked>>, NEW c \in Slots, NEW p \in PageTypes, NEW n \in Nat,
           p.generation = page.generation, p.gone \subseteq used \ rows, Load(p, n, c, call)
    PROVE  ResourcesInv'
<1> DEFINE q == BeginLoad(p, n)
<1>1. q \in PageTypes /\ q.loading /\ q.generation = page.generation + 1 /\ q.gone = p.gone
  BY BeginLoadTyped
<1>2. /\ page' = [q EXCEPT !.items = {}, !.candidate = None]
      /\ call' = [call EXCEPT ![c] = Begun("list", "page", None, page'.number * Limit, RequestOf(page'))]
  BY DEF Load, Loading
<1> HIDE DEF q
<1>3. /\ page' \in PageTypes /\ page'.loading /\ page'.generation = page.generation + 1 /\ page'.items = {}
      /\ page'.candidate = None /\ page'.gone \subseteq used \ rows
  BY <1>1, <1>2 DEF PageTypes
<1> QED BY <1>2, <1>3, LoadsStep

\* The buttons lead to pages, and a page that is loading shows nothing.
LEMMA PageKnown ==
    ASSUME ResourcesInv
    PROVE  /\ page \in PageTypes /\ page.number \in Nat /\ page.generation \in Nat /\ page.gone \subseteq used \ rows
           /\ page.loading => page.items = {} /\ page.candidate = None
           /\ asked \in Nat /\ rows \subseteq used /\ used \subseteq Ids
BY DEF ResourcesInv, ResourceTypes, PageTypes, PageSound, ShownRowsAreCurrent, Ready

LEMMA TargetsAreNumbers == ASSUME ResourcesInv PROVE Targets \subseteq Nat
<1>1. page \in PageTypes /\ page.number \in Nat /\ page.total \in Nat \cup {None}
  BY PageKnown DEF PageTypes
<1>2. Ready(page) => page.total \in Nat
  BY <1>1 DEF Ready
<1>3. Ready(page) => Pages(page) \in Nat
  <2>1. CASE page.total \in {None, 0}
    BY <2>1 DEF Pages
  <2>2. CASE page.total \notin {None, 0}
    <3>1. page.total - 1 \in Nat
      BY <1>1, <2>2
    <3>2. (page.total - 1) \div Limit \in Nat
      BY <3>1, Constants, Divided
    <3> QED BY <2>2, <3>2 DEF Pages
  <2> QED BY <2>1, <2>2
<1>4. Ready(page) /\ page.number > 0 => page.number - 1 \in Nat
  BY <1>1
<1>5. Ready(page) /\ page.number + 1 < Pages(page) => Pages(page) - 1 \in Nat
  BY <1>1, <1>3
<1> QED BY <1>1, <1>4, <1>5 DEF Targets

LEMMA OpenNavigateStep == ASSUME ResourcesInv, UNCHANGED vars, Open \/ Navigate PROVE ResourcesInv'
<1>1. PICK n \in Nat : Load(page, n, Slot, call)
  BY TargetsAreNumbers DEF Open, Navigate
<1>2. Slot \in Slots /\ UNCHANGED <<rows, used, asked>>
  BY SlotIdle DEF Open, Navigate
<1> QED BY <1>1, <1>2, PageKnown, LoadStep

\* The answer that the page waits for is shown: it exists, and is full or the last.
LEMMA ShowStep ==
    ASSUME ResourcesInv, UNCHANGED vars, UNCHANGED <<rows, used, asked>>, NEW c \in Slots, Ticketed(call[c]), call[c].pc = "answer",
           IsCurrent(page, call[c].request), call[c].answer.outcome = "ok",
           ~(page.number > LastOf(call[c].answer.total)), call' = [call EXCEPT ![c] = NoCall],
           page' = [page EXCEPT !.total = call[c].answer.total, !.loading = FALSE, !.items = call[c].answer.items,
                                !.shown = call[c].request.generation]
    PROVE  ResourcesInv'
<1> DEFINE a == call[c].answer
           t == a.total
           k == page.number * Limit
<1>1. /\ CallSound(call[c]) /\ AnswerSound(call[c]) /\ page \in PageTypes /\ page.gone \subseteq used \ rows
      /\ page.number \in Nat /\ page.generation \in Nat /\ asked \in Nat
      /\ page.loading => page.items = {} /\ page.candidate = None
  BY CallKnown, PageKnown
<1>2. a \in AnswerTypes /\ t \in Nat /\ a.items \subseteq Ids
  BY <1>1 DEF CallSound, AnswerTypes
<1>3. /\ call[c].request \in Tickets /\ call[c].request.generation = page.generation
      /\ call[c].request.number = page.number /\ page.loading
  BY <1>1 DEF CallSound, IsCurrent
<1>4. /\ a.items \cap page.gone = {} /\ Cardinality(a.items) <= Limit
      /\ ~setup.postgres => Cardinality(a.items) = Window(t, k)
  BY <1>1, <1>3 DEF AnswerSound
<1> HIDE DEF a
<1>5. /\ page' \in PageTypes /\ page'.total = t /\ page'.loading = FALSE /\ page'.items = a.items
      /\ page'.shown = page.generation /\ page'.generation = page.generation /\ page'.number = page.number
      /\ page'.gone = page.gone /\ page'.candidate = page.candidate
  BY <1>1, <1>2, <1>3 DEF PageTypes, a
<1>6. /\ t > 0 => k <= t - 1 /\ page.number < (t - 1) \div Limit + 1
      /\ t = 0 => page.number = 0
  <2>1. ASSUME t > 0 PROVE k <= t - 1 /\ page.number < (t - 1) \div Limit + 1
    <3>1. t - 1 \in Nat /\ LastOf(t) = (t - 1) \div Limit /\ (t - 1) \div Limit \in Nat
      BY <1>2, <2>1, LastIsNumber
    <3>2. page.number <= (t - 1) \div Limit
      BY <1>1, <3>1 DEF a
    <3>3. k <= t - 1
      BY <1>1, <3>1, <3>2, Constants, BeginsBefore
    <3> QED BY <1>1, <3>1, <3>2, <3>3
  <2>2. ASSUME t = 0 PROVE page.number = 0
    <3>1. LastOf(t) = 0 \div Limit
      BY <2>2 DEF LastOf
    <3>2. 0 \div Limit = 0
      BY Constants
    <3> QED BY <1>1, <3>1, <3>2 DEF a
  <2> QED BY <2>1, <2>2
<1>7. k \in Nat /\ Limit \in Nat /\ Limit > 0 /\ (t = 0 => k = 0)
  <2>1. k \in Nat
    BY <1>1, Constants
  <2>2. ASSUME t = 0 PROVE k = 0
    BY <1>6, <2>2, Constants
  <2> QED BY <2>1, <2>2, Constants
<1>8. Window(t, k) = Min({Limit, t - k})
  <2>1. Min({Limit, t - k}) = IF Limit <= t - k THEN Limit ELSE t - k
    BY <1>2, <1>7, LesserOfTwo
  <2> HIDE DEF k
  <2> QED BY <1>2, <1>6, <1>7, <2>1 DEF Window
<1>9. Pages(page') = IF t = 0 THEN 0 ELSE (t - 1) \div Limit + 1
  BY <1>2, <1>5, Constants DEF Pages
<1>10. PageSound'
  <2>1. setup' = setup
    BY PermittedStays
  <2>2. page'.candidate = None
    BY <1>1, <1>3, <1>5
  <2>3. Ready(page')
    BY <1>2, <1>5, Constants DEF Ready
  <2>4. t > 0 => page.number < Pages(page')
    BY <1>2, <1>6, <1>9
  <2>5. ~setup.postgres => Cardinality(a.items) = Min({Limit, t - k})
    BY <1>4, <1>8
  <2>6. page'.total - page'.number * Limit = t - k
    BY <1>5
  <2>7. ShownRowsAreCurrent'
    BY <1>4, <1>5, <1>6, <2>1, <2>2, <2>3, <2>4, <2>5, <2>6 DEF ShownRowsAreCurrent
  <2> QED BY <1>1, <1>5, <2>7 DEF PageSound
<1>11. page'.generation >= page.generation
  BY <1>1, <1>5
<1> QED BY <1>1, <1>5, <1>10, <1>11, EndStep

LEMMA ReceiveListStep == ASSUME ResourcesInv, UNCHANGED vars, NEW c \in Slots, ReceiveList(c) PROVE ResourcesInv'
<1>1. /\ UNCHANGED <<rows, used, asked>> /\ call[c].pc = "answer" /\ Ticketed(call[c])
      /\ call[c] \in CallTypes /\ CallSound(call[c]) /\ AnswerSound(call[c]) /\ page \in PageTypes
      /\ page.gone \subseteq used \ rows /\ page.generation \in Nat /\ page.number \in Nat /\ asked \in Nat
      /\ page.loading => page.items = {} /\ page.candidate = None
  BY CallKnown, PageKnown DEF ReceiveList, Ticketed
<1>2. PICK a \in Answers(c) :
          IF ~IsCurrent(page, call[c].request) THEN SetCall(c, NoCall) /\ UNCHANGED page
          ELSE IF Failed(a)
               THEN SetCall(c, NoCall) /\ page' = Fail(page)
          ELSE IF page.number > LastOf(a.total)
               THEN LET q == BeginLoad(page, LastOf(a.total))
                    IN  page' = q /\ SetCall(c, Begun("list", "page", None, q.number * Limit, RequestOf(q)))
          ELSE /\ SetCall(c, NoCall)
               /\ page' = [page EXCEPT !.total = a.total, !.loading = FALSE, !.items = a.items, !.shown = call[c].request.generation]
  BY DEF ReceiveList
<1>3. CASE ~IsCurrent(page, call[c].request)
  <2>1. UNCHANGED page /\ call' = [call EXCEPT ![c] = NoCall]
    BY <1>2, <1>3 DEF SetCall
  <2>2. PageSound'
    BY <1>1, <2>1, PageStaysSound DEF ResourcesInv
  <2> QED BY <1>1, <2>1, <2>2, PageUnmoved, EndStep
<1>4. CASE IsCurrent(page, call[c].request) /\ Failed(a)
  <2>1. page' = Fail(page) /\ call' = [call EXCEPT ![c] = NoCall] /\ page.loading
    BY <1>2, <1>4 DEF SetCall, IsCurrent
  <2>2. /\ page' \in PageTypes /\ page'.total = None /\ page'.generation = page.generation /\ page'.gone = page.gone
        /\ page'.items = page.items /\ page'.candidate = page.candidate
    BY <1>1, <2>1 DEF Fail, PageTypes
  <2>3. PageSound'
    BY <1>1, <2>1, <2>2, EmptyPageSound DEF Ready
  <2>4. page'.generation >= page.generation
    BY <1>1, <2>2
  <2> QED BY <1>1, <2>1, <2>2, <2>3, <2>4, EndStep
<1>5. CASE IsCurrent(page, call[c].request) /\ ~Failed(a)
  <2>1. a = call[c].answer /\ a.outcome = "ok" /\ a \in AnswerTypes /\ a.total \in Nat /\ page.loading
    BY <1>1, <1>5 DEF Answers, Failed, Failure, Answered, CallSound, IsCurrent, AnswerTypes
  <2>2. CASE page.number > LastOf(a.total)
    <3>1. LastOf(a.total) \in Nat
      BY <2>1, LastIsNumber
    <3>2. /\ page' = BeginLoad(page, LastOf(a.total))
          /\ call' = [call EXCEPT ![c] = Begun("list", "page", None, page'.number * Limit, RequestOf(page'))]
      BY <1>2, <1>5, <2>2 DEF SetCall
    <3>3. /\ page' \in PageTypes /\ page'.loading /\ page'.generation = page.generation + 1
          /\ page'.items = page.items /\ page'.candidate = page.candidate /\ page'.gone = page.gone
      BY <1>1, <3>1, <3>2, BeginLoadTyped
    <3> QED BY <1>1, <2>1, <3>2, <3>3, LoadsStep
  <2>3. CASE ~(page.number > LastOf(a.total))
    BY <1>1, <1>2, <1>5, <2>1, <2>3, ShowStep DEF SetCall
  <2> QED BY <2>2, <2>3
<1> QED BY <1>3, <1>4, <1>5

LEMMA ReceiveChangeStep == ASSUME ResourcesInv, UNCHANGED vars, NEW c \in Slots, ReceiveChange(c) PROVE ResourcesInv'
<1> DEFINE deletes == call[c].kind = "delete"
           p == [page EXCEPT !.pending = FALSE, !.gone = IF deletes THEN @ \cup {call[c].id} ELSE @, !.form = IF deletes THEN @ ELSE None]
<1>1. /\ UNCHANGED <<rows, used, asked>> /\ call[c].pc = "answer" /\ page.number \in Nat
      /\ call[c] \in CallTypes /\ AnswerSound(call[c]) /\ page \in PageTypes /\ page.generation \in Nat /\ asked \in Nat
      /\ page.gone \subseteq used \ rows /\ used \subseteq Ids
  BY CallKnown, PageKnown DEF ReceiveChange
<1>2. PICK a \in Answers(c) : IF Failed(a) THEN SetCall(c, NoCall) /\ page' = [page EXCEPT !.pending = FALSE]
                              ELSE Load(p, page.number, c, call)
  BY DEF ReceiveChange
<1>3. CASE Failed(a)
  <2>1. page' = [page EXCEPT !.pending = FALSE] /\ call' = [call EXCEPT ![c] = NoCall]
    BY <1>2, <1>3 DEF SetCall
  <2>2. /\ page' \in PageTypes /\ page'.generation = page.generation /\ page'.gone = page.gone /\ page'.items = page.items
        /\ page'.candidate = page.candidate /\ page'.total = page.total /\ page'.loading = page.loading
        /\ page'.number = page.number /\ page'.shown = page.shown
    BY <1>1, <2>1 DEF PageTypes
  <2>3. PageSound' /\ page'.generation >= page.generation
    BY <1>1, <2>2, PermittedStays DEF ResourcesInv, PageSound, ShownRowsAreCurrent, Ready, Pages
  <2> QED BY <1>1, <2>1, <2>2, <2>3, EndStep
<1>4. CASE ~Failed(a)
  <2>1. call[c].answer.outcome = "ok" /\ Load(p, page.number, c, call)
    BY <1>2, <1>4 DEF Answers, Failed, Failure, Answered
  <2>2. deletes => call[c].id \in used \ rows
    BY <1>1, <2>1 DEF AnswerSound
  <2>3. p \in PageTypes /\ p.generation = page.generation /\ p.gone = (IF deletes THEN page.gone \cup {call[c].id} ELSE page.gone)
    BY <1>1, <2>2 DEF PageTypes
  <2> HIDE DEF p
  <2> QED BY <1>1, <2>1, <2>2, <2>3, LoadStep
<1> QED BY <1>3, <1>4

\* The form and the question before a deletion change nothing that a call relies on.
LEMMA TouchStep ==
    ASSUME ResourcesInv, UNCHANGED vars, AskDelete \/ CancelDelete \/ BeginForm \/ CancelForm
    PROVE  ResourcesInv'
<1>1. /\ UNCHANGED <<rows, used, call, asked>> /\ page \in PageTypes /\ page.generation \in Nat /\ PageSound
      /\ page.gone \subseteq used \ rows
  BY PageKnown DEF AskDelete, CancelDelete, BeginForm, CancelForm, Touch, ResourcesInv
<1>2. /\ page' \in PageTypes /\ page'.generation = page.generation /\ page'.gone = page.gone /\ page'.items = page.items
      /\ page'.total = page.total /\ page'.loading = page.loading /\ page'.number = page.number /\ page'.shown = page.shown
      /\ page'.candidate \in {page.candidate, None} \cup page.items
  BY <1>1 DEF AskDelete, CancelDelete, BeginForm, CancelForm, Touch, PageTypes
<1>3. PageSound'
  BY <1>1, <1>2, PermittedStays DEF PageSound, ShownRowsAreCurrent, Ready, Pages
<1>4. ResourceTypes'
  BY <1>1, <1>2 DEF ResourcesInv, ResourceTypes
<1>5. page'.generation >= page.generation
  BY <1>1, <1>2
<1>6. CallsSound'
  BY <1>1, <1>2, <1>5, OtherCallsSound DEF CallsSound
<1> QED BY <1>3, <1>4, <1>6 DEF ResourcesInv

LEMMA MutateStep ==
    ASSUME ResourcesInv, UNCHANGED vars, NEW kind \in {"create", "update", "delete"}, NEW id \in Ids \cup {None},
           NEW p \in PageTypes, p.candidate \in {page.candidate, None}, p.generation = page.generation, p.gone = page.gone,
           p.items = page.items, p.total = page.total, p.loading = page.loading, p.number = page.number, p.shown = page.shown,
           Mutate(kind, id, p)
    PROVE  ResourcesInv'
<1>1. /\ UNCHANGED <<rows, used>> /\ asked' = asked + 1 /\ Slot \in Slots /\ page' = [p EXCEPT !.pending = TRUE]
      /\ call' = [call EXCEPT ![Slot] = Begun(kind, "page", id, 0, None)]
      /\ asked \in Nat /\ page.generation \in Nat /\ PageSound
  BY SlotIdle, PageKnown DEF Mutate, SetCall, ResourcesInv
<1>2. /\ page' \in PageTypes /\ page'.generation = page.generation /\ page'.gone = page.gone /\ page'.items = page.items
      /\ page'.total = page.total /\ page'.loading = page.loading /\ page'.number = page.number /\ page'.shown = page.shown
      /\ page'.candidate \in {page.candidate, None}
  BY <1>1 DEF PageTypes
<1>3. PageSound'
  BY <1>1, <1>2, PermittedStays DEF PageSound, ShownRowsAreCurrent, Ready, Pages
<1>4. page'.generation >= page.generation /\ asked' \in Nat /\ kind \in DOMAIN Granting /\ kind # "list"
  BY <1>1, <1>2, Constants
<1> QED BY <1>1, <1>2, <1>3, <1>4, BeginStep

LEMMA ChangeStep == ASSUME ResourcesInv, UNCHANGED vars, Submit \/ ConfirmDelete PROVE ResourcesInv'
<1>1. page \in PageTypes /\ page.candidate \in Ids \cup {None} /\ page.form \in Ids \cup {None, New}
  BY PageKnown DEF PageTypes
<1>2. CASE Submit
  <2>1. CASE page.form = New
    BY <1>1, <1>2, <2>1, MutateStep DEF Submit
  <2>2. CASE page.form # New
    BY <1>1, <1>2, <2>2, MutateStep DEF Submit
  <2> QED BY <2>1, <2>2
<1>3. CASE ConfirmDelete
  <2> DEFINE p == [page EXCEPT !.candidate = None]
  <2>1. /\ p \in PageTypes /\ p.candidate = None /\ p.generation = page.generation /\ p.gone = page.gone
        /\ p.items = page.items /\ p.total = page.total /\ p.loading = page.loading /\ p.number = page.number /\ p.shown = page.shown
    BY <1>1 DEF PageTypes
  <2>2. Mutate("delete", page.candidate, p)
    BY <1>3 DEF ConfirmDelete
  <2> HIDE DEF p
  <2> QED BY <1>1, <2>1, <2>2, MutateStep
<1> QED BY <1>2, <1>3

\* While the administrator acts, a call that has not been answered sees what it could do.
LEMMA RolesStepSound == ASSUME ResourcesInv, RolesStep PROVE ResourcesInv'
<1>1. /\ UNCHANGED <<setup, rows, used, page, asked>> /\ call \in [Slots -> CallTypes]
      /\ call' = [c \in Slots |-> IF call[c].pc \in {"idle", "answer"} THEN call[c]
                                  ELSE [call[c] EXCEPT !.could = @ \/ Granting[call[c].kind] \in Granted(Actor)']]
  BY DEF RolesStep, ResourcesInv, ResourceTypes
<1>2. ASSUME NEW c \in Slots
      PROVE  /\ call'[c] \in CallTypes /\ call'[c].pc = call[c].pc /\ call'[c].kind = call[c].kind
             /\ call'[c].client = call[c].client /\ call'[c].id = call[c].id /\ call'[c].offset = call[c].offset
             /\ call'[c].request = call[c].request /\ call'[c].answer = call[c].answer
             /\ call[c].could => call'[c].could
             /\ call[c].pc \notin {"idle", "answer"} /\ Permitted(call[c].kind)' => call'[c].could
  <2>1. CASE call[c].pc \in {"idle", "answer"}
    BY <1>1, <2>1
  <2>2. CASE call[c].pc \notin {"idle", "answer"}
    <3> DEFINE b == call[c].could \/ Granting[call[c].kind] \in Granted(Actor)'
    <3>1. call'[c] = [call[c] EXCEPT !.could = b] /\ b \in BOOLEAN /\ call[c] \in CallTypes
      BY <1>1, <2>2 DEF CallTypes
    <3>2. call[c].could => b
      OBVIOUS
    <3>3. Permitted(call[c].kind)' => b \/ call'[c].kind # call[c].kind
      BY DEF Permitted
    <3> HIDE DEF b
    <3>4. /\ call'[c] \in CallTypes /\ call'[c].pc = call[c].pc /\ call'[c].kind = call[c].kind
          /\ call'[c].client = call[c].client /\ call'[c].id = call[c].id /\ call'[c].offset = call[c].offset
          /\ call'[c].request = call[c].request /\ call'[c].answer = call[c].answer /\ call'[c].could = b
      BY <3>1 DEF CallTypes
    <3> QED BY <3>2, <3>3, <3>4
  <2> QED BY <2>1, <2>2
<1>3. ResourceTypes'
  BY <1>1, <1>2 DEF ResourcesInv, ResourceTypes
<1>4. CallsSound'
  <2> SUFFICES ASSUME NEW c \in Slots PROVE CallSound(call[c])' /\ MaySee(call[c])' /\ AnswerSound(call[c])'
    BY DEF CallsSound
  <2>1. CallSound(call[c]) /\ MaySee(call[c]) /\ AnswerSound(call[c])
    BY CallKnown
  <2>2. Ticketed(call[c])' <=> Ticketed(call[c])
    BY <1>2 DEF Ticketed
  <2>3. CallSound(call[c])'
    BY <1>1, <1>2, <2>1, <2>2 DEF CallSound
  <2>4. MaySee(call[c])'
    BY <1>1, <1>2, <2>1 DEF MaySee
  <2>5. AnswerSound(call[c])'
    BY <1>1, <1>2, <2>1, <2>2 DEF AnswerSound, Window
  <2> QED BY <2>3, <2>4, <2>5
<1>5. PageSound'
  BY <1>1 DEF ResourcesInv, PageSound, ShownRowsAreCurrent, Ready, Pages
<1> QED BY <1>3, <1>4, <1>5 DEF ResourcesInv

-----------------------------------------------------------------------------
(* Resources: the theorems                                                 *)

LEMMA ResourcesInitially == ResourcesInit => ResourcesInv
<1> SUFFICES ASSUME ResourcesInit PROVE ResourcesInv
  OBVIOUS
<1>1. rows \subseteq Ids /\ used = rows /\ asked = 0 /\ page = Page /\ call = [c \in Slots |-> NoCall]
  BY DEF ResourcesInit
<1>2. \A c \in Slots : call[c] = NoCall
  BY <1>1
<1>3. page \in PageTypes /\ page.gone = {} /\ page.items = {} /\ page.candidate = None /\ page.total = None
  BY <1>1 DEF Page, PageTypes
<1>4. ResourceTypes
  BY <1>1, <1>3, NoCallTyped DEF ResourceTypes
<1>5. CallsSound
  BY <1>2, NoCallTyped DEF CallsSound, CallSound, MaySee, AnswerSound, Ticketed
<1>6. PageSound
  BY <1>3 DEF PageSound, ShownRowsAreCurrent, Ready
<1> QED BY <1>4, <1>5, <1>6 DEF ResourcesInv

LEMMA ResourcesInductive == ResourcesInv /\ [ResourcesNext]_allVars => ResourcesInv'
<1> SUFFICES ASSUME ResourcesInv, [ResourcesNext]_allVars PROVE ResourcesInv'
  OBVIOUS
<1>1. CASE UNCHANGED allVars
  <2>1. UNCHANGED vars /\ UNCHANGED <<rows, used, call, page, asked>>
    BY <1>1 DEF allVars, resourceVars
  <2>2. page.generation >= page.generation
    BY PageKnown
  <2>3. CallsSound'
    BY <2>1, <2>2, PageKnown, OtherCallsSound DEF CallsSound
  <2>4. PageSound'
    BY <2>1, PageStaysSound DEF ResourcesInv
  <2> QED BY <2>1, <2>3, <2>4 DEF ResourcesInv, ResourceTypes
<1>2. CASE RolesStep
  BY <1>2, RolesStepSound
<1>3. ASSUME UNCHANGED vars, Request \/ PageStep \/ \E c \in Slots : Call(c) PROVE ResourcesInv'
  BY <1>3, RequestStep, OpenNavigateStep, TouchStep, ChangeStep, ServeStep, RespondStep, ReceiveListStep, ReceiveChangeStep
     DEF PageStep, Call
<1> QED BY <1>1, <1>2, <1>3 DEF ResourcesNext

LEMMA ResourcesInvariant == ResourcesSpec => []ResourcesInv
BY ResourcesInitially, ResourcesInductive, PTL DEF ResourcesSpec

\* The resource's variables keep their types: answers, tickets and the state of the page.
THEOREM ResourcesTypeCorrect == ResourcesSpec => []ResourceTypes
BY ResourcesInvariant, PTL DEF ResourcesInv

\* Every use case asks for its permission before it reads or writes, however the roles change
\* while its call is under way.
THEOREM OnlyPermitted == ResourcesSpec => []AnsweredOnlyIfPermitted
<1>1. ResourcesInv => AnsweredOnlyIfPermitted
  <2> SUFFICES ASSUME ResourcesInv, NEW c \in Slots, call[c].pc = "answer",
                      StatusOf(call[c].kind, call[c].answer.outcome) \in {200, 201, 204, 404}
               PROVE  call[c].could
    BY DEF AnsweredOnlyIfPermitted
  <2>1. CallSound(call[c]) /\ MaySee(call[c])
    BY CallKnown
  <2>2. call[c].answer.outcome \in Outcomes
    BY <2>1 DEF CallSound, AnswerTypes
  <2>3. call[c].answer.outcome \notin {"unauthorized", "forbidden", "invalid-input", "persistence", "error"}
    BY DEF StatusOf
  <2> QED BY <2>1, <2>2, <2>3 DEF MaySee, Outcomes
<1> QED BY <1>1, ResourcesInvariant, PTL

\* Whatever is in flight and in whichever order it is answered, the page shows the rows of its
\* last request, none that was reported deleted, and as many as its page of the table has.
THEOREM ShowsCurrentRows == ResourcesSpec => []ShownRowsAreCurrent
BY ResourcesInvariant, PTL DEF ResourcesInv, PageSound

-----------------------------------------------------------------------------
(* The cached check                                                        *)

\* The constants as the provers use them.
LEMMA CacheConstants ==
  /\ Ttl \in Nat /\ RequestTimeout \in Nat /\ Ttl > 0 /\ RequestTimeout > 0
  /\ MaxChanges \in Nat /\ MaxNow \in Nat
  BY AuthorizationCacheAssumption

USE CacheConstants DEF Versions

\* The records requests are reset to are requests.
LEMMA IdleTypes == NoCheck \in Checks /\ NoChange \in Changes
  <1>1. (CHOOSE n \in Nodes : TRUE) \in Nodes /\ (CHOOSE u \in Usernames : TRUE) \in Usernames
    BY AuthorizationCacheAssumption
  <1> QED
    BY <1>1 DEF NoCheck, NoChange, Checks, Changes

\* An entry the clock or a check writes is an entry.
LEMMA EntryTypes ==
  ASSUME CacheTyped
  PROVE  /\ Missing \in Entries
         /\ \A q \in Readers :
               [perms |-> reader[q].perms, until |-> now + Ttl,
                asOf |-> reader[q].asOf, setAt |-> epoch] \in Entries
  <1>1. Missing \in Entries
    BY DEF Entries, Missing
  <1>2. ASSUME NEW q \in Readers
        PROVE  [perms |-> reader[q].perms, until |-> now + Ttl,
                asOf |-> reader[q].asOf, setAt |-> epoch] \in Entries
    <2>1. reader[q].perms \in SUBSET Registry /\ reader[q].asOf \in 0 .. MaxChanges
      BY DEF CacheTyped, Checks
    <2>2. now + Ttl \in 0 .. MaxNow + Ttl /\ epoch \in 0 .. MaxChanges
      BY DEF CacheTyped
    <2> QED
      BY <2>1, <2>2 DEF Entries
  <1> QED
    BY <1>1, <1>2

\* The fields of an entry.
LEMMA EntryFields ==
  ASSUME CacheTyped, NEW n \in Nodes, NEW v \in Versions, NEW u \in Usernames
  PROVE  /\ entry[n][v][u].until \in Nat
         /\ entry[n][v][u].asOf \in Nat /\ entry[n][v][u].setAt \in Nat
  <1>1. entry[n][v][u] \in Entries
    BY DEF CacheTyped
  <1> QED
    BY <1>1 DEF Entries

\* The entry a check writes.
Fresh(q) == [perms |-> reader[q].perms, until |-> now + Ttl, asOf |-> reader[q].asOf, setAt |-> epoch]

\* What Store does to the caches: it writes one entry or leaves them alone.
LEMMA StoreEffect ==
  ASSUME CacheTyped, NEW q \in Readers, Store(q)
  PROVE  /\ entry' \in [Nodes -> [Versions -> [Usernames -> Entries]]]
         /\ \A m \in Nodes, k \in Versions, x \in Usernames :
               \/ entry'[m][k][x] = entry[m][k][x]
               \/ /\ m = reader[q].node /\ k = reader[q].key /\ x = reader[q].user
                  /\ entry'[m][k][x] = Fresh(q)
  <1>1. entry \in [Nodes -> [Versions -> [Usernames -> Entries]]]
    BY DEF CacheTyped
  <1>2. Fresh(q) \in Entries
    BY EntryTypes DEF Fresh
  <1>3. reader[q].node \in Nodes /\ reader[q].key \in Versions /\ reader[q].user \in Usernames
    BY DEF CacheTyped, Checks
  <1>4. \/ entry' = [entry EXCEPT ![reader[q].node][reader[q].key][reader[q].user] = Fresh(q)]
        \/ entry' = entry
    BY DEF Store, Fresh
  <1> DEFINE n == reader[q].node
             v == reader[q].key
             u == reader[q].user
             e == Fresh(q)
  <1>5. n \in Nodes /\ v \in Versions /\ u \in Usernames /\ e \in Entries
    BY <1>2, <1>3
  <1>6. entry' = [entry EXCEPT ![n][v][u] = e] \/ entry' = entry
    BY <1>4
  <1>7. SUFFICES /\ entry' \in [Nodes -> [Versions -> [Usernames -> Entries]]]
                 /\ \A m \in Nodes, k \in Versions, x \in Usernames :
                       \/ entry'[m][k][x] = entry[m][k][x]
                       \/ m = n /\ k = v /\ x = u /\ entry'[m][k][x] = e
    OBVIOUS
  <1> HIDE DEF n, v, u, e, Versions
  <1>8. [entry[n][v] EXCEPT ![u] = e] \in [Usernames -> Entries]
    BY <1>1, <1>5
  <1>9. [entry[n] EXCEPT ![v] = [entry[n][v] EXCEPT ![u] = e]] \in [Versions -> [Usernames -> Entries]]
    BY <1>1, <1>5, <1>8
  <1>10. CASE entry' = entry
    BY <1>1, <1>10
  <1>11. CASE entry' = [entry EXCEPT ![n][v][u] = e]
    <2>1. entry' = [entry EXCEPT ![n] = [entry[n] EXCEPT ![v] = [entry[n][v] EXCEPT ![u] = e]]]
      BY <1>1, <1>5, <1>11
    <2>2. entry' \in [Nodes -> [Versions -> [Usernames -> Entries]]]
      BY <1>1, <1>5, <1>9, <2>1
    <2>3. ASSUME NEW m \in Nodes, NEW k \in Versions, NEW x \in Usernames
          PROVE  \/ entry'[m][k][x] = entry[m][k][x]
                 \/ m = n /\ k = v /\ x = u /\ entry'[m][k][x] = e
      <3>1. CASE m # n
        BY <1>1, <2>1, <3>1
      <3>2. CASE m = n /\ k # v
        BY <1>1, <1>5, <2>1, <3>2
      <3>3. CASE m = n /\ k = v
        <4>1. entry'[m][k] = [entry[n][v] EXCEPT ![u] = e]
          BY <1>1, <1>5, <2>1, <3>3
        <4>2. entry[n][v] \in [Usernames -> Entries]
          BY <1>1, <1>5
        <4> QED
          BY <1>5, <3>3, <4>1, <4>2
      <3> QED
        BY <3>1, <3>2, <3>3
    <2> QED
      BY <2>2, <2>3
  <1> QED
    BY <1>6, <1>10, <1>11

------------------------------------------------------------------------------
\* Every variable of the cache keeps its type.
THEOREM CacheTypeCorrect == CacheSpec => []CacheTyped
  <1>1. CacheInit => CacheTyped
    <2>1. Missing \in Entries
      BY DEF Missing, Entries
    <2> QED
      BY <2>1, IdleTypes DEF CacheInit, CacheTyped
  <1>2. CacheTyped /\ [CacheNext]_cacheVars => CacheTyped'
    <2> SUFFICES ASSUME CacheTyped, [CacheNext]_cacheVars PROVE CacheTyped'
      OBVIOUS
    <2>1. CASE UNCHANGED cacheVars
      BY <2>1 DEF CacheTyped, cacheVars
    <2>2. ASSUME NEW q \in Readers, Check(q) PROVE CacheTyped'
      <3>0. reader[q] \in Checks
        BY DEF CacheTyped
      <3>1. ASSUME NEW n \in Nodes, NEW u \in Usernames, Begin(q, n, u) PROVE CacheTyped'
        <4>9. reader \in [Readers -> Checks] /\ now \in 0 .. MaxNow /\ acked \in [Nodes -> 0 .. MaxChanges]
          BY DEF CacheTyped
        <4>8. reader' \in [Readers -> Checks]
          BY <3>0, <3>1, <4>9 DEF Begin, Checks
        <4> QED
          BY <3>1, <4>8 DEF CacheTyped, Begin, unchangedByReader
      <3>2. CASE ReadVersion(q)
        <4>1. CurrentVersion(reader[q].node) \subseteq Versions
          BY <3>0 DEF CacheTyped, CurrentVersion, Checks
        <4>9. reader \in [Readers -> Checks] /\ now \in 0 .. MaxNow /\ acked \in [Nodes -> 0 .. MaxChanges]
          BY DEF CacheTyped
        <4>8. reader' \in [Readers -> Checks]
          <5>1. PICK v \in Versions :
                   reader' = [reader EXCEPT ![q].pc = "get", ![q].key = v,
                                 ![q].seen = IF v = version[reader[q].node] THEN @ ELSE 0]
            BY <3>2, <4>1 DEF ReadVersion
          <5>2. reader[q].seen \in 0 .. MaxChanges /\ 0 \in 0 .. MaxChanges
            BY <3>0, AuthorizationCacheAssumption DEF Checks
          <5> QED
            BY <3>0, <4>9, <5>1, <5>2 DEF Checks
        <4> QED
          BY <3>2, <4>8 DEF CacheTyped, ReadVersion, unchangedByReader
      <3>3. CASE Hit(q)
        <4>1. Cached(q) \in Entries
          BY <3>0 DEF CacheTyped, Cached, Checks
        <4>9. reader \in [Readers -> Checks] /\ now \in 0 .. MaxNow /\ acked \in [Nodes -> 0 .. MaxChanges]
          BY DEF CacheTyped
        <4>8. reader' \in [Readers -> Checks]
          BY <3>0, <3>3, <4>1, <4>9 DEF Hit, Checks, Entries
        <4> QED
          BY <3>3, <4>8 DEF CacheTyped, Hit, unchangedByReader
      <3>4. CASE Miss(q)
        <4>9. reader \in [Readers -> Checks] /\ now \in 0 .. MaxNow /\ acked \in [Nodes -> 0 .. MaxChanges]
          BY DEF CacheTyped
        <4>8. reader' \in [Readers -> Checks]
          <5>1. reader' = [reader EXCEPT ![q].pc = "load", ![q].key = 0] /\ 0 \in Versions
            BY <3>4 DEF Miss
          <5> QED
            BY <3>0, <4>9, <5>1 DEF Checks
        <4> QED
          BY <3>4, <4>8 DEF CacheTyped, Miss, unchangedByReader
      <3>5. CASE LoadPermissions(q)
        BY <3>0, <3>5 DEF CacheTyped, LoadPermissions, unchangedByReader, Checks
      <3>6. CASE ReadVersionAgain(q)
        <4>1. CurrentVersion(reader[q].node) \subseteq Versions
          BY <3>0 DEF CacheTyped, CurrentVersion, Checks
        <4>9. reader \in [Readers -> Checks] /\ now \in 0 .. MaxNow /\ acked \in [Nodes -> 0 .. MaxChanges]
          BY DEF CacheTyped
        <4>8. reader' \in [Readers -> Checks]
          <5>1. PICK v \in Versions : reader' = [reader EXCEPT ![q].pc = "set", ![q].key = v]
            BY <3>6, <4>1 DEF ReadVersionAgain
          <5> QED
            BY <3>0, <4>9, <5>1 DEF Checks
        <4> QED
          BY <3>6, <4>8 DEF CacheTyped, ReadVersionAgain, unchangedByReader
      <3>7. CASE Store(q)
        <4>1. entry' \in [Nodes -> [Versions -> [Usernames -> Entries]]]
          BY <3>7, StoreEffect
        <4>2. reader' \in [Readers -> Checks]
          BY <3>0, <3>7 DEF CacheTyped, Store, Checks
        <4> QED
          BY <3>7, <4>1, <4>2 DEF CacheTyped, Store, unchangedByReader
      <3>8. CASE EndCheck(q)
        BY <3>8, IdleTypes DEF CacheTyped, EndCheck, unchangedByReader
      <3> QED
        BY <2>2, <3>1, <3>2, <3>3, <3>4, <3>5, <3>6, <3>7, <3>8 DEF Check
    <2>3. ASSUME NEW w \in Writers, Change(w) PROVE CacheTyped'
      <3>0. writer[w] \in Changes
        BY DEF CacheTyped
      <3>1. ASSUME NEW n \in Nodes, NEW u \in Usernames, NEW perms \in SUBSET Registry,
                   Commit(w, n, u, perms)
            PROVE  CacheTyped'
        BY <3>1 DEF CacheTyped, Commit, Commits, Changes
      <3>2. CASE Invalidate(w)
        <4>1. acked' \in [Nodes -> 0 .. MaxChanges]
          <5>1. acked \in [Nodes -> 0 .. MaxChanges] /\ writer[w].change \in 0 .. MaxChanges
            BY <3>0 DEF CacheTyped, Changes
          <5> QED
            BY <3>2, <5>1 DEF Invalidate
        <4>2. issued' \in Versions /\ version' \in [Nodes -> Versions]
          <5>1. CASE UNCHANGED <<issued, version, acked>>
            BY <5>1 DEF CacheTyped
          <5>2. CASE /\ issued < MaxChanges
                     /\ issued' = issued + 1
                     /\ version' = [version EXCEPT ![writer[w].node] = issued + 1]
            <6>1. issued + 1 \in Versions
              BY <5>2 DEF CacheTyped
            <6> QED
              BY <5>2, <6>1 DEF CacheTyped
          <5> QED
            BY <3>2, <5>1, <5>2 DEF Invalidate
        <4> QED
          BY <3>2, <4>1, <4>2, IdleTypes DEF CacheTyped, Invalidate
      <3>3. CASE DropWriter(w)
        BY <3>3, IdleTypes DEF CacheTyped, DropWriter
      <3> QED
        BY <2>3, <3>1, <3>2, <3>3 DEF Change
    <2>4. ASSUME NEW u \in Usernames, NEW perms \in SUBSET Registry, CommitQuietly(u, perms)
          PROVE  CacheTyped'
      BY <2>4 DEF CacheTyped, CommitQuietly, Commits
    <2>5. CASE Tick
      <3>1. \A n \in Nodes, v \in Versions, u \in Usernames :
               (IF now' < entry[n][v][u].until THEN entry[n][v][u] ELSE Missing) \in Entries
        BY EntryTypes DEF CacheTyped
      <3> QED
        BY <2>5, <3>1 DEF CacheTyped, Tick
    <2> QED
      BY <2>1, <2>2, <2>3, <2>4, <2>5 DEF CacheNext
  <1> QED
    BY <1>1, <1>2, PTL DEF CacheSpec

------------------------------------------------------------------------------
\* A check lives no longer than RequestTimeout.
CheckAge ==
    \A q \in Readers : reader[q].pc # "idle" =>
        reader[q].since <= now /\ now <= reader[q].since + RequestTimeout

\* Permissions a check holds that are no longer the user's were changed since it began.
HeldInv ==
    \A q \in Readers :
        reader[q].pc \in {"restamp", "set"} /\ reader[q].perms # granted[reader[q].user] =>
            reader[q].since <= changed[reader[q].user]

\* A live entry that is no longer right expires within Ttl + RequestTimeout of the change.
EntryInv ==
    \A n \in Nodes, v \in Versions, u \in Usernames :
        /\ entry[n][v][u].until <= now + Ttl
        /\ now < entry[n][v][u].until /\ entry[n][v][u].perms # granted[u] =>
              entry[n][v][u].until <= changed[u] + Ttl + RequestTimeout

StaleInv == CheckAge /\ HeldInv /\ EntryInv

\* The inductive invariant behind StaleAnswersExpire holds at first.
LEMMA StaleInit == CacheInit => StaleInv
  BY DEF CacheInit, StaleInv, CheckAge, HeldInv, EntryInv, NoCheck, Missing

\* A check keeps it.
LEMMA StaleCheck ==
  ASSUME CacheTyped, CacheTyped', StaleInv, NEW q \in Readers, Check(q)
  PROVE  StaleInv'
  <1>0. reader[q] \in Checks /\ reader \in [Readers -> Checks] /\ now \in Nat
    BY DEF CacheTyped
  <1>1. ASSUME entry' = entry, UNCHANGED unchangedByReader
        PROVE  EntryInv'
    BY <1>1 DEF StaleInv, EntryInv, unchangedByReader
  <1>2. ASSUME NEW n \in Nodes, NEW u \in Usernames, Begin(q, n, u) PROVE StaleInv'
    <2>1. CheckAge' /\ HeldInv'
      BY <1>0, <1>2 DEF Begin, unchangedByReader, StaleInv, CheckAge, HeldInv, Checks
    <2> QED
      BY <1>1, <1>2, <2>1 DEF Begin, StaleInv
  <1>3. ASSUME ReadVersion(q) \/ ReadVersionAgain(q) PROVE StaleInv'
    <2>1. /\ reader[q].pc # "idle"
          /\ reader'[q].pc \in {"restamp", "set"} => reader[q].pc = "restamp"
          /\ reader'[q].since = reader[q].since /\ reader'[q].perms = reader[q].perms
          /\ reader'[q].user = reader[q].user
          /\ \A r \in Readers : r # q => reader'[r] = reader[r]
      <3>1. CASE ReadVersion(q)
        <4>1. PICK v : reader' = [reader EXCEPT ![q].pc = "get", ![q].key = v,
                           ![q].seen = IF v = version[reader[q].node] THEN @ ELSE 0]
          BY <3>1 DEF ReadVersion
        <4>2. reader[q].pc = "key"
          BY <3>1 DEF ReadVersion
        <4> QED
          BY <1>0, <4>1, <4>2 DEF Checks
      <3>2. CASE ReadVersionAgain(q)
        BY <1>0, <3>2 DEF ReadVersionAgain, Checks
      <3> QED
        BY <1>3, <3>1, <3>2
    <2>2. UNCHANGED <<unchangedByReader, entry>>
      BY <1>3 DEF ReadVersion, ReadVersionAgain
    <2>3. CheckAge' /\ HeldInv'
      BY <2>1, <2>2 DEF unchangedByReader, StaleInv, CheckAge, HeldInv
    <2> QED
      BY <1>1, <2>2, <2>3 DEF StaleInv
  <1>4. ASSUME Hit(q) \/ Miss(q) \/ EndCheck(q) PROVE StaleInv'
    <2>1. /\ reader'[q].pc \notin {"restamp", "set"}
          /\ reader'[q].pc # "idle" => reader[q].pc # "idle" /\ reader'[q].since = reader[q].since
          /\ \A r \in Readers : r # q => reader'[r] = reader[r]
      BY <1>0, <1>4 DEF Hit, Miss, EndCheck, Checks, NoCheck
    <2>2. UNCHANGED <<unchangedByReader, entry>>
      BY <1>4 DEF Hit, Miss, EndCheck
    <2>3. CheckAge' /\ HeldInv'
      BY <2>1, <2>2 DEF unchangedByReader, StaleInv, CheckAge, HeldInv
    <2> QED
      BY <1>1, <2>2, <2>3 DEF StaleInv
  <1>5. CASE LoadPermissions(q)
    <2>1. /\ reader[q].pc = "load" /\ reader'[q].since = reader[q].since
          /\ reader'[q].perms = granted[reader'[q].user]
          /\ \A r \in Readers : r # q => reader'[r] = reader[r]
      BY <1>0, <1>5 DEF LoadPermissions, Checks
    <2>2. UNCHANGED <<unchangedByReader, entry>>
      BY <1>5 DEF LoadPermissions
    <2>3. CheckAge' /\ HeldInv'
      BY <2>1, <2>2 DEF unchangedByReader, StaleInv, CheckAge, HeldInv
    <2> QED
      BY <1>1, <2>2, <2>3 DEF StaleInv
  <1>6. CASE Store(q)
    <2>1. /\ reader[q].pc = "set" /\ reader'[q].pc = "answered"
          /\ reader'[q].since = reader[q].since
          /\ \A r \in Readers : r # q => reader'[r] = reader[r]
      BY <1>0, <1>6 DEF Store, Checks
    <2>2. UNCHANGED unchangedByReader
      BY <1>6 DEF Store
    <2>3. CheckAge' /\ HeldInv'
      BY <2>1, <2>2 DEF unchangedByReader, StaleInv, CheckAge, HeldInv
    <2>4. ASSUME NEW n \in Nodes, NEW v \in Versions, NEW u \in Usernames
          PROVE  (/\ entry[n][v][u].until <= now + Ttl
                  /\ now < entry[n][v][u].until /\ entry[n][v][u].perms # granted[u] =>
                        entry[n][v][u].until <= changed[u] + Ttl + RequestTimeout)'
      <3>1. CASE entry'[n][v][u] = entry[n][v][u]
        BY <2>2, <3>1 DEF StaleInv, EntryInv, unchangedByReader
      <3>2. CASE u = reader[q].user /\ entry'[n][v][u] = Fresh(q)
        <4>1. entry'[n][v][u].until = now + Ttl /\ entry'[n][v][u].perms = reader[q].perms
          BY <3>2 DEF Fresh
        <4>2. reader[q].perms # granted[u] => reader[q].since <= changed[u]
          BY <2>1, <3>2 DEF StaleInv, HeldInv
        <4>3. now <= reader[q].since + RequestTimeout
          BY <2>1 DEF StaleInv, CheckAge
        <4>4. changed[u] \in Int /\ reader[q].since \in Int
          BY <1>0 DEF CacheTyped, Checks
        <4> QED
          BY <1>0, <2>2, <4>1, <4>2, <4>3, <4>4 DEF unchangedByReader
      <3> QED
        BY <1>6, <3>1, <3>2, StoreEffect
    <2> QED
      BY <2>3, <2>4 DEF StaleInv, EntryInv
  <1> QED
    BY <1>2, <1>3, <1>4, <1>5, <1>6 DEF Check

\* So does a committed change: what it makes wrong is younger than the bound.
LEMMA StaleCommit ==
  ASSUME CacheTyped, StaleInv, NEW u \in Usernames, NEW perms \in SUBSET Registry, Commits(u, perms),
         UNCHANGED <<now, entry, reader>>
  PROVE  StaleInv'
  <1>1. /\ granted \in [Usernames -> SUBSET Registry] /\ changed \in [Usernames -> -1 .. MaxNow]
        /\ reader \in [Readers -> Checks] /\ now \in Nat
    BY DEF CacheTyped
  <1>2. /\ \A x \in Usernames : x # u => granted'[x] = granted[x] /\ changed'[x] = changed[x]
        /\ changed'[u] = now
    BY <1>1 DEF Commits
  <1>3. \A q \in Readers : reader[q].user \in Usernames
    BY <1>1 DEF Checks
  <1>4. HeldInv'
    <2> SUFFICES ASSUME NEW q \in Readers, reader[q].pc \in {"restamp", "set"},
                        reader[q].perms # granted'[reader[q].user]
                 PROVE  reader[q].since <= changed'[reader[q].user]
      BY DEF HeldInv
    <2>1. CASE reader[q].user = u
      BY <1>2, <2>1 DEF StaleInv, CheckAge
    <2>2. CASE reader[q].user # u
      BY <1>2, <1>3, <2>2 DEF StaleInv, HeldInv
    <2> QED
      BY <2>1, <2>2
  <1>5. EntryInv'
    <2> SUFFICES ASSUME NEW n \in Nodes, NEW v \in Versions, NEW x \in Usernames
                 PROVE  /\ entry[n][v][x].until <= now + Ttl
                        /\ now < entry[n][v][x].until /\ entry[n][v][x].perms # granted'[x] =>
                              entry[n][v][x].until <= changed'[x] + Ttl + RequestTimeout
      BY DEF EntryInv
    <2>1. entry[n][v][x].until \in Int
      BY EntryFields
    <2>2. CASE x = u
      BY <1>1, <1>2, <2>1, <2>2 DEF StaleInv, EntryInv
    <2>3. CASE x # u
      BY <1>2, <2>3 DEF StaleInv, EntryInv
    <2> QED
      BY <2>2, <2>3
  <1> QED
    BY <1>4, <1>5 DEF StaleInv, CheckAge

\* So does every step.
LEMMA StaleNext == CacheTyped /\ CacheTyped' /\ StaleInv /\ [CacheNext]_cacheVars => StaleInv'
  <1> SUFFICES ASSUME CacheTyped, CacheTyped', StaleInv, [CacheNext]_cacheVars PROVE StaleInv'
    OBVIOUS
  <1>1. CASE UNCHANGED cacheVars
    BY <1>1 DEF cacheVars, StaleInv, CheckAge, HeldInv, EntryInv
  <1>2. ASSUME NEW q \in Readers, Check(q) PROVE StaleInv'
    BY <1>2, StaleCheck
  <1>3. ASSUME NEW w \in Writers, Change(w) PROVE StaleInv'
    <2>1. ASSUME NEW n \in Nodes, NEW u \in Usernames, NEW perms \in SUBSET Registry,
                 Commit(w, n, u, perms)
          PROVE  StaleInv'
      BY <2>1, StaleCommit DEF Commit
    <2>2. ASSUME Invalidate(w) \/ DropWriter(w) PROVE StaleInv'
      <3>1. UNCHANGED <<now, granted, entry, reader, changed>>
        BY <2>2 DEF Invalidate, DropWriter
      <3> QED
        BY <3>1 DEF StaleInv, CheckAge, HeldInv, EntryInv
    <2> QED
      BY <1>3, <2>1, <2>2 DEF Change
  <1>4. ASSUME NEW u \in Usernames, NEW perms \in SUBSET Registry, CommitQuietly(u, perms)
        PROVE  StaleInv'
    BY <1>4, StaleCommit DEF CommitQuietly
  <1>5. CASE Tick
    <2>0. now \in Nat /\ reader \in [Readers -> Checks] /\ UNCHANGED <<reader, granted, changed>>
      BY <1>5 DEF CacheTyped, Tick
    <2>1. CheckAge' /\ HeldInv'
      BY <1>5, <2>0 DEF Tick, StaleInv, CheckAge, HeldInv, Checks
    <2>2. ASSUME NEW n \in Nodes, NEW v \in Versions, NEW u \in Usernames
          PROVE  (/\ entry[n][v][u].until <= now + Ttl
                  /\ now < entry[n][v][u].until /\ entry[n][v][u].perms # granted[u] =>
                        entry[n][v][u].until <= changed[u] + Ttl + RequestTimeout)'
      <3>1. entry[n][v][u].until \in Int
        BY EntryFields
      <3>2. now' = now + 1
        BY <1>5 DEF Tick
      <3>3. entry'[n][v][u] = entry[n][v][u] \/ entry'[n][v][u] = Missing
        BY <1>5 DEF Tick
      <3>4. CASE entry'[n][v][u] = entry[n][v][u]
        BY <2>0, <3>1, <3>2, <3>4 DEF StaleInv, EntryInv
      <3>5. CASE entry'[n][v][u] = Missing
        BY <2>0, <3>2, <3>5 DEF Missing
      <3> QED
        BY <3>3, <3>4, <3>5
    <2> QED
      BY <2>1, <2>2 DEF StaleInv, EntryInv
  <1> QED
    BY <1>1, <1>2, <1>3, <1>4, <1>5 DEF CacheNext

\* A check is answered by a hit or after a store.
LEMMA AnswerSteps ==
  ASSUME CacheTyped, [CacheNext]_cacheVars, NEW q \in Readers, Answering(q)
  PROVE  Hit(q) \/ Store(q)
  <1>0. reader \in [Readers -> Checks] /\ reader[q] \in Checks
    BY DEF CacheTyped
  <1>1. ~UNCHANGED reader
    BY DEF Answering
  <1>2. ~UNCHANGED cacheVars /\ ~Tick /\ \A w \in Writers : ~Change(w)
    <2>1. ~UNCHANGED cacheVars /\ ~Tick
      BY <1>1 DEF cacheVars, Tick
    <2>2. ASSUME NEW w \in Writers PROVE ~Invalidate(w) /\ ~DropWriter(w)
      BY <1>1 DEF Invalidate, DropWriter
    <2>3. ASSUME NEW w \in Writers, NEW n \in Nodes, NEW u \in Usernames,
                 NEW perms \in SUBSET Registry
          PROVE  ~Commit(w, n, u, perms)
      BY <1>1 DEF Commit
    <2> QED
      BY <2>1, <2>2, <2>3 DEF Change
  <1>3. \A u \in Usernames, perms \in SUBSET Registry : ~CommitQuietly(u, perms)
    BY <1>1 DEF CommitQuietly
  <1>4. PICK r \in Readers : Check(r)
    BY <1>2, <1>3 DEF CacheNext
  <1>5. \A s \in Readers : s # r => reader'[s] = reader[s]
    <2>1. ASSUME NEW n \in Nodes, NEW u \in Usernames, Begin(r, n, u)
          PROVE  \A s \in Readers : s # r => reader'[s] = reader[s]
      BY <1>0, <2>1 DEF Begin
    <2>2. ASSUME ReadVersion(r) \/ Hit(r) \/ Miss(r) \/ LoadPermissions(r)
          PROVE  \A s \in Readers : s # r => reader'[s] = reader[s]
      BY <1>0, <2>2 DEF ReadVersion, Hit, Miss, LoadPermissions
    <2>3. ASSUME ReadVersionAgain(r) \/ Store(r) \/ EndCheck(r)
          PROVE  \A s \in Readers : s # r => reader'[s] = reader[s]
      BY <1>0, <2>3 DEF ReadVersionAgain, Store, EndCheck
    <2> QED
      BY <1>4, <2>1, <2>2, <2>3 DEF Check
  <1>6. r = q
    BY <1>5 DEF Answering
  <1>7. ~(\E n \in Nodes, u \in Usernames : Begin(q, n, u))
    <2>1. ASSUME NEW n \in Nodes, NEW u \in Usernames, Begin(q, n, u)
          PROVE  reader'[q].pc = "key"
      BY <1>0, <2>1 DEF Begin, Checks
    <2> QED
      BY <2>1 DEF Answering
  <1>8. ~ReadVersion(q) /\ ~Miss(q) /\ ~LoadPermissions(q) /\ ~ReadVersionAgain(q) /\ ~EndCheck(q)
    <2>1. ASSUME ReadVersion(q) PROVE reader'[q].pc = "get"
      <3>1. PICK v : reader' = [reader EXCEPT ![q].pc = "get", ![q].key = v,
                         ![q].seen = IF v = version[reader[q].node] THEN @ ELSE 0]
        BY <2>1 DEF ReadVersion
      <3> QED
        BY <1>0, <3>1 DEF Checks
    <2>2. ~Miss(q) /\ ~LoadPermissions(q) /\ ~ReadVersionAgain(q) /\ ~EndCheck(q)
      BY <1>0 DEF Answering, Miss, LoadPermissions, ReadVersionAgain, EndCheck, NoCheck, Checks
    <2> QED
      BY <2>1, <2>2 DEF Answering
  <1> QED
    BY <1>4, <1>6, <1>7, <1>8 DEF Check

\* A step that answers a check obeys the bound.
LEMMA StaleStep ==
  ASSUME CacheTyped, StaleInv, [CacheNext]_cacheVars, NEW q \in Readers, Answering(q),
         reader'[q].perms # granted[reader'[q].user]
  PROVE  now - changed[reader'[q].user] < Ttl + RequestTimeout
  <1>0. /\ reader \in [Readers -> Checks] /\ reader[q] \in Checks /\ now \in Nat
        /\ reader[q].user \in Usernames /\ changed[reader[q].user] \in Int /\ reader[q].since \in Int
    BY DEF CacheTyped, Checks
  <1>1. Hit(q) \/ Store(q)
    BY AnswerSteps
  <1>2. CASE Hit(q)
    <2>1. reader'[q].perms = Cached(q).perms /\ reader'[q].user = reader[q].user
      BY <1>0, <1>2 DEF Hit, Checks
    <2>2. reader[q].node \in Nodes /\ reader[q].key \in Versions
      BY <1>0 DEF Checks
    <2>3. Cached(q).until \in Nat
      BY <1>0, <2>2, EntryFields DEF Cached
    <2>4. now < Cached(q).until
      BY <1>2 DEF Hit, Live
    <2>5. Cached(q).until <= changed[reader[q].user] + Ttl + RequestTimeout
      BY <1>0, <2>1, <2>2, <2>4 DEF StaleInv, EntryInv, Cached
    <2> QED
      BY <1>0, <2>1, <2>3, <2>4, <2>5
  <1>3. CASE Store(q)
    <2>1. /\ reader[q].pc = "set"
          /\ reader'[q].perms = reader[q].perms /\ reader'[q].user = reader[q].user
      BY <1>0, <1>3 DEF Store, Checks
    <2>2. reader[q].since <= changed[reader[q].user] /\ now <= reader[q].since + RequestTimeout
      BY <2>1 DEF StaleInv, HeldInv, CheckAge
    <2> QED
      BY <1>0, <2>1, <2>2
  <1> QED
    BY <1>1, <1>2, <1>3

\* CachedAuthorization::require: whatever fails, races or is never invalidated, an answer that
\* differs from the database is given only within Ttl + RequestTimeout of a change.
THEOREM StaleAnswersBounded == CacheSpec => StaleAnswersExpire
  <1>1. CacheTyped /\ StaleInv /\ [CacheNext]_cacheVars =>
          [\A q \in Readers :
             LET u == reader'[q].user IN
             Answering(q) /\ reader'[q].perms # granted[u] => now - changed[u] < Ttl + RequestTimeout]_cacheVars
    BY StaleStep
  <1> QED
    BY <1>1, CacheTypeCorrect, StaleInit, StaleNext, PTL DEF CacheSpec, StaleAnswersExpire

------------------------------------------------------------------------------
\* Changes are committed before they return, and versions are issued before they are used.
OrderInv ==
    /\ \A n \in Nodes : acked[n] <= epoch
    /\ \A w \in Writers : writer[w].pc = "invalidate" => writer[w].change <= epoch
    /\ \A n \in Nodes : version[n] <= issued
    /\ \A q \in Readers : reader[q].key <= issued /\ reader[q].seen <= acked[reader[q].node]

\* An entry that no change overtook while it was written.
Sound(e) == 0 < e.until /\ e.asOf = e.setAt

\* No cache holds an entry under a version that is still to be issued, and the entries under the
\* current version reflect every change that has invalidated the cache.
VersionInv ==
    \A n \in Nodes, v \in Versions, u \in Usernames :
        /\ issued < v => entry[n][v][u].until = 0
        /\ v = version[n] /\ Sound(entry[n][v][u]) => acked[n] <= entry[n][v][u].asOf

\* What a check is about to be served, or has loaded, reflects the changes of its cache before it.
SeenInv ==
    \A q \in Readers :
        /\ reader[q].pc = "get" =>
              (Sound(Cached(q)) => reader[q].seen <= Cached(q).asOf)
        /\ reader[q].pc \in {"restamp", "set"} => reader[q].seen <= reader[q].asOf

ReturnedInv == OrderInv /\ VersionInv /\ SeenInv

\* The inductive invariant behind InvalidatedChangesAreSeen holds at first.
LEMMA ReturnedInit == CacheInit => ReturnedInv
  <1> SUFFICES ASSUME CacheInit PROVE ReturnedInv
    OBVIOUS
  <1>1. OrderInv
    <2>1. \A q \in Readers : reader[q].node \in Nodes /\ reader[q].key = 0 /\ reader[q].seen = 0
      <3>1. NoCheck.node \in Nodes /\ NoCheck.key = 0 /\ NoCheck.seen = 0
        BY IdleTypes DEF Checks, NoCheck
      <3> QED
        BY <3>1 DEF CacheInit
    <2>2. /\ issued = 0 /\ epoch = 0 /\ \A n \in Nodes : acked[n] = 0 /\ version[n] = 0
          /\ \A w \in Writers : writer[w].pc = "idle"
      BY DEF CacheInit, NoChange
    <2> QED
      BY <2>1, <2>2 DEF OrderInv
  <1>2. VersionInv /\ SeenInv
    BY DEF CacheInit, VersionInv, SeenInv, NoCheck, Missing, Sound, Cached
  <1> QED
    BY <1>1, <1>2 DEF ReturnedInv

\* The fields of a check.
LEMMA CheckFields ==
  ASSUME CacheTyped, NEW q \in Readers
  PROVE  /\ reader \in [Readers -> Checks] /\ reader[q] \in Checks
         /\ reader[q].node \in Nodes /\ reader[q].key \in Versions /\ reader[q].user \in Usernames
         /\ reader[q].seen \in Nat /\ reader[q].asOf \in Nat
  BY DEF CacheTyped, Checks

\* A check keeps it.
LEMMA ReturnedCheck ==
  ASSUME CacheTyped, CacheTyped', ReturnedInv, NEW q \in Readers, Check(q)
  PROVE  ReturnedInv'
  <1>0. /\ reader \in [Readers -> Checks] /\ reader[q] \in Checks
        /\ issued \in Nat /\ epoch \in Nat /\ version \in [Nodes -> Versions]
        /\ acked \in [Nodes -> Nat]
    BY DEF CacheTyped
  <1>1. \A n \in Nodes : \A v \in CurrentVersion(n) : v \in {0, version[n]}
    BY DEF CurrentVersion
  <1>2. ASSUME UNCHANGED <<unchangedByReader, entry>>,
               \A r \in Readers : r # q => reader'[r] = reader[r],
               reader'[q].key <= issued, reader'[q].seen <= acked[reader'[q].node],
               reader'[q].pc = "get" => (Sound(Cached(q)) => reader[q].seen <= Cached(q).asOf)',
               reader'[q].pc \in {"restamp", "set"} => reader'[q].seen <= reader'[q].asOf
        PROVE  ReturnedInv'
    <2>1. OrderInv'
      BY <1>2 DEF unchangedByReader, ReturnedInv, OrderInv
    <2>2. VersionInv'
      BY <1>2 DEF unchangedByReader, ReturnedInv, VersionInv, Sound
    <2>3. ASSUME NEW r \in Readers
          PROVE  (/\ reader[r].pc = "get" =>
                       (Sound(Cached(r)) => reader[r].seen <= Cached(r).asOf)
                  /\ reader[r].pc \in {"restamp", "set"} => reader[r].seen <= reader[r].asOf)'
      <3>1. CASE r = q
        BY <1>2, <3>1
      <3>2. CASE r # q
        BY <1>2, <3>2 DEF unchangedByReader, ReturnedInv, SeenInv, Sound, Cached
      <3> QED
        BY <3>1, <3>2
    <2>4. SeenInv'
      BY <2>3 DEF SeenInv
    <2> QED
      BY <2>1, <2>2, <2>4 DEF ReturnedInv
  <1>3. ASSUME NEW n \in Nodes, NEW u \in Usernames, Begin(q, n, u) PROVE ReturnedInv'
    <2>1. /\ reader'[q].key = reader[q].key /\ reader'[q].seen = acked[n] /\ reader'[q].pc = "key"
          /\ reader'[q].node = n
          /\ \A r \in Readers : r # q => reader'[r] = reader[r]
      BY <1>0, <1>3 DEF Begin, Checks
    <2>2. reader'[q].key <= issued /\ reader'[q].seen <= acked[reader'[q].node]
      BY <1>0, <2>1 DEF ReturnedInv, OrderInv
    <2>3. UNCHANGED <<unchangedByReader, entry>>
      BY <1>3 DEF Begin
    <2> QED
      BY <1>2, <2>1, <2>2, <2>3
  <1>4. CASE ReadVersion(q)
    <2> DEFINE n == reader[q].node
               u == reader[q].user
    <2>0. n \in Nodes /\ u \in Usernames /\ version[n] \in Versions /\ acked[n] \in Nat
      BY <1>0, CheckFields
    <2>1. PICK v \in CurrentVersion(n) :
             reader' = [reader EXCEPT ![q].pc = "get", ![q].key = v,
                                      ![q].seen = IF v = version[n] THEN @ ELSE 0]
      BY <1>4 DEF ReadVersion
    <2>2. /\ reader'[q].pc = "get" /\ reader'[q].key = v /\ reader'[q].node = n
          /\ reader'[q].user = u
          /\ reader'[q].seen = IF v = version[n] THEN reader[q].seen ELSE 0
          /\ \A r \in Readers : r # q => reader'[r] = reader[r]
      BY <1>0, <2>1 DEF Checks
    <2>3. UNCHANGED <<unchangedByReader, entry>>
      BY <1>4 DEF ReadVersion
    <2>4. v \in {0, version[n]} /\ v \in Versions
      <3>1. v \in {0, version[n]}
        BY <1>1, <2>0, <2>1
      <3>2. 0 \in Versions
        BY AuthorizationCacheAssumption DEF Versions
      <3> QED
        BY <2>0, <3>1, <3>2
    <2>5. reader'[q].key <= issued /\ reader'[q].seen <= acked[reader'[q].node]
      BY <1>0, <2>0, <2>2, <2>4, CheckFields DEF ReturnedInv, OrderInv
    <2>6. (Sound(Cached(q)) => reader[q].seen <= Cached(q).asOf)'
      <3>1. Cached(q)' = entry[n][v][u]
        BY <2>2, <2>3 DEF Cached
      <3>2. entry[n][v][u].asOf \in Nat /\ reader[q].seen \in Nat /\ reader[q].seen <= acked[n]
        BY <2>0, <2>4, CheckFields, EntryFields DEF ReturnedInv, OrderInv
      <3>3. CASE v = version[n]
        <4>1. Sound(entry[n][v][u]) => acked[n] <= entry[n][v][u].asOf
          BY <2>0, <3>3 DEF ReturnedInv, VersionInv
        <4> QED
          <5>1. reader'[q].seen <= acked[n] /\ reader'[q].seen \in Nat
            BY <2>2, <3>2, <3>3
          <5> QED
            BY <2>0, <3>1, <3>2, <4>1, <5>1 DEF Sound
      <3>4. CASE v # version[n]
        BY <2>2, <3>1, <3>2, <3>4 DEF Sound
      <3> QED
        BY <3>3, <3>4
    <2> QED
      BY <1>2, <2>2, <2>3, <2>5, <2>6
  <1>5. ASSUME Hit(q) \/ Miss(q) \/ EndCheck(q) PROVE ReturnedInv'
    <2>1. /\ reader'[q].pc \notin {"get", "restamp", "set"}
          /\ reader'[q].key \in {0, reader[q].key}
          /\ \/ reader'[q].seen = 0
             \/ reader'[q].seen = reader[q].seen /\ reader'[q].node = reader[q].node
          /\ \A r \in Readers : r # q => reader'[r] = reader[r]
      BY <1>0, <1>5 DEF Hit, Miss, EndCheck, Checks, NoCheck
    <2>2. reader'[q].key <= issued /\ reader'[q].seen <= acked[reader'[q].node]
      <3>1. reader'[q].node \in Nodes
        BY DEF CacheTyped, Checks
      <3> QED
        BY <1>0, <2>1, <3>1 DEF ReturnedInv, OrderInv
    <2>3. UNCHANGED <<unchangedByReader, entry>>
      BY <1>5 DEF Hit, Miss, EndCheck
    <2> QED
      BY <1>2, <2>1, <2>2, <2>3
  <1>6. CASE LoadPermissions(q)
    <2>1. /\ reader'[q].pc = "restamp" /\ reader'[q].key = reader[q].key
          /\ reader'[q].seen = reader[q].seen /\ reader'[q].asOf = epoch
          /\ reader'[q].node = reader[q].node
          /\ \A r \in Readers : r # q => reader'[r] = reader[r]
      BY <1>0, <1>6 DEF LoadPermissions, Checks
    <2>2. /\ reader'[q].key <= issued /\ reader'[q].seen <= acked[reader'[q].node]
          /\ reader'[q].seen <= reader'[q].asOf
      BY <1>0, <2>1, CheckFields DEF ReturnedInv, OrderInv
    <2>3. UNCHANGED <<unchangedByReader, entry>>
      BY <1>6 DEF LoadPermissions
    <2> QED
      BY <1>2, <2>1, <2>2, <2>3
  <1>7. CASE ReadVersionAgain(q)
    <2>1. PICK v \in CurrentVersion(reader[q].node) :
             reader' = [reader EXCEPT ![q].pc = "set", ![q].key = v]
      BY <1>7 DEF ReadVersionAgain
    <2>2. /\ reader'[q].pc = "set" /\ reader'[q].key = v /\ v \in {0, version[reader[q].node]}
          /\ reader'[q].seen = reader[q].seen /\ reader'[q].asOf = reader[q].asOf
          /\ reader'[q].node = reader[q].node
          /\ \A r \in Readers : r # q => reader'[r] = reader[r]
      BY <1>0, <1>1, <2>1, CheckFields DEF Checks
    <2>3. reader[q].pc = "restamp" /\ UNCHANGED <<unchangedByReader, entry>>
      BY <1>7 DEF ReadVersionAgain
    <2>4. /\ reader'[q].key <= issued /\ reader'[q].seen <= acked[reader'[q].node]
          /\ reader'[q].seen <= reader'[q].asOf
      BY <1>0, <2>2, <2>3, CheckFields DEF ReturnedInv, OrderInv, SeenInv
    <2> QED
      BY <1>2, <2>2, <2>3, <2>4
  <1>8. CASE Store(q)
    <2>1. /\ reader[q].pc = "set" /\ reader'[q].pc = "answered" /\ reader'[q].key = reader[q].key
          /\ reader'[q].seen = reader[q].seen /\ reader'[q].node = reader[q].node
          /\ \A r \in Readers : r # q => reader'[r] = reader[r]
      BY <1>0, <1>8 DEF Store, Checks
    <2>2. UNCHANGED unchangedByReader
      BY <1>8 DEF Store
    <2>3. OrderInv'
      BY <2>1, <2>2 DEF unchangedByReader, ReturnedInv, OrderInv
    <2>4. ASSUME NEW n \in Nodes, NEW v \in Versions, NEW u \in Usernames
          PROVE  \/ entry'[n][v][u] = entry[n][v][u]
                 \/ /\ v <= issued
                    /\ Sound(entry'[n][v][u]) => entry'[n][v][u].asOf = epoch
      <3>1. CASE v = reader[q].key /\ entry'[n][v][u] = Fresh(q)
        BY <3>1 DEF Fresh, Sound, ReturnedInv, OrderInv
      <3> QED
        BY <1>8, <3>1, StoreEffect
    <2>5. ASSUME NEW n \in Nodes, NEW v \in Versions, NEW u \in Usernames
          PROVE  (/\ issued < v => entry[n][v][u].until = 0
                  /\ v = version[n] /\ Sound(entry[n][v][u]) => acked[n] <= entry[n][v][u].asOf)'
      <3>1. UNCHANGED <<issued, version, acked, epoch>>
        BY <2>2 DEF unchangedByReader
      <3>2. CASE entry'[n][v][u] = entry[n][v][u]
        BY <3>1, <3>2 DEF ReturnedInv, VersionInv, Sound
      <3>3. CASE v <= issued /\ (Sound(entry'[n][v][u]) => entry'[n][v][u].asOf = epoch)
        <4>1. v \in Nat /\ issued \in Nat /\ ~(issued < v)
          BY <1>0, <3>3 DEF Versions
        <4>2. acked[n] <= epoch
          BY DEF ReturnedInv, OrderInv
        <4> QED
          BY <3>1, <3>3, <4>1, <4>2 DEF Sound
      <3> QED
        BY <2>4, <3>2, <3>3
    <2>6. ASSUME NEW r \in Readers
          PROVE  (/\ reader[r].pc = "get" =>
                       (Sound(Cached(r)) => reader[r].seen <= Cached(r).asOf)
                  /\ reader[r].pc \in {"restamp", "set"} => reader[r].seen <= reader[r].asOf)'
      <3>1. CASE r = q
        BY <2>1, <3>1
      <3>2. CASE r # q
        <4>1. reader'[r] = reader[r]
          BY <2>1, <3>2
        <4>2. \/ Cached(r)' = Cached(r)
              \/ Sound(Cached(r)') => Cached(r)'.asOf = epoch
          BY <2>4, <4>1, CheckFields DEF Cached
        <4>3. reader[r].seen <= epoch
          BY <1>0, CheckFields DEF ReturnedInv, OrderInv
        <4> QED
          BY <4>1, <4>2, <4>3 DEF ReturnedInv, SeenInv, Sound
      <3> QED
        BY <3>1, <3>2
    <2> QED
      BY <2>3, <2>5, <2>6 DEF ReturnedInv, VersionInv, SeenInv
  <1> QED
    BY <1>3, <1>4, <1>5, <1>6, <1>7, <1>8 DEF Check

\* So does every step of the others.
LEMMA ReturnedNext == CacheTyped /\ CacheTyped' /\ ReturnedInv /\ [CacheNext]_cacheVars => ReturnedInv'
  <1> SUFFICES ASSUME CacheTyped, CacheTyped', ReturnedInv, [CacheNext]_cacheVars PROVE ReturnedInv'
    OBVIOUS
  <1>0. /\ issued \in Nat /\ epoch \in Nat /\ version \in [Nodes -> Versions]
        /\ acked \in [Nodes -> Nat]
        /\ writer \in [Writers -> Changes]
    BY DEF CacheTyped
  <1>1. CASE UNCHANGED cacheVars
    BY <1>1 DEF cacheVars, ReturnedInv, OrderInv, VersionInv, SeenInv, Cached, Sound
  <1>2. ASSUME NEW q \in Readers, Check(q) PROVE ReturnedInv'
    BY <1>2, ReturnedCheck
  <1>3. ASSUME UNCHANGED <<version, issued, entry, reader, acked>>
        PROVE  VersionInv' /\ SeenInv'
    BY <1>3 DEF ReturnedInv, VersionInv, SeenInv, Cached, Sound
  <1>4. ASSUME NEW w \in Writers, Change(w) PROVE ReturnedInv'
    <2>1. ASSUME NEW n \in Nodes, NEW u \in Usernames, NEW perms \in SUBSET Registry,
                 Commit(w, n, u, perms)
          PROVE  ReturnedInv'
      <3>1. epoch' = epoch + 1 /\ UNCHANGED <<version, issued, entry, reader, acked>>
        BY <2>1 DEF Commit, Commits
      <3>2. \A x \in Writers : writer'[x].pc = "invalidate" =>
               writer'[x].change = epoch + 1 \/ writer'[x] = writer[x]
        BY <1>0, <2>1 DEF Commit
      <3>3. \A x \in Writers : writer[x].change \in Nat
        BY <1>0 DEF Changes
      <3>4. OrderInv'
        BY <1>0, <3>1, <3>2, <3>3 DEF ReturnedInv, OrderInv
      <3> QED
        BY <1>3, <3>1, <3>4 DEF ReturnedInv
    <2>2. CASE DropWriter(w)
      <3>1. UNCHANGED <<version, issued, entry, reader, acked, epoch>>
        BY <2>2 DEF DropWriter
      <3>2. \A x \in Writers : writer'[x].pc = "invalidate" => writer'[x] = writer[x]
        BY <1>0, <2>2 DEF DropWriter, NoChange
      <3>3. OrderInv'
        BY <3>1, <3>2 DEF ReturnedInv, OrderInv
      <3> QED
        BY <1>3, <3>1, <3>3 DEF ReturnedInv
    <2>3. ASSUME Invalidate(w), UNCHANGED <<issued, version, acked>> PROVE ReturnedInv'
      <3>1. UNCHANGED <<version, issued, entry, reader, acked, epoch>>
        BY <2>3 DEF Invalidate
      <3>2. \A x \in Writers : writer'[x].pc = "invalidate" => writer'[x] = writer[x]
        BY <1>0, <2>3 DEF Invalidate, NoChange
      <3>3. OrderInv'
        BY <3>1, <3>2 DEF ReturnedInv, OrderInv
      <3> QED
        BY <1>3, <3>1, <3>3 DEF ReturnedInv
    <2>4. ASSUME Invalidate(w), ~UNCHANGED <<issued, version, acked>> PROVE ReturnedInv'
      <3> DEFINE m == writer[w].node
                 a == IF acked[m] < writer[w].change THEN writer[w].change ELSE acked[m]
      <3>1. /\ issued < MaxChanges
            /\ issued' = issued + 1
            /\ version' = [version EXCEPT ![m] = issued + 1]
            /\ acked' = [acked EXCEPT ![m] = a]
        BY <2>4 DEF Invalidate
      <3>2. writer[w].pc = "invalidate" /\ UNCHANGED <<entry, reader, epoch>>
        BY <2>4 DEF Invalidate
      <3>3. m \in Nodes /\ a \in Nat /\ acked[m] <= a /\ a <= epoch
        <4>1. m \in Nodes /\ writer[w].change <= epoch /\ writer[w].change \in Nat
          BY <1>0, <3>2 DEF ReturnedInv, OrderInv, Changes
        <4> QED
          BY <1>0, <4>1 DEF ReturnedInv, OrderInv
      <3>4. /\ version'[m] = issued + 1 /\ acked'[m] = a
            /\ \A n \in Nodes : n # m => version'[n] = version[n] /\ acked'[n] = acked[n]
        BY <1>0, <3>1, <3>3
      <3>5. \A x \in Writers : writer'[x].pc = "invalidate" => writer'[x] = writer[x]
        BY <1>0, <2>4 DEF Invalidate, NoChange
      <3>6. OrderInv'
        <4>1. \A q \in Readers : reader[q].key <= issued + 1 /\ reader[q].seen <= acked'[reader[q].node]
          <5> SUFFICES ASSUME NEW q \in Readers
                       PROVE  reader[q].key <= issued + 1 /\ reader[q].seen <= acked'[reader[q].node]
            OBVIOUS
          <5>1. reader[q].key <= issued /\ reader[q].seen <= acked[reader[q].node]
            BY DEF ReturnedInv, OrderInv
          <5>2. reader[q].node \in Nodes /\ reader[q].key \in Versions /\ reader[q].seen \in Nat
            BY CheckFields
          <5> QED
            BY <1>0, <3>3, <3>4, <5>1, <5>2 DEF Versions
        <4>2. \A n \in Nodes : version'[n] <= issued' /\ acked'[n] <= epoch
          BY <1>0, <3>1, <3>3, <3>4 DEF ReturnedInv, OrderInv, Versions
        <4> QED
          BY <3>1, <3>2, <3>5, <4>1, <4>2 DEF ReturnedInv, OrderInv
      <3>7. ASSUME NEW n \in Nodes, NEW v \in Versions, NEW u \in Usernames
            PROVE  (/\ issued < v => entry[n][v][u].until = 0
                    /\ v = version[n] /\ Sound(entry[n][v][u]) => acked[n] <= entry[n][v][u].asOf)'
        <4>1. /\ issued < v => entry[n][v][u].until = 0
              /\ v = version[n] /\ Sound(entry[n][v][u]) => acked[n] <= entry[n][v][u].asOf
          BY DEF ReturnedInv, VersionInv
        <4>2. CASE n = m
          BY <1>0, <3>1, <3>2, <3>4, <4>1, <4>2 DEF Sound, Versions
        <4>3. CASE n # m
          BY <1>0, <3>1, <3>2, <3>4, <4>1, <4>3 DEF Sound, Versions
        <4> QED
          BY <4>2, <4>3
      <3>8. SeenInv'
        BY <3>2 DEF ReturnedInv, SeenInv, Cached, Sound
      <3> QED
        BY <3>6, <3>7, <3>8 DEF ReturnedInv, VersionInv
    <2> QED
      BY <1>4, <2>1, <2>2, <2>3, <2>4 DEF Change
  <1>5. ASSUME NEW u \in Usernames, NEW perms \in SUBSET Registry, CommitQuietly(u, perms)
        PROVE  ReturnedInv'
    <2>1. epoch' = epoch + 1 /\ UNCHANGED <<version, issued, entry, reader, writer, acked>>
      BY <1>5 DEF CommitQuietly, Commits
    <2>2. \A x \in Writers : writer[x].change \in Nat
      BY <1>0 DEF Changes
    <2>3. OrderInv'
      BY <1>0, <2>1, <2>2 DEF ReturnedInv, OrderInv
    <2> QED
      BY <1>3, <2>1, <2>3 DEF ReturnedInv
  <1>6. CASE Tick
    <2>1. UNCHANGED <<version, issued, reader, writer, epoch, acked>>
      BY <1>6 DEF Tick
    <2>2. \A n \in Nodes, v \in Versions, u \in Usernames :
             entry'[n][v][u] = entry[n][v][u] \/ entry'[n][v][u] = Missing
      BY <1>6 DEF Tick
    <2>3. Missing.until = 0 /\ ~Sound(Missing)
      BY DEF Missing, Sound
    <2>4. OrderInv'
      BY <2>1 DEF ReturnedInv, OrderInv
    <2>5. VersionInv'
      BY <2>1, <2>2, <2>3 DEF ReturnedInv, VersionInv
    <2>6. \A q \in Readers : Cached(q)' = Cached(q) \/ Cached(q)' = Missing
      BY <2>1, <2>2, CheckFields DEF Cached
    <2>7. SeenInv'
      BY <2>1, <2>3, <2>6 DEF ReturnedInv, SeenInv, Sound
    <2> QED
      BY <2>4, <2>5, <2>7 DEF ReturnedInv
  <1> QED
    BY <1>1, <1>2, <1>4, <1>5, <1>6 DEF CacheNext

\* A step that answers a check obeys the property.
LEMMA ReturnedStep ==
  ASSUME CacheTyped, ReturnedInv, [CacheNext]_cacheVars, NEW q \in Readers, Answering(q),
         reader'[q].asOf = reader'[q].setAt
  PROVE  reader[q].seen <= reader'[q].asOf
  <1>1. Hit(q) \/ Store(q)
    BY AnswerSteps
  <1>2. CASE Hit(q)
    <2>1. reader'[q].asOf = Cached(q).asOf /\ reader'[q].setAt = Cached(q).setAt
      BY <1>2, CheckFields DEF Hit, Checks
    <2>2. 0 < Cached(q).until
      <3>1. now < Cached(q).until /\ now \in Nat /\ reader[q].pc = "get"
        BY <1>2 DEF Hit, Live, CacheTyped
      <3>2. Cached(q).until \in Nat
        BY CheckFields, EntryFields DEF Cached
      <3> QED
        BY <3>1, <3>2
    <2>3. reader[q].pc = "get"
      BY <1>2 DEF Hit
    <2> QED
      BY <2>1, <2>2, <2>3 DEF ReturnedInv, SeenInv, Sound
  <1>3. CASE Store(q)
    <2>1. reader[q].pc = "set" /\ reader'[q].asOf = reader[q].asOf
      BY <1>3, CheckFields DEF Store, Checks
    <2> QED
      BY <2>1 DEF ReturnedInv, SeenInv
  <1> QED
    BY <1>1, <1>2, <1>3

\* permission_cache::invalidate: for any number of caches, requests and failures, a check that begins
\* after a change has invalidated its cache, and can look the version up, reflects that change,
\* unless the entry it is served was overtaken while it was written.
THEOREM InvalidatedSeen == CacheSpec => InvalidatedChangesAreSeen
  <1>1. CacheTyped /\ ReturnedInv /\ [CacheNext]_cacheVars =>
          [\A q \in Readers :
             Answering(q) /\ reader'[q].asOf = reader'[q].setAt
               => reader[q].seen <= reader'[q].asOf]_cacheVars
    BY ReturnedStep
  <1> QED
    BY <1>1, CacheTypeCorrect, ReturnedInit, ReturnedNext, PTL DEF CacheSpec, InvalidatedChangesAreSeen
=============================================================================
