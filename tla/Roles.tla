-------------------------------- MODULE Roles --------------------------------
(***************************************************************************)
(* Roles, their permissions and their members: PermissionAppService and    *)
(* UserAppService over the tables roles, role_permissions and user_roles.  *)
(* Roles and users are soft-deleted, so that a name that is used again     *)
(* finds its old rows.  Renaming a role copies its rows to another name in *)
(* one transaction of five statements; PostgreSQL runs it at READ          *)
(* COMMITTED, where other commits come between the statements, SQLite has  *)
(* one writer at a time.  Every other change takes effect at its commit.   *)
(***************************************************************************)
EXTENDS FiniteSets, Naturals

CONSTANTS
    Names,      \* role names
    Admin,      \* DEFAULT_ADMIN_ROLE_NAME
    AdminLike,  \* names equal to it but for case: is_protected_admin_role
    Users,      \* usernames
    Root,       \* the protected administrator's username
    Perms,      \* the permission registry
    Requests,   \* renames in progress
    Setups      \* the installations: the database, the names, users and permissions in use, and how many calls a generated resource gets

ASSUME RolesAssumption ==
    /\ Admin \in AdminLike /\ AdminLike \subseteq Names
    /\ Root \in Users
    /\ Setups \subseteq [postgres : BOOLEAN, calls : Nat, names : SUBSET Names, users : SUBSET Users, perms : SUBSET Perms]
    /\ \A s \in Setups : Admin \in s.names /\ Root \in s.users

VARIABLES
    setup,      \* the installation, which stays as it is configured
    role,       \* a name's row of roles: none, live, or with deleted_at set
    rolePerms,  \* role_permissions
    userRoles,  \* user_roles
    live,       \* users whose deleted_at is NULL
    request     \* the renames in progress

vars == <<setup, role, rolePerms, userRoles, live, request>>

\* A rename: "insert", "permissions", "members" and "finish" name the statement that is next.
\* perms and members are what it has copied, its own until it commits.  clean is history: no
\* other change was committed since the rename began.
Renames == [pc : {"idle", "insert", "permissions", "members", "finish"}, from : Names, to : Names,
            perms : SUBSET Perms, members : SUBSET Users, clean : BOOLEAN]

NoRename == [pc |-> "idle", from |-> Admin, to |-> Admin, perms |-> {}, members |-> {},
             clean |-> TRUE]

TypeOK ==
    /\ setup \in Setups
    /\ role \in [Names -> {"absent", "live", "deleted"}]
    /\ rolePerms \in [Names -> SUBSET Perms]
    /\ userRoles \in [Users -> SUBSET Names]
    /\ live \subseteq Users
    /\ request \in [Requests -> Renames]
    \* the foreign keys of role_permissions and user_roles
    /\ \A r \in Names : rolePerms[r] # {} => role[r] # "absent"
    /\ \A u \in Users, r \in Names : r \in userRoles[u] => role[r] # "absent"

\* After the migrations and the first seeding, with accounts that hold no role.
Init ==
    /\ setup \in Setups
    /\ role = [r \in Names |-> IF r = Admin THEN "live" ELSE "absent"]
    /\ rolePerms = [r \in Names |-> IF r = Admin THEN setup.perms ELSE {}]
    /\ userRoles = [u \in Users |-> IF u = Root THEN {Admin} ELSE {}]
    /\ live = setup.users
    /\ request = [q \in Requests |-> NoRename]

------------------------------------------------------------------------------
\* user_permissions(): what the roles that are live give a user who is.
Granted(u) ==
    IF u \in live THEN UNION {rolePerms[r] : r \in {n \in userRoles[u] : role[n] = "live"}} ELSE {}

\* Renames that hold the row lock of a name: the upsert takes it until the commit.
Holders(r) == {q \in Requests : request[q].pc \in {"permissions", "members", "finish"} /\ request[q].to = r}

\* Whether a transaction that writes a name's row can run now.
Free(r) == IF setup.postgres THEN Holders(r) = {} ELSE \A q \in Requests : request[q].pc = "idle"

\* Another change was committed while these renames ran.
Disturbed == [q \in Requests |-> IF request[q].pc = "idle" THEN request[q]
                                 ELSE [request[q] EXCEPT !.clean = FALSE]]

\* Writers of user_roles lock no role: only SQLite makes them wait.
FreeUsers == setup.postgres \/ \A q \in Requests : request[q].pc = "idle"

\* create_role_with_audit(): a name that was deleted comes back with its rows.
CreateRole(r) ==
    /\ Free(r)
    /\ role' = [role EXCEPT ![r] = "live"]
    /\ request' = Disturbed
    /\ UNCHANGED <<rolePerms, userRoles, live>>

\* Mutant of DeleteRole: no role is protected.
DeleteRoleUnprotected(r) ==
    /\ Free(r)
    /\ role[r] = "live"
    /\ role' = [role EXCEPT ![r] = "deleted"]
    /\ request' = Disturbed
    /\ UNCHANGED <<rolePerms, userRoles, live>>

\* delete_role(): the role's permissions and members stay.
DeleteRole(r) ==
    /\ r \notin AdminLike
    /\ Free(r)
    /\ role[r] = "live"
    /\ role' = [role EXCEPT ![r] = "deleted"]
    /\ request' = Disturbed
    /\ UNCHANGED <<rolePerms, userRoles, live>>

\* set_role_permissions(): upserts the role, also the administrator's, and replaces its list.
SetRolePermissions(r, perms) ==
    /\ Free(r)
    /\ role' = [role EXCEPT ![r] = "live"]
    /\ rolePerms' = [rolePerms EXCEPT ![r] = perms]
    /\ request' = Disturbed
    /\ UNCHANGED <<userRoles, live>>

\* assign_role(): the foreign key asks for a row of the role, deleted or not.
AssignRole(u, r) ==
    /\ FreeUsers
    /\ u \in live
    /\ role[r] # "absent"
    /\ userRoles' = [userRoles EXCEPT ![u] = @ \cup {r}]
    /\ request' = Disturbed
    /\ UNCHANGED <<role, rolePerms, live>>

------------------------------------------------------------------------------
(* update_role(): SELECT, upsert, copy of the permissions, copy of the     *)
(* members, soft deletion and commit.                                      *)

\* A name that is not live is not found.  The new name may be any, the old one included.
SelectRole(q, from, to) ==
    /\ request[q].pc = "idle"
    /\ FreeUsers
    /\ from \notin AdminLike
    /\ role[from] = "live"
    /\ request' = [request EXCEPT ![q] = [NoRename EXCEPT !.pc = "insert", !.from = from, !.to = to]]
    /\ UNCHANGED <<role, rolePerms, userRoles, live>>

InsertRole(q) ==
    /\ request[q].pc = "insert"
    /\ Holders(request[q].to) = {}
    /\ request' = [request EXCEPT ![q].pc = "permissions"]
    /\ UNCHANGED <<role, rolePerms, userRoles, live>>

CopyPermissions(q) ==
    /\ request[q].pc = "permissions"
    /\ request' = [request EXCEPT ![q].pc = "members", ![q].perms = rolePerms[request[q].from]]
    /\ UNCHANGED <<role, rolePerms, userRoles, live>>

CopyMembers(q) ==
    /\ request[q].pc = "members"
    /\ request' = [request EXCEPT ![q].pc = "finish",
                                  ![q].members = {u \in Users : request[q].from \in userRoles[u]}]
    /\ UNCHANGED <<role, rolePerms, userRoles, live>>

\* Mutant of FinishRename: the copied permissions replace those of the new name.
FinishRenameReplaces(q) ==
    LET from == request[q].from
        to == request[q].to IN
    /\ request[q].pc = "finish"
    /\ Holders(from) \subseteq {q}
    /\ role' = [role EXCEPT ![to] = "live", ![from] = "deleted"]
    /\ rolePerms' = [rolePerms EXCEPT ![to] = request[q].perms]
    /\ userRoles' = [u \in Users |->
                       userRoles[u] \cup (IF u \in request[q].members THEN {to} ELSE {})]
    /\ request' = [Disturbed EXCEPT ![q] = NoRename]
    /\ UNCHANGED live

\* The soft deletion waits for the old name's row lock, and comes last: renaming a role to its
\* own name deletes it.
FinishRename(q) ==
    LET from == request[q].from
        to == request[q].to IN
    /\ request[q].pc = "finish"
    /\ Holders(from) \subseteq {q}
    /\ role' = [role EXCEPT ![to] = "live", ![from] = "deleted"]
    /\ rolePerms' = [rolePerms EXCEPT ![to] = @ \cup request[q].perms]
    /\ userRoles' = [u \in Users |->
                       userRoles[u] \cup (IF u \in request[q].members THEN {to} ELSE {})]
    /\ request' = [Disturbed EXCEPT ![q] = NoRename]
    /\ UNCHANGED live

\* A statement fails, the request is dropped, or PostgreSQL ends a deadlock: nothing is kept.
AbortRename(q) ==
    /\ request[q].pc # "idle"
    /\ request' = [request EXCEPT ![q] = NoRename]
    /\ UNCHANGED <<role, rolePerms, userRoles, live>>

------------------------------------------------------------------------------
(* Users: UserAppService and the seeding at startup.                       *)

\* normalized_roles(): the administrator keeps a role that is admin but for its case.
NormalizedRoles(u, roles) ==
    IF u = Root /\ roles \cap AdminLike = {} THEN roles \cup {Admin} ELSE roles

\* create_managed_user() of a name that no live user has, and update_managed_user() of one that a
\* live user has: set_roles() replaces the roles, whose rows must exist.
SetUserRoles(u, given) ==
    LET roles == NormalizedRoles(u, given) IN
    /\ FreeUsers
    /\ \A r \in roles : role[r] # "absent"
    /\ userRoles' = [userRoles EXCEPT ![u] = roles]
    /\ live' = live \cup {u}
    /\ request' = Disturbed
    /\ UNCHANGED <<role, rolePerms>>

\* UserAppService::delete and AuthAppService::delete_account.
DeleteUser(u) ==
    /\ u # Root
    /\ FreeUsers
    /\ u \in live
    /\ live' = live \ {u}
    /\ request' = Disturbed
    /\ UNCHANGED <<role, rolePerms, userRoles>>

\* seed_identity() of a process that starts.
Seed ==
    /\ Free(Admin)
    /\ role' = [role EXCEPT ![Admin] = "live"]
    /\ rolePerms' = [rolePerms EXCEPT ![Admin] = setup.perms]
    /\ userRoles' = [userRoles EXCEPT ![Root] = @ \cup {Admin}]
    /\ request' = Disturbed
    /\ UNCHANGED live

Rename(q) ==
    \/ \E from, to \in setup.names : SelectRole(q, from, to)
    \/ InsertRole(q) \/ CopyPermissions(q) \/ CopyMembers(q) \/ FinishRename(q) \/ AbortRename(q)

Step ==
    \/ \E r \in setup.names : CreateRole(r) \/ DeleteRole(r)
    \/ \E r \in setup.names, perms \in SUBSET setup.perms : SetRolePermissions(r, perms)
    \/ \E u \in setup.users, r \in setup.names : AssignRole(u, r)
    \/ \E u \in setup.users, roles \in SUBSET setup.names : SetUserRoles(u, roles)
    \/ \E u \in setup.users : DeleteUser(u)
    \/ Seed
    \/ \E q \in Requests : Rename(q)

Next == Step /\ UNCHANGED setup

Spec == Init /\ [][Next]_vars

------------------------------------------------------------------------------
(* Properties.                                                             *)

\* The guards of update_role, delete_role, users delete and normalized_roles together: the
\* administrator's role is never deleted, and the account with the administrator's name is never
\* without a role of that name, whatever renames are in progress.
AdminProtected ==
    /\ role[Admin] = "live"
    /\ Root \in live
    /\ \E r \in AdminLike : r \in userRoles[Root] /\ role[r] = "live"

Committed(q) == request[q].pc = "finish" /\ request'[q].pc = "idle" /\ ~UNCHANGED role

\* update_role to another name, with no other change committed in between, takes no permission
\* from anybody, and gives none when the new name was never used.
RenameCarriesAccess ==
    [][\A q \in Requests : Committed(q) /\ request[q].clean /\ request[q].from # request[q].to =>
          \A u \in Users : /\ Granted(u) \subseteq Granted(u)'
                           /\ role[request[q].to] = "absent" => Granted(u)' = Granted(u)]_vars

\* What the test sqlite_role_rename_preserves_permissions_assignments_and_creation_time says of
\* update_role: a rename preserves the permissions of the role's members.
RenamePreserves ==
    [][\A q \in Requests : Committed(q) /\ request[q].clean =>
          \A u \in Users : Granted(u) \subseteq Granted(u)']_vars
=============================================================================
