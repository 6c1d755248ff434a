------------------------------- MODULE MCRoles -------------------------------
(* Roles for TLC: the renames are interchangeable.                          *)
EXTENDS Roles, TLC

CONSTANTS admin, ADMIN, editor, author, root, alice, p1

Symmetry == Permutations(Requests)

\* Renames at once between two ordinary roles of PostgreSQL.
PostgresSetup == [postgres |-> TRUE, calls |-> 0, perms |-> {p1}, names |-> {admin, editor, author}, users |-> {root}]

\* A role named like the administrator's but for its case, and an ordinary user, on SQLite.
SqliteSetup == [postgres |-> FALSE, calls |-> 0, perms |-> {p1}, names |-> {admin, ADMIN, editor}, users |-> {root, alice}]

\* One ordinary role.
SmallSetup == [postgres |-> FALSE, calls |-> 0, perms |-> {p1}, names |-> {admin, editor}, users |-> {root, alice}]

OneSetup == {SmallSetup}
=============================================================================
