---------------------------- MODULE MCResources -----------------------------
(* Roles, and a generated resource over them, for TLC.                      *)
EXTENDS Resources, TLC

CONSTANTS admin, ADMIN, editor, author, root, alice, p1

\* Renames at once between two ordinary roles of PostgreSQL.
PostgresSetup == [postgres |-> TRUE, calls |-> 0, names |-> {admin, editor, author}, users |-> {root}, perms |-> {p1}]

\* A role named like the administrator's but for its case, and an ordinary user, on SQLite.
SqliteSetup == [postgres |-> FALSE, calls |-> 0, names |-> {admin, ADMIN, editor}, users |-> {root, alice}, perms |-> {p1}]

\* One role, whose permissions change while a page of a resource is open.
ResourceSetup(postgres) == [postgres |-> postgres, calls |-> 1, names |-> {admin}, users |-> {root}, perms |-> {p1}]

MCSetups == {PostgresSetup, SqliteSetup} \cup {ResourceSetup(p) : p \in BOOLEAN}
MCGranting == [k \in {"list", "get", "create", "update", "delete"} |-> p1]
=============================================================================
