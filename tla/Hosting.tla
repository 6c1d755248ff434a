------------------------------- MODULE Hosting -------------------------------
(***************************************************************************)
(* The processes of an application that open its database: the database    *)
(* command that the command line runs (app_database, database_operations,  *)
(* persistence: migrations) and servers and workers, which may migrate and *)
(* seed before they serve (app_server: server.rs, infrastructure: config,  *)
(* operations, database).                                                  *)
(*                                                                         *)
(* disk.db is [exists, table, rows, seeded]: whether it has a table of     *)
(* migrations, and version -> [success, checksum]; disk.hosts has a        *)
(* process for each command line and each server.  A configuration is a    *)
(* function from keys to values: "enabled" and "startup" are the sections  *)
(* and startup steps that are switched on, an address is its scheme, a     *)
(* section by its name is its backend.                                     *)
(***************************************************************************)
EXTENDS OperationPlans

CONSTANTS Servers,       \* numbers of the servers that may be started
          Starts,        \* where a package is bundled: [profile, sources, features] of the servers started there
          Settings,      \* contents of a profile's file -> what it and the environment set, None if unreadable
          Sources(_),    \* what is compiled from a tree: sequence of [module, migrations: version -> checksum]
          ModuleIds,     \* well-formed module ids
          Stores         \* where a package is bundled: the databases that are there at first

ASSUME StoresHoldDatabases == \A s \in Setups : \A db \in Stores[s[1]] : DOMAIN db = {"exists", "table", "rows", "seeded"}

Profile(p) == <<"config", p>>
Profiles == {"development", "sqlite", "test", "production"}

(***************************************************************************)
(* Configuration.                                                          *)
(***************************************************************************)
Defaults ==
    ("enabled" :> {"rate_limit", "cors", "mailer", "scheduler", "settings"}) @@ ("role" :> "all")
    @@ ("startup" :> {"ensure_database", "seed_identity", "scheduler", "durable_jobs"})
    @@ ("database" :> "postgres") @@ ("database.url" :> "postgres") @@ ("auto_migrate" :> TRUE) @@ ("seed_admin" :> TRUE)
    @@ ("application.public_url" :> "http") @@ ("telemetry.endpoint" :> "http") @@ ("search.meilisearch.url" :> "http")
    @@ ("storage.s3.endpoint" :> None) @@ [k \in {"rate_limit.redis", "sessions.redis", "cache.redis"} |-> "redis"]
    @@ ("rate_limit" :> "memory") @@ ("sessions" :> "database") @@ ("mailer" :> "log") @@ [s \in {"cache", "storage", "search"} |-> "null"]
    @@ [k \in {"database.connections", "server.timeout", "server.body", "health.timeout", "rate_limit.requests", "rate_limit.window",
               "cache.ttl", "telemetry.timeout", "search.timeout", "worker_operations.grace", "scheduler.interval", "jobs.poll",
               "jobs.batch", "jobs.lock", "settings.ttl", "sessions.sliding", "oauth.ttl", "mailer.smtp.port"} |-> 1]
    @@ ("sessions.lifetime" :> 2) @@ ("sessions.threshold" :> 25) @@ ("telemetry.percent" :> 100)
    @@ [k \in {"search.prefix", "mailer.from", "mailer.smtp.host", "storage.s3.region"} |-> "text"] @@ ("storage.s3.bucket" :> "")
    @@ ("smtp.credentials" :> {}) @@ [p \in {"google", "github"} |-> None] @@ ("metrics.path" :> "/metrics") @@ ("proxies" :> {})
    @@ ("origins" :> {"http"}) @@ ("secret" :> "short") @@ ("server.addr" :> 3000) @@ ("worker_operations.addr" :> 9091)

\* A profile without a file has the defaults; nothing overrides the profile that was chosen.
Load(files, profile) ==
    LET x == files[Profile(profile)]
        set == IF x = None THEN << >> ELSE Settings[x]
    IN  IF set = None THEN None ELSE ("environment" :> profile) @@ set @@ Defaults
IsProduction(c) == c["environment"] = "production"

\* The section is in use, with this backend unless it is None.
Uses(c, section, backend) ==
    /\ section \in {"application", "server", "database", "sessions", "health"} \cup c["enabled"]
    /\ backend = None \/ c[section] = backend

\* A rule is <<key, section, backend>>, and for an address the schemes as well: it is followed where it is in use.
Positive(c, rules) == \A r \in rules : Uses(c, r[2], r[3]) => c[r[1]] > 0
NotEmpty(c, rules) == \A r \in rules : Uses(c, r[2], r[3]) => c[r[1]] # ""
Http == {"http", "https"}
Redis == {"redis", "rediss"}
Reachable(c, rules) == \A r \in rules : Uses(c, r[2], r[3]) => c[r[1]] \in r[4]

HostStructure(c) ==
    /\ Reachable(c, {<<"application.public_url", "application", None, Http>>, <<"database.url", "database", "postgres", {"postgres", "postgresql"}>>,
                     <<"database.url", "database", "sqlite", {"sqlite"}>>, <<"rate_limit.redis", "rate_limit", "redis", Redis>>,
                     <<"sessions.redis", "sessions", "redis", Redis>>, <<"cache.redis", "cache", "redis", Redis>>,
                     <<"telemetry.endpoint", "telemetry", None, Http>>})
    /\ Positive(c, {<<"database.connections", "database", None>>, <<"server.timeout", "server", None>>, <<"server.body", "server", None>>,
                    <<"health.timeout", "health", None>>, <<"rate_limit.requests", "rate_limit", None>>, <<"rate_limit.window", "rate_limit", None>>,
                    <<"cache.ttl", "cache", None>>, <<"telemetry.timeout", "telemetry", None>>})
    /\ Uses(c, "metrics", None) => c["metrics.path"] \notin {"", "/healthz", "/readyz"}
    /\ c["proxies"] \cap {"malformed", "everything"} = {}
    /\ Uses(c, "telemetry", None) => c["telemetry.percent"] \in 0 .. 100

\* An OAuth provider is None unless it is enabled, otherwise [credentials, addresses].
ProviderHolds(p) == p = None \/ (p.credentials = {"id", "secret"} /\ p.addresses \subseteq Http)

ServiceStructure(c) ==
    /\ NotEmpty(c, {<<"search.prefix", "search", None>>, <<"mailer.from", "mailer", "smtp">>, <<"mailer.smtp.host", "mailer", "smtp">>,
                  <<"storage.s3.bucket", "storage", "s3">>, <<"storage.s3.region", "storage", "s3">>})
    /\ Positive(c, {<<"search.timeout", "search", None>>, <<"worker_operations.grace", "worker_operations", None>>,
                    <<"scheduler.interval", "scheduler", None>>, <<"jobs.poll", "jobs", None>>, <<"jobs.batch", "jobs", None>>,
                    <<"jobs.lock", "jobs", None>>, <<"settings.ttl", "settings", None>>, <<"sessions.sliding", "sessions", None>>,
                    <<"oauth.ttl", "oauth", None>>, <<"mailer.smtp.port", "mailer", "smtp">>})
    /\ Reachable(c, {<<"search.meilisearch.url", "search", "meilisearch", Http>>, <<"storage.s3.endpoint", "storage", "s3", Http \cup {None}>>})
    /\ Uses(c, "worker_operations", None) => c["role"] = "worker"
    /\ c["sessions.lifetime"] >= c["sessions.sliding"] /\ c["sessions.threshold"] <= 100
    /\ Uses(c, "oauth", None) => /\ \E p \in {"google", "github"} : c[p] # None
                                 /\ \A p \in {"google", "github"} : ProviderHolds(c[p])
    /\ Uses(c, "mailer", "smtp") => c["smtp.credentials"] \in {{}, {"username", "password"}}

ValidCapabilities(c, compiled) ==
    \A r \in {<<"database", "postgres", "db-postgres">>, <<"database", "sqlite", "db-sqlite">>, <<"sessions", "redis", "cache-redis">>,
              <<"rate_limit", "redis", "cache-redis">>, <<"cache", "redis", "cache-redis">>, <<"mailer", "smtp", "mailer-smtp">>,
              <<"storage", "s3", "storage-s3">>, <<"search", "meilisearch", "search-meilisearch">>, <<"metrics", None, "metrics-prometheus">>,
              <<"telemetry", None, "otel-otlp">>, <<"openapi", None, "openapi">>} : Uses(c, r[1], r[2]) => r[3] \in compiled

ValidProductionPolicy(c) ==
    IsProduction(c) =>
        /\ c["secret"] = "long" /\ ~c["seed_admin"] /\ c["application.public_url"] = "https"
        /\ Uses(c, "cors", None) => c["origins"] # {} /\ c["origins"] \subseteq {"https"}
        /\ ~Uses(c, "openapi", None)
        /\ c["database"] = "sqlite" => c["role"] = "all"

\* The first of the three that fails.
Invalid(structure, capabilities, policy) ==
    IF ~structure THEN "configuration-structure" ELSE IF ~capabilities THEN "configuration-capabilities"
    ELSE IF ~policy THEN "configuration-production" ELSE None

(***************************************************************************)
(* The plan of an application's migrations: version -> [module, checksum], *)
(* None where two modules claim one version or one name.                   *)
(***************************************************************************)
HostPlan(sources) ==
    LET of(v) == {i \in DOMAIN sources : v \in DOMAIN sources[i].migrations}
        versions == UNION {DOMAIN sources[i].migrations : i \in DOMAIN sources}
        owner(v) == sources[CHOOSE i \in of(v) : TRUE]
    IN  IF \/ \E i \in DOMAIN sources : sources[i].module \notin ModuleIds
           \/ \E i, j \in DOMAIN sources : i < j /\ sources[i].module = sources[j].module
           \/ \E v \in versions : Cardinality(of(v)) > 1 THEN None
        ELSE [v \in versions |-> [module |-> owner(v).module, checksum |-> owner(v).migrations[v]]]

HistoryState(db) == IF ~db.exists THEN "database-missing" ELSE IF ~db.table THEN "metadata-missing" ELSE "present"

\* None where the history is not one of this plan.
CompareHistory(plan, rows) ==
    IF \E v \in DOMAIN rows : v \notin DOMAIN plan \/ ~rows[v].success \/ rows[v].checksum # plan[v].checksum THEN None
    ELSE LET versions == SetToSortSeq(DOMAIN plan, <)
         IN  [i \in DOMAIN versions |-> [module |-> plan[versions[i]].module, version |-> versions[i],
                                         state |-> IF versions[i] \in DOMAIN rows THEN "applied" ELSE "pending"]]

(***************************************************************************)
(* Processes.                                                              *)
(***************************************************************************)
Hosts == Clis \cup Servers
Off == [kind |-> None, pc |-> "off", root |-> None, profile |-> None, sources |-> << >>, features |-> {}, config |-> None, plan |-> None,
        left |-> {}, report |-> None, workers |-> {}]
Process(kind, root, profile, sources, features) ==
    [Off EXCEPT !.kind = kind, !.pc = "load", !.root = root, !.profile = profile, !.sources = sources, !.features = features]
TreeOf(root) == IF disk.root = root THEN disk.files ELSE disk.other

At(h, pc) == disk.hosts[h].pc = pc
Go(h, r) == disk' = [disk EXCEPT !.hosts[h] = r] /\ UNCHANGED <<pkg, cmd, edits>>
Change(h, r, db) == disk' = [disk EXCEPT !.hosts[h] = r, !.db = db] /\ UNCHANGED <<pkg, cmd, edits>>
To(h, pc) == [disk.hosts[h] EXCEPT !.pc = pc]
\* A server is gone after an error; the command prints it.
Ended(h) == [disk.hosts[h] EXCEPT !.pc = "done", !.report = None, !.left = {}]

StartServer(s) ==
    /\ At(s, "off") /\ \A o \in Servers : o < s => ~At(o, "off")
    /\ \E x \in Starts[pkg] : Owner([disk EXCEPT !.hosts[s] = Process("server", disk.root, x.profile, x.sources, x.features)])

\* Only what concerns the database is validated for the command.
CommandInvalid(c, features) ==
    Invalid(/\ Positive(c, {<<"database.connections", "database", None>>})
            /\ Reachable(c, {<<"database.url", "database", "postgres", {"postgres", "postgresql"}>>, <<"database.url", "database", "sqlite", {"sqlite"}>>}),
            (IF c["database"] = "sqlite" THEN "db-sqlite" ELSE "db-postgres") \in features,
            IsProduction(c) => "ensure_database" \notin c["startup"] /\ ~c["auto_migrate"])

LoadForCommand(h) ==
    LET host == disk.hosts[h]
        proceed(c, plan) ==
            IF c = None THEN Go(h, Ended(h))
            ELSE IF CommandInvalid(c, host.features) # None \/ plan = None THEN Go(h, Ended(h))
            ELSE Go(h, [host EXCEPT !.pc = "status", !.config = c, !.plan = plan])
    IN  /\ At(h, "load") /\ host.kind \in DatabaseIntents
        /\ IF host.profile \notin Profiles THEN Go(h, Ended(h))
           ELSE proceed(Load(TreeOf(host.root), host.profile), HostPlan(host.sources))

\* The history is read in one transaction, for a migration before it and after it.
StatusReport(h, entries) ==
    [operation |-> disk.hosts[h].kind, provider |-> disk.hosts[h].config["database"], history |-> HistoryState(disk.db), migrations |-> entries]
ReadStatus(h) ==
    LET host == disk.hosts[h]
        again == At(h, "verify")
        proceed(entries) ==
            IF entries = None THEN Go(h, Ended(h))
            ELSE IF host.kind = "database-status" \/ again THEN Go(h, [To(h, "done") EXCEPT !.report = StatusReport(h, entries)])
            ELSE Go(h, IF disk.db.exists THEN To(h, "connect") ELSE Ended(h))
    IN  (At(h, "status") \/ again) /\ proceed(CompareHistory(host.plan, disk.db.rows))

\* The command opens a database that is there, and never makes one.
ConnectExisting(h) == At(h, "connect") /\ Go(h, IF disk.db.exists THEN To(h, "list") ELSE Ended(h))

\* The plan is made before the database is touched, and only where it will be run.
LoadForServer(h) ==
    LET host == disk.hosts[h]
        proceed(c, plan) ==
            IF c = None THEN Go(h, Ended(h))
            ELSE IF \/ Invalid(HostStructure(c) /\ ServiceStructure(c), ValidCapabilities(c, host.features), ValidProductionPolicy(c)) # None
                    \/ c["auto_migrate"] /\ plan = None THEN Go(h, Ended(h))
            ELSE Go(h, [host EXCEPT !.pc = "open", !.config = c, !.plan = IF c["auto_migrate"] THEN plan ELSE None])
    IN  At(h, "load") /\ host.kind = "server" /\ proceed(Load(TreeOf(host.root), host.profile), HostPlan(host.sources))

Ensures(c) == "ensure_database" \in c["startup"] /\ ~IsProduction(c)

\* SQLite makes a database that is missing; PostgreSQL is asked to, outside of production.
Connected(db, c) == IF db.exists \/ c["database"] = "sqlite" \/ Ensures(c) THEN [db EXCEPT !.exists = TRUE] ELSE None

\* A plausible bug: a database that is there is taken for migrated.
OpenDatabaseMigrated(h) ==
    LET c == disk.hosts[h].config
    IN  At(h, "open") /\ Change(h, To(h, IF c["auto_migrate"] /\ ~disk.db.exists THEN "list" ELSE "seed"), [disk.db EXCEPT !.exists = TRUE])
OpenDatabase(h) ==
    LET c == disk.hosts[h].config
        db == Connected(disk.db, c)
    IN  At(h, "open") /\ IF db = None THEN Go(h, Ended(h)) ELSE Change(h, To(h, IF c["auto_migrate"] THEN "list" ELSE "seed"), db)

(***************************************************************************)
(* sqlx's migrator: a lock on PostgreSQL and none on SQLite, the list of   *)
(* what is applied, then each migration in a transaction of its own with   *)
(* its row.                                                                *)
(***************************************************************************)
LocksMigrations(h) == At(h, "apply") /\ disk.hosts[h].config["database"] = "postgres"

ListApplied(h) ==
    LET host == disk.hosts[h]
        rows == disk.db.rows
        open == {v \in DOMAIN host.plan : v \notin DOMAIN rows \/ rows[v].checksum # host.plan[v].checksum}
    IN  /\ At(h, "list")
        /\ host.config["database"] = "postgres" => \A o \in Hosts \ {h} : ~LocksMigrations(o)
        /\ Change(h, IF \E v \in DOMAIN rows : ~rows[v].success \/ v \notin DOMAIN host.plan THEN Ended(h)
                     ELSE [host EXCEPT !.pc = "apply", !.left = open],
                  [disk.db EXCEPT !.table = TRUE])

WithRow(rows, v, row) == [u \in DOMAIN rows \cup {v} |-> IF u = v THEN row ELSE rows[u]]

\* A row that is there was applied from other contents, or meanwhile by another process: either is an error.
ApplyMigration(h) ==
    LET host == disk.hosts[h]
    IN  /\ At(h, "apply")
        /\ \E v \in host.left :
              /\ \A u \in host.left : ~(u < v)
              /\ IF v \in DOMAIN disk.db.rows THEN Go(h, Ended(h))
                 ELSE Change(h, [host EXCEPT !.left = @ \ {v}],
                             [disk.db EXCEPT !.rows = WithRow(@, v, [success |-> TRUE, checksum |-> host.plan[v].checksum])])

EndMigrations(h) ==
    /\ At(h, "apply") /\ disk.hosts[h].left = {}
    /\ Go(h, To(h, IF disk.hosts[h].kind = "server" THEN "seed" ELSE "verify"))

\* The roles and permissions, and with them the first administrator; without the tables it fails.
SeedIdentity(h) ==
    LET host == disk.hosts[h]
        tables == UNION {DOMAIN s.migrations : s \in {x \in Range(host.sources) : x.module = Identity}}
    IN  /\ At(h, "seed")
        /\ IF "seed_identity" \notin host.config["startup"] THEN Go(h, To(h, "serve"))
           ELSE IF tables \subseteq DOMAIN disk.db.rows THEN Change(h, To(h, "serve"), [disk.db EXCEPT !.seeded = @ \cup {IF host.config["seed_admin"] THEN "admin" ELSE "roles"}])
           ELSE Go(h, Ended(h))

\* The loops that run in this process.
ActiveWorkers(c) ==
    IF c["role"] = "web" THEN {}
    ELSE {w \in {"scheduler", "durable_jobs"} : w \in c["startup"] /\ (IF w = "scheduler" THEN "scheduler" ELSE "jobs") \in c["enabled"]}

\* Where it listens: a worker only if its operations are served.
Address(c) ==
    IF c["role"] # "worker" THEN c["server.addr"] ELSE IF "worker_operations" \in c["enabled"] THEN c["worker_operations.addr"] ELSE None

\* The loops are started before the address is bound: a process that cannot bind ends, and they with it.
Serve(h) ==
    LET c == disk.hosts[h].config
        taken == Address(c) # None /\ \E o \in Hosts : At(o, "serving") /\ Address(disk.hosts[o].config) = Address(c)
    IN  /\ At(h, "serve")
        /\ Go(h, IF taken THEN Ended(h) ELSE [To(h, "serving") EXCEPT !.workers = ActiveWorkers(c)])

\* What a process depends on does not answer, or it is stopped from outside.
LoseHost(h) == ~At(h, "off") /\ ~At(h, "done") /\ Go(h, Ended(h))

HostStep ==
    \/ \E h \in Hosts : \/ LoadForCommand(h) \/ ReadStatus(h) \/ ConnectExisting(h) \/ LoadForServer(h) \/ OpenDatabase(h) \/ ListApplied(h)
                        \/ ApplyMigration(h) \/ EndMigrations(h) \/ SeedIdentity(h) \/ Serve(h) \/ LoseHost(h)
    \/ \E s \in Servers : StartServer(s)
=============================================================================
