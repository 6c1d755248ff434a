---------------------------- MODULE OperationPlans ----------------------------
(***************************************************************************)
(* What the application operations of the command line are about to do     *)
(* (hegira_cli: operations.rs, lib.rs, database_protocol.rs): which tools  *)
(* an intent runs, what has to be there first, and whether an application  *)
(* can be operated on at all.                                              *)
(*                                                                         *)
(* An intent is [kind, profile], the profile None unless it is one of the  *)
(* database's.  A plan also holds its anchor: the directory that was       *)
(* opened and the contents of hegira.toml in it.                           *)
(***************************************************************************)
EXTENDS Installation

FrontendIntents == {"develop", "release-build"}
DatabaseIntents == {"database-status", "database-migrate"}

(***************************************************************************)
(* What a package makes of the composition that a manifest records.        *)
(***************************************************************************)
InspectComposition(m) ==
    IF m = None THEN "unavailable"
    ELSE IF m.composition = None THEN "unavailable"
    ELSE IF Bundled = None THEN "error"
    ELSE IF Resolve(Bundled, [framework |-> m.framework, package |-> m.composition.package,
                              components |-> Sorted(IdsOf(m.composition.components)), modules |-> m.composition.modules,
                              capabilities |-> m.composition.capabilities]) = None THEN "unresolved"
    ELSE "compatible"

(***************************************************************************)
(* Steps.  The tools and their arguments are fixed for each intent; cached *)
(* validation writes to a directory of its own.                            *)
(***************************************************************************)
Tool(run, provider) == [kind |-> "tool", run |-> run, provider |-> provider, profile |-> None]

\* The provider that the templates configure in a profile.
ProfileProvider(profile, full) ==
    IF profile = "sqlite" \/ (profile = "test" /\ ~full) THEN "sqlite" ELSE "postgres"

DevelopmentProfile(provider) == IF provider = "sqlite" THEN "sqlite" ELSE "development"

OperationSteps(intent, provider, full) ==
    CASE intent.kind = "check" -> <<Tool("check", provider), Tool("check-hydrate", None)>>
      [] intent.kind = "test" -> <<Tool("test", provider), Tool("check-hydrate", None)>>
      [] intent.kind = "develop" -> <<[Tool("watch", provider) EXCEPT !.profile = DevelopmentProfile(provider)]>>
      [] intent.kind = "release-build" -> <<Tool("build", provider)>>
      [] intent.kind \in DatabaseIntents ->
            IF provider # ProfileProvider(intent.profile, full) THEN Error
            ELSE <<[kind |-> "database", run |-> intent.kind, provider |-> provider, profile |-> intent.profile]>>

Prerequisites(intent, provider) ==
    {"toolchain", "cargo", "lockfile"}
    \cup (IF intent.kind \in DatabaseIntents THEN {"entry-point", "profile"} ELSE {"wasm-target"})
    \cup (IF intent.kind \in FrontendIntents THEN {"cargo-leptos", "frontend", "wasm-bindgen", "tailwind"} ELSE {})
    \cup (IF intent.kind = "release-build" THEN {"wasm-opt"} ELSE {})
    \cup (IF intent.kind = "develop" THEN {"profile"} ELSE {})
    \cup (IF intent.kind \in DatabaseIntents \cup {"develop"} /\ provider = "postgres" THEN {"postgres"} ELSE {})

ReleaseRoot == <<"target", "hegira", "release-build">>
CacheRoot == <<"target", "hegira", "validation", "build">>

\* A cache may be asked for where it is known, with a budget that is not zero.
WithValidationCache(plan, budget) ==
    IF budget = None THEN plan
    ELSE IF budget = 0 \/ plan.intent.kind \notin {"check", "test", "release-build"} THEN Error
    ELSE [plan EXCEPT !.cache = budget, !.artifacts = IF @ = None THEN None ELSE CacheRoot]

(***************************************************************************)
(* Planning.                                                               *)
(***************************************************************************)
Provider(m) == CHOOSE p \in m.databases : TRUE

CompositionRefusal(m, inspected, intent) ==
    IF inspected = "error" THEN "internal-error"
    ELSE IF inspected # "compatible" THEN "validation"
    ELSE IF OperationSteps(intent, Provider(m), LeptosIdentity \in InstalledIds(m)) = Error THEN "validation" ELSE None

PlanRefusal(x, intent) ==
    IF x = None THEN "validation"
    ELSE IF x = Conflicting THEN "conflict"
    ELSE IF x.compatibility # "compatible" THEN "conflict"
    ELSE IF x.manifest = None THEN "validation"
    ELSE CompositionRefusal(x.manifest, InspectComposition(x.manifest), intent)

OperationPlan(m, root, raw, intent) ==
    [root |-> root, raw |-> raw, name |-> m.name, composition |-> m.composition, provider |-> Provider(m), client |-> m.clients,
     intent |-> intent, prerequisites |-> Prerequisites(intent, Provider(m)),
     steps |-> OperationSteps(intent, Provider(m), LeptosIdentity \in InstalledIds(m)),
     approval |-> intent = [kind |-> "database-migrate", profile |-> "production"],
     artifacts |-> IF intent.kind = "release-build" THEN ReleaseRoot ELSE None, cache |-> None]

\* The anchor is taken after the application was looked at, and has to be of the same manifest.
Anchor(d, m, intent) ==
    IF d.files[Manifest] = None \/ FromToml(d.files[Manifest]) # m THEN None
    ELSE OperationPlan(m, d.root, d.files[Manifest], intent)

Planned(d, x, intent) == IF PlanRefusal(x, intent) # None THEN None ELSE Anchor(d, x.manifest, intent)

\* Planning over again, naming the root.
Cached(plan, budget) == IF plan = None THEN None ELSE WithValidationCache(plan, budget)
PlanAgain(d, plan) == Cached(Planned(d, Context(d, TRUE), plan.intent), plan.cache)

\* A production migration needs an approval of its own, and nothing else takes one.
Approved(plan, approval) ==
    IF approval = None THEN plan.intent.kind \notin DatabaseIntents
    ELSE plan.intent.kind \in DatabaseIntents /\ plan.approval = (approval = "production")

(***************************************************************************)
(* What the application's database command may answer.  A reply is         *)
(* [operation, provider, history, migrations], each migration [module,     *)
(* version, state].                                                        *)
(***************************************************************************)
ValidReply(plan, reply) ==
    /\ reply # None
    /\ reply.operation = plan.intent.kind /\ reply.provider = plan.provider
    /\ \A i, j \in DOMAIN reply.migrations : i < j => reply.migrations[i].version < reply.migrations[j].version
    /\ \A e \in Range(reply.migrations) : e.module \in {"application"} \cup Ids(plan.composition.modules)
    /\ reply.history # "present" => \A e \in Range(reply.migrations) : e.state = "pending"
    /\ plan.intent.kind = "database-migrate" =>
          reply.history = "present" /\ \A e \in Range(reply.migrations) : e.state = "applied"
=============================================================================
