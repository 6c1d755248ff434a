------------------------- MODULE ApplicationManifest -------------------------
(***************************************************************************)
(* hegira.toml, the identity record of a generated application             *)
(* (crates/application_manifest): what the reader accepts, what the writer *)
(* emits, and whether this release of the command line may change the      *)
(* application.                                                            *)
(*                                                                         *)
(* A manifest is a record of                                               *)
(*   schema, name, framework [repository, version],                        *)
(*   selected (components of schema 1), databases, clients,                *)
(*   composition  [package, components, modules, capabilities] or None,    *)
(*   upgrade      [framework, package, ownership] or None.                 *)
(* Components and modules are sequences of [id, version] as the file lists *)
(* them; ownership is [default, claims], claims a sequence of              *)
(* [path, class, integration], and a path the sequence of its segments.    *)
(* A well-formed word is a member of the sets below; every other value     *)
(* stands for one that the character rules of the code refuse.             *)
(***************************************************************************)
EXTENDS Integers, Sequences, FiniteSets, SequencesExt

CONSTANTS None,
          Names,          \* well-formed application names, reserved ones left out
          Repositories,   \* https URLs of a remote .git repository
          Releases,       \* versions vX.Y.Z without pre-release or build part
          Identifiers,    \* lower-case words joined by single hyphens
          Segments,       \* path segments the ownership rules accept
          MaxClaims

ManifestSchema == 3
CompositionSchema == 2
LegacySchema == 1
Package == "hegira-canonical"
Base == "layered-base"
LeptosIdentity == "layered-leptos-identity"
LeptosMinimal == "layered-leptos-minimal"
Identity == "identity"
SupportedComponents == {Base, LeptosIdentity, LeptosMinimal, Identity}
Capabilities == {"authentication", "authorization"}
Databases == {"postgres", "sqlite"}
Clients == {"leptos"}

Ids(s) == {s[i].id : i \in DOMAIN s}

ValidName(n) == n \in Names
ValidIdentifier(x) == x \in Identifiers
ValidRelease(v) == v \in Releases
ValidFramework(f) == f.repository \in Repositories /\ ValidRelease(f.version)

\* Schema 1 lists its components in the selection, the Identity client among them.
ValidLegacySelection(m) ==
    /\ m.databases # {} /\ m.clients # {}
    /\ \A c \in m.selected : ValidIdentifier(c) /\ c \in SupportedComponents
    /\ Base \in m.selected
    /\ "leptos" \in m.clients => LeptosIdentity \in m.selected

ValidSelection(m) == Cardinality(m.databases) = 1 /\ Cardinality(m.clients) = 1

\* Listed once each, and of the package's release.
ValidMembers(s, version) ==
    /\ \A i \in DOMAIN s : ValidIdentifier(s[i].id) /\ ValidRelease(s[i].version) /\ s[i].version = version
    /\ Cardinality(Ids(s)) = Len(s)

ValidComposition(c, framework) ==
    /\ ValidIdentifier(c.package.id) /\ c.package.id = Package
    /\ ValidRelease(c.package.version) /\ c.package.version = framework.version
    /\ ValidMembers(c.components, c.package.version) /\ Base \in Ids(c.components)
    /\ ValidMembers(c.modules, c.package.version)
    /\ LET module == Identity \in Ids(c.modules)
       IN  /\ (Ids(c.components) \cap {LeptosIdentity, Identity} # {}) = module
           /\ c.capabilities = IF module THEN Capabilities ELSE {}

ValidPath(p) == p # << >> /\ \A i \in DOMAIN p : p[i] \in Segments

Overlap(p, q) == IsPrefix(p, q) \/ IsPrefix(q, p)

\* A path has one kind of owner, and only integrations may share one.
ValidOwnership(o) ==
    LET claim(i) == o.claims[i]
        managed(i) == claim(i).class = "managed-integration"
    IN  /\ o.default = "application-owned"
        /\ Len(o.claims) <= MaxClaims
        /\ \A i \in DOMAIN o.claims :
              /\ ValidPath(claim(i).path)
              /\ IF managed(i) THEN ValidIdentifier(claim(i).integration) ELSE claim(i).integration = None
        /\ \A i, j \in DOMAIN o.claims : i < j =>
              /\ <<claim(i).path, claim(i).integration>> # <<claim(j).path, claim(j).integration>>
              /\ \/ claim(i).path = claim(j).path /\ managed(i) /\ managed(j)
                 \/ ~Overlap(claim(i).path, claim(j).path)

ValidUpgrade(m) ==
    /\ m.upgrade # None /\ m.composition # None
    /\ ValidFramework(m.upgrade.framework) /\ m.upgrade.framework = m.framework
    /\ ValidIdentifier(m.upgrade.package.id) /\ ValidRelease(m.upgrade.package.version)
    /\ m.upgrade.package = m.composition.package
    /\ ValidOwnership(m.upgrade.ownership)

ValidStructure(m) == m.selected = {} /\ m.composition # None /\ ValidComposition(m.composition, m.framework)

\* Every key is known, and one that is left out is None or empty.
ManifestFields == {"schema", "name", "framework", "selected", "databases", "clients", "composition", "upgrade"}

ValidManifest(m) ==
    /\ DOMAIN m = ManifestFields
    /\ ValidName(m.name) /\ ValidFramework(m.framework)
    /\ CASE m.schema = LegacySchema -> m.composition = None /\ m.upgrade = None /\ ValidLegacySelection(m)
         [] m.schema = CompositionSchema -> m.upgrade = None /\ ValidStructure(m) /\ ValidSelection(m)
         [] m.schema = ManifestSchema -> ValidStructure(m) /\ ValidSelection(m) /\ ValidUpgrade(m)
         [] OTHER -> FALSE

InstalledIds(m) == IF m.composition # None THEN Ids(m.composition.components) ELSE m.selected

\* The order in which a manifest is written, whatever order it was read in.
Sorted(s) == FoldSet(LAMBDA x, acc : Append(acc, x), << >>, Range(s))
Normalize(m) ==
    [m EXCEPT !.composition = IF @ = None THEN None
                              ELSE [@ EXCEPT !.components = Sorted(@), !.modules = Sorted(@)],
              !.upgrade = IF @ = None THEN None ELSE [@ EXCEPT !.ownership.claims = Sorted(@)]]

\* Reading: the text is a manifest, and a valid one.
FromToml(m) == IF m # None /\ ValidManifest(m) THEN Normalize(m) ELSE None

\* Writing: only the current schema is written.
ToToml(m) == IF m.schema = ManifestSchema /\ ValidManifest(m) THEN Normalize(m) ELSE None

RenderedComponents(m, rendered) == rendered = InstalledIds(m)

(***************************************************************************)
(* May a command of the given release change the application?  None stands *)
(* for a manifest that is not valid, which is an error.                    *)
(***************************************************************************)
PolicyFor(version) ==
    [framework |-> [repository |-> "hegira", version |-> version],
     package |-> [id |-> Package, version |-> version]]

MutationCompatibility(m, policy) ==
    CASE m.schema # ManifestSchema -> "unsupported"
      [] ~(ValidName(m.name) /\ ValidFramework(m.framework) /\ ValidStructure(m) /\ ValidUpgrade(m)) -> None
      [] m.framework.repository # policy.framework.repository -> "incompatible"
      [] m.framework.version # policy.framework.version -> "unsupported"
      [] m.composition.package # policy.package -> "unsupported"
      [] \/ ~(Ids(m.composition.components) \subseteq SupportedComponents)
         \/ ~(Ids(m.composition.modules) \subseteq {Identity})
         \/ ~(m.composition.capabilities \subseteq Capabilities) -> "unsupported"
      [] Cardinality(m.databases) # 1 -> "incompatible"
      [] ~(m.databases \subseteq Databases) -> "unsupported"
      [] Cardinality(m.clients) # 1 -> "incompatible"
      [] ~(m.clients \subseteq Clients) -> "unsupported"
      [] OTHER -> "compatible"

\* The schema is looked at before the rest of the text.
Assess(m, policy) ==
    CASE m = None -> None
      [] m # None /\ m.schema # ManifestSchema -> "unsupported"
      [] OTHER -> MutationCompatibility(m, policy)
=============================================================================
