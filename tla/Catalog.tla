------------------------------ MODULE Catalog ------------------------------
(***************************************************************************)
(* The model catalog (internal/models/catalog.go): which models the proxy  *)
(* offers and which account can serve which.  A route is an account seen   *)
(* by the catalog.  A route's models come from its last successful fetch;  *)
(* a registered route that has not been fetched serves the bootstrap list. *)
(* "visible" is a cache: every operation that changes support or           *)
(* knownRoutes recomputes it, and every lookup trusts it.                  *)
(*                                                                         *)
(* An entry's metadata is reduced to its IsDefault flag; model ids are     *)
(* numbers in the order in which the ids sort.                             *)
(***************************************************************************)
EXTENDS Naturals, Sequences, FiniteSets, FiniteSetsExt, SequencesExt

CONSTANTS
    Models,        \* model ids
    Bootstrap,     \* the built-in list: a sequence of [id, default]
    Configured     \* config.DefaultModel

ASSUME CatalogAssumption ==
    /\ Models \subseteq Nat
    /\ Configured \in Models
    /\ Bootstrap \in Seq([id : Models, default : BOOLEAN]) \ {<<>>}

VARIABLES
    entries,      \* entriesByID: model id -> IsDefault
    support,      \* support: route -> models of its last fetch
    knownRoutes,  \* knownRoutes
    visible       \* visibleIDs

catalogVars == <<entries, support, knownRoutes, visible>>

BootstrapIds == {Bootstrap[i].id : i \in DOMAIN Bootstrap}
BootstrapEntries ==
    [m \in BootstrapIds |->
       \E i \in DOMAIN Bootstrap : Bootstrap[i].id = m /\ Bootstrap[i].default]

\* f overridden by g where g is defined.
Over(f, g) ==
    [x \in DOMAIN f \cup DOMAIN g |-> IF x \in DOMAIN g THEN g[x] ELSE f[x]]

AllSupported(sup) == UNION {sup[r] : r \in DOMAIN sup}

HasUnrefreshedRoutes(sup, routes) == ~(routes \subseteq DOMAIN sup)

\* rebuildVisibleLocked: the ids offered after support and routes changed.
RebuiltVisible(sup, routes) ==
    LET fetched == AllSupported(sup)
    IN  IF HasUnrefreshedRoutes(sup, routes) THEN fetched \cup BootstrapIds
        ELSE IF fetched = {} THEN BootstrapIds
        ELSE fetched

\* rebuildVisibleLocked: bootstrap metadata fills the gaps while a route is
\* unrefreshed, and replaces what is there when nothing was fetched at all.
RebuiltEntries(known, sup, routes) ==
    IF HasUnrefreshedRoutes(sup, routes)
    THEN Over(BootstrapEntries, known)
    ELSE IF AllSupported(sup) = {} THEN Over(known, BootstrapEntries)
    ELSE known

\* A catalog with these metadata, support and routes, its cache rebuilt.
Becomes(known, sup, routes) ==
    /\ support' = sup
    /\ knownRoutes' = routes
    /\ visible' = RebuiltVisible(sup, routes)
    /\ entries' = RebuiltEntries(known, sup, routes)

\* Snapshot: what SaveCache writes.
Snapshot ==
    [models |-> [m \in visible \cap DOMAIN entries |-> entries[m]],
     support |-> support]

\* The snapshot LoadCache returns when there is no file.
NoSnapshot == [models |-> [m \in {} |-> FALSE], support |-> [r \in {} |-> {}]]

\* NormalizeBackendEntries: entries without an id are dropped and the last of
\* several with one id wins.
NormalizeBackendEntries(raw) ==
    [m \in {raw[i].id : i \in DOMAIN raw} \ {0} |->
       raw[Max({i \in DOMAIN raw : raw[i].id = m})].default]

-----------------------------------------------------------------------------
(* The catalog's operations, each under its mutex.                         *)

InitCatalog ==
    /\ entries = BootstrapEntries
    /\ support = [r \in {} |-> {}]
    /\ knownRoutes = {}
    /\ visible = BootstrapIds

\* NewCatalog and LoadCache at the start of a process; a file that cannot be
\* read loads nothing.
LoadCache(snapshot) ==
    Becomes(Over(BootstrapEntries, snapshot.models),
            snapshot.support, DOMAIN snapshot.support)

\* Fault: RegisterRoute does not rebuild the offered list.
RegisterQuietly(r) ==
    /\ knownRoutes' = knownRoutes \cup {r}
    /\ UNCHANGED <<entries, support, visible>>

RegisterRoute(r) ==
    Becomes(entries, support, knownRoutes \cup {r})

ApplyRouteModels(r, fetched) ==
    Becomes(Over(entries, fetched),
            Over(support, [k \in {r} |-> DOMAIN fetched]),
            knownRoutes \cup {r})

-----------------------------------------------------------------------------
(* The catalog's lookups.                                                  *)

\* supportsRecordLocked
SupportsLocked(r, m) ==
    IF DOMAIN support = {} THEN m \in BootstrapIds
    ELSE IF r \in DOMAIN support THEN m \in support[r]
    ELSE r \in knownRoutes /\ m \in BootstrapIds

\* SupportsRecord, the predicate account selection uses.
SupportsRecord(r, m) == m \in visible /\ SupportsLocked(r, m)

\* The first of some models in the order of the list of offered models: sorted,
\* except that the bare bootstrap list keeps its own order.
FirstOffered(ms) ==
    IF DOMAIN support = {} /\ knownRoutes = {}
    THEN SelectSeq(Bootstrap, LAMBDA e : e.id \in ms)[1].id
    ELSE Min(ms)

\* Fault: the default entry offered, whoever supports it.
AnyDefault(r) ==
    LET defaults == {m \in visible \cap DOMAIN entries : entries[m]}
    IN  IF SupportsLocked(r, Configured) \/ defaults = {} THEN Configured
        ELSE FirstOffered(defaults)

\* ResolveDefaultForRecord: the configured model, else the first default entry
\* offered, else the first entry offered, else the first bootstrap entry, that
\* the route supports; the configured model when it supports none of them.
ResolveDefaultForRecord(r) ==
    LET offered == {m \in visible \cap DOMAIN entries : SupportsLocked(r, m)}
        defaults == {m \in offered : entries[m]}
        fallback == SelectSeq(Bootstrap, LAMBDA e : SupportsLocked(r, e.id))
    IN  IF SupportsLocked(r, Configured) THEN Configured
        ELSE IF defaults # {} THEN FirstOffered(defaults)
        ELSE IF offered # {} THEN FirstOffered(offered)
        ELSE IF fallback # <<>> THEN Head(fallback).id
        ELSE Configured

-----------------------------------------------------------------------------
(* Properties.                                                             *)

\* No model is hidden from an account that can serve it: what the support map
\* grants is in the cached list of offered models, with its metadata, in every
\* state, a restart from the cache file included.  The file holds the offered
\* entries and the support map, and is all that a restart has.
NoModelHidden ==
    \A r \in knownRoutes, m \in Models :
      SupportsLocked(r, m) => m \in visible /\ m \in DOMAIN entries

\* A request that names no model is sent to an account with a model that this
\* account was granted, once the account is registered: the default list, the
\* offered list and the bootstrap list may each hold models of other accounts.
DefaultIsServable ==
    \A r \in knownRoutes : SupportsRecord(r, ResolveDefaultForRecord(r))
=============================================================================
