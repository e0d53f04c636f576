-------------------------- MODULE OnboardingProofs --------------------------
(***************************************************************************)
(* For every set of logins, accounts, models and answers, every bootstrap  *)
(* list and every bound: what a device login reports is what happened to   *)
(* its account, and the catalog hides no model from a route that has it.   *)
(***************************************************************************)
EXTENDS Onboarding, TLAPS, WellFoundedInduction

-----------------------------------------------------------------------------
(* The login service.                                                      *)

\* Where a goroutine stands tells whether its account was saved and whether
\* its login can still be pending.
PollerAgrees(l) ==
    /\ poller[l].at = "unborn" => l \notin DOMAIN logins
    /\ l \in DOMAIN logins /\ poller[l].at # "ended" => logins[l] = "pending"
    /\ poller[l].at = "storing" => poller[l].account \in Accounts
    /\ poller[l].at = "telling" =>
         \/ poller[l].status = "ready" /\ landed[l] # NoAccount
         \/ poller[l].status = "error" /\ landed[l] = NoAccount
    /\ poller[l].at \notin {"telling", "ended"} => landed[l] = NoAccount

LoginInv ==
    /\ DOMAIN logins \subseteq Logins
    /\ DOMAIN poller = Logins /\ poller = [l \in Logins |-> poller[l]]
    /\ DOMAIN landed = Logins /\ landed = [l \in Logins |-> landed[l]]
    /\ \A l \in Logins : PollerAgrees(l)
    /\ StatusTellsOutcome

LEMMA LoginInit == Init => LoginInv
  BY DEF Init, InitLogins, LoginInv, PollerAgrees, StatusTellsOutcome

LEMMA LoginOperation ==
  ASSUME LoginInv, NEW l \in Logins,
         Start(l) \/ LoginStep(l) \/ Cancel(l) \/ Expires(l)
  PROVE  LoginInv'
<1> USE DEF LoginInv, PollerAgrees, StatusTellsOutcome, At, Goes, Tells
<1>1. CASE Start(l)
  BY <1>1 DEF Start
<1>2. CASE PollSeesDone(l)
  BY <1>2 DEF PollSeesDone, SetStatus
<1>3. CASE PollTicks(l)
  BY <1>3 DEF PollTicks
<1>4. CASE PollAnswered(l)
  BY <1>4 DEF PollAnswered
<1>5. CASE Exchanged(l)
  BY <1>5 DEF Exchanged
<1>6. CASE Stored(l)
  <2>1. poller[l].account \in Accounts /\ poller[l].account # NoAccount
    BY <1>6, LoginAssumption DEF Stored
  <2>2. CASE landed' = [landed EXCEPT ![l] = poller[l].account] /\ Tells(l, "ready")
    BY <1>6, <2>1, <2>2 DEF Stored
  <2>3. CASE UNCHANGED landed /\ Tells(l, "error")
    BY <1>6, <2>3 DEF Stored
  <2> QED BY <1>6, <2>2, <2>3 DEF Stored
<1>7. CASE PollTells(l)
  BY <1>7 DEF PollTells, SetStatus, Status
<1>8. CASE Cancel(l)
  BY <1>8 DEF Cancel, Forgets
<1>9. CASE Expires(l)
  BY <1>9 DEF Expires
<1> QED BY <1>1, <1>2, <1>3, <1>4, <1>5, <1>6, <1>7, <1>8, <1>9 DEF LoginStep

LEMMA LoginNext == LoginInv /\ [Next]_vars => LoginInv'
<1> SUFFICES ASSUME LoginInv, [Next]_vars PROVE LoginInv'
  OBVIOUS
<1>1. CASE \E l \in Logins : LoginService(l)
  BY <1>1, LoginOperation DEF LoginService
<1>2. CASE Housekeeping
  BY <1>2 DEF Housekeeping, DeleteExpired, Forgets, LoginInv, PollerAgrees,
              StatusTellsOutcome
<1>3. CASE Crash
  BY <1>3 DEF Crash, LoginsLost, LoginInv, PollerAgrees, StatusTellsOutcome, At
<1>4. CASE UNCHANGED loginVars
  BY <1>4 DEF loginVars, LoginInv, PollerAgrees, StatusTellsOutcome
<1>5. Fetcher => UNCHANGED loginVars
  BY DEF Fetcher, Sweep, Register, Ask, Fetched, Save
<1>6. ASSUME NEW a, RemoveAccount(a) \/ Toggle(a) PROVE UNCHANGED loginVars
  BY <1>6 DEF RemoveAccount, Toggle
<1>7. UNCHANGED vars => UNCHANGED loginVars
  BY DEF vars
<1> QED BY <1>1, <1>2, <1>3, <1>4, <1>5, <1>6, <1>7 DEF Next

\* A login that reads "ready" had its account saved to the accounts file, and
\* one that reads "error" or "expired" saved none, whatever the goroutines,
\* Cancel, the deadlines, the sweep and restarts do.
THEOREM StatusIsTrue == Spec => []StatusTellsOutcome
<1>1. LoginInv => StatusTellsOutcome
  BY DEF LoginInv
<1> QED BY <1>1, LoginInit, LoginNext, PTL DEF Spec

\* A login is entered once, when its goroutine is born, and what its goroutine
\* recorded is not recorded again: a step that keeps a login which is over
\* keeps its outcome, and no step brings back one that is gone.
THEOREM OutcomesStay == Spec => OutcomeIsFinal
<1> DEFINE Stays(l) ==
      ~At(l, "unborn") /\ l \in DOMAIN logins' =>
        /\ l \in DOMAIN logins
        /\ logins[l] # "pending" => logins'[l] = logins[l]
<1>1. ASSUME LoginInv, [Next]_vars PROVE \A l \in Logins : Stays(l)
  <2> SUFFICES ASSUME NEW l \in Logins PROVE Stays(l)
    OBVIOUS
  <2>1. ASSUME NEW k \in Logins, SetStatus(k, Status, poller[k].status),
               At(k, "telling")
        PROVE  Stays(l)
    BY <1>1, <2>1 DEF SetStatus, LoginInv, PollerAgrees, At
  <2>2. ASSUME NEW k \in Logins, SetStatus(k, {"pending"}, "expired")
        PROVE  Stays(l)
    BY <2>2 DEF SetStatus
  <2>3. ASSUME NEW k \in Logins, LoginStep(k) PROVE Stays(l)
    BY <2>1, <2>2, <2>3 DEF LoginStep, PollSeesDone, PollTicks, PollAnswered,
                            Exchanged, Stored, PollTells
  <2>4. ASSUME NEW k \in Logins, LoginService(k) PROVE Stays(l)
    BY <2>3, <2>4 DEF LoginService, Start, Cancel, Forgets, Expires, At
  <2>5. Housekeeping => Stays(l)
    BY DEF Housekeeping, DeleteExpired, Forgets
  <2>6. Crash => Stays(l)
    BY DEF Crash, LoginsLost
  <2>7. UNCHANGED logins => Stays(l)
    OBVIOUS
  <2>8. Fetcher => UNCHANGED logins
    BY DEF Fetcher, Sweep, Register, Ask, Fetched, Save, loginVars
  <2>9. ASSUME NEW a, RemoveAccount(a) \/ Toggle(a) PROVE UNCHANGED logins
    BY <2>9 DEF RemoveAccount, Toggle, loginVars
  <2>10. UNCHANGED vars => UNCHANGED logins
    BY DEF vars, loginVars
  <2> QED BY <1>1, <2>4, <2>5, <2>6, <2>7, <2>8, <2>9, <2>10 DEF Next
<1> HIDE DEF Stays
<1>2. LoginInv /\ [Next]_vars => [\A l \in Logins : Stays(l)]_logins
  BY <1>1
<1>3. Spec => [][\A l \in Logins : Stays(l)]_logins
  BY <1>2, LoginInit, LoginNext, PTL DEF Spec
<1> QED BY <1>3 DEF OutcomeIsFinal, Stays

-----------------------------------------------------------------------------
(* The catalog.                                                            *)

\* The cached list is what support and knownRoutes make it, and every model
\* in it has its metadata.
CatalogInv ==
    /\ visible = RebuiltVisible(support, knownRoutes)
    /\ visible \subseteq DOMAIN entries

\* A snapshot has the metadata of every model its support map grants: without
\* it a restart would grant models that it cannot offer.
SelfContained(snapshot) ==
    \A r \in DOMAIN snapshot.support :
      snapshot.support[r] \subseteq DOMAIN snapshot.models

OfferInv == CatalogInv /\ SelfContained(cacheFile)

LEMMA OverDomain ==
  ASSUME NEW f, NEW g
  PROVE  DOMAIN Over(f, g) = DOMAIN f \cup DOMAIN g
  BY DEF Over

LEMMA SupportedIsVisible ==
  ASSUME NEW sup, NEW routes, NEW r \in DOMAIN sup
  PROVE  sup[r] \subseteq RebuiltVisible(sup, routes)
  BY DEF RebuiltVisible, AllSupported

LEMMA RebuiltIsWhole ==
  ASSUME NEW old, NEW sup, NEW routes,
         \A r \in DOMAIN sup : sup[r] \subseteq DOMAIN old,
         Becomes(old, sup, routes)
  PROVE  CatalogInv'
<1>1. AllSupported(sup) \subseteq DOMAIN old
  BY DEF AllSupported
<1>2. DOMAIN BootstrapEntries = BootstrapIds
  BY DEF BootstrapEntries
<1>3. RebuiltVisible(sup, routes) \subseteq DOMAIN RebuiltEntries(old, sup, routes)
  <2>1. CASE HasUnrefreshedRoutes(sup, routes)
    BY <2>1, <1>1, <1>2, OverDomain DEF RebuiltVisible, RebuiltEntries
  <2>2. CASE ~HasUnrefreshedRoutes(sup, routes) /\ AllSupported(sup) = {}
    BY <2>2, <1>2, OverDomain DEF RebuiltVisible, RebuiltEntries
  <2>3. CASE ~HasUnrefreshedRoutes(sup, routes) /\ AllSupported(sup) # {}
    BY <2>3, <1>1 DEF RebuiltVisible, RebuiltEntries
  <2> QED BY <2>1, <2>2, <2>3
<1> QED BY <1>3 DEF Becomes, CatalogInv

LEMMA OfferInit == Init => OfferInv
<1> SUFFICES ASSUME Init PROVE OfferInv
  OBVIOUS
<1>1. visible = RebuiltVisible(support, knownRoutes)
  BY DEF Init, InitCatalog, RebuiltVisible, HasUnrefreshedRoutes, AllSupported
<1>2. visible \subseteq DOMAIN entries
  BY DEF Init, InitCatalog, BootstrapEntries
<1>3. SelfContained(cacheFile)
  BY DEF Init, NoSnapshot, SelfContained
<1> QED BY <1>1, <1>2, <1>3 DEF OfferInv, CatalogInv

LEMMA OfferNext == OfferInv /\ [Next]_vars => OfferInv'
<1> SUFFICES ASSUME OfferInv, [Next]_vars PROVE OfferInv'
  OBVIOUS
<1>1. \A r \in DOMAIN support :
        support[r] \subseteq visible /\ support[r] \subseteq DOMAIN entries
  BY SupportedIsVisible DEF OfferInv, CatalogInv
<1>2. CASE UNCHANGED <<catalogVars, cacheFile>>
  BY <1>2 DEF OfferInv, CatalogInv, SelfContained, catalogVars
<1>3. ASSUME NEW r, RegisterRoute(r) PROVE CatalogInv'
  BY <1>1, <1>3, RebuiltIsWhole DEF RegisterRoute
<1>4. ASSUME NEW r, NEW fetched, ApplyRouteModels(r, fetched) PROVE CatalogInv'
  <2> DEFINE sup == Over(support, [k \in {r} |-> DOMAIN fetched])
             old == Over(entries, fetched)
  <2>1. \A s \in DOMAIN sup : sup[s] \subseteq DOMAIN old
    BY <1>1 DEF Over
  <2> QED BY <1>4, <2>1, RebuiltIsWhole DEF ApplyRouteModels
<1>5. CASE Crash
  <2>1. \A r \in DOMAIN cacheFile.support :
          cacheFile.support[r] \subseteq DOMAIN Over(BootstrapEntries, cacheFile.models)
    BY OverDomain DEF OfferInv, SelfContained
  <2>2. CatalogInv'
    BY <1>5, <2>1, RebuiltIsWhole DEF Crash, LoadCache
  <2> QED BY <1>5, <2>2 DEF Crash, OfferInv, SelfContained
<1>6. CASE Register
  BY <1>3, <1>6 DEF Register, OfferInv, SelfContained
<1>7. CASE Fetched
  <2>1. CASE UNCHANGED catalogVars
    BY <1>2, <1>7, <2>1 DEF Fetched
  <2>2. CASE \E fetched : ApplyRouteModels(fetcher.route, fetched)
    BY <1>4, <1>7, <2>2 DEF Fetched, OfferInv, SelfContained
  <2> QED BY <1>7, <2>1, <2>2 DEF Fetched
<1>8. CASE Save
  <2>1. SelfContained(Snapshot)
    BY <1>1 DEF Snapshot, SelfContained
  <2>2. SelfContained(cacheFile')
    BY <1>8, <2>1 DEF Save, OfferInv
  <2> QED BY <1>8, <2>2 DEF Save, catalogVars, OfferInv, CatalogInv, SelfContained
<1>9. CASE Sweep \/ Ask
  BY <1>2, <1>9 DEF Sweep, Ask
<1>10. ASSUME NEW l, LoginService(l) PROVE UNCHANGED <<catalogVars, cacheFile>>
  BY <1>10 DEF LoginService, fetchVars
<1>11. Housekeeping => UNCHANGED <<catalogVars, cacheFile>>
  BY DEF Housekeeping, fetchVars
<1>12. ASSUME NEW a, RemoveAccount(a) \/ Toggle(a)
       PROVE  UNCHANGED <<catalogVars, cacheFile>>
  BY <1>12 DEF RemoveAccount, Toggle, fetchVars
<1>13. UNCHANGED vars => UNCHANGED <<catalogVars, cacheFile>>
  BY DEF vars, fetchVars
<1> QED BY <1>2, <1>5, <1>6, <1>7, <1>8, <1>9, <1>10, <1>11, <1>12, <1>13
        DEF Next, Fetcher

LEMMA OfferIsWhole == OfferInv => NoModelHidden
<1> SUFFICES ASSUME OfferInv, NEW r \in knownRoutes, NEW m \in Models,
                    SupportsLocked(r, m)
             PROVE  m \in visible /\ m \in DOMAIN entries
  BY DEF NoModelHidden
<1>1. CASE r \in DOMAIN support
  BY <1>1, SupportedIsVisible DEF OfferInv, CatalogInv, SupportsLocked
<1>2. CASE r \notin DOMAIN support
  <2>1. m \in BootstrapIds
    BY <1>2 DEF SupportsLocked
  <2>2. HasUnrefreshedRoutes(support, knownRoutes)
    BY <1>2 DEF HasUnrefreshedRoutes
  <2> QED BY <2>1, <2>2 DEF RebuiltVisible, OfferInv, CatalogInv
<1> QED BY <1>1, <1>2

\* Whatever routes are registered, fetched and saved in whatever order, and
\* after any restart, a model that a registered route has is offered.
THEOREM EveryModelIsOffered == Spec => []NoModelHidden
  BY OfferIsWhole, OfferInit, OfferNext, PTL DEF Spec

-----------------------------------------------------------------------------
(* The default model.                                                      *)

\* A route that was fetched has a model: an answer without any is not applied,
\* and the cache file holds what was applied.
Grants(sup) ==
    \A r \in DOMAIN sup : sup[r] # {} /\ sup[r] \subseteq Models

GrantInv == Grants(support) /\ Grants(cacheFile.support)

LEMMA MinIsIn ==
  ASSUME NEW T \in SUBSET Nat, T # {}
  PROVE  Min(T) \in T
<1> DEFINE R == OpToRel(<, Nat)
<1>1. IsWellFoundedOn(R, Nat)
  BY NatLessThanWellFounded
<1>2. \A a, b \in Nat : a < b => <<a, b>> \in R
  BY DEF OpToRel
<1> HIDE DEF R
<1>3. PICK m \in T : \A n \in T : ~(<<n, m>> \in R)
  BY <1>1, WFMin
<1>4. ASSUME NEW n \in T PROVE m <= n
  <2>1. m \in Nat /\ n \in Nat /\ ~(n < m)
    BY <1>2, <1>3
  <2> QED BY <2>1
<1> QED BY <1>4 DEF Min

LEMMA GrantInit == Init => GrantInv
  BY DEF Init, InitCatalog, NoSnapshot, GrantInv, Grants

LEMMA GrantNext == GrantInv /\ [Next]_vars => GrantInv'
<1> SUFFICES ASSUME GrantInv, [Next]_vars PROVE GrantInv'
  OBVIOUS
<1>1. CASE UNCHANGED <<support, cacheFile>>
  BY <1>1 DEF GrantInv, Grants
<1>2. ASSUME NEW r, NEW raw \in RawAnswers,
             DOMAIN NormalizeBackendEntries(raw) # {},
             ApplyRouteModels(r, NormalizeBackendEntries(raw))
      PROVE  Grants(support')
  <2> DEFINE ids == DOMAIN NormalizeBackendEntries(raw)
  <2>1. ids = {raw[i].id : i \in DOMAIN raw} \ {0}
    BY DEF NormalizeBackendEntries
  <2>2. ids \subseteq Models
    BY <2>1, OnboardingAssumption
  <2>3. support' = Over(support, [k \in {r} |-> ids])
    BY <1>2 DEF ApplyRouteModels, Becomes
  <2> HIDE DEF ids
  <2>4. ids # {}
    BY <1>2 DEF ids
  <2> QED BY <2>2, <2>3, <2>4 DEF GrantInv, Grants, Over
<1>3. CASE Register
  BY <1>1, <1>3 DEF Register, RegisterRoute, Becomes
<1>4. CASE Fetched
  <2>1. CASE UNCHANGED catalogVars
    BY <1>1, <1>4, <2>1 DEF Fetched, catalogVars
  <2>2. CASE \E raw \in RawAnswers :
               /\ DOMAIN NormalizeBackendEntries(raw) # {}
               /\ ApplyRouteModels(fetcher.route, NormalizeBackendEntries(raw))
    BY <1>2, <1>4, <2>2 DEF Fetched, GrantInv
  <2> QED BY <1>4, <2>1, <2>2 DEF Fetched
<1>5. CASE Save
  BY <1>5 DEF Save, Snapshot, GrantInv, catalogVars
<1>6. CASE Crash
  BY <1>6 DEF Crash, LoadCache, Becomes, GrantInv
<1>7. CASE Sweep \/ Ask
  BY <1>1, <1>7 DEF Sweep, Ask, catalogVars
<1>8. ASSUME NEW l, LoginService(l) PROVE UNCHANGED <<support, cacheFile>>
  BY <1>8 DEF LoginService, fetchVars, catalogVars
<1>9. Housekeeping => UNCHANGED <<support, cacheFile>>
  BY DEF Housekeeping, fetchVars, catalogVars
<1>10. ASSUME NEW a, RemoveAccount(a) \/ Toggle(a)
       PROVE  UNCHANGED <<support, cacheFile>>
  BY <1>10 DEF RemoveAccount, Toggle, fetchVars, catalogVars
<1>11. UNCHANGED vars => UNCHANGED <<support, cacheFile>>
  BY DEF vars, fetchVars, catalogVars
<1> QED BY <1>1, <1>3, <1>4, <1>5, <1>6, <1>7, <1>8, <1>9, <1>10, <1>11
        DEF Next, Fetcher

LEMMA DefaultIsFound == OfferInv /\ GrantInv => DefaultIsServable
<1> SUFFICES ASSUME OfferInv, GrantInv, NEW r \in knownRoutes
             PROVE  SupportsRecord(r, ResolveDefaultForRecord(r))
  BY DEF DefaultIsServable
<1> DEFINE has == {m \in Models : SupportsLocked(r, m)}
           offered == {m \in visible \cap DOMAIN entries : SupportsLocked(r, m)}
           defaults == {m \in offered : entries[m]}
<1>1. BootstrapIds # {} /\ BootstrapIds \subseteq Models
  <2> DEFINE Entry == [id : Models, default : BOOLEAN]
  <2>1. \A e \in Entry : e.id \in Models
    OBVIOUS
  <2>2. Bootstrap \in Seq(Entry) /\ Bootstrap # <<>>
    BY CatalogAssumption
  <2> HIDE DEF Entry
  <2>3. 1 \in DOMAIN Bootstrap /\ \A i \in DOMAIN Bootstrap : Bootstrap[i] \in Entry
    BY <2>2
  <2> QED BY <2>1, <2>3 DEF BootstrapIds
<1>2. has # {} /\ \A m : SupportsLocked(r, m) => m \in has
  <2>1. CASE r \in DOMAIN support
    BY <2>1 DEF SupportsLocked, GrantInv, Grants
  <2>2. CASE r \notin DOMAIN support
    BY <1>1, <2>2 DEF SupportsLocked
  <2> QED BY <2>1, <2>2
<1>3. \A m \in has : m \in visible /\ m \in DOMAIN entries
  BY OfferIsWhole DEF NoModelHidden
<1>4. offered = has
  BY <1>2, <1>3
<1>5. \A ms \in SUBSET Models : ms # {} => FirstOffered(ms) \in ms
  BY MinIsIn, CatalogAssumption DEF FirstOffered
<1>6. ResolveDefaultForRecord(r) \in has
  <2>1. CASE SupportsLocked(r, Configured)
    BY <1>2, <2>1 DEF ResolveDefaultForRecord
  <2>2. CASE ~SupportsLocked(r, Configured) /\ defaults # {}
    <3>1. ResolveDefaultForRecord(r) = FirstOffered(defaults)
      BY <2>2 DEF ResolveDefaultForRecord
    <3> QED BY <1>4, <1>5, <2>2, <3>1
  <2>3. CASE ~SupportsLocked(r, Configured) /\ defaults = {}
    <3>1. ResolveDefaultForRecord(r) = FirstOffered(offered)
      BY <1>2, <1>4, <2>3 DEF ResolveDefaultForRecord
    <3> QED BY <1>2, <1>4, <1>5, <3>1
  <2> QED BY <2>1, <2>2, <2>3
<1> QED BY <1>3, <1>6 DEF SupportsRecord

\* A request that names no model always finds one at the account it is sent to,
\* once that account's route is registered, whatever was fetched for whom and
\* through any restart.
THEOREM DefaultsAreServed == Spec => []DefaultIsServable
  BY DefaultIsFound, OfferInit, OfferNext, GrantInit, GrantNext, PTL DEF Spec
=============================================================================
