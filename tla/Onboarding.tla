----------------------------- MODULE Onboarding -----------------------------
(***************************************************************************)
(* From a device login to an account that requests can be routed to: the   *)
(* login service (DeviceLogin) adds the account, the model fetcher         *)
(* (internal/models/fetcher.go) finds it on a later sweep, registers its   *)
(* route in the Catalog, asks the backend for its models and saves the     *)
(* catalog's cache file.  The admin removes, disables and re-enables       *)
(* accounts meanwhile, and the process may end at any point.               *)
(*                                                                         *)
(* The fetcher's two loops (every 10 s until a sweep succeeds, then every  *)
(* hour) differ in delays only and are one loop here.                      *)
(***************************************************************************)
EXTENDS DeviceLogin, Catalog

CONSTANTS
    Existing,     \* accounts that were in the file at the start
    Touched,      \* the accounts the admin disables, re-enables and removes
    RawAnswers,   \* what GET /codex/models may return, as entry sequences
    MaxCrashes    \* bound: how often the process ends

ASSUME OnboardingAssumption ==
    /\ Accounts \subseteq Nat   \* in the order in which route keys sort
    /\ Existing \subseteq Accounts
    /\ Touched \subseteq Accounts
    /\ MaxCrashes \in Nat
    /\ \A raw \in RawAnswers : \A i \in DOMAIN raw :
         raw[i].id \in Models \cup {0}   \* 0: no id, slug or name

VARIABLES
    disabled,    \* accounts whose status is not active, or that are cooling
    fetcher,     \* the fetcher's goroutine
    cacheFile,   \* models-cache.json
    crashes      \* how often the process ended

fetchVars == <<disabled, fetcher, cacheFile, crashes>>
vars == <<loginVars, accountVars, catalogVars, fetchVars>>

Idle == [at |-> "idle"]

Init ==
    /\ InitLogins
    /\ known = Existing /\ stored = Existing /\ failures = 0
    /\ InitCatalog
    /\ disabled = {}
    /\ fetcher = Idle
    /\ cacheFile = NoSnapshot
    /\ crashes = 0

-----------------------------------------------------------------------------
(* The fetcher.                                                            *)

\* routeAccounts: the accounts that are active, hold a token and are eligible.
RouteAccounts == known \ disabled

\* A sweep starts.  Its routes are fixed here, their accounts are not; with
\* none there is nothing to do.
Sweep ==
    /\ fetcher.at = "idle"
    /\ RouteAccounts # {}
    /\ fetcher' = [at |-> "registering", routes |-> RouteAccounts,
                   left |-> RouteAccounts]
    /\ UNCHANGED <<loginVars, accountVars, catalogVars, disabled, cacheFile,
                   crashes>>

\* Fault: routes are left for ApplyRouteModels to register.
RegisterNothing ==
    /\ fetcher.at = "registering"
    /\ fetcher' = [at |-> "fetching", left |-> fetcher.routes, got |-> FALSE]
    /\ UNCHANGED <<loginVars, accountVars, catalogVars, disabled, cacheFile,
                   crashes>>

\* RegisterRoute for one route after another, in the order of their keys,
\* before anything is fetched.
Register ==
    /\ fetcher.at = "registering"
    /\ LET r == Min(fetcher.left)
           left == fetcher.left \ {r}
       IN  /\ RegisterRoute(r)
           /\ fetcher' =
                IF left # {} THEN [fetcher EXCEPT !.left = left]
                ELSE [at |-> "fetching", left |-> fetcher.routes, got |-> FALSE]
    /\ UNCHANGED <<loginVars, accountVars, disabled, cacheFile, crashes>>

\* After the last route a sweep saves the cache if a fetch succeeded.
Left(left, got) ==
    IF left # {} THEN [at |-> "fetching", left |-> left, got |-> got]
    ELSE IF got THEN [at |-> "saving"]
    ELSE Idle

\* EnsureReady of the next route's account; one that is gone, disabled or
\* cannot be refreshed is passed over.
Ask ==
    /\ fetcher.at = "fetching"
    /\ LET r == Min(fetcher.left)
       IN  \/ /\ r \in RouteAccounts
              /\ fetcher' = [at |-> "asking", route |-> r,
                             left |-> fetcher.left \ {r}, got |-> fetcher.got]
           \/ fetcher' = Left(fetcher.left \ {r}, fetcher.got)
    /\ UNCHANGED <<loginVars, accountVars, catalogVars, disabled, cacheFile,
                   crashes>>

\* GetCodexModels fails, or returns no usable entry: the route keeps what it
\* had.  Otherwise the catalog gets the route's models, though its account may
\* have been removed since it was asked about.
Fetched ==
    /\ fetcher.at = "asking"
    /\ \/ /\ fetcher' = Left(fetcher.left, fetcher.got)
          /\ UNCHANGED catalogVars
       \/ \E raw \in RawAnswers :
            LET normalized == NormalizeBackendEntries(raw)
            IN  IF DOMAIN normalized = {}
                THEN /\ fetcher' = Left(fetcher.left, fetcher.got)
                     /\ UNCHANGED catalogVars
                ELSE /\ ApplyRouteModels(fetcher.route, normalized)
                     /\ fetcher' = Left(fetcher.left, TRUE)
    /\ UNCHANGED <<loginVars, accountVars, disabled, cacheFile, crashes>>

\* SaveCache writes a temporary file and renames it, or fails and is logged.
Save ==
    /\ fetcher.at = "saving"
    /\ cacheFile' \in {Snapshot, cacheFile}
    /\ fetcher' = Idle
    /\ UNCHANGED <<loginVars, accountVars, catalogVars, disabled, crashes>>

-----------------------------------------------------------------------------
(* The rest of the process.                                                *)

\* DELETE /admin/accounts/:id.  Nothing tells the catalog.
RemoveAccount(a) ==
    /\ a \in known
    /\ known' = known \ {a}
    /\ stored' = known'
    /\ UNCHANGED <<loginVars, failures, catalogVars, fetchVars>>

\* An account is disabled, or cools down, and is active again.
Toggle(a) ==
    /\ a \in known
    /\ disabled' = IF a \in disabled THEN disabled \ {a} ELSE disabled \cup {a}
    /\ UNCHANGED <<loginVars, accountVars, catalogVars, fetcher, cacheFile,
                   crashes>>

\* The process ends and starts again: the catalog is what the built-in list
\* and the cache file make it.
Crash ==
    /\ crashes < MaxCrashes
    /\ crashes' = crashes + 1
    /\ LoginsLost
    /\ LoadCache(cacheFile)
    /\ fetcher' = Idle
    /\ UNCHANGED <<disabled, cacheFile>>

LoginService(l) ==
    /\ \/ Start(l) \/ LoginStep(l) \/ Cancel(l) \/ Expires(l)
    /\ UNCHANGED <<catalogVars, fetchVars>>

Housekeeping == DeleteExpired /\ UNCHANGED <<catalogVars, fetchVars>>

Fetcher == Sweep \/ Register \/ Ask \/ Fetched \/ Save

Next ==
    \/ \E l \in Logins : LoginService(l)
    \/ Housekeeping
    \/ Fetcher
    \/ \E a \in Touched : RemoveAccount(a) \/ Toggle(a)
    \/ Crash

\* A poll goroutine moves on: its calls are bounded by the login's deadline and
\* the client's timeout.  Deadlines pass, housekeeping has its ticker, and the
\* fetcher has its timers and bounded calls.  An upsert holds its mutex for one
\* file write.  Nothing makes a user authorise, or an admin act.
Fairness ==
    /\ \A l \in Logins :
         /\ WF_vars(LoginStep(l) /\ UNCHANGED <<catalogVars, fetchVars>>)
         /\ SF_vars(PollSeesDone(l) /\ UNCHANGED <<catalogVars, fetchVars>>)
         /\ WF_vars(Expires(l) /\ UNCHANGED <<catalogVars, fetchVars>>)
    /\ WF_vars(Housekeeping)
    /\ WF_vars(Fetcher)

Spec == Init /\ [][Next]_vars /\ Fairness

-----------------------------------------------------------------------------
(* Properties.                                                             *)

\* An account that device login added becomes routable: the fetcher's sweeps
\* register every account that stays active, whatever fails for it or for the
\* others, while earlier sweeps are under way and after restarts.  Until its
\* route is registered nothing supports it once any other account was fetched.
NewAccountIsRouted ==
    \A a \in Accounts :
      (a \in RouteAccounts) ~> (a \in knownRoutes \/ a \notin RouteAccounts)
=============================================================================
