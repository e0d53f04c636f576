----------------------------- MODULE Heartbeat -----------------------------
(***************************************************************************)
(* Model heartbeats (internal/server/heartbeat.go): monitors of an account *)
(* and a model that probe upstream from time to time, and tell the user    *)
(* when the health they see changes.                                       *)
(*                                                                         *)
(* One mutex guards the monitors and the marks of those that run; every    *)
(* method of the manager is one step.  The loop claims all monitors that   *)
(* are due and executes them one after another; an administrator's run     *)
(* executes one beside it.  An execution holds no lock while it probes,    *)
(* and its monitor may be removed, and added again under the same          *)
(* identifier, before it completes.                                        *)
(*                                                                         *)
(* Of the account service only the status of an account is kept, and that  *)
(* Remove takes an account out of memory before it saves.                  *)
(***************************************************************************)
EXTENDS Naturals, FiniteSets, Functions

CONSTANTS
  Accts,             \* local account identifiers, which are never used again
  Monitors,          \* monitor identifiers, derived from account and model
  AccountOf,         \* the account of a monitor
  Loop,              \* the goroutine of heartbeatLoop
  Handlers,          \* admin requests in progress
  Nothing,           \* no monitor, no health
  InitialFiles,      \* heartbeats.json as the first start may find it
  MaxRequests,       \* bound on the number of admin requests in all
  MaxSaveFailures,   \* bound on the number of saves that fail
  MaxCrashes         \* bound on the number of crashes

ASSUME HeartbeatAssumption ==
  /\ AccountOf \in [Monitors -> Accts]
  /\ Loop \notin Handlers
  /\ Nothing \notin Monitors
  /\ MaxRequests \in Nat /\ MaxSaveFailures \in Nat /\ MaxCrashes \in Nat

VARIABLES
  accounts,          \* status of every account: "active", "inactive", "gone", or
                     \* "dropped" when only the memory has forgotten it
  monitors,          \* the health every monitor saw last, by identifier
  due,               \* monitors whose NextRunAt has come
  running,           \* identifiers marked as running
  file,              \* heartbeats.json
  work,              \* what the loop and every handler is doing
  queue,             \* monitors the loop has claimed and not begun
  failures,          \* saves that failed
  requests,          \* admin requests so far
  crashes,           \* crashes so far
  told,              \* history: <<monitor, health>> that the user was told of since the
                     \* monitor last changed to that health
  untold,            \* history: monitors whose last change was never told
  deleted,           \* history: monitors removed and saved, and not added again
  disturbed          \* history: monitors removed while they were executed

environment == <<failures, requests, crashes>>

histories == <<told, untold, deleted, disturbed>>

vars == <<accounts, monitors, due, running, file, work, queue, environment, histories>>

Workers == Handlers \cup {Loop}

\* What heartbeatNotificationKey tells apart: "error" stands for an error code
\* or the answer of another model, "refused" for the code of a 401.
\* The interval, the times and the number of failures decide nothing.
Healths == {"healthy", "error", "refused"}

Idle == [at |-> "idle", id |-> Nothing, health |-> Nothing]

Goes(w, step) == work' = [work EXCEPT ![w].at = step]

\* The loop goes on with its queue, a handler answers.
Done(w) == work' = [work EXCEPT ![w] = Idle]

Known == DOMAIN monitors

\* The account service finds the account.
Present(account) == accounts[account] \in {"active", "inactive"}

ASSUME InitialFilesAssumption ==
  \A initial \in InitialFiles :
    DOMAIN initial \subseteq Monitors /\ initial \in [DOMAIN initial -> Healths \cup {Nothing}]

----------------------------------------------------------------------------
(* Saving, and the methods of heartbeatManager.                            *)

SaveOutcomes == IF failures < MaxSaveFailures THEN BOOLEAN ELSE {TRUE}

Save(saved) ==
  /\ file' = IF saved THEN monitors' ELSE file
  /\ failures' = IF saved THEN failures ELSE failures + 1

\* Executions that were claimed and have not completed.
Executions(id) ==
  {w \in Workers : work[w].id = id /\ work[w].at \in {"look", "probe", "complete"}}

Executed(id) == Cardinality(Executions(id)) + (IF id \in queue THEN 1 ELSE 0)

RemovedMonitors(ids) ==
  /\ monitors' = Restrict(monitors, Known \ ids)
  /\ due' = due \ ids
  /\ running' = running \ ids

\* remove and removeByAccount.
RemoveMonitors(ids, saved) ==
  /\ RemovedMonitors(ids)
  /\ Save(saved)
  /\ deleted' = IF saved THEN deleted \cup ids ELSE deleted
  /\ disturbed' = disturbed \cup {id \in ids : Executed(id) > 0}
  /\ UNCHANGED <<told, untold>>

Upsert(id, saved) ==
  /\ monitors' = [i \in Known \cup {id} |-> IF i \in Known THEN monitors[i] ELSE Nothing]
  /\ due' = due \ {id}
  /\ Save(saved)
  /\ deleted' = deleted \ {id}
  /\ UNCHANGED <<running, told, untold, disturbed>>

Changes(id, health) == monitors[id] # health

\* Fault: a recovery is not told.
ToldFailure(id, health) == Changes(id, health) /\ health # "healthy"

\* A first health is no news when it is good.
ShouldNotify(id, health) ==
  Changes(id, health) /\ (health # "healthy" \/ monitors[id] # Nothing)

\* What the user was told counts no more once the monitor changes, except of the
\* health that the file still has.
StillTold(id, health, saved) == told \ ({id} \X IF saved THEN Healths ELSE {health})

\* The outcome is in memory whether the save fails or not; when it fails the
\* execution ends with an error.
Complete(w, saved) ==
  LET id == work[w].id
      health == work[w].health
  IN
  /\ running' = running \ {id}
  /\ IF id \notin Known
     THEN /\ saved
          /\ Done(w)
          /\ UNCHANGED <<monitors, due, file, failures, histories>>
     ELSE /\ monitors' = [monitors EXCEPT ![id] = health]
          /\ due' = due \ {id}
          /\ Save(saved)
          /\ IF ~saved THEN Done(w)
             ELSE IF ShouldNotify(id, health) THEN Goes(w, "notify")
             ELSE IF work[w].health = "refused" THEN Goes(w, "remove")
             ELSE Done(w)
          /\ told' = IF ~Changes(id, health) THEN told
                     ELSE IF health = "healthy" /\ monitors[id] = Nothing
                          THEN StillTold(id, health, saved) \cup {<<id, health>>}
                     ELSE StillTold(id, health, saved)
          /\ untold' = IF ~Changes(id, health) THEN untold
                       ELSE IF saved THEN untold \ {id} ELSE untold \cup {id}
          /\ UNCHANGED <<deleted, disturbed>>

----------------------------------------------------------------------------
(* executeHeartbeat.                                                       *)

\* The account service is asked for the record, which may fail.
Look(w) ==
  LET account == AccountOf[work[w].id] IN
  /\ work[w].at = "look"
  /\ \/ accounts[account] = "active" /\ Goes(w, "probe")
     \/ work' = [work EXCEPT ![w].at = "complete", ![w].health = "error"]
  /\ UNCHANGED <<accounts, monitors, due, running, file, queue, environment, histories>>

\* EnsureReady and the probe.  Refused credentials mark the account expired.
Probe(w) ==
  LET account == AccountOf[work[w].id] IN
  /\ work[w].at = "probe"
  /\ \/ /\ \E health \in Healths \ {"refused"} :
             work' = [work EXCEPT ![w].at = "complete", ![w].health = health]
        /\ UNCHANGED accounts
     \/ /\ work' = [work EXCEPT ![w].at = "complete", ![w].health = "refused"]
        /\ accounts' = [accounts EXCEPT ![account] = IF Present(account) THEN "inactive" ELSE @]
  /\ UNCHANGED <<monitors, due, running, file, queue, environment, histories>>

\* Fault: an execution that was cancelled stays marked.
Unreleased(id) == UNCHANGED running

Release(id) == running' = running \ {id}

\* The client of a run goes away while it probes.
Cancelled(w) ==
  /\ w # Loop
  /\ work[w].at = "probe"
  /\ Release(work[w].id)
  /\ Done(w)
  /\ UNCHANGED <<accounts, monitors, due, file, queue, environment, histories>>

Completes(w) ==
  /\ work[w].at = "complete"
  /\ \E saved \in SaveOutcomes : Complete(w, saved)
  /\ UNCHANGED <<accounts, queue, requests, crashes>>

Notify(w) ==
  /\ work[w].at = "notify"
  /\ told' = told \cup {<<work[w].id, work[w].health>>}
  /\ IF work[w].health = "refused" THEN Goes(w, "remove") ELSE Done(w)
  /\ UNCHANGED <<accounts, monitors, due, running, file, queue, environment, untold, deleted, disturbed>>

\* accounts.Remove, for refused credentials and for an administrator: only a
\* removal that was saved is followed by that of the monitors.
RemoveAccount(w) ==
  LET account == AccountOf[work[w].id] IN
  /\ work[w].at = "remove"
  /\ \/ /\ Present(account)
        /\ accounts' = [accounts EXCEPT ![account] = "gone"]
        /\ Goes(w, "unwatch")
        /\ UNCHANGED failures
     \/ /\ Present(account) /\ failures < MaxSaveFailures
        /\ accounts' = [accounts EXCEPT ![account] = "dropped"]
        /\ failures' = failures + 1
        /\ Done(w)
     \/ ~Present(account) /\ Done(w) /\ UNCHANGED <<accounts, failures>>
  /\ UNCHANGED <<monitors, due, running, file, queue, requests, crashes, histories>>

\* Fault: the file is not saved.
UnwatchInMemory(w, ids) ==
  /\ RemovedMonitors(ids)
  /\ deleted' = deleted \cup ids
  /\ UNCHANGED <<file, failures, told, untold, disturbed>>

Unwatch(w, ids) == \E saved \in SaveOutcomes : RemoveMonitors(ids, saved)

RemoveByAccount(w) ==
  LET ids == {id \in Known : AccountOf[id] = AccountOf[work[w].id]} IN
  /\ work[w].at = "unwatch"
  /\ IF ids = {} THEN UNCHANGED <<monitors, due, running, file, failures, histories>> ELSE Unwatch(w, ids)
  /\ Done(w)
  /\ UNCHANGED <<accounts, queue, requests, crashes>>

----------------------------------------------------------------------------
(* The loop and the handlers.                                              *)

Begun(w, id) == [Idle EXCEPT !.at = "look", !.id = id]

\* Fault: a monitor that runs is claimed again.
DueAgain == due

Due == due \ running

ClaimDue ==
  /\ work[Loop].at = "idle" /\ queue = {} /\ Due # {}
  /\ queue' = Due
  /\ running' = running \cup Due
  /\ UNCHANGED <<accounts, monitors, due, file, work, environment, histories>>

BeginNext ==
  /\ work[Loop].at = "idle"
  /\ \E id \in queue :
       /\ queue' = queue \ {id}
       /\ work' = [work EXCEPT ![Loop] = Begun(Loop, id)]
  /\ UNCHANGED <<accounts, monitors, due, running, file, environment, histories>>

\* An administrator's request begins.
Requested(w) ==
  /\ w # Loop
  /\ work[w].at = "idle"
  /\ requests < MaxRequests
  /\ requests' = requests + 1

\* handleAdminHeartbeatRun.
RunNow(w, id) ==
  /\ Requested(w)
  /\ id \in Known \ running
  /\ running' = running \cup {id}
  /\ work' = [work EXCEPT ![w] = Begun(w, id)]
  /\ UNCHANGED <<accounts, monitors, due, file, queue, failures, crashes, histories>>

\* handleAdminHeartbeatUpsert asks for the account and then adds the monitor;
\* the account may be removed between the two.
BeginUpsert(w, id) ==
  /\ Requested(w)
  /\ accounts[AccountOf[id]] = "active"
  /\ work' = [work EXCEPT ![w] = [Idle EXCEPT !.at = "upsert", !.id = id]]
  /\ UNCHANGED <<accounts, monitors, due, running, file, queue, failures, crashes, histories>>

EndUpsert(w) ==
  /\ work[w].at = "upsert"
  /\ \E saved \in SaveOutcomes : Upsert(work[w].id, saved)
  /\ Done(w)
  /\ UNCHANGED <<accounts, queue, requests, crashes>>

\* handleAdminHeartbeatDelete.
Delete(w, id) ==
  /\ Requested(w)
  /\ id \in Known
  /\ \E saved \in SaveOutcomes : RemoveMonitors({id}, saved)
  /\ UNCHANGED <<accounts, work, queue, crashes>>

\* handleAdminAccountDelete, of the account of the monitor.
BeginDeleteAccount(w, id) ==
  /\ Requested(w)
  /\ work' = [work EXCEPT ![w] = [Idle EXCEPT !.at = "remove", !.id = id]]
  /\ UNCHANGED <<accounts, monitors, due, running, file, queue, failures, crashes, histories>>

\* A NextRunAt comes.
Time ==
  /\ \E id \in Known \ due : due' = due \cup {id}
  /\ UNCHANGED <<accounts, monitors, running, file, work, queue, environment, histories>>

\* Logins, refreshes and the administrator; any of their saves is of all the
\* accounts.
AccountChanges ==
  /\ \E account \in Accts :
       /\ accounts' = [accounts EXCEPT ![account] =
            CASE @ = "active"   -> "inactive"
              [] @ = "inactive" -> "active"
              [] OTHER          -> "gone"]
  /\ UNCHANGED <<monitors, due, running, file, work, queue, environment, histories>>

\* The process ends and starts again; executions end with it, and with them
\* the notices they were about to give.  A NextRunAt of the file that has come is a
\* matter of Time.
Crash ==
  /\ crashes < MaxCrashes
  /\ crashes' = crashes + 1
  /\ monitors' = file
  /\ due' = due \cap DOMAIN file
  /\ running' = {}
  /\ work' = [w \in Workers |-> Idle]
  /\ queue' = {}
  /\ untold' = untold \cup {work[w].id : w \in {v \in Workers : work[v].at = "notify"}}
  /\ disturbed' = {}
  /\ accounts' = [account \in Accts |-> IF accounts[account] = "dropped" THEN "active" ELSE accounts[account]]
  /\ UNCHANGED <<file, failures, requests, told, deleted>>

----------------------------------------------------------------------------
(* The specification.                                                      *)

Init ==
  /\ accounts = [account \in Accts |-> "active"]
  /\ file \in InitialFiles
  /\ monitors = file
  /\ due = {}
  /\ running = {}
  /\ work = [w \in Workers |-> Idle]
  /\ queue = {}
  /\ failures = 0 /\ requests = 0 /\ crashes = 0
  /\ told = {<<id, monitors[id]>> : id \in {known \in Known : monitors[known] # Nothing}}
  /\ untold = {} /\ deleted = {} /\ disturbed = {}

Steps(w) ==
  \/ Look(w) \/ Probe(w) \/ Completes(w) \/ Notify(w) \/ RemoveAccount(w) \/ RemoveByAccount(w)
  \/ EndUpsert(w)

Next ==
  \/ \E w \in Workers : Steps(w) \/ Cancelled(w)
  \/ ClaimDue \/ BeginNext
  \/ \E w \in Handlers, id \in Monitors :
       RunNow(w, id) \/ BeginUpsert(w, id) \/ Delete(w, id) \/ BeginDeleteAccount(w, id)
  \/ Time \/ AccountChanges \/ Crash

\* The ticker fires every minute, every execution ends by its timeout, and
\* every handler answers.
Fairness ==
  /\ WF_vars(ClaimDue) /\ WF_vars(BeginNext)
  /\ \A w \in Workers : WF_vars(Steps(w))

Spec == Init /\ [][Next]_vars /\ Fairness

----------------------------------------------------------------------------
(* Properties.                                                             *)

\* Types, and only monitors there are are marked.
TypeOK ==
  /\ accounts \in [Accts -> {"active", "inactive", "dropped", "gone"}]
  /\ Known \subseteq Monitors /\ monitors \in [Known -> Healths \cup {Nothing}]
  /\ running \subseteq Known /\ due \subseteq Known
  /\ DOMAIN file \subseteq Monitors /\ file \in [DOMAIN file -> Healths \cup {Nothing}]
  /\ work \in [Workers -> [at: {"idle", "look", "probe", "complete", "notify", "remove", "unwatch",
                                "upsert"},
                           id: Monitors \cup {Nothing}, health: Healths \cup {Nothing}]]
  /\ queue \subseteq Monitors
  /\ failures \in 0..MaxSaveFailures /\ requests \in 0..MaxRequests /\ crashes \in 0..MaxCrashes
  /\ told \subseteq Monitors \X (Healths \cup {Nothing})
  /\ untold \subseteq Monitors /\ deleted \subseteq Monitors /\ disturbed \subseteq Monitors

\* The loop and the administrator never execute a monitor twice at a time,
\* unless it was removed while it was executed.
OneAtATime == \A id \in Monitors \ disturbed : Executed(id) <= 1

\* The user was told of the health a monitor shows, or is about to be, or the
\* save of the change failed, or the process ended before the notice.
HealthIsTold ==
  \A id \in Known \ untold :
    \/ <<id, monitors[id]>> \in told \/ monitors[id] = Nothing
    \/ \E w \in Workers : work[w].at = "notify" /\ work[w].id = id /\ work[w].health = monitors[id]

\* A monitor removed for good, by itself or with its account, does not come
\* back: not by an execution that completes later, nor by a restart.
DeletedStays == deleted \cap (Known \cup DOMAIN file) = {}

\* A monitor that is due is executed, or removed: no mark is left on it by an
\* execution that was cancelled, removed or overtaken.
DueIsExecuted ==
  \A id \in Monitors : id \in due ~> id \notin due

\* What README.md says: a desktop notification on failure, mismatch, or
\* recovery.
EveryChangeIsTold ==
  \A id \in Known :
    \/ <<id, monitors[id]>> \in told \/ monitors[id] = Nothing
    \/ \E w \in Workers : work[w].at = "notify" /\ work[w].id = id /\ work[w].health = monitors[id]

=============================================================================
