--------------------------- MODULE HeartbeatProofs ---------------------------
(***************************************************************************)
(* For every set of monitors, accounts and handlers, and every bound: a    *)
(* monitor is executed once at a time, and one that was deleted stays so.  *)
(***************************************************************************)
EXTENDS Heartbeat, FiniteSetTheorems, TLAPS

-----------------------------------------------------------------------------
(* Types.                                                                  *)

\* Whoever does something does it for a monitor.
Busy == \A w \in Workers : work[w].at # "idle" => work[w].id \in Monitors

Typed == TypeOK /\ Busy

LEMMA TypedInit == Init => Typed
  BY HeartbeatAssumption, InitialFilesAssumption
  DEF Init, Typed, TypeOK, Busy, Idle, Known, Healths, Workers

\* Saving writes what is in memory, or leaves the file as it was.
LEMMA SaveType ==
  ASSUME Typed, NEW saved \in SaveOutcomes, Save(saved),
         Known' \subseteq Monitors, monitors' \in [Known' -> Healths \cup {Nothing}]
  PROVE  /\ DOMAIN file' \subseteq Monitors
         /\ file' \in [DOMAIN file' -> Healths \cup {Nothing}]
         /\ failures' \in 0 .. MaxSaveFailures
<1>1. CASE saved
  BY <1>1 DEF Save, Typed, TypeOK, Known
<1>2. CASE ~saved
  <2>1. failures < MaxSaveFailures
    BY <1>2 DEF SaveOutcomes
  <2>2. failures \in 0 .. MaxSaveFailures
    BY DEF Typed, TypeOK
  <2>3. failures' = failures + 1 /\ file' = file
    BY <1>2 DEF Save
  <2>4. failures + 1 \in 0 .. MaxSaveFailures
    BY <2>1, <2>2, HeartbeatAssumption
  <2> QED BY <2>3, <2>4 DEF Typed, TypeOK
<1> QED BY <1>1, <1>2

LEMMA RemovalType ==
  ASSUME Typed, NEW ids, RemovedMonitors(ids)
  PROVE  /\ Known' = Known \ ids
         /\ monitors' \in [Known' -> Healths \cup {Nothing}]
         /\ running' \subseteq Known' /\ due' \subseteq Known'
<1>1. monitors \in [DOMAIN monitors -> Healths \cup {Nothing}]
      /\ running \subseteq DOMAIN monitors /\ due \subseteq DOMAIN monitors
  BY DEF Typed, TypeOK, Known
<1>2. monitors' = [id \in DOMAIN monitors \ ids |-> monitors[id]]
  BY DEF RemovedMonitors, Restrict, Known
<1>3. DOMAIN monitors' = DOMAIN monitors \ ids
      /\ monitors' \in [DOMAIN monitors \ ids -> Healths \cup {Nothing}]
  BY <1>1, <1>2
<1> QED BY <1>1, <1>3 DEF RemovedMonitors, Known

LEMMA RemoveType ==
  ASSUME Typed, NEW ids \in SUBSET Monitors, NEW saved \in SaveOutcomes, RemoveMonitors(ids, saved)
  PROVE  /\ Known' \subseteq Monitors /\ monitors' \in [Known' -> Healths \cup {Nothing}]
         /\ running' \subseteq Known' /\ due' \subseteq Known'
         /\ DOMAIN file' \subseteq Monitors
         /\ file' \in [DOMAIN file' -> Healths \cup {Nothing}]
         /\ failures' \in 0 .. MaxSaveFailures
         /\ told' \subseteq Monitors \X (Healths \cup {Nothing}) /\ untold' \subseteq Monitors
         /\ deleted' \subseteq Monitors /\ disturbed' \subseteq Monitors
<1>1. /\ Known' = Known \ ids
      /\ monitors' \in [Known' -> Healths \cup {Nothing}]
      /\ running' \subseteq Known' /\ due' \subseteq Known'
  BY RemovalType DEF RemoveMonitors
<1>2. Known' \subseteq Monitors
  BY <1>1 DEF Typed, TypeOK
<1>3. /\ DOMAIN file' \subseteq Monitors
      /\ file' \in [DOMAIN file' -> Healths \cup {Nothing}]
      /\ failures' \in 0 .. MaxSaveFailures
  BY <1>1, <1>2, SaveType DEF RemoveMonitors
<1>4. /\ told' \subseteq Monitors \X (Healths \cup {Nothing}) /\ untold' \subseteq Monitors
      /\ deleted' \subseteq Monitors /\ disturbed' \subseteq Monitors
  BY DEF RemoveMonitors, Typed, TypeOK
<1> QED BY <1>1, <1>2, <1>3, <1>4

LEMMA TypedStep ==
  ASSUME Typed, NEW w \in Workers, Steps(w) \/ Cancelled(w)
  PROVE  Typed'
<1>1. /\ accounts \in [Accts -> {"active", "inactive", "dropped", "gone"}]
      /\ work \in [Workers -> [at: {"idle", "look", "probe", "complete", "notify", "remove",
                                    "unwatch", "upsert"},
                               id: Monitors \cup {Nothing}, health: Healths \cup {Nothing}]]
  BY DEF Typed, TypeOK
<1>2. work[w].at # "idle" => work[w].id \in Monitors
  BY DEF Typed, Busy
<1> USE DEF Goes, Done, Idle
<1>3. CASE Look(w)
  BY <1>1, <1>2, <1>3 DEF Look, Typed, TypeOK, Busy, Known, Healths, environment, histories
<1>4. CASE Probe(w)
  BY <1>1, <1>2, <1>4 DEF Probe, Typed, TypeOK, Busy, Known, Healths, environment, histories, Present
<1>5. CASE Cancelled(w)
  BY <1>1, <1>2, <1>5 DEF Cancelled, Release, Typed, TypeOK, Busy, Known, environment, histories
<1>6. CASE Notify(w)
  BY <1>1, <1>2, <1>6 DEF Notify, Typed, TypeOK, Busy, Known, environment
<1>7. CASE RemoveAccount(w)
  <2>1. failures' \in 0 .. MaxSaveFailures
    BY <1>7, HeartbeatAssumption DEF RemoveAccount, Typed, TypeOK
  <2>2. accounts' \in [Accts -> {"active", "inactive", "dropped", "gone"}]
    BY <1>1, <1>7 DEF RemoveAccount
  <2>3. work' \in [Workers -> [at: {"idle", "look", "probe", "complete", "notify", "remove",
                                    "unwatch", "upsert"},
                               id: Monitors \cup {Nothing}, health: Healths \cup {Nothing}]]
    BY <1>1, <1>7 DEF RemoveAccount
  <2>4. Busy'
    BY <1>1, <1>7 DEF RemoveAccount, Typed, Busy
  <2> QED BY <1>7, <2>1, <2>2, <2>3, <2>4
          DEF RemoveAccount, Typed, TypeOK, Known, histories
<1>8. CASE EndUpsert(w)
  <2> PICK saved \in SaveOutcomes : Upsert(work[w].id, saved)
    BY <1>8 DEF EndUpsert
  <2>1. work[w].id \in Monitors
    BY <1>2, <1>8 DEF EndUpsert
  <2>2. /\ Known' = Known \cup {work[w].id}
        /\ monitors' \in [Known' -> Healths \cup {Nothing}]
    BY DEF Upsert, Typed, TypeOK, Known
  <2>3. Known' \subseteq Monitors
    BY <2>1, <2>2 DEF Typed, TypeOK
  <2>4. /\ DOMAIN file' \subseteq Monitors
        /\ file' \in [DOMAIN file' -> Healths \cup {Nothing}]
        /\ failures' \in 0 .. MaxSaveFailures
    BY <2>2, <2>3, SaveType DEF Upsert
  <2>5. running' \subseteq Known' /\ due' \subseteq Known'
    BY <2>2 DEF Upsert, Typed, TypeOK
  <2>6. work' \in [Workers -> [at: {"idle", "look", "probe", "complete", "notify", "remove",
                                    "unwatch", "upsert"},
                               id: Monitors \cup {Nothing}, health: Healths \cup {Nothing}]]
        /\ Busy'
    BY <1>1, <1>8 DEF EndUpsert, Busy, Typed
  <2> QED BY <1>8, <2>2, <2>3, <2>4, <2>5, <2>6 DEF EndUpsert, Upsert, Typed, TypeOK
<1>9. CASE RemoveByAccount(w)
  <2> DEFINE ids == {id \in Known : AccountOf[id] = AccountOf[work[w].id]}
  <2>1. work' \in [Workers -> [at: {"idle", "look", "probe", "complete", "notify", "remove",
                                    "unwatch", "upsert"},
                               id: Monitors \cup {Nothing}, health: Healths \cup {Nothing}]]
        /\ Busy'
    BY <1>1, <1>9 DEF RemoveByAccount, Busy, Typed
  <2>2. CASE UNCHANGED <<monitors, due, running, file, failures, histories>>
    BY <1>9, <2>1, <2>2 DEF RemoveByAccount, Typed, TypeOK, Known, histories
  <2>3. CASE Unwatch(w, ids)
    <3> PICK saved \in SaveOutcomes : RemoveMonitors(ids, saved)
      BY <2>3 DEF Unwatch
    <3>1. ids \in SUBSET Monitors
      BY DEF Typed, TypeOK
    <3> QED BY <1>9, <2>1, <3>1, RemoveType DEF RemoveByAccount, Typed, TypeOK
  <2> QED BY <1>9, <2>2, <2>3 DEF RemoveByAccount
<1>10. CASE Completes(w)
  <2> PICK saved \in SaveOutcomes : Complete(w, saved)
    BY <1>10 DEF Completes
  <2>1. work[w].id \in Monitors /\ work[w].health \in Healths \cup {Nothing}
    BY <1>1, <1>2, <1>10 DEF Completes
  <2>2. work' \in [Workers -> [at: {"idle", "look", "probe", "complete", "notify", "remove",
                                    "unwatch", "upsert"},
                               id: Monitors \cup {Nothing}, health: Healths \cup {Nothing}]]
        /\ Busy'
    BY <1>1, <1>2, <1>10 DEF Completes, Complete, Busy, Typed
  <2>3. CASE work[w].id \notin Known
    BY <1>10, <2>2, <2>3 DEF Completes, Complete, Typed, TypeOK, Known, histories
  <2>4. CASE work[w].id \in Known
    <3>1. /\ Known' = Known
          /\ monitors' \in [Known' -> Healths \cup {Nothing}]
      BY <2>1, <2>4 DEF Complete, Typed, TypeOK, Known
    <3>2. /\ DOMAIN file' \subseteq Monitors
          /\ file' \in [DOMAIN file' -> Healths \cup {Nothing}]
          /\ failures' \in 0 .. MaxSaveFailures
      BY <2>4, <3>1, SaveType DEF Complete, Typed, TypeOK
    <3>3. running' \subseteq Known' /\ due' \subseteq Known'
      BY <2>4, <3>1 DEF Complete, Typed, TypeOK
    <3>4. /\ told' \subseteq Monitors \X (Healths \cup {Nothing})
          /\ untold' \subseteq Monitors
          /\ deleted' \subseteq Monitors /\ disturbed' \subseteq Monitors
      BY <2>1, <2>4 DEF Complete, StillTold, Typed, TypeOK
    <3> QED BY <1>10, <2>2, <3>1, <3>2, <3>3, <3>4 DEF Completes, Typed, TypeOK
  <2> QED BY <2>3, <2>4
<1> QED BY <1>3, <1>4, <1>5, <1>6, <1>7, <1>8, <1>9, <1>10 DEF Steps

Starts(step, id) == [Idle EXCEPT !.at = step, !.id = id]

LEMMA StartsType ==
  ASSUME NEW id \in Monitors, NEW step \in {"look", "upsert", "remove"}
  PROVE  /\ Starts(step, id) \in [at: {"idle", "look", "probe", "complete", "notify",
                                      "remove", "unwatch", "upsert"},
                                  id: Monitors \cup {Nothing}, health: Healths \cup {Nothing}]
         /\ Starts(step, id).at = step /\ Starts(step, id).id = id
  BY DEF Starts, Idle

LEMMA TypedNext == Typed /\ [Next]_vars => Typed'
<1> SUFFICES ASSUME Typed, [Next]_vars PROVE Typed'
  OBVIOUS
<1>1. /\ work \in [Workers -> [at: {"idle", "look", "probe", "complete", "notify", "remove",
                                    "unwatch", "upsert"},
                               id: Monitors \cup {Nothing}, health: Healths \cup {Nothing}]]
      /\ Loop \in Workers /\ Handlers \subseteq Workers
  BY DEF Typed, TypeOK, Workers
<1>2. CASE ClaimDue
  BY <1>2 DEF ClaimDue, Due, Typed, TypeOK, Busy, Known, environment, histories
<1>3. ASSUME NEW w \in Workers, NEW id \in Monitors, NEW step \in {"look", "upsert", "remove"},
             work' = [work EXCEPT ![w] = Starts(step, id)]
      PROVE  /\ work' \in [Workers -> [at: {"idle", "look", "probe", "complete", "notify",
                                            "remove", "unwatch", "upsert"},
                                       id: Monitors \cup {Nothing}, health: Healths \cup {Nothing}]]
             /\ Busy'
  BY <1>1, <1>3, StartsType DEF Typed, Busy
<1>4. ASSUME NEW w, Requested(w) PROVE requests' \in 0 .. MaxRequests
  BY <1>4, HeartbeatAssumption DEF Requested, Typed, TypeOK
<1>5. CASE BeginNext
  <2> PICK id \in queue : /\ queue' = queue \ {id}
                          /\ work' = [work EXCEPT ![Loop] = Begun(Loop, id)]
    BY <1>5 DEF BeginNext
  <2>1. id \in Monitors
    BY DEF Typed, TypeOK
  <2>2. work' = [work EXCEPT ![Loop] = Starts("look", id)]
    BY DEF Begun, Starts
  <2>3. work' \in [Workers -> [at: {"idle", "look", "probe", "complete", "notify", "remove",
                                    "unwatch", "upsert"},
                               id: Monitors \cup {Nothing}, health: Healths \cup {Nothing}]]
        /\ Busy'
    BY <1>1, <1>3, <2>1, <2>2
  <2> QED BY <1>5, <2>3 DEF BeginNext, Typed, TypeOK, Known, environment, histories
<1>6. ASSUME NEW w \in Handlers, NEW id \in Monitors, RunNow(w, id) PROVE Typed'
  <2>1. work' = [work EXCEPT ![w] = Starts("look", id)]
    BY <1>6 DEF RunNow, Begun, Starts
  <2>2. requests' \in 0 .. MaxRequests
    BY <1>6, <1>4 DEF RunNow
  <2>3. work' \in [Workers -> [at: {"idle", "look", "probe", "complete", "notify", "remove",
                                    "unwatch", "upsert"},
                               id: Monitors \cup {Nothing}, health: Healths \cup {Nothing}]]
        /\ Busy'
    BY <1>1, <1>3, <2>1
  <2> QED BY <1>6, <2>2, <2>3 DEF RunNow, Typed, TypeOK, Known, histories
<1>7. ASSUME NEW w \in Handlers, NEW id \in Monitors, BeginUpsert(w, id) PROVE Typed'
  <2>1. work' = [work EXCEPT ![w] = Starts("upsert", id)]
    BY <1>7 DEF BeginUpsert, Starts
  <2>2. requests' \in 0 .. MaxRequests
    BY <1>7, <1>4 DEF BeginUpsert
  <2>3. work' \in [Workers -> [at: {"idle", "look", "probe", "complete", "notify", "remove",
                                    "unwatch", "upsert"},
                               id: Monitors \cup {Nothing}, health: Healths \cup {Nothing}]]
        /\ Busy'
    BY <1>1, <1>3, <2>1
  <2> QED BY <1>7, <2>2, <2>3 DEF BeginUpsert, Typed, TypeOK, Known, histories
<1>8. ASSUME NEW w \in Handlers, NEW id \in Monitors, BeginDeleteAccount(w, id) PROVE Typed'
  <2>1. work' = [work EXCEPT ![w] = Starts("remove", id)]
    BY <1>8 DEF BeginDeleteAccount, Starts
  <2>2. requests' \in 0 .. MaxRequests
    BY <1>8, <1>4 DEF BeginDeleteAccount
  <2>3. work' \in [Workers -> [at: {"idle", "look", "probe", "complete", "notify", "remove",
                                    "unwatch", "upsert"},
                               id: Monitors \cup {Nothing}, health: Healths \cup {Nothing}]]
        /\ Busy'
    BY <1>1, <1>3, <2>1
  <2> QED BY <1>8, <2>2, <2>3 DEF BeginDeleteAccount, Typed, TypeOK, Known, histories
<1>9. ASSUME NEW w \in Handlers, NEW id \in Monitors, Delete(w, id) PROVE Typed'
  <2> PICK saved \in SaveOutcomes : RemoveMonitors({id}, saved)
    BY <1>9 DEF Delete
  <2>1. requests' \in 0 .. MaxRequests
    BY <1>9, <1>4 DEF Delete
  <2>2. {id} \in SUBSET Monitors
    OBVIOUS
  <2> QED BY <1>9, <2>1, <2>2, RemoveType DEF Delete, Typed, TypeOK, Busy
<1>10. CASE Time
  BY <1>10 DEF Time, Typed, TypeOK, Busy, Known, environment, histories
<1>11. CASE AccountChanges
  <2>1. accounts' \in [Accts -> {"active", "inactive", "dropped", "gone"}]
    BY <1>11 DEF AccountChanges, Typed, TypeOK
  <2> QED BY <1>11, <2>1 DEF AccountChanges, Typed, TypeOK, Busy, Known, environment, histories
<1>12. CASE Crash
  <2>1. accounts' \in [Accts -> {"active", "inactive", "dropped", "gone"}]
    BY <1>12 DEF Crash, Typed, TypeOK
  <2>2. /\ monitors' = file /\ Known' = DOMAIN file
        /\ crashes' \in 0 .. MaxCrashes
    BY <1>12, HeartbeatAssumption DEF Crash, Known, Typed, TypeOK
  <2>3. untold' \subseteq Monitors
    BY <1>1, <1>12 DEF Crash, Typed, TypeOK, Busy
  <2> QED BY <1>1, <1>12, <2>1, <2>2, <2>3 DEF Crash, Idle, Typed, TypeOK, Busy
<1>13. CASE UNCHANGED vars
  BY <1>13 DEF vars, environment, histories, Typed, TypeOK, Busy, Known
<1> QED BY <1>2, <1>5, <1>6, <1>7, <1>8, <1>9, <1>10, <1>11, <1>12, <1>13, TypedStep DEF Next

-----------------------------------------------------------------------------
(* One execution at a time.                                                *)

\* An undisturbed monitor that is executed or claimed is so once, and marked.
Exclusive ==
  \A id \in Monitors \ disturbed :
    /\ \A v, w \in Executions(id) : v = w
    /\ id \in queue => Executions(id) = {}
    /\ id \in queue \/ Executions(id) # {} => id \in running

LEMMA ExecutedIsCounted ==
  ASSUME NEW id,
         \A v, w \in Executions(id) : v = w, id \in queue => Executions(id) = {}
  PROVE  Executed(id) <= 1
<1>1. CASE Executions(id) = {}
  BY <1>1, FS_EmptySet DEF Executed
<1>2. CASE Executions(id) # {}
  <2> PICK w \in Executions(id) : TRUE
    BY <1>2
  <2>1. Executions(id) = {w} /\ id \notin queue
    BY <1>2
  <2>2. Cardinality(Executions(id)) = 1
    BY <2>1, FS_Singleton
  <2> QED BY <2>1, <2>2 DEF Executed
<1> QED BY <1>1, <1>2

\* The condition under which RemoveMonitors leaves a monitor undisturbed.
LEMMA NotExecuted ==
  ASSUME NEW id,
         \A v, w \in Executions(id) : v = w, id \in queue => Executions(id) = {},
         ~(Executed(id) > 0)
  PROVE  id \notin queue /\ Executions(id) = {}
<1>1. CASE Executions(id) = {}
  BY <1>1, FS_EmptySet DEF Executed
<1>2. CASE Executions(id) # {}
  <2> PICK w \in Executions(id) : TRUE
    BY <1>2
  <2>1. Executions(id) = {w} /\ id \notin queue
    BY <1>2
  <2>2. Cardinality(Executions(id)) = 1
    BY <2>1, FS_Singleton
  <2> QED BY <2>1, <2>2 DEF Executed
<1> QED BY <1>1, <1>2

Executing == {"look", "probe", "complete"}

\* A step that begins and ends no execution.
LEMMA SameExecutions ==
  ASSUME NEW w, \A v \in Workers \ {w} : work'[v] = work[v],
         \/ work'[w].id = work[w].id /\ work[w].at \in Executing /\ work'[w].at \in Executing
         \/ work[w].at \notin Executing /\ work'[w].at \notin Executing
  PROVE  \A id : Executions(id)' = Executions(id)
  BY DEF Executions, Executing

\* An execution ends and its mark is released.
LEMMA ExecutionEnds ==
  ASSUME Exclusive, NEW w \in Workers, \A v \in Workers \ {w} : work'[v] = work[v],
         work[w].at \in Executing, work'[w].at \notin Executing,
         running' = running \ {work[w].id}, UNCHANGED <<queue, disturbed>>
  PROVE  Exclusive'
<1> SUFFICES ASSUME NEW id \in Monitors \ disturbed
             PROVE  /\ \A u, v \in Executions(id)' : u = v
                    /\ id \in queue => Executions(id)' = {}
                    /\ id \in queue \/ Executions(id)' # {} => id \in running'
  BY DEF Exclusive
<1>1. /\ \A u, v \in Executions(id) : u = v
      /\ id \in queue => Executions(id) = {}
      /\ id \in queue \/ Executions(id) # {} => id \in running
  BY DEF Exclusive
<1>2. Executions(id)' = Executions(id) \ {w}
  BY DEF Executions, Executing
<1>3. CASE id = work[w].id
  <2>1. w \in Executions(id)
    BY <1>3 DEF Executions, Executing
  <2>2. id \notin queue /\ Executions(id)' = {}
    BY <1>1, <1>2, <2>1
  <2> QED BY <2>2
<1>4. CASE id # work[w].id
  BY <1>1, <1>2, <1>4
<1> QED BY <1>3, <1>4

\* No execution begins or ends, and none loses its mark but to a removal.
LEMMA ExclusiveStays ==
  ASSUME Exclusive, \A id : Executions(id)' = Executions(id), queue' = queue,
         NEW ids, running' = running \ ids,
         disturbed' = disturbed \cup {id \in ids : Executed(id) > 0}
  PROVE  Exclusive'
<1> SUFFICES ASSUME NEW id \in Monitors \ disturbed'
             PROVE  /\ \A u, v \in Executions(id) : u = v
                    /\ id \in queue => Executions(id) = {}
                    /\ id \in queue \/ Executions(id) # {} => id \in running'
  BY DEF Exclusive
<1>1. /\ \A u, v \in Executions(id) : u = v
      /\ id \in queue => Executions(id) = {}
      /\ id \in queue \/ Executions(id) # {} => id \in running
  BY DEF Exclusive
<1>2. CASE id \in ids
  <2>1. ~(Executed(id) > 0)
    BY <1>2
  <2>2. id \notin queue /\ Executions(id) = {}
    BY <1>1, <2>1, NotExecuted
  <2> QED BY <1>1, <2>2
<1>3. CASE id \notin ids
  BY <1>1, <1>3
<1> QED BY <1>2, <1>3

\* Nothing that Exclusive is about changes.
LEMMA ExclusiveUnchanged ==
  ASSUME Exclusive, \A id : Executions(id)' = Executions(id), UNCHANGED <<queue, running, disturbed>>
  PROVE  Exclusive'
  BY DEF Exclusive

\* A monitor that nobody executes is marked and begun.
LEMMA ExecutionBegins ==
  ASSUME Exclusive, NEW w \in Workers, NEW id \in Monitors,
         \A v \in Workers \ {w} : work'[v] = work[v],
         work[w].at \notin Executing, work'[w].at \in Executing, work'[w].id = id,
         queue' \subseteq queue, id \notin queue',
         \/ id \in queue /\ UNCHANGED running
         \/ id \notin running /\ running' = running \cup {id},
         UNCHANGED disturbed
  PROVE  Exclusive'
<1> SUFFICES ASSUME NEW i \in Monitors \ disturbed
             PROVE  /\ \A u, v \in Executions(i)' : u = v
                    /\ i \in queue' => Executions(i)' = {}
                    /\ i \in queue' \/ Executions(i)' # {} => i \in running'
  BY DEF Exclusive
<1>1. /\ \A u, v \in Executions(i) : u = v
      /\ i \in queue => Executions(i) = {}
      /\ i \in queue \/ Executions(i) # {} => i \in running
  BY DEF Exclusive
<1>2. CASE i = id
  <2>1. Executions(i) = {}
    BY <1>1, <1>2
  <2>2. Executions(i)' = Executions(i) \cup {w}
    BY <1>2 DEF Executions, Executing
  <2>3. i \in running'
    BY <1>1, <1>2
  <2> QED BY <1>2, <2>1, <2>2, <2>3
<1>3. CASE i # id
  <2>1. Executions(i)' = Executions(i)
    BY <1>3 DEF Executions, Executing
  <2> QED BY <1>1, <2>1
<1> QED BY <1>2, <1>3

LEMMA ExclusiveWorkerStep ==
  ASSUME Typed, Exclusive, NEW w \in Workers, Steps(w) \/ Cancelled(w)
  PROVE  Exclusive'
<1>1. /\ DOMAIN work = Workers
      /\ work = [v \in Workers |-> work[v]]
      /\ \A v \in Workers : work[v] \in
           [at: {"idle", "look", "probe", "complete", "notify", "remove", "unwatch", "upsert"},
            id: Monitors \cup {Nothing}, health: Healths \cup {Nothing}]
  BY DEF Typed, TypeOK
<1>2. CASE Look(w) \/ Probe(w)
  <2>1. /\ \A v \in Workers \ {w} : work'[v] = work[v]
        /\ work'[w].id = work[w].id /\ work[w].at \in Executing /\ work'[w].at \in Executing
    <3>1. CASE Look(w)
      BY <1>1, <3>1 DEF Look, Goes, Executing
    <3>2. CASE Probe(w)
      <4> PICK health : work' = [work EXCEPT ![w].at = "complete", ![w].health = health]
        BY <3>2 DEF Probe
      <4>1. work[w].at = "probe"
        BY <3>2 DEF Probe
      <4> QED BY <1>1, <4>1 DEF Executing
    <3> QED BY <1>2, <3>1, <3>2
  <2>2. \A id : Executions(id)' = Executions(id)
    BY <2>1, SameExecutions
  <2> QED BY <1>2, <2>2, ExclusiveUnchanged DEF Look, Probe, histories
<1>3. CASE Completes(w) \/ Cancelled(w)
  <2>1. /\ \A v \in Workers \ {w} : work'[v] = work[v]
        /\ work[w].at \in Executing /\ work'[w].at \notin Executing
    BY <1>1, <1>3 DEF Completes, Complete, Cancelled, Goes, Done, Idle, Executing
  <2>2. running' = running \ {work[w].id} /\ UNCHANGED <<queue, disturbed>>
    BY <1>3 DEF Completes, Complete, Cancelled, Release, histories
  <2> QED BY <2>1, <2>2, ExecutionEnds
<1>4. CASE Notify(w) \/ RemoveAccount(w) \/ RemoveByAccount(w) \/ EndUpsert(w)
  <2>1. /\ \A v \in Workers \ {w} : work'[v] = work[v]
        /\ work[w].at \notin Executing /\ work'[w].at \notin Executing
    BY <1>1, <1>4 DEF Notify, RemoveAccount, RemoveByAccount, EndUpsert, Goes, Done, Idle, Executing
  <2>2. \A id : Executions(id)' = Executions(id)
    BY <2>1, SameExecutions
  <2>3. CASE Notify(w) \/ RemoveAccount(w) \/ EndUpsert(w)
    BY <2>2, <2>3, ExclusiveUnchanged DEF Notify, RemoveAccount, EndUpsert, Upsert, histories
  <2>4. CASE RemoveByAccount(w)
    <3> DEFINE ids == {id \in Known : AccountOf[id] = AccountOf[work[w].id]}
    <3>1. CASE UNCHANGED <<monitors, due, running, file, failures, histories>>
      BY <2>2, <2>4, <3>1, ExclusiveUnchanged DEF RemoveByAccount, histories
    <3>2. CASE Unwatch(w, ids)
      <4>1. /\ running' = running \ ids /\ queue' = queue
            /\ disturbed' = disturbed \cup {id \in ids : Executed(id) > 0}
        BY <2>4, <3>2 DEF RemoveByAccount, Unwatch, RemoveMonitors, RemovedMonitors
      <4> QED BY <2>2, <4>1, ExclusiveStays
    <3> QED BY <2>4, <3>1, <3>2 DEF RemoveByAccount
  <2> QED BY <1>4, <2>3, <2>4
<1> QED BY <1>2, <1>3, <1>4 DEF Steps

LEMMA ExclusiveNext == Typed /\ Exclusive /\ [Next]_vars => Exclusive'
<1> SUFFICES ASSUME Typed, Exclusive, [Next]_vars PROVE Exclusive'
  OBVIOUS
<1>1. /\ work \in [Workers -> [at: {"idle", "look", "probe", "complete", "notify", "remove",
                                    "unwatch", "upsert"},
                               id: Monitors \cup {Nothing}, health: Healths \cup {Nothing}]]
      /\ Loop \in Workers /\ Handlers \subseteq Workers /\ queue \subseteq Monitors
  BY DEF Typed, TypeOK, Workers
<1>2. CASE ClaimDue
  <2>1. \A id : Executions(id)' = Executions(id)
    BY <1>2 DEF ClaimDue, Executions
  <2>2. /\ queue' = due \ running /\ running' = running \cup (due \ running)
        /\ UNCHANGED disturbed
    BY <1>2 DEF ClaimDue, Due, histories
  <2>3. ASSUME NEW i \in Monitors \ disturbed
        PROVE  /\ \A u, v \in Executions(i) : u = v
               /\ i \in queue' => Executions(i) = {}
               /\ i \in queue' \/ Executions(i) # {} => i \in running'
    BY <2>2 DEF Exclusive
  <2> QED BY <2>1, <2>2, <2>3 DEF Exclusive
<1>3. CASE BeginNext
  <2> PICK id \in queue : /\ queue' = queue \ {id}
                          /\ work' = [work EXCEPT ![Loop] = Begun(Loop, id)]
    BY <1>3 DEF BeginNext
  <2>1. Begun(Loop, id) = Starts("look", id)
    BY DEF Begun, Starts
  <2>2. /\ id \in Monitors /\ work[Loop].at \notin Executing
        /\ \A v \in Workers \ {Loop} : work'[v] = work[v]
        /\ work'[Loop].at \in Executing /\ work'[Loop].id = id
    BY <1>1, <1>3, <2>1, StartsType DEF BeginNext, Executing
  <2> QED BY <1>1, <1>3, <2>2, ExecutionBegins DEF BeginNext, histories
<1>4. ASSUME NEW w \in Handlers, NEW id \in Monitors, RunNow(w, id) PROVE Exclusive'
  <2>1. /\ work' = [work EXCEPT ![w] = Starts("look", id)] /\ work[w].at = "idle"
        /\ id \notin running /\ running' = running \cup {id} /\ UNCHANGED <<queue, disturbed>>
    BY <1>4 DEF RunNow, Requested, Begun, Starts, histories
  <2>2. /\ w \in Workers /\ work[w].at \notin Executing
        /\ \A v \in Workers \ {w} : work'[v] = work[v]
        /\ work'[w].at \in Executing /\ work'[w].id = id
    BY <1>1, <2>1, StartsType DEF Executing
  <2>3. CASE id \in disturbed
    <3>1. \A i \in Monitors \ disturbed : Executions(i)' = Executions(i)
      BY <2>1, <2>2, <2>3 DEF Executions, Executing
    <3> QED BY <2>1, <2>3, <3>1 DEF Exclusive
  <2>4. CASE id \notin disturbed
    <3>1. id \notin queue
      BY <2>1, <2>4 DEF Exclusive
    <3> QED BY <2>1, <2>2, <3>1, ExecutionBegins
  <2> QED BY <2>3, <2>4
<1>5. ASSUME NEW w \in Handlers, NEW id \in Monitors, BeginUpsert(w, id) \/ BeginDeleteAccount(w, id)
      PROVE  Exclusive'
  <2>1. /\ work[w].at = "idle" /\ UNCHANGED <<queue, running, disturbed>>
        /\ \E step \in {"upsert", "remove"} : work' = [work EXCEPT ![w] = Starts(step, id)]
    BY <1>5 DEF BeginUpsert, BeginDeleteAccount, Requested, Starts, histories
  <2>2. /\ w \in Workers /\ work[w].at \notin Executing
        /\ \A v \in Workers \ {w} : work'[v] = work[v]
        /\ work'[w].at \notin Executing
    BY <1>1, <2>1, StartsType DEF Executing
  <2> QED BY <2>1, <2>2, SameExecutions, ExclusiveUnchanged
<1>6. ASSUME NEW w \in Handlers, NEW id \in Monitors, Delete(w, id) PROVE Exclusive'
  <2>1. \A i : Executions(i)' = Executions(i)
    BY <1>6 DEF Delete, Executions
  <2>2. /\ running' = running \ {id} /\ queue' = queue
        /\ disturbed' = disturbed \cup {i \in {id} : Executed(i) > 0}
    BY <1>6 DEF Delete, RemoveMonitors, RemovedMonitors
  <2> QED BY <2>1, <2>2, ExclusiveStays
<1>7. CASE Time \/ AccountChanges \/ UNCHANGED vars
  <2>1. UNCHANGED <<work, queue, running, disturbed>>
    BY <1>7 DEF Time, AccountChanges, vars, histories
  <2> QED BY <2>1 DEF Exclusive, Executions
<1>8. CASE Crash
  <2>1. \A id : Executions(id)' = {}
    BY <1>8 DEF Crash, Executions, Idle
  <2> QED BY <1>8, <2>1 DEF Crash, Exclusive
<1> QED BY <1>2, <1>3, <1>4, <1>5, <1>6, <1>7, <1>8, ExclusiveWorkerStep DEF Next

LEMMA ExclusiveInit == Init => Exclusive
  BY DEF Init, Exclusive, Executions, Idle

\* Whatever the loop and any number of administrators claim, cancel, remove and
\* add again, and whichever saves fail, no two executions of a monitor overlap
\* that was not removed while it was executed.
THEOREM ExecutionsExclude == Spec => []OneAtATime
<1>1. Exclusive => OneAtATime
  BY ExecutedIsCounted DEF Exclusive, OneAtATime
<1> QED BY <1>1, TypedInit, TypedNext, ExclusiveInit, ExclusiveNext, PTL DEF Spec

-----------------------------------------------------------------------------
(* Deleted monitors.                                                       *)

LEMMA DeletedNext == DeletedStays /\ [Next]_vars => DeletedStays'
<1> SUFFICES ASSUME DeletedStays, [Next]_vars PROVE DeletedStays'
  OBVIOUS
<1> USE DEF DeletedStays, Known
<1>1. CASE UNCHANGED <<monitors, file, deleted>>
  BY <1>1
<1>2. ASSUME NEW ids, NEW saved, RemoveMonitors(ids, saved) PROVE DeletedStays'
  <2>1. DOMAIN monitors' = DOMAIN monitors \ ids
    BY <1>2 DEF RemoveMonitors, RemovedMonitors, Restrict
  <2> QED BY <1>2, <2>1 DEF RemoveMonitors, Save
<1>3. ASSUME NEW w, EndUpsert(w) PROVE DeletedStays'
  BY <1>3 DEF EndUpsert, Upsert, Save
<1>4. ASSUME NEW w, Completes(w) PROVE DeletedStays'
  <2>1. PICK saved \in SaveOutcomes : Complete(w, saved)
    BY <1>4 DEF Completes
  <2>2. CASE work[w].id \in Known
    <3>1. DOMAIN monitors' = DOMAIN monitors /\ Save(saved) /\ deleted' = deleted
      BY <2>1, <2>2 DEF Complete
    <3> QED BY <3>1 DEF Save
  <2>3. CASE work[w].id \notin Known
    BY <1>1, <2>1, <2>3 DEF Complete, histories
  <2> QED BY <2>2, <2>3
<1>5. ASSUME NEW w, RemoveByAccount(w) PROVE DeletedStays'
  BY <1>1, <1>2, <1>5 DEF RemoveByAccount, Unwatch, histories
<1>6. ASSUME NEW w, NEW id, Delete(w, id) PROVE DeletedStays'
  BY <1>2, <1>6 DEF Delete
<1>7. CASE Crash
  BY <1>7 DEF Crash
<1>8. ASSUME NEW w, Look(w) \/ Probe(w) \/ Notify(w) \/ RemoveAccount(w) \/ Cancelled(w)
      PROVE  DeletedStays'
  BY <1>1, <1>8 DEF Look, Probe, Notify, RemoveAccount, Cancelled, histories
<1>9. CASE ClaimDue \/ BeginNext \/ Time \/ AccountChanges \/ UNCHANGED vars
  BY <1>1, <1>9 DEF ClaimDue, BeginNext, Time, AccountChanges, vars, histories
<1>10. ASSUME NEW w, NEW id, RunNow(w, id) \/ BeginUpsert(w, id) \/ BeginDeleteAccount(w, id)
       PROVE  DeletedStays'
  BY <1>1, <1>10 DEF RunNow, BeginUpsert, BeginDeleteAccount, histories
<1> QED BY <1>3, <1>4, <1>5, <1>6, <1>7, <1>8, <1>9, <1>10 DEF Next, Steps

\* A monitor whose removal was saved stays away from memory and from the file,
\* however executions of it, failing saves and crashes follow, until it is
\* added again.
THEOREM RemovalsLast == Spec => []DeletedStays
<1>1. Init => DeletedStays
  BY DEF Init, DeletedStays
<1> QED BY <1>1, DeletedNext, PTL DEF Spec
-----------------------------------------------------------------------------
(* Notices.                                                                *)

\* The user knows of this health of a monitor, or is about to.
ToldOf(id, health) ==
  \/ <<id, health>> \in told
  \/ health = Nothing
  \/ \E w \in Workers : work[w].at = "notify" /\ work[w].id = id /\ work[w].health = health

\* Of the health that is in memory, and of the one that a restart finds.
KnownIsTold == \A id \in Known \ untold : ToldOf(id, monitors[id])
FileIsTold == \A id \in DOMAIN file \ untold : ToldOf(id, file[id])

Telling == KnownIsTold /\ FileIsTold

LEMMA TellingInit == Init => Telling
  BY DEF Init, Telling, KnownIsTold, FileIsTold, ToldOf, Known

\* What the user was told, or is about to be, stays so.
LEMMA ToldStays ==
  ASSUME told \subseteq told',
         \A w \in Workers : work[w].at = "notify" => work'[w] = work[w],
         NEW id, NEW health, ToldOf(id, health)
  PROVE  ToldOf(id, health)'
  BY DEF ToldOf

\* A step that tells nothing and changes no health.
LEMMA TellingStays ==
  ASSUME Telling, told \subseteq told', untold' = untold,
         \A w \in Workers : work[w].at = "notify" => work'[w] = work[w],
         \A id \in Known' : monitors'[id] = Nothing \/ (id \in Known /\ monitors'[id] = monitors[id]),
         file' = file \/ file' = monitors'
  PROVE  Telling'
<1>1. KnownIsTold'
  <2> SUFFICES ASSUME NEW id \in Known' \ untold' PROVE ToldOf(id, monitors[id])'
    BY DEF KnownIsTold
  <2>1. CASE monitors'[id] = Nothing
    BY <2>1 DEF ToldOf
  <2>2. CASE id \in Known /\ monitors'[id] = monitors[id]
    <3> PICK health : health = monitors[id]
      OBVIOUS
    <3>1. ToldOf(id, health)
      BY <2>2 DEF Telling, KnownIsTold
    <3>2. ToldOf(id, health)'
      BY <3>1, ToldStays
    <3> QED BY <2>2, <3>2 DEF ToldOf
  <2> QED BY <2>1, <2>2
<1>2. FileIsTold'
  <2>1. CASE file' = monitors'
    BY <1>1, <2>1 DEF KnownIsTold, FileIsTold, Known, ToldOf
  <2>2. CASE file' = file
    <3> SUFFICES ASSUME NEW id \in DOMAIN file \ untold PROVE ToldOf(id, file[id])'
      BY <2>2 DEF FileIsTold
    <3> PICK health : health = file[id]
      OBVIOUS
    <3>1. ToldOf(id, health)
      BY DEF Telling, FileIsTold
    <3>2. ToldOf(id, health)'
      BY <3>1, ToldStays
    <3> QED BY <2>2, <3>2 DEF ToldOf
  <2> QED BY <2>1, <2>2
<1> QED BY <1>1, <1>2 DEF Telling
\* An execution that stores a health, whether the save succeeds or not.
LEMMA CompletionTells ==
  ASSUME Telling, NEW w \in Workers, Completes(w), DOMAIN work = Workers,
         \A v \in Workers : DOMAIN work[v] = {"at", "id", "health"}
  PROVE  Telling'
<1> PICK saved \in SaveOutcomes : Complete(w, saved)
  BY DEF Completes
<1> PICK id : id = work[w].id
  OBVIOUS
<1> PICK health : health = work[w].health
  OBVIOUS
<1>1. \A v \in Workers : work[v].at = "notify" => work'[v] = work[v]
  BY DEF Completes, Complete, Done, Goes
<1>2. CASE id \notin Known
  <2>1. UNCHANGED <<monitors, file, told, untold>>
    BY <1>2 DEF Complete, histories
  <2> QED BY <1>1, <2>1, TellingStays DEF Known
<1>3. CASE id \in Known /\ ~Changes(id, health)
  <2>1. told' = told /\ untold' = untold /\ Save(saved)
    BY <1>3 DEF Complete
  <2>2. Known' = Known /\ \A i \in Known : monitors'[i] = monitors[i]
    BY <1>3 DEF Complete, Changes, Known
  <2>3. file' = file \/ file' = monitors'
    BY <2>1 DEF Save
  <2> QED BY <1>1, <2>1, <2>2, <2>3, TellingStays
<1>4. CASE id \in Known /\ Changes(id, health)
  <2>1. /\ Known' = Known /\ monitors'[id] = health
        /\ \A i \in Known \ {id} : monitors'[i] = monitors[i]
        /\ Save(saved)
    BY <1>4 DEF Complete, Known
  <2>2. /\ untold' = IF saved THEN untold \ {id} ELSE untold \cup {id}
        /\ \A i : \A h : i # id /\ <<i, h>> \in told => <<i, h>> \in told'
    BY <1>4 DEF Complete, StillTold
  <2>3. ASSUME NEW i, i # id, NEW h, ToldOf(i, h) PROVE ToldOf(i, h)'
    BY <1>1, <2>2, <2>3 DEF ToldOf
  <2>4. saved => ToldOf(id, health)'
    <3> SUFFICES ASSUME saved PROVE ToldOf(id, health)'
      OBVIOUS
    <3>1. CASE ShouldNotify(id, health)
      <4>1. work' = [work EXCEPT ![w].at = "notify"]
        BY <1>4, <3>1 DEF Complete, Goes
      <4>2. work'[w].at = "notify" /\ work'[w].id = id /\ work'[w].health = health
        BY <4>1
      <4> QED BY <4>2 DEF ToldOf
    <3>2. CASE ~ShouldNotify(id, health)
      <4>1. health = "healthy" /\ monitors[id] = Nothing
        BY <1>4, <3>2 DEF ShouldNotify
      <4>2. <<id, health>> \in told'
        BY <1>4, <4>1 DEF Complete
      <4> QED BY <4>2 DEF ToldOf
    <3> QED BY <3>1, <3>2
  <2>5. KnownIsTold'
    <3> SUFFICES ASSUME NEW i \in Known' \ untold' PROVE ToldOf(i, monitors[i])'
      BY DEF KnownIsTold
    <3>1. CASE i = id
      BY <2>1, <2>2, <2>4, <3>1 DEF ToldOf
    <3>2. CASE i # id
      <4> PICK h : h = monitors[i]
        OBVIOUS
      <4>1. ToldOf(i, h)
        BY <2>1, <2>2, <3>2 DEF Telling, KnownIsTold
      <4>2. ToldOf(i, h)'
        BY <2>3, <3>2, <4>1
      <4> QED BY <2>1, <3>2, <4>2 DEF ToldOf
    <3> QED BY <3>1, <3>2
  <2>6. FileIsTold'
    <3>1. CASE saved
      BY <2>1, <2>5, <3>1 DEF Save, KnownIsTold, FileIsTold, Known, ToldOf
    <3>2. CASE ~saved
      <4> SUFFICES ASSUME NEW i \in DOMAIN file \ untold' PROVE ToldOf(i, file[i])'
        BY <2>1, <3>2 DEF Save, FileIsTold
      <4> PICK h : h = file[i]
        OBVIOUS
      <4>1. i # id /\ i \notin untold
        BY <2>2, <3>2
      <4>2. ToldOf(i, h)
        BY <4>1 DEF Telling, FileIsTold
      <4>3. ToldOf(i, h)'
        BY <2>3, <4>1, <4>2
      <4> QED BY <2>1, <3>2, <4>3 DEF Save, ToldOf
    <3> QED BY <3>1, <3>2
  <2> QED BY <2>5, <2>6 DEF Telling
<1> QED BY <1>2, <1>3, <1>4

\* A notice is given: it is told from now on.
LEMMA NoticeTells ==
  ASSUME Telling, NEW w \in Workers, Notify(w), DOMAIN work = Workers
  PROVE  Telling'
<1>1. ASSUME NEW id, NEW health, ToldOf(id, health) PROVE ToldOf(id, health)'
  <2>1. told' = told \cup {<<work[w].id, work[w].health>>}
    BY DEF Notify
  <2>2. \A v \in Workers \ {w} : work'[v] = work[v]
    BY DEF Notify, Goes, Done
  <2> QED BY <1>1, <2>1, <2>2 DEF ToldOf
<1>2. UNCHANGED <<monitors, file, untold>>
  BY DEF Notify
<1>3. KnownIsTold'
  <2> SUFFICES ASSUME NEW id \in Known \ untold PROVE ToldOf(id, monitors[id])'
    BY <1>2 DEF KnownIsTold, Known
  <2> PICK health : health = monitors[id]
    OBVIOUS
  <2>1. ToldOf(id, health)
    BY DEF Telling, KnownIsTold
  <2> QED BY <1>1, <1>2, <2>1 DEF ToldOf
<1>4. FileIsTold'
  <2> SUFFICES ASSUME NEW id \in DOMAIN file \ untold PROVE ToldOf(id, file[id])'
    BY <1>2 DEF FileIsTold
  <2> PICK health : health = file[id]
    OBVIOUS
  <2>1. ToldOf(id, health)
    BY DEF Telling, FileIsTold
  <2> QED BY <1>1, <1>2, <2>1 DEF ToldOf
<1> QED BY <1>3, <1>4 DEF Telling

\* After a crash the file is all there is, and the notices are lost.
LEMMA CrashTells == Telling /\ Crash => Telling'
<1> SUFFICES ASSUME Telling, Crash PROVE Telling'
  OBVIOUS
<1>1. /\ monitors' = file /\ file' = file /\ told' = told
      /\ untold' = untold \cup {work[w].id : w \in {v \in Workers : work[v].at = "notify"}}
  BY DEF Crash
<1>2. ASSUME NEW id \in DOMAIN file \ untold' PROVE <<id, file[id]>> \in told \/ file[id] = Nothing
  <2>1. ToldOf(id, file[id])
    BY <1>1 DEF Telling, FileIsTold
  <2> QED BY <1>1, <2>1 DEF ToldOf
<1> QED BY <1>1, <1>2 DEF Telling, KnownIsTold, FileIsTold, ToldOf, Known

LEMMA TellingNext == Typed /\ Telling /\ [Next]_vars => Telling'
<1> SUFFICES ASSUME Typed, Telling, [Next]_vars PROVE Telling'
  OBVIOUS
<1>1. /\ DOMAIN work = Workers
      /\ \A v \in Workers : DOMAIN work[v] = {"at", "id", "health"}
  BY DEF Typed, TypeOK
<1>2. CASE UNCHANGED <<monitors, file, work, told, untold>>
  BY <1>2, TellingStays DEF Known
<1>3. ASSUME NEW w \in Workers, UNCHANGED <<monitors, file, told, untold>>,
             work[w].at # "notify", \A v \in Workers \ {w} : work'[v] = work[v]
      PROVE  Telling'
  BY <1>3, TellingStays DEF Known
<1>4. ASSUME NEW ids, NEW saved, RemoveMonitors(ids, saved),
             \A v \in Workers : work[v].at = "notify" => work'[v] = work[v]
      PROVE  Telling'
  <2>1. Known' \subseteq Known /\ \A id \in Known' : monitors'[id] = monitors[id]
    BY <1>4 DEF RemoveMonitors, RemovedMonitors, Restrict, Known
  <2>2. told' = told /\ untold' = untold /\ (file' = file \/ file' = monitors')
    BY <1>4 DEF RemoveMonitors, Save
  <2> QED BY <1>4, <2>1, <2>2, TellingStays
<1>5. ASSUME NEW w \in Workers, EndUpsert(w) PROVE Telling'
  <2>1. PICK saved \in SaveOutcomes : Upsert(work[w].id, saved)
    BY <1>5 DEF EndUpsert
  <2>2. \A id \in Known' : monitors'[id] = Nothing \/ (id \in Known /\ monitors'[id] = monitors[id])
    BY <2>1 DEF Upsert, Known
  <2>3. told' = told /\ untold' = untold /\ (file' = file \/ file' = monitors')
    BY <2>1 DEF Upsert, Save
  <2>4. \A v \in Workers : work[v].at = "notify" => work'[v] = work[v]
    BY <1>1, <1>5 DEF EndUpsert, Done
  <2> QED BY <2>2, <2>3, <2>4, TellingStays
<1>6. ASSUME NEW w \in Workers, RemoveByAccount(w) PROVE Telling'
  <2>1. work[w].at # "notify" /\ \A v \in Workers \ {w} : work'[v] = work[v]
    BY <1>1, <1>6 DEF RemoveByAccount, Done
  <2>2. \A v \in Workers : work[v].at = "notify" => work'[v] = work[v]
    BY <2>1
  <2>3. CASE UNCHANGED <<monitors, due, running, file, failures, histories>>
    BY <1>3, <2>1, <2>3 DEF histories
  <2>4. ASSUME NEW ids, Unwatch(w, ids) PROVE Telling'
    BY <1>4, <2>2, <2>4 DEF Unwatch
  <2> QED BY <1>6, <2>3, <2>4 DEF RemoveByAccount
<1>7. ASSUME NEW w \in Handlers, NEW id \in Monitors, Delete(w, id) PROVE Telling'
  BY <1>4, <1>7 DEF Delete
<1>8. ASSUME NEW w \in Workers, Look(w) \/ Probe(w) \/ RemoveAccount(w) \/ Cancelled(w)
      PROVE  Telling'
  <2>1. UNCHANGED <<monitors, file, told, untold>> /\ work[w].at # "notify"
    BY <1>8 DEF Look, Probe, RemoveAccount, Cancelled, histories
  <2>2. \A v \in Workers \ {w} : work'[v] = work[v]
    BY <1>1, <1>8 DEF Look, Probe, RemoveAccount, Cancelled, Goes, Done
  <2> QED BY <1>3, <2>1, <2>2
<1>9. CASE ClaimDue \/ Time \/ AccountChanges \/ UNCHANGED vars
  BY <1>2, <1>9 DEF ClaimDue, Time, AccountChanges, vars, histories
<1>10. CASE BeginNext
  <2>1. /\ UNCHANGED <<monitors, file, told, untold>> /\ Loop \in Workers
        /\ work[Loop].at # "notify" /\ \A v \in Workers \ {Loop} : work'[v] = work[v]
    BY <1>1, <1>10 DEF BeginNext, histories, Workers
  <2> QED BY <1>3, <2>1
<1>11. ASSUME NEW w \in Handlers, NEW id \in Monitors,
              RunNow(w, id) \/ BeginUpsert(w, id) \/ BeginDeleteAccount(w, id)
       PROVE  Telling'
  <2>1. /\ UNCHANGED <<monitors, file, told, untold>> /\ w \in Workers
        /\ work[w].at # "notify" /\ \A v \in Workers \ {w} : work'[v] = work[v]
    BY <1>1, <1>11 DEF RunNow, BeginUpsert, BeginDeleteAccount, Requested, histories, Workers
  <2> QED BY <1>3, <2>1
<1>12. ASSUME NEW w \in Workers, Completes(w) PROVE Telling'
  BY <1>1, <1>12, CompletionTells
<1>13. ASSUME NEW w \in Workers, Notify(w) PROVE Telling'
  BY <1>1, <1>13, NoticeTells
<1>14. CASE Crash
  BY <1>14, CrashTells
<1> QED BY <1>5, <1>6, <1>7, <1>8, <1>9, <1>10, <1>11, <1>12, <1>13, <1>14 DEF Next, Steps

\* Through any number of executions, administrators, failing saves and crashes
\* the health that a monitor shows is one that the user was told of since it
\* changed to it, or is about to be, unless the save of that very change failed
\* or the process ended before the notice.
THEOREM ShownHealthIsTold == Spec => []HealthIsTold
<1>1. Telling => HealthIsTold
  BY DEF Telling, KnownIsTold, ToldOf, HealthIsTold
<1> QED BY <1>1, TypedInit, TypedNext, TellingInit, TellingNext, PTL DEF Spec
=============================================================================
