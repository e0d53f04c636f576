--------------------------- MODULE AccountsProofs ---------------------------
(***************************************************************************)
(* For every set of accounts, users, tokens, quota snapshots and every     *)
(* bound: the account service keeps its types, forgets removed accounts    *)
(* for good, keeps its sticky account among its records, has every         *)
(* acknowledged write in the file, selects exactly among the accounts that *)
(* can be routed to, and has one record for each identity.                 *)
(***************************************************************************)
EXTENDS Accounts, FiniteSetTheorems, TLAPS

----------------------------------------------------------------------------
(* What the operators return.                                              *)

LEMMA WindowNormalized ==
  ASSUME NEW window \in Window \cup {None}, NEW t \in Nat
  PROVE  /\ NormalizeWindow(window, t) \in Window \cup {None}
         /\ window \in Window => NormalizeWindow(window, t) \in Window
  BY DEF NormalizeWindow, Window

LEMMA SnapshotKept ==
  ASSUME NEW quota \in Snapshot, NEW t \in Nat
  PROVE  /\ quota.primary \in Window /\ quota.secondary \in Window \cup {None}
         /\ NormalizeSnapshot(quota, t) \in Snapshot
<1>1. quota.primary \in Window /\ quota.secondary \in Window \cup {None}
  BY DEF Snapshot
<1>2. /\ NormalizeWindow(quota.primary, t) \in Window
      /\ NormalizeWindow(quota.secondary, t) \in Window \cup {None}
  BY <1>1, WindowNormalized
<1>3. quota # None
  BY NoneAssumption
<1> QED BY <1>1, <1>2, <1>3 DEF NormalizeSnapshot, Snapshot

LEMMA SnapshotNormalized ==
  ASSUME NEW quota \in Snapshot \cup {None}, NEW t \in Nat
  PROVE  NormalizeSnapshot(quota, t) \in Snapshot \cup {None}
<1>1. CASE quota = None
  BY <1>1 DEF NormalizeSnapshot
<1> QED BY <1>1, SnapshotKept

LEMMA RecordRefreshed ==
  ASSUME NEW record \in Record, now \in Nat
  PROVE  Refreshed(record) \in Record
<1>1. record.quota \in Snapshot \cup {None} /\ record.cooldown \in Instants \cup {None}
  BY DEF Record
<1>2. NormalizeSnapshot(record.quota, now) \in Snapshot \cup {None}
  BY <1>1, SnapshotNormalized
<1>3. ClearExpiredCooldown(record) \in Instants \cup {None}
  BY <1>1 DEF ClearExpiredCooldown
<1> QED BY <1>2, <1>3 DEF Refreshed, Record

LEMMA RecordLoaded ==
  ASSUME NEW stored \in StoredRecord, now \in Nat
  PROVE  NormalizeLoaded(stored) \in Record
<1>1. /\ stored.account \in AccountIDs /\ stored.user \in Users
      /\ stored.status \in Statuses \cup {None} /\ stored.token \in Tokens \cup {NoToken}
      /\ stored.quota \in Snapshot \cup {None} /\ stored.cooldown \in Instants \cup {None}
  BY DEF StoredRecord
<1>2. NormalizeSnapshot(stored.quota, now) \in Snapshot \cup {None}
  BY <1>1, SnapshotNormalized
<1>3. ClearExpiredCooldown(stored) \in Instants \cup {None}
  BY <1>1 DEF ClearExpiredCooldown
<1>4. stored.token # NoToken => ClaimedUser[stored.token] \in Users
  BY <1>1, AccountsAssumption
<1>5. "active" \in Statuses
  BY DEF Statuses
<1> QED BY <1>1, <1>2, <1>3, <1>4, <1>5 DEF NormalizeLoaded, Record

LEMMA SaveCounted ==
  ASSUME failures \in 0..MaxSaveFailures, NEW saved \in SaveOutcomes,
         NEW recs, NEW strat, Save(recs, strat, saved)
  PROVE  saved \in BOOLEAN /\ failures' \in 0..MaxSaveFailures
<1>1. saved \in BOOLEAN
  BY DEF SaveOutcomes
<1>2. CASE saved
  BY <1>1, <1>2 DEF Save
<1>3. CASE ~saved
  <2>1. failures < MaxSaveFailures
    BY <1>3 DEF SaveOutcomes
  <2>2. failures' = failures + 1
    BY <1>3 DEF Save
  <2> QED BY <1>1, <2>1, <2>2, AccountsAssumption
<1> QED BY <1>1, <1>2, <1>3

LEMMA RecordIsStorable == Record \subseteq StoredRecord
  BY DEF Record, StoredRecord

----------------------------------------------------------------------------
(* The inductive invariant: TypeOK bounds the removed and stored           *)
(* identifiers by created, which makes every new identifier fresh.         *)

IInv == TypeOK /\ NoResurrection /\ StickyIsKnown

\* Replacing the record of a known identifier, or adding created + 1, and
\* saving, keeps everything.
Rest == <<strategy, index, sticky, removed, now>>

LEMMA WriteKeepsIInv ==
  ASSUME IInv, NEW op, NEW id, NEW record \in Record,
         records' = Put(id, record),
         Saved(op, id, records', strategy),
         UNCHANGED Rest,
         \/ id \in DOMAIN records /\ created' = created
         \/ id = created + 1 /\ created' = created + 1 /\ created < MaxAccounts
  PROVE  IInv'
<1> USE DEF IInv, TypeOK
<1>1. created \in Nat /\ created' \in 0..MaxAccounts /\ created' >= created /\ MaxAccounts \in Nat
  BY AccountsAssumption
<1>2. DOMAIN records' = DOMAIN records \cup {id} /\ id \in 1..created'
  BY <1>1 DEF Put
<1>3. records' \in [DOMAIN records' -> Record] /\ DOMAIN records' \subseteq 1..created'
  BY <1>1, <1>2 DEF Put
<1>4. \/ disk' = [records |-> records', strategy |-> strategy]
      \/ disk' = disk
  BY DEF Saved, Save
<1>5. records' \in [DOMAIN records' -> StoredRecord]
  BY <1>3, RecordIsStorable
<1>6. /\ disk'.records \in [DOMAIN disk'.records -> StoredRecord]
      /\ DOMAIN disk'.records \subseteq 1..created'
      /\ disk'.strategy \in Strategies \cup {None}
  BY <1>1, <1>3, <1>4, <1>5
<1>7. failures' \in 0..MaxSaveFailures /\ reply'.ok \in BOOLEAN
  <2>1. PICK saved \in SaveOutcomes :
          Save(records', strategy, saved) /\ reply' = [op |-> op, id |-> id, ok |-> saved]
    BY DEF Saved
  <2> QED BY <2>1, SaveCounted
<1>8. NoResurrection'
  <2>1. id \notin removed \/ id \in DOMAIN records
    BY <1>1
  <2>2. DOMAIN disk'.records \subseteq DOMAIN disk.records \cup DOMAIN records \cup {id}
    BY <1>2, <1>4
  <2> QED BY <1>2, <2>1, <2>2 DEF NoResurrection, Rest
<1>9. StickyIsKnown'
  BY <1>2 DEF StickyIsKnown, Rest
<1>10. sticky' \in 1..created' \cup {None} /\ removed' \subseteq 1..created'
  BY <1>1 DEF Rest
<1> QED BY <1>1, <1>3, <1>6, <1>7, <1>8, <1>9, <1>10 DEF Rest

LEMMA UpdateKeepsIInv ==
  ASSUME IInv, NEW op, NEW id \in DOMAIN records, NEW record \in Record, Update(op, id, record)
  PROVE  IInv'
<1>1. records' = Put(id, record)
  BY DEF Update, Put, IInv, TypeOK
<1>2. Saved(op, id, records', strategy) /\ UNCHANGED Rest /\ created' = created
  BY DEF Update, Rest
<1> QED BY <1>1, <1>2, WriteKeepsIInv

LEMMA StutterKeepsIInv ==
  ASSUME IInv, UNCHANGED <<records, strategy, sticky, disk, created, removed, failures>>,
         now' \in 0..MaxTime, index' \in 0..IndexPeriod - 1, reply'.ok \in BOOLEAN
  PROVE  IInv'
  BY DEF IInv, TypeOK, NoResurrection, StickyIsKnown

LEMMA NotFoundKeepsIInv ==
  ASSUME IInv, NEW op, NEW id, NotFound(op, id)
  PROVE  IInv'
  BY StutterKeepsIInv DEF NotFound, IInv, TypeOK

\* A method that saves after clearing what expired.
LEMMA RefreshKeepsIInv ==
  ASSUME IInv, NEW saved \in SaveOutcomes, RefreshAll(saved),
         UNCHANGED <<strategy, sticky, created, removed, now>>,
         index' \in 0..IndexPeriod - 1, reply'.ok \in BOOLEAN
  PROVE  IInv'
<1> USE DEF IInv, TypeOK
<1>1. now \in Nat
  BY AccountsAssumption
<1>2. records' \in [DOMAIN records' -> Record] /\ DOMAIN records' = DOMAIN records
  BY <1>1, RecordRefreshed DEF RefreshAll, RefreshedRecords
<1>3. disk' = [records |-> records', strategy |-> strategy] \/ disk' = disk
  BY DEF RefreshAll, Save, NoSave
<1>4. disk'.records \in [DOMAIN disk'.records -> StoredRecord]
  BY <1>2, <1>3, RecordIsStorable
<1>5. DOMAIN disk'.records \subseteq DOMAIN disk.records \cup DOMAIN records
  BY <1>2, <1>3
<1>6. failures' \in 0..MaxSaveFailures
  <2>1. CASE NoSave
    BY <2>1 DEF NoSave
  <2>2. CASE Save(RefreshedRecords, strategy, saved)
    BY <2>2, SaveCounted
  <2> QED BY <2>1, <2>2 DEF RefreshAll
<1>7. disk'.strategy \in Strategies \cup {None}
  BY <1>3
<1> QED BY <1>2, <1>4, <1>5, <1>6, <1>7 DEF NoResurrection, StickyIsKnown

----------------------------------------------------------------------------
(* Every action keeps it.                                                  *)

LEMMA RestartKeepsIInv == IInv /\ Restart => IInv'
<1> SUFFICES ASSUME IInv, Restart PROVE IInv'
  OBVIOUS
<1> USE DEF IInv, TypeOK
<1>1. now \in Nat
  BY AccountsAssumption
<1>2. records' \in [DOMAIN disk.records -> Record]
  BY <1>1, RecordLoaded DEF Restart, LoadedRecords
<1>3. strategy' \in Strategies
  BY AccountsAssumption DEF Restart, LoadedStrategy
<1>4. disk' = disk \/ disk' = [records |-> records', strategy |-> strategy']
  BY DEF Restart
<1>5. /\ disk'.records \in [DOMAIN disk'.records -> StoredRecord]
      /\ DOMAIN disk'.records = DOMAIN disk.records
      /\ disk'.strategy \in Strategies \cup {None}
  BY <1>2, <1>3, <1>4, RecordIsStorable
<1>6. index' \in 0..IndexPeriod - 1 /\ sticky' = None /\ reply'.ok \in BOOLEAN
  BY AccountsAssumption DEF Restart
<1>7. UNCHANGED <<created, removed, now, failures>>
  BY DEF Restart
<1> QED BY <1>2, <1>3, <1>5, <1>6, <1>7 DEF NoResurrection, StickyIsKnown

LEMMA UpsertKeepsIInv ==
  ASSUME IInv, NEW account \in AccountIDs, NEW token \in Tokens,
         UpsertFromToken(account, token)
  PROVE  IInv'
<1>1. ClaimedUser[token] \in Users
  BY AccountsAssumption
<1>2. CASE UpsertExisting(account, token)
  <2>1. PICK id \in Matches(account, token) :
          /\ records' = Put(id, Reauthenticated(records[id], token))
          /\ Saved("Upsert", id, records', strategy)
    BY <1>2 DEF UpsertExisting
  <2>2. id \in DOMAIN records /\ records[id] \in Record
    BY DEF Matches, IInv, TypeOK
  <2>3. Reauthenticated(records[id], token) \in Record
    BY <1>1, <2>2 DEF Reauthenticated, Record, Statuses
  <2>4. UNCHANGED Rest /\ created' = created
    BY <1>2 DEF UpsertExisting, Rest
  <2> QED BY <2>1, <2>2, <2>3, <2>4, WriteKeepsIInv
<1>3. CASE UpsertNew(account, token)
  <2>1. NewRecord(account, token) \in Record
    BY <1>1 DEF NewRecord, Record, Statuses
  <2>2. UNCHANGED Rest
    BY <1>3 DEF UpsertNew, Rest
  <2> QED BY <1>3, <2>1, <2>2, WriteKeepsIInv DEF UpsertNew
<1> QED BY <1>2, <1>3 DEF UpsertFromToken

LEMMA RemoveKeepsIInv ==
  ASSUME IInv, NEW id, Remove(id)
  PROVE  IInv'
<1>1. CASE id \notin DOMAIN records /\ NotFound("Remove", id)
  BY <1>1, NotFoundKeepsIInv
<1>2. CASE RemoveKnown(id)
  <2> USE DEF IInv, TypeOK
  <2>1. DOMAIN records' = DOMAIN records \ {id} /\ records' \in [DOMAIN records' -> Record]
    BY <1>2 DEF RemoveKnown, Restrict
  <2>2. PICK saved \in SaveOutcomes :
          Save(records', strategy, saved) /\ reply' = [op |-> "Remove", id |-> id, ok |-> saved]
    BY <1>2 DEF RemoveKnown, Saved
  <2>3. saved \in BOOLEAN /\ failures' \in 0..MaxSaveFailures
    BY <2>2, SaveCounted
  <2>4. CASE saved
    <3>1. disk' = [records |-> records', strategy |-> strategy] /\ removed' = removed \cup {id}
      BY <1>2, <2>2, <2>4 DEF Save, RemoveKnown
    <3>2. records' \in [DOMAIN records' -> StoredRecord]
      BY <2>1, RecordIsStorable
    <3>3. id \in 1..created
      BY <1>2 DEF RemoveKnown
    <3> QED BY <1>2, <2>1, <2>2, <2>3, <3>1, <3>2, <3>3
            DEF RemoveKnown, NoResurrection, StickyIsKnown
  <2>5. CASE ~saved
    <3>1. disk' = disk /\ removed' = removed
      BY <1>2, <2>2, <2>5 DEF Save, RemoveKnown
    <3> QED BY <1>2, <2>1, <2>2, <2>3, <3>1 DEF RemoveKnown, NoResurrection, StickyIsKnown
  <2> QED BY <2>3, <2>4, <2>5
<1> QED BY <1>1, <1>2 DEF Remove

LEMMA AcquireKeepsIInv ==
  ASSUME IInv, NEW preferred, NEW allowed, AcquireMatching(preferred, allowed)
  PROVE  IInv'
<1>1. PICK saved \in SaveOutcomes :
        RefreshAll(saved)
  BY DEF AcquireMatching
<1>2. UNCHANGED <<strategy, sticky, created, removed, now>>
  BY DEF AcquireMatching
<1>3. index' \in 0..IndexPeriod - 1
  <2>1. (index + 1) % IndexPeriod \in 0..IndexPeriod - 1
    BY AccountsAssumption DEF IInv, TypeOK
  <2> QED BY <2>1 DEF AcquireMatching, NextIndex, IInv, TypeOK
<1>4. reply'.ok \in BOOLEAN
  <2>1. PICK id, outcome : Acquired(id, preferred, allowed, outcome)
    BY DEF AcquireMatching
  <2>2. (id # None) \in BOOLEAN
    OBVIOUS
  <2> QED BY <2>1, <2>2 DEF Acquired
<1> QED BY <1>1, <1>2, <1>3, <1>4, RefreshKeepsIInv

\* The methods that change one record: each leaves a record.
LEMMA RecordChanged ==
  ASSUME NEW record \in Record, now \in Nat
  PROVE  /\ \A status \in {"active", "disabled"} : Patched(record, status) \in Record
         /\ \A quota \in Snapshot \cup {None} : Observed(record, quota) \in Record
         /\ \A token \in Tokens : Renewed(record, None, token) \in Record
         /\ Marked(record, "expired") \in Record
         /\ \A until \in Nat : [record EXCEPT !.cooldown = until] \in Record
<1>1. ASSUME NEW status \in {"active", "disabled"} PROVE Patched(record, status) \in Record
  BY DEF Patched, Record, Statuses
<1>2. ASSUME NEW quota \in Snapshot \cup {None} PROVE Observed(record, quota) \in Record
  <2>1. NormalizeSnapshot(quota, now) \in Snapshot \cup {None}
    BY SnapshotNormalized
  <2> QED BY <2>1 DEF Observed, Record
<1>3. ASSUME NEW token \in Tokens PROVE Renewed(record, None, token) \in Record
  <2>1. ClaimedUser[token] \in Users
    BY AccountsAssumption
  <2> QED BY <2>1 DEF Renewed, Record, Statuses
<1>4. Marked(record, "expired") \in Record
  BY DEF Marked, Record, Statuses
<1>5. ASSUME NEW until \in Nat PROVE [record EXCEPT !.cooldown = until] \in Record
  BY DEF Record, Instants
<1> QED BY <1>1, <1>2, <1>3, <1>4, <1>5

\* The methods that change one account.
LEMMA ChangeKeepsIInv ==
  ASSUME IInv, NEW id,
         \/ Remove(id) \/ NoteSuccess(id)
         \/ \E status \in {"active", "disabled"} : Patch(id, status)
         \/ \E quota \in ObservedQuotas \cup {None} : ObserveQuota(id, quota)
         \/ \E token \in Tokens : UpdateAuth(id, None, token)
         \/ MarkError(id, "expired")
         \/ \E until \in Nat : SetCooldown(id, until)
  PROVE  IInv'
<1> USE DEF IInv, TypeOK
<1>0. now \in Nat /\ MaxTime \in Nat
  BY AccountsAssumption
<1>1. CASE Remove(id)
  BY <1>1, RemoveKeepsIInv
<1>2. CASE \E op : NotFound(op, id)
  BY <1>2, NotFoundKeepsIInv
<1>3. CASE /\ id \in DOMAIN records
           /\ \E op, record : record \in Record /\ Update(op, id, record)
  BY <1>3, UpdateKeepsIInv
<1>4. CASE NoteSuccess(id)
  BY <1>4 DEF NoteSuccess, NoResurrection, StickyIsKnown
<1> DEFINE Changed == \/ \E op : NotFound(op, id)
                      \/ /\ id \in DOMAIN records
                         /\ \E op, record : record \in Record /\ Update(op, id, record)
<1> USE <1>0, RecordChanged
<1>5. ASSUME NEW status \in {"active", "disabled"}, Patch(id, status) PROVE Changed
  BY <1>5 DEF Patch, Modify
<1>6. ASSUME NEW quota \in ObservedQuotas \cup {None}, ObserveQuota(id, quota) PROVE Changed
  BY <1>6, AccountsAssumption DEF ObserveQuota, Modify
<1>7. ASSUME NEW token \in Tokens, UpdateAuth(id, None, token) PROVE Changed
  BY <1>7 DEF UpdateAuth, Modify
<1>8. ASSUME MarkError(id, "expired") PROVE Changed
  BY <1>8 DEF MarkError, Modify
<1>9. ASSUME NEW until \in Nat, SetCooldown(id, until) PROVE Changed
  BY <1>9 DEF SetCooldown, Modify
<1> QED BY <1>1, <1>2, <1>3, <1>4, <1>5, <1>6, <1>7, <1>8, <1>9

LEMMA ReadKeepsIInv ==
  ASSUME IInv, Read
  PROVE  IInv'
<1>1. PICK saved \in SaveOutcomes :
        /\ RefreshAll(saved)
        /\ reply' = [op |-> "Read", id |-> None, ok |-> saved]
        /\ UNCHANGED <<strategy, index, sticky, created, removed, now>>
  BY DEF Read
<1>2. reply'.ok \in BOOLEAN /\ index' \in 0..IndexPeriod - 1
  BY <1>1 DEF SaveOutcomes, IInv, TypeOK
<1> QED BY <1>1, <1>2, RefreshKeepsIInv

LEMMA NextKeepsIInv == IInv /\ [Next]_vars => IInv'
<1> SUFFICES ASSUME IInv, [Next]_vars PROVE IInv'
  OBVIOUS
<1> USE DEF IInv, TypeOK
<1>0. now \in Nat /\ MaxTime \in Nat
  BY AccountsAssumption
<1>1. CASE Tick
  BY <1>0, <1>1, StutterKeepsIInv DEF Tick
<1>2. CASE Restart
  BY <1>2, RestartKeepsIInv
<1>3. CASE Read
  BY <1>3, ReadKeepsIInv
<1>4. ASSUME NEW account \in AccountIDs, NEW token \in TokensOf[account],
             UpsertFromToken(account, token)
      PROVE  IInv'
  BY <1>4, UpsertKeepsIInv, AccountsAssumption
<1>5. ASSUME NEW strat \in ChosenStrategies, SetRotationStrategy(strat)
      PROVE  IInv'
  <2>1. PICK saved \in SaveOutcomes :
          /\ Save(records, strat, saved)
          /\ reply' = [op |-> "SetRotationStrategy", id |-> None, ok |-> saved]
    BY <1>5 DEF SetRotationStrategy, Saved
  <2>2. saved \in BOOLEAN /\ failures' \in 0..MaxSaveFailures
    BY <2>1, SaveCounted
  <2>3. strat \in Strategies
    BY AccountsAssumption
  <2>4. /\ disk' = [records |-> records, strategy |-> strat] \/ disk' = disk
        /\ strategy' = strat
        /\ UNCHANGED <<records, index, sticky, created, removed, now>>
    BY <1>5, <2>1 DEF SetRotationStrategy, Save
  <2>5. records \in [DOMAIN records -> StoredRecord]
    BY RecordIsStorable
  <2> QED BY <2>1, <2>2, <2>3, <2>4, <2>5 DEF NoResurrection, StickyIsKnown
<1>6. ASSUME NEW preferred, NEW allowed, AcquireMatching(preferred, allowed)
      PROVE  IInv'
  BY <1>6, AcquireKeepsIInv
<1>7. ASSUME NEW id \in 1..created,
             \/ Remove(id)
             \/ \E status \in {"active", "disabled"} : Patch(id, status)
             \/ \E quota \in ObservedQuotas \cup {None} : ObserveQuota(id, quota)
             \/ \E token \in Tokens : RenewedBy(id, token) /\ UpdateAuth(id, None, token)
             \/ MarkError(id, "expired")
             \/ \E length \in {n \in CooldownLengths : now + n <= MaxTime} :
                  SetCooldown(id, now + length)
             \/ NoteSuccess(id)
      PROVE  IInv'
  <2>1. \A length \in CooldownLengths : now + length \in Nat
    BY <1>0, AccountsAssumption
  <2> QED BY <1>7, <2>1, ChangeKeepsIInv
<1>8. CASE UNCHANGED vars
  BY <1>8 DEF vars, NoResurrection, StickyIsKnown
<1> QED BY <1>1, <1>2, <1>3, <1>4, <1>5, <1>6, <1>7, <1>8 DEF Next

LEMMA InitIsIInv == Init => IInv
<1> SUFFICES ASSUME Init PROVE IInv
  OBVIOUS
<1>1. PICK file \in InitialFiles : file = disk
  BY DEF Init
<1>2. IsFile(disk)
  BY <1>1, InitialFilesAssumption
<1>3. now \in Nat /\ now \in 0..MaxTime
  BY AccountsAssumption DEF Init
<1>4. records \in [DOMAIN disk.records -> Record]
  BY <1>2, <1>3, RecordLoaded DEF Init, LoadedRecords, IsFile
<1>5. strategy \in Strategies
  BY <1>2, AccountsAssumption DEF Init, LoadedStrategy, IsFile
<1>6. created \in 0..MaxAccounts /\ DOMAIN disk.records \subseteq 1..created
  BY DEF Init
<1>7. index \in 0..IndexPeriod - 1 /\ failures \in 0..MaxSaveFailures
  BY AccountsAssumption DEF Init
<1> QED BY <1>2, <1>3, <1>4, <1>5, <1>6, <1>7
        DEF Init, IsFile, IInv, TypeOK, NoResurrection, StickyIsKnown

LEMMA AlwaysIInv == Spec => []IInv
<1> QED BY InitIsIInv, NextKeepsIInv, PTL DEF Spec

\* An account whose removal was acknowledged never comes back, in memory or in
\* the file, through failed saves, restarts and new logins (Remove,
\* persistLocked, NewService), for any accounts and any number of failing saves.
THEOREM RemovedStayRemoved == Spec => []NoResurrection
<1>1. IInv => NoResurrection
  BY DEF IInv
<1> QED BY <1>1, AlwaysIInv, PTL

\* The sticky account is one the service still has, though a response may
\* complete after its account was removed (NoteSuccess, Remove).
THEOREM StickyStaysKnown == Spec => []StickyIsKnown
<1>1. IInv => StickyIsKnown
  BY DEF IInv
<1> QED BY <1>1, AlwaysIInv, PTL

\* Every variable keeps its type, whatever file a start finds (NewService), and
\* the file never holds an identifier that was not given out.
THEOREM ServiceKeepsItsTypes == Spec => []TypeOK
<1>1. IInv => TypeOK
  BY DEF IInv
<1> QED BY <1>1, AlwaysIInv, PTL

----------------------------------------------------------------------------
(* Acknowledged writes.                                                    *)

DurableStep ==
  reply'.op \in Writes /\ reply'.ok =>
    disk' = [records |-> records', strategy |-> strategy']

LEMMA SavedIsDurable ==
  ASSUME NEW op, NEW id, NEW strat, Saved(op, id, records', strat), strategy' = strat
  PROVE  DurableStep
<1>1. PICK saved \in SaveOutcomes :
        Save(records', strat, saved) /\ reply' = [op |-> op, id |-> id, ok |-> saved]
  BY DEF Saved
<1>2. saved \in BOOLEAN /\ reply'.ok = saved
  BY <1>1 DEF SaveOutcomes
<1> QED BY <1>1, <1>2 DEF Save, DurableStep

LEMMA NotFoundIsDurable ==
  ASSUME NEW op, NEW id, NotFound(op, id)
  PROVE  DurableStep
  BY DEF NotFound, DurableStep

LEMMA ModifyIsDurable ==
  ASSUME NEW op, NEW id, \/ NotFound(op, id)
                         \/ \E record : Update(op, id, record)
  PROVE  DurableStep
<1>1. CASE \E record : Update(op, id, record)
  BY <1>1, SavedIsDurable DEF Update
<1> QED BY <1>1, NotFoundIsDurable

LEMMA EveryStepIsDurable == Next => DurableStep
<1> SUFFICES ASSUME Next PROVE DurableStep
  OBVIOUS
<1>1. CASE Tick \/ Restart \/ Read
  BY <1>1 DEF Tick, Restart, Read, DurableStep, Writes
<1>2. ASSUME NEW account \in AccountIDs, NEW token \in TokensOf[account],
             UpsertFromToken(account, token)
      PROVE  DurableStep
  <2>1. PICK id : Saved("Upsert", id, records', strategy) /\ strategy' = strategy
    BY <1>2 DEF UpsertFromToken, UpsertExisting, UpsertNew
  <2> QED BY <2>1, SavedIsDurable
<1>3. ASSUME NEW strat \in ChosenStrategies, SetRotationStrategy(strat)
      PROVE  DurableStep
  <2>1. records' = records /\ strategy' = strat
    BY <1>3 DEF SetRotationStrategy
  <2>2. Saved("SetRotationStrategy", None, records', strat)
    BY <1>3, <2>1 DEF SetRotationStrategy
  <2> QED BY <2>1, <2>2, SavedIsDurable
<1>4. ASSUME NEW preferred, NEW allowed, AcquireMatching(preferred, allowed)
      PROVE  DurableStep
  BY <1>4 DEF AcquireMatching, Acquired, DurableStep, Writes
<1>5. ASSUME NEW id, Remove(id) PROVE DurableStep
  <2>1. CASE RemoveKnown(id)
    BY <2>1, SavedIsDurable DEF RemoveKnown
  <2> QED BY <1>5, <2>1, NotFoundIsDurable DEF Remove
<1>6. ASSUME NEW id, NoteSuccess(id) PROVE DurableStep
  BY <1>6 DEF NoteSuccess, DurableStep, Writes
<1>7. ASSUME NEW id,
             \/ \E status \in {"active", "disabled"} : Patch(id, status)
             \/ \E quota \in ObservedQuotas \cup {None} : ObserveQuota(id, quota)
             \/ \E token \in Tokens : UpdateAuth(id, None, token)
             \/ MarkError(id, "expired")
             \/ \E until : SetCooldown(id, until)
      PROVE  DurableStep
  <2>1. PICK op : NotFound(op, id) \/ \E record : Update(op, id, record)
    BY <1>7 DEF Patch, ObserveQuota, UpdateAuth, MarkError, SetCooldown, Modify
  <2> QED BY <2>1, ModifyIsDurable
<1> QED BY <1>1, <1>2, <1>3, <1>4, <1>5, <1>6, <1>7 DEF Next

\* An acknowledged write is in the file with every write before it, whatever
\* saves failed earlier, for every instance (persistLocked saves everything).
THEOREM WritesAreDurable == Spec => AckedIsDurable
<1>1. [Next]_vars => [DurableStep]_vars
  BY EveryStepIsDurable
<1> QED BY <1>1, PTL DEF Spec, AckedIsDurable, DurableStep

----------------------------------------------------------------------------
(* Selection.                                                              *)

\* A window blocks after expiry is applied when its reset is not known past.
LEMMA WindowIsExact ==
  ASSUME NEW t \in Nat
  PROVE  /\ \A window \in Window \cup {None} :
              LimitActive(NormalizeWindow(window, t), t)
                <=> /\ window # None /\ window.limitReached
                    /\ ~(window.reset # None /\ window.reset <= t)
         /\ \A window \in Window :
              AvailabilityBlocked(NormalizeWindow(window, t), t)
                <=> ~window.allowed /\ ~(window.reset # None /\ window.reset <= t)
  BY NoneAssumption DEF LimitActive, AvailabilityBlocked, StillRunning, NormalizeWindow,
                        WindowExpired, Window, Instants

\* Clearing what expired and then asking for eligibility is the same as asking
\* the document's question of the record as it was.
LEMMA RefreshedIsExact ==
  ASSUME NEW record \in Record, now \in Nat
  PROVE  Eligible(Refreshed(record)) <=> Routable(record)
<1>1. /\ record.quota \in Snapshot \cup {None} /\ record.cooldown \in Nat \cup {None}
      /\ None \notin Int
  BY NoneAssumption DEF Record, Instants
<1>2. /\ Refreshed(record).status = record.status
      /\ Refreshed(record).token = record.token
      /\ Refreshed(record).quota = NormalizeSnapshot(record.quota, now)
      /\ Refreshed(record).cooldown = ClearExpiredCooldown(record)
  BY DEF Refreshed, Record
<1>3. ClearExpiredCooldown(record) = None \/ ClearExpiredCooldown(record) <= now
        <=> (record.cooldown # None => record.cooldown <= now)
  BY <1>1 DEF ClearExpiredCooldown
<1>4. ~QuotaBlocks(NormalizeSnapshot(record.quota, now), now)
        <=> /\ record.quota # None =>
                 \A window \in {record.quota.primary, record.quota.secondary} \ {None} :
                   window.limitReached => window.reset # None /\ window.reset <= now
            /\ record.quota # None /\ ~record.quota.primary.allowed =>
                 record.quota.primary.reset # None /\ record.quota.primary.reset <= now
  <2>1. CASE record.quota = None
    BY <2>1 DEF NormalizeSnapshot, QuotaBlocks
  <2>2. CASE record.quota # None
    <3>1. /\ record.quota.primary \in Window /\ record.quota.secondary \in Window \cup {None}
          /\ NormalizeSnapshot(record.quota, now) # None
      BY <1>1, <2>2, SnapshotNormalized, NoneAssumption, SnapshotKept
    <3>2. /\ NormalizeSnapshot(record.quota, now).primary
               = NormalizeWindow(record.quota.primary, now)
          /\ NormalizeSnapshot(record.quota, now).secondary
               = NormalizeWindow(record.quota.secondary, now)
      BY <2>2 DEF NormalizeSnapshot
    <3> QED BY <2>2, <3>1, <3>2, WindowIsExact DEF QuotaBlocks
  <2> QED BY <2>1, <2>2
<1> QED BY <1>2, <1>3, <1>4 DEF Eligible, Routable

\* Every strategy picks one of the candidates.
LEMMA PicksAreCandidates ==
  ASSUME index \in Nat, NEW recs, NEW cands, IsFiniteSet(cands)
  PROVE  StrategyPicks(recs, cands) \subseteq cands
<1>1. RoundRobinPicks(cands) \subseteq cands
  BY DEF RoundRobinPicks
<1>2. LeastUsedPicks(recs, cands) \subseteq cands
  <2> DEFINE ranked == Ranked(recs, cands)
  <2>1. ranked \subseteq cands /\ Cardinality(ranked) \in Nat
    BY FS_Subset, FS_CardinalityType DEF Ranked
  <2>2. ASSUME NEW order \in SortedOrders(recs, ranked), NEW n \in DOMAIN order
        PROVE  order[(index % n) + 1] \in ranked
    <3>1. order \in [1..Cardinality(ranked) -> ranked]
      BY DEF SortedOrders
    <3>2. n \in 1..Cardinality(ranked)
      BY <3>1
    <3>3. (index % n) + 1 \in 1..Cardinality(ranked)
      <4>1. n \in Nat /\ n > 0 /\ n <= Cardinality(ranked)
        BY <2>1, <3>2
      <4>2. index % n \in 0..n - 1
        BY <4>1
      <4> QED BY <2>1, <4>1, <4>2
    <3> QED BY <3>1, <3>3
  <2>3. CASE ranked = {}
    BY <1>1, <2>3 DEF LeastUsedPicks
  <2>4. CASE ranked # {}
    BY <2>1, <2>2, <2>4 DEF LeastUsedPicks
  <2> QED BY <2>3, <2>4
<1> QED BY <1>1, <1>2 DEF StrategyPicks, StickyServes

\* The candidates of a selection, after everything expired was cleared, are the
\* routable accounts the caller allows.
LEMMA CandidatesAreRoutable ==
  ASSUME TypeOK, NEW allowed
  PROVE  /\ Candidates(RefreshedRecords, allowed)
              = {id \in DOMAIN records \cap allowed : Routable(records[id])}
         /\ None \notin Candidates(RefreshedRecords, allowed)
         /\ IsFiniteSet(Candidates(RefreshedRecords, allowed))
<1>1. now \in Nat /\ created \in Nat
  BY AccountsAssumption DEF TypeOK
<1>2. DOMAIN records \subseteq 1..created /\ \A id \in DOMAIN records : records[id] \in Record
  BY DEF TypeOK
<1>3. \A id \in DOMAIN records : Eligible(Refreshed(records[id])) <=> Routable(records[id])
  BY <1>1, <1>2, RefreshedIsExact
<1>4. /\ DOMAIN RefreshedRecords = DOMAIN records
      /\ \A id \in DOMAIN records : RefreshedRecords[id] = Refreshed(records[id])
  BY DEF RefreshedRecords
<1>5. Candidates(RefreshedRecords, allowed)
        = {id \in DOMAIN records \cap allowed : Routable(records[id])}
  BY <1>3, <1>4 DEF Candidates
<1>6. Candidates(RefreshedRecords, allowed) \subseteq 1..created
  BY <1>2, <1>5
<1>7. IsFiniteSet(Candidates(RefreshedRecords, allowed))
  <2>1. IsFiniteSet(1..created)
    BY <1>1, FS_Interval
  <2> QED BY <1>6, <2>1, FS_Subset
<1>8. None \notin Candidates(RefreshedRecords, allowed)
  BY <1>1, <1>6, NoneAssumption
<1> QED BY <1>5, <1>7, <1>8

ExactStep ==
  reply'.op = "Acquire" =>
    /\ reply'.id # None =>
         /\ reply'.id \in DOMAIN records \cap reply'.allowed
         /\ Routable(records[reply'.id])
    /\ reply'.id = None /\ reply'.saved =>
         \A id \in DOMAIN records \cap reply'.allowed : ~Routable(records[id])

LEMMA AcquireIsExactStep ==
  ASSUME TypeOK, NEW preferred, NEW allowed, AcquireMatching(preferred, allowed)
  PROVE  ExactStep
<1> DEFINE cands == Candidates(RefreshedRecords, allowed)
<1>1. /\ cands = {id \in DOMAIN records \cap allowed : Routable(records[id])}
      /\ None \notin cands
      /\ StrategyPicks(RefreshedRecords, cands) \subseteq cands
  <2>1. index \in Nat
    BY AccountsAssumption DEF TypeOK
  <2> QED BY <2>1, CandidatesAreRoutable, PicksAreCandidates
<1> HIDE DEF cands
<1>2. PICK saved, id :
        /\ Acquired(id, preferred, allowed, saved)
        /\ id \in cands \/ (id = None /\ (~saved \/ cands = {}))
  BY <1>1 DEF AcquireMatching, cands
<1>3. reply'.id = id /\ reply'.allowed = allowed /\ reply'.saved = saved
  BY <1>2 DEF Acquired
<1>4. CASE id \in cands
  BY <1>1, <1>3, <1>4 DEF ExactStep
<1>5. CASE id = None /\ (~saved \/ cands = {})
  BY <1>1, <1>3, <1>5 DEF ExactStep
<1> QED BY <1>2, <1>4, <1>5

LEMMA OnlyAcquireSelects == Next =>
  \/ reply'.op # "Acquire"
  \/ \E preferred, allowed : AcquireMatching(preferred, allowed)
<1> SUFFICES ASSUME Next, \A preferred, allowed : ~AcquireMatching(preferred, allowed)
             PROVE  reply'.op # "Acquire"
  OBVIOUS
<1>1. CASE Tick \/ Restart \/ Read
  BY <1>1 DEF Tick, Restart, Read
<1>2. ASSUME NEW op, NEW id, NEW recs, NEW strat, op # "Acquire",
             Saved(op, id, recs, strat) \/ NotFound(op, id)
      PROVE  reply'.op # "Acquire"
  BY <1>2 DEF Saved, NotFound
<1>3. CASE \E account \in AccountIDs : \E token \in TokensOf[account] : UpsertFromToken(account, token)
  BY <1>2, <1>3 DEF UpsertFromToken, UpsertExisting, UpsertNew
<1>4. CASE \E strat \in ChosenStrategies : SetRotationStrategy(strat)
  BY <1>2, <1>4 DEF SetRotationStrategy
<1>5. ASSUME NEW id, Remove(id) \/ NoteSuccess(id) PROVE reply'.op # "Acquire"
  BY <1>2, <1>5 DEF Remove, RemoveKnown, NoteSuccess
<1>6. ASSUME NEW op, NEW id, op # "Acquire", NotFound(op, id) \/ \E record : Update(op, id, record)
      PROVE  reply'.op # "Acquire"
  BY <1>2, <1>6 DEF Update
<1>7. ASSUME NEW id,
             \/ \E status \in {"active", "disabled"} : Patch(id, status)
             \/ \E quota \in ObservedQuotas \cup {None} : ObserveQuota(id, quota)
             \/ \E token \in Tokens : UpdateAuth(id, None, token)
             \/ MarkError(id, "expired")
             \/ \E until : SetCooldown(id, until)
      PROVE  reply'.op # "Acquire"
  <2>1. PICK op : op # "Acquire" /\ (NotFound(op, id) \/ \E record : Update(op, id, record))
    BY <1>7 DEF Patch, ObserveQuota, UpdateAuth, MarkError, SetCooldown, Modify
  <2> QED BY <1>6, <2>1
<1> QED BY <1>1, <1>3, <1>4, <1>5, <1>7 DEF Next

\* A selection returns an allowed account the rotation document lets it route
\* to, and fails only when there is none or the save fails, for every number
\* of accounts, every quota snapshot and every strategy.
THEOREM SelectionIsExact == Spec => AcquireIsExact
<1>1. Init => IInv
  BY InitIsIInv
<1>2. IInv /\ [Next]_vars => IInv'
  BY NextKeepsIInv
<1>3. IInv /\ [Next]_vars => [ExactStep]_vars
  <2>1. ASSUME TypeOK, Next PROVE ExactStep
    BY <2>1, OnlyAcquireSelects, AcquireIsExactStep DEF ExactStep
  <2> QED BY <2>1 DEF IInv
<1> QED BY <1>1, <1>2, <1>3, PTL DEF Spec, AcquireIsExact, ExactStep

----------------------------------------------------------------------------
(* Identities.                                                             *)

UsersOf(account) == {ClaimedUser[token] : token \in TokensOf[account]}

\* Where some token of an account names nobody, all others name one user.
NamelessIsOfOneUser ==
  \A account \in AccountIDs :
    Anonymous \in UsersOf(account) =>
      \A u, v \in UsersOf(account) \ {Anonymous} : u = v

\* The account and the user a stored record has once it is loaded.
Identity(stored) ==
  [account |-> stored.account,
   user    |-> IF stored.user = Anonymous /\ stored.token # NoToken
               THEN ClaimedUser[stored.token] ELSE stored.user]

Identities(recs) == [id \in DOMAIN recs |-> Identity(recs[id])]

\* Records of one upstream account are of different named users, all of whose
\* tokens name them: a record of an unknown user, or of an account whose tokens
\* may name nobody, is the only one of its account, and the latter is of the
\* user that the others name.
Apart(recs) ==
  \A i \in DOMAIN recs :
    LET account == recs[i].account
        user == recs[i].user
    IN /\ \A j \in DOMAIN recs \ {i} :
            recs[j].account = account =>
              recs[j].user # user /\ user # Anonymous /\ Anonymous \notin UsersOf(account)
       /\ Anonymous \in UsersOf(account) /\ user # Anonymous =>
            UsersOf(account) \subseteq {user, Anonymous}

\* A user that a token in memory names is known.
UsersLearnt ==
  \A id \in DOMAIN records :
    records[id].user = Anonymous /\ records[id].token # NoToken =>
      ClaimedUser[records[id].token] = Anonymous

KnownApart == Apart(records) /\ UsersLearnt /\ Apart(Identities(disk.records))

LEMMA LoadedIsApart ==
  ASSUME NEW file, NEW recs, Apart(Identities(file.records)), recs = LoadedRecords(file)
  PROVE  /\ Apart(recs)
         /\ \A id \in DOMAIN recs :
              recs[id].user = Anonymous /\ recs[id].token # NoToken =>
                ClaimedUser[recs[id].token] = Anonymous
<1>1. \A stored : /\ NormalizeLoaded(stored).account = Identity(stored).account
                  /\ NormalizeLoaded(stored).user = Identity(stored).user
  BY DEF NormalizeLoaded, Identity
<1>2. /\ DOMAIN LoadedRecords(file) = DOMAIN file.records
      /\ \A id \in DOMAIN file.records :
           LoadedRecords(file)[id] = NormalizeLoaded(file.records[id])
  BY DEF LoadedRecords
<1>3. /\ DOMAIN Identities(file.records) = DOMAIN file.records
      /\ \A id \in DOMAIN file.records :
           Identities(file.records)[id] = Identity(file.records[id])
  BY DEF Identities
<1>4. Apart(recs)
  BY <1>1, <1>2, <1>3 DEF Apart
<1>5. ASSUME NEW id \in DOMAIN recs, recs[id].user = Anonymous, recs[id].token # NoToken
      PROVE  ClaimedUser[recs[id].token] = Anonymous
  <2> DEFINE stored == file.records[id]
  <2>1. recs[id] = NormalizeLoaded(stored)
    BY <1>2
  <2>2. /\ NormalizeLoaded(stored).token = stored.token
        /\ NormalizeLoaded(stored).user =
             IF stored.user = Anonymous /\ stored.token # NoToken
             THEN ClaimedUser[stored.token] ELSE stored.user
    BY DEF NormalizeLoaded
  <2> HIDE DEF stored
  <2> QED BY <1>5, <2>1, <2>2
<1> QED BY <1>4, <1>5

\* A file that is what memory is loads as it.
LEMMA ApartIsLoadedApart ==
  ASSUME Apart(records'), UsersLearnt'
  PROVE  Apart(Identities(records'))
<1>1. \A id \in DOMAIN records' :
        /\ Identity(records'[id]).account = records'[id].account
        /\ Identity(records'[id]).user = records'[id].user
  BY DEF UsersLearnt, Identity
<1>2. /\ DOMAIN Identities(records') = DOMAIN records'
      /\ \A id \in DOMAIN records' : Identities(records')[id] = Identity(records'[id])
  BY DEF Identities
<1> QED BY <1>1, <1>2 DEF Apart

\* A method that gives no record another account or user, but the user of its
\* token to one whose user was unknown.
IdentitiesKept ==
  /\ DOMAIN records' \subseteq DOMAIN records
  /\ \A id \in DOMAIN records' :
       /\ records'[id].account = records[id].account
       /\ \/ records'[id].user = records[id].user /\ records'[id].token = records[id].token
          \/ /\ records'[id].user = records[id].user
             /\ ClaimedUser[records'[id].token] \in {records[id].user, Anonymous}
          \/ /\ records[id].user = Anonymous
             /\ records'[id].user \in UsersOf(records[id].account) \ {Anonymous}
  /\ disk' = disk \/ disk'.records = records'

LEMMA KeptStayApart ==
  ASSUME IInv, NamelessIsOfOneUser, KnownApart, IdentitiesKept
  PROVE  KnownApart'
<1>1. Apart(records')
  <2> SUFFICES ASSUME NEW i \in DOMAIN records'
               PROVE  /\ \A j \in DOMAIN records' \ {i} :
                           records'[j].account = records'[i].account =>
                             /\ records'[j].user # records'[i].user
                             /\ records'[i].user # Anonymous
                             /\ Anonymous \notin UsersOf(records'[i].account)
                      /\ Anonymous \in UsersOf(records'[i].account)
                           /\ records'[i].user # Anonymous =>
                           UsersOf(records'[i].account) \subseteq {records'[i].user, Anonymous}
    BY DEF Apart
  <2>1. ASSUME NEW j \in DOMAIN records' \ {i}, records'[j].account = records'[i].account
        PROVE  /\ records'[j].user # records'[i].user
               /\ records'[i].user # Anonymous
               /\ Anonymous \notin UsersOf(records'[i].account)
    <3>1. /\ i \in DOMAIN records /\ j \in DOMAIN records \ {i} /\ i \in DOMAIN records \ {j}
          /\ records[j].account = records[i].account
          /\ records'[i].account = records[i].account
      BY <2>1 DEF IdentitiesKept
    <3>2. /\ records[j].user # records[i].user
          /\ records[i].user # Anonymous /\ records[j].user # Anonymous
          /\ Anonymous \notin UsersOf(records[i].account)
      BY <3>1 DEF KnownApart, Apart
    <3> QED BY <2>1, <3>1, <3>2 DEF IdentitiesKept
  <2>2. ASSUME Anonymous \in UsersOf(records'[i].account), records'[i].user # Anonymous
        PROVE  UsersOf(records'[i].account) \subseteq {records'[i].user, Anonymous}
    <3>1. /\ i \in DOMAIN records /\ records'[i].account = records[i].account
          /\ records[i].account \in AccountIDs
      BY DEF IdentitiesKept, IInv, TypeOK, Record
    <3>2. CASE records'[i].user = records[i].user
      BY <2>2, <3>1, <3>2 DEF KnownApart, Apart
    <3>3. CASE records'[i].user \in UsersOf(records[i].account)
      BY <2>2, <3>1, <3>3 DEF NamelessIsOfOneUser
    <3> QED BY <3>2, <3>3 DEF IdentitiesKept
  <2> QED BY <2>1, <2>2
<1>2. UsersLearnt'
  BY DEF UsersLearnt, KnownApart, IdentitiesKept
<1> QED BY <1>1, <1>2, ApartIsLoadedApart DEF KnownApart, IdentitiesKept

LEMMA SavedFile ==
  ASSUME NEW op, NEW id, NEW recs, NEW strat, Saved(op, id, recs, strat)
  PROVE  (disk' = disk \/ disk'.records = recs) /\ reply'.id = id
  BY DEF Saved, Save

LEMMA RefreshKeepsIdentities ==
  ASSUME IInv, NEW saved, RefreshAll(saved)
  PROVE  IdentitiesKept
<1>1. /\ records' = [id \in DOMAIN records |-> Refreshed(records[id])]
      /\ disk' = disk \/ disk'.records = records'
  BY DEF RefreshAll, RefreshedRecords, Save, NoSave
<1>2. ASSUME NEW id \in DOMAIN records
      PROVE  /\ Refreshed(records[id]).account = records[id].account
             /\ Refreshed(records[id]).user = records[id].user
             /\ Refreshed(records[id]).token = records[id].token
  <2>1. records[id] \in Record
    BY DEF IInv, TypeOK
  <2> QED BY <2>1 DEF Refreshed, Record
<1> QED BY <1>1, <1>2 DEF IdentitiesKept

\* The account and the user of a changed record.
SameIdentity(record, id) ==
  /\ record.account = records[id].account
  /\ \/ record.user = records[id].user /\ record.token = records[id].token
     \/ /\ record.user = records[id].user
        /\ ClaimedUser[record.token] \in {records[id].user, Anonymous}
     \/ /\ records[id].user = Anonymous
        /\ record.user \in UsersOf(records[id].account) \ {Anonymous}

LEMMA UpdateKeepsIdentities ==
  ASSUME IInv, NEW op, NEW id \in DOMAIN records, NEW record, Update(op, id, record),
         SameIdentity(record, id)
  PROVE  IdentitiesKept
<1>1. records' = [records EXCEPT ![id] = record] /\ records = [i \in DOMAIN records |-> records[i]]
  BY DEF Update, IInv, TypeOK
<1>2. disk' = disk \/ disk'.records = records'
  BY SavedFile DEF Update
<1> QED BY <1>1, <1>2 DEF IdentitiesKept, SameIdentity

LEMMA ChangeKeepsIdentities ==
  ASSUME IInv, NEW id,
         \/ \E status \in {"active", "disabled"} : Patch(id, status)
         \/ \E quota \in ObservedQuotas \cup {None} : ObserveQuota(id, quota)
         \/ \E token \in Tokens : RenewedBy(id, token) /\ UpdateAuth(id, None, token)
         \/ MarkError(id, "expired")
         \/ \E until : SetCooldown(id, until)
  PROVE  IdentitiesKept
<1>1. CASE id \notin DOMAIN records
  <2>1. \E op : NotFound(op, id)
    BY <1>1 DEF Patch, ObserveQuota, UpdateAuth, MarkError, SetCooldown, Modify
  <2> QED BY <2>1 DEF NotFound, IdentitiesKept
<1>2. CASE id \in DOMAIN records
  <2> DEFINE Same(record) == SameIdentity(record, id)
  <2>1. records[id] \in Record
    BY <1>2 DEF IInv, TypeOK
  <2>2. /\ \A status : Same(Patched(records[id], status))
        /\ \A quota : Same(Observed(records[id], quota))
        /\ Same(Marked(records[id], "expired"))
        /\ \A until : Same([records[id] EXCEPT !.cooldown = until])
    BY <2>1 DEF Patched, Observed, Marked, Record, SameIdentity
  <2>3. ASSUME NEW token \in Tokens, RenewedBy(id, token)
        PROVE  Same(Renewed(records[id], None, token))
    <3>1. /\ token \in TokensOf[records[id].account]
          /\ records[id].user # Anonymous => ClaimedUser[token] \in {records[id].user, Anonymous}
      BY <1>2, <2>3 DEF RenewedBy
    <3>2. ClaimedUser[token] \in UsersOf(records[id].account)
      BY <3>1 DEF UsersOf
    <3>3. /\ Renewed(records[id], None, token).account = records[id].account
          /\ Renewed(records[id], None, token).token = token
          /\ Renewed(records[id], None, token).user =
               IF ClaimedUser[token] = Anonymous THEN records[id].user ELSE ClaimedUser[token]
      BY <2>1 DEF Renewed, Record
    <3>4. CASE ClaimedUser[token] = Anonymous
      BY <3>3, <3>4 DEF SameIdentity
    <3>5. CASE ClaimedUser[token] # Anonymous
      BY <3>1, <3>2, <3>3, <3>5 DEF SameIdentity
    <3> QED BY <3>4, <3>5
  <2> DEFINE Changed == \E op, record : Update(op, id, record) /\ Same(record)
  <2>4. ASSUME NEW status, Patch(id, status) PROVE Changed
    BY <1>2, <2>2, <2>4 DEF Patch, Modify
  <2>5. ASSUME NEW quota, ObserveQuota(id, quota) PROVE Changed
    BY <1>2, <2>2, <2>5 DEF ObserveQuota, Modify
  <2>6. ASSUME NEW token \in Tokens, RenewedBy(id, token), UpdateAuth(id, None, token)
        PROVE  Changed
    BY <1>2, <2>3, <2>6 DEF UpdateAuth, Modify
  <2>7. ASSUME MarkError(id, "expired") PROVE Changed
    BY <1>2, <2>2, <2>7 DEF MarkError, Modify
  <2>8. ASSUME NEW until, SetCooldown(id, until) PROVE Changed
    <3>1. Update("SetCooldown", id, [records[id] EXCEPT !.cooldown = until])
      BY <1>2, <2>8 DEF SetCooldown, Modify
    <3>2. Same([records[id] EXCEPT !.cooldown = until])
      BY <2>2
    <3> HIDE DEF Same
    <3> QED BY <3>1, <3>2
  <2>9. Changed
    <3> HIDE DEF Changed
    <3> QED BY <2>4, <2>5, <2>6, <2>7, <2>8
  <2> QED BY <1>2, <2>9, UpdateKeepsIdentities
<1> QED BY <1>1, <1>2

LEMMA RemoveKeepsIdentities ==
  ASSUME NEW id, Remove(id)
  PROVE  IdentitiesKept
<1>1. CASE NotFound("Remove", id)
  BY <1>1 DEF NotFound, IdentitiesKept
<1>2. CASE RemoveKnown(id)
  <2>1. records' = [i \in DOMAIN records \ {id} |-> records[i]]
    BY <1>2 DEF RemoveKnown, Restrict
  <2>2. disk' = disk \/ disk'.records = records'
    BY <1>2, SavedFile DEF RemoveKnown
  <2> QED BY <2>1, <2>2 DEF IdentitiesKept
<1> QED BY <1>1, <1>2 DEF Remove

\* The record a login is for is the only one that matches, or a new one.
LEMMA UpsertKeepsApart ==
  ASSUME IInv, NamelessIsOfOneUser, KnownApart, NEW account \in AccountIDs,
         NEW token \in TokensOf[account], UpsertFromToken(account, token)
  PROVE  KnownApart'
<1> DEFINE user == ClaimedUser[token]
<1>1. user \in UsersOf(account)
  BY DEF UsersOf
<1> DEFINE Alone(id) ==
             \A i \in DOMAIN records \ {id} :
               records[i].account = account =>
                 user # Anonymous /\ records[i].user \notin {user, Anonymous}
                   /\ Anonymous \notin UsersOf(account)
<1>2. PICK id, record :
        /\ records' = Put(id, record) /\ Saved("Upsert", id, records', strategy)
        /\ record.account = account /\ record.user = user /\ record.token = token
        /\ Alone(id)
  <2>1. CASE UpsertExisting(account, token)
    <3>1. PICK id \in Matches(account, token) :
            /\ records' = Put(id, Reauthenticated(records[id], token))
            /\ Saved("Upsert", id, records', strategy)
      BY <2>1 DEF UpsertExisting
    <3>2. /\ id \in DOMAIN records /\ records[id] \in Record /\ records[id].account = account
          /\ records[id].user \in {user, Anonymous} \/ user = Anonymous
      BY DEF Matches, SameAccount, IInv, TypeOK
    <3>3. /\ Reauthenticated(records[id], token).account = account
          /\ Reauthenticated(records[id], token).user = user
          /\ Reauthenticated(records[id], token).token = token
      BY <3>2 DEF Reauthenticated, Record
    <3>4. Alone(id)
      <4> SUFFICES ASSUME NEW i \in DOMAIN records \ {id}, records[i].account = account
                   PROVE  user # Anonymous /\ records[i].user \notin {user, Anonymous}
                            /\ Anonymous \notin UsersOf(account)
        OBVIOUS
      <4>1. /\ records[i].user # records[id].user
            /\ records[i].user # Anonymous /\ records[id].user # Anonymous
            /\ Anonymous \notin UsersOf(account)
        BY <3>2 DEF KnownApart, Apart
      <4>2. user # Anonymous
        BY <1>1, <4>1
      <4> QED BY <3>2, <4>1, <4>2
    <3> QED BY <3>1, <3>3, <3>4
  <2>2. CASE UpsertNew(account, token)
    <3>1. /\ records' = Put(created + 1, NewRecord(account, token))
          /\ Saved("Upsert", created + 1, records', strategy)
          /\ \A i \in DOMAIN records :
               records[i].account = account =>
                 user # Anonymous /\ records[i].user \notin {user, Anonymous}
      BY <2>2 DEF UpsertNew, Matches, SameAccount
    <3>2. /\ NewRecord(account, token).account = account
          /\ NewRecord(account, token).user = user /\ NewRecord(account, token).token = token
      BY DEF NewRecord
    <3>3. Alone(created + 1)
      <4> SUFFICES ASSUME NEW i \in DOMAIN records, records[i].account = account
                   PROVE  user # Anonymous /\ records[i].user \notin {user, Anonymous}
                            /\ Anonymous \notin UsersOf(account)
        OBVIOUS
      <4>1. user # Anonymous /\ records[i].user \notin {user, Anonymous}
        BY <3>1
      <4>2. Anonymous \in UsersOf(account) => UsersOf(account) \subseteq {records[i].user, Anonymous}
        BY <4>1 DEF KnownApart, Apart
      <4> QED BY <1>1, <4>1, <4>2
    <3> HIDE DEF Alone
    <3> QED BY <3>1, <3>2, <3>3
  <2> QED BY <2>1, <2>2 DEF UpsertFromToken
<1>3. /\ DOMAIN records' = DOMAIN records \cup {id} /\ records'[id] = record
      /\ \A i \in DOMAIN records \ {id} : records'[i] = records[i]
  BY <1>2 DEF Put
<1>4. Apart(records')
  <2> SUFFICES ASSUME NEW i \in DOMAIN records'
               PROVE  /\ \A j \in DOMAIN records' \ {i} :
                           records'[j].account = records'[i].account =>
                             /\ records'[j].user # records'[i].user
                             /\ records'[i].user # Anonymous
                             /\ Anonymous \notin UsersOf(records'[i].account)
                      /\ Anonymous \in UsersOf(records'[i].account)
                           /\ records'[i].user # Anonymous =>
                           UsersOf(records'[i].account) \subseteq {records'[i].user, Anonymous}
    BY DEF Apart
  <2>1. CASE i = id
    <3>1. records'[i].account = account /\ records'[i].user = user
      BY <1>2, <1>3, <2>1
    <3>2. ASSUME NEW j \in DOMAIN records' \ {i}, records'[j].account = account
          PROVE  records'[j].user # user /\ user # Anonymous /\ Anonymous \notin UsersOf(account)
      BY <1>2, <1>3, <2>1, <3>2
    <3>3. Anonymous \in UsersOf(account) /\ user # Anonymous => UsersOf(account) \subseteq {user, Anonymous}
      BY <1>1 DEF NamelessIsOfOneUser
    <3> QED BY <3>1, <3>2, <3>3
  <2>2. CASE i # id
    <3>1. i \in DOMAIN records \ {id} /\ records'[i] = records[i]
      BY <1>3, <2>2
    <3>2. ASSUME NEW j \in DOMAIN records' \ {i}, records'[j].account = records[i].account
          PROVE  /\ records'[j].user # records[i].user /\ records[i].user # Anonymous
                 /\ Anonymous \notin UsersOf(records[i].account)
      <4>1. CASE j = id
        BY <1>2, <1>3, <3>1, <3>2, <4>1
      <4>2. CASE j # id
        BY <1>3, <3>1, <3>2, <4>2 DEF KnownApart, Apart
      <4> QED BY <4>1, <4>2
    <3>3. Anonymous \in UsersOf(records[i].account) /\ records[i].user # Anonymous =>
            UsersOf(records[i].account) \subseteq {records[i].user, Anonymous}
      BY <3>1 DEF KnownApart, Apart
    <3> QED BY <3>1, <3>2, <3>3
  <2> QED BY <2>1, <2>2
<1>5. UsersLearnt'
  BY <1>2, <1>3 DEF UsersLearnt, KnownApart
<1> QED BY <1>2, <1>4, <1>5, SavedFile, ApartIsLoadedApart DEF KnownApart

LEMMA RestartKeepsApart ==
  ASSUME KnownApart, Restart
  PROVE  KnownApart'
<1>1. records' = LoadedRecords(disk) /\ (disk' = disk \/ disk'.records = records')
  BY DEF Restart
<1>2. Apart(records') /\ UsersLearnt'
  BY <1>1, LoadedIsApart DEF KnownApart, UsersLearnt
<1> QED BY <1>1, <1>2, ApartIsLoadedApart DEF KnownApart

LEMMA NextKeepsApart == IInv /\ NamelessIsOfOneUser /\ KnownApart /\ [Next]_vars => KnownApart'
<1> SUFFICES ASSUME IInv, NamelessIsOfOneUser, KnownApart, [Next]_vars PROVE KnownApart'
  OBVIOUS
<1>1. CASE Tick \/ UNCHANGED vars
  BY <1>1, KeptStayApart DEF Tick, vars, IdentitiesKept
<1>2. CASE Restart
  BY <1>2, RestartKeepsApart
<1>3. CASE Read
  BY <1>3, RefreshKeepsIdentities, KeptStayApart DEF Read
<1>4. CASE \E account \in AccountIDs : \E token \in TokensOf[account] : UpsertFromToken(account, token)
  BY <1>4, UpsertKeepsApart
<1>5. ASSUME NEW strat, SetRotationStrategy(strat) PROVE KnownApart'
  BY <1>5, SavedFile, KeptStayApart DEF SetRotationStrategy, IdentitiesKept
<1>6. ASSUME NEW preferred, NEW allowed, AcquireMatching(preferred, allowed) PROVE KnownApart'
  BY <1>6, RefreshKeepsIdentities, KeptStayApart DEF AcquireMatching
<1>7. ASSUME NEW id, Remove(id) \/ NoteSuccess(id) PROVE KnownApart'
  BY <1>7, RemoveKeepsIdentities, KeptStayApart DEF NoteSuccess, IdentitiesKept
<1>8. ASSUME NEW id,
             \/ \E status \in {"active", "disabled"} : Patch(id, status)
             \/ \E quota \in ObservedQuotas \cup {None} : ObserveQuota(id, quota)
             \/ \E token \in Tokens : RenewedBy(id, token) /\ UpdateAuth(id, None, token)
             \/ MarkError(id, "expired")
             \/ \E until : SetCooldown(id, until)
      PROVE  KnownApart'
  BY <1>8, ChangeKeepsIdentities, KeptStayApart
<1> QED BY <1>1, <1>2, <1>3, <1>4, <1>5, <1>6, <1>7, <1>8 DEF Next

\* Logins, renewals, removals and restarts never leave two records for one user
\* of one upstream account, in memory or after a restart, where the accounts
\* file a start finds is so and where an account some of whose tokens name
\* nobody has one user that the others name (UpsertFromToken finds the record
\* there is, that of an unknown user and for an unknown user included).  Of an
\* account with several users and such tokens it is not true: a login that
\* names nobody takes over the record of either user, and the next login of the
\* other may take it too.
THEOREM IdentitiesStayApart ==
  NamelessIsOfOneUser /\ (\A file \in InitialFiles : Apart(Identities(file.records)))
    => (Spec => []OneRecordPerIdentity)
<1> SUFFICES ASSUME NamelessIsOfOneUser,
                    \A file \in InitialFiles : Apart(Identities(file.records))
             PROVE  Spec => []OneRecordPerIdentity
  OBVIOUS
<1>1. Init => IInv /\ KnownApart
  <2> SUFFICES ASSUME Init PROVE KnownApart
    BY InitIsIInv
  <2>1. records = LoadedRecords(disk) /\ Apart(Identities(disk.records))
    BY DEF Init
  <2> QED BY <2>1, LoadedIsApart DEF KnownApart, UsersLearnt
<1>2. IInv /\ KnownApart /\ [Next]_vars => (IInv /\ KnownApart)'
  BY NextKeepsIInv, NextKeepsApart
<1>3. KnownApart => OneRecordPerIdentity
  BY DEF KnownApart, Apart, OneRecordPerIdentity
<1> QED BY <1>1, <1>2, <1>3, PTL DEF Spec

=============================================================================
