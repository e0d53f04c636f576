------------------------------ MODULE Accounts ------------------------------
(***************************************************************************)
(* The account service (internal/accounts/service.go and rotation.go, with *)
(* the store of internal/accounts/jsonstore).                              *)
(*                                                                         *)
(* One mutex guards the records, the rotation strategy, the round-robin    *)
(* index and the sticky account, so every exported method is one action.   *)
(* A method first changes memory and then saves the whole state to a file  *)
(* (temporary file, then rename); the save may fail, and then the method   *)
(* returns an error and memory stays ahead of the file.  Crash loses the   *)
(* memory, and NewService loads the file again.                            *)
(*                                                                         *)
(* Every reading method first clears expired quota windows and cooldowns,  *)
(* and saves if that changed a record.                                     *)
(***************************************************************************)
EXTENDS Quota, FiniteSets, Functions

CONSTANTS
  AccountIDs,        \* upstream account identifiers
  Users,             \* upstream user identifiers, Anonymous included
  Anonymous,         \* the empty user identifier
  Tokens,            \* non-empty access tokens
  ClaimedUser,       \* the user a token's claims name, Anonymous if none
  TokensOf,          \* the tokens whose claims name an account
  NoToken,           \* the empty access token
  DefaultStrategy,   \* the strategy of the configuration
  IndexPeriod,       \* the round-robin index is kept modulo this
  MaxAccounts,       \* bound on the number of records ever created
  InitialFiles,      \* accounts files the first start may find
  ObservedQuotas,    \* snapshots upstream reports
  CooldownLengths,   \* how long a cooldown lasts
  ChosenStrategies,  \* strategies the administrator sets
  MaxTime,           \* bound on the clock
  MaxSaveFailures    \* bound on the number of saves that fail

Strategies == {"least_used", "round_robin", "sticky"}

Statuses == {"active", "disabled", "expired", "banned"}

\* Only index % n is ever used, for n at most the number of records: counting
\* modulo a common multiple of these n loses nothing.
ASSUME AccountsAssumption ==
  /\ Anonymous \in Users
  /\ NoToken \notin Tokens
  /\ ClaimedUser \in [Tokens -> Users]
  /\ TokensOf \in [AccountIDs -> SUBSET Tokens]
  /\ DefaultStrategy \in Strategies
  /\ MaxAccounts \in Nat /\ MaxTime \in Nat /\ MaxSaveFailures \in Nat
  /\ IndexPeriod \in Nat \ {0}
  /\ \A n \in 1..MaxAccounts : IndexPeriod % n = 0
  /\ ObservedQuotas \subseteq Snapshot
  /\ CooldownLengths \subseteq Nat
  /\ ChosenStrategies \subseteq Strategies

VARIABLES
  records,           \* the records in memory, by local identifier
  strategy,          \* the rotation strategy
  index,             \* the round-robin index, modulo IndexPeriod
  sticky,            \* the last account noted successful, or None
  disk,              \* the accounts file
  reply,             \* what the last method returned
  created,           \* number of records created; identifiers are 1..created
  removed,           \* history: the identifiers Remove acknowledged
  now,               \* the clock
  failures           \* number of saves that failed

vars == <<records, strategy, index, sticky, disk, reply, created, removed, now, failures>>

Ids == Nat \ {0}

\* LastError, labels, plan, e-mail, cookies and the update times are left out:
\* no branch of the code reads them.
Record == [account: AccountIDs, user: Users, status: Statuses,
           token: Tokens \cup {NoToken}, quota: Snapshot \cup {None},
           cooldown: Instants \cup {None}]

\* A file may hold a status the code does not know (edited by hand, or written
\* by another version).
StoredRecord == [account: AccountIDs, user: Users, status: Statuses \cup {None},
                 token: Tokens \cup {NoToken}, quota: Snapshot \cup {None},
                 cooldown: Instants \cup {None}]

IsFile(file) ==
  /\ DOMAIN file.records \subseteq 1..MaxAccounts
  /\ file.records \in [DOMAIN file.records -> StoredRecord]
  /\ file.strategy \in Strategies \cup {None}

ASSUME InitialFilesAssumption == \A file \in InitialFiles : IsFile(file)

----------------------------------------------------------------------------
(* Saving.                                                                 *)

SaveOutcomes == IF failures < MaxSaveFailures THEN BOOLEAN ELSE {TRUE}

\* Fault: the strategy of the file is kept.
SaveRecordsOnly(recs, strat, saved) ==
  /\ disk' = IF saved THEN [records |-> recs, strategy |-> disk.strategy] ELSE disk
  /\ failures' = IF saved THEN failures ELSE failures + 1

Save(recs, strat, saved) ==
  /\ disk' = IF saved THEN [records |-> recs, strategy |-> strat] ELSE disk
  /\ failures' = IF saved THEN failures ELSE failures + 1

NoSave == UNCHANGED <<disk, failures>>

\* A method that changes state replies whether the save succeeded.
Saved(op, id, recs, strat) ==
  \E saved \in SaveOutcomes :
    /\ Save(recs, strat, saved)
    /\ reply' = [op |-> op, id |-> id, ok |-> saved]

NotFound(op, id) ==
  /\ reply' = [op |-> op, id |-> id, ok |-> FALSE]
  /\ UNCHANGED <<records, strategy, index, sticky, disk, created, removed, now, failures>>

----------------------------------------------------------------------------
(* Expiry.                                                                 *)

ClearExpiredCooldown(record) ==
  IF record.cooldown # None /\ record.cooldown <= now THEN None ELSE record.cooldown

Refreshed(record) ==
  [record EXCEPT !.quota = NormalizeSnapshot(record.quota, now),
                 !.cooldown = ClearExpiredCooldown(record)]

RefreshedRecords == [id \in DOMAIN records |-> Refreshed(records[id])]

\* refreshAllLocked: memory is refreshed in any case, and saved if it changed.
RefreshAll(saved) ==
  /\ records' = RefreshedRecords
  /\ IF RefreshedRecords = records
     THEN saved /\ NoSave
     ELSE Save(RefreshedRecords, strategy, saved)

Eligible(record) ==
  /\ record.status = "active"
  /\ record.token # NoToken
  /\ record.cooldown = None \/ record.cooldown <= now
  /\ ~QuotaBlocks(record.quota, now)

----------------------------------------------------------------------------
(* Start.  disk.strategy = None is a file without a strategy, or no file.  *)

\* Fault: an unknown status is not replaced.
NormalizeLoadedTrustingStatus(stored) ==
  [stored EXCEPT !.quota = NormalizeSnapshot(stored.quota, now),
                 !.cooldown = ClearExpiredCooldown(stored)]

NormalizeLoaded(stored) ==
  [account  |-> stored.account,
   user     |-> IF stored.user = Anonymous /\ stored.token # NoToken
                THEN ClaimedUser[stored.token] ELSE stored.user,
   status   |-> IF stored.status = None THEN "active" ELSE stored.status,
   token    |-> stored.token,
   quota    |-> NormalizeSnapshot(stored.quota, now),
   cooldown |-> ClearExpiredCooldown(stored)]

LoadedRecords(file) == [id \in DOMAIN file.records |-> NormalizeLoaded(file.records[id])]

LoadedStrategy(file) == IF file.strategy = None THEN DefaultStrategy ELSE file.strategy

\* The process ends, at any instant, and starts again.  A start whose save
\* fails ends the process with the file as it was, which is no start at all.
Restart ==
  LET loaded == LoadedRecords(disk) IN
  /\ records' = loaded
  /\ strategy' = LoadedStrategy(disk)
  /\ index' = 0
  /\ sticky' = None
  /\ disk' = IF loaded = disk.records
             THEN disk
             ELSE [records |-> loaded, strategy |-> LoadedStrategy(disk)]
  /\ reply' = [op |-> "Restart", id |-> None, ok |-> TRUE]
  /\ UNCHANGED <<created, removed, now, failures>>

----------------------------------------------------------------------------
(* Methods that read.                                                      *)

\* List, Get and EligibleNow.
Read ==
  \E saved \in SaveOutcomes :
    /\ RefreshAll(saved)
    /\ reply' = [op |-> "Read", id |-> None, ok |-> saved]
    /\ UNCHANGED <<strategy, index, sticky, created, removed, now>>

----------------------------------------------------------------------------
(* Methods that write.                                                     *)

Put(id, record) == [i \in DOMAIN records \cup {id} |-> IF i = id THEN record ELSE records[i]]

\* Fault: only accounts in use are looked up.
SameActiveAccount(record, account, user) ==
  /\ record.account = account
  /\ record.user = Anonymous \/ user = Anonymous \/ record.user = user
  /\ record.status = "active"

SameAccount(record, account, user) ==
  /\ record.account = account
  /\ record.user = Anonymous \/ user = Anonymous \/ record.user = user

NewRecord(account, token) ==
  [account |-> account, user |-> ClaimedUser[token], status |-> "active",
   token |-> token, quota |-> None, cooldown |-> None]

Reauthenticated(record, token) ==
  [record EXCEPT !.token = token, !.user = ClaimedUser[token],
                 !.status = "active", !.cooldown = None]

Matches(account, token) ==
  {id \in DOMAIN records : SameAccount(records[id], account, ClaimedUser[token])}

\* The code takes the first match in map order, which is any of them.
UpsertExisting(account, token) ==
  \E id \in Matches(account, token) :
    /\ records' = Put(id, Reauthenticated(records[id], token))
    /\ Saved("Upsert", id, records', strategy)
    /\ UNCHANGED <<strategy, index, sticky, created, removed, now>>

UpsertNew(account, token) ==
  /\ Matches(account, token) = {}
  /\ created < MaxAccounts
  /\ created' = created + 1
  /\ records' = Put(created + 1, NewRecord(account, token))
  /\ Saved("Upsert", created + 1, records', strategy)
  /\ UNCHANGED <<strategy, index, sticky, removed, now>>

UpsertFromToken(account, token) ==
  UpsertExisting(account, token) \/ UpsertNew(account, token)

\* Fault: the error of the save is dropped.
RemoveIgnoringSave(id) ==
  /\ id \in DOMAIN records
  /\ records' = Restrict(records, DOMAIN records \ {id})
  /\ sticky' = IF sticky = id THEN None ELSE sticky
  /\ \E saved \in SaveOutcomes : Save(records', strategy, saved)
  /\ reply' = [op |-> "Remove", id |-> id, ok |-> TRUE]
  /\ removed' = removed \cup {id}
  /\ UNCHANGED <<strategy, index, created, now>>

RemoveKnown(id) ==
  /\ id \in DOMAIN records
  /\ records' = Restrict(records, DOMAIN records \ {id})
  /\ sticky' = IF sticky = id THEN None ELSE sticky
  /\ Saved("Remove", id, records', strategy)
  /\ removed' = IF reply'.ok THEN removed \cup {id} ELSE removed
  /\ UNCHANGED <<strategy, index, created, now>>

Remove(id) == RemoveKnown(id) \/ (id \notin DOMAIN records /\ NotFound("Remove", id))

\* Every other writing method changes one record and saves.
Update(op, id, record) ==
  /\ records' = [records EXCEPT ![id] = record]
  /\ Saved(op, id, records', strategy)
  /\ UNCHANGED <<strategy, index, sticky, created, removed, now>>

Modify(op, id, Change(_)) ==
  \/ id \in DOMAIN records /\ Update(op, id, Change(records[id]))
  \/ id \notin DOMAIN records /\ NotFound(op, id)

\* The admin interface allows these two statuses.
Patched(record, status) ==
  [record EXCEPT !.status = status, !.cooldown = None,
                 !.quota = IF status = "active" THEN None ELSE record.quota]

Patch(id, status) ==
  LET Change(record) == Patched(record, status) IN Modify("Patch", id, Change)

Observed(record, quota) ==
  LET normal == NormalizeSnapshot(quota, now) IN
  [record EXCEPT !.quota = normal,
                 !.cooldown = IF quota = None \/ QuotaBlocks(normal, now)
                              THEN record.cooldown ELSE None]

ObserveQuota(id, quota) ==
  LET Change(record) == Observed(record, quota) IN Modify("ObserveQuota", id, Change)

\* account is None when the token response names no account.
Renewed(record, account, token) ==
  [record EXCEPT
     !.account = IF account = None THEN record.account ELSE account,
     !.user = IF ClaimedUser[token] = Anonymous THEN record.user ELSE ClaimedUser[token],
     !.status = IF record.status \in {"disabled", "banned"} THEN record.status ELSE "active",
     !.token = token]

UpdateAuth(id, account, token) ==
  LET Change(record) == Renewed(record, account, token) IN Modify("UpdateAuth", id, Change)

Marked(record, status) ==
  [record EXCEPT !.status = status,
                 !.cooldown = IF status = "active" THEN record.cooldown ELSE None]

MarkError(id, status) ==
  LET Change(record) == Marked(record, status) IN Modify("MarkError", id, Change)

SetCooldown(id, until) ==
  LET Change(record) == [record EXCEPT !.cooldown = until] IN Modify("SetCooldown", id, Change)

\* Fault: the account may be gone by the time its response completes.
NoteSuccessUnchecked(id) ==
  /\ sticky' = id
  /\ reply' = [op |-> "NoteSuccess", id |-> id, ok |-> TRUE]
  /\ UNCHANGED <<records, strategy, index, disk, created, removed, now, failures>>

NoteSuccess(id) ==
  /\ sticky' = IF id \in DOMAIN records THEN id ELSE sticky
  /\ reply' = [op |-> "NoteSuccess", id |-> id, ok |-> TRUE]
  /\ UNCHANGED <<records, strategy, index, disk, created, removed, now, failures>>

SetRotationStrategy(strat) ==
  /\ strategy' = strat
  /\ Saved("SetRotationStrategy", None, records, strat)
  /\ UNCHANGED <<records, index, sticky, created, removed, now>>

----------------------------------------------------------------------------
(* Selection.                                                              *)

\* selectRoundRobin: in the order of the identifiers, the element at index.
\* Identifiers begin with the time of creation, so they sort in that order.
RoundRobinPicks(cands) ==
  {id \in cands : Cardinality({i \in cands : i < id}) = index % Cardinality(cands)}

Ranked(recs, cands) ==
  {id \in cands : recs[id].quota # None /\ recs[id].quota.primary.used # None}

Before(recs, i, j) ==
  \/ LessUsed(recs[i].quota, recs[j].quota)
  \/ ~LessUsed(recs[j].quota, recs[i].quota) /\ i < j

\* The orders slices.SortFunc can leave.  The comparison is not transitive, so
\* the result depends on the input, which is in map order; up to 12 elements
\* the sort is by insertion, which leaves neighbours in order, and leaves any
\* input that has its neighbours in order as it is.
SortedOrders(recs, ranked) ==
  {order \in [1..Cardinality(ranked) -> ranked] :
     /\ IsInjective(order)
     /\ \A k \in 1..Cardinality(ranked) - 1 : Before(recs, order[k], order[k + 1])}

\* Fault: a tie on the primary percentage is a tie.
TiedOnPrimary(recs, order, n) ==
  /\ n \in DOMAIN order
  /\ \A k \in DOMAIN order :
       k <= n <=> recs[order[k]].quota.primary.used = recs[order[1]].quota.primary.used

\* The length of the prefix tied with the first.
Tied(recs, order, n) ==
  /\ n \in DOMAIN order
  /\ \A k \in 1..n :
       /\ ~LessUsed(recs[order[1]].quota, recs[order[k]].quota)
       /\ ~LessUsed(recs[order[k]].quota, recs[order[1]].quota)
  /\ n + 1 \in DOMAIN order =>
       \/ LessUsed(recs[order[1]].quota, recs[order[n + 1]].quota)
       \/ LessUsed(recs[order[n + 1]].quota, recs[order[1]].quota)

LeastUsedPicks(recs, cands) ==
  IF Ranked(recs, cands) = {}
  THEN RoundRobinPicks(cands)
  ELSE UNION {{order[(index % n) + 1] : n \in {m \in DOMAIN order : Tied(recs, order, m)}} :
              order \in SortedOrders(recs, Ranked(recs, cands))}

\* sticky serves the account noted last, and falls back to least_used.
StickyServes(cands) == strategy = "sticky" /\ sticky \in cands

StrategyPicks(recs, cands) ==
  CASE strategy = "round_robin" -> RoundRobinPicks(cands)
    [] StickyServes(cands)      -> {sticky}
    [] OTHER                    -> LeastUsedPicks(recs, cands)

\* Fault: only round_robin moves the index.
NextIndexOfRoundRobin(cands) ==
  IF strategy = "round_robin" THEN (index + 1) % IndexPeriod ELSE index

NextIndex(cands) == IF StickyServes(cands) THEN index ELSE (index + 1) % IndexPeriod

Candidates(recs, allowed) == {id \in DOMAIN recs \cap allowed : Eligible(recs[id])}

Acquired(id, preferred, allowed, saved) ==
  reply' = [op |-> "Acquire", id |-> id, ok |-> id # None,
            preferred |-> preferred, allowed |-> allowed, saved |-> saved]

\* AcquireMatching: allowed are the accounts the caller's predicate accepts.
AcquireMatching(preferred, allowed) ==
  LET recs == RefreshedRecords
      cands == Candidates(recs, allowed)
  IN \E saved \in SaveOutcomes :
       /\ RefreshAll(saved)
       /\ \/ /\ ~saved \/ cands = {}
             /\ Acquired(None, preferred, allowed, saved)
             /\ UNCHANGED index
          \/ /\ saved /\ preferred \in cands
             /\ Acquired(preferred, preferred, allowed, saved)
             /\ UNCHANGED index
          \/ /\ saved /\ preferred \notin cands /\ cands # {}
             /\ \E id \in StrategyPicks(recs, cands) : Acquired(id, preferred, allowed, saved)
             /\ index' = NextIndex(cands)
       /\ UNCHANGED <<strategy, sticky, created, removed, now>>

----------------------------------------------------------------------------
(* The specification.                                                      *)

\* The first start, from any file an earlier process left.
Init ==
  /\ now = 0
  /\ disk \in InitialFiles
  /\ records = LoadedRecords(disk)
  /\ strategy = LoadedStrategy(disk)
  /\ created \in {n \in 0..MaxAccounts : DOMAIN disk.records \subseteq 1..n}
  /\ index = 0
  /\ sticky = None
  /\ reply = [op |-> "Restart", id |-> None, ok |-> TRUE]
  /\ removed = {}
  /\ failures = 0

Tick ==
  /\ now < MaxTime
  /\ now' = now + 1
  /\ reply' = [op |-> "Tick", id |-> None, ok |-> TRUE]
  /\ UNCHANGED <<records, strategy, index, sticky, disk, created, removed, failures>>

\* oauth.Refresh returns a token of the account and the user it was called for;
\* of an unknown user it may be the first token that says who it is.
RenewedBy(id, token) ==
  id \in DOMAIN records =>
    /\ token \in TokensOf[records[id].account]
    /\ records[id].user # Anonymous => ClaimedUser[token] \in {records[id].user, Anonymous}

Next ==
  \/ Tick
  \/ Restart
  \/ Read
  \/ \E account \in AccountIDs : \E token \in TokensOf[account] : UpsertFromToken(account, token)
  \/ \E strat \in ChosenStrategies : SetRotationStrategy(strat)
  \/ \E preferred \in 1..created \cup {None}, allowed \in SUBSET (1..created) :
       AcquireMatching(preferred, allowed)
  \/ \E id \in 1..created :
       \/ Remove(id)
       \/ \E status \in {"active", "disabled"} : Patch(id, status)
       \/ \E quota \in ObservedQuotas \cup {None} : ObserveQuota(id, quota)
       \/ \E token \in Tokens : RenewedBy(id, token) /\ UpdateAuth(id, None, token)
       \/ MarkError(id, "expired")
       \/ \E length \in {n \in CooldownLengths : now + n <= MaxTime} : SetCooldown(id, now + length)
       \/ NoteSuccess(id)

Spec == Init /\ [][Next]_vars

----------------------------------------------------------------------------
(* Properties.                                                             *)

\* Types of the variables; the file never holds an identifier not yet created.
TypeOK ==
  /\ records \in [DOMAIN records -> Record] /\ DOMAIN records \subseteq 1..created
  /\ strategy \in Strategies
  /\ index \in 0..IndexPeriod - 1
  /\ sticky \in 1..created \cup {None}
  /\ disk.records \in [DOMAIN disk.records -> StoredRecord]
  /\ DOMAIN disk.records \subseteq 1..created
  /\ disk.strategy \in Strategies \cup {None}
  /\ reply.ok \in BOOLEAN
  /\ created \in 0..MaxAccounts
  /\ removed \subseteq 1..created
  /\ now \in 0..MaxTime
  /\ failures \in 0..MaxSaveFailures

Writes == {"Upsert", "Remove", "Patch", "ObserveQuota", "UpdateAuth", "MarkError",
           "SetCooldown", "SetRotationStrategy"}

\* A write that was acknowledged is in the file, with every write before it,
\* whatever saves failed earlier (persistLocked saves the whole state).
AckedIsDurable ==
  [][reply'.op \in Writes /\ reply'.ok =>
       disk' = [records |-> records', strategy |-> strategy']]_vars

\* An account whose removal was acknowledged never comes back, through failed
\* saves, restarts and new logins.
NoResurrection ==
  removed \cap (DOMAIN records \cup DOMAIN disk.records) = {}

\* The sticky account is one the service still has: NoteSuccess may come after
\* the account was removed, and Remove after NoteSuccess.
StickyIsKnown == sticky # None => sticky \in DOMAIN records

\* Logins and renewals never leave two records for one user of one upstream
\* account (UpsertFromToken finds the record there is), where the account has
\* several users and all its tokens name theirs, or some name nobody and all
\* others name one user.
OneRecordPerIdentity ==
  \A i, j \in DOMAIN records :
    /\ records[i].account = records[j].account
    /\ records[i].user = records[j].user
    => i = j

\* What the rotation document asks of an account before it is routed to.
Routable(record) ==
  /\ record.status = "active" /\ record.token # NoToken
  /\ record.cooldown # None => record.cooldown <= now
  /\ record.quota # None =>
       \A window \in {record.quota.primary, record.quota.secondary} \ {None} :
         window.limitReached => window.reset # None /\ window.reset <= now
  /\ record.quota # None /\ ~record.quota.primary.allowed =>
       record.quota.primary.reset # None /\ record.quota.primary.reset <= now

\* Selection returns an allowed, routable account, and fails only when there
\* is none (or the save of the refreshed records fails): an expired cooldown
\* or quota window never keeps an account out.
AcquireIsExact ==
  [][reply'.op = "Acquire" =>
       /\ reply'.id # None =>
            /\ reply'.id \in DOMAIN records \cap reply'.allowed
            /\ Routable(records[reply'.id])
       /\ reply'.id = None /\ reply'.saved =>
            \A id \in DOMAIN records \cap reply'.allowed : ~Routable(records[id])]_vars

=============================================================================
