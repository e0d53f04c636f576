-------------------------- MODULE RotationHistory --------------------------
(***************************************************************************)
(* What a sequence of selections owes to the accounts it selects among:    *)
(* the account service, restricted to the calls that routing makes while   *)
(* nobody changes the accounts, and a history of its recent selections.    *)
(***************************************************************************)
EXTENDS Accounts, Sequences

CONSTANTS
  Preferences,   \* accounts a request may prefer, or None
  Filters        \* sets of accounts a request may be restricted to

VARIABLES
  pool,     \* history: the accounts the last selection had to share requests among
  recent    \* history: the last selections from that pool, at most one per account

historyVars == <<vars, pool, recent>>

\* The call fell through to the configured strategy and got an account.
Rotated ==
  /\ reply'.op = "Acquire" /\ reply'.id # None
  /\ reply'.preferred \notin Candidates(records', reply'.allowed)

SelectedAmong == Candidates(records', reply'.allowed)

NoLess(i, j) == ~LessUsed(records'[i].quota, records'[j].quota)

\* The comparison sorts these snapshots: what is no less than what is no less
\* than a third is no less than it.  A snapshot without a field that two others
\* differ in may tie with both, and then nothing is promised.
Sorts(ids) == \A i, j, k \in ids : NoLess(j, i) /\ NoLess(k, j) => NoLess(k, i)

Best(ids) == {i \in ids : \A j \in ids : NoLess(j, i)}

\* The accounts among which the strategy document promises turns: all under
\* round_robin; under least_used, and sticky when it falls back to it, those
\* tied for the first place, or all when none has a usable quota.  {} when it
\* promises none.
SharedAmong ==
  LET ranked == Ranked(records', SelectedAmong) IN
  IF strategy = "sticky" /\ sticky \in SelectedAmong THEN {}
  ELSE IF strategy = "round_robin" \/ ranked = {} THEN SelectedAmong
  ELSE IF Sorts(ranked) THEN Best(ranked) ELSE {}

LastN(s, n) == IF Len(s) <= n THEN s ELSE SubSeq(s, Len(s) - n + 1, Len(s))

Remember ==
  IF Rotated
  THEN /\ pool' = SharedAmong
       /\ recent' = IF pool' = pool
                    THEN LastN(Append(recent, reply'.id), Cardinality(pool))
                    ELSE <<reply'.id>>
  ELSE UNCHANGED <<pool, recent>>

HistoryInit == Init /\ pool = {} /\ recent = <<>>

Select ==
  /\ \E preferred \in Preferences, allowed \in Filters : AcquireMatching(preferred, allowed)
  /\ Remember

Succeed ==
  /\ \E id \in 1..created : NoteSuccess(id)
  /\ UNCHANGED <<pool, recent>>

Choose ==
  /\ \E strat \in ChosenStrategies : SetRotationStrategy(strat)
  /\ pool' = {} /\ recent' = <<>>

Wait == Tick /\ UNCHANGED <<pool, recent>>

HistoryNext == Select \/ Succeed \/ Choose \/ Wait

HistorySpec == HistoryInit /\ [][HistoryNext]_historyVars

----------------------------------------------------------------------------
(* Properties.                                                             *)

\* In as many consecutive selections from one pool as it has accounts, none is
\* selected twice: round robin, and round robin among those tied for the first
\* place, although one index serves every strategy, filter and fallback.  Of
\* selections between which requests selected from another pool it says nothing.
TurnsAreShared == pool # {} => IsInjective(recent)

\* The document's comparator, applied to the selected snapshot p and another q.
NoBetter(q, p) ==
  \/ p.primary.used < q.primary.used
  \/ /\ p.primary.used = q.primary.used
     /\ HasSecondary(p) /\ HasSecondary(q) => p.secondary.used <= q.secondary.used
     /\ /\ HasSecondary(p) /\ HasSecondary(q) => p.secondary.used = q.secondary.used
        /\ p.primary.reset # None /\ q.primary.reset # None
        => p.primary.reset <= q.primary.reset

\* Either every snapshot has the value or none has.
Uniform(ids) ==
  /\ \A i, j \in ids : HasSecondary(records'[i].quota) = HasSecondary(records'[j].quota)
  /\ \A i, j \in ids : (records'[i].quota.primary.reset = None)
                       = (records'[j].quota.primary.reset = None)

LeastUsedApplies ==
  /\ Rotated
  /\ strategy = "least_used" \/ (strategy = "sticky" /\ sticky \notin SelectedAmong)
  /\ Ranked(records', SelectedAmong) # {}

\* least_used never passes over a known quota for an unknown one, never picks a
\* higher primary percentage, and when the candidates' snapshots have the same
\* fields nothing in the document's comparator prefers another candidate.
LeastUsedIsBest ==
  [][LeastUsedApplies =>
       LET ranked == Ranked(records', SelectedAmong)
           picked == records'[reply'.id].quota
       IN /\ reply'.id \in ranked
          /\ \A i \in ranked :
               /\ picked.primary.used <= records'[i].quota.primary.used
               /\ Uniform(ranked) => NoBetter(records'[i].quota, picked)]_historyVars

=============================================================================
