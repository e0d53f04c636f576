---------------------------- MODULE MCRotation ----------------------------
(* Selection among three accounts, from every combination of the snapshots. *)
EXTENDS RotationHistory

CONSTANTS u1, t1

MCUsers == {Anonymous, u1}

MCTokens == {t1}

MCClaimedUser == [t \in MCTokens |-> u1]

MCTokensOf == [of \in AccountIDs |-> MCTokens]

Running(used, reset) ==
  [allowed |-> TRUE, limitReached |-> FALSE, used |-> used, reset |-> reset]

Exhausted(reset) ==
  [allowed |-> FALSE, limitReached |-> TRUE, used |-> 100, reset |-> reset]

CachedQuotas ==
  {None,
   [primary |-> Running(50, None), secondary |-> None],
   [primary |-> Running(50, 2), secondary |-> None],
   [primary |-> Running(50, None), secondary |-> Running(80, None)],
   [primary |-> Running(50, None), secondary |-> Running(20, None)],
   [primary |-> Running(30, None), secondary |-> Exhausted(1)]}

Stored(quota) ==
  [account |-> "a1", user |-> u1, status |-> "active", token |-> t1,
   quota |-> quota, cooldown |-> None]

MCInitialFiles ==
  {[records |-> [id \in 1..3 |-> Stored(quotas[id])], strategy |-> None] :
     quotas \in [1..3 -> CachedQuotas]}

MCPreferences == {None, 1}

\* No action reads the reply, and no invariant does.
Memory == <<records, strategy, index, sticky, disk, created, removed, now, failures,
            pool, recent>>
=============================================================================
