---------------------------- MODULE MCAccounts ----------------------------
(* The account service on a small instance: one upstream account with two   *)
(* users, quota windows that block with and without a reset, one cooldown   *)
(* length.                                                                  *)
EXTENDS Accounts

CONSTANTS u1, u2, t1, t2

MCUsers == {Anonymous, u1, u2}

MCTokens == {t1, t2}

MCClaimedUser == [t \in MCTokens |-> IF t = t1 THEN u1 ELSE u2]

MCTokensOf == [account \in AccountIDs |-> MCTokens]

Open(used) == [allowed |-> TRUE, limitReached |-> FALSE, used |-> used, reset |-> None]

Exhausted(reset) == [allowed |-> FALSE, limitReached |-> TRUE, used |-> 100, reset |-> reset]

MCQuotas == {[primary |-> Open(10), secondary |-> Exhausted(1)]}

Stored(status, token, cooldown) ==
  [account |-> "a1", user |-> Anonymous, status |-> status, token |-> token,
   quota |-> None, cooldown |-> cooldown]

MCInitialFiles ==
  {[records |-> <<Stored(None, t1, None)>>, strategy |-> "sticky"],
   [records |-> <<Stored("banned", NoToken, 1)>>, strategy |-> None]}

\* No action reads the reply, and only action properties do, which TLC checks
\* on every transition: states that differ in the reply alone are one state.
Memory == <<records, strategy, index, sticky, disk, created, removed, now, failures>>
=============================================================================
