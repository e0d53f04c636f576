-------------------------- MODULE MCAccountManager --------------------------
(* Two requests on one upstream account, with a login, the administrator    *)
(* and crashes.                                                             *)
EXTENDS AccountManager, TLC

CONSTANTS
  u1, c1, c2,
  MaxToken,          \* number of access tokens issued in all
  Does1, Does2       \* what each of the callers does

MCUsers == {Anonymous, u1}

MCTokens == 1..MaxToken

MCClaimedUser == [t \in MCTokens |-> u1]

MCTokensOf == [of \in AccountIDs |-> MCTokens]

MCInitialFiles ==
  {[records |-> <<[account |-> "a1", user |-> u1, status |-> "active", token |-> 1,
                   quota |-> None, cooldown |-> None]>>,
    strategy |-> "round_robin"]}

MCQuotas == {[primary |-> [allowed |-> TRUE, limitReached |-> FALSE, used |-> 10, reset |-> None],
              secondary |-> None]}

MCDoes == c1 :> Does1 @@ c2 :> Does2

\* No action reads the last reply or the last answer, and only an action
\* property does, which TLC checks on every transition.
Memory == <<records, index, sticky, disk, created, removed, now, failures, calls, holder, oauth>>
=============================================================================
