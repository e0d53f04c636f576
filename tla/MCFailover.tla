----------------------------- MODULE MCFailover -----------------------------
(* Two accounts, and a request of any kind; others change the second        *)
(* account, which made the previous response.                               *)
EXTENDS Failover

CONSTANTS u1, u2

MCUsers == {Anonymous, u1, u2}

MCTokens == {u1, u2}

MCClaimedUser == [t \in MCTokens |-> t]

MCTokensOf == [of \in AccountIDs |-> MCTokens]

Stored(user) ==
  [account |-> "a1", user |-> user, status |-> "active", token |-> user,
   quota |-> None, cooldown |-> None]

MCInitialFiles == {[records |-> <<Stored(u1), Stored(u2)>>, strategy |-> "round_robin"]}

MCQuotas ==
  {[primary |-> [allowed |-> FALSE, limitReached |-> TRUE, used |-> 100, reset |-> 1],
    secondary |-> None]}

Plain(is_named, is_encrypted, is_searching) ==
  [kind |-> "plain", history |-> FALSE, named |-> is_named, encrypted |-> is_encrypted,
   searches |-> is_searching, origin |-> None]

Images ==
  [kind |-> "image", history |-> FALSE, named |-> FALSE, encrypted |-> FALSE,
   searches |-> FALSE, origin |-> None]

Continuing(how, has_history) ==
  [kind |-> how, history |-> has_history, named |-> TRUE, encrypted |-> TRUE,
   searches |-> FALSE, origin |-> 2]

MCShapes ==
  {Plain(TRUE, TRUE, FALSE), Plain(FALSE, FALSE, TRUE), Images, Continuing("explicit", TRUE),
   Continuing("explicit", FALSE), Continuing("implicit", TRUE)}

\* No action of a request reads the last reply, the file or the sticky account.
Memory == <<records, index, created, now, failures, request>>
=============================================================================
