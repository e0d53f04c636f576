---------------------------- MODULE MCOnboarding ----------------------------
(* One login may add either of two accounts, of which one is there at the   *)
(* start.  Model 2 is the bootstrap default, model 1 is only ever fetched,  *)
(* and sorts before it.  One answer has a nameless entry, one a repeated id *)
EXTENDS Onboarding

MCBootstrap == <<[id |-> 2, default |-> TRUE]>>
MCExisting == {1}
MCAnswers ==
    { <<[id |-> 0, default |-> TRUE]>>,
      <<[id |-> 1, default |-> TRUE], [id |-> 1, default |-> FALSE]>>,
      <<[id |-> 2, default |-> TRUE], [id |-> 0, default |-> FALSE],
        [id |-> 3, default |-> TRUE]>> }
=============================================================================
