---------------------------- MODULE MCHeartbeat ----------------------------
(* A monitor of an account, the loop and two administrators.                *)
EXTENDS Heartbeat, TLC

CONSTANTS a1, h1, w1, w2

MCInitialFiles == {h1 :> Nothing, h1 :> "error"}

MCAccountOf == [id \in Monitors |-> a1]
=============================================================================
