------------------------------- MODULE Clock --------------------------------
(***************************************************************************)
(* The time that the in-memory stores of the proxy judge their records by. *)
(***************************************************************************)
EXTENDS Naturals

CONSTANT MaxNow    \* bound: when the clock stops

ASSUME ClockAssumption == MaxNow \in Nat

VARIABLE now

Tick == now < MaxNow /\ now' = now + 1
=============================================================================
