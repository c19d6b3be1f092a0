---------------------------- MODULE RequestClock ---------------------------
(* The time by which Redis expires its keys, in ticks.                      *)
EXTENDS Integers

CONSTANT MaxNow   \* bound on the clock

ASSUME ClockBound == MaxNow \in Nat

VARIABLE now

Passes == now < MaxNow /\ now' = now + 1
=============================================================================
