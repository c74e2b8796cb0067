-------------------------------- MODULE Clock --------------------------------
(***************************************************************************)
(* The wall clock read by time.Now in every process and by the broker and  *)
(* Redis for their time-to-live.  One tick is one unit of the TTLs.        *)
(***************************************************************************)
EXTENDS Naturals

CONSTANT MaxTime   \* bound: the clock stops advancing here

VARIABLE clock

ASSUME ClockAssumption == MaxTime \in Nat

Advance ==
  /\ clock < MaxTime
  /\ clock' = clock + 1

=============================================================================
