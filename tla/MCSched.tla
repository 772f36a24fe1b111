------------------------------- MODULE MCSched ------------------------------
(* An instance of Sched for TLC: the main thread and three others, so that *)
(* two can create threads at once, and two points of the main thread.      *)
EXTENDS Sched

MCPoints == [t \in Threads |-> IF t = Main THEN 2 ELSE 1]
=============================================================================
