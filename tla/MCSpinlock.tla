----------------------------- MODULE MCSpinlock -----------------------------
(* An instance of Spinlock for TLC: two threads on one CPU and one on      *)
(* another, and the two locks that nest.                                   *)
EXTENDS Spinlock, TLC

CONSTANTS cpu0, cpu1, main, threadA, threadB, heapLock, printkLock

TwoCpuHome == (main :> cpu0) @@ (threadA :> cpu0) @@ (threadB :> cpu1)
NestingOrder == (heapLock :> 1) @@ (printkLock :> 2)
=============================================================================
