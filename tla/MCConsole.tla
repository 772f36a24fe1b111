------------------------------ MODULE MCConsole -----------------------------
(* Instances of Console for TLC: two threads. *)
EXTENDS Console
CONSTANTS main, threadA
=============================================================================
