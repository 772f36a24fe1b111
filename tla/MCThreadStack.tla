---------------------------- MODULE MCThreadStack ---------------------------
(* Instances of ThreadStack for TLC: a stack that just holds three calls,  *)
(* one frame and a handler of two words.                                   *)
EXTENDS ThreadStack
=============================================================================
