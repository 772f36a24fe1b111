------------------------------ MODULE HeapAbs -------------------------------
(***************************************************************************)
(* What an allocator promises, with no list and no lock: a set of granted  *)
(* extents of memory that never overlap.  granted maps the first byte of   *)
(* an extent (its header) to the byte after its last.  A grant picks any   *)
(* extent disjoint from the others; a release takes one away; neither      *)
(* touches the others.                                                     *)
(***************************************************************************)
EXTENDS Integers

VARIABLE granted

TypeOK == \A b \in DOMAIN granted : b \in Nat /\ granted[b] \in Nat

Init == granted = [b \in {} |-> 0]

(* [b, e) has no byte in common with any granted extent. *)
Unused(b, e) ==
    b < e /\ \A c \in DOMAIN granted : granted[c] <= b \/ e <= c

Allocate ==
    \E b \in DOMAIN granted' \ DOMAIN granted :
        /\ Unused(b, granted'[b])
        /\ granted' = [c \in DOMAIN granted \cup {b} |->
                          IF c = b THEN granted'[b] ELSE granted[c]]

Release ==
    \E b \in DOMAIN granted :
        granted' = [c \in DOMAIN granted \ {b} |-> granted[c]]

Next == Allocate \/ Release

Spec == Init /\ [][Next]_granted
=============================================================================
