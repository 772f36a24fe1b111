------------------------------- MODULE VmmAbs -------------------------------
(***************************************************************************)
(* What the page tables promise: a partial function from virtual pages to  *)
(* frames and rights.  One page changes at a time, to what its caller      *)
(* asked for, and a mapped page is never mapped over.                      *)
(***************************************************************************)
CONSTANTS Pages, Frames, Rights

VARIABLES mapping,  \* <<frame, rights>> of each page, <<>> when not mapped
          asked     \* the page to change and what to; <<>> when none

Init == mapping = [v \in Pages |-> <<>>] /\ asked = <<>>

Ask(v, target) == asked = <<>> /\ asked' = <<v, target>> /\ UNCHANGED mapping

Map(v, f, r) ==
    /\ asked = <<v, <<f, r>>>> /\ asked' = <<>>
    /\ mapping[v] = <<>> /\ mapping' = [mapping EXCEPT ![v] = <<f, r>>]

Unmap(v) ==
    /\ asked = <<v, <<>>>> /\ asked' = <<>>
    /\ mapping' = [mapping EXCEPT ![v] = <<>>]

Next ==
    \E v \in Pages :
        \/ Ask(v, <<>>) \/ Unmap(v)
        \/ \E f \in Frames, r \in Rights : Ask(v, <<f, r>>) \/ Map(v, f, r)

Spec == Init /\ [][Next]_<<mapping, asked>>
=============================================================================
