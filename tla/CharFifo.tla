------------------------------ MODULE CharFifo ------------------------------
(***************************************************************************)
(* What the keyboard buffer promises: a bounded first-in first-out queue   *)
(* that drops a character when, and only when, it is full.                 *)
(***************************************************************************)
EXTENDS Naturals, Sequences

CONSTANTS Capacity,
          NUL  \* no character yet

VARIABLES queue,  \* the characters typed and not read yet
          got     \* the character its reader is at work on

Init == queue = <<>> /\ got = NUL

Put ==
    /\ Len(queue) < Capacity
    /\ Len(queue') = Len(queue) + 1
    /\ SubSeq(queue', 1, Len(queue)) = queue
    /\ UNCHANGED got

Get ==
    /\ queue # <<>> /\ got = NUL
    /\ got' = Head(queue)
    /\ queue' = Tail(queue)

Done == got' = NUL /\ UNCHANGED queue

Spec == Init /\ [][Put \/ Get \/ Done]_<<queue, got>>
=============================================================================
