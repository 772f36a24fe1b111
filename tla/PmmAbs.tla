------------------------------- MODULE PmmAbs -------------------------------
(***************************************************************************)
(* What the physical page allocator promises: a request for n pages is     *)
(* answered with the lowest run of n free pages, and with NULL only when   *)
(* there is no such run; pages given back are free again.                  *)
(***************************************************************************)
EXTENDS Integers

VARIABLES free,  \* the free pages
          want,  \* pages asked for and not answered yet, 0 if none
          ret    \* the answer to the last request

NULL == 0

Run(s, n) == s .. s + n - 1
IsFreeRun(s, n) == Run(s, n) \subseteq free
Lowest(s, n) == \A r \in free : r < s => ~IsFreeRun(r, n)

Init == free \subseteq Nat /\ want = 0 /\ ret = NULL

Request(n) == want = 0 /\ n > 0 /\ want' = n /\ UNCHANGED <<free, ret>>

Grant(s) ==
    /\ want > 0
    /\ IsFreeRun(s, want) /\ Lowest(s, want)
    /\ free' = free \ Run(s, want)
    /\ ret' = s
    /\ want' = 0

Refuse ==
    /\ want > 0
    /\ \A s \in free : ~IsFreeRun(s, want)
    /\ ret' = NULL
    /\ want' = 0
    /\ UNCHANGED free

(* A request for no pages. *)
Nothing == want = 0 /\ ret' = NULL /\ UNCHANGED <<free, want>>

Release ==
    /\ want = 0
    /\ free \subseteq free'
    /\ UNCHANGED <<want, ret>>

Next ==
    \/ want' > 0 /\ Request(want')
    \/ ret' \in free /\ Grant(ret')
    \/ Refuse \/ Nothing \/ Release

Spec == Init /\ [][Next]_<<free, want, ret>>
=============================================================================
