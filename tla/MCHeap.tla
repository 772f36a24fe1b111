------------------------------- MODULE MCHeap -------------------------------
(* Instances of Heap for TLC, scaled down: headers of 3 bytes, payloads in *)
(* multiples of 2, pages of 8.  As in the kernel the header size is odd    *)
(* with respect to the payload granularity (40 and 16).                    *)
EXTENDS Heap, TLC

CONSTANTS t1, t2

Perms == Permutations(Threads)
=============================================================================
