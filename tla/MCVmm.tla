-------------------------------- MODULE MCVmm -------------------------------
(* Instances of Vmm for TLC: tables of three entries.  The boot loader     *)
(* maps a table of pages and a large page under top-level entry 1; callers *)
(* use entry 2, with two pages in one table and two in other tables.       *)
EXTENDS Vmm

Rows(a, b, c) == [i \in {0, 1, 2} |-> CASE i = 0 -> a [] i = 1 -> b [] i = 2 -> c]
LargePage(f) == [present |-> TRUE, to |-> f, flags |-> {"RW"}, large |-> TRUE]
Loader ==
    [f \in 1 .. 4 |->
        CASE f = 1 -> Rows(Entry(2, {"RW"}), Entry(2, {"RW"}), Empty)
          [] f = 2 -> Rows(Entry(3, {"RW"}), Empty, Empty)
          [] f = 3 -> Rows(Entry(4, {"RW"}), LargePage(1), Empty)
          [] f = 4 -> Rows(Entry(1, {"RW"}), Entry(2, {}), Empty)]

LoaderPages == {<<1, 0, 1, 2>>}
CallerPages == {<<2, 0, 0, 0>>, <<2, 0, 0, 1>>, <<2, 1, 0, 0>>}
=============================================================================
