------------------------------- MODULE MCPmm --------------------------------
(* Instances of Pmm for TLC: memory maps of 17 pages, at most eight of     *)
(* them RAM.  Pages are of two bytes, so that the three bytes of the       *)
(* bitmap take one page and a half.                                        *)
EXTENDS Pmm

Usable(b, n) == [base |-> b, length |-> n, usable |-> TRUE]
Reserved(b, n) == [base |-> b, length |-> n, usable |-> FALSE]

\* A hole; a first region too small for the bitmap; one that it fills;
\* RAM up to the last page; no region large enough.
SmallMaps ==
    {<<Reserved(0, 1), Usable(1, 7), Reserved(8, 9)>>,
     <<Reserved(0, 1), Usable(1, 1), Reserved(2, 1), Usable(3, 6), Reserved(10, 7)>>,
     <<Usable(1, 2), Reserved(3, 1), Usable(4, 5), Reserved(9, 8)>>,
     <<Reserved(0, 11), Usable(11, 6)>>,
     <<Usable(1, 5), Usable(6, 2), Reserved(8, 9)>>,
     <<Usable(1, 1), Reserved(2, 14), Usable(16, 1)>>}
=============================================================================
