-------------------------------- MODULE Pmm ---------------------------------
(***************************************************************************)
(* The physical page allocator of mm/pmm.c: one bit per page, first fit.   *)
(*                                                                         *)
(* pmm_init reads the boot loader's memory map, puts the bitmap into the   *)
(* first usable region large enough and marks the other usable pages free; *)
(* it is the initial state.  The two searches run page by page, with their *)
(* loop variables; they are not reentrant and have no lock: in the kernel  *)
(* they run on the boot thread or inside heap_lock.                        *)
(*                                                                         *)
(* Memory is counted in pages.  The ghost variable owned is the set of     *)
(* pages callers were given and have not given back.  Callers free what    *)
(* they own; pmm_free_page is also called for pages that are already free  *)
(* or out of range, which it accepts.                                      *)
(***************************************************************************)
EXTENDS Integers, FiniteSets, Sequences

CONSTANTS Memmaps,    \* memory maps: sequences of regions, in pages
          PAGE_SIZE,  \* bytes
          MaxCount    \* bound: the largest run asked for

VARIABLES
    memmap,        \* the boot loader's response
    highest_page,
    bitmap,        \* the pages whose bit is 1 (used)
    free_memory, used_memory, total_memory,
    pc, count, i, j,  \* the search under way
    ret,           \* what the last call returned
    owned          \* ghost

map == <<memmap, highest_page, total_memory>>
stats == <<free_memory, used_memory>>
vars == <<map, stats, bitmap, pc, count, i, j, ret, owned>>

NULL == 0
Pages == 0 .. highest_page - 1

-----------------------------------------------------------------------------
(* The memory map *)

Region == [base : Nat, length : Nat, usable : BOOLEAN]

PagesOf(r) == r.base .. r.base + r.length - 1

(* Limine: usable regions do not overlap and never include page 0. *)
ValidMap(m) ==
    /\ m \in Seq(Region)
    /\ \A a \in DOMAIN m : m[a].usable => m[a].base > 0
    /\ \A a, b \in DOMAIN m :
          a # b /\ m[a].usable => PagesOf(m[a]) \cap PagesOf(m[b]) = {}

ASSUME MapsAssumption == \A m \in Memmaps : ValidMap(m)
ASSUME SizeAssumption == PAGE_SIZE \in Nat \ {0} /\ MaxCount \in Nat

RAM(m) == UNION {PagesOf(m[a]) : a \in {b \in DOMAIN m : m[b].usable}}

Tops(m) == {0} \cup {m[a].base + m[a].length : a \in DOMAIN m}

bitmap_size == (highest_page \div 8) + 1

HoldsBitmap(r) == r.usable /\ r.length * PAGE_SIZE >= bitmap_size

(* a is the first region the bitmap fits into. *)
Chosen(m, a) ==
    /\ a \in DOMAIN m /\ HoldsBitmap(m[a])
    /\ \A b \in DOMAIN m : b < a => ~HoldsBitmap(m[b])

(* The pages that begin inside the bitmap placed at page base. *)
InBitmap(base, p) ==
    base <= p /\ p * PAGE_SIZE < base * PAGE_SIZE + bitmap_size

BitmapPages(m) ==
    {p \in RAM(m) : \E a \in DOMAIN m : Chosen(m, a) /\ InBitmap(m[a].base, p)}

Init ==
    /\ memmap \in Memmaps
    /\ highest_page \in Tops(memmap)
    /\ \A top \in Tops(memmap) : top <= highest_page
    /\ total_memory = Cardinality(RAM(memmap))
    /\ IF \E a \in DOMAIN memmap : Chosen(memmap, a)
       THEN /\ pc = "idle"
            /\ bitmap = Pages \ (RAM(memmap) \ BitmapPages(memmap))
            /\ free_memory = Cardinality(RAM(memmap) \ BitmapPages(memmap))
            /\ used_memory = total_memory - free_memory
       ELSE /\ pc = "halted"  \* no place for the bitmap
            /\ bitmap = Pages /\ free_memory = 0 /\ used_memory = 0
    /\ count = 0 /\ i = 0 /\ j = 0
    /\ ret = NULL
    /\ owned = {}

-----------------------------------------------------------------------------
(* Bits and counters *)

Used(p) == p \in bitmap
RunOf(s, n) == s .. s + n - 1

(* Faulty: marks the first page of a run only. *)
TakeOne(s, n) ==
    /\ bitmap' = bitmap \cup {s}
    /\ free_memory' = free_memory - n
    /\ used_memory' = used_memory + n
    /\ owned' = owned \cup RunOf(s, n)
    /\ ret' = s

(* The found pages s .. s+n-1 are marked and returned. *)
Take(s, n) ==
    /\ bitmap' = bitmap \cup RunOf(s, n)
    /\ free_memory' = free_memory - n
    /\ used_memory' = used_memory + n
    /\ owned' = owned \cup RunOf(s, n)
    /\ ret' = s

Return == pc' = "idle" /\ count' = 0 /\ i' = 0 /\ j' = 0

-----------------------------------------------------------------------------
(* pmm_alloc_page *)

AllocPage ==
    /\ pc = "idle"
    /\ pc' = "page" /\ count' = 1 /\ i' = 0
    /\ UNCHANGED <<map, stats, bitmap, j, ret, owned>>

TestPage ==
    /\ pc = "page" /\ i < highest_page
    /\ IF Used(i)
       THEN /\ i' = i + 1
            /\ UNCHANGED <<stats, bitmap, ret, owned, pc, count, j>>
       ELSE Take(i, 1) /\ Return
    /\ UNCHANGED map

-----------------------------------------------------------------------------
(* pmm_alloc_pages *)

(* A request for no pages returns NULL. *)
AllocPages(n) ==
    /\ pc = "idle"
    /\ IF n = 0 THEN ret' = NULL /\ UNCHANGED <<pc, count, i>>
       ELSE pc' = "first" /\ count' = n /\ i' = 0 /\ UNCHANGED ret
    /\ UNCHANGED <<map, stats, bitmap, j, owned>>

TestFirst ==
    /\ pc = "first" /\ i < highest_page
    /\ IF Used(i) THEN i' = i + 1 /\ UNCHANGED <<pc, j>>
       ELSE pc' = "rest" /\ j' = 1 /\ UNCHANGED i
    /\ UNCHANGED <<map, stats, bitmap, count, ret, owned>>

Blocked == i + j >= highest_page \/ Used(i + j)

(* Faulty: skips as many pages as were asked for. *)
AfterCount == i + count

(* i += j, and the outer loop's i++. *)
AfterBlock == i + j + 1

TestRest ==
    /\ pc = "rest" /\ j < count
    /\ IF Blocked THEN i' = AfterBlock /\ pc' = "first" /\ j' = 0
       ELSE j' = j + 1 /\ UNCHANGED <<i, pc>>
    /\ UNCHANGED <<map, stats, bitmap, count, ret, owned>>

TakeRun ==
    /\ pc = "rest" /\ j >= count
    /\ Take(i, count) /\ Return
    /\ UNCHANGED map

(* Either search came to the end. *)
GiveUp ==
    /\ pc \in {"page", "first"} /\ i >= highest_page
    /\ ret' = NULL /\ Return
    /\ UNCHANGED <<map, stats, bitmap, owned>>

-----------------------------------------------------------------------------
(* pmm_free_page and pmm_free_pages *)

(* Faulty: counts a page that was free already. *)
FreePageAgain(p) ==
    /\ pc = "idle"
    /\ p \in owned \/ p \notin bitmap
    /\ IF p < highest_page
       THEN /\ bitmap' = bitmap \ {p}
            /\ free_memory' = free_memory + 1
            /\ used_memory' = used_memory - 1
       ELSE UNCHANGED <<stats, bitmap>>
    /\ owned' = owned \ {p}
    /\ UNCHANGED <<map, pc, count, i, j, ret>>

FreePage(p) ==
    /\ pc = "idle"
    /\ p \in owned \/ p \notin bitmap
    /\ IF p < highest_page /\ Used(p)
       THEN /\ bitmap' = bitmap \ {p}
            /\ free_memory' = free_memory + 1
            /\ used_memory' = used_memory - 1
       ELSE UNCHANGED <<stats, bitmap>>
    /\ owned' = owned \ {p}
    /\ UNCHANGED <<map, pc, count, i, j, ret>>

FreePages(s, n) ==
    /\ pc = "idle"
    /\ RunOf(s, n) \subseteq owned
    /\ bitmap' = bitmap \ {p \in RunOf(s, n) : p < highest_page}
    /\ free_memory' = free_memory + n
    /\ used_memory' = used_memory - n
    /\ owned' = owned \ RunOf(s, n)
    /\ UNCHANGED <<map, pc, count, i, j, ret>>

-----------------------------------------------------------------------------
Next ==
    \/ AllocPage \/ TestPage
    \/ \E n \in 0 .. MaxCount : AllocPages(n)
    \/ TestFirst \/ TestRest \/ TakeRun \/ GiveUp
    \/ \E p \in 0 .. highest_page : FreePage(p)
    \/ \E s \in Pages, n \in 0 .. MaxCount : FreePages(s, n)

Spec == Init /\ [][Next]_vars

-----------------------------------------------------------------------------
(* Properties *)

TypeOK ==
    /\ memmap \in Memmaps
    /\ highest_page \in Nat
    /\ bitmap \subseteq Pages
    /\ free_memory \in Nat /\ used_memory \in Nat /\ total_memory \in Nat
    /\ pc \in {"idle", "halted", "page", "first", "rest"}
    /\ count \in Nat /\ i \in Nat /\ j \in Nat /\ ret \in Nat
    /\ owned \subseteq Pages

(* The counters say what the bitmap says: free_memory is the number of     *)
(* clear bits and the two counters add up to the usable memory, after any  *)
(* sequence of calls, double frees by pmm_free_page included.              *)
Accounting ==
    pc # "halted" =>
        /\ free_memory = Cardinality(Pages \ bitmap)
        /\ used_memory + free_memory = total_memory

(* Only RAM is ever free or handed out, no page with a byte of the bitmap  *)
(* in it, and never page 0, whose address would read as NULL.              *)
OnlyRam ==
    \A p \in (Pages \ bitmap) \cup owned :
        /\ p \in RAM(memmap) /\ p # NULL
        /\ \A a \in DOMAIN memmap :
              Chosen(memmap, a) =>
                  \/ (p + 1) * PAGE_SIZE <= memmap[a].base * PAGE_SIZE
                  \/ memmap[a].base * PAGE_SIZE + bitmap_size <= p * PAGE_SIZE

(* A page is never owned and free at once, and RAM that is neither free    *)
(* nor holds the bitmap is owned by some caller: no page is handed out     *)
(* twice and none is lost.                                                 *)
NothingLeaks ==
    pc # "halted" =>
        bitmap \cap RAM(memmap) = BitmapPages(memmap) \cup owned

(* Every page of RAM is free, owned once, or the bitmap's, and no other    *)
(* page is ever free or owned.                                             *)
EveryPageOnce == OnlyRam /\ NothingLeaks

-----------------------------------------------------------------------------
(* The searches answer like PmmAbs: the lowest run that is free, and NULL  *)
(* only if there is none; skipping ahead past a used page misses nothing.  *)
Abs == INSTANCE PmmAbs WITH
    free <- Pages \ bitmap,
    want <- count
Implements == Abs!Spec
=============================================================================
