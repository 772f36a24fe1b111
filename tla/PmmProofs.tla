----------------------------- MODULE PmmProofs ------------------------------
(***************************************************************************)
(* For every memory map and page size: the properties of Pmm, and that it  *)
(* implements PmmAbs.                                                      *)
(*                                                                         *)
(* That a search which gives up, or answers with the run it stands on, has *)
(* missed no lower run is not visible in one state: Search says what the   *)
(* loops have ruled out so far.  Skipping ahead keeps it, because a run    *)
(* that starts at or before a used page and is longer than the distance to *)
(* it contains that page.                                                  *)
(***************************************************************************)
EXTENDS Pmm, FiniteSetTheorems, TLAPS

Allocatable == RAM(memmap) \ BitmapPages(memmap)
Available == Pages \ bitmap

(* What the boot loader said never changes. *)
MapKept ==
    /\ memmap \in Memmaps
    /\ highest_page \in Nat
    /\ \A top \in Tops(memmap) : top <= highest_page
    /\ total_memory = Cardinality(RAM(memmap))

(* Every allocatable page is either free or owned. *)
Marks ==
    IF pc = "halted" THEN Available = {} /\ owned = {}
    ELSE /\ Available \cup owned = Allocatable
         /\ Available \cap owned = {}

(* No run of the size asked for starts below i, and j pages at i are free. *)
Search ==
    /\ pc \in {"idle", "halted"} => count = 0
    /\ pc = "page" => count = 1 /\ \A s \in Nat : s < i => s \notin Available
    /\ pc \in {"first", "rest"} =>
          /\ count > 0
          /\ \A s \in Nat : s < i => ~(RunOf(s, count) \subseteq Available)
    /\ pc = "rest" => 1 <= j /\ j <= count /\ RunOf(i, j) \subseteq Available

Inv == TypeOK /\ MapKept /\ Marks /\ Search /\ Accounting

-----------------------------------------------------------------------------
(* Sets of pages *)

(* A run has as many pages as were asked for. *)
LEMMA RunCardinality ==
    ASSUME NEW s \in Nat, NEW n \in Nat
    PROVE  IsFiniteSet(RunOf(s, n)) /\ Cardinality(RunOf(s, n)) = n
<1>1. s + n - 1 \in Int
  OBVIOUS
<1>2. /\ IsFiniteSet(s .. s + n - 1)
      /\ Cardinality(s .. s + n - 1) = IF s > s + n - 1 THEN 0 ELSE (s + n - 1) - s + 1
  BY <1>1, FS_Interval
<1> QED
  BY <1>2 DEF RunOf

(* The pages are finitely many, and so is every set of them. *)
LEMMA PagesFinite ==
    ASSUME highest_page \in Nat, NEW S \in SUBSET Pages
    PROVE  IsFiniteSet(S) /\ Cardinality(S) \in Nat
<1>1. IsFiniteSet(Pages)
  BY FS_Interval DEF Pages
<1> QED
  BY <1>1, FS_Subset, FS_CardinalityType

(* RAM lies below highest_page and does not include page 0. *)
LEMMA RamInPages ==
    ASSUME MapKept
    PROVE  RAM(memmap) \subseteq Pages \ {0}
<1> SUFFICES ASSUME NEW p \in RAM(memmap) PROVE p \in Pages \ {0}
  OBVIOUS
<1>1. ValidMap(memmap)
  BY MapsAssumption DEF MapKept
<1>2. PICK a \in DOMAIN memmap : memmap[a].usable /\ p \in PagesOf(memmap[a])
  BY DEF RAM
<1>3. memmap[a] \in Region /\ memmap[a].base > 0
  BY <1>1, <1>2 DEF ValidMap
<1>4. memmap[a].base + memmap[a].length \in Tops(memmap)
  BY DEF Tops
<1>5. memmap[a].base + memmap[a].length <= highest_page
  BY <1>4 DEF MapKept
<1> QED
  BY <1>2, <1>3, <1>5 DEF PagesOf, Region, Pages, MapKept

(* The allocatable pages are a part of RAM. *)
LEMMA AllocatableRam ==
    ASSUME MapKept
    PROVE  /\ Allocatable \subseteq RAM(memmap)
           /\ Allocatable \subseteq Pages \ {0}
           /\ IsFiniteSet(RAM(memmap))
           /\ Cardinality(Allocatable) <= total_memory
<1>1. Allocatable \in SUBSET RAM(memmap)
  BY DEF Allocatable
<1>2. RAM(memmap) \in SUBSET Pages
  BY RamInPages
<1>3. IsFiniteSet(RAM(memmap))
  BY <1>2, PagesFinite DEF MapKept
<1>4. Cardinality(Allocatable) <= Cardinality(RAM(memmap))
  BY <1>1, <1>3, FS_Subset
<1> QED
  BY <1>1, <1>3, <1>4, RamInPages DEF MapKept

(* Nothing the map determines changes while the map does not. *)
LEMMA MapUnchanged ==
    ASSUME UNCHANGED map
    PROVE  /\ Allocatable' = Allocatable
           /\ Pages' = Pages
           /\ MapKept => MapKept'
<1>1. memmap' = memmap /\ highest_page' = highest_page /\ total_memory' = total_memory
  BY DEF map
<1>2. Pages' = Pages
  BY <1>1 DEF Pages
<1>3. MapKept => MapKept'
  BY <1>1 DEF MapKept
<1>4. Allocatable' = Allocatable
  BY <1>1 DEF Allocatable, BitmapPages, Chosen, HoldsBitmap, bitmap_size, InBitmap
<1> QED
  BY <1>2, <1>3, <1>4

-----------------------------------------------------------------------------
(* Init *)

(* The initial state satisfies the invariant. *)
LEMMA InitInv == Init => Inv
<1> SUFFICES ASSUME Init PROVE Inv
  OBVIOUS
<1>1. ValidMap(memmap)
  BY MapsAssumption DEF Init
<1>2. highest_page \in Nat
  <2>1. CASE highest_page = 0
    BY <2>1
  <2>2. CASE \E a \in DOMAIN memmap : highest_page = memmap[a].base + memmap[a].length
    <3>1. PICK a \in DOMAIN memmap : highest_page = memmap[a].base + memmap[a].length
      BY <2>2
    <3>2. memmap[a] \in Region
      BY <1>1 DEF ValidMap
    <3> QED
      BY <3>1, <3>2 DEF Region
  <2> QED
    BY <2>1, <2>2 DEF Init, Tops
<1>3. MapKept
  BY <1>2 DEF Init, MapKept
<1>4. /\ Allocatable \subseteq RAM(memmap) /\ Allocatable \subseteq Pages
      /\ IsFiniteSet(RAM(memmap)) /\ Cardinality(Allocatable) <= total_memory
  BY <1>3, AllocatableRam
<1>5. total_memory \in Nat
  BY <1>4, FS_CardinalityType DEF Init
<1>6. CASE \E a \in DOMAIN memmap : Chosen(memmap, a)
  <2>1. /\ pc = "idle" /\ bitmap = Pages \ Allocatable /\ owned = {}
        /\ free_memory = Cardinality(Allocatable)
        /\ used_memory = total_memory - free_memory
        /\ count = 0 /\ i = 0 /\ j = 0 /\ ret = 0
    BY <1>6 DEF Init, Allocatable, NULL
  <2>2. Available = Allocatable
    BY <2>1, <1>4 DEF Available
  <2>3. Cardinality(Allocatable) \in Nat
    BY <1>2, <1>4, PagesFinite
  <2>4. TypeOK
    BY <1>2, <1>3, <1>4, <1>5, <2>1, <2>3 DEF TypeOK, MapKept
  <2>5. Marks /\ Search
    BY <2>1, <2>2 DEF Marks, Search
  <2>6. Accounting
    <3>1. free_memory = Cardinality(Pages \ bitmap)
      BY <2>1, <2>2 DEF Available
    <3>2. used_memory + free_memory = total_memory
      BY <2>1, <2>3, <1>5
    <3> QED
      BY <3>1, <3>2 DEF Accounting
  <2> QED
    BY <1>3, <2>4, <2>5, <2>6 DEF Inv
<1>7. CASE ~\E a \in DOMAIN memmap : Chosen(memmap, a)
  <2>1. /\ pc = "halted" /\ bitmap = Pages /\ owned = {}
        /\ free_memory = 0 /\ used_memory = 0
        /\ count = 0 /\ i = 0 /\ j = 0 /\ ret = 0
    BY <1>7 DEF Init, NULL
  <2>2. TypeOK
    BY <1>2, <1>3, <1>5, <2>1 DEF TypeOK, MapKept
  <2> QED
    BY <1>3, <2>1, <2>2 DEF Inv, Marks, Search, Accounting, Available
<1> QED
  BY <1>6, <1>7

-----------------------------------------------------------------------------
(* Pages change hands *)

(* Free pages R become owned, or owned pages R free, with the counters.    *)
LEMMA Moved ==
    ASSUME Inv, pc # "halted", pc' = "idle", UNCHANGED map,
           NEW R \in SUBSET Pages, NEW n \in Nat, n = Cardinality(R),
           \/ /\ R \subseteq Available
              /\ bitmap' = bitmap \cup R /\ owned' = owned \cup R
              /\ free_memory' = free_memory - n /\ used_memory' = used_memory + n
           \/ /\ R \subseteq owned
              /\ bitmap' = bitmap \ R /\ owned' = owned \ R
              /\ free_memory' = free_memory + n /\ used_memory' = used_memory - n,
           count' = 0, i' \in Nat, j' \in Nat, ret' \in Nat
    PROVE  Inv'
<1>1. /\ Allocatable' = Allocatable /\ Pages' = Pages /\ MapKept'
      /\ Allocatable \subseteq Pages
      /\ total_memory' = total_memory /\ highest_page' = highest_page
  BY MapUnchanged, AllocatableRam DEF Inv, map
<1>2. /\ Available \cup owned = Allocatable /\ Available \cap owned = {}
      /\ Available \subseteq Pages /\ owned \subseteq Pages /\ bitmap \subseteq Pages
      /\ highest_page \in Nat
  BY DEF Inv, Marks, TypeOK, Available
<1>3. /\ free_memory = Cardinality(Available)
      /\ used_memory + free_memory = total_memory
      /\ free_memory \in Nat /\ used_memory \in Nat /\ total_memory \in Nat
  BY DEF Inv, Accounting, TypeOK, Available
<1>4. Available' \cup owned' = Allocatable /\ Available' \cap owned' = {}
  BY <1>1, <1>2 DEF Available
<1>5. free_memory' = Cardinality(Available')
  <2>1. CASE R \subseteq Available /\ bitmap' = bitmap \cup R /\ free_memory' = free_memory - n
    <3>1. Available' = Available \ R /\ Available \cap R = R
      BY <1>1, <2>1 DEF Available
    <3>2. IsFiniteSet(Available)
      BY <1>2, PagesFinite
    <3>3. Cardinality(Available \ R) = Cardinality(Available) - Cardinality(Available \cap R)
      BY <3>2, FS_Difference
    <3> QED
      BY <1>3, <2>1, <3>1, <3>3
  <2>2. CASE R \subseteq owned /\ bitmap' = bitmap \ R /\ free_memory' = free_memory + n
    <3>1. Available' = Available \cup R /\ Available \cap R = {}
      BY <1>1, <1>2, <2>2 DEF Available
    <3>2. IsFiniteSet(Available) /\ IsFiniteSet(R)
      BY <1>2, PagesFinite
    <3>3. Cardinality(Available \cup R) =
              Cardinality(Available) + Cardinality(R) - Cardinality(Available \cap R)
      BY <3>2, FS_Union
    <3>4. Cardinality(Available \cap R) = 0
      BY <3>1, FS_EmptySet
    <3>5. Cardinality(Available') = Cardinality(Available) + n
      BY <3>1, <3>3, <3>4, <1>3
    <3> QED
      BY <1>3, <2>2, <3>5
  <2> QED
    BY <2>1, <2>2
<1>6. free_memory' \in Nat /\ free_memory' <= total_memory
  <2>1. Available' \in SUBSET Allocatable
    BY <1>4
  <2>2. IsFiniteSet(Allocatable) /\ Available' \in SUBSET Pages
    BY <1>1, <1>2, <2>1, PagesFinite
  <2>3. Cardinality(Available') <= Cardinality(Allocatable)
    BY <2>1, <2>2, FS_Subset
  <2>4. Cardinality(Available') \in Nat /\ Cardinality(Allocatable) \in Nat
    BY <1>1, <1>2, <2>2, PagesFinite
  <2>5. Cardinality(Allocatable) <= total_memory
    BY AllocatableRam DEF Inv
  <2> QED
    BY <1>3, <1>5, <2>3, <2>4, <2>5
<1>7. used_memory' + free_memory' = total_memory /\ used_memory' \in Nat
  BY <1>3, <1>6
<1>8. TypeOK'
  <2>1. bitmap' \subseteq Pages /\ owned' \subseteq Pages
    BY <1>2
  <2> QED
    BY <1>1, <1>2, <1>3, <1>6, <1>7, <2>1 DEF TypeOK, MapKept
<1>9. Marks' /\ Search'
  BY <1>1, <1>4 DEF Marks, Search
<1>10. Accounting'
  BY <1>1, <1>5, <1>7 DEF Accounting, Available
<1> QED
  BY <1>1, <1>8, <1>9, <1>10 DEF Inv

(* A search step that leaves the bitmap alone. *)
LEMMA Searching ==
    ASSUME Inv, pc \notin {"halted"}, UNCHANGED <<map, stats, bitmap, owned>>,
           pc' \in {"idle", "page", "first", "rest"},
           count' \in Nat, i' \in Nat, j' \in Nat, ret' \in Nat
    PROVE  /\ Available' = Available
           /\ Search' => Inv'
<1>1. Allocatable' = Allocatable /\ Pages' = Pages /\ MapKept'
  BY MapUnchanged DEF Inv
<1>2. Available' = Available
  BY <1>1 DEF Available
<1>3. TypeOK'
  BY <1>1 DEF Inv, TypeOK, map, stats, MapKept
<1>4. Marks' /\ Accounting'
  BY <1>1, <1>2 DEF Inv, Marks, Accounting, map, stats, Available
<1> QED
  BY <1>1, <1>2, <1>3, <1>4 DEF Inv

-----------------------------------------------------------------------------
(* The searches *)

(* A run longer than the distance to a used page at i + j contains it.     *)
LEMMA SkipMissesNothing ==
    ASSUME TypeOK, count > 0,
           \A s \in Nat : s < i => ~(RunOf(s, count) \subseteq Available),
           j < count, i + j \notin Available
    PROVE  \A s \in Nat : s < i + j + 1 => ~(RunOf(s, count) \subseteq Available)
<1> SUFFICES ASSUME NEW s \in Nat, s < i + j + 1, s >= i
             PROVE  i + j \in RunOf(s, count)
  BY DEF TypeOK
<1> QED
  BY DEF TypeOK, RunOf

(* Each step of Next keeps the invariant. *)
LEMMA NextInv == Inv /\ [Next]_vars => Inv'
<1> SUFFICES ASSUME Inv, [Next]_vars PROVE Inv'
  OBVIOUS
<1> USE DEF NULL
<1>t. TypeOK /\ highest_page \in Nat /\ count \in Nat /\ i \in Nat /\ j \in Nat /\ ret \in Nat
  BY DEF Inv, TypeOK
<1>1. CASE AllocPage
  <2>1. /\ Available' = Available
        /\ Search' => Inv'
    BY <1>1, <1>t, Searching DEF AllocPage
  <2> QED
    BY <1>1, <2>1 DEF AllocPage, Search
<1>2. CASE TestPage
  <2>1. CASE Used(i)
    <3>1. Available' = Available /\ (Search' => Inv')
      BY <1>2, <1>t, <2>1, Searching DEF TestPage
    <3>2. i \notin Available
      BY <2>1 DEF Used, Available
    <3> QED
      BY <1>2, <1>t, <2>1, <3>1, <3>2 DEF TestPage, Search, Inv
  <2>2. CASE ~Used(i)
    <3>1. i \in Available /\ RunOf(i, 1) = {i} /\ pc = "page"
      BY <1>2, <1>t, <2>2 DEF TestPage, Used, Available, Pages, RunOf
    <3>2. {i} \in SUBSET Pages /\ {i} \subseteq Available
      BY <3>1 DEF Available
    <3>3. Cardinality({i}) = 1
      BY FS_Singleton
    <3>4. /\ UNCHANGED map /\ pc' = "idle" /\ count' = 0 /\ i' = 0 /\ j' = 0
          /\ ret' = i /\ bitmap' = bitmap \cup {i} /\ owned' = owned \cup {i}
          /\ free_memory' = free_memory - 1 /\ used_memory' = used_memory + 1
      BY <1>2, <2>2, <3>1 DEF TestPage, Take, Return
    <3> QED
      BY <1>t, <3>1, <3>2, <3>3, <3>4, Moved
  <2> QED
    BY <2>1, <2>2
<1>3. CASE \E n \in 0 .. MaxCount : AllocPages(n)
  <2>1. PICK n \in 0 .. MaxCount : AllocPages(n)
    BY <1>3
  <2>2. n \in Nat
    BY SizeAssumption
  <2>3. Available' = Available /\ (Search' => Inv')
    BY <2>1, <2>2, <1>t, Searching DEF AllocPages
  <2> QED
    BY <2>1, <2>2, <2>3 DEF AllocPages, Search, Inv
<1>4. CASE TestFirst
  <2>1. Available' = Available /\ (Search' => Inv')
    BY <1>4, <1>t, Searching DEF TestFirst
  <2>2. CASE Used(i)
    <3>1. i \notin Available /\ count > 0
      BY <1>4, <2>2 DEF Used, Available, TestFirst, Inv, Search
    <3>2. \A s \in Nat : s < i + 1 => ~(RunOf(s, count) \subseteq Available)
      BY <1>4, <1>t, <3>1 DEF TestFirst, Inv, Search, RunOf
    <3> QED
      BY <1>4, <2>1, <2>2, <3>1, <3>2 DEF TestFirst, Search
  <2>3. CASE ~Used(i)
    <3>1. RunOf(i, 1) \subseteq Available
      BY <1>4, <1>t, <2>3 DEF TestFirst, Used, Available, Pages, RunOf
    <3> QED
      BY <1>4, <1>t, <2>1, <2>3, <3>1 DEF TestFirst, Search, Inv
  <2> QED
    BY <2>2, <2>3
<1>5. CASE TestRest
  <2>1. Available' = Available /\ (Search' => Inv')
    BY <1>5, <1>t, Searching DEF TestRest, AfterBlock
  <2>2. /\ pc = "rest" /\ j < count /\ count > 0 /\ 1 <= j /\ count' = count
        /\ RunOf(i, j) \subseteq Available
        /\ \A s \in Nat : s < i => ~(RunOf(s, count) \subseteq Available)
    BY <1>5 DEF TestRest, Inv, Search
  <2>3. CASE Blocked
    <3>1. i + j \notin Available
      BY <1>t, <2>3 DEF Blocked, Used, Available, Pages
    <3>2. \A s \in Nat : s < i + j + 1 => ~(RunOf(s, count) \subseteq Available)
      BY <1>t, <2>2, <3>1, SkipMissesNothing
    <3>3. i' = i + j + 1 /\ pc' = "first"
      BY <1>5, <2>3 DEF TestRest, AfterBlock
    <3> QED
      BY <2>1, <2>2, <3>2, <3>3 DEF Search
  <2>4. CASE ~Blocked
    <3>1. i + j \in Available
      BY <1>t, <2>4 DEF Blocked, Used, Available, Pages
    <3>2. RunOf(i, j + 1) \subseteq Available
      BY <1>t, <2>2, <3>1 DEF RunOf
    <3>3. i' = i /\ j' = j + 1 /\ pc' = "rest"
      BY <1>5, <2>4 DEF TestRest
    <3> QED
      BY <1>t, <2>1, <2>2, <3>2, <3>3 DEF Search
  <2> QED
    BY <2>3, <2>4
<1>6. CASE TakeRun
  <2>1. pc = "rest" /\ j = count /\ RunOf(i, count) \subseteq Available
    BY <1>6, <1>t DEF TakeRun, Inv, Search
  <2>2. RunOf(i, count) \in SUBSET Pages
    BY <2>1 DEF Available
  <2>3. Cardinality(RunOf(i, count)) = count
    BY <1>t, RunCardinality
  <2>4. /\ UNCHANGED map /\ pc' = "idle" /\ count' = 0 /\ i' = 0 /\ j' = 0
        /\ ret' = i /\ bitmap' = bitmap \cup RunOf(i, count)
        /\ owned' = owned \cup RunOf(i, count)
        /\ free_memory' = free_memory - count
        /\ used_memory' = used_memory + count
    BY <1>6 DEF TakeRun, Take, Return
  <2> QED
    BY <1>t, <2>1, <2>2, <2>3, <2>4, Moved
<1>7. CASE GiveUp
  <2>1. Available' = Available /\ (Search' => Inv')
    BY <1>7, <1>t, Searching DEF GiveUp, Return
  <2> QED
    BY <1>7, <2>1 DEF GiveUp, Return, Search
<1>8. CASE \E p \in 0 .. highest_page : FreePage(p)
  <2>1. PICK p \in 0 .. highest_page : FreePage(p)
    BY <1>8
  <2>2. pc = "idle" /\ pc' = "idle" /\ UNCHANGED <<map, count, i, j, ret>> /\ count = 0
    BY <2>1 DEF FreePage, Inv, Search
  <2>3. CASE p < highest_page /\ Used(p)
    <3>1. p \in owned /\ owned \subseteq Pages
      BY <1>t, <2>1, <2>3 DEF FreePage, Used, TypeOK
    <3>2. /\ bitmap' = bitmap \ {p} /\ owned' = owned \ {p}
          /\ free_memory' = free_memory + 1 /\ used_memory' = used_memory - 1
      BY <2>1, <2>3 DEF FreePage
    <3>3. Cardinality({p}) = 1
      BY FS_Singleton
    <3>4. {p} \in SUBSET Pages
      BY <3>1
    <3> QED
      BY <1>t, <2>2, <3>1, <3>2, <3>3, <3>4, Moved
  <2>4. CASE ~(p < highest_page /\ Used(p))
    <3>1. p \notin owned
      BY <2>4, <1>t DEF Inv, TypeOK, Marks, Available, Used, Pages
    <3>2. UNCHANGED <<map, stats, bitmap, owned>>
      BY <2>1, <2>4, <3>1 DEF FreePage
    <3>3. Available' = Available /\ (Search' => Inv')
      BY <1>t, <2>2, <3>2, Searching
    <3> QED
      BY <2>2, <3>3 DEF Search
  <2> QED
    BY <2>3, <2>4
<1>9. CASE \E s \in Pages, n \in 0 .. MaxCount : FreePages(s, n)
  <2>1. PICK s \in Pages, n \in 0 .. MaxCount : FreePages(s, n)
    BY <1>9
  <2>2. s \in Nat /\ n \in Nat
    BY SizeAssumption DEF Pages
  <2>3. /\ pc = "idle" /\ pc' = "idle" /\ UNCHANGED <<map, count, i, j, ret>>
        /\ count = 0 /\ RunOf(s, n) \subseteq owned
    BY <2>1 DEF FreePages, Inv, Search
  <2>4. RunOf(s, n) \in SUBSET Pages
    BY <1>t, <2>3 DEF TypeOK
  <2>5. bitmap' = bitmap \ RunOf(s, n)
    BY <1>t, <2>1, <2>4 DEF FreePages, Pages
  <2>6. /\ owned' = owned \ RunOf(s, n)
        /\ free_memory' = free_memory + n /\ used_memory' = used_memory - n
    BY <2>1 DEF FreePages
  <2>7. Cardinality(RunOf(s, n)) = n
    BY <2>2, RunCardinality
  <2> QED
    BY <1>t, <2>2, <2>3, <2>4, <2>5, <2>6, <2>7, Moved
<1>10. CASE UNCHANGED vars
  <2>1. /\ pc' = pc /\ count' = count /\ i' = i /\ j' = j
        /\ UNCHANGED <<map, stats, bitmap, owned, ret>>
    BY <1>10 DEF vars
  <2>2. Allocatable' = Allocatable /\ Pages' = Pages /\ MapKept'
    BY <2>1, MapUnchanged DEF Inv
  <2> QED
    BY <2>1, <2>2 DEF Inv, TypeOK, Marks, Search, Accounting, Available, map,
                      stats, MapKept
<1> QED
  BY <1>1, <1>2, <1>3, <1>4, <1>5, <1>6, <1>7, <1>8, <1>9, <1>10 DEF Next

(* The invariant holds in every reachable state. *)
THEOREM Invariance == Spec => []Inv
<1> QED
  BY InitInv, NextInv, PTL DEF Spec

(* The allocator's variables keep their types: in particular the counters  *)
(* of free and used memory never go below zero.                            *)
THEOREM TypeCorrectness == Spec => []TypeOK
<1> QED
  BY Invariance, PTL DEF Inv

(* The counters always say what the bitmap says. *)
THEOREM Counting == Spec => []Accounting
<1> QED
  BY Invariance, PTL DEF Inv

(* No page is handed out twice and none is lost. *)
THEOREM PageConservation == Spec => []NothingLeaks
<1>1. Inv => NothingLeaks
  <2> SUFFICES ASSUME Inv, pc # "halted" PROVE bitmap \cap RAM(memmap) = BitmapPages(memmap) \cup owned
    BY DEF NothingLeaks
  <2>1. Available \cup owned = Allocatable /\ Available \cap owned = {}
    BY DEF Inv, Marks
  <2>2. RAM(memmap) \subseteq Pages
    BY RamInPages DEF Inv
  <2>3. BitmapPages(memmap) \subseteq RAM(memmap)
    BY DEF BitmapPages
  <2> QED
    BY <2>1, <2>2, <2>3 DEF Available, Allocatable
<1> QED
  BY <1>1, Invariance, PTL

(* Device memory, the bitmap and page 0 are never handed out. *)
THEOREM RamOnly == Spec => []OnlyRam
<1>1. ASSUME Inv, NEW p \in Available \cup owned
      PROVE  /\ p \in RAM(memmap) /\ p # 0
             /\ \A a \in DOMAIN memmap :
                   Chosen(memmap, a) =>
                       \/ (p + 1) * PAGE_SIZE <= memmap[a].base * PAGE_SIZE
                       \/ memmap[a].base * PAGE_SIZE + bitmap_size <= p * PAGE_SIZE
  <2>1. p \in Allocatable
    BY <1>1 DEF Inv, Marks
  <2>2. p \in RAM(memmap) /\ p \in Pages /\ p # 0
    BY <2>1, <1>1, AllocatableRam DEF Inv
  <2>3. ASSUME NEW a \in DOMAIN memmap, Chosen(memmap, a)
        PROVE  \/ (p + 1) * PAGE_SIZE <= memmap[a].base * PAGE_SIZE
               \/ memmap[a].base * PAGE_SIZE + bitmap_size <= p * PAGE_SIZE
    <3>1. ~InBitmap(memmap[a].base, p)
      BY <2>1, <2>3 DEF Allocatable, BitmapPages
    <3>2. memmap[a].base \in Nat
      <4>1. ValidMap(memmap)
        BY <1>1, MapsAssumption DEF Inv, MapKept
      <4>2. memmap[a] \in Region
        BY <2>3, <4>1 DEF ValidMap
      <4> QED
        BY <4>2 DEF Region
    <3>3. p \in Nat /\ highest_page \in Nat
      BY <2>2, <1>1 DEF Pages, Inv, TypeOK
    <3>4. PAGE_SIZE \in Nat /\ bitmap_size \in Nat
      BY <3>3, SizeAssumption DEF bitmap_size
    <3>5. CASE p < memmap[a].base
      <4>1. ASSUME NEW b \in Nat, NEW c \in Nat, NEW d \in Nat, c <= b
            PROVE  c * d <= b * d
        <5>1. (b - c) * d >= 0
          BY <4>1
        <5> QED
          BY <5>1, <4>1
      <4> QED
        BY <3>2, <3>3, <3>4, <3>5, <4>1
    <3>6. CASE ~(p < memmap[a].base)
      <4>1. p * PAGE_SIZE \in Nat /\ memmap[a].base * PAGE_SIZE \in Nat
        BY <3>2, <3>3, <3>4
      <4> QED
        BY <3>1, <3>2, <3>3, <3>4, <3>6, <4>1 DEF InBitmap
    <3> QED
      BY <3>5, <3>6
  <2> QED
    BY <2>2, <2>3
<1>2. Inv => OnlyRam
  BY <1>1 DEF OnlyRam, NULL, Available
<1> QED
  BY <1>2, Invariance, PTL

(* Every page of RAM is free, owned once, or the bitmap's, and no other    *)
(* page is ever free or owned.                                             *)
THEOREM PagesOnce == Spec => []EveryPageOnce
<1>1. OnlyRam /\ NothingLeaks => EveryPageOnce
  BY DEF EveryPageOnce
<1> QED
  BY <1>1, RamOnly, PageConservation, PTL

-----------------------------------------------------------------------------
(* Refinement *)

(* The page-by-page searches implement PmmAbs: each request is answered    *)
(* with the lowest free run, and with NULL only if there is none.          *)
THEOREM Refinement == Spec => Implements
<1> USE DEF NULL, Abs!NULL
<1>1. Init => Abs!Init
  <2> SUFFICES ASSUME Init PROVE Abs!Init
    OBVIOUS
  <2>1. Pages \ bitmap \subseteq Nat
    BY InitInv DEF Inv, TypeOK, Pages
  <2> QED
    BY <2>1 DEF Init, Abs!Init
<1>2. Inv /\ [Next]_vars => [Abs!Next]_<<Pages \ bitmap, count, ret>>
  <2> SUFFICES ASSUME Inv, Inv', [Next]_vars
               PROVE  Abs!Next \/ UNCHANGED <<Pages \ bitmap, count, ret>>
    BY NextInv
  <2>t. /\ TypeOK /\ highest_page \in Nat /\ count \in Nat /\ i \in Nat /\ j \in Nat
        /\ Search /\ Available \subseteq Nat
    BY DEF Inv, TypeOK, Available, Pages
  <2>p. UNCHANGED map => Pages' = Pages
    BY DEF map, Pages
  <2>1. ASSUME NEW n \in Nat, n > 0, RunOf(i, n) \subseteq Available, Take(i, n),
               Return, UNCHANGED map, count = n,
               \A s \in Nat : s < i => ~(RunOf(s, n) \subseteq Available)
        PROVE  Abs!Next
    <3>1. i \in Available
      BY <2>1, <2>t DEF RunOf
    <3>2. Pages' \ bitmap' = (Pages \ bitmap) \ RunOf(i, n)
      BY <2>1, <2>p DEF Take
    <3>3. Abs!Grant(i)
      BY <2>1, <2>t, <3>2 DEF Abs!Grant, Abs!IsFreeRun, Abs!Lowest, Abs!Run, RunOf,
                              Take, Return, Available
    <3> QED
      BY <2>1, <3>1, <3>3 DEF Abs!Next, Take, Available
  <2>2. CASE AllocPage
    <3>1. Abs!Request(1) /\ count' = 1
      BY <2>2, <2>t, <2>p DEF AllocPage, Abs!Request, Search
    <3> QED
      BY <3>1 DEF Abs!Next
  <2>3. CASE TestPage
    <3>1. CASE Used(i)
      BY <2>3, <2>p, <3>1 DEF TestPage
    <3>2. CASE ~Used(i)
      <4>1. i \in Available /\ RunOf(i, 1) = {i} /\ count = 1
        BY <2>3, <2>t, <3>2 DEF TestPage, Used, Available, Pages, RunOf, Search
      <4>2. \A s \in Nat : s < i => ~(RunOf(s, 1) \subseteq Available)
        BY <2>3, <2>t DEF TestPage, Search, RunOf
      <4>3. Take(i, 1) /\ Return /\ UNCHANGED map
        BY <2>3, <3>2 DEF TestPage
      <4> QED
        BY <4>1, <4>2, <4>3, <2>1
    <3> QED
      BY <3>1, <3>2
  <2>4. CASE \E n \in 0 .. MaxCount : AllocPages(n)
    <3>1. PICK n \in 0 .. MaxCount : AllocPages(n)
      BY <2>4
    <3>2. count = 0 /\ n \in Nat
      BY <3>1, <2>t, SizeAssumption DEF AllocPages, Search
    <3>3. CASE n = 0
      BY <3>1, <3>2, <3>3, <2>p DEF AllocPages, Abs!Next, Abs!Nothing
    <3>4. CASE n # 0
      <4>1. Abs!Request(n) /\ count' = n /\ n > 0
        BY <3>1, <3>2, <3>4, <2>p DEF AllocPages, Abs!Request
      <4> QED
        BY <4>1 DEF Abs!Next
    <3> QED
      BY <3>3, <3>4
  <2>5. CASE TestFirst
    BY <2>5, <2>p DEF TestFirst
  <2>6. CASE TestRest
    BY <2>6, <2>p DEF TestRest
  <2>7. CASE TakeRun
    <3>1. /\ count > 0 /\ RunOf(i, count) \subseteq Available
          /\ \A s \in Nat : s < i => ~(RunOf(s, count) \subseteq Available)
      BY <2>7, <2>t DEF TakeRun, Search
    <3> QED
      BY <2>7, <3>1, <2>t, <2>1 DEF TakeRun
  <2>8. CASE GiveUp
    <3>1. count > 0
      BY <2>8, <2>t DEF GiveUp, Search
    <3>2. \A s \in Available : s < i
      BY <2>8, <2>t DEF GiveUp, Available, Pages
    <3>3. \A s \in Available : ~(RunOf(s, count) \subseteq Available)
      BY <2>8, <2>t, <3>1, <3>2 DEF GiveUp, Search, RunOf
    <3>4. Abs!Refuse
      BY <2>8, <2>p, <3>1, <3>3 DEF GiveUp, Return, Abs!Refuse, Abs!IsFreeRun,
                                    Abs!Run, RunOf, Available
    <3> QED
      BY <3>4 DEF Abs!Next
  <2>9. CASE \E p \in 0 .. highest_page : FreePage(p)
    <3>1. PICK p \in 0 .. highest_page : FreePage(p)
      BY <2>9
    <3>2. count = 0 /\ count' = 0 /\ ret' = ret /\ Pages' = Pages
      BY <3>1, <2>t, <2>p DEF FreePage, Search
    <3>3. Pages \ bitmap \subseteq Pages' \ bitmap'
      BY <3>1, <3>2 DEF FreePage, stats
    <3> QED
      BY <3>2, <3>3 DEF Abs!Next, Abs!Release
  <2>10. CASE \E s \in Pages, n \in 0 .. MaxCount : FreePages(s, n)
    <3>1. PICK s \in Pages, n \in 0 .. MaxCount : FreePages(s, n)
      BY <2>10
    <3>2. count = 0 /\ count' = 0 /\ ret' = ret /\ Pages' = Pages
      BY <3>1, <2>t, <2>p DEF FreePages, Search
    <3>3. Pages \ bitmap \subseteq Pages' \ bitmap'
      BY <3>1, <3>2 DEF FreePages
    <3> QED
      BY <3>2, <3>3 DEF Abs!Next, Abs!Release
  <2>11. CASE UNCHANGED vars
    BY <2>11, <2>p DEF vars
  <2> QED
    BY <2>2, <2>3, <2>4, <2>5, <2>6, <2>7, <2>8, <2>9, <2>10, <2>11 DEF Next
<1> QED
  BY <1>1, <1>2, Invariance, PTL DEF Spec, Implements, Abs!Spec
=============================================================================
