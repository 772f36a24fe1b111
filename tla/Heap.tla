-------------------------------- MODULE Heap --------------------------------
(***************************************************************************)
(* The kernel heap of mm/heap.c: a doubly linked list of blocks, each a    *)
(* header followed by its data, in one growing range of virtual memory.    *)
(*                                                                         *)
(* The list is the five fields of the live headers: blocks is the set of   *)
(* their addresses, and size, is_free, next and prev are functions on it.  *)
(* A header absorbed by a neighbour leaves blocks.  The walk, the growth   *)
(* page by page and the two coalescing steps are steps of their own; the   *)
(* lock heap_lock keeps other threads' calls out but not their unlocked    *)
(* parts, krealloc's look at the header and its copy.                      *)
(*                                                                         *)
(* The ghost variable owned records what the callers hold: for each data   *)
(* pointer returned and not yet given back, by whom and for how many bytes *)
(* it was asked.  Block contents other than headers are abstracted, and    *)
(* with them the magic number: a caller that stays within the bytes it     *)
(* asked for never writes a header (GrantsAreReal).                        *)
(***************************************************************************)
EXTENDS Integers, FiniteSets

CONSTANTS Threads,      \* callers
          NoThread,     \* the heap lock is free
          HEADER_SIZE,  \* sizeof(block_header_t)
          ALIGN,        \* payload granularity
          SPLIT_MIN,    \* smallest payload worth a block of its own
          PAGE_SIZE,
          KHEAP_START, KHEAP_INITIAL_SIZE, KHEAP_MIN_SIZE,
          Sizes,        \* sizes the callers ask for
          Frames,       \* pages the physical allocator has left
          MaxCost,      \* a page and the page tables mapping it may take
          MaxOwned      \* bound: pointers the callers hold at a time

ASSUME HeapAssumption ==
    /\ NoThread \notin Threads
    /\ {HEADER_SIZE, ALIGN, SPLIT_MIN, PAGE_SIZE, KHEAP_START,
        KHEAP_INITIAL_SIZE, KHEAP_MIN_SIZE, MaxCost} \subseteq Nat \ {0}
    /\ HEADER_SIZE < KHEAP_INITIAL_SIZE
    /\ Sizes \subseteq Nat \ {0}
    /\ Frames \in Nat
    /\ MaxOwned \in Nat

NULL == 0

VARIABLES
    blocks, size, is_free, next, prev,  \* the headers
    heap_tail, heap_current_end,
    lock,     \* the thread inside heap_lock
    frames,   \* free pages in the PMM
    halted,   \* some call panicked
    pc, req, ptr, cur, todo,  \* per thread: step, size, pointer given,
                              \* block looked at, pages still to map
    owned     \* ghost: the pointers callers hold

list == <<blocks, size, is_free, next, prev, heap_tail>>
memory == <<heap_current_end, frames>>
vars == <<list, memory, lock, halted, pc, req, ptr, cur, todo, owned>>

heap_start == KHEAP_START  \* assigned once, by kheap_init

Searching == {"find", "refind"}
Freeing == {"mark", "right", "left", "freed"}
Locked == Searching \cup {"grow", "got"} \cup Freeing
Pc == Locked \cup {"idle", "alloc", "copy", "free", "oom"}

Data(b) == b + HEADER_SIZE            \* the pointer a caller sees
Header(p) == p - HEADER_SIZE
End(b) == b + HEADER_SIZE + size[b]   \* the first byte after a block

-----------------------------------------------------------------------------
(* Sizes *)

(* Faulty: rounds down. *)
alignDown(n) == (n \div ALIGN) * ALIGN

align(n) == ((n + ALIGN - 1) \div ALIGN) * ALIGN

(* Faulty: no room for the new block's header. *)
PayloadOnly(n) == IF n < KHEAP_MIN_SIZE THEN KHEAP_MIN_SIZE ELSE n

TotalNeeded(n) ==
    LET total == n + HEADER_SIZE IN
    IF total < KHEAP_MIN_SIZE THEN KHEAP_MIN_SIZE ELSE total

PagesNeeded(n) == (TotalNeeded(n) + PAGE_SIZE - 1) \div PAGE_SIZE

-----------------------------------------------------------------------------
(* kheap_init: one free block fills the initial pages. *)
Init ==
    /\ blocks = {KHEAP_START}
    /\ size = [b \in blocks |-> KHEAP_INITIAL_SIZE - HEADER_SIZE]
    /\ is_free = [b \in blocks |-> TRUE]
    /\ next = [b \in blocks |-> NULL]
    /\ prev = [b \in blocks |-> NULL]
    /\ heap_tail = KHEAP_START
    /\ heap_current_end = KHEAP_START + KHEAP_INITIAL_SIZE
    /\ lock = NoThread
    /\ frames = Frames
    /\ halted = FALSE
    /\ pc = [t \in Threads |-> "idle"]
    /\ req = [t \in Threads |-> 0]
    /\ ptr = [t \in Threads |-> NULL]
    /\ cur = [t \in Threads |-> NULL]
    /\ todo = [t \in Threads |-> 0]
    /\ owned = [p \in {} |-> 0]

At(t, p) == ~halted /\ pc[t] = p
Goto(t, p) == pc' = [pc EXCEPT ![t] = p]

(* The call returns: its local variables are gone. *)
EndCall(t) ==
    /\ Goto(t, "idle")
    /\ req' = [req EXCEPT ![t] = 0]
    /\ ptr' = [ptr EXCEPT ![t] = NULL]
    /\ cur' = [cur EXCEPT ![t] = NULL]

Owns(t, p) == p \in DOMAIN owned /\ owned[p].by = t
Grant(p, t, n) ==
    owned' = [q \in DOMAIN owned \cup {p} |->
                 IF q = p THEN [by |-> t, bytes |-> n] ELSE owned[q]]
GiveBack(p) == owned' = [q \in DOMAIN owned \ {p} |-> owned[q]]

-----------------------------------------------------------------------------
(* kmalloc, kcalloc and the allocating part of krealloc *)

(* kmalloc(n), or kcalloc of n bytes in all.  A call with n = 0 returns    *)
(* NULL at once and changes nothing.                                       *)
Kmalloc(t, n) ==
    /\ At(t, "idle")
    /\ Cardinality(DOMAIN owned) < MaxOwned
    /\ req' = [req EXCEPT ![t] = n]
    /\ Goto(t, "alloc")
    /\ UNCHANGED <<list, memory, lock, halted, ptr, cur, todo, owned>>

(* krealloc(p, n) of a block large enough: looked at without the lock.     *)
KreallocInPlace(t, p, n) ==
    /\ At(t, "idle")
    /\ Owns(t, p)
    /\ size[Header(p)] >= n
    /\ Grant(p, t, n)
    /\ UNCHANGED <<list, memory, lock, halted, pc, req, ptr, cur, todo>>

(* Faulty: a block large enough is not kept. *)
KreallocMoveAlways(t, p, n) ==
    /\ At(t, "idle")
    /\ Owns(t, p)
    /\ req' = [req EXCEPT ![t] = n]
    /\ ptr' = [ptr EXCEPT ![t] = p]
    /\ Goto(t, "alloc")
    /\ UNCHANGED <<list, memory, lock, halted, cur, todo, owned>>

(* krealloc(p, n) of a block too small: goes on to kmalloc(n).             *)
KreallocMove(t, p, n) ==
    /\ At(t, "idle")
    /\ Owns(t, p)
    /\ size[Header(p)] < n
    /\ req' = [req EXCEPT ![t] = n]
    /\ ptr' = [ptr EXCEPT ![t] = p]
    /\ Goto(t, "alloc")
    /\ UNCHANGED <<list, memory, lock, halted, cur, todo, owned>>

(* spinlock_acquire, then current = heap_start. *)
LockToAlloc(t) ==
    /\ At(t, "alloc")
    /\ lock = NoThread
    /\ lock' = t
    /\ cur' = [cur EXCEPT ![t] = heap_start]
    /\ Goto(t, "find")
    /\ UNCHANGED <<list, memory, halted, req, ptr, todo, owned>>

(* find_split_and_alloc *)
Fits(b, n) == is_free[b] /\ size[b] >= n
Splits(b, n) == size[b] >= n + HEADER_SIZE + SPLIT_MIN

AtBlock(t) == ~halted /\ pc[t] \in Searching /\ cur[t] # NULL

SearchNext(t) ==
    /\ AtBlock(t)
    /\ ~Fits(cur[t], align(req[t]))
    /\ cur' = [cur EXCEPT ![t] = next[cur[t]]]
    /\ UNCHANGED <<list, memory, lock, halted, pc, req, ptr, todo, owned>>

TakeWhole(t) ==
    /\ AtBlock(t)
    /\ Fits(cur[t], align(req[t]))
    /\ ~Splits(cur[t], align(req[t]))
    /\ is_free' = [is_free EXCEPT ![cur[t]] = FALSE]
    /\ Goto(t, "got")
    /\ UNCHANGED <<blocks, size, next, prev, heap_tail, memory, lock, halted,
                   req, ptr, cur, todo, owned>>

(* Block b keeps n bytes; the rest becomes the free block new after it. *)
Split(b, n, new) ==
    /\ blocks' = blocks \cup {new}
    /\ size' = [x \in blocks' |->
                   CASE x = new -> size[b] - n - HEADER_SIZE
                     [] x = b   -> n
                     [] OTHER   -> size[x]]
    /\ is_free' = [x \in blocks' |-> x = new \/ (x # b /\ is_free[x])]
    /\ next' = [x \in blocks' |->
                   CASE x = new -> next[b]
                     [] x = b   -> new
                     [] OTHER   -> next[x]]
    /\ prev' = [x \in blocks' |->
                   CASE x = new     -> b
                     [] x = next[b] -> new
                     [] OTHER       -> prev[x]]
    /\ heap_tail' = IF next[b] = NULL THEN new ELSE heap_tail

(* Faulty: forgets the header of the block that is split. *)
SplitPointEarly(b, n) == b + n
SplitPoint(b, n) == b + HEADER_SIZE + n

TakeSplit(t) ==
    /\ AtBlock(t)
    /\ Fits(cur[t], align(req[t]))
    /\ Splits(cur[t], align(req[t]))
    /\ Split(cur[t], align(req[t]), SplitPoint(cur[t], align(req[t])))
    /\ Goto(t, "got")
    /\ UNCHANGED <<memory, lock, halted, req, ptr, cur, todo, owned>>

(* heap_expand: the first search came to the end of the list. *)
StartGrow(t) ==
    /\ At(t, "find")
    /\ cur[t] = NULL
    /\ cur' = [cur EXCEPT ![t] = heap_current_end]  \* old_end
    /\ todo' = [todo EXCEPT ![t] = PagesNeeded(align(req[t]))]
    /\ Goto(t, "grow")
    /\ UNCHANGED <<list, memory, lock, halted, req, ptr, owned>>

MapPage(t) ==
    /\ At(t, "grow")
    /\ todo[t] > 0
    /\ \E cost \in 1..MaxCost :
          /\ cost <= frames
          /\ frames' = frames - cost
    /\ heap_current_end' = heap_current_end + PAGE_SIZE
    /\ todo' = [todo EXCEPT ![t] = @ - 1]
    /\ UNCHANGED <<list, lock, halted, pc, req, ptr, cur, owned>>

(* No page: heap_expand releases the lock and then panics. *)
OutOfMemory(t) ==
    /\ At(t, "grow")
    /\ todo[t] > 0
    /\ frames = 0
    /\ lock' = NoThread
    /\ Goto(t, "oom")
    /\ UNCHANGED <<list, memory, halted, req, ptr, cur, todo, owned>>

Panic(t) ==
    /\ At(t, "oom")
    /\ halted' = TRUE
    /\ UNCHANGED <<list, memory, lock, pc, req, ptr, cur, todo, owned>>

(* A page but no page table: get_next_level panics inside the lock. *)
OutOfTables(t) ==
    /\ At(t, "grow")
    /\ todo[t] > 0
    /\ 0 < frames /\ frames < MaxCost
    /\ frames' = 0
    /\ halted' = TRUE
    /\ UNCHANGED <<list, heap_current_end, lock, pc, req, ptr, cur, todo,
                   owned>>

(* All pages mapped: the new range joins a free last block, or becomes the *)
(* new last block, and the search starts over.                             *)
Grown(t) == At(t, "grow") /\ todo[t] = 0
Retry(t) ==
    /\ cur' = [cur EXCEPT ![t] = heap_start]
    /\ Goto(t, "refind")
    /\ UNCHANGED <<memory, lock, halted, req, ptr, todo, owned>>

(* Faulty: joins the range to the last block whether or not it is free. *)
JoinTailAlways(t) ==
    /\ Grown(t)
    /\ size' = [size EXCEPT ![heap_tail] = @ + (heap_current_end - cur[t])]
    /\ UNCHANGED <<blocks, is_free, next, prev, heap_tail>>
    /\ Retry(t)

JoinTail(t) ==
    /\ Grown(t)
    /\ is_free[heap_tail]
    /\ size' = [size EXCEPT ![heap_tail] = @ + (heap_current_end - cur[t])]
    /\ UNCHANGED <<blocks, is_free, next, prev, heap_tail>>
    /\ Retry(t)

Append(new, bytes) ==
    /\ blocks' = blocks \cup {new}
    /\ size' = [x \in blocks' |-> IF x = new THEN bytes ELSE size[x]]
    /\ is_free' = [x \in blocks' |-> x = new \/ is_free[x]]
    /\ next' = [x \in blocks' |->
                   CASE x = new       -> NULL
                     [] x = heap_tail -> new
                     [] OTHER         -> next[x]]
    /\ prev' = [x \in blocks' |-> IF x = new THEN heap_tail ELSE prev[x]]
    /\ heap_tail' = new

AppendTail(t) ==
    /\ Grown(t)
    /\ ~is_free[heap_tail]
    /\ Append(cur[t], heap_current_end - cur[t] - HEADER_SIZE)
    /\ Retry(t)

(* spinlock_release; kmalloc returns, to its caller or into krealloc. *)
KmallocReturn(t) ==
    /\ At(t, "got")
    /\ lock' = NoThread
    /\ Grant(Data(cur[t]), t, req[t])
    /\ IF ptr[t] = NULL THEN EndCall(t)
       ELSE Goto(t, "copy") /\ UNCHANGED <<req, ptr, cur>>
    /\ UNCHANGED <<list, memory, halted, todo>>

(* krealloc: memcpy of the old contents, then kfree(ptr). *)
CopyOld(t) ==
    /\ At(t, "copy")
    /\ GiveBack(ptr[t])
    /\ req' = [req EXCEPT ![t] = 0]
    /\ cur' = [cur EXCEPT ![t] = NULL]
    /\ Goto(t, "free")
    /\ UNCHANGED <<list, memory, lock, halted, ptr, todo>>

-----------------------------------------------------------------------------
(* kfree, and krealloc(p, 0) *)

Kfree(t, p) ==
    /\ At(t, "idle")
    /\ Owns(t, p)
    /\ ptr' = [ptr EXCEPT ![t] = p]
    /\ GiveBack(p)
    /\ Goto(t, "free")
    /\ UNCHANGED <<list, memory, lock, halted, req, cur, todo>>

LockToFree(t) ==
    /\ At(t, "free")
    /\ lock = NoThread
    /\ lock' = t
    /\ cur' = [cur EXCEPT ![t] = Header(ptr[t])]
    /\ Goto(t, "mark")
    /\ UNCHANGED <<list, memory, halted, req, ptr, todo, owned>>

MarkFree(t) ==
    /\ At(t, "mark")
    /\ is_free' = [is_free EXCEPT ![cur[t]] = TRUE]
    /\ Goto(t, "right")
    /\ UNCHANGED <<blocks, size, next, prev, heap_tail, memory, lock, halted,
                   req, ptr, cur, todo, owned>>

(* Block b takes over its right neighbour n: both coalescing branches.     *)
Absorb(b, n) ==
    /\ blocks' = blocks \ {n}
    /\ size' = [x \in blocks' |->
                   IF x = b THEN size[b] + HEADER_SIZE + size[n] ELSE size[x]]
    /\ is_free' = [x \in blocks' |-> is_free[x]]
    /\ next' = [x \in blocks' |-> IF x = b THEN next[n] ELSE next[x]]
    /\ prev' = [x \in blocks' |-> IF x = next[n] THEN b ELSE prev[x]]
    /\ heap_tail' = IF n = heap_tail THEN b ELSE heap_tail

IsFree(b) == b # NULL /\ is_free[b]

CoalesceRight(t) ==
    /\ At(t, "right")
    /\ IF IsFree(next[cur[t]]) THEN Absorb(cur[t], next[cur[t]])
                               ELSE UNCHANGED list
    /\ Goto(t, "left")
    /\ UNCHANGED <<memory, lock, halted, req, ptr, cur, todo, owned>>

CoalesceLeft(t) ==
    /\ At(t, "left")
    /\ IF IsFree(prev[cur[t]]) THEN Absorb(prev[cur[t]], cur[t])
                               ELSE UNCHANGED list
    /\ Goto(t, "freed")
    /\ UNCHANGED <<memory, lock, halted, req, ptr, cur, todo, owned>>

KfreeReturn(t) ==
    /\ At(t, "freed")
    /\ lock' = NoThread
    /\ EndCall(t)
    /\ UNCHANGED <<list, memory, halted, todo, owned>>

-----------------------------------------------------------------------------
Call(t) ==
    \/ \E n \in Sizes : Kmalloc(t, n)
    \/ \E p \in DOMAIN owned, n \in Sizes : KreallocInPlace(t, p, n)
    \/ \E p \in DOMAIN owned, n \in Sizes : KreallocMove(t, p, n)
    \/ \E p \in DOMAIN owned : Kfree(t, p)

Step(t) ==
    \/ LockToAlloc(t) \/ SearchNext(t) \/ TakeWhole(t) \/ TakeSplit(t)
    \/ StartGrow(t) \/ MapPage(t) \/ OutOfMemory(t) \/ Panic(t)
    \/ OutOfTables(t) \/ JoinTail(t) \/ AppendTail(t) \/ KmallocReturn(t)
    \/ CopyOld(t)
    \/ LockToFree(t) \/ MarkFree(t) \/ CoalesceRight(t) \/ CoalesceLeft(t)
    \/ KfreeReturn(t)

Next == \E t \in Threads : Call(t) \/ Step(t)

Spec == Init /\ [][Next]_vars

-----------------------------------------------------------------------------
(* Properties *)

TypeOK ==
    /\ blocks \subseteq Nat \ {0}
    /\ size \in [blocks -> Nat]
    /\ is_free \in [blocks -> BOOLEAN]
    /\ next \in [blocks -> blocks \cup {NULL}]
    /\ prev \in [blocks -> blocks \cup {NULL}]
    /\ heap_tail \in blocks
    /\ heap_current_end \in Nat
    /\ lock \in Threads \cup {NoThread}
    /\ frames \in Nat
    /\ halted \in BOOLEAN
    /\ pc \in [Threads -> Pc]
    /\ req \in [Threads -> Nat]
    /\ ptr \in [Threads -> Nat]
    /\ cur \in [Threads -> Nat]
    /\ todo \in [Threads -> Nat]
    /\ DOMAIN owned \subseteq Nat
    /\ \A p \in DOMAIN owned : owned[p] \in [by : Threads, bytes : Nat]

(* The list is doubly linked in address order, from heap_start to          *)
(* heap_tail, and each block ends where the next begins, whatever splits,  *)
(* growths and coalescings came before: no byte of the heap is lost or     *)
(* belongs to two blocks.                                                  *)
Linked ==
    /\ heap_start \in blocks
    /\ \A b \in blocks :
          /\ next[b] = NULL <=> b = heap_tail
          /\ prev[b] = NULL <=> b = heap_start
          /\ next[b] # NULL => next[b] = End(b) /\ prev[next[b]] = b
          /\ prev[b] # NULL => next[prev[b]] = b
Disjoint ==
    \A b, c \in blocks : b < c => End(b) <= c

(* The last block ends where the mapped range ends, except while a growth  *)
(* is under way or was abandoned by an out-of-memory panic.                *)
EndsAtHeapEnd ==
    \/ End(heap_tail) = heap_current_end
    \/ End(heap_tail) <= heap_current_end
       /\ \E t \in Threads : pc[t] \in {"grow", "oom"}

(* Two neighbouring blocks are never both free, except next to a block     *)
(* whose kfree has not finished coalescing.                                *)
Coalesced ==
    \A b \in blocks :
        is_free[b] /\ IsFree(next[b]) =>
            \E t \in Threads :
                \/ pc[t] = "right" /\ cur[t] \in {b, next[b]}
                \/ pc[t] = "left" /\ cur[t] = next[b]

(* When nothing is allocated and no call is running, the heap is one free  *)
(* block again: nothing leaks.                                             *)
EmptyHeapIsWhole ==
    DOMAIN owned = {} /\ (\A t \in Threads : pc[t] = "idle") =>
        blocks = {heap_start} /\ is_free[heap_start]

(* The block list is whole at every step of every call: linked both ways,  *)
(* without gap or overlap, up to the end of the mapped heap, with free     *)
(* neighbours joined, and one free block again when everything has been    *)
(* given back.                                                             *)
ListIsWhole == Linked /\ Disjoint /\ EndsAtHeapEnd /\ Coalesced /\ EmptyHeapIsWhole

(* What a caller holds is a used block with room for every byte it asked   *)
(* for, and it ends before the next header.                                *)
GrantsAreReal ==
    \A p \in DOMAIN owned :
        /\ Header(p) \in blocks
        /\ ~is_free[Header(p)]
        /\ owned[p].bytes <= size[Header(p)]

(* "Guaranteed to succeed unless OOM panic occurred": after a growth the   *)
(* second search never comes to the end of the list.                       *)
RetrySucceeds ==
    \A t \in Threads : pc[t] = "refind" => cur[t] # NULL

(* krealloc copies between two blocks of its caller, and what it found out *)
(* about the old one without the lock is still true.                       *)
CopyFits ==
    \A t \in Threads :
        pc[t] = "copy" =>
            /\ Owns(t, ptr[t]) /\ Owns(t, Data(cur[t]))
            /\ ptr[t] # Data(cur[t])
            /\ size[Header(ptr[t])] < req[t]
            /\ req[t] <= size[cur[t]]

(* No call by any thread moves, resizes or frees a block another call has  *)
(* handed out and nobody gave back.                                        *)
OwnedIsStable ==
    [][\A p \in DOMAIN owned \cap DOMAIN owned' :
          /\ Header(p) \in blocks' /\ ~is_free'[Header(p)]
          /\ size'[Header(p)] = size[Header(p)]
          /\ owned'[p].by = owned[p].by]_vars

-----------------------------------------------------------------------------
(* What the heap promises *)
Abs == INSTANCE HeapAbs WITH
    granted <- [b \in {x \in blocks : ~is_free[x]} |-> End(b)]
Implements == Abs!Spec
=============================================================================
