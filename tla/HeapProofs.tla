----------------------------- MODULE HeapProofs -----------------------------
(***************************************************************************)
(* For any number of threads and any sizes, pages and headers: the list of *)
(* Heap stays well formed, grants are real and stable, a retried search    *)
(* succeeds, and every step is a step of HeapAbs or a stutter.             *)
(*                                                                         *)
(* The inductive invariant Inv says what the list looks like between any   *)
(* two steps (ListInv), where the last block ends, what the thread inside  *)
(* the lock knows about the list, and which used block belongs to whom.    *)
(***************************************************************************)
EXTENDS Heap, TLAPS

(* The list alone. *)
ListTypes ==
    /\ blocks \subseteq Nat \ {0}
    /\ size \in [blocks -> Nat]
    /\ is_free \in [blocks -> BOOLEAN]
    /\ next \in [blocks -> blocks \cup {NULL}]
    /\ prev \in [blocks -> blocks \cup {NULL}]
    /\ heap_tail \in blocks

Ordered == \A b \in blocks : heap_start <= b /\ b <= heap_tail

ListInv == ListTypes /\ Linked /\ Disjoint /\ Ordered

(* The thread inside the lock is the one whose step says so.               *)
LockInv == \A t \in Threads : pc[t] \in Locked <=> lock = t

(* While a thread grows the heap it knows where the new range began; after *)
(* an abandoned growth no page is left, so no other growth completes.      *)
Abandoned == \E t \in Threads : pc[t] = "oom"

EndInv ==
    /\ End(heap_tail) <= heap_current_end
    /\ Abandoned => frames = 0
    /\ (\A t \in Threads : pc[t] \notin {"grow", "oom"})
          => End(heap_tail) = heap_current_end
    /\ \A t \in Threads : pc[t] = "grow" =>
          /\ todo[t] <= PagesNeeded(align(req[t]))
          /\ heap_current_end =
                cur[t] + (PagesNeeded(align(req[t])) - todo[t]) * PAGE_SIZE
          /\ Abandoned => todo[t] > 0
          /\ ~Abandoned => cur[t] = End(heap_tail)

(* What a searching, returning or freeing thread knows about the list.     *)
StepInv ==
    \A t \in Threads :
        /\ pc[t] = "find" => cur[t] \in blocks \cup {NULL}
        /\ pc[t] = "refind" =>
              /\ cur[t] \in blocks
              /\ is_free[heap_tail]
              /\ align(req[t]) <= size[heap_tail]
        /\ pc[t] = "got" =>
              /\ cur[t] \in blocks
              /\ ~is_free[cur[t]]
              /\ req[t] <= size[cur[t]]
        /\ pc[t] \in {"free", "mark"} =>
              /\ Header(ptr[t]) \in blocks
              /\ ~is_free[Header(ptr[t])]
        /\ pc[t] = "mark" => cur[t] = Header(ptr[t])
        /\ pc[t] \in {"right", "left"} =>
              /\ cur[t] \in blocks
              /\ is_free[cur[t]]
        /\ pc[t] = "left" => ~IsFree(next[cur[t]])

(* Call t has block b in hand, and no caller holds it.                     *)
InHand(t, b) ==
    \/ pc[t] = "got" /\ b = cur[t]
    \/ pc[t] \in {"free", "mark"} /\ b = Header(ptr[t])

(* Every used block is held by one caller or in the hand of one call.      *)
OwnerInv ==
    /\ \A t \in Threads : \A b \in blocks :
          InHand(t, b) => Data(b) \notin DOMAIN owned
    /\ \A t, u \in Threads : \A b \in blocks :
          InHand(t, b) /\ InHand(u, b) => t = u
    /\ \A b \in blocks :
          ~is_free[b] => \/ Data(b) \in DOMAIN owned
                         \/ \E t \in Threads : InHand(t, b)

(* krealloc's old block, from the unlocked look at its header to the copy. *)
MoveInv ==
    \A t \in Threads :
        /\ pc[t] = "idle" => ptr[t] = NULL
        /\ pc[t] \in {"alloc", "find", "grow", "refind", "got"}
             /\ ptr[t] # NULL =>
              /\ Owns(t, ptr[t])
              /\ size[Header(ptr[t])] < req[t]

Inv ==
    /\ TypeOK
    /\ ListInv
    /\ LockInv
    /\ EndInv
    /\ StepInv
    /\ Coalesced
    /\ OwnerInv
    /\ GrantsAreReal
    /\ MoveInv
    /\ CopyFits

-----------------------------------------------------------------------------
(* The constants, one by one. *)
LEMMA Constants ==
    /\ HEADER_SIZE \in Nat /\ HEADER_SIZE > 0
    /\ SPLIT_MIN \in Nat /\ SPLIT_MIN > 0
    /\ PAGE_SIZE \in Nat /\ PAGE_SIZE > 0
    /\ heap_start \in Nat /\ heap_start > 0
    /\ KHEAP_INITIAL_SIZE \in Nat /\ HEADER_SIZE < KHEAP_INITIAL_SIZE
    /\ Frames \in Nat
    /\ NoThread \notin Threads
    /\ \A n \in Sizes : n \in Nat
  BY HeapAssumption DEF heap_start

(* Sizes.  Rounding up to a multiple of d loses nothing. *)
LEMMA RoundUp ==
  ASSUME NEW n \in Nat, NEW d \in Nat \ {0}
  PROVE  /\ (n + d - 1) \div d \in Nat
         /\ n <= ((n + d - 1) \div d) * d
         /\ n > 0 => (n + d - 1) \div d > 0
  <1> DEFINE q == (n + d - 1) \div d
             r == (n + d - 1) % d
  <1>1. n + d - 1 \in Nat
    OBVIOUS
  <1>2. q \in Int /\ r \in 0..d-1 /\ n + d - 1 = d * q + r
    BY <1>1
  <1>3. n <= q * d
    <2> HIDE DEF q, r
    <2> QED BY <1>2
  <1>4. q \in Nat
    BY <1>1
  <1>5. n > 0 => q > 0
    <2> HIDE DEF q, r
    <2> QED BY <1>3, <1>4
  <1> QED BY <1>3, <1>4, <1>5

LEMMA AlignCovers ==
  ASSUME NEW n \in Nat
  PROVE  align(n) \in Nat /\ n <= align(n)
  <1>1. ALIGN \in Nat \ {0}
    BY HeapAssumption
  <1>2. (n + ALIGN - 1) \div ALIGN \in Nat
    BY <1>1, RoundUp
  <1>3. n <= ((n + ALIGN - 1) \div ALIGN) * ALIGN
    BY <1>1, RoundUp
  <1> QED BY <1>1, <1>2, <1>3 DEF align

(* The pages mapped for a request hold its payload and one more header.    *)
LEMMA PagesCover ==
  ASSUME NEW n \in Nat
  PROVE  /\ PagesNeeded(n) \in Nat
         /\ PagesNeeded(n) > 0
         /\ n + HEADER_SIZE <= PagesNeeded(n) * PAGE_SIZE
  <1>1. PAGE_SIZE \in Nat \ {0} /\ HEADER_SIZE \in Nat \ {0}
    BY HeapAssumption
  <1>2. TotalNeeded(n) \in Nat /\ TotalNeeded(n) > 0
        /\ n + HEADER_SIZE <= TotalNeeded(n)
    BY HeapAssumption DEF TotalNeeded
  <1> QED BY <1>1, <1>2, RoundUp DEF PagesNeeded

-----------------------------------------------------------------------------
(* The list operations keep the list well formed. *)
LEMMA SplitList ==
  ASSUME ListInv, NEW b \in blocks, NEW n \in Nat,
         n + HEADER_SIZE <= size[b],
         Split(b, n, SplitPoint(b, n))
  PROVE  /\ ListInv'
         /\ End(heap_tail)' = End(heap_tail)
         /\ SplitPoint(b, n) \notin blocks
  <1> DEFINE new == SplitPoint(b, n)
  <1> USE HeapAssumption DEF NULL
  <1>1. b < new /\ new + HEADER_SIZE <= End(b) /\ new \in Nat \ {0}
    BY DEF ListInv, ListTypes, End, SplitPoint
  <1>2. new \notin blocks
    <2> SUFFICES ASSUME new \in blocks PROVE FALSE
      OBVIOUS
    <2>1. End(b) <= new
      BY <1>1 DEF ListInv, Disjoint
    <2> QED BY <1>1, <2>1 DEF ListInv, ListTypes, End
  <1> HIDE DEF new
  <1>s. Split(b, n, new)
    BY DEF new
  <1>n. new = b + HEADER_SIZE + n
    BY DEF new, SplitPoint
  <1>p. \A x \in blocks : prev[x] = b <=> x = next[b]
    BY DEF ListInv, ListTypes, Linked
  <1>3. ListTypes'
    <2>1. size' \in [blocks' -> Nat]
      BY <1>s, <1>1 DEF Split, ListInv, ListTypes
    <2>2. is_free' \in [blocks' -> BOOLEAN]
      BY <1>s DEF Split, ListInv, ListTypes
    <2>3. next' \in [blocks' -> blocks' \cup {NULL}]
      BY <1>s DEF Split, ListInv, ListTypes
    <2>4. prev' \in [blocks' -> blocks' \cup {NULL}]
      BY <1>s DEF Split, ListInv, ListTypes
    <2> QED
      BY <1>s, <1>1, <2>1, <2>2, <2>3, <2>4 DEF Split, ListInv, ListTypes
  <1>4. Linked'
    BY <1>s, <1>n, <1>p, <1>1, <1>2, <1>3
    DEF Split, ListInv, ListTypes, Linked, End, heap_start
  <1>5. Disjoint'
    BY <1>s, <1>n, <1>1, <1>2 DEF Split, ListInv, ListTypes, Disjoint, End
  <1>6. Ordered'
    BY <1>s, <1>n, <1>1, <1>2
    DEF Split, ListInv, ListTypes, Ordered, Disjoint, Linked, End, heap_start
  <1>7. End(heap_tail)' = End(heap_tail)
    BY <1>s, <1>n, <1>1, <1>2 DEF Split, ListInv, ListTypes, Linked, End
  <1> QED BY <1>2, <1>3, <1>4, <1>5, <1>6, <1>7 DEF ListInv, new

LEMMA AbsorbList ==
  ASSUME ListInv, NEW b \in blocks, NEW n \in blocks, n = next[b], Absorb(b, n)
  PROVE  /\ ListInv'
         /\ End(heap_tail)' = End(heap_tail)
         /\ b # n
  <1> USE HeapAssumption DEF NULL
  <1>0. b \in Nat /\ n \in Nat /\ n # NULL
    BY DEF ListInv, ListTypes
  <1>1. n = End(b) /\ prev[n] = b /\ b < n /\ n # b /\ n # heap_start
    BY <1>0 DEF ListInv, ListTypes, Linked, End
  <1>2. \A x \in blocks : /\ next[x] = n => x = b
                          /\ prev[x] = n => x = next[n]
                          /\ x # n => next[x] # next[n] \/ next[n] = NULL
    BY <1>0, <1>1 DEF ListInv, ListTypes, Linked
  <1>3. ListTypes'
    <2>1. size' \in [blocks' -> Nat]
      <3>1. size[b] + HEADER_SIZE + size[n] \in Nat
        BY DEF ListInv, ListTypes
      <3> QED BY <3>1 DEF Absorb, ListInv, ListTypes
    <2>2. is_free' \in [blocks' -> BOOLEAN]
      BY <1>1 DEF Absorb, ListInv, ListTypes
    <2>3. next' \in [blocks' -> blocks' \cup {NULL}]
      <3>1. next[n] # n
        BY <1>0, <1>1, <1>2
      <3> QED BY <1>1, <1>2, <3>1 DEF Absorb, ListInv, ListTypes
    <2>4. prev' \in [blocks' -> blocks' \cup {NULL}]
      BY <1>1, <1>2 DEF Absorb, ListInv, ListTypes
    <2>5. heap_tail' \in blocks' /\ blocks' \subseteq Nat \ {0}
      BY <1>1 DEF Absorb, ListInv, ListTypes
    <2> QED
      BY <2>1, <2>2, <2>3, <2>4, <2>5 DEF ListTypes
  <1>4. Linked'
    BY <1>1, <1>2, <1>3
    DEF Absorb, ListInv, ListTypes, Linked, End, heap_start
  <1>e. /\ blocks' = blocks \ {n}
        /\ \A x \in blocks' : End(x)' = IF x = b THEN End(n) ELSE End(x)
    BY <1>1 DEF Absorb, ListInv, ListTypes, End
  <1>g. \A x \in blocks : /\ x \in Nat /\ End(x) \in Nat
                          /\ b < x => n <= x
                          /\ n < x => End(n) <= x
                          /\ x < b => End(x) <= b
    BY <1>1 DEF ListInv, ListTypes, Disjoint, End
  <1>5. Disjoint'
    <2> SUFFICES ASSUME NEW x \in blocks', NEW y \in blocks', x < y
                 PROVE  End(x)' <= y
      BY DEF Disjoint
    <2>1. CASE x = b
      BY <2>1, <1>e, <1>g, <1>1
    <2>2. CASE x # b
      BY <2>2, <1>e DEF ListInv, Disjoint
    <2> QED BY <2>1, <2>2
  <1>6. Ordered'
    BY <1>1, <1>e, <1>g DEF Absorb, ListInv, Ordered, heap_start
  <1>7. End(heap_tail)' = End(heap_tail)
    BY <1>1 DEF Absorb, ListInv, ListTypes, Linked, End
  <1> QED BY <1>1, <1>3, <1>4, <1>5, <1>6, <1>7 DEF ListInv

LEMMA AppendList ==
  ASSUME ListInv, NEW n \in Nat, NEW new, new = End(heap_tail), Append(new, n)
  PROVE  /\ ListInv'
         /\ End(heap_tail)' = new + HEADER_SIZE + n
         /\ new \notin blocks
  <1> USE HeapAssumption DEF NULL
  <1>1. new \in Nat \ {0} /\ heap_tail < new /\ new \notin blocks
    BY DEF ListInv, ListTypes, Ordered, End
  <1>2. ListTypes'
    <2>1. size' \in [blocks' -> Nat]
      BY <1>1 DEF Append, ListInv, ListTypes
    <2>2. is_free' \in [blocks' -> BOOLEAN]
      BY <1>1 DEF Append, ListInv, ListTypes
    <2>3. next' \in [blocks' -> blocks' \cup {NULL}]
      BY <1>1 DEF Append, ListInv, ListTypes
    <2>4. prev' \in [blocks' -> blocks' \cup {NULL}]
      BY <1>1 DEF Append, ListInv, ListTypes
    <2> QED
      BY <1>1, <2>1, <2>2, <2>3, <2>4 DEF Append, ListInv, ListTypes
  <1>3. Linked'
    BY <1>1, <1>2 DEF Append, ListInv, ListTypes, Linked, End, heap_start
  <1>4. Disjoint'
    BY <1>1 DEF Append, ListInv, ListTypes, Disjoint, Ordered, End
  <1>5. Ordered'
    BY <1>1 DEF Append, ListInv, ListTypes, Ordered, heap_start
  <1>6. End(heap_tail)' = new + HEADER_SIZE + n
    BY <1>1 DEF Append, ListInv, ListTypes, End
  <1> QED BY <1>1, <1>2, <1>3, <1>4, <1>5, <1>6 DEF ListInv

-----------------------------------------------------------------------------
(* Steps inside the lock leave the other threads' calls alone. *)
Inside(t) ==
    /\ pc[t] \in Locked /\ pc' \in [Threads -> Pc] /\ pc'[t] \in Locked
    /\ pc[t] \in Freeing <=> pc'[t] \in Freeing
    /\ pc[t] # "got" /\ pc'[t] # "mark"
    /\ \A u \in Threads \ {t} : pc'[u] = pc[u] /\ cur'[u] = cur[u]
    /\ UNCHANGED <<owned, ptr, req, lock>>

(* Used blocks stay as they are, but for the one that kfree marks free. *)
KeepsUsed(t) ==
    \A b \in blocks :
        ~is_free[b] /\ ~(pc[t] = "mark" /\ b = cur[t]) =>
            b \in blocks' /\ ~is_free'[b] /\ size'[b] = size[b]

LEMMA InsideStep ==
  ASSUME Inv, NEW t \in Threads, Inside(t), KeepsUsed(t)
  PROVE  /\ LockInv' /\ GrantsAreReal' /\ MoveInv' /\ CopyFits'
         /\ \A u \in Threads \ {t} :
               /\ pc'[u] \notin Locked
               /\ pc'[u] = "free" => /\ Header(ptr'[u]) \in blocks'
                                     /\ ~is_free'[Header(ptr'[u])]
  <1> USE Constants DEF Inv, NULL
  <1>1. lock = t /\ \A u \in Threads \ {t} : pc[u] \notin Locked
    BY DEF Inside, LockInv
  <1>2. LockInv'
    BY <1>1 DEF Inside, LockInv
  <1>3. \A p \in DOMAIN owned :
           /\ Header(p) \in blocks /\ ~is_free[Header(p)]
           /\ ~(pc[t] = "mark" /\ Header(p) = cur[t])
    BY DEF GrantsAreReal, OwnerInv, InHand, StepInv, TypeOK, Data, Header
  <1>4. \A p \in DOMAIN owned :
           /\ Header(p) \in blocks' /\ ~is_free'[Header(p)]
           /\ size'[Header(p)] = size[Header(p)]
    BY <1>3 DEF KeepsUsed
  <1>5. GrantsAreReal'
    BY <1>4 DEF GrantsAreReal, Inside
  <1>6. MoveInv'
    BY <1>1, <1>4
    DEF Inside, MoveInv, Owns, Locked, Searching, Freeing
  <1>7. CopyFits'
    <2> SUFFICES ASSUME NEW u \in Threads, pc'[u] = "copy"
                 PROVE  /\ Owns(u, ptr[u]) /\ Owns(u, Data(cur[u]))
                        /\ ptr[u] # Data(cur[u])
                        /\ size'[Header(ptr[u])] < req[u]
                        /\ req[u] <= size'[cur[u]]
                        /\ cur'[u] = cur[u]
      BY DEF CopyFits, Owns, Inside, Data
    <2>1. u # t /\ pc[u] = "copy" /\ cur'[u] = cur[u]
      BY DEF Inside, Locked, Searching, Freeing
    <2>2. Header(Data(cur[u])) = cur[u]
      BY DEF TypeOK, Header, Data
    <2> QED BY <1>4, <2>1, <2>2 DEF CopyFits, Owns
  <1>8. \A u \in Threads \ {t} :
           pc'[u] = "free" => /\ Header(ptr'[u]) \in blocks'
                              /\ ~is_free'[Header(ptr'[u])]
    <2> SUFFICES ASSUME NEW u \in Threads \ {t}, pc[u] = "free"
                 PROVE  /\ Header(ptr[u]) \in blocks'
                        /\ ~is_free'[Header(ptr[u])]
      BY DEF Inside
    <2>1. Header(ptr[u]) \in blocks /\ ~is_free[Header(ptr[u])]
      BY DEF StepInv
    <2>2. ~(pc[t] = "mark" /\ Header(ptr[u]) = cur[t])
      BY <2>1 DEF OwnerInv, InHand, StepInv
    <2> QED BY <2>1, <2>2 DEF KeepsUsed
  <1>9. \A u \in Threads \ {t} : pc'[u] \notin Locked
    BY <1>1 DEF Inside
  <1> QED BY <1>2, <1>5, <1>6, <1>7, <1>8, <1>9

(* What a step may do to the used blocks: nothing, take the free block     *)
(* under the cursor, or mark one free.                                     *)
SameUsed ==
    /\ \A b \in blocks : ~is_free[b] =>
          b \in blocks' /\ ~is_free'[b] /\ size'[b] = size[b]
    /\ \A b \in blocks' : ~is_free'[b] => b \in blocks /\ ~is_free[b]

Takes(t) ==
    /\ cur[t] \in blocks /\ is_free[cur[t]]
    /\ cur[t] \in blocks' /\ ~is_free'[cur[t]]
    /\ size'[cur[t]] <= size[cur[t]]
    /\ \A b \in blocks : ~is_free[b] =>
          b \in blocks' /\ ~is_free'[b] /\ size'[b] = size[b]
    /\ \A b \in blocks' : ~is_free'[b] =>
          b = cur[t] \/ (b \in blocks /\ ~is_free[b])

Marks(t) ==
    /\ cur[t] \in blocks /\ ~is_free[cur[t]]
    /\ UNCHANGED <<blocks, size>>
    /\ \A b \in blocks : is_free'[b] <=> is_free[b] \/ b = cur[t]

(* Steps that do not grow the heap keep its end.                           *)
LEMMA EndKept ==
  ASSUME Inv, NEW t \in Threads, Inside(t), pc[t] # "grow", pc'[t] # "grow",
         End(heap_tail)' = End(heap_tail), UNCHANGED memory
  PROVE  EndInv'
  <1>1. \A u \in Threads : pc[u] # "grow" /\ pc'[u] # "grow"
    BY DEF Inv, Inside, LockInv, Locked
  <1>2. \A u \in Threads : pc'[u] = "oom" <=> pc[u] = "oom"
    BY DEF Inside, Locked, Searching, Freeing
  <1> QED BY <1>1, <1>2 DEF Inv, EndInv, Abandoned, memory

(* Steps that take no block and mark none.                                 *)
LEMMA OwnerKept ==
  ASSUME Inv, NEW t \in Threads, Inside(t), KeepsUsed(t),
         pc[t] # "mark", pc'[t] # "got",
         \A b \in blocks' : ~is_free'[b] => b \in blocks /\ ~is_free[b]
  PROVE  OwnerInv'
  <1>1. \A u \in Threads, b \in blocks' : InHand(u, b)' <=> InHand(u, b)
    BY DEF Inside, InHand, Locked, Searching, Freeing
  <1>2. \A u \in Threads, b \in blocks' :
           InHand(u, b) => b \in blocks
    BY DEF Inside, InHand, Inv, StepInv
  <1> QED BY <1>1, <1>2 DEF Inv, OwnerInv, Inside

-----------------------------------------------------------------------------
(* Every step preserves the invariant: a lemma per action, and in it a     *)
(* step per part of the invariant.                                         *)
LEMMA KmallocInv ==
  ASSUME Inv, NEW t \in Threads, NEW n \in Sizes, Kmalloc(t, n)
  PROVE  Inv'
  <1> USE HeapAssumption DEF NULL, Inv
  <1>1. TypeOK'
    BY DEF Kmalloc, At, Goto, list, memory, TypeOK, Pc, Locked, Searching,
           Freeing
  <1>2. ListInv'
    BY DEF Kmalloc, At, Goto, list, memory, ListInv, ListTypes, Linked,
           Disjoint, Ordered, End, heap_start
  <1>3. LockInv'
    BY DEF Kmalloc, At, Goto, list, memory, TypeOK, LockInv, Locked,
           Searching, Freeing
  <1>4. EndInv'
    BY DEF Kmalloc, At, Goto, list, memory, TypeOK, EndInv, Abandoned, End
  <1>5. StepInv'
    BY DEF Kmalloc, At, Goto, list, memory, TypeOK, StepInv, LockInv, Locked,
           Searching, Freeing, IsFree
  <1>6. Coalesced'
    BY DEF Kmalloc, At, Goto, list, memory, TypeOK, Coalesced, IsFree
  <1>7. OwnerInv'
    BY DEF Kmalloc, At, Goto, list, memory, TypeOK, OwnerInv, InHand
  <1>8. GrantsAreReal'
    BY DEF Kmalloc, At, Goto, list, memory, TypeOK, GrantsAreReal
  <1>9. MoveInv'
    BY DEF Kmalloc, At, Goto, list, memory, TypeOK, MoveInv, Owns
  <1>10. CopyFits'
    BY DEF Kmalloc, At, Goto, list, memory, TypeOK, CopyFits, Owns
  <1> QED
    BY <1>1, <1>2, <1>3, <1>4, <1>5, <1>6, <1>7, <1>8, <1>9, <1>10

LEMMA KreallocInPlaceInv ==
  ASSUME Inv, NEW t \in Threads, NEW p \in DOMAIN owned, NEW n \in Sizes, KreallocInPlace(t, p, n)
  PROVE  Inv'
  <1> USE HeapAssumption DEF NULL, Inv
  <1>1. TypeOK'
    BY DEF KreallocInPlace, At, Goto, Owns, Grant, list, memory, TypeOK, Pc,
           Locked, Searching, Freeing
  <1>2. ListInv'
    BY DEF KreallocInPlace, At, Goto, Owns, Grant, list, memory, ListInv,
           ListTypes, Linked, Disjoint, Ordered, End, heap_start
  <1>3. LockInv'
    BY DEF KreallocInPlace, At, Goto, Owns, Grant, list, memory, TypeOK,
           LockInv, Locked, Searching, Freeing
  <1>4. EndInv'
    BY DEF KreallocInPlace, At, Goto, Owns, Grant, list, memory, TypeOK,
           EndInv, Abandoned, End
  <1>5. StepInv'
    BY DEF KreallocInPlace, At, Goto, Owns, Grant, list, memory, TypeOK,
           StepInv, LockInv, Locked, Searching, Freeing, IsFree
  <1>6. Coalesced'
    BY DEF KreallocInPlace, At, Goto, Owns, Grant, list, memory, TypeOK,
           Coalesced, IsFree
  <1>7. OwnerInv'
    BY DEF KreallocInPlace, At, Goto, Owns, Grant, list, memory, TypeOK,
           OwnerInv, InHand
  <1>8. GrantsAreReal'
    BY DEF KreallocInPlace, At, Goto, Owns, Grant, list, memory, TypeOK,
           GrantsAreReal
  <1>9. MoveInv'
    BY DEF KreallocInPlace, At, Goto, Owns, Grant, list, memory, TypeOK,
           MoveInv
  <1>10. CopyFits'
    BY DEF KreallocInPlace, At, Goto, Owns, Grant, list, memory, TypeOK,
           CopyFits
  <1> QED
    BY <1>1, <1>2, <1>3, <1>4, <1>5, <1>6, <1>7, <1>8, <1>9, <1>10

LEMMA KreallocMoveInv ==
  ASSUME Inv, NEW t \in Threads, NEW p \in DOMAIN owned, NEW n \in Sizes, KreallocMove(t, p, n)
  PROVE  Inv'
  <1> USE HeapAssumption DEF NULL, Inv
  <1>1. TypeOK'
    BY DEF KreallocMove, At, Goto, Owns, list, memory, TypeOK, Pc, Locked,
           Searching, Freeing
  <1>2. ListInv'
    BY DEF KreallocMove, At, Goto, Owns, list, memory, ListInv, ListTypes,
           Linked, Disjoint, Ordered, End, heap_start
  <1>3. LockInv'
    BY DEF KreallocMove, At, Goto, Owns, list, memory, TypeOK, LockInv,
           Locked, Searching, Freeing
  <1>4. EndInv'
    BY DEF KreallocMove, At, Goto, Owns, list, memory, TypeOK, EndInv,
           Abandoned, End
  <1>5. StepInv'
    BY DEF KreallocMove, At, Goto, Owns, list, memory, TypeOK, StepInv,
           LockInv, Locked, Searching, Freeing, IsFree
  <1>6. Coalesced'
    BY DEF KreallocMove, At, Goto, Owns, list, memory, TypeOK, Coalesced,
           IsFree
  <1>7. OwnerInv'
    BY DEF KreallocMove, At, Goto, Owns, list, memory, TypeOK, OwnerInv,
           InHand
  <1>8. GrantsAreReal'
    BY DEF KreallocMove, At, Goto, Owns, list, memory, TypeOK, GrantsAreReal
  <1>9. MoveInv'
    BY DEF KreallocMove, At, Goto, Owns, list, memory, TypeOK, MoveInv
  <1>10. CopyFits'
    BY DEF KreallocMove, At, Goto, Owns, list, memory, TypeOK, CopyFits
  <1> QED
    BY <1>1, <1>2, <1>3, <1>4, <1>5, <1>6, <1>7, <1>8, <1>9, <1>10

LEMMA KfreeInv ==
  ASSUME Inv, NEW t \in Threads, NEW p \in DOMAIN owned, Kfree(t, p)
  PROVE  Inv'
  <1> USE HeapAssumption DEF NULL, Inv
  <1>1. TypeOK'
    BY DEF Kfree, At, Goto, Owns, GiveBack, list, memory, TypeOK, Pc, Locked,
           Searching, Freeing
  <1>2. ListInv'
    BY DEF Kfree, At, Goto, Owns, GiveBack, list, memory, ListInv, ListTypes,
           Linked, Disjoint, Ordered, End, heap_start
  <1>3. LockInv'
    BY DEF Kfree, At, Goto, Owns, GiveBack, list, memory, TypeOK, LockInv,
           Locked, Searching, Freeing
  <1>4. EndInv'
    BY DEF Kfree, At, Goto, Owns, GiveBack, list, memory, TypeOK, EndInv,
           Abandoned, End
  <1>5. StepInv'
    <2>1. Header(p) \in blocks /\ ~is_free[Header(p)]
      BY DEF GrantsAreReal
    <2>2. /\ ptr' = [ptr EXCEPT ![t] = p] /\ pc' = [pc EXCEPT ![t] = "free"]
          /\ UNCHANGED <<list, cur, req>>
      BY DEF Kfree, Goto
    <2> QED
      BY <2>1, <2>2 DEF StepInv, TypeOK, list, IsFree
  <1>6. Coalesced'
    BY DEF Kfree, At, Goto, Owns, GiveBack, list, memory, TypeOK, Coalesced,
           IsFree
  <1>7. OwnerInv'
    <2>1. /\ Header(p) \in blocks /\ ~is_free[Header(p)]
          /\ \A b \in blocks : Data(b) = p <=> b = Header(p)
      BY Constants DEF GrantsAreReal, Data, Header, TypeOK
    <2>2. /\ ptr' = [ptr EXCEPT ![t] = p] /\ pc' = [pc EXCEPT ![t] = "free"]
          /\ pc[t] = "idle" /\ UNCHANGED <<list, cur>>
          /\ DOMAIN owned' = DOMAIN owned \ {p}
      BY DEF Kfree, Goto, At, GiveBack
    <2>3. \A u \in Threads \ {t} : \A b \in blocks :
             InHand(u, b)' <=> InHand(u, b)
      BY <2>2 DEF InHand, TypeOK
    <2>4. \A b \in blocks : InHand(t, b)' <=> b = Header(p)
      BY <2>2 DEF InHand, TypeOK
    <2>5. \A u \in Threads : ~InHand(u, Header(p))
      BY <2>1 DEF OwnerInv
    <2>6. \A b \in blocks : ~InHand(t, b)
      BY <2>2 DEF InHand
    <2> QED
      BY <2>1, <2>2, <2>3, <2>4, <2>5, <2>6 DEF OwnerInv, list
  <1>8. GrantsAreReal'
    BY DEF Kfree, At, Goto, Owns, GiveBack, list, memory, TypeOK,
           GrantsAreReal
  <1>9. MoveInv'
    BY DEF Kfree, At, Goto, Owns, GiveBack, list, memory, TypeOK, MoveInv
  <1>10. CopyFits'
    BY DEF Kfree, At, Goto, Owns, GiveBack, list, memory, TypeOK, CopyFits
  <1> QED
    BY <1>1, <1>2, <1>3, <1>4, <1>5, <1>6, <1>7, <1>8, <1>9, <1>10

LEMMA LockToAllocInv ==
  ASSUME Inv, NEW t \in Threads, LockToAlloc(t)
  PROVE  Inv'
  <1> USE HeapAssumption DEF NULL, Inv
  <1>1. TypeOK'
    BY Constants DEF LockToAlloc, At, Goto, list, memory, TypeOK, Pc, Locked,
           Searching
  <1>2. ListInv'
    BY DEF LockToAlloc, At, Goto, list, memory, ListInv, ListTypes, Linked,
           Disjoint, Ordered, End, heap_start
  <1>3. LockInv'
    BY DEF LockToAlloc, At, Goto, list, memory, TypeOK, LockInv, Locked,
           Searching, Freeing
  <1>4. EndInv'
    BY DEF LockToAlloc, At, Goto, list, memory, TypeOK, EndInv, Abandoned,
           End
  <1>5. StepInv'
    <2>1. heap_start \in blocks
      BY DEF ListInv, Linked
    <2> QED
      BY <2>1 DEF LockToAlloc, At, Goto, list, TypeOK, StepInv, IsFree
  <1>6. Coalesced'
    BY DEF LockToAlloc, At, Goto, list, memory, TypeOK, Coalesced, IsFree
  <1>7. OwnerInv'
    BY DEF LockToAlloc, At, Goto, list, memory, TypeOK, OwnerInv, InHand
  <1>8. GrantsAreReal'
    BY DEF LockToAlloc, At, Goto, list, memory, TypeOK, GrantsAreReal
  <1>9. MoveInv'
    BY DEF LockToAlloc, At, Goto, list, memory, TypeOK, MoveInv, Owns
  <1>10. CopyFits'
    BY DEF LockToAlloc, At, Goto, list, memory, TypeOK, CopyFits, Owns
  <1> QED
    BY <1>1, <1>2, <1>3, <1>4, <1>5, <1>6, <1>7, <1>8, <1>9, <1>10

LEMMA SearchNextInv ==
  ASSUME Inv, NEW t \in Threads, SearchNext(t)
  PROVE  Inv'
  <1> USE HeapAssumption DEF NULL, Inv
  <1>x. cur[t] \in blocks /\ pc[t] \in Searching
    BY DEF SearchNext, AtBlock, StepInv, Searching
  <1>a. Inside(t)
    BY <1>x DEF SearchNext, AtBlock, list, memory, Inside, TypeOK, Pc,
           Locked, Searching, Freeing
  <1>b. KeepsUsed(t)
    BY DEF SearchNext, AtBlock, list, memory, KeepsUsed
  <1>c. /\ LockInv' /\ GrantsAreReal' /\ MoveInv' /\ CopyFits'
        /\ \A u \in Threads \ {t} :
              /\ pc'[u] \notin Locked
              /\ pc'[u] = "free" => /\ Header(ptr'[u]) \in blocks'
                                    /\ ~is_free'[Header(ptr'[u])]
    BY <1>a, <1>b, InsideStep
  <1>1. TypeOK'
    <2>1. next[cur[t]] \in Nat
      <3>1. next[cur[t]] \in blocks \/ next[cur[t]] = 0
        BY <1>x DEF TypeOK
      <3>2. \A b \in blocks : b \in Nat
        BY DEF TypeOK
      <3> QED BY <3>1, <3>2
    <2>2. cur' = [cur EXCEPT ![t] = next[cur[t]]]
          /\ UNCHANGED <<list, memory, lock, halted, pc, req, ptr, todo, owned>>
      BY DEF SearchNext
    <2> QED BY <2>1, <2>2 DEF list, memory, TypeOK
  <1>2. ListInv'
    BY DEF SearchNext, AtBlock, list, memory, ListInv, ListTypes, Linked,
           Disjoint, Ordered, End, heap_start
  <1>3. LockInv'
    BY <1>c
  <1>4. EndInv'
    BY <1>a, <1>x, EndKept DEF SearchNext, AtBlock, list, memory, Searching,
           End, TypeOK
  <1>5. StepInv'
    <2>1. pc[t] = "refind" => next[cur[t]] \in blocks
      <3> SUFFICES ASSUME pc[t] = "refind" PROVE next[cur[t]] # NULL
        BY <1>x DEF TypeOK
      <3>1. cur[t] # heap_tail
        BY DEF SearchNext, Fits, StepInv
      <3> QED BY <1>x, <3>1 DEF ListInv, Linked
    <2> QED
      BY <1>x, <1>c, <2>1
      DEF SearchNext, list, StepInv, TypeOK, Locked, Searching, Freeing
  <1>6. Coalesced'
    BY <1>x DEF SearchNext, AtBlock, list, memory, TypeOK, Coalesced, IsFree,
           Searching
  <1>7. OwnerInv'
    <2>1. \A b \in blocks' : ~is_free'[b] => b \in blocks /\ ~is_free[b]
      BY DEF SearchNext, AtBlock, list, memory, TypeOK, Append, Absorb
    <2>2. pc[t] # "mark" /\ pc'[t] # "got"
      BY DEF SearchNext, AtBlock, list, memory, TypeOK, Searching
    <2> QED BY <1>a, <1>b, <2>1, <2>2, OwnerKept
  <1>8. GrantsAreReal'
    BY <1>c
  <1>9. MoveInv'
    BY <1>c
  <1>10. CopyFits'
    BY <1>c
  <1> QED
    BY <1>1, <1>2, <1>3, <1>4, <1>5, <1>6, <1>7, <1>8, <1>9, <1>10

LEMMA TakeWholeInv ==
  ASSUME Inv, NEW t \in Threads, TakeWhole(t)
  PROVE  Inv' /\ Takes(t)
  <1> USE HeapAssumption DEF NULL, Inv
  <1>x. cur[t] \in blocks /\ pc[t] \in Searching
    BY DEF TakeWhole, AtBlock, StepInv, Searching
  <1>y. is_free[cur[t]] /\ align(req[t]) <= size[cur[t]]
    BY DEF TakeWhole, Fits
  <1>a. Inside(t)
    BY <1>x DEF TakeWhole, AtBlock, Goto, list, memory, Inside, TypeOK, Pc,
           Locked, Searching, Freeing
  <1>b. KeepsUsed(t)
    BY <1>x DEF TakeWhole, AtBlock, Goto, list, memory, KeepsUsed, TypeOK,
           Fits
  <1>c. /\ LockInv' /\ GrantsAreReal' /\ MoveInv' /\ CopyFits'
        /\ \A u \in Threads \ {t} :
              /\ pc'[u] \notin Locked
              /\ pc'[u] = "free" => /\ Header(ptr'[u]) \in blocks'
                                    /\ ~is_free'[Header(ptr'[u])]
    BY <1>a, <1>b, InsideStep
  <1>1. TypeOK'
    BY DEF TakeWhole, AtBlock, Goto, list, memory, TypeOK, Pc, Locked,
           Searching, Freeing
  <1>2. ListInv'
    BY DEF TakeWhole, AtBlock, Goto, list, memory, ListInv, ListTypes,
           Linked, Disjoint, Ordered, End, heap_start
  <1>3. LockInv'
    BY <1>c
  <1>4. EndInv'
    BY <1>a, <1>x, EndKept DEF TakeWhole, AtBlock, Goto, list, memory,
           Searching, End, TypeOK
  <1>5. StepInv'
    <2>1. req[t] <= size[cur[t]]
      BY <1>x, <1>y, AlignCovers DEF TypeOK
    <2> QED
      BY <1>x, <1>c, <2>1
      DEF TakeWhole, Goto, StepInv, TypeOK, Locked, Searching, Freeing
  <1>6. Coalesced'
    BY DEF TakeWhole, AtBlock, Goto, list, memory, TypeOK, Coalesced, IsFree
  <1>7. OwnerInv'
    <2>1. Data(cur[t]) \notin DOMAIN owned
      BY <1>x, <1>y, Constants DEF GrantsAreReal, Data, Header, TypeOK
    <2>2. \A u \in Threads \ {t} : \A b \in blocks' :
             InHand(u, b)' <=> InHand(u, b) /\ b \in blocks /\ ~is_free[b]
      BY <1>c, <1>a DEF InHand, Inside, StepInv, Locked, Searching, Freeing
    <2>3. \A b \in blocks' : InHand(t, b)' <=> b = cur[t]
      BY <1>x DEF TakeWhole, AtBlock, Goto, list, memory, InHand, TypeOK
    <2>4. \A b \in blocks : ~InHand(t, b)
      BY <1>x DEF InHand, Searching
    <2>5. /\ cur[t] \in blocks'
          /\ \A b \in blocks' : ~is_free'[b] =>
                b = cur[t] \/ (b \in blocks /\ ~is_free[b])
      <3>1. cur[t] \in blocks'
        BY <1>x DEF TakeWhole
      <3> SUFFICES ASSUME NEW b \in blocks', b # cur[t], ~is_free'[b]
                   PROVE  b \in blocks /\ ~is_free[b]
        BY <3>1
      <3> QED
        BY <1>x DEF TakeWhole, TypeOK
    <2>6. owned' = owned
      BY DEF TakeWhole, AtBlock, Goto, list, memory
    <2> QED
      BY <1>x, <1>y, <2>1, <2>2, <2>3, <2>4, <2>5, <2>6 DEF OwnerInv
  <1>8. GrantsAreReal'
    BY <1>c
  <1>9. MoveInv'
    BY <1>c
  <1>10. CopyFits'
    BY <1>c
  <1>u. Takes(t)
    BY <1>x, <1>y DEF TakeWhole, Takes, TypeOK
  <1> QED
    BY <1>1, <1>2, <1>3, <1>4, <1>5, <1>6, <1>7, <1>8, <1>9, <1>10, <1>u

LEMMA TakeSplitInv ==
  ASSUME Inv, NEW t \in Threads, TakeSplit(t)
  PROVE  Inv' /\ Takes(t)
  <1> USE HeapAssumption DEF NULL, Inv
  <1>x. cur[t] \in blocks /\ pc[t] \in Searching
    BY DEF TakeSplit, AtBlock, StepInv, Searching
  <1>y. /\ is_free[cur[t]]
        /\ req[t] \in Nat /\ align(req[t]) \in Nat /\ req[t] <= align(req[t])
        /\ align(req[t]) + HEADER_SIZE <= size[cur[t]]
    BY <1>x, AlignCovers DEF TakeSplit, Fits, Splits, TypeOK
  <1> DEFINE n == align(req[t])
             new == SplitPoint(cur[t], n)
  <1>s. Split(cur[t], n, new)
    BY DEF TakeSplit
  <1>l. ListInv' /\ End(heap_tail)' = End(heap_tail) /\ new \notin blocks
    BY <1>x, <1>y, <1>s, SplitList
  <1> HIDE DEF n, new
  <1>a. Inside(t)
    BY <1>x DEF TakeSplit, AtBlock, Goto, list, memory, Inside, TypeOK, Pc,
           Locked, Searching, Freeing
  <1>b. KeepsUsed(t)
    BY <1>x, <1>y, <1>s, <1>l DEF KeepsUsed, Split
  <1>c. /\ LockInv' /\ GrantsAreReal' /\ MoveInv' /\ CopyFits'
        /\ \A u \in Threads \ {t} :
              /\ pc'[u] \notin Locked
              /\ pc'[u] = "free" => /\ Header(ptr'[u]) \in blocks'
                                    /\ ~is_free'[Header(ptr'[u])]
    BY <1>a, <1>b, InsideStep
  <1>1. TypeOK'
    BY <1>l, <1>a DEF TakeSplit, AtBlock, Goto, list, memory, ListInv,
           ListTypes, TypeOK, Inside
  <1>2. ListInv'
    BY <1>l
  <1>3. LockInv'
    BY <1>c
  <1>4. EndInv'
    BY <1>a, <1>l, <1>x, EndKept DEF TakeSplit, AtBlock, Goto, list, memory,
           Searching
  <1>5. StepInv'
    <2>1. cur[t] \in blocks' /\ ~is_free'[cur[t]] /\ req[t] <= size'[cur[t]]
      BY <1>x, <1>y, <1>s, <1>l DEF Split, n
    <2> QED
      BY <1>x, <1>c, <2>1
      DEF TakeSplit, Goto, StepInv, TypeOK, Locked, Searching, Freeing
  <1>6. Coalesced'
    <2>1. \A t1 \in Threads : pc[t1] \notin {"right", "left"}
      BY <1>x DEF LockInv, Locked, Searching, Freeing
    <2>2. \A b \in blocks : is_free[b] => ~IsFree(next[b])
      BY <2>1 DEF Coalesced
    <2>3. \A b \in blocks' : is_free'[b] =>
             /\ b # cur[t]
             /\ next'[b] # NULL =>
                   next'[b] \in blocks' /\ ~is_free'[next'[b]]
      <3> SUFFICES ASSUME NEW b \in blocks', is_free'[b]
                   PROVE  /\ b # cur[t]
                          /\ next'[b] # NULL => next'[b] \in blocks'
                                                /\ ~is_free'[next'[b]]
        OBVIOUS
      <3>1. b # cur[t] /\ cur[t] \in blocks /\ new # cur[t]
        BY <1>x, <1>s, <1>l DEF Split
      <3>2. CASE b = new
        <4>1. next'[b] = next[cur[t]]
          BY <1>s, <3>1, <3>2 DEF Split
        <4>2. next[cur[t]] # NULL => next[cur[t]] \in blocks
                                     /\ ~is_free[next[cur[t]]]
          BY <1>x, <1>y, <2>2 DEF IsFree, TypeOK
        <4> QED BY <4>1, <4>2, <3>1, <1>s, <1>l DEF Split
      <3>3. CASE b # new
        <4>1. b \in blocks /\ is_free[b] /\ next'[b] = next[b]
          BY <1>s, <3>1, <3>3 DEF Split
        <4>2. next[b] # NULL => next[b] \in blocks /\ ~is_free[next[b]]
          BY <4>1, <2>2 DEF IsFree, TypeOK
        <4>3. next[b] # NULL => next[b] # cur[t] /\ next[b] # new
          BY <4>2, <1>y, <1>l
        <4> QED BY <3>1, <4>1, <4>2, <4>3, <1>s DEF Split
      <3> QED BY <3>1, <3>2, <3>3
    <2> QED BY <2>3 DEF Coalesced, IsFree
  <1>7. OwnerInv'
    <2>1. Data(cur[t]) \notin DOMAIN owned
      BY <1>x, <1>y, Constants DEF GrantsAreReal, Data, Header, TypeOK
    <2>2. \A u \in Threads \ {t} : \A b \in blocks' :
             InHand(u, b)' <=> InHand(u, b) /\ b \in blocks /\ ~is_free[b]
      BY <1>c, <1>a DEF InHand, Inside, StepInv, Locked, Searching, Freeing
    <2>3. \A b \in blocks' : InHand(t, b)' <=> b = cur[t]
      BY <1>x DEF TakeSplit, AtBlock, Goto, list, memory, InHand, TypeOK
    <2>4. \A b \in blocks : ~InHand(t, b)
      BY <1>x DEF InHand, Searching
    <2>5. /\ cur[t] \in blocks'
          /\ \A b \in blocks' : ~is_free'[b] =>
                b = cur[t] \/ (b \in blocks /\ ~is_free[b])
      <3>1. cur[t] \in blocks'
        BY <1>x, <1>s DEF Split
      <3> SUFFICES ASSUME NEW b \in blocks', b # cur[t], ~is_free'[b]
                   PROVE  b \in blocks /\ ~is_free[b]
        BY <3>1
      <3> QED
        BY <1>x, <1>s, <1>l DEF Split, TypeOK
    <2>6. owned' = owned
      BY DEF TakeSplit, AtBlock, Goto, list, memory
    <2> QED
      BY <1>x, <1>y, <2>1, <2>2, <2>3, <2>4, <2>5, <2>6 DEF OwnerInv
  <1>8. GrantsAreReal'
    BY <1>c
  <1>9. MoveInv'
    BY <1>c
  <1>10. CopyFits'
    BY <1>c
  <1>u. Takes(t)
    <2>1. size'[cur[t]] = n /\ n <= size[cur[t]]
      BY <1>x, <1>y, <1>s, <1>l, Constants DEF Split, TypeOK, n
    <2>2. cur[t] \in blocks' /\ ~is_free'[cur[t]]
      BY <1>x, <1>s, <1>l DEF Split
    <2>3. \A b \in blocks : ~is_free[b] =>
             b \in blocks' /\ ~is_free'[b] /\ size'[b] = size[b]
      BY <1>x, <1>b DEF KeepsUsed, Searching
    <2>4. \A b \in blocks' : ~is_free'[b] =>
             b = cur[t] \/ (b \in blocks /\ ~is_free[b])
      BY <1>x, <1>s, <1>l DEF Split, TypeOK
    <2> QED BY <1>x, <1>y, <2>1, <2>2, <2>3, <2>4 DEF Takes
  <1> QED
    BY <1>1, <1>2, <1>3, <1>4, <1>5, <1>6, <1>7, <1>8, <1>9, <1>10, <1>u

LEMMA StartGrowInv ==
  ASSUME Inv, NEW t \in Threads, StartGrow(t)
  PROVE  Inv'
  <1> USE HeapAssumption DEF NULL, Inv
  <1>a. Inside(t)
    BY DEF StartGrow, At, Goto, list, memory, Inside, TypeOK, Pc, Locked,
           Searching, Freeing
  <1>b. KeepsUsed(t)
    BY DEF StartGrow, At, Goto, list, memory, KeepsUsed
  <1>c. /\ LockInv' /\ GrantsAreReal' /\ MoveInv' /\ CopyFits'
        /\ \A u \in Threads \ {t} :
              /\ pc'[u] \notin Locked
              /\ pc'[u] = "free" => /\ Header(ptr'[u]) \in blocks'
                                    /\ ~is_free'[Header(ptr'[u])]
    BY <1>a, <1>b, InsideStep
  <1>1. TypeOK'
    <2>1. PagesNeeded(align(req[t])) \in Nat
      BY AlignCovers, PagesCover DEF TypeOK
    <2> QED BY <2>1 DEF StartGrow, At, Goto, list, memory, TypeOK, Pc, Locked
  <1>2. ListInv'
    BY DEF StartGrow, At, Goto, list, memory, ListInv, ListTypes, Linked,
           Disjoint, Ordered, End, heap_start
  <1>3. LockInv'
    BY <1>c
  <1>4. EndInv'
    <2>1. /\ PagesNeeded(align(req[t])) \in Nat
          /\ PagesNeeded(align(req[t])) > 0
      BY AlignCovers, PagesCover DEF TypeOK
    <2>2. /\ pc[t] = "find"
          /\ \A u \in Threads : pc[u] # "grow"
      BY DEF StartGrow, At, LockInv, Locked, Searching
    <2>3. ~Abandoned => End(heap_tail) = heap_current_end
      BY <2>2 DEF EndInv, Abandoned
    <2>4. Abandoned' <=> Abandoned
      BY <2>2 DEF StartGrow, Goto, Abandoned, TypeOK
    <2>5. /\ todo'[t] = PagesNeeded(align(req[t]))
          /\ cur'[t] = heap_current_end
          /\ pc' = [pc EXCEPT ![t] = "grow"]
          /\ UNCHANGED <<list, memory, req>>
      BY DEF StartGrow, Goto, TypeOK
    <2>6. heap_current_end =
             heap_current_end
               + (PagesNeeded(align(req[t])) - PagesNeeded(align(req[t])))
                 * PAGE_SIZE
      BY <2>1, Constants DEF TypeOK
    <2>7. (End(heap_tail) = End(heap_tail)')
      BY <2>5 DEF list, End
    <2>8. \A u \in Threads : pc'[u] = "grow" => u = t
      BY <2>2, <2>5 DEF TypeOK
    <2> QED
      BY <2>1, <2>3, <2>4, <2>5, <2>6, <2>7, <2>8
      DEF EndInv, list, memory, TypeOK
  <1>5. StepInv'
    BY DEF StartGrow, At, Goto, list, memory, TypeOK, StepInv, LockInv,
           Locked, Searching, Freeing, IsFree
  <1>6. Coalesced'
    BY DEF StartGrow, At, Goto, list, memory, TypeOK, Coalesced, IsFree
  <1>7. OwnerInv'
    <2>1. \A b \in blocks' : ~is_free'[b] => b \in blocks /\ ~is_free[b]
      BY DEF StartGrow, At, Goto, list, memory, TypeOK, Append, Absorb
    <2>2. pc[t] # "mark" /\ pc'[t] # "got"
      BY DEF StartGrow, At, Goto, list, memory, TypeOK, Searching
    <2> QED BY <1>a, <1>b, <2>1, <2>2, OwnerKept
  <1>8. GrantsAreReal'
    BY <1>c
  <1>9. MoveInv'
    BY <1>c
  <1>10. CopyFits'
    BY <1>c
  <1> QED
    BY <1>1, <1>2, <1>3, <1>4, <1>5, <1>6, <1>7, <1>8, <1>9, <1>10

LEMMA MapPageInv ==
  ASSUME Inv, NEW t \in Threads, MapPage(t)
  PROVE  Inv'
  <1> USE HeapAssumption DEF NULL, Inv
  <1>a. Inside(t)
    BY DEF MapPage, At, list, memory, Inside, TypeOK, Pc, Locked, Searching,
           Freeing
  <1>b. KeepsUsed(t)
    BY DEF MapPage, At, list, memory, KeepsUsed
  <1>c. /\ LockInv' /\ GrantsAreReal' /\ MoveInv' /\ CopyFits'
        /\ \A u \in Threads \ {t} :
              /\ pc'[u] \notin Locked
              /\ pc'[u] = "free" => /\ Header(ptr'[u]) \in blocks'
                                    /\ ~is_free'[Header(ptr'[u])]
    BY <1>a, <1>b, InsideStep
  <1>1. TypeOK'
    BY DEF MapPage, At, list, memory, TypeOK, Pc, Locked, Searching, Freeing
  <1>2. ListInv'
    BY DEF MapPage, At, list, memory, ListInv, ListTypes, Linked, Disjoint,
           Ordered, End, heap_start
  <1>3. LockInv'
    BY <1>c
  <1>4. EndInv'
    <2>1. /\ pc[t] = "grow" /\ pc' = pc /\ cur' = cur /\ req' = req
          /\ todo[t] > 0 /\ todo'[t] = todo[t] - 1 /\ UNCHANGED list
          /\ heap_current_end' = heap_current_end + PAGE_SIZE
          /\ frames > 0
      BY HeapAssumption DEF MapPage, At, TypeOK
    <2>2. \A u \in Threads : pc[u] = "grow" => u = t
      BY <2>1 DEF LockInv, Locked
    <2>3. ~Abandoned /\ ~Abandoned'
      BY <2>1 DEF EndInv, Abandoned
    <2> DEFINE P == PagesNeeded(align(req[t]))
    <2>4. P \in Nat /\ todo[t] \in Nat /\ cur[t] \in Nat
          /\ heap_current_end \in Nat /\ PAGE_SIZE \in Nat
      BY AlignCovers, PagesCover, Constants DEF TypeOK
    <2>5. todo[t] <= P /\ heap_current_end = cur[t] + (P - todo[t]) * PAGE_SIZE
      BY <2>1 DEF EndInv
    <2>6. heap_current_end' = cur[t] + (P - (todo[t] - 1)) * PAGE_SIZE
      <3> HIDE DEF P
      <3>1. (P - (todo[t] - 1)) * PAGE_SIZE
              = (P - todo[t]) * PAGE_SIZE + PAGE_SIZE
        BY <2>4
      <3>2. (P - todo[t]) * PAGE_SIZE \in Int
        BY <2>4
      <3> QED BY <2>1, <2>4, <2>5, <3>1, <3>2
    <2>7. End(heap_tail)' = End(heap_tail) /\ End(heap_tail) = cur[t]
      BY <2>1, <2>3 DEF list, End, EndInv
    <2>8. End(heap_tail) <= heap_current_end'
      BY <2>1, <2>4, <2>7 DEF EndInv
    <2> QED
      BY <2>1, <2>2, <2>3, <2>4, <2>5, <2>6, <2>7, <2>8 DEF EndInv, Abandoned
  <1>5. StepInv'
    BY DEF MapPage, At, list, memory, TypeOK, StepInv, LockInv, Locked,
           Searching, Freeing, IsFree
  <1>6. Coalesced'
    BY DEF MapPage, At, list, memory, TypeOK, Coalesced, IsFree
  <1>7. OwnerInv'
    <2>1. \A b \in blocks' : ~is_free'[b] => b \in blocks /\ ~is_free[b]
      BY DEF MapPage, At, list, memory, TypeOK, Append, Absorb
    <2>2. pc[t] # "mark" /\ pc'[t] # "got"
      BY DEF MapPage, At, list, memory, TypeOK, Searching
    <2> QED BY <1>a, <1>b, <2>1, <2>2, OwnerKept
  <1>8. GrantsAreReal'
    BY <1>c
  <1>9. MoveInv'
    BY <1>c
  <1>10. CopyFits'
    BY <1>c
  <1> QED
    BY <1>1, <1>2, <1>3, <1>4, <1>5, <1>6, <1>7, <1>8, <1>9, <1>10

LEMMA OutOfMemoryInv ==
  ASSUME Inv, NEW t \in Threads, OutOfMemory(t)
  PROVE  Inv'
  <1> USE HeapAssumption DEF NULL, Inv
  <1>1. TypeOK'
    BY DEF OutOfMemory, At, Goto, list, memory, TypeOK, Pc, Locked,
           Searching, Freeing
  <1>2. ListInv'
    BY DEF OutOfMemory, At, Goto, list, memory, ListInv, ListTypes, Linked,
           Disjoint, Ordered, End, heap_start
  <1>3. LockInv'
    BY DEF OutOfMemory, At, Goto, list, memory, TypeOK, LockInv, Locked,
           Searching, Freeing
  <1>4. EndInv'
    <2>1. /\ pc[t] = "grow" /\ pc' = [pc EXCEPT ![t] = "oom"]
          /\ frames = 0 /\ UNCHANGED <<list, memory, req, cur, todo>>
      BY DEF OutOfMemory, At, Goto
    <2>2. \A u \in Threads : pc[u] = "grow" => u = t
      BY <2>1 DEF LockInv, Locked
    <2>3. pc'[t] = "oom" /\ \A u \in Threads : pc'[u] # "grow"
      BY <2>1, <2>2 DEF TypeOK
    <2>4. End(heap_tail)' = End(heap_tail)
      BY <2>1 DEF list, End
    <2> QED
      BY <2>1, <2>3, <2>4 DEF EndInv, Abandoned, memory
  <1>5. StepInv'
    BY DEF OutOfMemory, At, Goto, list, memory, TypeOK, StepInv, LockInv,
           Locked, Searching, Freeing, IsFree
  <1>6. Coalesced'
    BY DEF OutOfMemory, At, Goto, list, memory, TypeOK, Coalesced, IsFree
  <1>7. OwnerInv'
    <2>1. /\ pc[t] = "grow" /\ pc' = [pc EXCEPT ![t] = "oom"]
          /\ UNCHANGED <<list, cur, ptr, owned>>
      BY DEF OutOfMemory, At, Goto
    <2>2. \A u \in Threads : \A b \in blocks : InHand(u, b)' <=> InHand(u, b)
      BY <2>1 DEF InHand, TypeOK
    <2> QED BY <2>1, <2>2 DEF list, OwnerInv
  <1>8. GrantsAreReal'
    BY DEF OutOfMemory, At, Goto, list, memory, TypeOK, GrantsAreReal
  <1>9. MoveInv'
    BY DEF OutOfMemory, At, Goto, list, memory, TypeOK, MoveInv, Owns
  <1>10. CopyFits'
    BY DEF OutOfMemory, At, Goto, list, memory, TypeOK, CopyFits, Owns
  <1> QED
    BY <1>1, <1>2, <1>3, <1>4, <1>5, <1>6, <1>7, <1>8, <1>9, <1>10

LEMMA PanicInv ==
  ASSUME Inv, NEW t \in Threads, Panic(t)
  PROVE  Inv'
  <1> USE HeapAssumption DEF NULL, Inv
  <1>1. TypeOK'
    BY DEF Panic, At, list, memory, TypeOK, Pc, Locked, Searching, Freeing
  <1>2. ListInv'
    BY DEF Panic, At, list, memory, ListInv, ListTypes, Linked, Disjoint,
           Ordered, End, heap_start
  <1>3. LockInv'
    BY DEF Panic, At, list, memory, TypeOK, LockInv, Locked, Searching,
           Freeing
  <1>4. EndInv'
    BY DEF Panic, At, list, memory, TypeOK, EndInv, Abandoned, End
  <1>5. StepInv'
    BY DEF Panic, At, list, memory, TypeOK, StepInv, LockInv, Locked,
           Searching, Freeing, IsFree
  <1>6. Coalesced'
    BY DEF Panic, At, list, memory, TypeOK, Coalesced, IsFree
  <1>7. OwnerInv'
    BY DEF Panic, At, list, memory, TypeOK, OwnerInv, InHand
  <1>8. GrantsAreReal'
    BY DEF Panic, At, list, memory, TypeOK, GrantsAreReal
  <1>9. MoveInv'
    BY DEF Panic, At, list, memory, TypeOK, MoveInv, Owns
  <1>10. CopyFits'
    BY DEF Panic, At, list, memory, TypeOK, CopyFits, Owns
  <1> QED
    BY <1>1, <1>2, <1>3, <1>4, <1>5, <1>6, <1>7, <1>8, <1>9, <1>10

LEMMA OutOfTablesInv ==
  ASSUME Inv, NEW t \in Threads, OutOfTables(t)
  PROVE  Inv'
  <1> USE HeapAssumption DEF NULL, Inv
  <1>1. TypeOK'
    BY DEF OutOfTables, At, list, memory, TypeOK, Pc, Locked, Searching,
           Freeing
  <1>2. ListInv'
    BY DEF OutOfTables, At, list, memory, ListInv, ListTypes, Linked,
           Disjoint, Ordered, End, heap_start
  <1>3. LockInv'
    BY DEF OutOfTables, At, list, memory, TypeOK, LockInv, Locked, Searching,
           Freeing
  <1>4. EndInv'
    BY DEF OutOfTables, At, list, memory, TypeOK, EndInv, Abandoned, End
  <1>5. StepInv'
    BY DEF OutOfTables, At, list, memory, TypeOK, StepInv, LockInv, Locked,
           Searching, Freeing, IsFree
  <1>6. Coalesced'
    BY DEF OutOfTables, At, list, memory, TypeOK, Coalesced, IsFree
  <1>7. OwnerInv'
    BY DEF OutOfTables, At, list, memory, TypeOK, OwnerInv, InHand
  <1>8. GrantsAreReal'
    BY DEF OutOfTables, At, list, memory, TypeOK, GrantsAreReal
  <1>9. MoveInv'
    BY DEF OutOfTables, At, list, memory, TypeOK, MoveInv, Owns
  <1>10. CopyFits'
    BY DEF OutOfTables, At, list, memory, TypeOK, CopyFits, Owns
  <1> QED
    BY <1>1, <1>2, <1>3, <1>4, <1>5, <1>6, <1>7, <1>8, <1>9, <1>10

LEMMA JoinTailInv ==
  ASSUME Inv, NEW t \in Threads, JoinTail(t)
  PROVE  Inv' /\ SameUsed
  <1> USE HeapAssumption DEF NULL, Inv
  <1>x. /\ pc[t] = "grow" /\ lock = t /\ ~Abandoned
        /\ cur[t] = End(heap_tail)
        /\ heap_current_end = cur[t] + PagesNeeded(align(req[t])) * PAGE_SIZE
    <2>1. pc[t] = "grow" /\ todo[t] = 0
      BY DEF JoinTail, Grown, At
    <2>2. req[t] \in Nat
      BY DEF TypeOK
    <2>3. PagesNeeded(align(req[t])) \in Nat
      BY <2>2, AlignCovers, PagesCover
    <2> QED BY <2>1, <2>3 DEF EndInv, LockInv, Locked
  <1>y. /\ req[t] \in Nat /\ align(req[t]) \in Nat
        /\ align(req[t]) + HEADER_SIZE <= heap_current_end - cur[t]
        /\ heap_current_end - cur[t] \in Nat
    <2>1. req[t] \in Nat /\ align(req[t]) \in Nat
      BY AlignCovers DEF TypeOK
    <2>2. /\ PagesNeeded(align(req[t])) * PAGE_SIZE \in Nat
          /\ align(req[t]) + HEADER_SIZE
               <= PagesNeeded(align(req[t])) * PAGE_SIZE
      BY <2>1, PagesCover
    <2>3. cur[t] \in Nat
      BY DEF TypeOK
    <2> QED BY <1>x, <2>1, <2>2, <2>3
  <1>s. /\ size' = [size EXCEPT ![heap_tail] =
                               @ + (heap_current_end - cur[t])]
        /\ is_free[heap_tail]
        /\ UNCHANGED <<blocks, is_free, next, prev, heap_tail>>
    BY DEF JoinTail
  <1>l. ListInv' /\ End(heap_tail)' = heap_current_end
    <2>1. ListTypes'
      BY <1>s, <1>y DEF ListInv, ListTypes
    <2>2. /\ End(heap_tail)' = heap_current_end
          /\ \A b \in blocks : b # heap_tail => End(b)' = End(b)
      BY <1>s, <1>x, <1>y DEF ListInv, ListTypes, End, TypeOK
    <2>3. Linked'
      BY <1>s, <2>2 DEF ListInv, ListTypes, Linked, heap_start
    <2>4. Disjoint' /\ Ordered'
      BY <1>s, <2>2 DEF ListInv, ListTypes, Disjoint, Ordered, heap_start
    <2> QED BY <2>1, <2>2, <2>3, <2>4 DEF ListInv
  <1>a. Inside(t)
    BY DEF JoinTail, Grown, Retry, At, Goto, list, memory, Inside, TypeOK,
           Pc, Locked, Searching, Freeing
  <1>b. KeepsUsed(t)
    BY DEF JoinTail, Grown, Retry, At, Goto, list, memory, KeepsUsed, TypeOK
  <1>c. /\ LockInv' /\ GrantsAreReal' /\ MoveInv' /\ CopyFits'
        /\ \A u \in Threads \ {t} :
              /\ pc'[u] \notin Locked
              /\ pc'[u] = "free" => /\ Header(ptr'[u]) \in blocks'
                                    /\ ~is_free'[Header(ptr'[u])]
    BY <1>a, <1>b, InsideStep
  <1>1. TypeOK'
    BY <1>l, <1>a, Constants DEF JoinTail, Grown, Retry, At, Goto, list,
           memory, ListInv, ListTypes, TypeOK, Inside
  <1>2. ListInv'
    BY <1>l
  <1>3. LockInv'
    BY <1>c
  <1>4. EndInv'
    <2>1. /\ \A u \in Threads : pc'[u] # "grow"
          /\ ~Abandoned' /\ UNCHANGED memory
      BY <1>x DEF JoinTail, Grown, Retry, At, Goto, list, memory, TypeOK, LockInv, Locked, Abandoned
    <2>2. heap_current_end \in Nat
      BY DEF TypeOK
    <2> QED
      BY <1>l, <2>1, <2>2 DEF EndInv, Abandoned, memory
  <1>5. StepInv'
    <2>1. /\ cur'[t] = heap_start /\ heap_start \in blocks'
          /\ is_free'[heap_tail'] /\ align(req[t]) <= size'[heap_tail']
      BY <1>s, <1>l, <1>y DEF JoinTail, Grown, Retry, At, Goto, list, memory, ListInv, ListTypes, Linked, TypeOK, heap_start, Append
    <2> QED
      BY <1>c, <2>1
      DEF JoinTail, Grown, Retry, At, Goto, list, memory, StepInv, TypeOK, Locked, Searching, Freeing
  <1>6. Coalesced'
    BY DEF JoinTail, Grown, Retry, At, Goto, list, memory, TypeOK, Coalesced,
           IsFree
  <1>7. OwnerInv'
    <2>1. \A b \in blocks' : ~is_free'[b] => b \in blocks /\ ~is_free[b]
      BY DEF JoinTail, Grown, Retry, At, Goto, list, memory, TypeOK, Append,
             Absorb
    <2>2. pc[t] # "mark" /\ pc'[t] # "got"
      BY DEF JoinTail, Grown, Retry, At, Goto, list, memory, TypeOK,
             Searching
    <2> QED BY <1>a, <1>b, <2>1, <2>2, OwnerKept
  <1>8. GrantsAreReal'
    BY <1>c
  <1>9. MoveInv'
    BY <1>c
  <1>10. CopyFits'
    BY <1>c
  <1>u. SameUsed
    <2>1. \A b \in blocks' : ~is_free'[b] => b \in blocks /\ ~is_free[b]
      BY DEF JoinTail, Grown, Retry, At, Goto, list, memory, TypeOK, Append,
             Absorb
    <2>2. pc[t] # "mark"
      BY <1>x
    <2> QED BY <1>b, <2>1, <2>2 DEF SameUsed, KeepsUsed
  <1> QED
    BY <1>1, <1>2, <1>3, <1>4, <1>5, <1>6, <1>7, <1>8, <1>9, <1>10, <1>u

LEMMA AppendTailInv ==
  ASSUME Inv, NEW t \in Threads, AppendTail(t)
  PROVE  Inv' /\ SameUsed
  <1> USE HeapAssumption DEF NULL, Inv
  <1>x. /\ pc[t] = "grow" /\ lock = t /\ ~Abandoned
        /\ cur[t] = End(heap_tail)
        /\ heap_current_end = cur[t] + PagesNeeded(align(req[t])) * PAGE_SIZE
    <2>1. pc[t] = "grow" /\ todo[t] = 0
      BY DEF AppendTail, Grown, At
    <2>2. req[t] \in Nat
      BY DEF TypeOK
    <2>3. PagesNeeded(align(req[t])) \in Nat
      BY <2>2, AlignCovers, PagesCover
    <2> QED BY <2>1, <2>3 DEF EndInv, LockInv, Locked
  <1>y. /\ req[t] \in Nat /\ align(req[t]) \in Nat
        /\ align(req[t]) + HEADER_SIZE <= heap_current_end - cur[t]
        /\ heap_current_end - cur[t] \in Nat
    <2>1. req[t] \in Nat /\ align(req[t]) \in Nat
      BY AlignCovers DEF TypeOK
    <2>2. /\ PagesNeeded(align(req[t])) * PAGE_SIZE \in Nat
          /\ align(req[t]) + HEADER_SIZE
               <= PagesNeeded(align(req[t])) * PAGE_SIZE
      BY <2>1, PagesCover
    <2>3. cur[t] \in Nat
      BY DEF TypeOK
    <2> QED BY <1>x, <2>1, <2>2, <2>3
  <1> DEFINE bytes == heap_current_end - cur[t] - HEADER_SIZE
  <1>s. Append(cur[t], bytes) /\ ~is_free[heap_tail]
        /\ bytes \in Nat /\ align(req[t]) <= bytes
    BY <1>y DEF AppendTail
  <1>l. /\ ListInv' /\ End(heap_tail)' = heap_current_end
        /\ cur[t] \notin blocks
    <2>1. /\ ListInv' /\ cur[t] \notin blocks
          /\ End(heap_tail)' = cur[t] + HEADER_SIZE + bytes
      BY <1>x, <1>s, AppendList
    <2>2. cur[t] + HEADER_SIZE + bytes = heap_current_end
      BY <1>y DEF TypeOK
    <2> QED BY <2>1, <2>2
  <1> HIDE DEF bytes
  <1>a. Inside(t)
    BY DEF AppendTail, Grown, Retry, At, Goto, list, memory, Inside, TypeOK,
           Pc, Locked, Searching, Freeing
  <1>b. KeepsUsed(t)
    BY <1>l DEF AppendTail, Grown, Retry, At, Goto, list, memory, KeepsUsed,
           TypeOK, Append
  <1>c. /\ LockInv' /\ GrantsAreReal' /\ MoveInv' /\ CopyFits'
        /\ \A u \in Threads \ {t} :
              /\ pc'[u] \notin Locked
              /\ pc'[u] = "free" => /\ Header(ptr'[u]) \in blocks'
                                    /\ ~is_free'[Header(ptr'[u])]
    BY <1>a, <1>b, InsideStep
  <1>1. TypeOK'
    BY <1>l, <1>a, Constants DEF AppendTail, Grown, Retry, At, Goto, list,
           memory, ListInv, ListTypes, TypeOK, Inside
  <1>2. ListInv'
    BY <1>l
  <1>3. LockInv'
    BY <1>c
  <1>4. EndInv'
    <2>1. /\ \A u \in Threads : pc'[u] # "grow"
          /\ ~Abandoned' /\ UNCHANGED memory
      BY <1>x DEF AppendTail, Grown, Retry, At, Goto, list, memory, TypeOK, LockInv, Locked, Abandoned
    <2>2. heap_current_end \in Nat
      BY DEF TypeOK
    <2> QED
      BY <1>l, <2>1, <2>2 DEF EndInv, Abandoned, memory
  <1>5. StepInv'
    <2>1. /\ cur'[t] = heap_start /\ pc'[t] = "refind"
          /\ req' = req
      BY DEF AppendTail, Retry, Goto, TypeOK
    <2>2. heap_start \in blocks'
      BY <1>l DEF ListInv, Linked, heap_start
    <2>3. is_free'[heap_tail'] /\ align(req[t]) <= size'[heap_tail']
      BY <1>s DEF Append
    <2> QED
      BY <1>c, <2>1, <2>2, <2>3
      DEF StepInv, Locked, Searching, Freeing
  <1>6. Coalesced'
    <2>1. \A u \in Threads : pc[u] \notin {"right", "left"}
      BY <1>x DEF LockInv, Locked, Searching, Freeing
    <2>2. \A b \in blocks : is_free[b] => ~IsFree(next[b])
      BY <2>1 DEF Coalesced
    <2>3. \A b \in blocks' : is_free'[b] /\ next'[b] # NULL =>
             next'[b] \in blocks' /\ ~is_free'[next'[b]]
      <3> SUFFICES ASSUME NEW b \in blocks', is_free'[b], next'[b] # NULL
                   PROVE  next'[b] \in blocks' /\ ~is_free'[next'[b]]
        OBVIOUS
      <3>1. b # cur[t] /\ b \in blocks
        BY <1>s, <1>l DEF Append, TypeOK
      <3>2. is_free[b] /\ b # heap_tail /\ next'[b] = next[b]
        BY <1>s, <1>l, <3>1 DEF Append
      <3>3. next[b] \in blocks /\ ~is_free[next[b]]
        BY <2>2, <3>1, <3>2 DEF IsFree, TypeOK
      <3> QED BY <1>s, <1>l, <3>2, <3>3 DEF Append
    <2> QED BY <2>3 DEF Coalesced, IsFree
  <1>7. OwnerInv'
    <2>1. \A b \in blocks' : ~is_free'[b] => b \in blocks /\ ~is_free[b]
      BY <1>s, <1>l DEF AppendTail, Grown, Retry, At, Goto, list, memory,
             TypeOK, Append, Absorb
    <2>2. pc[t] # "mark" /\ pc'[t] # "got"
      BY DEF AppendTail, Grown, Retry, At, Goto, list, memory, TypeOK,
             Searching
    <2> QED BY <1>a, <1>b, <2>1, <2>2, OwnerKept
  <1>8. GrantsAreReal'
    BY <1>c
  <1>9. MoveInv'
    BY <1>c
  <1>10. CopyFits'
    BY <1>c
  <1>u. SameUsed
    <2>1. \A b \in blocks' : ~is_free'[b] => b \in blocks /\ ~is_free[b]
      BY <1>s, <1>l DEF AppendTail, Grown, Retry, At, Goto, list, memory,
             TypeOK, Append, Absorb
    <2>2. pc[t] # "mark"
      BY <1>x
    <2> QED BY <1>b, <2>1, <2>2 DEF SameUsed, KeepsUsed
  <1> QED
    BY <1>1, <1>2, <1>3, <1>4, <1>5, <1>6, <1>7, <1>8, <1>9, <1>10, <1>u

LEMMA KmallocReturnInv ==
  ASSUME Inv, NEW t \in Threads, KmallocReturn(t)
  PROVE  Inv'
  <1> USE HeapAssumption DEF NULL, Inv
  <1>x. /\ pc[t] = "got" /\ cur[t] \in blocks /\ ~is_free[cur[t]]
        /\ req[t] <= size[cur[t]] /\ req[t] \in Nat
        /\ Data(cur[t]) \notin DOMAIN owned
        /\ Data(cur[t]) \in Nat /\ Header(Data(cur[t])) = cur[t]
    BY Constants
    DEF KmallocReturn, At, StepInv, OwnerInv, InHand, TypeOK, Data, Header
  <1>g. /\ DOMAIN owned' = DOMAIN owned \cup {Data(cur[t])}
        /\ \A q \in DOMAIN owned : owned'[q] = owned[q]
        /\ owned'[Data(cur[t])].by = t
        /\ owned'[Data(cur[t])].bytes = req[t]
        /\ owned'[Data(cur[t])] \in [by : Threads, bytes : Nat]
    BY <1>x DEF KmallocReturn, Grant
  <1>p. /\ pc' = [pc EXCEPT ![t] = IF ptr[t] = NULL THEN "idle" ELSE "copy"]
        /\ \A u \in Threads \ {t} :
              pc'[u] = pc[u] /\ cur'[u] = cur[u] /\ ptr'[u] = ptr[u]
              /\ req'[u] = req[u]
        /\ ptr[t] # NULL => cur' = cur /\ ptr' = ptr /\ req' = req
        /\ ptr[t] = NULL => ptr'[t] = NULL
        /\ UNCHANGED list
        /\ cur' \in [Threads -> Nat] /\ ptr' \in [Threads -> Nat]
        /\ req' \in [Threads -> Nat]
    BY DEF KmallocReturn, EndCall, Goto, TypeOK
  <1>1. TypeOK'
    <2>1. \A q \in DOMAIN owned' : owned'[q] \in [by : Threads, bytes : Nat]
      BY <1>g DEF TypeOK
    <2>2. DOMAIN owned' \subseteq Nat
      BY <1>x, <1>g DEF TypeOK
    <2>3. pc' \in [Threads -> Pc]
      BY <1>p DEF TypeOK, Pc
    <2> QED
      BY <1>p, <2>1, <2>2, <2>3
      DEF KmallocReturn, list, memory, TypeOK
  <1>2. ListInv'
    BY DEF KmallocReturn, At, Goto, EndCall, Grant, list, memory, ListInv,
           ListTypes, Linked, Disjoint, Ordered, End, heap_start
  <1>3. LockInv'
    BY DEF KmallocReturn, At, Goto, EndCall, Grant, list, memory, TypeOK,
           LockInv, Locked, Searching, Freeing
  <1>4. EndInv'
    BY DEF KmallocReturn, At, Goto, EndCall, Grant, list, memory, TypeOK,
           EndInv, Abandoned, End
  <1>5. StepInv'
    BY DEF KmallocReturn, At, Goto, EndCall, Grant, list, memory, TypeOK,
           StepInv, LockInv, Locked, Searching, Freeing, IsFree
  <1>6. Coalesced'
    BY DEF KmallocReturn, At, Goto, EndCall, Grant, list, memory, TypeOK,
           Coalesced, IsFree
  <1>7. OwnerInv'
    <2>1. \A u \in Threads \ {t} : \A b \in blocks :
             InHand(u, b)' <=> InHand(u, b)
      BY <1>p DEF InHand
    <2>2. \A b \in blocks : ~InHand(t, b)' /\ (InHand(t, b) <=> b = cur[t])
      BY <1>x, <1>p DEF InHand, TypeOK
    <2>3. \A b \in blocks : Data(b) = Data(cur[t]) => b = cur[t]
      BY <1>x, Constants DEF Data, TypeOK
    <2> QED
      BY <1>x, <1>g, <1>p, <2>1, <2>2, <2>3 DEF OwnerInv, list
  <1>8. GrantsAreReal'
    BY <1>x, <1>g, <1>p DEF GrantsAreReal, list
  <1>9. MoveInv'
    BY <1>g, <1>p DEF MoveInv, Owns, list, TypeOK
  <1>10. CopyFits'
    <2> SUFFICES ASSUME NEW u \in Threads, pc'[u] = "copy"
                 PROVE  /\ Owns(u, ptr[u])' /\ Owns(u, Data(cur[u]))'
                        /\ ptr'[u] # Data(cur[u])'
                        /\ size'[Header(ptr[u])'] < req'[u]
                        /\ req'[u] <= size'[cur'[u]]
      BY DEF CopyFits
    <2>1. CASE u = t
      <3>1. ptr[t] # NULL /\ cur' = cur /\ ptr' = ptr /\ req' = req
        BY <1>p, <2>1 DEF TypeOK
      <3>2. Owns(t, ptr[t]) /\ size[Header(ptr[t])] < req[t]
        BY <1>x, <3>1 DEF MoveInv
      <3> QED
        BY <1>x, <1>g, <1>p, <2>1, <3>1, <3>2 DEF Owns, list, Header, Data
    <2>2. CASE u # t
      <3>1. pc[u] = "copy"
        BY <1>p, <2>2 DEF TypeOK
      <3> QED
        BY <1>g, <1>p, <2>2, <3>1 DEF CopyFits, Owns, list, Header, Data
    <2> QED BY <2>1, <2>2
  <1> QED
    BY <1>1, <1>2, <1>3, <1>4, <1>5, <1>6, <1>7, <1>8, <1>9, <1>10

LEMMA CopyOldInv ==
  ASSUME Inv, NEW t \in Threads, CopyOld(t)
  PROVE  Inv'
  <1> USE HeapAssumption DEF NULL, Inv
  <1>x. /\ pc[t] = "copy" /\ Owns(t, ptr[t])
        /\ Header(ptr[t]) \in blocks /\ ~is_free[Header(ptr[t])]
    BY DEF CopyOld, At, CopyFits, GrantsAreReal, Owns
  <1>p. /\ pc' = [pc EXCEPT ![t] = "free"] /\ ptr' = ptr
        /\ req' = [req EXCEPT ![t] = 0] /\ cur' = [cur EXCEPT ![t] = NULL]
        /\ DOMAIN owned' = DOMAIN owned \ {ptr[t]}
        /\ \A q \in DOMAIN owned' : owned'[q] = owned[q]
        /\ UNCHANGED <<list, memory, lock>>
    BY DEF CopyOld, Goto, GiveBack
  <1>1. TypeOK'
    BY DEF CopyOld, At, Goto, GiveBack, list, memory, TypeOK, Pc, Locked,
           Searching, Freeing
  <1>2. ListInv'
    BY DEF CopyOld, At, Goto, GiveBack, list, memory, ListInv, ListTypes,
           Linked, Disjoint, Ordered, End, heap_start
  <1>3. LockInv'
    BY DEF CopyOld, At, Goto, GiveBack, list, memory, TypeOK, LockInv,
           Locked, Searching, Freeing
  <1>4. EndInv'
    BY DEF CopyOld, At, Goto, GiveBack, list, memory, TypeOK, EndInv,
           Abandoned, End
  <1>5. StepInv'
    BY <1>x, <1>p DEF StepInv, TypeOK, list, IsFree
  <1>6. Coalesced'
    BY DEF CopyOld, At, Goto, GiveBack, list, memory, TypeOK, Coalesced,
           IsFree
  <1>7. OwnerInv'
    <2>1. \A b \in blocks : Data(b) = ptr[t] <=> b = Header(ptr[t])
      BY Constants DEF Data, Header, TypeOK
    <2>2. \A u \in Threads \ {t} : \A b \in blocks :
             InHand(u, b)' <=> InHand(u, b)
      BY <1>p DEF InHand, TypeOK
    <2>3. \A b \in blocks : InHand(t, b)' <=> b = Header(ptr[t])
      BY <1>p DEF InHand, TypeOK
    <2>4. \A u \in Threads : ~InHand(u, Header(ptr[t]))
      BY <1>x, <2>1 DEF OwnerInv, Owns
    <2>5. \A b \in blocks : ~InHand(t, b)
      BY <1>x DEF InHand
    <2> QED
      BY <1>x, <1>p, <2>1, <2>2, <2>3, <2>4, <2>5 DEF OwnerInv, list
  <1>8. GrantsAreReal'
    BY DEF CopyOld, At, Goto, GiveBack, list, memory, TypeOK, GrantsAreReal
  <1>9. MoveInv'
    BY <1>x, <1>p DEF MoveInv, Owns, TypeOK, list
  <1>10. CopyFits'
    BY DEF CopyOld, At, Goto, GiveBack, list, memory, TypeOK, CopyFits, Owns
  <1> QED
    BY <1>1, <1>2, <1>3, <1>4, <1>5, <1>6, <1>7, <1>8, <1>9, <1>10

LEMMA LockToFreeInv ==
  ASSUME Inv, NEW t \in Threads, LockToFree(t)
  PROVE  Inv'
  <1> USE HeapAssumption DEF NULL, Inv
  <1>1. TypeOK'
    <2>1. Header(ptr[t]) \in Nat
      BY DEF LockToFree, At, StepInv, TypeOK
    <2> QED
      BY <2>1 DEF LockToFree, At, Goto, list, memory, TypeOK, Pc, Locked,
                  Freeing
  <1>2. ListInv'
    BY DEF LockToFree, At, Goto, list, memory, ListInv, ListTypes, Linked,
           Disjoint, Ordered, End, heap_start
  <1>3. LockInv'
    BY DEF LockToFree, At, Goto, list, memory, TypeOK, LockInv, Locked,
           Searching, Freeing
  <1>4. EndInv'
    BY DEF LockToFree, At, Goto, list, memory, TypeOK, EndInv, Abandoned, End
  <1>5. StepInv'
    BY DEF LockToFree, At, Goto, list, memory, TypeOK, StepInv, LockInv,
           Locked, Searching, Freeing, IsFree
  <1>6. Coalesced'
    BY DEF LockToFree, At, Goto, list, memory, TypeOK, Coalesced, IsFree
  <1>7. OwnerInv'
    <2>1. /\ pc[t] = "free" /\ pc' = [pc EXCEPT ![t] = "mark"]
          /\ cur' = [cur EXCEPT ![t] = Header(ptr[t])]
          /\ UNCHANGED <<list, ptr, owned>>
      BY DEF LockToFree, At, Goto
    <2>2. \A u \in Threads : \A b \in blocks : InHand(u, b)' <=> InHand(u, b)
      BY <2>1 DEF InHand, TypeOK
    <2> QED BY <2>1, <2>2 DEF list, OwnerInv
  <1>8. GrantsAreReal'
    BY DEF LockToFree, At, Goto, list, memory, TypeOK, GrantsAreReal
  <1>9. MoveInv'
    BY DEF LockToFree, At, Goto, list, memory, TypeOK, MoveInv, Owns
  <1>10. CopyFits'
    BY DEF LockToFree, At, Goto, list, memory, TypeOK, CopyFits, Owns
  <1> QED
    BY <1>1, <1>2, <1>3, <1>4, <1>5, <1>6, <1>7, <1>8, <1>9, <1>10

LEMMA MarkFreeInv ==
  ASSUME Inv, NEW t \in Threads, MarkFree(t)
  PROVE  Inv' /\ Marks(t)
  <1> USE HeapAssumption DEF NULL, Inv
  <1>x. cur[t] \in blocks /\ cur[t] = Header(ptr[t]) /\ pc[t] = "mark"
    BY DEF MarkFree, At, StepInv
  <1>a. Inside(t)
    BY <1>x DEF MarkFree, At, Goto, list, memory, Inside, TypeOK, Pc, Locked,
           Searching, Freeing
  <1>b. KeepsUsed(t)
    BY <1>x DEF MarkFree, At, Goto, list, memory, KeepsUsed, TypeOK
  <1>c. /\ LockInv' /\ GrantsAreReal' /\ MoveInv' /\ CopyFits'
        /\ \A u \in Threads \ {t} :
              /\ pc'[u] \notin Locked
              /\ pc'[u] = "free" => /\ Header(ptr'[u]) \in blocks'
                                    /\ ~is_free'[Header(ptr'[u])]
    BY <1>a, <1>b, InsideStep
  <1>1. TypeOK'
    BY DEF MarkFree, At, Goto, list, memory, TypeOK, Pc, Locked, Searching,
           Freeing
  <1>2. ListInv'
    BY DEF MarkFree, At, Goto, list, memory, ListInv, ListTypes, Linked,
           Disjoint, Ordered, End, heap_start
  <1>3. LockInv'
    BY <1>c
  <1>4. EndInv'
    BY <1>a, <1>x, EndKept DEF MarkFree, At, Goto, list, memory, Searching,
           End, TypeOK
  <1>5. StepInv'
    BY <1>x, <1>c DEF MarkFree, At, Goto, list, memory, StepInv, TypeOK,
           Locked, Searching, Freeing
  <1>6. Coalesced'
    BY DEF MarkFree, At, Goto, list, memory, TypeOK, Coalesced, IsFree
  <1>7. OwnerInv'
    <2>1. \A u \in Threads \ {t} : \A b \in blocks' :
             InHand(u, b)' <=> InHand(u, b)
      BY <1>a DEF InHand, Inside
    <2>2. \A b \in blocks : /\ InHand(t, b) <=> b = cur[t]
                            /\ ~InHand(t, b)'
      BY <1>x DEF MarkFree, Goto, InHand, TypeOK
    <2>3. /\ blocks' = blocks /\ owned' = owned
          /\ \A b \in blocks' : ~is_free'[b] => b # cur[t] /\ ~is_free[b]
      BY <1>x DEF MarkFree, TypeOK
    <2> QED BY <2>1, <2>2, <2>3 DEF OwnerInv
  <1>8. GrantsAreReal'
    BY <1>c
  <1>9. MoveInv'
    BY <1>c
  <1>10. CopyFits'
    BY <1>c
  <1>u. Marks(t)
    BY <1>x DEF MarkFree, At, Marks, StepInv, TypeOK
  <1> QED
    BY <1>1, <1>2, <1>3, <1>4, <1>5, <1>6, <1>7, <1>8, <1>9, <1>10, <1>u

LEMMA CoalesceRightInv ==
  ASSUME Inv, NEW t \in Threads, CoalesceRight(t)
  PROVE  Inv' /\ SameUsed
  <1> USE HeapAssumption DEF NULL, Inv
  <1>x. cur[t] \in blocks /\ is_free[cur[t]] /\ pc[t] = "right"
    BY DEF CoalesceRight, At, StepInv
  <1>m. \/ /\ IsFree(next[cur[t]]) /\ Absorb(cur[t], next[cur[t]])
           /\ cur[t] \in blocks /\ next[cur[t]] \in blocks /\ next[cur[t]] = next[cur[t]]
           /\ is_free[cur[t]] /\ is_free[next[cur[t]]] /\ cur[t] # next[cur[t]]
        \/ ~IsFree(next[cur[t]]) /\ UNCHANGED list
    <2>1. CASE IsFree(next[cur[t]])
      <3>1. next[cur[t]] \in blocks /\ is_free[next[cur[t]]] /\ next[cur[t]] # NULL
        BY <1>x, <2>1 DEF IsFree, ListInv, ListTypes
      <3>2. next[cur[t]] = next[cur[t]] /\ next[cur[t]] # NULL
        BY <1>x, <3>1, Constants DEF ListInv, ListTypes, Linked, NULL
      <3>3. Absorb(cur[t], next[cur[t]])
        BY <2>1 DEF CoalesceRight
      <3>4. cur[t] # next[cur[t]]
        BY <1>x, <3>1, <3>2, <3>3, AbsorbList
      <3> QED BY <1>x, <2>1, <3>1, <3>2, <3>3, <3>4
    <2>2. CASE ~IsFree(next[cur[t]])
      BY <2>2 DEF CoalesceRight
    <2> QED BY <2>1, <2>2
  <1>l. ListInv' /\ End(heap_tail)' = End(heap_tail)
    <2>1. CASE Absorb(cur[t], next[cur[t]]) /\ IsFree(next[cur[t]])
      BY <1>m, <2>1, AbsorbList
    <2>2. CASE UNCHANGED list
      BY <2>2 DEF list, ListInv, ListTypes, Linked, Disjoint, Ordered, End,
                  heap_start
    <2> QED BY <1>m, <2>1, <2>2
  <1>a. Inside(t)
    BY <1>x DEF CoalesceRight, At, Goto, list, memory, Inside, TypeOK, Pc,
           Locked, Searching, Freeing
  <1>b. KeepsUsed(t)
    BY <1>x, <1>m DEF CoalesceRight, At, Goto, list, memory, KeepsUsed,
           TypeOK, Absorb
  <1>c. /\ LockInv' /\ GrantsAreReal' /\ MoveInv' /\ CopyFits'
        /\ \A u \in Threads \ {t} :
              /\ pc'[u] \notin Locked
              /\ pc'[u] = "free" => /\ Header(ptr'[u]) \in blocks'
                                    /\ ~is_free'[Header(ptr'[u])]
    BY <1>a, <1>b, InsideStep
  <1>1. TypeOK'
    BY <1>l, <1>a DEF CoalesceRight, At, Goto, list, memory, ListInv,
           ListTypes, TypeOK, Inside
  <1>2. ListInv'
    BY <1>l
  <1>3. LockInv'
    BY <1>c
  <1>4. EndInv'
    BY <1>a, <1>l, <1>x, EndKept DEF CoalesceRight, At, Goto, list, memory,
           Searching
  <1>5. StepInv'
    <2>1. cur[t] \in blocks' /\ is_free'[cur[t]]
      BY <1>x, <1>m DEF list, Absorb
    <2>2. ~IsFree(next[cur[t]])'
      <3>1. CASE UNCHANGED list
        <4>1. ~IsFree(next[cur[t]])
          BY <1>m, <1>x, <3>1 DEF list, Absorb
        <4> QED BY <3>1, <4>1 DEF CoalesceRight, list, IsFree
      <3>2. CASE Absorb(cur[t], next[cur[t]]) /\ IsFree(next[cur[t]])
        <4> DEFINE n == next[cur[t]]
        <4>1. n \in blocks /\ n # cur[t] /\ is_free[n]
              /\ next[n] \in blocks \cup {NULL}
          BY <1>m, <3>2 DEF TypeOK
        <4>2. next[n] # cur[t] /\ next[n] # n
          <5>1. n = End(cur[t]) /\ (next[n] # NULL => next[n] = End(n))
            BY <4>1, <1>x, Constants DEF ListInv, ListTypes, Linked
          <5>2. cur[t] < End(cur[t]) /\ n < End(n) /\ cur[t] \in Nat \ {0}
                /\ n \in Nat /\ End(n) \in Nat
            <6>1. \A b \in blocks : /\ b \in Nat \ {0} /\ b < End(b)
                                    /\ End(b) \in Nat
              BY Constants DEF ListInv, ListTypes, End
            <6> QED BY <4>1, <1>x, <6>1
          <5> HIDE DEF n
          <5> QED BY <5>1, <5>2
        <4>3. ~IsFree(next[n])
          <5>1. \A u \in Threads : pc[u] \in {"right", "left"} => u = t
            BY <1>x DEF LockInv, Locked, Freeing
          <5> QED BY <4>1, <4>2, <5>1, <1>x DEF Coalesced
        <4>4. next'[cur[t]] = next[n]
          BY <3>2, <1>x, <4>1 DEF Absorb
        <4>5. next[n] # NULL => ~is_free'[next[n]]
          BY <3>2, <4>1, <4>2, <4>3 DEF Absorb, IsFree
        <4>6. cur'[t] = cur[t]
          BY DEF CoalesceRight
        <4> QED BY <4>4, <4>5, <4>6 DEF IsFree
      <3> QED BY <1>m, <3>1, <3>2
    <2> QED
      BY <1>c, <1>x, <2>1, <2>2
      DEF CoalesceRight, Goto, StepInv, TypeOK, Locked, Searching, Freeing
  <1>6. Coalesced'
    <2>1. \A u \in Threads : pc[u] \in {"right", "left"} => u = t
      BY <1>x DEF LockInv, Locked, Freeing
    <2>2. \A b \in blocks : is_free[b] /\ IsFree(next[b]) =>
             cur[t] \in {b, next[b]}
      BY <2>1 DEF Coalesced
    <2>3. pc'[t] = "left" /\ cur' = cur
      BY DEF CoalesceRight, Goto, TypeOK
    <2>4. ~IsFree(next[cur[t]])'
      BY <1>5, <2>3 DEF StepInv
    <2>5. \A b \in blocks' : is_free'[b] /\ IsFree(next[b])' => cur[t] = next'[b]
      <3> SUFFICES ASSUME NEW b \in blocks', is_free'[b],
                          next'[b] # NULL, is_free'[next'[b]]
                   PROVE  cur[t] = next'[b]
        BY DEF IsFree
      <3>1. b # cur[t]
        BY <2>3, <2>4 DEF IsFree
      <3>2. next'[b] \in blocks'
        BY <1>l DEF ListInv, ListTypes
      <3>3. b \in blocks /\ is_free[b] /\ next'[b] = next[b] /\ IsFree(next[b])
        BY <1>m, <3>1, <3>2 DEF list, Absorb, IsFree
      <3> QED BY <2>2, <3>1, <3>3
    <2> QED BY <2>3, <2>5 DEF Coalesced
  <1>7. OwnerInv'
    <2>1. \A b \in blocks' : ~is_free'[b] => b \in blocks /\ ~is_free[b]
      BY <1>m DEF CoalesceRight, At, Goto, list, memory, TypeOK, Append,
             Absorb
    <2>2. pc[t] # "mark" /\ pc'[t] # "got"
      BY DEF CoalesceRight, At, Goto, list, memory, TypeOK, Searching
    <2> QED BY <1>a, <1>b, <2>1, <2>2, OwnerKept
  <1>8. GrantsAreReal'
    BY <1>c
  <1>9. MoveInv'
    BY <1>c
  <1>10. CopyFits'
    BY <1>c
  <1>u. SameUsed
    <2>1. \A b \in blocks' : ~is_free'[b] => b \in blocks /\ ~is_free[b]
      BY <1>m DEF CoalesceRight, At, Goto, list, memory, TypeOK, Append,
             Absorb
    <2>2. pc[t] # "mark"
      BY <1>x
    <2> QED BY <1>b, <2>1, <2>2 DEF SameUsed, KeepsUsed
  <1> QED
    BY <1>1, <1>2, <1>3, <1>4, <1>5, <1>6, <1>7, <1>8, <1>9, <1>10, <1>u

LEMMA CoalesceLeftInv ==
  ASSUME Inv, NEW t \in Threads, CoalesceLeft(t)
  PROVE  Inv' /\ SameUsed
  <1> USE HeapAssumption DEF NULL, Inv
  <1>x. cur[t] \in blocks /\ is_free[cur[t]] /\ pc[t] = "left"
    BY DEF CoalesceLeft, At, StepInv
  <1>m. \/ /\ IsFree(prev[cur[t]]) /\ Absorb(prev[cur[t]], cur[t])
           /\ prev[cur[t]] \in blocks /\ cur[t] \in blocks /\ cur[t] = next[prev[cur[t]]]
           /\ is_free[prev[cur[t]]] /\ is_free[cur[t]] /\ prev[cur[t]] # cur[t]
        \/ ~IsFree(prev[cur[t]]) /\ UNCHANGED list
    <2>1. CASE IsFree(prev[cur[t]])
      <3>1. prev[cur[t]] \in blocks /\ is_free[prev[cur[t]]] /\ prev[cur[t]] # NULL
        BY <1>x, <2>1 DEF IsFree, ListInv, ListTypes
      <3>2. cur[t] = next[prev[cur[t]]] /\ cur[t] # NULL
        BY <1>x, <3>1, Constants DEF ListInv, ListTypes, Linked, NULL
      <3>3. Absorb(prev[cur[t]], cur[t])
        BY <2>1 DEF CoalesceLeft
      <3>4. prev[cur[t]] # cur[t]
        BY <1>x, <3>1, <3>2, <3>3, AbsorbList
      <3> QED BY <1>x, <2>1, <3>1, <3>2, <3>3, <3>4
    <2>2. CASE ~IsFree(prev[cur[t]])
      BY <2>2 DEF CoalesceLeft
    <2> QED BY <2>1, <2>2
  <1>l. ListInv' /\ End(heap_tail)' = End(heap_tail)
    <2>1. CASE Absorb(prev[cur[t]], cur[t]) /\ IsFree(prev[cur[t]])
      BY <1>m, <2>1, AbsorbList
    <2>2. CASE UNCHANGED list
      BY <2>2 DEF list, ListInv, ListTypes, Linked, Disjoint, Ordered, End,
                  heap_start
    <2> QED BY <1>m, <2>1, <2>2
  <1>a. Inside(t)
    BY <1>x DEF CoalesceLeft, At, Goto, list, memory, Inside, TypeOK, Pc,
           Locked, Searching, Freeing
  <1>b. KeepsUsed(t)
    BY <1>x, <1>m DEF CoalesceLeft, At, Goto, list, memory, KeepsUsed,
           TypeOK, Absorb
  <1>c. /\ LockInv' /\ GrantsAreReal' /\ MoveInv' /\ CopyFits'
        /\ \A u \in Threads \ {t} :
              /\ pc'[u] \notin Locked
              /\ pc'[u] = "free" => /\ Header(ptr'[u]) \in blocks'
                                    /\ ~is_free'[Header(ptr'[u])]
    BY <1>a, <1>b, InsideStep
  <1>1. TypeOK'
    BY <1>l, <1>a DEF CoalesceLeft, At, Goto, list, memory, ListInv,
           ListTypes, TypeOK, Inside
  <1>2. ListInv'
    BY <1>l
  <1>3. LockInv'
    BY <1>c
  <1>4. EndInv'
    BY <1>a, <1>l, <1>x, EndKept DEF CoalesceLeft, At, Goto, list, memory,
           Searching
  <1>5. StepInv'
    BY <1>x, <1>c DEF CoalesceLeft, Goto, StepInv, TypeOK, Locked, Searching,
           Freeing
  <1>6. Coalesced'
    <2>1. \A u \in Threads : pc[u] \in {"right", "left"} => u = t
      BY <1>x DEF LockInv, Locked, Freeing
    <2>2. \A b \in blocks : is_free[b] /\ IsFree(next[b]) => cur[t] = next[b]
      BY <2>1, <1>x DEF Coalesced
    <2>3. ~IsFree(next[cur[t]])
      BY <1>x DEF StepInv
    <2>5. \A b \in blocks' : ~(is_free'[b] /\ IsFree(next[b])')
      <3> SUFFICES ASSUME NEW b \in blocks', is_free'[b],
                          next'[b] # NULL, is_free'[next'[b]]
                   PROVE  FALSE
        BY DEF IsFree
      <3>1. next'[b] \in blocks'
        BY <1>l DEF ListInv, ListTypes
      <3>2. CASE UNCHANGED list /\ ~IsFree(prev[cur[t]])
        <4>1. b \in blocks /\ is_free[b] /\ IsFree(next[b]) /\ next[b] # NULL
          BY <3>2 DEF list, IsFree
        <4>2. cur[t] = next[b] /\ prev[cur[t]] = b
          BY <2>2, <4>1 DEF ListInv, Linked
        <4>3. b # NULL
          BY <4>1, Constants DEF ListInv, ListTypes
        <4> QED BY <3>2, <4>1, <4>2, <4>3 DEF IsFree
      <3>3. CASE Absorb(prev[cur[t]], cur[t]) /\ IsFree(prev[cur[t]])
        <4> DEFINE p == prev[cur[t]]
        <4>1. p \in blocks /\ cur[t] = next[p] /\ is_free[p] /\ p # cur[t]
          BY <1>m, <3>3
        <4>2. CASE b = p
          <5>1. next'[b] = next[cur[t]]
            BY <3>3, <4>1, <4>2 DEF Absorb
          <5> QED BY <5>1, <2>3, <3>1, <3>3 DEF Absorb, IsFree
        <4>3. CASE b # p
          <5>1. b \in blocks /\ is_free[b] /\ next'[b] = next[b]
                /\ IsFree(next[b]) /\ next[b] # NULL
            BY <3>1, <3>3, <4>3 DEF Absorb, IsFree
          <5>2. cur[t] = next[b] /\ prev[cur[t]] = b
            BY <2>2, <5>1 DEF ListInv, Linked
          <5> QED BY <4>3, <5>2
        <4> QED BY <4>2, <4>3
      <3> QED BY <1>m, <3>2, <3>3
    <2> QED BY <2>5 DEF Coalesced
  <1>7. OwnerInv'
    <2>1. \A b \in blocks' : ~is_free'[b] => b \in blocks /\ ~is_free[b]
      BY <1>m DEF CoalesceLeft, At, Goto, list, memory, TypeOK, Append,
             Absorb
    <2>2. pc[t] # "mark" /\ pc'[t] # "got"
      BY DEF CoalesceLeft, At, Goto, list, memory, TypeOK, Searching
    <2> QED BY <1>a, <1>b, <2>1, <2>2, OwnerKept
  <1>8. GrantsAreReal'
    BY <1>c
  <1>9. MoveInv'
    BY <1>c
  <1>10. CopyFits'
    BY <1>c
  <1>u. SameUsed
    <2>1. \A b \in blocks' : ~is_free'[b] => b \in blocks /\ ~is_free[b]
      BY <1>m DEF CoalesceLeft, At, Goto, list, memory, TypeOK, Append,
             Absorb
    <2>2. pc[t] # "mark"
      BY <1>x
    <2> QED BY <1>b, <2>1, <2>2 DEF SameUsed, KeepsUsed
  <1> QED
    BY <1>1, <1>2, <1>3, <1>4, <1>5, <1>6, <1>7, <1>8, <1>9, <1>10, <1>u

LEMMA KfreeReturnInv ==
  ASSUME Inv, NEW t \in Threads, KfreeReturn(t)
  PROVE  Inv'
  <1> USE HeapAssumption DEF NULL, Inv
  <1>1. TypeOK'
    BY DEF KfreeReturn, At, Goto, EndCall, list, memory, TypeOK, Pc, Locked,
           Searching, Freeing
  <1>2. ListInv'
    BY DEF KfreeReturn, At, Goto, EndCall, list, memory, ListInv, ListTypes,
           Linked, Disjoint, Ordered, End, heap_start
  <1>3. LockInv'
    BY DEF KfreeReturn, At, Goto, EndCall, list, memory, TypeOK, LockInv,
           Locked, Searching, Freeing
  <1>4. EndInv'
    BY DEF KfreeReturn, At, Goto, EndCall, list, memory, TypeOK, EndInv,
           Abandoned, End
  <1>5. StepInv'
    BY DEF KfreeReturn, At, Goto, EndCall, list, memory, TypeOK, StepInv,
           LockInv, Locked, Searching, Freeing, IsFree
  <1>6. Coalesced'
    BY DEF KfreeReturn, At, Goto, EndCall, list, memory, TypeOK, Coalesced,
           IsFree
  <1>7. OwnerInv'
    <2>1. \A u \in Threads : \A b \in blocks : InHand(u, b)' <=> InHand(u, b)
      BY DEF KfreeReturn, At, Goto, EndCall, InHand, TypeOK
    <2> QED BY <2>1 DEF KfreeReturn, list, OwnerInv
  <1>8. GrantsAreReal'
    BY DEF KfreeReturn, At, Goto, EndCall, list, memory, TypeOK,
           GrantsAreReal
  <1>9. MoveInv'
    BY DEF KfreeReturn, At, Goto, EndCall, list, memory, TypeOK, MoveInv,
           Owns
  <1>10. CopyFits'
    BY DEF KfreeReturn, At, Goto, EndCall, list, memory, TypeOK, CopyFits,
           Owns
  <1> QED
    BY <1>1, <1>2, <1>3, <1>4, <1>5, <1>6, <1>7, <1>8, <1>9, <1>10

LEMMA NextInv == Inv /\ [Next]_vars => Inv'
  <1> SUFFICES ASSUME Inv, [Next]_vars PROVE Inv'
    OBVIOUS
  <1>1. CASE UNCHANGED vars
    BY <1>1 DEF vars, list, memory, Inv, TypeOK, ListInv, ListTypes, Linked,
           Disjoint, Ordered, heap_start, End, LockInv, EndInv, Abandoned,
           StepInv, IsFree, Coalesced, OwnerInv, InHand, GrantsAreReal,
           MoveInv, CopyFits, Owns
  <1>2. CASE Next
    <2> SUFFICES ASSUME NEW t \in Threads, Call(t) \/ Step(t) PROVE Inv'
      BY <1>2 DEF Next
    <2>1. CASE Call(t)
      BY <2>1, KmallocInv, KreallocInPlaceInv, KreallocMoveInv, KfreeInv DEF
         Call
    <2>2. CASE Step(t)
      BY <2>2, LockToAllocInv, SearchNextInv, TakeWholeInv, TakeSplitInv,
         StartGrowInv, MapPageInv, OutOfMemoryInv, PanicInv, OutOfTablesInv,
         JoinTailInv, AppendTailInv, KmallocReturnInv, CopyOldInv,
         LockToFreeInv, MarkFreeInv, CoalesceRightInv, CoalesceLeftInv,
         KfreeReturnInv DEF Step
    <2> QED BY <2>1, <2>2
  <1> QED BY <1>1, <1>2

LEMMA InitInv == Init => Inv
  <1> SUFFICES ASSUME Init PROVE Inv
    OBVIOUS
  <1> USE Constants DEF Init, NULL
  <1>1. TypeOK
    <2>1. /\ size \in [blocks -> Nat] /\ is_free \in [blocks -> BOOLEAN]
          /\ next \in [blocks -> blocks \cup {NULL}]
          /\ prev \in [blocks -> blocks \cup {NULL}]
          /\ blocks \subseteq Nat \ {0} /\ heap_tail \in blocks
          /\ heap_current_end \in Nat
      BY DEF heap_start
    <2>2. /\ pc \in [Threads -> Pc] /\ req \in [Threads -> Nat]
          /\ ptr \in [Threads -> Nat] /\ cur \in [Threads -> Nat]
          /\ todo \in [Threads -> Nat]
      BY DEF Pc
    <2>3. DOMAIN owned = {}
      OBVIOUS
    <2> QED BY <2>1, <2>2, <2>3 DEF TypeOK
  <1>2. ListInv
    BY DEF ListInv, ListTypes, Linked, Disjoint, Ordered, End, heap_start
  <1>3. LockInv
    BY DEF LockInv, Locked, Searching, Freeing
  <1>4. EndInv
    BY DEF EndInv, Abandoned, End, heap_start
  <1>5. StepInv /\ OwnerInv /\ MoveInv /\ CopyFits
    BY DEF StepInv, OwnerInv, InHand, MoveInv, CopyFits
  <1>6. Coalesced /\ GrantsAreReal
    BY DEF Coalesced, IsFree, GrantsAreReal
  <1> QED BY <1>1, <1>2, <1>3, <1>4, <1>5, <1>6 DEF Inv

-----------------------------------------------------------------------------
(* Results *)

(* The strengthened invariant, for every instance. *)
THEOREM Invariance == Spec => []Inv
  BY InitInv, NextInv, PTL DEF Spec

(* The variables keep their types; in particular no size or address ever   *)
(* goes below zero, where the C arithmetic would wrap around.              *)
THEOREM TypeCorrectness == Spec => []TypeOK
  <1>1. Inv => TypeOK
    BY DEF Inv
  <1> QED BY <1>1, Invariance, PTL

(* The list stays doubly linked and tiles the heap without overlap. *)
THEOREM ListCorrectness == Spec => [](Linked /\ Disjoint)
  <1>1. Inv => Linked /\ Disjoint
    BY DEF Inv, ListInv
  <1> QED BY <1>1, Invariance, PTL

(* The last block reaches the end of the mapped range. *)
THEOREM EndCorrectness == Spec => []EndsAtHeapEnd
  <1>1. Inv => EndsAtHeapEnd
    BY DEF Inv, EndInv, EndsAtHeapEnd
  <1> QED BY <1>1, Invariance, PTL

(* Neighbouring free blocks are merged. *)
THEOREM Coalescing == Spec => []Coalesced
  <1>1. Inv => Coalesced
    BY DEF Inv
  <1> QED BY <1>1, Invariance, PTL

(* A heap whose every grant was given back is one free block again. *)
THEOREM NothingLeaks == Spec => []EmptyHeapIsWhole
  <1>1. Inv => EmptyHeapIsWhole
    <2> SUFFICES ASSUME Inv, DOMAIN owned = {},
                        \A t \in Threads : pc[t] = "idle"
                 PROVE  blocks = {heap_start} /\ is_free[heap_start]
      BY DEF EmptyHeapIsWhole
    <2>1. \A b \in blocks : is_free[b]
      BY DEF Inv, OwnerInv, InHand
    <2>2. \A b \in blocks : ~IsFree(next[b])
      BY <2>1 DEF Inv, Coalesced
    <2>3. \A b \in blocks : next[b] = NULL
      BY <2>1, <2>2 DEF IsFree, Inv, TypeOK
    <2>4. heap_start \in blocks /\ heap_start = heap_tail
      BY <2>3 DEF Inv, ListInv, Linked
    <2>5. \A b \in blocks : b = heap_start
      BY <2>4, Constants DEF Inv, ListInv, ListTypes, Ordered
    <2> QED BY <2>1, <2>4, <2>5
  <1> QED BY <1>1, Invariance, PTL

(* At every step the list is linked, without gap or overlap, up to the end *)
(* of the heap, free neighbours are joined, and it is one free block when  *)
(* everything was given back.                                              *)
THEOREM WholeList == Spec => []ListIsWhole
  <1>1. Linked /\ Disjoint /\ EndsAtHeapEnd /\ Coalesced /\ EmptyHeapIsWhole
        => ListIsWhole
    BY DEF ListIsWhole
  <1> QED BY <1>1, ListCorrectness, EndCorrectness, Coalescing, NothingLeaks, PTL

(* What a caller holds is a used block large enough for its request. *)
THEOREM Grants == Spec => []GrantsAreReal
  <1>1. Inv => GrantsAreReal
    BY DEF Inv
  <1> QED BY <1>1, Invariance, PTL

(* A growth is always large enough: the second search succeeds. *)
THEOREM RetryCorrectness == Spec => []RetrySucceeds
  <1>1. Inv => RetrySucceeds
    BY Constants DEF Inv, StepInv, RetrySucceeds, ListInv, ListTypes, NULL
  <1> QED BY <1>1, Invariance, PTL

(* krealloc's unlocked look at the header stays valid until its copy. *)
THEOREM CopyCorrectness == Spec => []CopyFits
  <1>1. Inv => CopyFits
    BY DEF Inv
  <1> QED BY <1>1, Invariance, PTL

(* A step does one of three things to the used blocks. *)
LEMMA UsedSteps ==
  ASSUME Inv, Next
  PROVE  \/ SameUsed /\ Inv'
         \/ \E t \in Threads : Takes(t) /\ Inv'
         \/ \E t \in Threads : Marks(t) /\ Inv'
  <1>1. Inv'
    BY NextInv
  <1>2. PICK t \in Threads : Call(t) \/ Step(t)
    BY DEF Next
  <1>3. CASE TakeWhole(t) \/ TakeSplit(t)
    BY <1>1, <1>3, TakeWholeInv, TakeSplitInv
  <1>4. CASE MarkFree(t)
    BY <1>1, <1>4, MarkFreeInv
  <1>5. CASE \/ JoinTail(t) \/ AppendTail(t)
             \/ CoalesceRight(t) \/ CoalesceLeft(t)
    BY <1>1, <1>5, JoinTailInv, AppendTailInv, CoalesceRightInv,
       CoalesceLeftInv
  <1>6. CASE UNCHANGED list
    BY <1>1, <1>6 DEF list, SameUsed
  <1>7. \/ TakeWhole(t) \/ TakeSplit(t) \/ MarkFree(t) \/ JoinTail(t)
        \/ AppendTail(t) \/ CoalesceRight(t) \/ CoalesceLeft(t)
        \/ UNCHANGED list
    BY <1>2
    DEF Call, Step, Kmalloc, KreallocInPlace, KreallocMove, Kfree,
        LockToAlloc, SearchNext, StartGrow, MapPage, OutOfMemory, Panic,
        OutOfTables, KmallocReturn, CopyOld, LockToFree, KfreeReturn
  <1> QED BY <1>3, <1>4, <1>5, <1>6, <1>7

(* A block that stays handed out keeps its address, its size and its owner. *)
THEOREM OwnedStability == Spec => OwnedIsStable
  <1>1. ASSUME Inv, Next, NEW p \in DOMAIN owned \cap DOMAIN owned'
        PROVE  /\ Header(p) \in blocks' /\ ~is_free'[Header(p)]
               /\ size'[Header(p)] = size[Header(p)]
               /\ owned'[p].by = owned[p].by
    <2>1. Inv'
      BY <1>1, NextInv
    <2>2. /\ Header(p) \in blocks /\ ~is_free[Header(p)]
          /\ Header(p) \in blocks' /\ ~is_free'[Header(p)]
      BY <1>1, <2>1 DEF Inv, GrantsAreReal
    <2>3. size'[Header(p)] = size[Header(p)]
      BY <1>1, <2>2, UsedSteps DEF SameUsed, Takes, Marks
    <2>4. owned'[p].by = owned[p].by
      <3>1. PICK t \in Threads : Call(t) \/ Step(t)
        BY <1>1 DEF Next
      <3>2. CASE owned' = owned
        BY <3>2
      <3>3. CASE \E q \in DOMAIN owned, n \in Sizes : KreallocInPlace(t, q, n)
        BY <3>3 DEF KreallocInPlace, Owns, Grant
      <3>4. CASE \E q : GiveBack(q)
        BY <3>4, <1>1 DEF GiveBack
      <3>5. CASE KmallocReturn(t)
        <4>1. Data(cur[t]) \notin DOMAIN owned
          BY <3>5, <1>1 DEF KmallocReturn, At, Inv, OwnerInv, InHand, StepInv
        <4> QED BY <3>5, <4>1, <1>1 DEF KmallocReturn, Grant
      <3> QED
        BY <3>1, <3>2, <3>3, <3>4, <3>5
        DEF Call, Step, Kmalloc, KreallocMove, Kfree, LockToAlloc, SearchNext,
            TakeWhole, TakeSplit, StartGrow, MapPage, OutOfMemory, Panic,
            OutOfTables, JoinTail, AppendTail, Retry, CopyOld, LockToFree,
            MarkFree, CoalesceRight, CoalesceLeft, KfreeReturn
    <2> QED BY <2>2, <2>3, <2>4
  <1>2. Inv /\ [Next]_vars =>
          [\A p \in DOMAIN owned \cap DOMAIN owned' :
             /\ Header(p) \in blocks' /\ ~is_free'[Header(p)]
             /\ size'[Header(p)] = size[Header(p)]
             /\ owned'[p].by = owned[p].by]_vars
    BY <1>1
  <1> QED BY <1>2, Invariance, PTL DEF Spec, OwnedIsStable

(* The heap implements the allocator of HeapAbs: a search that takes a     *)
(* block grants an extent that was nobody's, kfree's mark releases one,    *)
(* and no other step changes what is granted.                              *)
Used == {x \in blocks : ~is_free[x]}
Granted == [b \in Used |-> End(b)]

THEOREM Refinement == Spec => Implements
  <1>1. Init => Abs!Init
    <2> SUFFICES ASSUME Init PROVE {x \in blocks : ~is_free[x]} = {}
      BY DEF Abs!Init
    <2> QED BY DEF Init
  <1>2. ASSUME Inv, Next
        PROVE  Abs!Next \/ UNCHANGED Granted
    <2>1. CASE SameUsed
      <3>1. Used' = Used
        BY <2>1 DEF SameUsed, Used
      <3>2. \A b \in Used : End(b)' = End(b)
        BY <2>1 DEF SameUsed, Used, End
      <3> QED BY <3>1, <3>2 DEF Granted
    <2>2. CASE \E t \in Threads : Takes(t) /\ Inv'
      <3>1. PICK t \in Threads : Takes(t) /\ Inv'
        BY <2>2
      <3>b. PICK b : b = cur[t]
        OBVIOUS
      <3>1a. /\ b \in Nat /\ size[b] \in Nat /\ size'[b] \in Nat
             /\ blocks \subseteq Nat /\ size \in [blocks -> Nat]
        BY <1>2, <3>1, <3>b DEF Takes, Inv, TypeOK
      <3>2. Used' = Used \cup {b} /\ b \notin Used
        BY <3>1, <3>b DEF Takes, Used
      <3>3. \A c \in Used : End(c)' = End(c)
        BY <3>1, <3>b DEF Takes, Used, End
      <3>4. Granted' = [c \in Used \cup {b} |->
                           IF c = b THEN End(b)' ELSE End(c)]
        <4>1. \A c \in Used' : End(c)' = IF c = b THEN End(b)' ELSE End(c)
          BY <3>2, <3>3
        <4>2. Granted' = [c \in Used' |-> End(c)']
          BY DEF Granted
        <4> QED BY <3>2, <4>1, <4>2
      <3>5. \A c \in Used : End(c) <= b \/ End(b)' <= c
        <4> SUFFICES ASSUME NEW c \in Used PROVE End(c) <= b \/ End(b)' <= c
          OBVIOUS
        <4>1. b \in blocks /\ c \in blocks /\ b # c /\ End(b)' <= End(b)
              /\ b \in Nat /\ c \in Nat /\ End(b)' \in Nat /\ End(b) \in Nat
          BY <3>1, <3>b, <3>1a, <3>2, Constants DEF Takes, Used, End
        <4>2. b < c => End(b) <= c
          BY <4>1, <1>2 DEF Inv, ListInv, Disjoint
        <4>3. c < b => End(c) <= b
          BY <4>1, <1>2 DEF Inv, ListInv, Disjoint
        <4> QED BY <4>1, <4>2, <4>3
      <3>6. b < End(b)'
        BY <3>1a, Constants DEF End
      <3> QED
        BY <3>2, <3>4, <3>5, <3>6
        DEF Abs!Next, Abs!Allocate, Abs!Unused, Used, Granted
    <2>3. CASE \E t \in Threads : Marks(t)
      <3>1. PICK t \in Threads : Marks(t)
        BY <2>3
      <3>2. Used' = Used \ {cur[t]} /\ cur[t] \in Used
        BY <3>1 DEF Marks, Used
      <3>3. \A c \in Used' : End(c)' = End(c)
        BY <3>1 DEF Marks, Used, End
      <3> QED
        BY <3>2, <3>3 DEF Abs!Next, Abs!Release, Used, Granted
    <2> QED BY <1>2, <2>1, <2>2, <2>3, UsedSteps
  <1>3. Inv /\ [Next]_vars => [Abs!Next]_Granted
    <2>1. UNCHANGED vars => UNCHANGED Granted
      BY DEF vars, list, Granted, Used, End
    <2> QED BY <1>2, <2>1
  <1> QED
    BY <1>1, <1>3, Invariance, PTL
    DEF Spec, Implements, Abs!Spec, Granted, Used
=============================================================================
