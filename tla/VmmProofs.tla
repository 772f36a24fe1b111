------------------------------ MODULE VmmProofs -----------------------------
(***************************************************************************)
(* For every set of frames, boot loader's tables and pages: the properties *)
(* of Vmm, and that it implements VmmAbs.                                  *)
(*                                                                         *)
(* The inductive invariant says how the callers' tables hang together,     *)
(* with two functions that the program does not have: the rank of a table, *)
(* which is the level it is used at (0 for a frame that is no table of     *)
(* theirs), and up, the entry that leads to it.  No table has two          *)
(* entries that lead to it since both would have to be its up, and a walk  *)
(* is traced back from the table it reached.                               *)
(***************************************************************************)
EXTENDS Vmm, WellFoundedInduction, TLAPS

(* The entries of the callers in the top-level table. *)
Tops == {v[1] : v \in Pages}
Callers(root, f, i) == f = root => i \in Tops

(* Entry i of table f leads to a table of the next rank, and only it does. *)
Leads(T, rank, up, f, i) ==
    LET e == T[f][i] IN
    /\ ~e.large /\ e.to \in Ram
    /\ rank[e.to] = rank[f] + 1 /\ up[e.to] = <<f, i>>

(* The entry above table f leads to it, with all the rights given below.   *)
Hangs(T, root, rank, up, f) ==
    LET g == up[f][1]
        i == up[f][2]
    IN  /\ rank[g] = rank[f] - 1 /\ Callers(root, g, i)
        /\ T[g][i].present /\ T[g][i].to = f
        /\ \A j \in Index : T[f][j].present => T[f][j].flags \subseteq T[g][i].flags

Tree(T, root, rank, up) ==
    /\ \A f \in Ram : rank[f] = 1 <=> f = root
    /\ \A f \in Ram, i \in Index :
          rank[f] \in 1 .. 3 /\ Callers(root, f, i) /\ T[f][i].present => Leads(T, rank, up, f, i)
    /\ \A f \in Ram : rank[f] > 1 => Hangs(T, root, rank, up, f)

Ranks == [Ram -> 0 .. 4]
Ups == [Ram -> Ram \X Index]

(* The tables and the two functions that describe them. *)
Sound(T, root, rank, up) ==
    /\ T \in [Ram -> [Index -> Entries]] /\ root \in Ram
    /\ rank \in Ranks /\ up \in Ups
    /\ Tree(T, root, rank, up)

(* The table f is one that a walk for v comes through. *)
OnPath(rank, up, f, v) ==
    /\ rank[f] \in 1 .. 4
    /\ rank[f] = 2 => up[f][2] = v[1]
    /\ rank[f] = 3 => up[f][2] = v[2] /\ up[up[f][1]][2] = v[1]
    /\ rank[f] = 4 => up[f][2] = v[3] /\ up[up[f][1]][2] = v[2]
                                      /\ up[up[up[f][1]][1]][2] = v[1]

Booting == pc \in {"boot", "zero", "copy", "switch"}

(* The boot loader's tables are never written or handed out. *)
LoaderKept ==
    /\ \A f \in DOMAIN BootTables : table[f] = BootTables[f]
    /\ free \cap DOMAIN BootTables = {}

NoEntries == [i \in Index |-> Empty]

(* The new top-level table, from its allocation to the move to it. *)
Moving ==
    /\ Booting => cr3 = BootPml4 /\ op = <<>>
    /\ pc \in {"zero", "copy", "switch"} => new \in Ram \ (free \cup DOMAIN BootTables)
    /\ pc \in {"copy", "switch"} => kernel_pml4 = new
    /\ pc \in {"boot", "zero"} => kernel_pml4 = NULL
    /\ pc = "copy" => table[new] = NoEntries
    /\ pc = "switch" => table[new] =
          [i \in Index |-> IF i \in Higher THEN BootTables[BootPml4][i] ELSE Empty]
    /\ ~Booting /\ pc # "panic" => cr3 = kernel_pml4
    /\ cr3 # kernel_pml4 => cr3 = BootPml4
    /\ cr3 # kernel_pml4 /\ pc = "panic" => op = <<>>

(* After the move: the higher half is shared with the boot loader. *)
Shared ==
    cr3 = kernel_pml4 =>
        /\ kernel_pml4 \in Ram \ (free \cup DOMAIN BootTables)
        /\ \A i \in Higher : BootTables[BootPml4][i].present =>
              table[kernel_pml4][i] = BootTables[BootPml4][i]

(* The call under way: the table it has reached is on the path of its page,*)
(* with enough rights on the way; a table it adds is nobody else's.        *)
Call(rank, up) ==
    /\ pc \in {"walk", "clear", "link", "upgrade", "leaf", "find"} =>
          /\ page \in Pages
          /\ at \in Ram /\ rank[at] = level /\ OnPath(rank, up, at, page)
    /\ pc \in {"walk", "clear", "link", "upgrade", "leaf"} =>
          /\ frame \in Ram \cup Device /\ flags \in Flags
          /\ op = <<page, <<frame, flags>>>>
          /\ (pc = "leaf" <=> level = 4)
          /\ level > 1 => intermediate_flags \subseteq table[up[at][1]][up[at][2]].flags
    /\ pc \in {"clear", "link"} =>
          /\ ~Slot.present
          /\ new \in Ram \ (free \cup DOMAIN BootTables) /\ rank[new] = 0
    /\ pc = "link" => table[new] = NoEntries
    /\ pc = "upgrade" => Slot.present /\ flags \cap {"USER"} \subseteq Slot.flags
    /\ pc = "find" => op = <<page, <<>>>>
    /\ pc = "flush" => page \in Pages

Unused(rank) == \A f \in free \cup DOMAIN BootTables : rank[f] = 0

Tables ==
    cr3 = kernel_pml4 =>
        \E rank \in Ranks, up \in Ups :
            Sound(table, kernel_pml4, rank, up) /\ Unused(rank) /\ Call(rank, up)

Base == TypeOK /\ LoaderKept /\ Moving /\ Shared /\ Tables
Inv == Base /\ TlbCoherent

-----------------------------------------------------------------------------
(* The page allocator's page *)

(* Every set of frames that is not empty has a least one. *)
LEMMA Least ==
    ASSUME NEW S \in SUBSET Nat, S # {}
    PROVE  Min(S) \in S
<1> DEFINE R == {ss \in Nat \X Nat : ss[1] < ss[2]}
<1>1. IsWellFoundedOn(R, Nat)
  BY NatLessThanWellFounded DEF OpToRel
<1>2. \A x, y \in S : <<y, x>> \in R <=> y < x
  OBVIOUS
<1> HIDE DEF R
<1>3. PICK x \in S : \A y \in S : ~(<<y, x>> \in R)
  BY <1>1, WFMin
<1>4. ASSUME NEW y \in S PROVE x <= y
  <2>1. ~(y < x)
    BY <1>2, <1>3
  <2>2. x \in Nat /\ y \in Nat
    OBVIOUS
  <2> QED
    BY <2>1, <2>2
<1> QED
  BY <1>4 DEF Min

-----------------------------------------------------------------------------
(* Walks *)

(* The fields of an entry that is present. *)
LEMMA Fields ==
    ASSUME NEW F, NEW e \in {Empty} \cup [present : {TRUE}, to : F, flags : Flags, large : BOOLEAN]
    PROVE  /\ e.present \in BOOLEAN
           /\ e.present => /\ e.to \in F /\ e.flags \in Flags /\ e.large \in BOOLEAN
                           /\ e = [present |-> TRUE, to |-> e.to, flags |-> e.flags,
                                   large |-> e.large]
           /\ ~e.present => e = Empty
<1>1. CASE e = Empty
  BY <1>1 DEF Empty
<1>2. CASE e \in [present : {TRUE}, to : F, flags : Flags, large : BOOLEAN]
  <2>1. e.present = TRUE
    BY <1>2
  <2> QED
    BY <1>2, <2>1
<1> QED
  BY <1>1, <1>2

(* The same of the tables' entries. *)
LEMMA EntryType ==
    ASSUME NEW e \in Entries
    PROVE  /\ e.present \in BOOLEAN
           /\ e.present => /\ e.to \in Ram \cup Device /\ e.flags \in Flags
                           /\ e.large \in BOOLEAN
                           /\ e = [present |-> TRUE, to |-> e.to, flags |-> e.flags,
                                   large |-> e.large]
           /\ ~e.present => e = Empty
  BY Fields DEF Entries

Walked == {Empty} \cup [present : {TRUE}, to : Nat, flags : Flags, large : BOOLEAN]

(* Frames are numbers. *)
LEMMA EntriesWalked == Entries \subseteq Walked
<1>1. Ram \cup Device \subseteq Nat
  BY VmmAssumption
<1> QED
  BY <1>1 DEF Entries, Walked

(* An entry below another, however large the pages. *)
LEMMA BelowType ==
    ASSUME NEW D \in SUBSET Ram, NEW T \in [D -> [Index -> Entries]], NEW e \in Walked, NEW i \in Index
    PROVE  Below(T, e, i) \in Walked
<1>1. CASE ~e.present
  BY <1>1 DEF Below, Walked
<1>2. CASE e.present /\ e.large
  <2>1. e.to \in Nat /\ e.flags \in Flags /\ e.large \in BOOLEAN
        /\ e = [present |-> TRUE, to |-> e.to, flags |-> e.flags, large |-> e.large]
    BY <1>2, Fields DEF Walked
  <2>2. e.to + i \in Nat
    BY <2>1, VmmAssumption
  <2> QED
    BY <1>2, <2>1, <2>2 DEF Below, Walked
<1>3. CASE e.present /\ ~e.large
  BY <1>3, EntriesWalked, ZenonT(30) DEF Below, Walked
<1> QED
  BY <1>1, <1>2, <1>3

(* What a walk finds is a frame and rights, or nothing. *)
LEMMA WalkType ==
    ASSUME NEW T \in [Ram -> [Index -> Entries]], NEW root \in Ram, NEW v \in Address
    PROVE  Walk(T, root, v) # <<>> => Walk(T, root, v) \in Nat \X Flags
<1> DEFINE e1 == T[root][v[1]]
           e2 == Below(T, e1, v[2])
           e3 == Below(T, e2, v[3])
           e4 == Below(T, e3, v[4])
<1>1. v[1] \in Index /\ v[2] \in Index /\ v[3] \in Index /\ v[4] \in Index
  BY DEF Address
<1>2. e1 \in Walked
  BY <1>1, EntriesWalked
<1>3. e2 \in Walked /\ e3 \in Walked /\ e4 \in Walked
  <2> HIDE DEF e1
  <2>1. e2 \in Walked
    BY <1>1, <1>2, BelowType
  <2> HIDE DEF e2
  <2>2. e3 \in Walked
    BY <1>1, <2>1, BelowType
  <2> HIDE DEF e3
  <2>3. e4 \in Walked
    BY <1>1, <2>2, BelowType
  <2> QED
    BY <2>1, <2>2, <2>3
<1>4. Walk(T, root, v) = IF e4.present
                         THEN <<e4.to, e1.flags \cap e2.flags \cap e3.flags \cap e4.flags>>
                         ELSE <<>>
  BY DEF Walk
<1> HIDE DEF e1, e2, e3, e4
<1>5. e4.present => e4.to \in Nat /\ e4.flags \in Flags
  BY <1>3, Fields DEF Walked
<1> QED
  BY <1>4, <1>5 DEF Flags

(* A page the boot loader mapped is found where it was as long as its      *)
(* tables and the entry that leads to them are as they were.               *)
LEMMA LoaderWalk ==
    ASSUME NEW T \in [Ram -> [Index -> Entries]],
           \A f \in DOMAIN BootTables : T[f] = BootTables[f],
           NEW root \in Ram, NEW v \in BootPages,
           T[root][v[1]] = BootTables[BootPml4][v[1]]
    PROVE  Walk(T, root, v) = Walk(BootTables, BootPml4, v)
<1>1. ASSUME NEW e, NEW i, Below(BootTables, e, i).present
      PROVE  Below(T, e, i) = Below(BootTables, e, i) /\ e.present
  <2>1. DOMAIN BootTables \subseteq DOMAIN T
    BY VmmAssumption
  <2> QED
    BY <1>1, <2>1 DEF Below, Empty
<1> DEFINE e1 == BootTables[BootPml4][v[1]]
           e2 == Below(BootTables, e1, v[2])
           e3 == Below(BootTables, e2, v[3])
           e4 == Below(BootTables, e3, v[4])
<1>2. Walk(BootTables, BootPml4, v) # <<>>
  BY BootAssumption
<1>3. e4.present
  BY <1>2 DEF Walk
<1>4. e3.present /\ e4 = Below(T, e3, v[4])
  BY <1>1, <1>3
<1>5. e2.present /\ e3 = Below(T, e2, v[3])
  BY <1>1, <1>4
<1>6. e1.present /\ e2 = Below(T, e1, v[2])
  BY <1>1, <1>5
<1>7. Walk(T, root, v) = IF e4.present
                         THEN <<e4.to, e1.flags \cap e2.flags \cap e3.flags \cap e4.flags>>
                         ELSE <<>>
  <2>1. T[root][v[1]] = e1
    OBVIOUS
  <2> HIDE DEF e1, e2, e3, e4
  <2> QED
    BY <1>4, <1>5, <1>6, <2>1 DEF Walk
<1> QED
  BY <1>7 DEF Walk

-----------------------------------------------------------------------------
(* The callers' tables *)

(* One step of a walk: the entry above a table leads the MMU to it. *)
LEMMA Above ==
    ASSUME NEW T \in [Ram -> [Index -> Entries]], NEW root \in Ram,
           NEW rank \in Ranks, NEW up \in Ups, Tree(T, root, rank, up),
           NEW f \in Ram, rank[f] > 1, NEW j \in Index
    PROVE  LET g == up[f][1]
               i == up[f][2]
           IN  /\ g \in Ram /\ i \in Index /\ rank[g] = rank[f] - 1
               /\ T[g][i].present
               /\ Below(T, T[g][i], j) = T[f][j]
               /\ T[f][j].present => T[f][j].flags \subseteq T[g][i].flags
<1> DEFINE g == up[f][1]
           i == up[f][2]
<1>1. up[f] = <<g, i>> /\ g \in Ram /\ i \in Index
  BY DEF Ups
<1> HIDE DEF g, i
<1>2. Hangs(T, root, rank, up, f)
  BY DEF Tree
<1>3. /\ rank[g] = rank[f] - 1 /\ Callers(root, g, i)
      /\ T[g][i].present /\ T[g][i].to = f
      /\ T[f][j].present => T[f][j].flags \subseteq T[g][i].flags
  BY <1>2 DEF Hangs, g, i
<1>4. rank[g] \in 1 .. 3
  BY <1>1, <1>3 DEF Ranks
<1>5. ~T[g][i].large
  BY <1>1, <1>3, <1>4 DEF Tree, Leads
<1>6. Below(T, T[g][i], j) = T[f][j]
  BY <1>3, <1>5 DEF Below
<1> QED
  BY <1>1, <1>3, <1>6 DEF g, i

(* A walk that comes to a table of the last level finds what is there,     *)
(* with the rights given there; one that comes to an entry that is not     *)
(* present finds nothing.                                                  *)
LEMMA WalkThrough ==
    ASSUME NEW T \in [Ram -> [Index -> Entries]], NEW root \in Ram,
           NEW rank \in Ranks, NEW up \in Ups, Tree(T, root, rank, up),
           NEW f \in Ram, NEW v \in Address, OnPath(rank, up, f, v)
    PROVE  /\ rank[f] = 4 =>
                 Walk(T, root, v) = IF T[f][v[4]].present
                                    THEN <<T[f][v[4]].to, T[f][v[4]].flags>> ELSE <<>>
           /\ ~T[f][v[rank[f]]].present => Walk(T, root, v) = <<>>
<1>0. v[1] \in Index /\ v[2] \in Index /\ v[3] \in Index /\ v[4] \in Index
  BY DEF Address
<1> DEFINE e1 == T[root][v[1]]
           e2 == Below(T, e1, v[2])
           e3 == Below(T, e2, v[3])
           e4 == Below(T, e3, v[4])
<1>1. Walk(T, root, v) = IF e4.present
                         THEN <<e4.to, e1.flags \cap e2.flags \cap e3.flags \cap e4.flags>>
                         ELSE <<>>
  BY DEF Walk
<1>2. /\ ~e1.present => ~e2.present
      /\ ~e2.present => ~e3.present
      /\ ~e3.present => ~e4.present
  BY DEF Below, Empty
<1>3. \A g \in Ram : rank[g] = 1 <=> g = root
  BY DEF Tree
<1>8. ASSUME NEW t \in Ram, rank[t] > 1
      PROVE  up[t][1] \in Ram /\ rank[up[t][1]] = rank[t] - 1
  BY <1>0, <1>8, Above
<1> HIDE DEF e2, e3, e4
<1>4. CASE rank[f] = 1
  BY <1>0, <1>1, <1>2, <1>3, <1>4
<1>5. CASE rank[f] = 2
  <2>1. up[f][1] = root /\ up[f][2] = v[1]
    BY <1>0, <1>3, <1>5, Above DEF OnPath
  <2>2. e2 = T[f][v[2]]
    BY <1>0, <1>5, <2>1, Above DEF e2
  <2> QED
    BY <1>1, <1>2, <1>5, <2>2
<1>6. CASE rank[f] = 3
  <2> DEFINE g == up[f][1]
  <2>1. g \in Ram /\ rank[g] = 2 /\ up[f][2] = v[2] /\ up[g][2] = v[1]
    BY <1>6, <1>8 DEF OnPath
  <2>2. up[g][1] = root
    BY <1>3, <1>8, <2>1
  <2>3. e2 = T[g][v[2]]
    BY <1>0, <2>1, <2>2, Above DEF e2
  <2>4. e3 = T[f][v[3]]
    BY <1>0, <1>6, <2>1, <2>3, Above DEF e3
  <2> QED
    BY <1>1, <1>2, <1>6, <2>4
<1>7. CASE rank[f] = 4
  <2> DEFINE g == up[f][1]
             h == up[g][1]
  <2>1. g \in Ram /\ rank[g] = 3 /\ up[f][2] = v[3] /\ up[g][2] = v[2] /\ up[h][2] = v[1]
    BY <1>7, <1>8 DEF OnPath
  <2>2. h \in Ram /\ rank[h] = 2
    BY <1>8, <2>1
  <2>3. up[h][1] = root
    BY <1>3, <1>8, <2>2
  <2> HIDE DEF g, h
  <2>4. e2 = T[h][v[2]] /\ e1.present /\ (e2.present => e2.flags \subseteq e1.flags)
    <3>1. /\ T[up[h][1]][up[h][2]].present
          /\ Below(T, T[up[h][1]][up[h][2]], v[2]) = T[h][v[2]]
          /\ T[h][v[2]].present => T[h][v[2]].flags \subseteq T[up[h][1]][up[h][2]].flags
      BY <1>0, <2>2, Above
    <3> QED
      BY <2>1, <2>3, <3>1 DEF e2, h
  <2>5. e3 = T[g][v[3]] /\ e2.present /\ (e3.present => e3.flags \subseteq e2.flags)
    <3>1. /\ T[up[g][1]][up[g][2]].present
          /\ Below(T, T[up[g][1]][up[g][2]], v[3]) = T[g][v[3]]
          /\ T[g][v[3]].present => T[g][v[3]].flags \subseteq T[up[g][1]][up[g][2]].flags
      BY <1>0, <2>1, Above
    <3> QED
      BY <2>1, <2>4, <3>1 DEF e3, h
  <2>6. e4 = T[f][v[4]] /\ e3.present /\ (e4.present => e4.flags \subseteq e3.flags)
    <3>1. /\ T[up[f][1]][up[f][2]].present
          /\ Below(T, T[up[f][1]][up[f][2]], v[4]) = T[f][v[4]]
          /\ T[f][v[4]].present => T[f][v[4]].flags \subseteq T[up[f][1]][up[f][2]].flags
      BY <1>0, <1>7, Above
    <3> QED
      BY <2>1, <2>5, <3>1 DEF e4, g
  <2>7. e4.present => e1.flags \cap e2.flags \cap e3.flags \cap e4.flags = e4.flags
    BY <2>4, <2>5, <2>6
  <2> QED
    BY <1>1, <1>7, <2>6, <2>7
<1> QED
  BY <1>4, <1>5, <1>6, <1>7 DEF OnPath

Found(e) == IF e.present THEN <<e.to, e.flags>> ELSE <<>>

(* The two ends of a walk, apart. *)
LEMMA WalkFinds ==
    ASSUME NEW T, NEW root, NEW rank, NEW up, Sound(T, root, rank, up),
           NEW f \in Ram, NEW v \in Pages, OnPath(rank, up, f, v), rank[f] = 4,
           NEW e, e = T[f][v[4]]
    PROVE  Walk(T, root, v) = Found(e)
<1>1. v \in Address
  BY VmmAssumption
<1> QED
  BY <1>1, WalkThrough DEF Sound, Found

(* A walk for a page stops at an entry that is not present. *)
LEMMA WalkStops ==
    ASSUME NEW T, NEW root, NEW rank, NEW up, Sound(T, root, rank, up),
           NEW f \in Ram, NEW v \in Pages, OnPath(rank, up, f, v), ~T[f][v[rank[f]]].present
    PROVE  Walk(T, root, v) = <<>>
<1>1. v \in Address
  BY VmmAssumption
<1> QED
  BY <1>1, WalkThrough DEF Sound

(* Two walks that come to the same table and read the same there agree.    *)
LEMMA WalksAgree ==
    ASSUME NEW T, NEW root, NEW rank, NEW up, Sound(T, root, rank, up),
           NEW U, NEW ranks, NEW ups, Sound(U, root, ranks, ups),
           NEW f \in Ram, NEW v \in Pages, OnPath(rank, up, f, v), OnPath(ranks, ups, f, v),
           ranks[f] = rank[f], T[f][v[rank[f]]] = U[f][v[rank[f]]],
           rank[f] = 4 \/ ~T[f][v[rank[f]]].present
    PROVE  Walk(U, root, v) = Walk(T, root, v)
<1>1. CASE rank[f] = 4
  BY <1>1, WalkFinds
<1>2. CASE ~T[f][v[rank[f]]].present
  BY <1>2, WalkStops
<1> QED
  BY <1>1, <1>2

(* Every walk for a page of the callers ends at one or the other. *)
LEMMA WalkEnds ==
    ASSUME NEW T \in [Ram -> [Index -> Entries]], NEW root \in Ram,
           NEW rank \in Ranks, NEW up \in Ups, Tree(T, root, rank, up),
           NEW v \in Pages
    PROVE  \E f \in Ram : OnPath(rank, up, f, v) /\ (rank[f] = 4 \/ ~T[f][v[rank[f]]].present)
<1>1. v[1] \in Index /\ v[2] \in Index /\ v[3] \in Index /\ v[1] \in Tops
  BY VmmAssumption DEF Address, Tops
<1>2. ASSUME NEW f \in Ram, NEW i \in Index, rank[f] \in 1 .. 3, Callers(root, f, i),
             T[f][i].present
      PROVE  /\ T[f][i].to \in Ram
             /\ rank[T[f][i].to] = rank[f] + 1 /\ up[T[f][i].to] = <<f, i>>
  BY <1>2 DEF Tree, Leads
<1>3. rank[root] = 1
  BY DEF Tree
<1>4. OnPath(rank, up, root, v)
  BY <1>3 DEF OnPath
<1>5. CASE ~T[root][v[1]].present
  BY <1>3, <1>4, <1>5
<1>6. CASE T[root][v[1]].present
  <2> DEFINE f == T[root][v[1]].to
  <2>1. f \in Ram /\ rank[f] = 2 /\ up[f] = <<root, v[1]>>
    <3>1. Callers(root, root, v[1]) /\ rank[root] \in 1 .. 3
      BY <1>1, <1>3 DEF Callers
    <3>2. f \in Ram /\ rank[f] = rank[root] + 1 /\ up[f] = <<root, v[1]>>
      BY <1>1, <1>2, <1>6, <3>1
    <3> QED
      BY <1>3, <3>2
  <2>2. f # root
    BY <1>3, <2>1
  <2> HIDE DEF f
  <2>3. OnPath(rank, up, f, v)
    BY <2>1 DEF OnPath
  <2>4. CASE ~T[f][v[2]].present
    BY <2>1, <2>3, <2>4
  <2>5. CASE T[f][v[2]].present
    <3> DEFINE g == T[f][v[2]].to
    <3>1. g \in Ram /\ rank[g] = 3 /\ up[g] = <<f, v[2]>>
      <4>1. Callers(root, f, v[2]) /\ rank[f] \in 1 .. 3
        BY <2>1, <2>2 DEF Callers
      <4>2. g \in Ram /\ rank[g] = rank[f] + 1 /\ up[g] = <<f, v[2]>>
        BY <1>1, <1>2, <2>1, <2>5, <4>1
      <4> QED
        BY <2>1, <4>2
    <3>2. g # root
      BY <1>3, <3>1
    <3> HIDE DEF g
    <3>3. OnPath(rank, up, g, v)
      BY <2>1, <3>1 DEF OnPath
    <3>4. CASE ~T[g][v[3]].present
      BY <3>1, <3>3, <3>4
    <3>5. CASE T[g][v[3]].present
      <4> DEFINE h == T[g][v[3]].to
      <4>1. h \in Ram /\ rank[h] = 4 /\ up[h] = <<g, v[3]>>
        <5>1. Callers(root, g, v[3]) /\ rank[g] \in 1 .. 3
          BY <3>1, <3>2 DEF Callers
        <5>2. h \in Ram /\ rank[h] = rank[g] + 1 /\ up[h] = <<g, v[3]>>
          BY <1>1, <1>2, <3>1, <3>5, <5>1
        <5> QED
          BY <3>1, <5>2
      <4> HIDE DEF h
      <4>2. OnPath(rank, up, h, v)
        BY <2>1, <3>1, <4>1 DEF OnPath
      <4> QED
        BY <4>1, <4>2
    <3> QED
      BY <3>4, <3>5
  <2> QED
    BY <2>4, <2>5
<1> QED
  BY <1>5, <1>6

(* Only one page has its walk come to a given entry of the last level.     *)
LEMMA PathUnique ==
    ASSUME NEW rank \in Ranks, NEW up \in Ups, NEW f \in Ram, rank[f] = 4,
           NEW u \in Pages, NEW v \in Pages, u[4] = v[4],
           OnPath(rank, up, f, u), OnPath(rank, up, f, v)
    PROVE  u = v
<1>1. u \in Index \X Index \X Index \X Index /\ v \in Index \X Index \X Index \X Index
  BY VmmAssumption DEF Address
<1>2. u[1] = v[1] /\ u[2] = v[2] /\ u[3] = v[3]
  BY DEF OnPath
<1> QED
  BY <1>1, <1>2

-----------------------------------------------------------------------------
(* What a write does to them *)

SameWalks(T, U, root) == \A v \in Pages : Walk(U, root, v) = Walk(T, root, v)

(* Writing a frame that is no table of the callers disturbs nothing. *)
LEMMA Untouched ==
    ASSUME NEW T \in [Ram -> [Index -> Entries]], NEW U \in [Ram -> [Index -> Entries]],
           NEW root \in Ram,
           NEW rank \in Ranks, NEW up \in Ups, Tree(T, root, rank, up),
           NEW g, rank[g] = 0, \A f \in Ram \ {g} : U[f] = T[f]
    PROVE  Tree(U, root, rank, up) /\ SameWalks(T, U, root)
<1>1. \A f \in Ram : rank[f] > 0 => U[f] = T[f]
  OBVIOUS
<1>2. Tree(U, root, rank, up)
  <2>1. \A f \in Ram : rank[f] > 1 => rank[up[f][1]] > 0 /\ up[f][1] \in Ram
    <3>1. ASSUME NEW f \in Ram, rank[f] > 1 PROVE rank[up[f][1]] = rank[f] - 1 /\ up[f][1] \in Ram
      BY <3>1 DEF Tree, Hangs, Ups
    <3> QED
      BY <3>1 DEF Ranks
  <2>2. ASSUME NEW f \in Ram, NEW i \in Index,
               rank[f] \in 1 .. 3, Callers(root, f, i), U[f][i].present
        PROVE  Leads(U, rank, up, f, i)
    <3>1. U[f] = T[f]
      BY <1>1, <2>2
    <3>2. Leads(T, rank, up, f, i)
      BY <2>2, <3>1 DEF Tree
    <3> QED
      BY <3>1, <3>2 DEF Leads
  <2>3. \A f \in Ram : rank[f] > 1 => Hangs(U, root, rank, up, f)
    BY <1>1, <2>1, SMTT(30) DEF Tree, Hangs, Ranks
  <2> QED
    BY <2>2, <2>3 DEF Tree
<1>3. ASSUME NEW v \in Pages PROVE Walk(U, root, v) = Walk(T, root, v)
  <2>1. PICK f \in Ram : OnPath(rank, up, f, v) /\ (rank[f] = 4 \/ ~T[f][v[rank[f]]].present)
    BY WalkEnds
  <2>2. U[f] = T[f]
    BY <1>1, <2>1 DEF OnPath
  <2>3. Sound(T, root, rank, up) /\ Sound(U, root, rank, up)
    BY <1>2 DEF Sound
  <2> QED
    BY <2>1, <2>2, <2>3, WalksAgree
<1> QED
  BY <1>2, <1>3 DEF SameWalks

(* U is T but for one entry. *)
OneEntry(T, U, f, i, e) ==
    /\ T \in [Ram -> [Index -> Entries]]
    /\ U \in [Ram -> [Index -> Entries]]
    /\ U[f][i] = e
    /\ \A g \in Ram, j \in Index : ~(g = f /\ j = i) => U[g][j] = T[g][j]

(* SetSlot writes one entry. *)
LEMMA Written ==
    ASSUME NEW T \in [Ram -> [Index -> Entries]], NEW f \in Ram, NEW i \in Index, NEW e \in Entries
    PROVE  OneEntry(T, [T EXCEPT ![f][i] = e], f, i, e)
  BY DEF OneEntry

(* An entry with more rights. *)
LEMMA MoreRights ==
    ASSUME NEW s \in Entries, s.present, NEW r \in Flags,
           NEW e, e = [s EXCEPT !.flags = @ \cup r]
    PROVE  /\ e \in Entries /\ e.present
           /\ e.to = s.to /\ e.large = s.large /\ e.flags = s.flags \cup r
<1> DEFINE R == [present : {TRUE}, to : Ram \cup Device, flags : Flags, large : BOOLEAN]
<1>1. s \in R
  <2>1. s # Empty
    BY DEF Empty
  <2> QED
    BY <2>1 DEF Entries
<1>2. s.flags \cup r \in Flags
  BY <1>1 DEF Flags
<1>3. e \in R
  BY <1>1, <1>2
<1>4. e.to = s.to /\ e.large = s.large /\ e.flags = s.flags \cup r
  BY <1>1
<1>5. e.present = TRUE
  BY <1>3
<1> QED
  BY <1>3, <1>4, <1>5 DEF Entries

(* Adding an empty table below an entry that was not present makes it part *)
(* of the tree, and maps nothing.                                          *)
LEMMA Added ==
    ASSUME NEW T, NEW root, NEW rank, NEW up, Sound(T, root, rank, up),
           NEW f \in Ram, NEW i \in Index, rank[f] \in 1 .. 3,
           Callers(root, f, i), ~T[f][i].present,
           NEW t \in Ram, rank[t] = 0, T[t] = NoEntries,
           NEW r \in Flags, rank[f] > 1 => r \subseteq T[up[f][1]][up[f][2]].flags,
           NEW U, OneEntry(T, U, f, i, Entry(t, r)),
           NEW ranks \in Ranks, NEW ups \in Ups,
           ranks[t] = rank[f] + 1, ups[t] = <<f, i>>,
           \A g \in Ram \ {t} : ranks[g] = rank[g] /\ ups[g] = up[g]
    PROVE  /\ Sound(U, root, ranks, ups) /\ SameWalks(T, U, root)
           /\ \A v \in Pages : OnPath(rank, up, f, v) /\ v[rank[f]] = i => OnPath(ranks, ups, t, v)
<1> USE DEF Sound
<1>1. t # f
  OBVIOUS
<1>2. /\ Entry(t, r).present /\ ~Entry(t, r).large
      /\ Entry(t, r).to = t /\ Entry(t, r).flags = r
      /\ Entry(t, r) \in Entries
  BY DEF Entry, Entries
<1>3. /\ U \in [Ram -> [Index -> Entries]]
      /\ U[f][i] = Entry(t, r)
      /\ \A j \in Index \ {i} : U[f][j] = T[f][j]
      /\ \A g \in Ram \ {f} : U[g] = T[g]
  BY <1>2 DEF OneEntry
<1>4. /\ ranks[t] = rank[f] + 1 /\ ups[t] = <<f, i>>
      /\ \A g \in Ram \ {t} : ranks[g] = rank[g] /\ ups[g] = up[g]
  OBVIOUS
<1>5. \A g \in Ram : rank[g] > 1 =>
        up[g][1] \in Ram /\ up[g][2] \in Index /\ rank[up[g][1]] = rank[g] - 1 /\ up[g][1] # t
  <2>1. ASSUME NEW g \in Ram, rank[g] > 1
        PROVE  up[g][1] \in Ram /\ up[g][2] \in Index /\ rank[up[g][1]] = rank[g] - 1
    BY <2>1 DEF Tree, Hangs, Ups
  <2> QED
    BY <2>1 DEF Ranks
<1>6. Tree(U, root, ranks, ups)
  <2>1. rank[root] = 1
    BY DEF Tree
  <2>2. \A g \in Ram : ranks[g] = 1 <=> g = root
    BY <1>4, <2>1 DEF Tree
  <2>3. ASSUME NEW g \in Ram, NEW j \in Index, ranks[g] \in 1 .. 3, Callers(root, g, j),
               U[g][j].present
        PROVE  Leads(U, ranks, ups, g, j)
    <3>1. CASE g = t
      <4>1. U[g][j] = Empty
        BY <1>1, <1>3, <3>1 DEF NoEntries
      <4> QED
        BY <2>3, <4>1 DEF Empty
    <3>2. CASE g = f /\ j = i
      BY <1>1, <1>2, <1>3, <1>4, <3>2 DEF Leads
    <3>3. CASE g # t /\ ~(g = f /\ j = i)
      <4>1. U[g][j] = T[g][j] /\ ranks[g] = rank[g]
        BY <1>3, <1>4, <3>3
      <4>2. Leads(T, rank, up, g, j)
        BY <2>3, <4>1 DEF Tree
      <4>3. T[g][j].to # t
        BY <2>3, <4>1, <4>2 DEF Leads
      <4> QED
        BY <1>4, <4>1, <4>2, <4>3 DEF Leads
    <3> QED
      BY <3>1, <3>2, <3>3
  <2>4. ASSUME NEW g \in Ram, ranks[g] > 1
        PROVE  Hangs(U, root, ranks, ups, g)
    <3>1. CASE g = t
      <4>1. \A j \in Index : ~U[t][j].present
        BY <1>1, <1>3 DEF NoEntries, Empty
      <4> QED
        BY <1>1, <1>2, <1>3, <1>4, <3>1, <4>1 DEF Hangs, Ranks
    <3>2. CASE g # t
      <4> DEFINE h == up[g][1]
                 k == up[g][2]
      <4>1. /\ rank[g] > 1 /\ ranks[g] = rank[g] /\ ups[g] = up[g]
            /\ h \in Ram /\ k \in Index /\ h # t /\ ranks[h] = rank[g] - 1
        BY <1>4, <1>5, <2>4, <3>2
      <4>2. /\ Callers(root, h, k) /\ T[h][k].present /\ T[h][k].to = g
            /\ \A j \in Index : T[g][j].present => T[g][j].flags \subseteq T[h][k].flags
        BY <4>1 DEF Tree, Hangs
      <4>3. ~(h = f /\ k = i)
        BY <4>2
      <4>4. U[h][k] = T[h][k]
        BY <1>3, <4>1, <4>3
      <4>5. \A j \in Index : U[g][j].present => U[g][j].flags \subseteq T[h][k].flags
        BY <1>2, <1>3, <4>1, <4>2, SMTT(30)
      <4> HIDE DEF h, k
      <4>6. ups[g][1] = h /\ ups[g][2] = k
        BY <4>1 DEF h, k
      <4> QED
        BY <4>1, <4>2, <4>4, <4>5, <4>6 DEF Hangs
    <3> QED
      BY <3>1, <3>2
  <2> QED
    BY <2>2, <2>3, <2>4 DEF Tree
<1>7. \A g \in Ram, v \in Pages : OnPath(rank, up, g, v) => OnPath(ranks, ups, g, v) /\ ranks[g] = rank[g]
  BY <1>4, <1>5 DEF OnPath
<1>8. \A v \in Pages : OnPath(rank, up, f, v) /\ v[rank[f]] = i => OnPath(ranks, ups, t, v)
  BY <1>1, <1>4, <1>5 DEF OnPath
<1>9. ASSUME NEW v \in Pages PROVE Walk(U, root, v) = Walk(T, root, v)
  <2>1. PICK g \in Ram : OnPath(rank, up, g, v) /\ (rank[g] = 4 \/ ~T[g][v[rank[g]]].present)
    BY WalkEnds
  <2>2. \A k \in 1 .. 4 : v[k] \in Index
    BY VmmAssumption DEF Address
  <2>5. Sound(T, root, rank, up) /\ Sound(U, root, ranks, ups)
    BY <1>3, <1>6
  <2> HIDE DEF Sound
  <2>3. CASE g = f /\ v[rank[f]] = i
    <3>1. OnPath(ranks, ups, t, v)
      BY <1>8, <2>1, <2>3
    <3>2. ~U[t][v[ranks[t]]].present
      BY <1>1, <1>3, <1>4, <2>2 DEF NoEntries, Empty
    <3>3. Walk(U, root, v) = <<>>
      BY <2>5, <3>1, <3>2, WalkStops
    <3>4. Walk(T, root, v) = <<>>
      BY <2>1, <2>3, <2>5, WalkStops
    <3> QED
      BY <3>3, <3>4
  <2>4. CASE ~(g = f /\ v[rank[f]] = i)
    <3>1. OnPath(ranks, ups, g, v) /\ ranks[g] = rank[g] /\ rank[g] \in 1 .. 4
      BY <1>7, <2>1 DEF OnPath
    <3>2. U[g][v[rank[g]]] = T[g][v[rank[g]]]
      BY <1>3, <2>2, <2>4, <3>1
    <3> QED
      BY <2>1, <2>5, <3>1, <3>2, WalksAgree
  <2> QED
    BY <2>3, <2>4
<1> QED
  BY <1>3, <1>4, <1>6, <1>8, <1>9 DEF SameWalks

(* Giving more rights on the way, as the entry above already does, changes *)
(* no translation: a page's own entry grants no more than it did.          *)
LEMMA Upgraded ==
    ASSUME NEW T, NEW root, NEW rank, NEW up, Sound(T, root, rank, up),
           NEW f \in Ram, NEW i \in Index, rank[f] \in 1 .. 3,
           Callers(root, f, i), T[f][i].present,
           NEW r \in Flags, rank[f] > 1 => r \subseteq T[up[f][1]][up[f][2]].flags,
           NEW e, e.present, e.to = T[f][i].to, e.large = T[f][i].large,
           e.flags = T[f][i].flags \cup r,
           NEW U, OneEntry(T, U, f, i, e)
    PROVE  /\ Sound(U, root, rank, up) /\ SameWalks(T, U, root)
           /\ T[f][i].to \in Ram /\ rank[T[f][i].to] = rank[f] + 1 /\ up[T[f][i].to] = <<f, i>>
<1> USE DEF Sound
<1>1. e.present /\ e.to = T[f][i].to /\ e.large = T[f][i].large /\ e.flags = T[f][i].flags \cup r
  OBVIOUS
<1>2. /\ U \in [Ram -> [Index -> Entries]]
      /\ U[f][i] = e
      /\ \A g \in Ram, j \in Index : ~(g = f /\ j = i) => U[g][j] = T[g][j]
  BY DEF OneEntry
<1>3. T[f][i].to \in Ram /\ rank[T[f][i].to] = rank[f] + 1 /\ up[T[f][i].to] = <<f, i>>
  BY DEF Tree, Leads
<1>4. Tree(U, root, rank, up)
  <2>1. ASSUME NEW g \in Ram, NEW j \in Index, rank[g] \in 1 .. 3, Callers(root, g, j),
               U[g][j].present
        PROVE  Leads(U, rank, up, g, j)
    <3>1. T[g][j].present /\ U[g][j].to = T[g][j].to /\ U[g][j].large = T[g][j].large
      BY <1>1, <1>2, <2>1
    <3>2. Leads(T, rank, up, g, j)
      BY <2>1, <3>1 DEF Tree
    <3> QED
      BY <3>1, <3>2 DEF Leads
  <2>2. ASSUME NEW g \in Ram, rank[g] > 1
        PROVE  Hangs(U, root, rank, up, g)
    <3> DEFINE h == up[g][1]
               k == up[g][2]
    <3>1. /\ h \in Ram /\ k \in Index /\ rank[h] = rank[g] - 1
          /\ Callers(root, h, k) /\ T[h][k].present /\ T[h][k].to = g
          /\ \A j \in Index : T[g][j].present => T[g][j].flags \subseteq T[h][k].flags
      BY <2>2 DEF Tree, Hangs, Ups
    <3>2. g = f => r \subseteq T[h][k].flags
      BY <2>2
    <3> HIDE DEF h, k
    <3>3. U[h][k].present /\ U[h][k].to = g /\ T[h][k].flags \subseteq U[h][k].flags
      BY <1>1, <1>2, <3>1
    <3>4. \A j \in Index : U[g][j].present => U[g][j].flags \subseteq T[h][k].flags
      BY <1>1, <1>2, <3>1, <3>2
    <3>5. Callers(root, h, k) /\ \A j \in Index : U[g][j].present => U[g][j].flags \subseteq U[h][k].flags
      BY <3>1, <3>3, <3>4
    <3> QED
      BY <3>1, <3>3, <3>5 DEF Hangs, h, k
  <2> QED
    BY <2>1, <2>2 DEF Tree
<1>5. ASSUME NEW v \in Pages PROVE Walk(U, root, v) = Walk(T, root, v)
  <2>1. PICK g \in Ram : OnPath(rank, up, g, v) /\ (rank[g] = 4 \/ ~T[g][v[rank[g]]].present)
    BY WalkEnds
  <2>2. \A k \in 1 .. 4 : v[k] \in Index
    BY VmmAssumption DEF Address
  <2>3. Sound(T, root, rank, up) /\ Sound(U, root, rank, up)
    BY <1>2, <1>4
  <2> HIDE DEF Sound
  <2>4. U[g][v[rank[g]]] = T[g][v[rank[g]]]
    <3>1. rank[g] \in 1 .. 4
      BY <2>1 DEF OnPath
    <3>2. ~(g = f /\ v[rank[g]] = i)
      BY <2>1
    <3> QED
      BY <1>2, <2>2, <3>1, <3>2
  <2> QED
    BY <2>1, <2>3, <2>4, WalksAgree
<1> QED
  BY <1>2, <1>3, <1>4, <1>5 DEF SameWalks

(* Writing an entry of the last level changes the translation of its page, *)
(* to what is written, and of no other.                                    *)
LEMMA LeafWritten ==
    ASSUME NEW T, NEW root, NEW rank, NEW up, Sound(T, root, rank, up),
           NEW f \in Ram, NEW u \in Pages, rank[f] = 4, OnPath(rank, up, f, u),
           NEW e, e.present => e.flags \subseteq T[up[f][1]][up[f][2]].flags,
           NEW i, i = u[4], NEW U, OneEntry(T, U, f, i, e)
    PROVE  /\ Sound(U, root, rank, up)
           /\ Walk(U, root, u) = Found(e)
           /\ \A v \in Pages \ {u} : Walk(U, root, v) = Walk(T, root, v)
<1>0. \A v \in Pages : \A k \in 1 .. 4 : v[k] \in Index
  BY VmmAssumption DEF Address
<1>1. /\ T \in [Ram -> [Index -> Entries]] /\ U \in [Ram -> [Index -> Entries]]
      /\ U[f][i] = e /\ i \in Index
      /\ \A g \in Ram, j \in Index : ~(g = f /\ j = i) => U[g][j] = T[g][j]
  BY <1>0 DEF OneEntry
<1>2. Tree(U, root, rank, up)
  <2>1. ASSUME NEW g \in Ram, NEW j \in Index, rank[g] \in 1 .. 3, Callers(root, g, j),
               U[g][j].present
        PROVE  Leads(U, rank, up, g, j)
    <3>1. T[g][j] = U[g][j]
      BY <1>1, <2>1
    <3>2. Leads(T, rank, up, g, j)
      BY <2>1, <3>1 DEF Sound, Tree
    <3> QED
      BY <3>1, <3>2 DEF Leads
  <2>2. ASSUME NEW g \in Ram, rank[g] > 1
        PROVE  Hangs(U, root, rank, up, g)
    <3> DEFINE h == up[g][1]
               k == up[g][2]
    <3>1. /\ h \in Ram /\ k \in Index /\ rank[h] = rank[g] - 1
          /\ Callers(root, h, k) /\ T[h][k].present /\ T[h][k].to = g
          /\ \A j \in Index : T[g][j].present => T[g][j].flags \subseteq T[h][k].flags
      BY <2>2 DEF Sound, Tree, Hangs, Ups
    <3>2. g = f => (e.present => e.flags \subseteq T[h][k].flags)
      OBVIOUS
    <3>3. h # f
      <4>1. rank[g] \in 0 .. 4
        BY DEF Sound, Ranks
      <4> QED
        BY <3>1, <4>1
    <3> HIDE DEF h, k
    <3>4. U[h][k] = T[h][k]
      BY <1>1, <3>1, <3>3
    <3>5. \A j \in Index : U[g][j].present => U[g][j].flags \subseteq T[h][k].flags
      BY <1>1, <3>1, <3>2
    <3> QED
      BY <3>1, <3>4, <3>5 DEF Hangs, h, k
  <2> QED
    BY <2>1, <2>2 DEF Sound, Tree
<1>3. Sound(T, root, rank, up) /\ Sound(U, root, rank, up)
  BY <1>1, <1>2 DEF Sound
<1>4. Walk(U, root, u) = Found(e)
  BY <1>1, <1>3, WalkFinds
<1>5. ASSUME NEW v \in Pages \ {u} PROVE Walk(U, root, v) = Walk(T, root, v)
  <2>1. PICK g \in Ram : OnPath(rank, up, g, v) /\ (rank[g] = 4 \/ ~T[g][v[rank[g]]].present)
    BY WalkEnds DEF Sound
  <2>2. U[g][v[rank[g]]] = T[g][v[rank[g]]]
    <3>1. rank[g] \in 1 .. 4
      BY <2>1 DEF OnPath
    <3>2. ~(g = f /\ v[rank[g]] = i)
      BY <2>1, PathUnique DEF Sound
    <3> QED
      BY <1>0, <1>1, <3>1, <3>2
  <2> QED
    BY <1>3, <2>1, <2>2, WalksAgree
<1> QED
  BY <1>3, <1>4, <1>5

-----------------------------------------------------------------------------
(* The steps of a call *)

(* Where a call is: its entry is one of the callers'. *)
LEMMA Reached ==
    ASSUME Base, pc \in {"walk", "clear", "link", "upgrade", "leaf", "find"}
    PROVE  /\ cr3 = kernel_pml4 /\ kernel_pml4 \in Ram
           /\ \E rank \in Ranks, up \in Ups :
                 /\ Sound(table, kernel_pml4, rank, up) /\ Unused(rank) /\ Call(rank, up)
                 /\ page \in Pages /\ level \in 1 .. 4 /\ page[level] \in Index
                 /\ at \in Ram /\ at \notin DOMAIN BootTables
                 /\ rank[at] = level /\ OnPath(rank, up, at, page)
                 /\ Callers(kernel_pml4, at, page[level])
<1>1. cr3 = kernel_pml4 /\ kernel_pml4 \in Ram
  BY DEF Base, Moving, Shared, Booting
<1>2. PICK rank \in Ranks, up \in Ups :
        Sound(table, kernel_pml4, rank, up) /\ Unused(rank) /\ Call(rank, up)
  BY <1>1 DEF Base, Tables
<1>3. /\ page \in Pages /\ level \in 1 .. 4
      /\ at \in Ram /\ rank[at] = level /\ OnPath(rank, up, at, page)
  BY <1>2 DEF Call, Base, TypeOK
<1>4. page[level] \in Index
  BY <1>3, VmmAssumption DEF Address
<1>5. at \notin DOMAIN BootTables
  BY <1>2, <1>3 DEF Unused
<1>6. Callers(kernel_pml4, at, page[level])
  <2>1. at = kernel_pml4 => level = 1
    BY <1>2, <1>3 DEF Sound, Tree
  <2> QED
    BY <1>3, <2>1 DEF Callers, Tops
<1> QED
  BY <1>1, <1>2, <1>3, <1>4, <1>5, <1>6

(* The entry of the call is not one the boot loader made. *)
LEMMA SharedKept ==
    ASSUME Base, cr3 = kernel_pml4, NEW f \in Ram, f \notin DOMAIN BootTables,
           NEW i \in Index, Callers(kernel_pml4, f, i), NEW e, OneEntry(table, table', f, i, e),
           UNCHANGED <<cr3, kernel_pml4>>, free' \subseteq free
    PROVE  LoaderKept' /\ Shared'
<1>1. \A j \in Higher : BootTables[BootPml4][j].present => ~(kernel_pml4 = f /\ j = i)
  BY VmmAssumption DEF Callers, Tops
<1>2. DOMAIN BootTables \subseteq Ram /\ Higher \subseteq Index
  BY VmmAssumption
<1>3. /\ table \in [Ram -> [Index -> Entries]] /\ table' \in [Ram -> [Index -> Entries]]
      /\ \A g \in Ram, j \in Index : ~(g = f /\ j = i) => table'[g][j] = table[g][j]
  BY DEF OneEntry
<1>4. LoaderKept'
  <2>1. ASSUME NEW g \in DOMAIN BootTables PROVE table'[g] = table[g]
    <3>1. g \in Ram /\ g # f
      BY <1>2
    <3>2. \A j \in Index : table'[g][j] = table[g][j]
      BY <1>3, <3>1
    <3>3. table'[g] \in [Index -> Entries] /\ table[g] \in [Index -> Entries]
      BY <1>3, <3>1
    <3> QED
      BY <3>2, <3>3
  <2>2. LoaderKept
    BY DEF Base
  <2> QED
    BY <2>1, <2>2 DEF LoaderKept
<1>5. Shared'
  <2>1. /\ kernel_pml4 \in Ram \ (free \cup DOMAIN BootTables)
        /\ \A j \in Higher : BootTables[BootPml4][j].present =>
              table[kernel_pml4][j] = BootTables[BootPml4][j]
    BY DEF Base, Shared
  <2>2. \A j \in Higher : BootTables[BootPml4][j].present =>
              table'[kernel_pml4][j] = table[kernel_pml4][j]
    BY <1>1, <1>2, <1>3, <2>1
  <2> QED
    BY <2>1, <2>2 DEF Shared
<1> QED
  BY <1>4, <1>5

(* A table from the page allocator is nobody's. *)
LEMMA TakeTableStep ==
    ASSUME Base, TakeTable
    PROVE  Base' /\ UNCHANGED <<table, cr3, tlb>>
<1>1. PICK rank \in Ranks, up \in Ups :
        /\ Sound(table, kernel_pml4, rank, up) /\ Unused(rank) /\ Call(rank, up)
  BY Reached DEF TakeTable
<1>2. /\ UNCHANGED <<table, cr3, kernel_pml4, tlb, op, level, at>>
      /\ pc = "walk" /\ pc' = "clear" /\ ~Slot.present
      /\ new' = Min(free) /\ free' = free \ {Min(free)} /\ free # {}
  BY DEF TakeTable, Take, Goto, roots
<1>3. new' \in free /\ new' \in Ram
  BY <1>2, Least, VmmAssumption DEF Base, TypeOK
<1>4. TypeOK'
  BY <1>2, <1>3 DEF Base, TypeOK
<1>5. LoaderKept' /\ Moving' /\ Shared'
  BY <1>2 DEF Base, LoaderKept, Moving, Shared, Booting
<1>6. Unused(rank)' /\ Call(rank, up)'
  BY <1>1, <1>2, <1>3 DEF Unused, Call, Base, LoaderKept, page, frame, flags, intermediate_flags, Slot
<1>7. Tables'
  BY <1>1, <1>2, <1>6 DEF Tables
<1> QED
  BY <1>2, <1>4, <1>5, <1>7 DEF Base

(* Zeroing it disturbs no other. *)
LEMMA ClearTableStep ==
    ASSUME Base, ClearTable
    PROVE  /\ Base' /\ UNCHANGED <<cr3, tlb>>
           /\ \A v \in Pages : Walk(table', cr3', v) = Walk(table, cr3, v)
<1>1. PICK rank \in Ranks, up \in Ups :
        /\ Sound(table, kernel_pml4, rank, up) /\ Unused(rank) /\ Call(rank, up)
        /\ at \in Ram /\ rank[at] = level /\ level \in 1 .. 4
  BY Reached DEF ClearTable
<1>2. /\ UNCHANGED <<free, cr3, kernel_pml4, tlb, op, level, at, new>>
      /\ pc = "clear" /\ pc' = "link"
      /\ table' = [table EXCEPT ![new] = NoEntries]
      /\ cr3 = kernel_pml4
  BY Reached DEF ClearTable, Zero, Goto, roots, NoEntries
<1>3. new \in Ram \ (free \cup DOMAIN BootTables) /\ rank[new] = 0
  BY <1>1, <1>2 DEF Call
<1>4. /\ table' \in [Ram -> [Index -> Entries]] /\ table'[new] = NoEntries
      /\ \A f \in Ram \ {new} : table'[f] = table[f]
  BY <1>2, <1>3 DEF Base, TypeOK, NoEntries, Entries
<1>5. TypeOK'
  BY <1>2, <1>4 DEF Base, TypeOK
<1>6. Sound(table', kernel_pml4, rank, up) /\ SameWalks(table, table', kernel_pml4)
  BY <1>1, <1>3, <1>4, Untouched DEF Sound
<1>7. kernel_pml4 # new /\ at # new
  BY <1>1, <1>3 DEF Sound, Tree
<1>8. LoaderKept' /\ Moving' /\ Shared'
  BY <1>2, <1>3, <1>4, <1>7, VmmAssumption DEF Base, LoaderKept, Moving, Shared, Booting
<1>9. Unused(rank)' /\ Call(rank, up)'
  <2>1. level > 1 => up[at][1] \in Ram /\ up[at][1] # new
    BY <1>1, <1>3 DEF Sound, Tree, Hangs, Ups
  <2>2. level > 1 => table'[up[at][1]] = table[up[at][1]]
    BY <1>4, <2>1
  <2>3. table'[at] = table[at]
    BY <1>1, <1>4, <1>7
  <2> QED
    BY <1>1, <1>2, <1>4, <2>2, <2>3 DEF Unused, Call, page, frame, flags, intermediate_flags, Slot
<1>10. Tables'
  BY <1>2, <1>6, <1>9 DEF Tables
<1> QED
  BY <1>2, <1>5, <1>6, <1>8, <1>10 DEF Base, SameWalks

(* Linking it makes it part of the tree. *)
LEMMA LinkTableStep ==
    ASSUME Base, LinkTable
    PROVE  /\ Base' /\ UNCHANGED <<cr3, tlb>>
           /\ \A v \in Pages : Walk(table', cr3', v) = Walk(table, cr3, v)
<1>1. PICK rank \in Ranks, up \in Ups :
        /\ Sound(table, kernel_pml4, rank, up) /\ Unused(rank) /\ Call(rank, up)
        /\ page \in Pages /\ level \in 1 .. 4 /\ page[level] \in Index
        /\ at \in Ram /\ at \notin DOMAIN BootTables
        /\ rank[at] = level /\ OnPath(rank, up, at, page)
        /\ Callers(kernel_pml4, at, page[level])
  BY Reached DEF LinkTable
<1> DEFINE i == page[level]
           r == intermediate_flags
           e == Entry(new, r)
<1>2. /\ UNCHANGED <<free, cr3, kernel_pml4, tlb, op, new>>
      /\ pc = "link" /\ table' = [table EXCEPT ![at][i] = e]
      /\ at' = new /\ level' = level + 1 /\ pc' = IF level < 3 THEN "walk" ELSE "leaf"
  BY DEF LinkTable, SetSlot, Descend, roots
<1>3. /\ new \in Ram \ (free \cup DOMAIN BootTables) /\ rank[new] = 0
      /\ table[new] = NoEntries /\ ~table[at][i].present
      /\ level > 1 => r \subseteq table[up[at][1]][up[at][2]].flags
      /\ level # 4
      /\ frame \in Ram \cup Device /\ flags \in Flags /\ op = <<page, <<frame, flags>>>>
  BY <1>1, <1>2 DEF Call, Slot
<1>4. r \in Flags
  BY <1>3 DEF intermediate_flags, Flags
<1>5. e \in Entries /\ e.flags = r
  BY <1>3, <1>4 DEF Entry, Entries
<1>6. cr3 = kernel_pml4
  BY Reached DEF LinkTable
<1> HIDE DEF i, r, e
<1>7. OneEntry(table, table', at, i, e)
  BY <1>1, <1>2, <1>5, Written DEF Base, TypeOK, i
<1>8. PICK ranks \in Ranks, ups \in Ups :
        /\ ranks[new] = level + 1 /\ ups[new] = <<at, i>>
        /\ \A g \in Ram \ {new} : ranks[g] = rank[g] /\ ups[g] = up[g]
  <2> DEFINE ranks == [rank EXCEPT ![new] = level + 1]
             ups == [up EXCEPT ![new] = <<at, i>>]
  <2>1. /\ ranks \in Ranks /\ ups \in Ups
        /\ ranks[new] = level + 1 /\ ups[new] = <<at, i>>
        /\ \A g \in Ram \ {new} : ranks[g] = rank[g] /\ ups[g] = up[g]
    BY <1>1, <1>3 DEF Ranks, Ups, i
  <2> HIDE DEF ranks, ups
  <2> QED
    BY <2>1
<1>9. /\ Sound(table', kernel_pml4, ranks, ups) /\ SameWalks(table, table', kernel_pml4)
      /\ OnPath(ranks, ups, new, page)
  <2>1. rank[at] \in 1 .. 3 /\ Callers(kernel_pml4, at, i)
    BY <1>1, <1>3 DEF i
  <2>2. OneEntry(table, table', at, i, Entry(new, r))
    BY <1>7 DEF e
  <2>3. ranks[new] = rank[at] + 1 /\ (rank[at] > 1 => r \subseteq table[up[at][1]][up[at][2]].flags)
    BY <1>1, <1>3, <1>8
  <2>4. i \in Index /\ page[rank[at]] = i
    BY <1>1 DEF i
  <2> QED
    BY <1>1, <1>3, <1>4, <1>8, <2>1, <2>2, <2>3, <2>4, Added
<1>10. TypeOK'
  BY <1>1, <1>2, <1>3, <1>7 DEF Base, TypeOK, OneEntry
<1>11. LoaderKept' /\ Shared'
  BY <1>1, <1>2, <1>6, <1>7, SharedKept DEF i
<1>12. Moving'
  BY <1>2, <1>6 DEF Moving, Booting
<1>13. Unused(ranks)'
  BY <1>1, <1>2, <1>3, <1>8, VmmAssumption, ZenonT(30) DEF Unused, Base, TypeOK
<1>14. Call(ranks, ups)'
  <2>1. page' = page /\ frame' = frame /\ flags' = flags /\ intermediate_flags' = r
    BY <1>2 DEF page, frame, flags, intermediate_flags, r
  <2>2. table'[at][i].flags = r
    BY <1>5, <1>7 DEF OneEntry
  <2>3. table'[ups[new][1]][ups[new][2]].flags = r
    BY <1>8, <2>2
  <2> QED
    BY <1>1, <1>2, <1>3, <1>8, <1>9, <2>1, <2>3 DEF Call
<1>15. Tables'
  BY <1>2, <1>8, <1>9, <1>13, <1>14 DEF Tables
<1> QED
  BY <1>2, <1>6, <1>9, <1>10, <1>11, <1>12, <1>15 DEF Base, SameWalks

(* Rights added to an entry on the way change no translation. *)
LEMMA RightsAdded ==
    ASSUME Base, pc \in {"walk", "upgrade"}, Slot.present,
           NEW extra, extra \subseteq intermediate_flags,
           SetSlot([Slot EXCEPT !.flags = @ \cup extra]), UNCHANGED <<free, cr3, kernel_pml4>>
    PROVE  /\ cr3 = kernel_pml4
           /\ LoaderKept' /\ Shared' /\ table' \in [Ram -> [Index -> Entries]]
           /\ \A v \in Pages : Walk(table', cr3', v) = Walk(table, cr3, v)
           /\ \E rank \in Ranks, up \in Ups :
                 /\ Sound(table', kernel_pml4, rank, up) /\ Unused(rank) /\ Call(rank, up)
                 /\ level \in 1 .. 3 /\ page[level] \in Index
                 /\ table'[at][page[level]].present
                 /\ table'[at][page[level]].flags = Slot.flags \cup extra
                 /\ Slot.to \in Ram /\ rank[Slot.to] = level + 1
                 /\ up[Slot.to] = <<at, page[level]>> /\ OnPath(rank, up, Slot.to, page)
<1>1. PICK rank \in Ranks, up \in Ups :
        /\ Sound(table, kernel_pml4, rank, up) /\ Unused(rank) /\ Call(rank, up)
        /\ page \in Pages /\ level \in 1 .. 4 /\ page[level] \in Index
        /\ at \in Ram /\ at \notin DOMAIN BootTables
        /\ rank[at] = level /\ OnPath(rank, up, at, page)
        /\ Callers(kernel_pml4, at, page[level])
  BY Reached
<1> DEFINE i == page[level]
           s == table[at][i]
           e == [s EXCEPT !.flags = @ \cup extra]
<1>2. s.present /\ table' = [table EXCEPT ![at][i] = e] /\ s = Slot
  BY DEF SetSlot, Slot
<1>3. /\ level > 1 => extra \subseteq table[up[at][1]][up[at][2]].flags
      /\ level \in 1 .. 3 /\ flags \in Flags
  BY <1>1 DEF Call
<1>4. extra \in Flags
  BY <1>3 DEF intermediate_flags, Flags
<1>5. cr3 = kernel_pml4
  BY Reached
<1>6. s \in Entries
  BY <1>1 DEF Base, TypeOK
<1> HIDE DEF i, s
<1>7. e \in Entries /\ e.present /\ e.to = s.to /\ e.large = s.large /\ e.flags = s.flags \cup extra
  BY <1>2, <1>4, <1>6, MoreRights
<1> HIDE DEF e
<1>8. OneEntry(table, table', at, i, e)
  BY <1>1, <1>2, <1>7, Written DEF Base, TypeOK, i
<1>9. /\ Sound(table', kernel_pml4, rank, up) /\ SameWalks(table, table', kernel_pml4)
      /\ s.to \in Ram /\ rank[s.to] = level + 1 /\ up[s.to] = <<at, i>>
  <2>1. rank[at] \in 1 .. 3 /\ Callers(kernel_pml4, at, i)
    BY <1>1, <1>3 DEF i
  <2>2. rank[at] > 1 => extra \subseteq table[up[at][1]][up[at][2]].flags
    BY <1>1, <1>3
  <2>3. i \in Index
    BY <1>1 DEF i
  <2>4. table[at][i] = s /\ s.present
    BY <1>2 DEF s
  <2>5. Sound(table, kernel_pml4, rank, up) /\ at \in Ram /\ rank[at] = level
    BY <1>1
  <2>6. e.present /\ e.to = table[at][i].to /\ e.large = table[at][i].large
        /\ e.flags = table[at][i].flags \cup extra /\ table[at][i].present
    BY <1>7, <2>4
  <2>7. /\ Sound(table', kernel_pml4, rank, up) /\ SameWalks(table, table', kernel_pml4)
        /\ table[at][i].to \in Ram /\ rank[table[at][i].to] = rank[at] + 1
        /\ up[table[at][i].to] = <<at, i>>
    <3>1. Sound(table', kernel_pml4, rank, up)
      BY <1>4, <1>8, <2>1, <2>2, <2>3, <2>5, <2>6, Upgraded
    <3>2. SameWalks(table, table', kernel_pml4)
      BY <1>4, <1>8, <2>1, <2>2, <2>3, <2>5, <2>6, Upgraded
    <3>3. /\ table[at][i].to \in Ram /\ rank[table[at][i].to] = rank[at] + 1
          /\ up[table[at][i].to] = <<at, i>>
      BY <2>1, <2>3, <2>5, <2>6 DEF Sound, Tree, Leads
    <3> QED
      BY <3>1, <3>2, <3>3
  <2> QED
    BY <2>4, <2>5, <2>7
<1>10. LoaderKept' /\ Shared'
  BY <1>1, <1>5, <1>8, SharedKept DEF i
<1>11. OnPath(rank, up, s.to, page)
  BY <1>1, <1>3, <1>9 DEF OnPath, i
<1>12. table'[at][i] = e /\ table' \in [Ram -> [Index -> Entries]]
  BY <1>8 DEF OneEntry
<1>13. \A v \in Pages : Walk(table', cr3', v) = Walk(table, cr3, v)
  BY <1>5, <1>9 DEF SameWalks
<1>14. /\ table'[at][page[level]].present /\ table'[at][page[level]].flags = Slot.flags \cup extra
       /\ Slot.to \in Ram /\ rank[Slot.to] = level + 1 /\ up[Slot.to] = <<at, page[level]>>
       /\ OnPath(rank, up, Slot.to, page)
  BY <1>2, <1>7, <1>9, <1>11, <1>12 DEF i
<1> QED
  BY <1>1, <1>3, <1>5, <1>9, <1>10, <1>12, <1>13, <1>14

(* A table that is there is let to the user first. *)
LEMMA AllowUserStep ==
    ASSUME Base, AllowUser
    PROVE  /\ Base' /\ UNCHANGED <<cr3, tlb>>
           /\ \A v \in Pages : Walk(table', cr3', v) = Walk(table, cr3, v)
<1> DEFINE r == flags \cap {"USER"}
<1>1. /\ UNCHANGED <<free, cr3, kernel_pml4, tlb, op, level, at, new>>
      /\ pc = "walk" /\ pc' = "upgrade" /\ Slot.present
      /\ SetSlot([Slot EXCEPT !.flags = @ \cup r])
  BY DEF AllowUser, Goto, roots
<1>2. r \subseteq intermediate_flags
  BY DEF intermediate_flags
<1> HIDE DEF r
<1>3. /\ cr3 = kernel_pml4
      /\ LoaderKept' /\ Shared' /\ table' \in [Ram -> [Index -> Entries]]
      /\ \A v \in Pages : Walk(table', cr3', v) = Walk(table, cr3, v)
  BY <1>1, <1>2, RightsAdded
<1>4. PICK rank \in Ranks, up \in Ups :
        /\ Sound(table', kernel_pml4, rank, up) /\ Unused(rank) /\ Call(rank, up)
        /\ level \in 1 .. 3 /\ page[level] \in Index
        /\ table'[at][page[level]].present
        /\ table'[at][page[level]].flags = Slot.flags \cup r
  BY <1>1, <1>2, RightsAdded
<1>5. TypeOK'
  BY <1>1, <1>3 DEF Base, TypeOK
<1>6. Moving'
  BY <1>1, <1>3 DEF Moving, Booting
<1>7. Slot'.present /\ r \subseteq Slot'.flags
  BY <1>1, <1>4 DEF Slot, page
<1>8. page' = page /\ frame' = frame /\ flags' = flags /\ intermediate_flags' = intermediate_flags
  BY <1>1 DEF page, frame, flags, intermediate_flags
<1>9. level > 1 => intermediate_flags \subseteq table'[up[at][1]][up[at][2]].flags
  <2>1. level > 1 => intermediate_flags \subseteq table[up[at][1]][up[at][2]].flags
    BY <1>1, <1>4 DEF Call
  <2>2. level > 1 => table'[up[at][1]][up[at][2]] = table[up[at][1]][up[at][2]]
    <3>1. at \in Ram /\ rank[at] = level
      BY <1>1, <1>4 DEF Call
    <3>2. ASSUME level > 1 PROVE up[at][1] \in Ram /\ up[at][1] # at
      <4>1. Hangs(table', kernel_pml4, rank, up, at)
        BY <1>4, <3>1, <3>2 DEF Sound, Tree
      <4>2. rank[up[at][1]] = rank[at] - 1
        BY <4>1 DEF Hangs
      <4>3. up[at] \in Ram \X Index /\ rank[at] \in 0 .. 4
        BY <1>4, <3>1 DEF Ranks, Ups
      <4> QED
        BY <4>2, <4>3
    <3> QED
      BY <1>1, <3>1, <3>2 DEF SetSlot, Base, TypeOK
  <2> QED
    BY <2>1, <2>2
<1>10. Call(rank, up)'
  BY <1>1, <1>4, <1>7, <1>8, <1>9 DEF Call, r
<1>11. Tables'
  BY <1>1, <1>4, <1>10 DEF Tables, Unused
<1> QED
  BY <1>1, <1>3, <1>5, <1>6, <1>11 DEF Base

(* Then it may be written, and the walk goes down to it. *)
LEMMA UseTableStep ==
    ASSUME Base, UseTable
    PROVE  /\ Base' /\ UNCHANGED <<cr3, tlb>>
           /\ \A v \in Pages : Walk(table', cr3', v) = Walk(table, cr3, v)
<1>1. /\ UNCHANGED <<free, cr3, kernel_pml4, tlb, op, new>>
      /\ pc = "upgrade" /\ SetSlot([Slot EXCEPT !.flags = @ \cup {"RW"}])
      /\ at' = Slot.to /\ level' = level + 1 /\ pc' = IF level < 3 THEN "walk" ELSE "leaf"
  BY DEF UseTable, Descend, roots
<1>2. /\ Slot.present /\ flags \cap {"USER"} \subseteq Slot.flags
      /\ frame \in Ram \cup Device /\ flags \in Flags /\ op = <<page, <<frame, flags>>>>
  BY <1>1, Reached DEF Call
<1>3. {"RW"} \subseteq intermediate_flags
  BY DEF intermediate_flags
<1>4. /\ cr3 = kernel_pml4
      /\ LoaderKept' /\ Shared' /\ table' \in [Ram -> [Index -> Entries]]
      /\ \A v \in Pages : Walk(table', cr3', v) = Walk(table, cr3, v)
  BY <1>1, <1>2, <1>3, RightsAdded
<1>5. PICK rank \in Ranks, up \in Ups :
        /\ Sound(table', kernel_pml4, rank, up) /\ Unused(rank) /\ Call(rank, up)
        /\ level \in 1 .. 3 /\ page[level] \in Index
        /\ table'[at][page[level]].present
        /\ table'[at][page[level]].flags = Slot.flags \cup {"RW"}
        /\ Slot.to \in Ram /\ rank[Slot.to] = level + 1
        /\ up[Slot.to] = <<at, page[level]>> /\ OnPath(rank, up, Slot.to, page)
  BY <1>1, <1>2, <1>3, RightsAdded
<1>6. TypeOK'
  BY <1>1, <1>4, <1>5 DEF Base, TypeOK
<1>7. Moving'
  BY <1>1, <1>4 DEF Moving, Booting
<1>8. Call(rank, up)'
  <2>1. page' = page /\ frame' = frame /\ flags' = flags /\ intermediate_flags' = intermediate_flags
    BY <1>1 DEF page, frame, flags, intermediate_flags
  <2>2. page \in Pages
    BY <1>1, Reached
  <2>3. intermediate_flags \subseteq table'[up[at'][1]][up[at'][2]].flags
    BY <1>1, <1>2, <1>5 DEF intermediate_flags
  <2> QED
    BY <1>1, <1>2, <1>5, <2>1, <2>2, <2>3 DEF Call
<1>9. Tables'
  BY <1>1, <1>5, <1>8 DEF Tables, Unused
<1> QED
  BY <1>1, <1>4, <1>6, <1>7, <1>9 DEF Base

(* Setting the page's own entry maps it, and no other page. *)
LEMMA SetLeafStep ==
    ASSUME Base, SetLeaf
    PROVE  /\ Base' /\ UNCHANGED <<cr3, tlb>> /\ page \in Pages
           /\ op = <<page, <<frame, flags>>>>
           /\ Walk(table, cr3, page) = <<>> /\ Walk(table', cr3', page) = <<frame, flags>>
           /\ \A v \in Pages \ {page} : Walk(table', cr3', v) = Walk(table, cr3, v)
<1>1. PICK rank \in Ranks, up \in Ups :
        /\ Sound(table, kernel_pml4, rank, up) /\ Unused(rank) /\ Call(rank, up)
        /\ page \in Pages /\ level \in 1 .. 4 /\ page[level] \in Index
        /\ at \in Ram /\ at \notin DOMAIN BootTables
        /\ rank[at] = level /\ OnPath(rank, up, at, page)
        /\ Callers(kernel_pml4, at, page[level])
  BY Reached DEF SetLeaf
<1> DEFINE i == page[level]
           e == Entry(frame, flags)
<1>2. /\ UNCHANGED <<free, cr3, kernel_pml4, tlb, op, level, at, new>>
      /\ pc = "leaf" /\ pc' = "flush" /\ ~table[at][i].present
      /\ table' = [table EXCEPT ![at][i] = e]
  BY DEF SetLeaf, SetSlot, Goto, roots, Slot
<1>3. /\ level = 4 /\ intermediate_flags \subseteq table[up[at][1]][up[at][2]].flags
      /\ frame \in Ram \cup Device /\ flags \in Flags /\ op = <<page, <<frame, flags>>>>
  BY <1>1, <1>2 DEF Call
<1>4. flags \subseteq intermediate_flags
  BY <1>3 DEF intermediate_flags, Flags
<1>5. cr3 = kernel_pml4
  BY Reached DEF SetLeaf
<1>6. e \in Entries /\ e.flags = flags /\ Found(e) = <<frame, flags>>
  BY <1>3 DEF Entry, Entries, Found
<1>7. i = page[4]
  BY <1>3
<1> HIDE DEF i, e
<1>8. OneEntry(table, table', at, i, e)
  BY <1>1, <1>2, <1>6, Written DEF Base, TypeOK, i
<1>9. /\ Sound(table', kernel_pml4, rank, up)
      /\ Walk(table', kernel_pml4, page) = Found(e)
      /\ \A v \in Pages \ {page} : Walk(table', kernel_pml4, v) = Walk(table, kernel_pml4, v)
  <2>1. rank[at] = 4
    BY <1>1, <1>3
  <2>2. e.present => e.flags \subseteq table[up[at][1]][up[at][2]].flags
    BY <1>3, <1>4, <1>6
  <2>3. /\ Sound(table, kernel_pml4, rank, up)
        /\ page \in Pages /\ at \in Ram /\ OnPath(rank, up, at, page)
    BY <1>1
  <2> QED
    BY <1>7, <1>8, <2>1, <2>2, <2>3, LeafWritten
<1>10. TypeOK'
  BY <1>1, <1>2, <1>8 DEF Base, TypeOK, OneEntry
<1>11. LoaderKept' /\ Shared'
  BY <1>1, <1>2, <1>5, <1>8, SharedKept DEF i
<1>12. Moving'
  BY <1>2, <1>5 DEF Moving, Booting
<1>13. Call(rank, up)'
  BY <1>1, <1>2 DEF Call, page
<1>14. Tables'
  BY <1>1, <1>2, <1>9, <1>13 DEF Tables, Unused
<1>15. Walk(table, kernel_pml4, page) = <<>>
  BY <1>1, <1>2, WalkStops DEF i
<1> QED
  BY <1>1, <1>2, <1>3, <1>5, <1>6, <1>9, <1>10, <1>11, <1>12, <1>14, <1>15 DEF Base

(* Clearing it unmaps the page. *)
LEMMA ClearLeafStep ==
    ASSUME Base, ClearLeaf
    PROVE  /\ Base' /\ UNCHANGED <<cr3, tlb>> /\ page \in Pages /\ op = <<page, <<>>>>
           /\ Walk(table', cr3', page) = <<>>
           /\ \A v \in Pages \ {page} : Walk(table', cr3', v) = Walk(table, cr3, v)
<1>1. PICK rank \in Ranks, up \in Ups :
        /\ Sound(table, kernel_pml4, rank, up) /\ Unused(rank) /\ Call(rank, up)
        /\ page \in Pages /\ level \in 1 .. 4 /\ page[level] \in Index
        /\ at \in Ram /\ at \notin DOMAIN BootTables
        /\ rank[at] = level /\ OnPath(rank, up, at, page)
        /\ Callers(kernel_pml4, at, page[level])
  BY Reached DEF ClearLeaf
<1> DEFINE i == page[level]
<1>2. /\ UNCHANGED <<free, cr3, kernel_pml4, tlb, op, level, at, new>>
      /\ pc = "find" /\ pc' = "flush" /\ level = 4
      /\ table' = [table EXCEPT ![at][i] = Empty]
  BY DEF ClearLeaf, SetSlot, Goto, roots
<1>3. op = <<page, <<>>>>
  BY <1>1, <1>2 DEF Call
<1>4. cr3 = kernel_pml4
  BY Reached DEF ClearLeaf
<1>5. Empty \in Entries /\ ~Empty.present
  BY DEF Entries, Empty
<1>6. i = page[4]
  BY <1>2
<1> HIDE DEF i
<1>7. OneEntry(table, table', at, i, Empty)
  BY <1>1, <1>2, <1>5, Written DEF Base, TypeOK, i
<1>8. /\ Sound(table', kernel_pml4, rank, up)
      /\ Walk(table', kernel_pml4, page) = Found(Empty)
      /\ \A v \in Pages \ {page} : Walk(table', kernel_pml4, v) = Walk(table, kernel_pml4, v)
  <2>1. rank[at] = 4
    BY <1>1, <1>2
  <2> QED
    BY <1>1, <1>5, <1>6, <1>7, <2>1, LeafWritten
<1>9. TypeOK'
  BY <1>1, <1>2, <1>7 DEF Base, TypeOK, OneEntry
<1>10. LoaderKept' /\ Shared'
  BY <1>1, <1>2, <1>4, <1>7, SharedKept DEF i
<1>11. Moving'
  BY <1>2, <1>4 DEF Moving, Booting
<1>12. Call(rank, up)'
  BY <1>1, <1>2 DEF Call, page
<1>13. Tables'
  BY <1>1, <1>2, <1>8, <1>12 DEF Tables, Unused
<1>14. Found(Empty) = <<>>
  BY <1>5 DEF Found
<1> QED
  BY <1>1, <1>2, <1>3, <1>4, <1>8, <1>9, <1>10, <1>11, <1>13, <1>14 DEF Base

(* The walk of vmm_unmap. *)
LEMMA FindTableStep ==
    ASSUME Base, FindTable
    PROVE  Base' /\ UNCHANGED <<table, cr3, tlb>>
<1>1. PICK rank \in Ranks, up \in Ups :
        /\ Sound(table, kernel_pml4, rank, up) /\ Unused(rank) /\ Call(rank, up)
        /\ page \in Pages /\ level \in 1 .. 4 /\ page[level] \in Index
        /\ at \in Ram /\ at \notin DOMAIN BootTables
        /\ rank[at] = level /\ OnPath(rank, up, at, page)
        /\ Callers(kernel_pml4, at, page[level])
  BY Reached DEF FindTable
<1> DEFINE i == page[level]
           t == table[at][i].to
<1>2. /\ UNCHANGED <<table, free, cr3, kernel_pml4, tlb, pc, op, new>>
      /\ pc = "find" /\ level < 4 /\ table[at][i].present
      /\ at' = t /\ level' = level + 1
  BY DEF FindTable, roots, Slot
<1>3. t \in Ram /\ rank[t] = level + 1 /\ up[t] = <<at, i>>
  <2>1. Leads(table, rank, up, at, i)
    BY <1>1, <1>2 DEF Sound, Tree
  <2> QED
    BY <1>1, <2>1 DEF Leads
<1>4. OnPath(rank, up, t, page)
  BY <1>1, <1>2, <1>3 DEF OnPath
<1> HIDE DEF t
<1>5. TypeOK'
  BY <1>1, <1>2, <1>3 DEF Base, TypeOK
<1>6. LoaderKept' /\ Shared' /\ Moving'
  BY <1>2 DEF Base, LoaderKept, Shared, Moving, Booting
<1>7. Call(rank, up)'
  BY <1>1, <1>2, <1>3, <1>4 DEF Call, page
<1>8. Tables'
  BY <1>1, <1>2, <1>7 DEF Tables, Unused
<1> QED
  BY <1>2, <1>5, <1>6, <1>8 DEF Base

(* vmm_unmap gives up where the page is not mapped. *)
LEMMA NotMappedStep ==
    ASSUME Base, NotMapped
    PROVE  /\ Base' /\ UNCHANGED <<table, cr3, tlb>> /\ page \in Pages /\ op = <<page, <<>>>>
           /\ Walk(table, cr3, page) = <<>>
<1>1. PICK rank \in Ranks, up \in Ups :
        /\ Sound(table, kernel_pml4, rank, up) /\ Unused(rank) /\ Call(rank, up)
        /\ page \in Pages /\ level \in 1 .. 4 /\ page[level] \in Index
        /\ at \in Ram
        /\ rank[at] = level /\ OnPath(rank, up, at, page)
  BY Reached DEF NotMapped
<1>2. /\ UNCHANGED <<table, free, cr3, kernel_pml4, tlb>>
      /\ pc = "find" /\ ~table[at][page[level]].present
      /\ pc' = "idle" /\ op' = <<>> /\ level' = 1 /\ at' = NULL /\ new' = NULL
  BY DEF NotMapped, Return, roots, Slot
<1>3. Walk(table, kernel_pml4, page) = <<>>
  BY <1>1, <1>2, WalkStops
<1>4. cr3 = kernel_pml4
  BY Reached DEF NotMapped
<1>5. TypeOK'
  BY <1>2 DEF Base, TypeOK
<1>6. LoaderKept' /\ Shared' /\ Moving'
  BY <1>2, <1>4 DEF Base, LoaderKept, Shared, Moving, Booting
<1>7. Call(rank, up)'
  BY <1>2 DEF Call
<1>8. Tables'
  BY <1>1, <1>2, <1>7 DEF Tables, Unused
<1> QED
  BY <1>1, <1>2, <1>3, <1>4, <1>5, <1>6, <1>8 DEF Base, Call

(* A call starts at the top-level table. *)
LEMMA CallStep ==
    ASSUME Base, NEW v \in Pages,
           UnmapCall(v) \/ \E r \in Requests : MapCall(v, r)
    PROVE  /\ Base' /\ UNCHANGED <<table, cr3, tlb>>
           /\ pc = "idle" /\ pc' \in {"walk", "find"}
           /\ op' = <<v, <<>>>> \/ \E f \in Ram \cup Device, r \in Flags : op' = <<v, <<f, r>>>>
<1>1. PICK p \in {"walk", "find"}, target \in {<<>>} \cup ((Ram \cup Device) \X Flags) :
        /\ Start(p, v, target) /\ free' \subseteq free
        /\ p = "walk" => target \in (Ram \cup Device) \X Flags
        /\ p = "find" => target = <<>>
  <2>1. CASE UnmapCall(v)
    BY <2>1 DEF UnmapCall
  <2>2. CASE \E r \in Requests : MapCall(v, r)
    <3>1. PICK r \in Requests : MapCall(v, r)
      BY <2>2
    <3>2. r \in Flags
      BY VmmAssumption
    <3>3. CASE \E f \in Device : Start("walk", v, <<f, r>>) /\ UNCHANGED free
      BY <3>2, <3>3
    <3>4. CASE free # {} /\ free' = free \ {Min(free)} /\ Start("walk", v, <<Min(free), r>>)
      <4>1. Min(free) \in Ram
        BY <3>4, Least, VmmAssumption DEF Base, TypeOK
      <4> QED
        BY <3>2, <3>4, <4>1
    <3> QED
      BY <3>1, <3>3, <3>4 DEF MapCall
  <2> QED
    BY <2>1, <2>2
<1>2. /\ UNCHANGED <<table, cr3, kernel_pml4, tlb, new>>
      /\ pc = "idle" /\ pc' = p /\ op' = <<v, target>> /\ level' = 1 /\ at' = kernel_pml4
  BY <1>1 DEF Start, roots
<1>3. cr3 = kernel_pml4 /\ kernel_pml4 \in Ram
  BY <1>2 DEF Base, Moving, Shared, Booting
<1>4. PICK rank \in Ranks, up \in Ups :
        /\ Sound(table, kernel_pml4, rank, up) /\ Unused(rank)
  BY <1>3 DEF Base, Tables
<1>5. TypeOK'
  BY <1>1, <1>2, <1>3 DEF Base, TypeOK
<1>6. LoaderKept' /\ Shared' /\ Moving'
  BY <1>1, <1>2, <1>3 DEF Base, LoaderKept, Shared, Moving, Booting
<1>7. Call(rank, up)'
  <2>1. page' = v /\ op' = <<v, target>>
    BY <1>2 DEF page
  <2>2. p = "walk" => frame' \in Ram \cup Device /\ flags' \in Flags /\ target = <<frame', flags'>>
    BY <1>1, <1>2 DEF frame, flags
  <2>3. rank[kernel_pml4] = 1
    BY <1>3, <1>4 DEF Sound, Tree
  <2>4. OnPath(rank, up, kernel_pml4, v)
    BY <2>3 DEF OnPath
  <2> QED
    BY <1>1, <1>2, <1>3, <2>1, <2>2, <2>3, <2>4 DEF Call
<1>8. Unused(rank)'
  BY <1>1, <1>4 DEF Unused
<1>9. Tables'
  BY <1>2, <1>4, <1>7, <1>8 DEF Tables
<1> QED
  BY <1>1, <1>2, <1>5, <1>6, <1>9 DEF Base

(* invlpg ends a call that changed a page. *)
LEMMA TlbFlushStep ==
    ASSUME Base, TlbFlush
    PROVE  Base' /\ UNCHANGED <<table, cr3>> /\ pc' = "idle" /\ op' = <<>>
<1>1. /\ UNCHANGED <<table, free, cr3, kernel_pml4>> /\ pc = "flush"
      /\ pc' = "idle" /\ op' = <<>> /\ level' = 1 /\ at' = NULL /\ new' = NULL
      /\ tlb' \subseteq tlb
  BY DEF TlbFlush, Return, roots
<1>2. cr3 = kernel_pml4
  BY <1>1 DEF Base, Moving, Booting
<1>3. PICK rank \in Ranks, up \in Ups :
        /\ Sound(table, kernel_pml4, rank, up) /\ Unused(rank)
  BY <1>2 DEF Base, Tables
<1>4. TypeOK'
  BY <1>1 DEF Base, TypeOK
<1>5. LoaderKept' /\ Shared' /\ Moving'
  BY <1>1, <1>2 DEF Base, LoaderKept, Shared, Moving, Booting
<1>6. Tables'
  BY <1>1, <1>3 DEF Tables, Unused, Call
<1> QED
  BY <1>1, <1>4, <1>5, <1>6 DEF Base

(* A panic leaves everything as it is. *)
LEMMA PanicStep ==
    ASSUME Base, OutOfPages \/ DoubleMapping \/ NoPml4
    PROVE  /\ Base' /\ UNCHANGED <<table, cr3, tlb, op>> /\ pc' = "panic"
           /\ pc \in {"boot", "walk", "leaf"} /\ (pc = "boot" => op = <<>>)
<1>1. /\ UNCHANGED <<table, free, cr3, kernel_pml4, tlb, op, level, at, new>>
      /\ pc \in {"boot", "walk", "leaf"} /\ pc' = "panic"
  BY DEF OutOfPages, DoubleMapping, NoPml4, Panic, Goto, roots
<1>2. TypeOK'
  BY <1>1 DEF Base, TypeOK
<1>3. LoaderKept' /\ Shared' /\ Moving'
  BY <1>1 DEF Base, LoaderKept, Shared, Moving, Booting
<1>4. Tables'
  <2>1. ASSUME cr3 = kernel_pml4 PROVE Tables'
    <3>1. PICK rank \in Ranks, up \in Ups :
            /\ Sound(table, kernel_pml4, rank, up) /\ Unused(rank)
      BY <2>1 DEF Base, Tables
    <3> QED
      BY <1>1, <3>1 DEF Tables, Unused, Call
  <2> QED
    BY <1>1, <2>1 DEF Tables
<1> QED
  BY <1>1, <1>2, <1>3, <1>4 DEF Base, Moving, Booting

(* The TLB may take in what the tables say. *)
LEMMA TlbFillStep ==
    ASSUME Base, NEW v \in Pages \cup BootPages, TlbFill(v)
    PROVE  Base' /\ UNCHANGED <<table, cr3, call>> /\ tlb' = tlb \cup {<<v, Translate(v)>>}
<1>1. /\ UNCHANGED <<table, free, cr3, kernel_pml4, pc, op, level, at, new>>
      /\ Walk(table, cr3, v) # <<>> /\ tlb' = tlb \cup {<<v, Walk(table, cr3, v)>>}
  BY DEF TlbFill, roots, call, Translate
<1>2. Walk(table, cr3, v) \in Nat \X Flags
  BY <1>1, WalkType, VmmAssumption DEF Base, TypeOK
<1>3. TypeOK'
  BY <1>1, <1>2 DEF Base, TypeOK
<1>4. LoaderKept' /\ Shared' /\ Moving' /\ Tables'
  BY <1>1 DEF Base, LoaderKept, Shared, Moving, Booting, Tables, Unused, Call, Slot,
              page, frame, flags, intermediate_flags
<1> QED
  BY <1>1, <1>3, <1>4 DEF Base, call, Translate

-----------------------------------------------------------------------------
(* The steps of vmm_init *)

(* A page whose top-level entry is not present is not mapped. *)
LEMMA NotUnderTop ==
    ASSUME NEW T, NEW root, NEW v, ~T[root][v[1]].present
    PROVE  Walk(T, root, v) = <<>>
  BY DEF Walk, Below, Empty

(* Under the boot loader's top-level table no page of the callers is. *)
LEMMA NotYet ==
    LoaderKept /\ cr3 = BootPml4 => \A v \in Pages : Walk(table, cr3, v) = <<>>
<1> SUFFICES ASSUME LoaderKept, cr3 = BootPml4, NEW v \in Pages
             PROVE  Walk(table, cr3, v) = <<>>
  OBVIOUS
<1>1. ~table[cr3][v[1]].present
  BY VmmAssumption DEF LoaderKept
<1> QED
  BY <1>1, NotUnderTop

(* The new top-level table is not one of the boot loader's. *)
LEMMA AllocPml4Step ==
    ASSUME Base, AllocPml4
    PROVE  Base' /\ UNCHANGED <<table, cr3, tlb, op>> /\ cr3 # kernel_pml4 /\ pc' = "zero"
<1>1. /\ UNCHANGED <<table, cr3, kernel_pml4, tlb, op, level, at>>
      /\ pc = "boot" /\ pc' = "zero"
      /\ free # {} /\ new' = Min(free) /\ free' = free \ {Min(free)}
  BY DEF AllocPml4, Take, Goto, roots
<1>2. new' \in free /\ new' \in Ram
  BY <1>1, Least, VmmAssumption DEF Base, TypeOK
<1>3. cr3 = BootPml4 /\ kernel_pml4 = NULL /\ cr3 # kernel_pml4
  BY <1>1, VmmAssumption DEF Base, Moving, Booting
<1>4. TypeOK'
  BY <1>1, <1>2 DEF Base, TypeOK
<1>5. LoaderKept' /\ Shared' /\ Moving' /\ Tables'
  BY <1>1, <1>2, <1>3 DEF Base, LoaderKept, Shared, Moving, Booting, Tables
<1> QED
  BY <1>1, <1>3, <1>4, <1>5 DEF Base

(* It is zeroed. *)
LEMMA ZeroPml4Step ==
    ASSUME Base, ZeroPml4
    PROVE  Base' /\ UNCHANGED <<cr3, tlb, op>> /\ cr3 = BootPml4 /\ LoaderKept'
           /\ pc = "zero" /\ pc' = "copy" /\ cr3' # kernel_pml4'
<1>1. /\ UNCHANGED <<free, cr3, tlb, op, level, at, new>> /\ kernel_pml4' = new
      /\ pc = "zero" /\ pc' = "copy" /\ table' = [table EXCEPT ![new] = NoEntries]
  BY DEF ZeroPml4, Zero, Goto, NoEntries
<1>2. /\ new \in Ram \ (free \cup DOMAIN BootTables) /\ cr3 = BootPml4
      /\ BootPml4 \in DOMAIN BootTables /\ DOMAIN BootTables \subseteq Ram /\ op = <<>>
  BY <1>1, VmmAssumption DEF Base, Moving, Booting
<1>3. /\ table' \in [Ram -> [Index -> Entries]] /\ table'[new] = NoEntries
      /\ \A f \in Ram \ {new} : table'[f] = table[f]
  BY <1>1, <1>2 DEF Base, TypeOK, NoEntries, Entries
<1>4. TypeOK'
  BY <1>1, <1>2, <1>3 DEF Base, TypeOK
<1>5. LoaderKept'
  BY <1>1, <1>2, <1>3 DEF Base, LoaderKept
<1>6. Shared' /\ Moving' /\ Tables'
  BY <1>1, <1>2, <1>3 DEF Shared, Moving, Booting, Tables
<1> QED
  BY <1>1, <1>2, <1>4, <1>5, <1>6 DEF Base

(* It shares the higher half, where callers map no page yet. *)
LEMMA CopyHigherStep ==
    ASSUME Base, CopyHigher
    PROVE  Base' /\ UNCHANGED <<cr3, tlb, op>> /\ cr3 = BootPml4
           /\ pc = "copy" /\ pc' = "switch" /\ cr3 # kernel_pml4
<1> DEFINE half == [i \in Index |-> IF i \in Higher THEN BootTables[BootPml4][i] ELSE Empty]
<1>1. /\ UNCHANGED <<free, cr3, kernel_pml4, tlb, op, level, at, new>>
      /\ pc = "copy" /\ pc' = "switch"
      /\ table' = [table EXCEPT ![new] =
            [i \in Index |-> IF i \in Higher THEN table[cr3][i] ELSE table[new][i]]]
  BY DEF CopyHigher, Goto, roots, Base, TypeOK
<1>2. /\ new \in Ram \ (free \cup DOMAIN BootTables) /\ cr3 = BootPml4 /\ kernel_pml4 = new
      /\ BootPml4 \in DOMAIN BootTables /\ DOMAIN BootTables \subseteq Ram /\ op = <<>>
      /\ table[new] = NoEntries
  BY <1>1, VmmAssumption DEF Base, Moving, Booting
<1>3. table[cr3] = BootTables[BootPml4]
  BY <1>2 DEF Base, LoaderKept
<1>4. [i \in Index |-> IF i \in Higher THEN table[cr3][i] ELSE table[new][i]] = half
  BY <1>2, <1>3 DEF NoEntries
<1>5. half \in [Index -> Entries]
  <2>1. BootTables[BootPml4] \in [Index -> Entries] /\ Higher \subseteq Index
    BY VmmAssumption
  <2>2. Empty \in Entries
    BY DEF Entries
  <2> QED
    BY <2>1, <2>2
<1> HIDE DEF half
<1>6. /\ table' \in [Ram -> [Index -> Entries]] /\ table'[new] = half
      /\ \A f \in Ram \ {new} : table'[f] = table[f]
  BY <1>1, <1>2, <1>4, <1>5 DEF Base, TypeOK
<1>7. TypeOK'
  BY <1>1, <1>6 DEF Base, TypeOK
<1>8. LoaderKept'
  BY <1>1, <1>2, <1>6 DEF Base, LoaderKept
<1>9. Shared' /\ Moving' /\ Tables'
  BY <1>1, <1>2, <1>6 DEF Shared, Moving, Booting, Tables, half
<1> QED
  BY <1>1, <1>2, <1>7, <1>8, <1>9 DEF Base

(* Moving to it keeps the higher half, and starts the callers' tree.       *)
LEMMA SwitchCr3Step ==
    ASSUME Base, SwitchCr3
    PROVE  /\ Base' /\ UNCHANGED table /\ op = <<>> /\ op' = <<>> /\ tlb' = {}
           /\ pc = "switch" /\ pc' = "idle" /\ cr3 = BootPml4
           /\ \A v \in Pages : Walk(table', cr3', v) = <<>>
<1>1. /\ UNCHANGED <<table, free, kernel_pml4>> /\ cr3' = new /\ tlb' = {}
      /\ pc = "switch" /\ pc' = "idle" /\ op' = <<>> /\ level' = 1 /\ at' = NULL /\ new' = NULL
  BY DEF SwitchCr3, Return
<1>2. /\ new \in Ram \ (free \cup DOMAIN BootTables) /\ cr3 = BootPml4 /\ kernel_pml4 = new
      /\ op = <<>>
      /\ table[new] = [i \in Index |-> IF i \in Higher THEN BootTables[BootPml4][i] ELSE Empty]
  BY <1>1 DEF Base, Moving, Booting
<1>3. Higher \subseteq Index /\ Index # {}
  BY VmmAssumption
<1>4. \A i \in Higher : table[new][i] = BootTables[BootPml4][i]
  BY <1>2, <1>3
<1>5. \A i \in Tops : ~table[new][i].present
  BY <1>4, VmmAssumption DEF Tops
<1>6. TypeOK'
  BY <1>1, <1>2 DEF Base, TypeOK
<1>7. LoaderKept' /\ Shared' /\ Moving'
  BY <1>1, <1>2, <1>4 DEF Base, LoaderKept, Shared, Moving, Booting
<1>8. Tables'
  <2>1. PICK j \in Index : TRUE
    BY <1>3
  <2>2. PICK root \in Ram : root = new
    BY <1>2
  <2>3. PICK rank \in Ranks, up \in Ups : \A f \in Ram : rank[f] = IF f = root THEN 1 ELSE 0
    <3> DEFINE rank == [f \in Ram |-> IF f = root THEN 1 ELSE 0]
               up == [f \in Ram |-> <<f, j>>]
    <3>1. rank \in Ranks /\ up \in Ups
      BY DEF Ranks, Ups
    <3> QED
      BY <3>1
  <2>4. Sound(table', kernel_pml4', rank, up)
    <3>1. ASSUME NEW f \in Ram, NEW i \in Index, rank[f] \in 1 .. 3, Callers(root, f, i)
          PROVE  ~table[f][i].present
      BY <1>5, <2>2, <2>3, <3>1 DEF Callers
    <3>2. Tree(table, root, rank, up)
      BY <2>3, <3>1 DEF Tree
    <3> QED
      BY <1>1, <1>2, <2>2, <3>2 DEF Sound, Base, TypeOK
  <2>5. Unused(rank)'
    BY <1>1, <1>2, <2>2, <2>3, VmmAssumption DEF Unused, Base, TypeOK
  <2>6. Call(rank, up)'
    BY <1>1 DEF Call
  <2> QED
    BY <2>4, <2>5, <2>6 DEF Tables
<1>9. \A v \in Pages : Walk(table', cr3', v) = <<>>
  BY <1>1, <1>5, NotUnderTop DEF Tops
<1> QED
  BY <1>1, <1>2, <1>6, <1>7, <1>8, <1>9 DEF Base

-----------------------------------------------------------------------------
(* The properties *)

(* A step keeps the tables in order. *)
LEMMA BaseKept == Base /\ [Next]_vars => Base'
<1> SUFFICES ASSUME Base, [Next]_vars PROVE Base'
  OBVIOUS
<1>1. CASE AllocPml4 \/ NoPml4 \/ ZeroPml4 \/ CopyHigher \/ SwitchCr3
  BY <1>1, AllocPml4Step, PanicStep, ZeroPml4Step, CopyHigherStep, SwitchCr3Step
<1>2. CASE \E v \in Pages : UnmapCall(v) \/ \E r \in Requests : MapCall(v, r)
  BY <1>2, CallStep
<1>3. CASE Map
  BY <1>3, TakeTableStep, PanicStep, ClearTableStep, LinkTableStep,
     AllowUserStep, UseTableStep, SetLeafStep, TlbFlushStep DEF Map
<1>4. CASE FindTable \/ NotMapped \/ ClearLeaf
  BY <1>4, FindTableStep, NotMappedStep, ClearLeafStep
<1>5. CASE \E v \in Pages \cup BootPages : TlbFill(v)
  BY <1>5, TlbFillStep
<1>6. CASE UNCHANGED vars
  BY <1>6 DEF Base, TypeOK, LoaderKept, Moving, Shared, Booting, Tables, Unused, Call, Slot,
              page, frame, flags, intermediate_flags, vars, roots, call
<1> QED
  BY <1>1, <1>2, <1>3, <1>4, <1>5, <1>6 DEF Next

(* What the boot loader mapped in the higher half is where it was. *)
LEMMA HigherHalf == Base => HigherHalfKept
<1> SUFFICES ASSUME Base, NEW v \in BootPages
             PROVE  Walk(table, cr3, v) = Walk(BootTables, BootPml4, v)
  BY DEF HigherHalfKept, Translate
<1>1. v[1] \in Higher
  BY VmmAssumption
<1>2. BootTables[BootPml4][v[1]].present
  BY BootAssumption, NotUnderTop
<1>3. cr3 = BootPml4 => table[cr3] = BootTables[BootPml4]
  BY VmmAssumption DEF Base, LoaderKept
<1>4. cr3 = kernel_pml4 => table[cr3][v[1]] = BootTables[BootPml4][v[1]]
  BY <1>1, <1>2 DEF Base, Shared
<1>5. table[cr3][v[1]] = BootTables[BootPml4][v[1]]
  BY <1>3, <1>4 DEF Base, Moving
<1> QED
  BY <1>5, LoaderWalk DEF Base, TypeOK, LoaderKept

(* A step that keeps the translations of the callers' pages keeps all. *)
LEMMA AllTranslations ==
    ASSUME Base, Base', NEW S, \A v \in Pages \ S : Walk(table', cr3', v) = Walk(table, cr3, v)
    PROVE  \A v \in (Pages \cup BootPages) \ S : Walk(table', cr3', v) = Walk(table, cr3, v)
<1>1. HigherHalfKept /\ HigherHalfKept'
  <2>1. (Base => HigherHalfKept)'
    BY HigherHalf, PTL
  <2> QED
    BY <2>1, HigherHalf
<1> QED
  BY <1>1 DEF HigherHalfKept, Translate

(* What a step does to the translations, and when. *)
LEMMA StepTranslations ==
    ASSUME Base, [Next]_vars
    PROVE  \/ /\ pc # "flush" /\ UNCHANGED tlb
              /\ \A v \in Pages : Walk(table', cr3', v) = Walk(table, cr3, v)
           \/ /\ pc # "flush" /\ pc' = "flush" /\ page' = page /\ UNCHANGED tlb
              /\ \A v \in Pages \ {page} : Walk(table', cr3', v) = Walk(table, cr3, v)
           \/ TlbFlush /\ UNCHANGED <<table, cr3>>
           \/ tlb' = {}
           \/ UNCHANGED <<table, cr3, pc, op>>
              /\ tlb' \subseteq tlb \cup {<<v, Translate(v)>> : v \in Pages \cup BootPages}
<1>1. CASE AllocPml4 \/ NoPml4 \/ ZeroPml4 \/ CopyHigher \/ SwitchCr3
  <2>1. CASE AllocPml4
    BY <2>1, AllocPml4Step DEF AllocPml4
  <2>2. CASE NoPml4
    BY <2>2, PanicStep DEF NoPml4
  <2>3. CASE ZeroPml4 \/ CopyHigher
    <3>1. /\ Base' /\ UNCHANGED <<cr3, tlb>> /\ cr3 = BootPml4
          /\ pc \in {"zero", "copy"}
      BY <2>3, ZeroPml4Step, CopyHigherStep
    <3>2. (LoaderKept /\ cr3 = BootPml4 => \A v \in Pages : Walk(table, cr3, v) = <<>>)'
      BY NotYet, PTL
    <3> QED
      BY <3>1, <3>2, NotYet DEF Base
  <2>4. CASE SwitchCr3
    BY <2>4, SwitchCr3Step
  <2> QED
    BY <1>1, <2>1, <2>2, <2>3, <2>4
<1>2. CASE \E v \in Pages : UnmapCall(v) \/ \E r \in Requests : MapCall(v, r)
  BY <1>2, CallStep
<1>3. CASE TakeTable \/ OutOfPages \/ DoubleMapping
  BY <1>3, TakeTableStep, PanicStep DEF TakeTable
<1>4. CASE ClearTable \/ LinkTable \/ AllowUser \/ UseTable
  BY <1>4, ClearTableStep, LinkTableStep, AllowUserStep, UseTableStep
     DEF ClearTable, LinkTable, AllowUser, UseTable
<1>5. CASE SetLeaf \/ ClearLeaf
  <2>1. pc # "flush" /\ pc' = "flush" /\ op' = op
    BY <1>5 DEF SetLeaf, ClearLeaf, Goto
  <2>2. page' = page
    BY <2>1 DEF page
  <2> QED
    BY <1>5, <2>1, <2>2, SetLeafStep, ClearLeafStep
<1>6. CASE TlbFlush
  BY <1>6, TlbFlushStep
<1>7. CASE FindTable \/ NotMapped
  BY <1>7, FindTableStep, NotMappedStep DEF FindTable, NotMapped
<1>8. CASE \E v \in Pages \cup BootPages : TlbFill(v)
  BY <1>8, TlbFillStep DEF call
<1>9. CASE UNCHANGED vars
  BY <1>9 DEF vars, roots, call
<1> QED
  BY <1>1, <1>2, <1>3, <1>4, <1>5, <1>6, <1>7, <1>8, <1>9 DEF Next, Map

(* invlpg comes before the call returns. *)
LEMMA TlbKept == Inv /\ [Next]_vars => TlbCoherent'
<1> SUFFICES ASSUME Base, TlbCoherent, [Next]_vars, NEW e \in tlb'
             PROVE  Walk(table', cr3', e[1]) = e[2] \/ (pc' = "flush" /\ e[1] = page')
  BY DEF Inv, TlbCoherent, Translate
<1>0. Base'
  BY BaseKept
<1>1. \A t \in tlb : t[1] \in Pages \cup BootPages
  BY DEF Base, TypeOK
<1>2. \A t \in tlb : Walk(table, cr3, t[1]) = t[2] \/ (pc = "flush" /\ t[1] = page)
  BY DEF TlbCoherent, Translate
<1>3. CASE /\ pc # "flush" /\ UNCHANGED tlb
           /\ \A v \in Pages : Walk(table', cr3', v) = Walk(table, cr3, v)
  <2>1. \A v \in (Pages \cup BootPages) \ {} : Walk(table', cr3', v) = Walk(table, cr3, v)
    BY <1>0, <1>3, AllTranslations
  <2> QED
    BY <1>1, <1>2, <1>3, <2>1
<1>4. CASE /\ pc # "flush" /\ pc' = "flush" /\ page' = page /\ UNCHANGED tlb
           /\ \A v \in Pages \ {page} : Walk(table', cr3', v) = Walk(table, cr3, v)
  <2>1. \A v \in (Pages \cup BootPages) \ {page} : Walk(table', cr3', v) = Walk(table, cr3, v)
    BY <1>0, <1>4, AllTranslations
  <2> QED
    BY <1>1, <1>2, <1>4, <2>1
<1>5. CASE TlbFlush /\ UNCHANGED <<table, cr3>>
  BY <1>2, <1>5 DEF TlbFlush
<1>6. CASE tlb' = {}
  BY <1>6
<1>7. CASE UNCHANGED <<table, cr3, pc, op>>
           /\ tlb' \subseteq tlb \cup {<<v, Translate(v)>> : v \in Pages \cup BootPages}
  BY <1>2, <1>7 DEF Translate, page
<1> QED
  BY <1>3, <1>4, <1>5, <1>6, <1>7, StepTranslations

(* The boot loader's tables are in order, and the TLB has nothing. *)
LEMMA Initially == Init => Inv
<1> SUFFICES ASSUME Init PROVE Inv
  OBVIOUS
<1>1. cr3 = BootPml4 /\ cr3 # kernel_pml4 /\ BootPml4 \in DOMAIN BootTables
      /\ DOMAIN BootTables \subseteq Ram
  BY VmmAssumption DEF Init
<1>2. TypeOK
  <2>1. \A f \in DOMAIN BootTables : BootTables[f] \in [Index -> Entries]
    BY VmmAssumption
  <2>2. Entry(BootPml4, {"RW"}) \in Entries
    BY <1>1 DEF Entry, Entries, Flags
  <2>3. table \in [Ram -> [Index -> Entries]]
    BY <2>1, <2>2 DEF Init
  <2>4. free \subseteq Ram
    BY VmmAssumption DEF Init
  <2> QED
    BY <1>1, <2>3, <2>4 DEF Init, TypeOK
<1>3. LoaderKept
  BY <1>1, VmmAssumption DEF Init, LoaderKept
<1>4. Moving /\ Shared /\ Tables
  BY <1>1 DEF Init, Moving, Booting, Shared, Tables
<1> QED
  BY <1>2, <1>3, <1>4 DEF Init, Inv, Base, TlbCoherent

(* Always. *)
LEMMA Invariance == Spec => []Inv
<1>1. Inv /\ [Next]_vars => Inv'
  BY BaseKept, TlbKept DEF Inv
<1> QED
  BY <1>1, Initially, PTL DEF Spec

(* The kernel itself, the direct map and the stack stay where the boot     *)
(* loader mapped them: through the move to the kernel's own top-level      *)
(* table (vmm_init) and every later vmm_map and vmm_unmap.                 *)
THEOREM HigherHalfStays == Spec => []HigherHalfKept
<1>1. Inv => HigherHalfKept
  BY HigherHalf DEF Inv
<1> QED
  BY <1>1, Invariance, PTL

(* No stale translation survives a call: invlpg, the last instruction of   *)
(* vmm_map and of vmm_unmap, is enough although tables are written, and    *)
(* rights added, on the way down.                                          *)
THEOREM NoStaleTranslation == Spec => []TlbCoherent
<1>1. Inv => TlbCoherent
  BY DEF Inv
<1> QED
  BY <1>1, Invariance, PTL

(* Every table that vmm_map links has one parent, and none is a free page  *)
(* or the top-level table.                                                 *)
THEOREM TreeStays == Spec => []TablesAreATree
<1>1. Inv => TablesAreATree
  <2> SUFFICES ASSUME Base, cr3 = kernel_pml4
               PROVE  /\ \A s, t \in Links : s # t =>
                            table[s[1]][s[2]].to # table[t[1]][t[2]].to
                      /\ \A s \in Links : table[s[1]][s[2]].to \notin free \cup {kernel_pml4}
    BY DEF Inv, Base, TablesAreATree
  <2>1. PICK rank \in Ranks, up \in Ups :
          Sound(table, kernel_pml4, rank, up) /\ Unused(rank)
    BY DEF Base, Tables
  <2> DEFINE Present(S) == {s \in S \X Index : table[s[1]][s[2]].present}
             Targets(L) == {table[s[1]][s[2]].to : s \in L}
             l1 == {s \in Present({kernel_pml4}) : \E v \in Pages : v[1] = s[2]}
             l2 == Present(Targets(l1))
             l3 == Present(Targets(l2))
             At(s, k) == /\ s \in Ram \X Index /\ table[s[1]][s[2]].to \in Ram
                         /\ rank[table[s[1]][s[2]].to] = k /\ up[table[s[1]][s[2]].to] = s
  <2>2. rank[kernel_pml4] = 1 /\ kernel_pml4 \in Ram
    BY <2>1 DEF Sound, Tree
  <2>3. ASSUME NEW f \in Ram, NEW i \in Index, table[f][i].present, rank[f] \in 1 .. 3,
               f = kernel_pml4 => i \in Tops
        PROVE  /\ table[f][i].to \in Ram
               /\ rank[table[f][i].to] = rank[f] + 1 /\ up[table[f][i].to] = <<f, i>>
    BY <2>1, <2>3 DEF Sound, Tree, Leads, Callers
  <2>4. \A s \in l1 : At(s, 2)
    <3>1. SUFFICES ASSUME NEW s \in l1 PROVE At(s, 2)
      OBVIOUS
    <3>2. /\ s = <<kernel_pml4, s[2]>> /\ s[2] \in Index /\ s[2] \in Tops
          /\ table[kernel_pml4][s[2]].present
      BY DEF Tops
    <3> QED
      BY <2>2, <2>3, <3>2
  <2>5. \A s \in l2 : At(s, 3)
    <3>1. SUFFICES ASSUME NEW s \in l2 PROVE At(s, 3)
      OBVIOUS
    <3>2. /\ s = <<s[1], s[2]>> /\ s[1] \in Targets(l1) /\ s[2] \in Index
          /\ table[s[1]][s[2]].present
      OBVIOUS
    <3> HIDE DEF l1
    <3>3. s[1] \in Ram /\ rank[s[1]] = 2 /\ s[1] # kernel_pml4
      BY <2>2, <2>4, <3>2
    <3>4. /\ table[s[1]][s[2]].to \in Ram
          /\ rank[table[s[1]][s[2]].to] = 3 /\ up[table[s[1]][s[2]].to] = <<s[1], s[2]>>
      BY <2>3, <3>2, <3>3
    <3> QED
      BY <3>2, <3>3, <3>4
  <2>6. \A s \in l3 : At(s, 4)
    <3>1. SUFFICES ASSUME NEW s \in l3 PROVE At(s, 4)
      OBVIOUS
    <3>2. /\ s = <<s[1], s[2]>> /\ s[1] \in Targets(l2) /\ s[2] \in Index
          /\ table[s[1]][s[2]].present
      OBVIOUS
    <3> HIDE DEF l2
    <3>3. s[1] \in Ram /\ rank[s[1]] = 3 /\ s[1] # kernel_pml4
      BY <2>2, <2>5, <3>2
    <3>4. /\ table[s[1]][s[2]].to \in Ram
          /\ rank[table[s[1]][s[2]].to] = 4 /\ up[table[s[1]][s[2]].to] = <<s[1], s[2]>>
      BY <2>3, <3>2, <3>3
    <3> QED
      BY <3>2, <3>3, <3>4
  <2>7. Links = l1 \cup l2 \cup l3
    BY DEF Links
  <2> HIDE DEF l1, l2, l3
  <2>8. \A s \in Links : \E k \in 2 .. 4 : At(s, k)
    BY <2>4, <2>5, <2>6, <2>7, SMTT(30)
  <2>9. \A f \in free \cup {kernel_pml4} : rank[f] < 2
    BY <2>1, <2>2 DEF Unused
  <2> QED
    BY <2>8, <2>9
<1> QED
  BY <1>1, Invariance, PTL

Asked == IF pc \in {"walk", "clear", "link", "upgrade", "leaf", "find", "panic"} THEN op ELSE <<>>
Mapping == [v \in Pages |-> Translate(v)]

(* Each step of the page tables is one of the abstract ones, or none.      *)
LEMMA StepRefinement == Base /\ [Next]_vars => [Abs!Next]_<<Mapping, Asked>>
<1> SUFFICES ASSUME Base, [Next]_vars PROVE Abs!Next \/ UNCHANGED <<Mapping, Asked>>
  OBVIOUS
<1>1. ASSUME \A v \in Pages : Walk(table', cr3', v) = Walk(table, cr3, v)
      PROVE  Mapping' = Mapping
  BY <1>1 DEF Mapping, Translate
<1>2. CASE AllocPml4 \/ NoPml4
  BY <1>1, <1>2, AllocPml4Step, PanicStep DEF AllocPml4, NoPml4, Asked
<1>3. CASE ZeroPml4 \/ CopyHigher \/ SwitchCr3
  <2>1. /\ pc \in {"zero", "copy", "switch"} /\ pc' \in {"copy", "switch", "idle"}
        /\ cr3 = BootPml4
    BY <1>3, ZeroPml4Step, CopyHigherStep, SwitchCr3Step
  <2>2. \A v \in Pages : Walk(table, cr3, v) = <<>>
    BY <2>1, NotYet DEF Base
  <2>3. \A v \in Pages : Walk(table', cr3', v) = <<>>
    <3>1. CASE ZeroPml4 \/ CopyHigher
      <4>1. (LoaderKept /\ cr3 = BootPml4 => \A v \in Pages : Walk(table, cr3, v) = <<>>)'
        BY NotYet, PTL
      <4>2. LoaderKept' /\ cr3' = BootPml4
        BY <3>1, ZeroPml4Step, CopyHigherStep DEF Base
      <4> QED
        BY <4>1, <4>2
    <3> QED
      BY <1>3, <3>1, SwitchCr3Step
  <2>4. Mapping' = Mapping
    BY <1>1, <2>2, <2>3
  <2>5. Asked' = Asked
    BY <2>1 DEF Asked
  <2> QED
    BY <2>4, <2>5
<1>4. CASE \E v \in Pages : UnmapCall(v) \/ \E r \in Requests : MapCall(v, r)
  <2>1. PICK v \in Pages : UnmapCall(v) \/ \E r \in Requests : MapCall(v, r)
    BY <1>4
  <2>2. UNCHANGED <<table, cr3>> /\ pc = "idle" /\ pc' \in {"walk", "find"}
    BY <2>1, CallStep
  <2>3. Mapping' = Mapping /\ Asked = <<>> /\ Asked' = op'
    BY <1>1, <2>2 DEF Asked
  <2>4. op' = <<v, <<>>>> \/ \E f \in Ram \cup Device, r \in Flags : op' = <<v, <<f, r>>>>
    BY <2>1, CallStep
  <2> QED
    BY <2>3, <2>4 DEF Abs!Next, Abs!Ask, Mapping, Asked
<1>5. CASE TakeTable \/ ClearTable \/ LinkTable \/ AllowUser \/ UseTable \/ FindTable
  <2>1. /\ op' = op /\ pc \in {"walk", "clear", "link", "upgrade", "find"}
        /\ pc' \in {"clear", "link", "upgrade", "walk", "leaf", "find"}
    BY <1>5 DEF TakeTable, Take, ClearTable, LinkTable, AllowUser, UseTable, FindTable, Goto,
                Descend
  <2>2. \A v \in Pages : Walk(table', cr3', v) = Walk(table, cr3, v)
    BY <1>5, TakeTableStep, ClearTableStep, LinkTableStep, AllowUserStep, UseTableStep,
       FindTableStep
  <2> QED
    BY <1>1, <2>1, <2>2 DEF Asked
<1>6. CASE OutOfPages \/ DoubleMapping
  <2>1. pc \in {"walk", "leaf"}
    BY <1>6 DEF OutOfPages, DoubleMapping
  <2> QED
    BY <1>1, <1>6, <2>1, PanicStep DEF Asked
<1>7. CASE SetLeaf
  <2>1. pc = "leaf" /\ pc' = "flush" /\ frame \in Ram \cup Device /\ flags \in Flags
    BY <1>7, Reached DEF SetLeaf, Goto, Call
  <2>2. /\ page \in Pages /\ op = <<page, <<frame, flags>>>>
        /\ Walk(table, cr3, page) = <<>> /\ Walk(table', cr3', page) = <<frame, flags>>
        /\ \A v \in Pages \ {page} : Walk(table', cr3', v) = Walk(table, cr3, v)
    BY <1>7, SetLeafStep
  <2>3. Asked = <<page, <<frame, flags>>>> /\ Asked' = <<>>
    BY <2>1, <2>2 DEF Asked
  <2>4. /\ Mapping[page] = <<>>
        /\ Mapping' = [Mapping EXCEPT ![page] = <<frame, flags>>]
    BY <2>2 DEF Mapping, Translate
  <2> QED
    BY <2>1, <2>2, <2>3, <2>4 DEF Abs!Next, Abs!Map, Mapping, Asked
<1>8. CASE ClearLeaf \/ NotMapped
  <2>1. pc = "find" /\ pc' \in {"flush", "idle"}
    BY <1>8 DEF ClearLeaf, NotMapped, Goto, Return
  <2>2. /\ page \in Pages /\ op = <<page, <<>>>>
        /\ Walk(table', cr3', page) = <<>>
        /\ \A v \in Pages \ {page} : Walk(table', cr3', v) = Walk(table, cr3, v)
    BY <1>8, ClearLeafStep, NotMappedStep
  <2>3. Asked = <<page, <<>>>> /\ Asked' = <<>>
    BY <2>1, <2>2 DEF Asked
  <2>4. Mapping' = [Mapping EXCEPT ![page] = <<>>]
    BY <2>2 DEF Mapping, Translate
  <2> QED
    BY <2>2, <2>3, <2>4 DEF Abs!Next, Abs!Unmap, Mapping, Asked
<1>9. CASE TlbFlush
  BY <1>1, <1>9, TlbFlushStep DEF TlbFlush, Asked
<1>10. CASE (\E v \in Pages \cup BootPages : TlbFill(v)) \/ UNCHANGED vars
  <2>1. UNCHANGED <<table, cr3, pc, op>>
    BY <1>10, TlbFillStep DEF vars, roots, call
  <2> QED
    BY <1>1, <2>1 DEF Asked
<1> QED
  BY <1>2, <1>3, <1>4, <1>5, <1>6, <1>7, <1>8, <1>9, <1>10 DEF Next, Map

(* Every page translates to what its caller asked for, with exactly those  *)
(* rights, and no other page is disturbed at any moment an MMU could look: *)
(* vmm.c implements a partial function from pages to frames and rights.    *)
THEOREM Refinement == Spec => Implements
<1>1. Init => Abs!Init
  <2> SUFFICES ASSUME Init PROVE Abs!Init
    OBVIOUS
  <2>1. LoaderKept /\ cr3 = BootPml4
    BY Initially DEF Init, Inv, Base
  <2>2. \A v \in Pages : Walk(table, cr3, v) = <<>>
    BY <2>1, NotYet
  <2> QED
    BY <2>2 DEF Init, Abs!Init, Translate
<1>2. Inv /\ [Next]_vars => [Abs!Next]_<<Mapping, Asked>>
  BY StepRefinement DEF Inv
<1> QED
  BY <1>1, <1>2, Invariance, PTL DEF Spec, Implements, Abs!Spec, Mapping, Asked

=============================================================================
