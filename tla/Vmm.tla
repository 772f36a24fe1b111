--------------------------------- MODULE Vmm --------------------------------
(***************************************************************************)
(* The page tables of mm/vmm.c: four levels, filled on demand, walked by   *)
(* the MMU at any moment and cached in its TLB.                            *)
(*                                                                         *)
(* A frame holds a table of entries; frames nobody has written yet hold    *)
(* stale ones.  A virtual page is its four indices.  vmm_init moves the    *)
(* kernel from the boot loader's tables to a top-level table of its own    *)
(* that shares the higher half; vmm_map and vmm_unmap then change single   *)
(* pages.  Their steps are single memory writes, because the MMU may walk  *)
(* between any two.  Calls run one after another: they are made at boot or *)
(* with heap_lock held.                                                    *)
(*                                                                         *)
(* Callers map pages under top-level entries that the boot loader left     *)
(* empty: the heap at 0xffffa000..., PCI at 0xffffc000....                 *)
(***************************************************************************)
EXTENDS Integers, FiniteSets, FiniteSetsExt

CONSTANTS Index,       \* indices of a table
          Higher,      \* those of the higher half in a top-level table
          Ram,         \* frames
          Device,      \* physical pages that are not RAM
          BootPml4, BootTables,  \* the boot loader's tables
          BootPages,   \* pages they map in the higher half
          Memories,    \* the frames that may be free at boot
          Pages,       \* pages that callers map
          Requests     \* rights they ask for

VARIABLES
    table,        \* contents of each frame, as a table
    free,         \* frames the page allocator has
    cr3, kernel_pml4,
    tlb,          \* cached translations: page, frame, rights
    pc,
    op,           \* the call under way: page, frame, flags
    level, at,    \* the table the walk is in and its level, 1 to 4
    new           \* new_table_phys, new_pml4_phys

roots == <<cr3, kernel_pml4>>
call == <<pc, op, level, at, new>>
vars == <<table, free, roots, tlb, call>>

NULL == 0
Flags == SUBSET {"RW", "USER"}

\* A present entry leads to a table or a page (large: to a 2 MB page).
Empty == [present |-> FALSE]
Entry(f, r) == [present |-> TRUE, to |-> f, flags |-> r, large |-> FALSE]
Entries ==
    {Empty} \cup [present : {TRUE}, to : Ram \cup Device, flags : Flags, large : BOOLEAN]
Address == Index \X Index \X Index \X Index

ASSUME VmmAssumption ==
    /\ Index \subseteq Nat /\ Index # {} /\ Higher \subseteq Index
    /\ IsFiniteSet(Ram) /\ Ram \subseteq Nat \ {NULL}
    /\ Device \subseteq Nat /\ Ram \cap Device = {}
    /\ DOMAIN BootTables \subseteq Ram /\ BootPml4 \in DOMAIN BootTables
    /\ BootTables \in [DOMAIN BootTables -> [Index -> Entries]]
    /\ \A m \in Memories : m \subseteq Ram \ DOMAIN BootTables
    /\ Requests \subseteq Flags
    /\ Pages \cup BootPages \subseteq Address
    /\ \A v \in Pages \cup BootPages : v[1] \in Higher
    /\ \A v \in Pages : ~BootTables[BootPml4][v[1]].present

-----------------------------------------------------------------------------
(* What the MMU does with an address, and vmm_virt_to_phys in its place *)

\* The entry for index i below entry e.
Below(tables, e, i) ==
    IF ~e.present THEN Empty
    ELSE IF e.large THEN [e EXCEPT !.to = @ + i]
    ELSE IF e.to \in DOMAIN tables THEN tables[e.to][i] ELSE Empty

Walk(tables, root, v) ==
    LET e1 == tables[root][v[1]]
        e2 == Below(tables, e1, v[2])
        e3 == Below(tables, e2, v[3])
        e4 == Below(tables, e3, v[4])
    IN  IF e4.present
        THEN <<e4.to, e1.flags \cap e2.flags \cap e3.flags \cap e4.flags>>
        ELSE <<>>

Translate(v) == Walk(table, cr3, v)

ASSUME BootAssumption == \A v \in BootPages : Walk(BootTables, BootPml4, v) # <<>>

-----------------------------------------------------------------------------
Init ==
    /\ table = [f \in Ram |->
                   IF f \in DOMAIN BootTables THEN BootTables[f]
                   ELSE [i \in Index |-> Entry(BootPml4, {"RW"})]]  \* stale
    /\ free \in Memories
    /\ cr3 = BootPml4 /\ kernel_pml4 = NULL /\ tlb = {}
    /\ pc = "boot" /\ op = <<>> /\ level = 1 /\ at = NULL /\ new = NULL

Goto(p) == pc' = p /\ UNCHANGED <<op, level, at>>
Return == pc' = "idle" /\ op' = <<>> /\ level' = 1 /\ at' = NULL /\ new' = NULL
Zero(f) == table' = [table EXCEPT ![f] = [i \in Index |-> Empty]]

-----------------------------------------------------------------------------
(* pmm_alloc_page, and vmm_init *)

TakeAgain(next) ==  \* Faulty: the page stays in the allocator.
    /\ free # {} /\ UNCHANGED free
    /\ new' = Min(free) /\ Goto(next)

Take(next) ==
    /\ free # {} /\ free' = free \ {Min(free)}
    /\ new' = Min(free) /\ Goto(next)

Panic == Goto("panic") /\ UNCHANGED <<table, free, roots, tlb, new>>

AllocPml4 == pc = "boot" /\ Take("zero") /\ UNCHANGED <<table, roots, tlb>>
NoPml4 == pc = "boot" /\ free = {} /\ Panic

ZeroPml4 ==
    /\ pc = "zero" /\ Zero(new) /\ kernel_pml4' = new
    /\ Goto("copy") /\ UNCHANGED <<free, cr3, tlb, new>>

CopyAllButFirst ==  \* Faulty: int i = 257.
    /\ pc = "copy"
    /\ table' = [table EXCEPT ![new] =
          [i \in Index |-> IF i \in Higher /\ i - 1 \in Higher
                           THEN table[cr3][i] ELSE @[i]]]
    /\ Goto("switch") /\ UNCHANGED <<free, roots, tlb, new>>

CopyHigher ==
    /\ pc = "copy"
    /\ table' = [table EXCEPT ![new] =
          [i \in Index |-> IF i \in Higher THEN table[cr3][i] ELSE @[i]]]
    /\ Goto("switch") /\ UNCHANGED <<free, roots, tlb, new>>

SwitchCr3 ==
    /\ pc = "switch" /\ cr3' = new /\ tlb' = {}
    /\ Return /\ UNCHANGED <<table, free, kernel_pml4>>

-----------------------------------------------------------------------------
(* vmm_map *)

Start(p, v, target) ==
    /\ pc = "idle" /\ pc' = p
    /\ op' = <<v, target>> /\ level' = 1 /\ at' = kernel_pml4
    /\ UNCHANGED <<table, roots, tlb, new>>

\* The heap maps a page it has just allocated, PCI a page of a device.
MapCall(v, r) ==
    \/ \E f \in Device : Start("walk", v, <<f, r>>) /\ UNCHANGED free
    \/ /\ free # {} /\ free' = free \ {Min(free)}
       /\ Start("walk", v, <<Min(free), r>>)

page == op[1]
frame == op[2][1]
flags == op[2][2]
intermediate_flags == {"RW"} \cup (flags \cap {"USER"})

Slot == table[at][page[level]]
SetSlot(e) == table' = [table EXCEPT ![at][page[level]] = e]

Descend(f) ==
    /\ at' = f /\ level' = level + 1
    /\ pc' = (IF level < 3 THEN "walk" ELSE "leaf") /\ UNCHANGED op

TakeTable == pc = "walk" /\ ~Slot.present /\ Take("clear") /\ UNCHANGED <<table, roots, tlb>>
OutOfPages == pc = "walk" /\ ~Slot.present /\ free = {} /\ Panic

KeepStale ==  \* Faulty: the new table is not zeroed.
    pc = "clear" /\ Goto("link") /\ UNCHANGED <<table, free, roots, tlb, new>>

ClearTable ==
    pc = "clear" /\ Zero(new) /\ Goto("link") /\ UNCHANGED <<free, roots, tlb, new>>

LinkTable ==
    /\ pc = "link" /\ SetSlot(Entry(new, intermediate_flags)) /\ Descend(new)
    /\ UNCHANGED <<free, roots, tlb, new>>

\* The entry gains rights one write at a time.
AllowUser ==
    /\ pc = "walk" /\ Slot.present
    /\ SetSlot([Slot EXCEPT !.flags = @ \cup (flags \cap {"USER"})])
    /\ Goto("upgrade") /\ UNCHANGED <<free, roots, tlb, new>>

UseTable ==
    /\ pc = "upgrade" /\ SetSlot([Slot EXCEPT !.flags = @ \cup {"RW"}])
    /\ Descend(Slot.to) /\ UNCHANGED <<free, roots, tlb, new>>

DoubleMapping == pc = "leaf" /\ Slot.present /\ Panic

SetLeaf ==
    /\ pc = "leaf" /\ ~Slot.present /\ SetSlot(Entry(frame, flags))
    /\ Goto("flush") /\ UNCHANGED <<free, roots, tlb, new>>

ForgetFlush ==  \* Faulty: no invlpg.
    pc = "flush" /\ Return /\ UNCHANGED <<table, free, roots, tlb>>

TlbFlush ==
    /\ pc = "flush" /\ tlb' = {e \in tlb : e[1] # page}
    /\ Return /\ UNCHANGED <<table, free, roots>>

Map ==
    \/ TakeTable \/ OutOfPages \/ ClearTable \/ LinkTable \/ AllowUser \/ UseTable
    \/ DoubleMapping \/ SetLeaf \/ TlbFlush

-----------------------------------------------------------------------------
(* vmm_unmap *)

UnmapCall(v) == Start("find", v, <<>>) /\ UNCHANGED free

FindTable ==
    /\ pc = "find" /\ level < 4 /\ Slot.present
    /\ at' = Slot.to /\ level' = level + 1
    /\ UNCHANGED <<table, free, roots, tlb, pc, op, new>>

NotMapped ==
    pc = "find" /\ ~Slot.present /\ Return /\ UNCHANGED <<table, free, roots, tlb>>

ClearLeaf ==
    /\ pc = "find" /\ level = 4 /\ Slot.present /\ SetSlot(Empty)
    /\ Goto("flush") /\ UNCHANGED <<free, roots, tlb, new>>

-----------------------------------------------------------------------------
(* The MMU, at any moment, for whatever the CPU accesses or speculates on *)
TlbFill(v) ==
    /\ Translate(v) # <<>> /\ tlb' = tlb \cup {<<v, Translate(v)>>}
    /\ UNCHANGED <<table, free, roots, call>>

Next ==
    \/ AllocPml4 \/ NoPml4 \/ ZeroPml4 \/ CopyHigher \/ SwitchCr3
    \/ \E v \in Pages : UnmapCall(v) \/ \E r \in Requests : MapCall(v, r)
    \/ Map \/ FindTable \/ NotMapped \/ ClearLeaf
    \/ \E v \in Pages \cup BootPages : TlbFill(v)

Spec == Init /\ [][Next]_vars

-----------------------------------------------------------------------------
(* Properties *)

TypeOK ==
    /\ table \in [Ram -> [Index -> Entries]]
    /\ free \subseteq Ram
    /\ cr3 \in Ram /\ kernel_pml4 \in Ram \cup {NULL}
    /\ tlb \subseteq (Pages \cup BootPages) \X (Nat \X Flags)
    /\ pc \in {"boot", "zero", "copy", "switch", "idle", "walk", "clear", "link",
               "upgrade", "leaf", "find", "flush", "panic"}
    /\ op \in {<<>>} \cup (Pages \X ({<<>>} \cup ((Ram \cup Device) \X Flags)))
    /\ level \in 1 .. 4
    /\ at \in Ram \cup {NULL} /\ new \in Ram \cup {NULL}

(* The kernel itself, the direct map and the stack live in the higher half *)
(* the boot loader mapped: neither the switch to the new top-level table   *)
(* nor any later call changes where those pages are or who may use them.   *)
HigherHalfKept ==
    \A v \in BootPages : Translate(v) = Walk(BootTables, BootPml4, v)

(* No stale translation survives a call: the TLB agrees with the tables,   *)
(* but for the one page whose invlpg is the next instruction.              *)
TlbCoherent ==
    \A e \in tlb : Translate(e[1]) = e[2] \/ (pc = "flush" /\ e[1] = page)

\* Entries under the callers' top-level entries that lead to tables.
Links ==
    LET Present(S) == {s \in S \X Index : table[s[1]][s[2]].present}
        Targets(L) == {table[s[1]][s[2]].to : s \in L}
        l1 == {s \in Present({kernel_pml4}) : \E v \in Pages : v[1] = s[2]}
        l2 == Present(Targets(l1))
    IN  l1 \cup l2 \cup Present(Targets(l2))

(* The tables are a tree: each has one parent, and none is a free page or  *)
(* the top-level table.  A page handed out twice would break it.           *)
TablesAreATree ==
    TypeOK /\ (cr3 = kernel_pml4 =>
        /\ \A s, t \in Links : s # t => table[s[1]][s[2]].to # table[t[1]][t[2]].to
        /\ \A s \in Links : table[s[1]][s[2]].to \notin free \cup {kernel_pml4})

\* The calls change the mapping of one page, in one step, to what was asked
\* for, whatever tables they build and upgrade on the way.
Abs == INSTANCE VmmAbs WITH
    Frames <- Ram \cup Device,
    Rights <- Flags,
    mapping <- [v \in Pages |-> Translate(v)],
    asked <- IF pc \in {"walk", "clear", "link", "upgrade", "leaf", "find", "panic"}
             THEN op ELSE <<>>

(* Every page translates to what its caller asked for, with exactly those  *)
(* rights, and no other page is disturbed at any moment an MMU could look. *)
Implements == Abs!Spec
=============================================================================
