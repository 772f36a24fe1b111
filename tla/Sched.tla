-------------------------------- MODULE Sched -------------------------------
(***************************************************************************)
(* Threads and their preemption: kernel/sched.c, the interrupt path of     *)
(* arch/idt.c and arch/idt_asm.s, and the end-of-interrupt of arch/apic.c. *)
(*                                                                         *)
(* The threads form a ring through their next fields.  A timer interrupt   *)
(* pushes the frame of the running thread on its stack, and every          *)
(* SCHED_SLICE ticks the handler returns with the stack pointer of the     *)
(* next thread of the ring instead.  A stack holds one frame at most,      *)
(* since handlers run with interrupts off, so a saved stack pointer is     *)
(* named by the thread whose stack it points into, and a frame by the      *)
(* thread and the point of its execution that it resumes.                  *)
(*                                                                         *)
(* thread_create runs with interrupts off between its cli and its sti, and *)
(* is modelled step by step.  The local interrupt controller is external:  *)
(* it delivers nothing while an interrupt is in service (not yet EOIed).   *)
(***************************************************************************)
EXTENDS Naturals, FiniteSets

CONSTANTS Threads,      \* thread objects
          Main,         \* the thread sched_init makes of the running code
          SCHED_SLICE,  \* timer ticks between two switches
          Points        \* bound: points of each thread's execution told apart

NONE == "none"

ASSUME SchedAssumption ==
    /\ Main \in Threads /\ NONE \notin Threads
    /\ SCHED_SLICE \in Nat \ {0}
    /\ Points \in [Threads -> Nat \ {0}]

Timer == "timer"
Keyboard == "keyboard"
Vectors == {Timer, Keyboard}

VARIABLES
    next, rsp,           \* the thread_t fields
    id,                  \* thread_t.id
    current_thread, next_thread_id, tick_count,
    frame,               \* the frame on each thread's stack
    cpu,                 \* the thread executing and where it is
    intr,                \* IF
    pending, in_service, \* external: the local APIC
    handler,             \* the next step of the interrupt path
    new_rsp,             \* what irq_handler is going to return
    pc, rflags, n, child, \* per thread: thread_create and its variables
    reached,             \* ghost: how far each thread has really come
    ran                  \* ghost: ticks since the last switch

ring == <<next, id, next_thread_id>>
control == <<current_thread, tick_count, rsp>>
apic == <<pending, in_service>>
path == <<frame, handler, new_rsp>>
creating == <<pc, rflags, n, child>>
vars == <<ring, control, cpu, intr, apic, path, creating, reached, ran>>

Context == UNION {[thread : {t}, at : 0 .. Points[t] - 1] : t \in Threads}
Pc == {"run", "cli", "count", "init", "chain", "link", "popf"}

\* Threads that the ring should have: those with a next, but for one that
\* nothing leads to yet.
Linked == {t \in DOMAIN next : \A u \in Threads : pc[u] = "link" => child[u] # t}

(* A field of an object is stored to. *)
Store(field, t, value) ==
    [u \in DOMAIN field \cup {t} |-> IF u = t THEN value ELSE field[u]]

(* sched_init, and then the first sti of the kernel: the main thread runs  *)
(* and its rsp field holds whatever kmalloc returned.                      *)
Init ==
    /\ next = [t \in {Main} |-> Main]
    /\ rsp \in [{Main} -> Threads]
    /\ id = [t \in {Main} |-> 0]
    /\ next_thread_id = 1
    /\ current_thread = Main /\ tick_count = 0
    /\ frame = [t \in Threads |-> [thread |-> t, at |-> 0]]
    /\ cpu = [thread |-> Main, at |-> 0]
    /\ intr = TRUE
    /\ pending = {} /\ in_service = {}
    /\ handler = NONE /\ new_rsp = NONE
    /\ pc = [t \in Threads |-> "run"]
    /\ rflags = [t \in Threads |-> FALSE]
    /\ n = [t \in Threads |-> 0]
    /\ child = [t \in Threads |-> t]
    /\ reached = [t \in Threads |-> 0]
    /\ ran = 0

-----------------------------------------------------------------------------
(* A thread executes *)

Running(t) == handler = NONE /\ cpu.thread = t
At(t, p) == Running(t) /\ pc[t] = p

(* Every instruction moves the thread on. *)
Proceed(t) ==
    /\ cpu' = [cpu EXCEPT !.at = (@ + 1) % Points[t]]
    /\ reached' = [reached EXCEPT ![t] = (@ + 1) % Points[t]]
Step(t, p) == pc' = [pc EXCEPT ![t] = p] /\ Proceed(t)

Work(t) ==
    /\ At(t, "run")
    /\ Proceed(t)
    /\ UNCHANGED <<ring, control, intr, apic, path, creating, ran>>

(* cli and sti of a thread's own, as in a spinlock or the main loop. *)
SetInterrupts(t) ==
    /\ At(t, "run")
    /\ intr' = ~intr
    /\ Proceed(t)
    /\ UNCHANGED <<ring, control, apic, path, creating, ran>>

-----------------------------------------------------------------------------
(* thread_create *)

(* Bound: no more threads are created than there are thread objects. *)
Creators == {u \in Threads : pc[u] \in {"cli", "count", "init", "chain", "link"}}
ObjectsLeft == Cardinality(Linked) + Cardinality(Creators) < Cardinality(Threads)

SaveFlags(t) ==
    /\ At(t, "run")
    /\ ObjectsLeft
    /\ rflags' = [rflags EXCEPT ![t] = intr]
    /\ Step(t, "cli")
    /\ UNCHANGED <<ring, control, intr, apic, path, n, child, ran>>

(* Faulty: no cli. *)
KeepInterrupts(t) ==
    /\ At(t, "cli")
    /\ Step(t, "count")
    /\ UNCHANGED <<ring, control, intr, apic, path, rflags, n, child, ran>>

DisableInterrupts(t) ==
    /\ At(t, "cli")
    /\ intr' = FALSE
    /\ Step(t, "count")
    /\ UNCHANGED <<ring, control, apic, path, rflags, n, child, ran>>

(* kmalloc of a thread object nobody else has, and the first half of       *)
(* new_thread->id = next_thread_id++.                                      *)
ReadId(t) ==
    /\ At(t, "count")
    /\ \E new \in Threads \ Linked :
          /\ \A u \in Threads : pc[u] \in {"init", "chain", "link"} => child[u] # new
          /\ child' = [child EXCEPT ![t] = new]
    /\ n' = [n EXCEPT ![t] = next_thread_id]
    /\ Step(t, "init")
    /\ UNCHANGED <<ring, control, intr, apic, path, rflags, ran>>

(* The other half; the stack with its initial frame. *)
InitThread(t) ==
    /\ At(t, "init")
    /\ next_thread_id' = n[t] + 1
    /\ id' = Store(id, child[t], n[t])
    /\ rsp' = Store(rsp, child[t], child[t])
    /\ frame' = [frame EXCEPT ![child[t]] = [thread |-> child[t], at |-> 0]]
    /\ Step(t, "chain")
    /\ UNCHANGED <<next, current_thread, tick_count, intr, apic, handler, new_rsp,
                   rflags, n, child, ran>>

(* new_thread->next = current_thread->next *)
Chain(t) ==
    /\ At(t, "chain")
    /\ next' = Store(next, child[t], next[current_thread])
    /\ Step(t, "link")
    /\ UNCHANGED <<id, next_thread_id, control, intr, apic, path, rflags, n, child, ran>>

(* current_thread->next = new_thread *)
Link(t) ==
    /\ At(t, "link")
    /\ next' = Store(next, current_thread, child[t])
    /\ Step(t, "popf")
    /\ UNCHANGED <<id, next_thread_id, control, intr, apic, path, rflags, n, child, ran>>

RestoreFlags(t) ==
    /\ At(t, "popf")
    /\ intr' = (intr \/ rflags[t])
    /\ rflags' = [rflags EXCEPT ![t] = FALSE]
    /\ n' = [n EXCEPT ![t] = 0]
    /\ child' = [child EXCEPT ![t] = t]
    /\ Step(t, "run")
    /\ UNCHANGED <<ring, control, apic, path, ran>>

Create(t) ==
    \/ DisableInterrupts(t) \/ ReadId(t) \/ InitThread(t) \/ Chain(t) \/ Link(t)
    \/ RestoreFlags(t)

-----------------------------------------------------------------------------
(* The interrupt path *)

(* The PIT ticks, or a key is pressed. *)
Raise(v) ==
    /\ v \notin pending
    /\ pending' = pending \cup {v}
    /\ UNCHANGED <<ring, control, cpu, intr, in_service, path, creating,
                   reached, ran>>

(* irq_common_stub: the frame goes on the stack of the thread. *)
Deliver(v) ==
    /\ handler = NONE /\ intr
    /\ v \in pending /\ in_service = {}
    /\ pending' = pending \ {v}
    /\ in_service' = {v}
    /\ intr' = FALSE
    /\ frame' = [frame EXCEPT ![cpu.thread] = cpu]
    /\ handler' = IF v = Timer THEN "tick" ELSE "eoi"
    /\ UNCHANGED <<ring, control, cpu, new_rsp, creating, reached, ran>>

(* sched_tick: alone, or not time to switch yet. *)
Alone == next[current_thread] = current_thread
SliceOver == (tick_count + 1) % SCHED_SLICE = 0

(* Faulty: ticks are counted while there is only one thread. *)
CountAlone ==
    /\ handler = "tick" /\ Alone
    /\ tick_count' = (tick_count + 1) % SCHED_SLICE
    /\ handler' = "eoi"
    /\ UNCHANGED <<ring, current_thread, rsp, cpu, intr, apic, frame, new_rsp,
                   creating, reached, ran>>

StayAlone ==
    /\ handler = "tick" /\ Alone
    /\ handler' = "eoi"
    /\ UNCHANGED <<ring, control, cpu, intr, apic, frame, new_rsp, creating,
                   reached, ran>>

(* tick_count is kept modulo SCHED_SLICE. *)
Stay ==
    /\ handler = "tick" /\ ~Alone /\ ~SliceOver
    /\ tick_count' = (tick_count + 1) % SCHED_SLICE
    /\ ran' = ran + 1
    /\ handler' = "eoi"
    /\ UNCHANGED <<ring, current_thread, rsp, cpu, intr, apic, frame, new_rsp,
                   creating, reached>>

(* Faulty: current_thread moves on before the stack pointer is saved. *)
AdvanceAndSave ==
    /\ current_thread' = next[current_thread]
    /\ rsp' = [rsp EXCEPT ![next[current_thread]] = cpu.thread]

(* The interrupted stack pointer goes into the old thread. *)
SaveAndAdvance ==
    /\ rsp' = [rsp EXCEPT ![current_thread] = cpu.thread]
    /\ current_thread' = next[current_thread]

Switch ==
    /\ handler = "tick" /\ ~Alone /\ SliceOver
    /\ SaveAndAdvance
    /\ tick_count' = 0
    /\ ran' = 0
    /\ new_rsp' = rsp'[current_thread']
    /\ handler' = "eoi"
    /\ UNCHANGED <<ring, cpu, intr, apic, frame, creating, reached>>

(* Faulty: no EOI when the stack is switched. *)
EoiIfNoSwitch ==
    /\ handler = "eoi"
    /\ in_service' = IF new_rsp = NONE THEN {} ELSE in_service
    /\ handler' = "iret"
    /\ UNCHANGED <<ring, control, cpu, intr, pending, frame, new_rsp, creating,
                   reached, ran>>

(* apic_send_eoi, before the switch of stacks *)
SendEoi ==
    /\ handler = "eoi"
    /\ in_service' = {}
    /\ handler' = "iret"
    /\ UNCHANGED <<ring, control, cpu, intr, pending, frame, new_rsp, creating,
                   reached, ran>>

(* movq %rax, %rsp if irq_handler returned one; the registers and iretq.   *)
Resume ==
    /\ handler = "iret"
    /\ cpu' = frame[IF new_rsp = NONE THEN cpu.thread ELSE new_rsp]
    /\ intr' = TRUE
    /\ new_rsp' = NONE
    /\ handler' = NONE
    /\ UNCHANGED <<ring, control, apic, frame, creating, reached, ran>>

Irq == StayAlone \/ Stay \/ Switch \/ SendEoi \/ Resume

-----------------------------------------------------------------------------
Next ==
    \/ \E t \in Threads :
          Work(t) \/ SetInterrupts(t) \/ SaveFlags(t) \/ Create(t)
    \/ \E v \in Vectors : Raise(v) \/ Deliver(v)
    \/ Irq

Spec == Init /\ [][Next]_vars

(* The PIT keeps ticking, the CPU keeps executing, and a thread that       *)
(* turned interrupts off turns them on again: it is in a critical section, *)
(* in thread_create or between the cli and sti of the main loop.           *)
FairSpec ==
    /\ Spec
    /\ WF_vars(Raise(Timer)) /\ SF_vars(Deliver(Timer))
    /\ WF_vars(Irq)
    /\ \A t \in Threads : SF_vars(Create(t) \/ (SetInterrupts(t) /\ intr'))

-----------------------------------------------------------------------------
(* Properties *)

TypeOK ==
    /\ Linked \subseteq Threads /\ Main \in Linked
    /\ next \in [DOMAIN next -> Linked] /\ DOMAIN next \subseteq DOMAIN id
    /\ rsp \in [DOMAIN id -> Threads]
    /\ id \in [DOMAIN id -> Nat] /\ DOMAIN id \subseteq Threads
    /\ current_thread \in Linked
    /\ next_thread_id \in Nat /\ tick_count \in 0 .. SCHED_SLICE - 1
    /\ frame \in [Threads -> Context]
    /\ cpu \in Context
    /\ intr \in BOOLEAN
    /\ pending \subseteq Vectors /\ in_service \subseteq Vectors
    /\ handler \in {NONE, "tick", "eoi", "iret"}
    /\ new_rsp \in Threads \cup {NONE}
    /\ pc \in [Threads -> Pc]
    /\ rflags \in [Threads -> BOOLEAN]
    /\ n \in [Threads -> Nat]
    /\ child \in [Threads -> Threads]
    /\ \A t \in Threads : reached[t] \in 0 .. Points[t] - 1
    /\ ran \in Nat

(* The ring has no branch and no inner loop, while several threads link    *)
(* new ones, also between the two assignments that do: a set of threads    *)
(* closed under next is empty or all of them, and no two of them got the   *)
(* same id.                                                                *)
RingIsWhole ==
    /\ TypeOK
    /\ \A t, u \in Linked : t # u => id[t] # id[u]
    /\ \A S \in SUBSET Linked :
          S # {} /\ (\A t \in S : next[t] \in S) => S = Linked

(* The code that executes is the thread the scheduler believes in, at the  *)
(* point where it was interrupted, or at its entry point: no switch        *)
(* resumes a stale frame, another thread's frame or an rsp never saved.    *)
ResumesWhereItLeft ==
    handler = NONE =>
        cpu = [thread |-> current_thread, at |-> reached[current_thread]]

(* "switch every 10 timer ticks": counted from when there was a second     *)
(* thread, a slice is exactly SCHED_SLICE ticks long.                      *)
SlicesAreFull ==
    [][current_thread' # current_thread => ran + 1 = SCHED_SLICE]_vars

(* Round robin starves no thread: each one of the ring executes again and  *)
(* again, also while others create threads.                                *)
EveryThreadRuns ==
    \A t \in Threads : t \in Linked ~> Running(t)
=============================================================================
