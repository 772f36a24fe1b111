------------------------------ MODULE Spinlock ------------------------------
(***************************************************************************)
(* The interrupt-saving spinlock of lib/spinlock.c and the threads that    *)
(* use it.  An acquire saves the interrupt flag (IF) with pushfq, disables *)
(* interrupts with cli, spins on test-and-set and then stores the saved    *)
(* flag IN THE LOCK; a release reads it back, clears the lock word and     *)
(* restores IF with popfq.  Every one of these instructions is a step of   *)
(* its own, because a timer interrupt may preempt a thread before cli and  *)
(* because another CPU may run between any two of them.                    *)
(*                                                                         *)
(* Two locks exist in the kernel, heap_lock and printk_lock.  They nest in *)
(* one direction only: code holding heap_lock may print (mm/heap.c,        *)
(* mm/vmm.c), code holding printk_lock never allocates.  Rank is that      *)
(* order.  The kernel starts one CPU; the lock word is atomic so that it   *)
(* would serve several, and Cpus is a parameter to check that promise.     *)
(***************************************************************************)
EXTENDS Naturals

CONSTANTS Cpus,     \* processors
          Threads,  \* kernel threads
          Home,     \* the processor that runs a thread
          Locks,    \* spinlock_t objects
          Rank      \* position of a lock in the nesting order

ASSUME HomeAssumption == Home \in [Threads -> Cpus]
ASSUME RankAssumption ==
    /\ Rank \in [Locks -> Nat]
    /\ \A l, m \in Locks : Rank[l] = Rank[m] => l = m
ASSUME BootAssumption == \A c \in Cpus : \E t \in Threads : Home[t] = c

VARIABLES
    locked,   \* lock->locked
    rflags,   \* the IF bit of lock->rflags
    intr,     \* the IF bit of each CPU
    current,  \* the thread each CPU is executing
    pc,       \* the next instruction of a thread inside acquire or release
    want,     \* the lock a thread is acquiring or releasing
    flags,    \* the local variable rflags of acquire and release
    held,     \* the locks whose test-and-set a thread has won
    before    \* history: IF when the thread entered acquire(lock)

vars == <<locked, rflags, intr, current, pc, want, flags, held, before>>

Pc == {"run", "cli", "spin", "store", "clear", "popf"}

TypeOK ==
    /\ locked \in [Locks -> BOOLEAN]
    /\ rflags \in [Locks -> BOOLEAN]
    /\ intr \in [Cpus -> BOOLEAN]
    /\ current \in [Cpus -> Threads]
    /\ \A c \in Cpus : Home[current[c]] = c
    /\ pc \in [Threads -> Pc]
    /\ want \in [Threads -> Locks]
    /\ flags \in [Threads -> BOOLEAN]
    /\ held \in [Threads -> SUBSET Locks]
    /\ before \in [Threads -> [Locks -> BOOLEAN]]

(* spinlock_init; every CPU leaves the boot loader with interrupts off.    *)
Init ==
    /\ locked = [l \in Locks |-> FALSE]
    /\ rflags = [l \in Locks |-> FALSE]
    /\ intr = [c \in Cpus |-> FALSE]
    /\ current \in [Cpus -> Threads]
    /\ \A c \in Cpus : Home[current[c]] = c
    /\ pc = [t \in Threads |-> "run"]
    /\ want \in [Threads -> Locks]
    /\ flags = [t \in Threads |-> FALSE]
    /\ held = [t \in Threads |-> {}]
    /\ before = [t \in Threads |-> [l \in Locks |-> FALSE]]

At(t, p) == current[Home[t]] = t /\ pc[t] = p
Goto(t, p) == pc' = [pc EXCEPT ![t] = p]
IntrOn(t) == intr[Home[t]]

(* l nests inside every lock the thread already holds. *)
Nests(t, l) == \A h \in held[t] : Rank[h] < Rank[l]

-----------------------------------------------------------------------------
(* spinlock_acquire *)

(* Faulty: the flag is written into the lock before the lock is won. *)
SaveFlagsInLock(t, l) ==
    /\ At(t, "run")
    /\ Nests(t, l)
    /\ flags' = [flags EXCEPT ![t] = IntrOn(t)]
    /\ rflags' = [rflags EXCEPT ![l] = IntrOn(t)]
    /\ before' = [before EXCEPT ![t][l] = IntrOn(t)]
    /\ want' = [want EXCEPT ![t] = l]
    /\ Goto(t, "cli")
    /\ UNCHANGED <<locked, intr, current, held>>

(* pushfq; pop rflags *)
SaveFlags(t, l) ==
    /\ At(t, "run")
    /\ Nests(t, l)
    /\ flags' = [flags EXCEPT ![t] = IntrOn(t)]
    /\ before' = [before EXCEPT ![t][l] = IntrOn(t)]
    /\ want' = [want EXCEPT ![t] = l]
    /\ Goto(t, "cli")
    /\ UNCHANGED <<locked, rflags, intr, current, held>>

(* cli *)
DisableInterrupts(t) ==
    /\ At(t, "cli")
    /\ intr' = [intr EXCEPT ![Home[t]] = FALSE]
    /\ Goto(t, "spin")
    /\ UNCHANGED <<locked, rflags, current, want, flags, held, before>>

(* Faulty: the result of the test-and-set is ignored. *)
AlwaysFree(l) == l \in Locks

(* One round of the loop that finds the lock free; a round that finds it   *)
(* taken changes nothing and is a stuttering step.                         *)
Free(l) == ~locked[l]

TestAndSet(t) ==
    /\ At(t, "spin")
    /\ Free(want[t])
    /\ locked' = [locked EXCEPT ![want[t]] = TRUE]
    /\ held' = [held EXCEPT ![t] = @ \cup {want[t]}]
    /\ Goto(t, "store")
    /\ UNCHANGED <<rflags, intr, current, want, flags, before>>

(* lock->rflags = rflags *)
StoreFlags(t) ==
    /\ At(t, "store")
    /\ rflags' = [rflags EXCEPT ![want[t]] = flags[t]]
    /\ Goto(t, "run")
    /\ UNCHANGED <<locked, intr, current, want, flags, held, before>>

-----------------------------------------------------------------------------
(* spinlock_release: callers release the lock they took last. *)

Innermost(t, l) == l \in held[t] /\ \A h \in held[t] : Rank[h] <= Rank[l]

(* Faulty: IF is restored before the lock is cleared. *)
RestoreEarly(t, l) ==
    /\ At(t, "run")
    /\ Innermost(t, l)
    /\ want' = [want EXCEPT ![t] = l]
    /\ flags' = [flags EXCEPT ![t] = rflags[l]]
    /\ intr' = [intr EXCEPT ![Home[t]] = rflags[l]]
    /\ Goto(t, "clear")
    /\ UNCHANGED <<locked, rflags, current, held, before>>

(* uint64_t rflags = lock->rflags *)
LoadFlags(t, l) ==
    /\ At(t, "run")
    /\ Innermost(t, l)
    /\ want' = [want EXCEPT ![t] = l]
    /\ flags' = [flags EXCEPT ![t] = rflags[l]]
    /\ Goto(t, "clear")
    /\ UNCHANGED <<locked, rflags, intr, current, held, before>>

(* __atomic_clear(&lock->locked) *)
ClearLock(t) ==
    /\ At(t, "clear")
    /\ locked' = [locked EXCEPT ![want[t]] = FALSE]
    /\ held' = [held EXCEPT ![t] = @ \ {want[t]}]
    /\ Goto(t, "popf")
    /\ UNCHANGED <<rflags, intr, current, want, flags, before>>

(* Faulty: release ends with sti instead of popfq. *)
EnableInterrupts(t) ==
    /\ At(t, "popf")
    /\ intr' = [intr EXCEPT ![Home[t]] = TRUE]
    /\ Goto(t, "run")
    /\ UNCHANGED <<locked, rflags, current, want, flags, held, before>>

(* push rflags; popfq *)
RestoreFlags(t) ==
    /\ At(t, "popf")
    /\ intr' = [intr EXCEPT ![Home[t]] = flags[t]]
    /\ Goto(t, "run")
    /\ UNCHANGED <<locked, rflags, current, want, flags, held, before>>

-----------------------------------------------------------------------------
(* The callers and the scheduler *)

(* The explicit sti and cli of the kernel's own loops, thread_create and   *)
(* sleeps; none of them sits inside a critical section.                    *)
SetInterrupts(t, on) ==
    /\ At(t, "run")
    /\ held[t] = {}
    /\ intr' = [intr EXCEPT ![Home[t]] = on]
    /\ UNCHANGED <<locked, rflags, current, pc, want, flags, held, before>>

(* A timer interrupt, delivered only while IF is set, resumes another      *)
(* thread of the CPU.  The resumed frame has IF set: it was interrupted    *)
(* itself, or it is a new thread's (frame->rflags = 0x202).                *)
Preemptible(c) == intr[c]

Preempt(c) ==
    /\ Preemptible(c)
    /\ \E t \in Threads :
          /\ Home[t] = c
          /\ t # current[c]
          /\ current' = [current EXCEPT ![c] = t]
    /\ UNCHANGED <<locked, rflags, intr, pc, want, flags, held, before>>

Acquire(t) ==
    \/ \E l \in Locks : SaveFlags(t, l)
    \/ DisableInterrupts(t)
    \/ TestAndSet(t)
    \/ StoreFlags(t)

Release(t) ==
    \/ \E l \in Locks : LoadFlags(t, l)
    \/ ClearLock(t)
    \/ RestoreFlags(t)

Next ==
    \/ \E t \in Threads : Acquire(t) \/ Release(t)
    \/ \E t \in Threads, on \in BOOLEAN : SetInterrupts(t, on)
    \/ \E c \in Cpus : Preempt(c)

Spec == Init /\ [][Next]_vars

-----------------------------------------------------------------------------
(* Properties *)

(* At most one thread is inside a critical section of a lock, and the lock *)
(* word says whether there is one: the test-and-set and the clear of       *)
(* spinlock.c keep the word and the ownership in step.                     *)
MutualExclusion ==
    /\ \A t, u \in Threads : t # u => held[t] \cap held[u] = {}
    /\ \A l \in Locks : locked[l] <=> \E t \in Threads : l \in held[t]

(* The owner of a lock is always executing, with interrupts off: it cannot *)
(* be preempted between cli and popfq, however acquires nest.  A popfq of  *)
(* an inner release that turned IF on too early would break it.            *)
HolderNotPreemptible ==
    \A t \in Threads :
        held[t] # {} => current[Home[t]] = t /\ ~IntrOn(t)

(* A thread only ever spins for an owner that is executing on ANOTHER      *)
(* processor, and so goes on: it never spins for one that was preempted    *)
(* on its own, at any instruction of acquire or release and however the    *)
(* locks are nested.  The one CPU the kernel starts never spins.           *)
SpinsOnlyForAnotherCpu ==
    \A t \in Threads :
        pc[t] = "spin" /\ locked[want[t]] =>
            \E u \in Threads :
                /\ want[t] \in held[u]
                /\ Home[u] # Home[t]
                /\ current[Home[u]] = u

(* release() leaves IF "exactly what it was before acquire()", as          *)
(* spinlock.c says, although the saved flag lives in the lock and other    *)
(* CPUs may take the lock between the clear and the popfq.                 *)
RestoresInterrupts ==
    [][\A t \in Threads :
          pc[t] = "popf" /\ pc'[t] = "run" =>
              intr'[Home[t]] = before[t][want[t]]]_vars
=============================================================================
