------------------------------- MODULE Console ------------------------------
(***************************************************************************)
(* printk, panic and the exception handler (lib/printk.c, lib/panic.c,     *)
(* isr_handler in arch/idt.c) over the spinlocks of module Spinlock, on    *)
(* the one CPU the kernel starts.                                          *)
(*                                                                         *)
(* A message is a number of characters put while printk_lock is held; its  *)
(* formatting is left out.  A thread may print or panic with heap_lock     *)
(* held.  The timer may preempt a thread at every step with IF set, and an *)
(* exception (an NMI, a machine check, a fault) may come at any step.      *)
(*                                                                         *)
(* The first printk, which initialises the lock, runs at boot, before      *)
(* there are threads or an IDT: the model starts after it.                 *)
(***************************************************************************)
EXTENDS Naturals

CONSTANTS Threads, cpu,
          heap_lock, printk_lock,
          Length,          \* characters of a message
          BannerLines,     \* messages of panic_impl
          ExceptionLines   \* messages of isr_handler

ASSUME ConsoleAssumption ==
    /\ heap_lock # printk_lock
    /\ Length \in Nat \ {0} /\ BannerLines \in Nat /\ ExceptionLines \in Nat

VARIABLES
    locked, rflags, intr, current, pc, want, flags, held, before,  \* Spinlock's
    mode,      \* what a thread is doing: "work", or a way to the halt
    lines,     \* messages it still has to print before it halts
    left,      \* characters left of the message it is printing
    screen,    \* the last character written to the terminal, and by whom
    excepted   \* bound: the one exception has come

lockvars == <<locked, rflags, intr, current, pc, want, flags, held, before>>
vars == <<lockvars, mode, lines, left, screen, excepted>>

S == INSTANCE Spinlock WITH
    Cpus <- {cpu}, Home <- [t \in Threads |-> cpu],
    Locks <- {heap_lock, printk_lock},
    Rank <- [l \in {heap_lock, printk_lock} |-> IF l = heap_lock THEN 1 ELSE 2]

Nothing == [from |-> "boot"]

Init ==
    /\ S!Init
    /\ mode = [t \in Threads |-> "work"]
    /\ lines = [t \in Threads |-> 0] /\ left = [t \in Threads |-> 0]
    /\ screen = Nothing /\ excepted = FALSE

-----------------------------------------------------------------------------
(* printk *)

Printing(t) == printk_lock \in held[t]
Free(t, m) == S!At(t, "run") /\ mode[t] = m /\ ~Printing(t)

Start(t) ==
    /\ S!SaveFlags(t, printk_lock)
    /\ left' = [left EXCEPT ![t] = Length]
    /\ UNCHANGED <<mode, screen, excepted>>

Printk(t) == Free(t, "work") /\ Start(t) /\ UNCHANGED lines

\* The next message of panic_impl or isr_handler.
NextLine(t) ==
    /\ Free(t, "banner") \/ Free(t, "isr")
    /\ lines[t] > 0 /\ lines' = [lines EXCEPT ![t] = @ - 1]
    /\ Start(t)

PutChar(t) ==
    /\ S!At(t, "run") /\ Printing(t) /\ left[t] > 0
    /\ left' = [left EXCEPT ![t] = @ - 1]
    /\ screen' = [from |-> mode[t], thread |-> t, left |-> left[t] - 1]
    /\ UNCHANGED <<lockvars, mode, lines, excepted>>

EachChar(t) ==  \* Faulty: the lock is released after every character.
    /\ Printing(t) /\ S!LoadFlags(t, printk_lock)
    /\ UNCHANGED <<mode, lines, left, screen, excepted>>

KeepLock(t) ==  \* Faulty: a return that forgets the release.
    /\ S!At(t, "run") /\ Printing(t) /\ left[t] = 0
    /\ held' = [held EXCEPT ![t] = @ \ {printk_lock}]
    /\ UNCHANGED <<locked, rflags, intr, current, pc, want, flags, before,
                   mode, lines, left, screen, excepted>>

EndPrintk(t) ==
    /\ left[t] = 0 /\ S!LoadFlags(t, printk_lock)
    /\ UNCHANGED <<mode, lines, left, screen, excepted>>

\* The other instructions of acquire and release.
LockStep(t) ==
    /\ \/ S!DisableInterrupts(t) \/ S!TestAndSet(t) \/ S!StoreFlags(t)
       \/ S!ClearLock(t) \/ S!RestoreFlags(t)
    /\ UNCHANGED <<mode, lines, left, screen, excepted>>

-----------------------------------------------------------------------------
(* What else a thread does *)

LockHeap(t) ==
    /\ Free(t, "work") /\ S!SaveFlags(t, heap_lock)
    /\ UNCHANGED <<mode, lines, left, screen, excepted>>

UnlockHeap(t) ==
    /\ Free(t, "work") /\ S!LoadFlags(t, heap_lock)
    /\ UNCHANGED <<mode, lines, left, screen, excepted>>

SetInterrupts(t, on) ==
    /\ Free(t, "work") /\ S!SetInterrupts(t, on)
    /\ UNCHANGED <<mode, lines, left, screen, excepted>>

PreemptTo(t) ==
    /\ S!Preempt(cpu) /\ current'[cpu] = t
    /\ UNCHANGED <<mode, lines, left, screen, excepted>>

-----------------------------------------------------------------------------
(* panic_impl and isr_handler *)

Become(t, m, n) == mode' = [mode EXCEPT ![t] = m] /\ lines' = [lines EXCEPT ![t] = n]

Panic(t) ==
    /\ Free(t, "work") /\ Become(t, "panic", 0)
    /\ UNCHANGED <<lockvars, left, screen, excepted>>

SkipCli(t) ==  \* Faulty: panic without cli.
    /\ Free(t, "panic") /\ Become(t, "unlock", 0)
    /\ UNCHANGED <<lockvars, left, screen, excepted>>

PanicCli(t) ==
    /\ Free(t, "panic") /\ Become(t, "unlock", 0)
    /\ intr' = [intr EXCEPT ![cpu] = FALSE]
    /\ UNCHANGED <<locked, rflags, current, pc, want, flags, held, before,
                   left, screen, excepted>>

printk_force_unlock(t) ==
    /\ Free(t, "unlock") /\ Become(t, "banner", BannerLines)
    /\ locked' = [locked EXCEPT ![printk_lock] = FALSE]
    /\ UNCHANGED <<rflags, intr, current, pc, want, flags, held, before,
                   left, screen, excepted>>

\* An interrupt gate: IF is cleared.  The handler never returns to the code
\* it interrupted, so that code releases none of the locks it holds.
Exception(t) ==
    /\ current[cpu] = t /\ mode[t] # "halt"
    /\ ~excepted /\ excepted' = TRUE
    /\ Become(t, "isr", ExceptionLines) /\ left' = [left EXCEPT ![t] = 0]
    /\ intr' = [intr EXCEPT ![cpu] = FALSE]
    /\ pc' = [pc EXCEPT ![t] = "run"] /\ held' = [held EXCEPT ![t] = {}]
    /\ UNCHANGED <<locked, rflags, current, want, flags, before, screen>>

Halt(t) ==
    /\ Free(t, "banner") \/ Free(t, "isr")
    /\ lines[t] = 0 /\ Become(t, "halt", 0)
    /\ intr' = [intr EXCEPT ![cpu] = FALSE]
    /\ UNCHANGED <<locked, rflags, current, pc, want, flags, held, before,
                   left, screen, excepted>>

-----------------------------------------------------------------------------
\* What a thread does without a choice of its own.
Step(t) ==
    \/ PutChar(t) \/ EndPrintk(t) \/ LockStep(t)
    \/ NextLine(t) \/ PanicCli(t) \/ printk_force_unlock(t) \/ Halt(t)

Next ==
    \E t \in Threads :
        \/ Step(t) \/ Printk(t) \/ LockHeap(t) \/ UnlockHeap(t)
        \/ \E on \in BOOLEAN : SetInterrupts(t, on)
        \/ PreemptTo(t) \/ Panic(t) \/ Exception(t)

Spec == Init /\ [][Next]_vars

(* The CPU executes; a critical section of the heap ends; the scheduler    *)
(* starves nobody; interrupts that were turned off are turned on again.    *)
FairSpec ==
    /\ Spec
    /\ \A t \in Threads :
        /\ SF_vars(Step(t)) /\ SF_vars(UnlockHeap(t))
        /\ SF_vars(PreemptTo(t)) /\ SF_vars(SetInterrupts(t, TRUE))

-----------------------------------------------------------------------------
(* Properties *)

(* The messages of printk are never mixed nor cut short by another one,    *)
(* whoever prints, panics or takes an exception when: a character follows  *)
(* the one before it in its message, or begins one after the last ended.   *)
MessagesWhole ==
    [][screen' # screen =>
         IF screen = Nothing \/ screen.left = 0 THEN screen'.left = Length - 1
         ELSE screen' = [screen EXCEPT !.left = @ - 1]]_vars

(* Once a report of a panic or an exception has begun, no other thread     *)
(* writes to the terminal: nothing follows it there, nor cuts into it.     *)
ReportIsLast ==
    [][screen' # screen /\ screen.from \in {"banner", "isr"} =>
         screen'.thread = screen.thread]_vars

Halted == \E t \in Threads : mode[t] = "halt"

(* Every report ends, and with it the machine: that of a panic, also with  *)
(* heap_lock held or preempted on its way to the cli, and that of an       *)
(* exception outside of printk.  Inside of it, isr_handler would wait for  *)
(* a lock that its own CPU holds.                                          *)
ReportsEnd ==
    /\ (\E t \in Threads : mode[t] = "panic") ~> Halted \/ excepted
    /\ (excepted /\ ~locked[printk_lock]) ~> Halted
=============================================================================
