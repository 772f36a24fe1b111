---------------------------- MODULE ConsoleProofs ---------------------------
(***************************************************************************)
(* For any number of threads and lengths of messages and reports: messages *)
(* stay whole and a report is the last thing written.                      *)
(*                                                                         *)
(* The theorems of SpinlockProofs do not carry over: panic takes the lock  *)
(* from whoever has it, and an exception leaves locks held by nobody.  Inv *)
(* says why this is safe on one CPU.  A thread with a lock, or past panic's*)
(* cli, is never preempted, so nobody else can be in the middle of a       *)
(* message when a panic breaks the lock; and a message that an exception   *)
(* cut short keeps the lock taken for ever, since the handler that runs    *)
(* then never unlocks by force.                                            *)
(***************************************************************************)
EXTENDS Console, TLAPS

Modes == {"work", "panic", "unlock", "banner", "isr", "halt"}
Held == {heap_lock, printk_lock}

TypeOK ==
    /\ locked \in [Held -> BOOLEAN] /\ rflags \in [Held -> BOOLEAN]
    /\ intr \in [{cpu} -> BOOLEAN] /\ current \in [{cpu} -> Threads]
    /\ pc \in [Threads -> {"run", "cli", "spin", "store", "clear", "popf"}]
    /\ want \in [Threads -> Held] /\ flags \in [Threads -> BOOLEAN]
    /\ held \in [Threads -> SUBSET Held]
    /\ mode \in [Threads -> Modes]
    /\ lines \in [Threads -> Nat]
    /\ left \in [Threads -> 0 .. Length]
    /\ screen \in {Nothing} \cup [from : Modes, thread : Threads, left : 0 .. Length - 1]
    /\ excepted \in BOOLEAN

Executes(t) == current[cpu] = t
Masked == ~intr[cpu]

(* From panic's cli and from the exception on, a thread goes nowhere else. *)
Ending(t) == mode[t] \in {"unlock", "banner", "isr", "halt"}

(* Who is in a critical section, or ending, is not preempted. *)
Undisturbed ==
    \A t \in Threads :
        pc[t] \notin {"run", "cli"} \/ held[t] # {} \/ Ending(t) =>
            Executes(t) /\ Masked

(* Inside of acquire and release. *)
Position ==
    \A t \in Threads :
        /\ pc[t] \in {"cli", "spin", "popf"} =>
              /\ printk_lock \notin held[t]
              /\ want[t] = heap_lock => held[t] = {}
        /\ pc[t] \in {"store", "clear"} =>
              /\ want[t] \in held[t]
              /\ want[t] = heap_lock => ~Printing(t)

(* What is locked or ending otherwise goes on masked after a release. *)
Bound(t) == heap_lock \in held[t] \/ Ending(t)
InnerFlags ==
    \A t \in Threads :
        /\ pc[t] # "run" /\ (Ending(t) \/ (want[t] = printk_lock /\ heap_lock \in held[t]))
              => ~flags[t]
        /\ Printing(t) /\ Bound(t) /\ ~(pc[t] = "store" /\ want[t] = printk_lock)
              => ~rflags[printk_lock]

(* A whole number of messages is on the screen. *)
Whole == screen = Nothing \/ screen.left = 0

(* Where the message being printed is. *)
Message ==
    \A t \in Threads :
        /\ pc[t] \in {"cli", "spin"} /\ want[t] = printk_lock => left[t] = Length
        /\ pc[t] = "clear" /\ want[t] = printk_lock => left[t] = 0
        /\ Printing(t) =>
              /\ locked[printk_lock]
              /\ \/ left[t] = Length /\ Whole
                 \/ left[t] < Length
                    /\ screen = [from |-> mode[t], thread |-> t, left |-> left[t]]

(* Half a message: it is being printed, or an exception has cut it short.  *)
Half ==
    ~Whole => \/ Printing(current[cpu])
              \/ locked[printk_lock] /\ mode[current[cpu]] \in {"isr", "halt"}

(* A report belongs to a thread that is ending. *)
Reported ==
    screen.from \in {"banner", "isr"} => mode[screen.thread] \in {"banner", "isr", "halt"}

Inv ==
    /\ TypeOK /\ Undisturbed /\ Position /\ InnerFlags
    /\ Message /\ Half /\ Reported

(* A character of a message is printed: the lock is held, so only half a    *)
(* message moves on.                                                        *)
LEMMA PutCharKept ==
    ASSUME Inv, NEW t \in Threads,
           PutChar(t)
    PROVE  Inv'
<1>0. /\ pc[t] = "run"
      /\ Executes(t)
      /\ Printing(t)
      /\ left[t] > 0
      /\ left' = [left EXCEPT ![t] = @ - 1]
      /\ screen' = [from |-> mode[t], thread |-> t, left |-> left[t] - 1]
      /\ UNCHANGED <<locked, rflags, intr, current, pc, want, flags, held, mode, lines, excepted>>
  BY ConsoleAssumption DEF PutChar, lockvars, S!At, S!Goto, Executes
<1>1. TypeOK'
  BY <1>0, ConsoleAssumption DEF Inv, TypeOK
<1>2. Undisturbed'
  BY <1>0, ConsoleAssumption DEF Inv, Undisturbed, Executes, Masked, Ending
<1>3. Position'
  BY <1>0, ConsoleAssumption DEF Inv, Position, Printing
<1>4. InnerFlags'
  BY <1>0, ConsoleAssumption DEF Inv, InnerFlags, Ending, Printing, Bound
<1>5. Message'
  BY <1>0, ConsoleAssumption
     DEF Inv, TypeOK, Message, Undisturbed, Executes, Printing
<1>6. Half'
  BY <1>0, ConsoleAssumption DEF Inv, Half, Executes, Printing
<1>7. Reported'
  BY <1>0, ConsoleAssumption DEF Inv, Reported
<1> QED
  BY <1>1, <1>2, <1>3, <1>4, <1>5, <1>6, <1>7 DEF Inv

(* A release begins: what is still locked inside keeps interrupts off.      *)
LEMMA LoadFlagsKept ==
    ASSUME Inv, NEW t \in Threads,
           EndPrintk(t) \/ UnlockHeap(t)
    PROVE  Inv'
<1>0. /\ pc[t] = "run"
      /\ Executes(t)
      /\ want'[t] \in held[t]
      /\ \A u \in Threads \ {t} : want'[u] = want[u]
      /\ want' \in [Threads -> Held]
      /\ want'[t] = printk_lock => left[t] = 0
      /\ want'[t] = heap_lock => mode[t] = "work" /\ ~Printing(t)
      /\ flags' = [flags EXCEPT ![t] = rflags[want'[t]]]
      /\ pc' = [pc EXCEPT ![t] = "clear"]
      /\ UNCHANGED <<locked, rflags, intr, current, held, mode, lines, left, screen, excepted>>
  BY ConsoleAssumption
     DEF EndPrintk, UnlockHeap, S!LoadFlags, S!Innermost, Free, S!At, S!Goto,
         Executes, Inv, TypeOK
<1>1. TypeOK'
  BY <1>0, ConsoleAssumption DEF Inv, TypeOK
<1>2. Undisturbed'
  BY <1>0, ConsoleAssumption DEF Inv, Undisturbed, Executes, Masked, Ending
<1>3. Position'
  BY <1>0, ConsoleAssumption DEF Inv, Position, Printing
<1>4. InnerFlags'
  BY <1>0, ConsoleAssumption
     DEF Inv, TypeOK, InnerFlags, Ending, Printing, Held, Bound
<1>5. Message'
  BY <1>0, ConsoleAssumption DEF Inv, Message, Printing, Whole
<1>6. Half'
  BY <1>0, ConsoleAssumption DEF Inv, Half, Printing, Whole
<1>7. Reported'
  BY <1>0, ConsoleAssumption DEF Inv, Reported
<1> QED
  BY <1>1, <1>2, <1>3, <1>4, <1>5, <1>6, <1>7 DEF Inv

(* An acquire of printk_lock begins: the flags saved under a lock are       *)
(* "off".                                                                   *)
LEMMA SaveFlagsKept ==
    ASSUME Inv, NEW t \in Threads,
           Printk(t) \/ NextLine(t)
    PROVE  Inv'
<1>0. /\ pc[t] = "run"
      /\ Executes(t)
      /\ ~Printing(t)
      /\ want' = [want EXCEPT ![t] = printk_lock]
      /\ flags' = [flags EXCEPT ![t] = intr[cpu]]
      /\ pc' = [pc EXCEPT ![t] = "cli"]
      /\ left' = [left EXCEPT ![t] = Length]
      /\ lines' \in [Threads -> Nat]
      /\ UNCHANGED <<locked, rflags, intr, current, held, mode, screen, excepted>>
  BY ConsoleAssumption
     DEF Printk, NextLine, Start, S!SaveFlags, S!IntrOn, Free, S!At, S!Goto,
         Executes, Inv, TypeOK
<1>1. TypeOK'
  BY <1>0, ConsoleAssumption DEF Inv, TypeOK, Held
<1>2. Undisturbed'
  BY <1>0, ConsoleAssumption DEF Inv, Undisturbed, Executes, Masked, Ending
<1>3. Position'
  BY <1>0, ConsoleAssumption DEF Inv, TypeOK, Position, Printing
<1>4. InnerFlags'
  BY <1>0, ConsoleAssumption
     DEF Inv, TypeOK, InnerFlags, Undisturbed, Masked, Ending, Printing, Bound
<1>5. Message'
  BY <1>0, ConsoleAssumption DEF Inv, TypeOK, Message, Printing, Whole
<1>6. Half'
  BY <1>0, ConsoleAssumption DEF Inv, Half, Printing, Whole
<1>7. Reported'
  BY <1>0, ConsoleAssumption DEF Inv, Reported
<1> QED
  BY <1>1, <1>2, <1>3, <1>4, <1>5, <1>6, <1>7 DEF Inv

(* An acquire of heap_lock begins: by the nesting nothing is held yet.      *)
LEMMA LockHeapKept ==
    ASSUME Inv, NEW t \in Threads,
           LockHeap(t)
    PROVE  Inv'
<1>0. /\ pc[t] = "run"
      /\ Executes(t)
      /\ mode[t] = "work"
      /\ want' = [want EXCEPT ![t] = heap_lock]
      /\ flags' = [flags EXCEPT ![t] = intr[cpu]]
      /\ pc' = [pc EXCEPT ![t] = "cli"]
      /\ UNCHANGED <<locked, rflags, intr, current, held, mode, lines, left, screen, excepted>>
  BY ConsoleAssumption
     DEF LockHeap, S!SaveFlags, S!IntrOn, Free, S!At, S!Goto, Executes
<1>8. held[t] = {}
  <2>1. \A l \in held[t] : l \in Held
    BY DEF Inv, TypeOK
  <2>2. \A l \in held[t] :
           (IF l = heap_lock THEN 1 ELSE 2) < (IF heap_lock = heap_lock THEN 1 ELSE 2)
    BY <2>1 DEF LockHeap, S!SaveFlags, S!Nests, Held
  <2> QED
    BY <2>2
<1>1. TypeOK'
  BY <1>0, <1>8, ConsoleAssumption DEF Inv, TypeOK, Held
<1>2. Undisturbed'
  BY <1>0, <1>8, ConsoleAssumption DEF Inv, Undisturbed, Executes, Ending
<1>3. Position'
  BY <1>0, <1>8, ConsoleAssumption DEF Inv, Position, Printing
<1>4. InnerFlags'
  BY <1>0, <1>8, ConsoleAssumption DEF Inv, InnerFlags, Ending, Printing, Bound
<1>5. Message'
  BY <1>0, <1>8, ConsoleAssumption DEF Inv, TypeOK, Message, Printing, Whole
<1>6. Half'
  BY <1>0, <1>8, ConsoleAssumption DEF Inv, Half, Printing, Whole
<1>7. Reported'
  BY <1>0, <1>8, ConsoleAssumption DEF Inv, Reported
<1> QED
  BY <1>1, <1>2, <1>3, <1>4, <1>5, <1>6, <1>7 DEF Inv

(* Interrupts go off on the way to the lock.                                *)
LEMMA CliKept ==
    ASSUME Inv, NEW t \in Threads,
           S!DisableInterrupts(t) /\ UNCHANGED <<mode, lines, left, screen, excepted>>
    PROVE  Inv'
<1>0. /\ pc[t] = "cli"
      /\ Executes(t)
      /\ intr' = [intr EXCEPT ![cpu] = FALSE]
      /\ pc' = [pc EXCEPT ![t] = "spin"]
      /\ UNCHANGED <<locked, rflags, current, want, flags, held, mode, lines, left, screen, excepted>>
  BY ConsoleAssumption DEF S!DisableInterrupts, S!At, S!Goto, Executes
<1>1. TypeOK'
  BY <1>0, ConsoleAssumption DEF Inv, TypeOK
<1>2. Undisturbed'
  BY <1>0, ConsoleAssumption
     DEF Inv, TypeOK, Undisturbed, Executes, Masked, Ending
<1>3. Position'
  BY <1>0, ConsoleAssumption DEF Inv, Position, Printing
<1>4. InnerFlags'
  BY <1>0, ConsoleAssumption DEF Inv, InnerFlags, Ending, Printing, Bound
<1>5. Message'
  BY <1>0, ConsoleAssumption DEF Inv, Message, Printing, Whole
<1>6. Half'
  BY <1>0, ConsoleAssumption DEF Inv, Half, Printing, Whole
<1>7. Reported'
  BY <1>0, ConsoleAssumption DEF Inv, Reported
<1> QED
  BY <1>1, <1>2, <1>3, <1>4, <1>5, <1>6, <1>7 DEF Inv

(* The lock was free: the flags stored in it are not yet those of its       *)
(* holder.                                                                  *)
LEMMA TestAndSetKept ==
    ASSUME Inv, NEW t \in Threads,
           S!TestAndSet(t) /\ UNCHANGED <<mode, lines, left, screen, excepted>>
    PROVE  Inv'
<1>0. /\ pc[t] = "spin"
      /\ Executes(t)
      /\ ~locked[want[t]]
      /\ locked' = [locked EXCEPT ![want[t]] = TRUE]
      /\ held' = [held EXCEPT ![t] = @ \cup {want[t]}]
      /\ pc' = [pc EXCEPT ![t] = "store"]
      /\ UNCHANGED <<rflags, intr, current, want, flags, mode, lines, left, screen, excepted>>
  BY ConsoleAssumption DEF S!TestAndSet, S!Free, S!At, S!Goto, Executes
<1>1. TypeOK'
  BY <1>0, ConsoleAssumption DEF Inv, TypeOK
<1>2. Undisturbed'
  BY <1>0, ConsoleAssumption DEF Inv, Undisturbed, Executes, Masked, Ending
<1>3. Position'
  BY <1>0, ConsoleAssumption DEF Inv, TypeOK, Position, Printing
<1>4. InnerFlags'
  <2> SUFFICES ASSUME NEW u \in Threads
               PROVE  /\ pc'[u] # "run" /\ (Ending(u)' \/ (want'[u] = printk_lock /\ heap_lock \in held'[u]))
                            => ~flags'[u]
                      /\ Printing(u)' /\ Bound(u)' /\ ~(pc'[u] = "store" /\ want'[u] = printk_lock)
                            => ~rflags'[printk_lock]
    BY DEF InnerFlags
  <2>1. u # t => pc'[u] \in {"run", "cli"} /\ held'[u] = {}
    BY <1>0 DEF Inv, Undisturbed, Executes
  <2>2. CASE u # t
    BY <1>0, <2>1, <2>2 DEF Inv, InnerFlags, Ending, Printing
  <2>3. CASE u = t /\ want[t] = printk_lock
    BY <1>0, <2>3, ConsoleAssumption DEF Inv, TypeOK, InnerFlags, Ending
  <2>4. CASE u = t /\ want[t] = heap_lock
    BY <1>0, <2>4, ConsoleAssumption
       DEF Inv, InnerFlags, Position, Ending, Printing
  <2> QED
    BY <2>2, <2>3, <2>4 DEF Inv, TypeOK, Held
<1>5. Message'
  BY <1>0, ConsoleAssumption DEF Inv, TypeOK, Message, Half, Printing, Whole
<1>6. Half'
  BY <1>0, ConsoleAssumption DEF Inv, Half, Printing, Whole
<1>7. Reported'
  BY <1>0, ConsoleAssumption DEF Inv, Reported
<1> QED
  BY <1>1, <1>2, <1>3, <1>4, <1>5, <1>6, <1>7 DEF Inv

(* The flags saved in acquire become those of the lock.                     *)
LEMMA StoreFlagsKept ==
    ASSUME Inv, NEW t \in Threads,
           S!StoreFlags(t) /\ UNCHANGED <<mode, lines, left, screen, excepted>>
    PROVE  Inv'
<1>0. /\ pc[t] = "store"
      /\ Executes(t)
      /\ rflags' = [rflags EXCEPT ![want[t]] = flags[t]]
      /\ pc' = [pc EXCEPT ![t] = "run"]
      /\ UNCHANGED <<locked, intr, current, want, flags, held, mode, lines, left, screen, excepted>>
  BY ConsoleAssumption DEF S!StoreFlags, S!At, S!Goto, Executes
<1>1. TypeOK'
  BY <1>0, ConsoleAssumption DEF Inv, TypeOK
<1>2. Undisturbed'
  BY <1>0, ConsoleAssumption DEF Inv, Undisturbed, Executes, Masked, Ending
<1>3. Position'
  BY <1>0, ConsoleAssumption DEF Inv, Position, Printing
<1>4. InnerFlags'
  <2> SUFFICES ASSUME NEW u \in Threads
               PROVE  /\ pc'[u] # "run" /\ (Ending(u)' \/ (want'[u] = printk_lock /\ heap_lock \in held'[u]))
                            => ~flags'[u]
                      /\ Printing(u)' /\ Bound(u)' /\ ~(pc'[u] = "store" /\ want'[u] = printk_lock)
                            => ~rflags'[printk_lock]
    BY DEF InnerFlags
  <2>1. u # t => pc'[u] \in {"run", "cli"} /\ held'[u] = {}
    BY <1>0 DEF Inv, Undisturbed, Executes
  <2>2. CASE u # t
    BY <1>0, <2>1, <2>2 DEF Inv, InnerFlags, Ending, Printing
  <2>3. CASE u = t /\ want[t] = printk_lock
    BY <1>0, <2>3, ConsoleAssumption DEF Inv, TypeOK, InnerFlags, Ending, Bound
  <2>4. CASE u = t /\ want[t] = heap_lock
    BY <1>0, <2>4, ConsoleAssumption
       DEF Inv, InnerFlags, Ending, Printing, Bound
  <2> QED
    BY <2>2, <2>3, <2>4 DEF Inv, TypeOK, Held
<1>5. Message'
  BY <1>0, ConsoleAssumption DEF Inv, Message, Printing, Whole
<1>6. Half'
  BY <1>0, ConsoleAssumption DEF Inv, Half, Printing, Whole
<1>7. Reported'
  BY <1>0, ConsoleAssumption DEF Inv, Reported
<1> QED
  BY <1>1, <1>2, <1>3, <1>4, <1>5, <1>6, <1>7 DEF Inv

(* The lock is freed: its message is whole.                                 *)
LEMMA ClearLockKept ==
    ASSUME Inv, NEW t \in Threads,
           S!ClearLock(t) /\ UNCHANGED <<mode, lines, left, screen, excepted>>
    PROVE  Inv'
<1>0. /\ pc[t] = "clear"
      /\ Executes(t)
      /\ locked' = [locked EXCEPT ![want[t]] = FALSE]
      /\ held' = [held EXCEPT ![t] = @ \ {want[t]}]
      /\ pc' = [pc EXCEPT ![t] = "popf"]
      /\ UNCHANGED <<rflags, intr, current, want, flags, mode, lines, left, screen, excepted>>
  BY ConsoleAssumption DEF S!ClearLock, S!At, S!Goto, Executes
<1>1. TypeOK'
  BY <1>0, ConsoleAssumption DEF Inv, TypeOK
<1>2. Undisturbed'
  BY <1>0, ConsoleAssumption DEF Inv, Undisturbed, Executes, Masked, Ending
<1>3. Position'
  BY <1>0, ConsoleAssumption DEF Inv, TypeOK, Position, Printing, Held
<1>4. InnerFlags'
  BY <1>0, ConsoleAssumption DEF Inv, InnerFlags, Ending, Printing, Bound
<1>5. Message'
  BY <1>0, ConsoleAssumption
     DEF Inv, TypeOK, Message, Undisturbed, Executes, Printing, Whole
<1>6. Half'
  BY <1>0, ConsoleAssumption DEF Inv, Message, Half, Position, Printing, Whole
<1>7. Reported'
  BY <1>0, ConsoleAssumption DEF Inv, Reported
<1> QED
  BY <1>1, <1>2, <1>3, <1>4, <1>5, <1>6, <1>7 DEF Inv

(* The flags loaded from the lock come back: "on" only for the outermost    *)
(* one.                                                                     *)
LEMMA PopfKept ==
    ASSUME Inv, NEW t \in Threads,
           S!RestoreFlags(t) /\ UNCHANGED <<mode, lines, left, screen, excepted>>
    PROVE  Inv'
<1>0. /\ pc[t] = "popf"
      /\ Executes(t)
      /\ intr' = [intr EXCEPT ![cpu] = flags[t]]
      /\ pc' = [pc EXCEPT ![t] = "run"]
      /\ UNCHANGED <<locked, rflags, current, want, flags, held, mode, lines, left, screen, excepted>>
  BY ConsoleAssumption DEF S!RestoreFlags, S!At, S!Goto, Executes
<1>1. TypeOK'
  BY <1>0, ConsoleAssumption DEF Inv, TypeOK
<1>2. Undisturbed'
  <2> SUFFICES ASSUME NEW u \in Threads, pc'[u] \notin {"run", "cli"} \/ held'[u] # {} \/ Ending(u)'
               PROVE  Executes(u)' /\ Masked'
    BY DEF Undisturbed
  <2>1. pc[u] \notin {"run", "cli"} \/ held[u] # {} \/ Ending(u)
    BY <1>0 DEF Inv, Ending
  <2>2. u = t
    BY <1>0, <2>1 DEF Inv, Undisturbed, Executes
  <2>3. held[t] # {} => want[t] = printk_lock /\ heap_lock \in held[t]
    BY <1>0 DEF Inv, TypeOK, Position, Held
  <2>4. ~flags[t]
    BY <1>0, <2>2, <2>3 DEF Inv, TypeOK, InnerFlags, Ending
  <2> QED
    BY <1>0, <2>2, <2>4 DEF Inv, TypeOK, Executes, Masked
<1>3. Position'
  BY <1>0, ConsoleAssumption DEF Inv, Position, Printing
<1>4. InnerFlags'
  BY <1>0, ConsoleAssumption DEF Inv, InnerFlags, Ending, Printing, Bound
<1>5. Message'
  BY <1>0, ConsoleAssumption DEF Inv, Message, Printing, Whole
<1>6. Half'
  BY <1>0, ConsoleAssumption DEF Inv, Half, Printing, Whole
<1>7. Reported'
  BY <1>0, ConsoleAssumption DEF Inv, Reported
<1> QED
  BY <1>1, <1>2, <1>3, <1>4, <1>5, <1>6, <1>7 DEF Inv

(* Interrupts are switched only by a thread with no lock that is not        *)
(* ending.                                                                  *)
LEMMA SetInterruptsKept ==
    ASSUME Inv, NEW t \in Threads,
           \E on \in BOOLEAN : SetInterrupts(t, on)
    PROVE  Inv'
<1>0. /\ pc[t] = "run"
      /\ Executes(t)
      /\ mode[t] = "work"
      /\ held[t] = {}
      /\ intr' \in [{cpu} -> BOOLEAN]
      /\ UNCHANGED <<locked, rflags, current, pc, want, flags, held, mode, lines, left, screen, excepted>>
  BY ConsoleAssumption
     DEF SetInterrupts, S!SetInterrupts, Free, S!At, S!Goto, Executes, Inv,
         TypeOK
<1>1. TypeOK'
  BY <1>0, ConsoleAssumption DEF Inv, TypeOK
<1>2. Undisturbed'
  BY <1>0, ConsoleAssumption DEF Inv, Undisturbed, Executes, Ending
<1>3. Position'
  BY <1>0, ConsoleAssumption DEF Inv, Position, Printing
<1>4. InnerFlags'
  BY <1>0, ConsoleAssumption DEF Inv, InnerFlags, Ending, Printing, Bound
<1>5. Message'
  BY <1>0, ConsoleAssumption DEF Inv, Message, Printing, Whole
<1>6. Half'
  BY <1>0, ConsoleAssumption DEF Inv, Half, Printing, Whole
<1>7. Reported'
  BY <1>0, ConsoleAssumption DEF Inv, Reported
<1> QED
  BY <1>1, <1>2, <1>3, <1>4, <1>5, <1>6, <1>7 DEF Inv

(* With interrupts on, the current thread has no lock and is not ending.    *)
LEMMA PreemptKept ==
    ASSUME Inv, NEW t \in Threads,
           PreemptTo(t)
    PROVE  Inv'
<1>0. /\ ~Masked
      /\ current' \in [{cpu} -> Threads]
      /\ UNCHANGED <<locked, rflags, intr, pc, want, flags, held, mode, lines, left, screen, excepted>>
  BY ConsoleAssumption
     DEF PreemptTo, S!Preempt, S!Preemptible, Masked, S!At, S!Goto, Executes,
         Inv, TypeOK
<1>1. TypeOK'
  BY <1>0, ConsoleAssumption DEF Inv, TypeOK
<1>2. Undisturbed'
  BY <1>0, ConsoleAssumption DEF Inv, Undisturbed, Ending
<1>3. Position'
  BY <1>0, ConsoleAssumption DEF Inv, Position, Printing
<1>4. InnerFlags'
  BY <1>0, ConsoleAssumption DEF Inv, InnerFlags, Ending, Printing, Bound
<1>5. Message'
  BY <1>0, ConsoleAssumption DEF Inv, Message, Printing, Whole
<1>6. Half'
  BY <1>0, ConsoleAssumption
     DEF Inv, TypeOK, Half, Undisturbed, Ending, Printing, Whole
<1>7. Reported'
  BY <1>0, ConsoleAssumption DEF Inv, Reported
<1> QED
  BY <1>1, <1>2, <1>3, <1>4, <1>5, <1>6, <1>7 DEF Inv

(* A thread turns to panic.                                                 *)
LEMMA PanicKept ==
    ASSUME Inv, NEW t \in Threads,
           Panic(t)
    PROVE  Inv'
<1>0. /\ pc[t] = "run"
      /\ Executes(t)
      /\ mode[t] = "work"
      /\ ~Printing(t)
      /\ mode' = [mode EXCEPT ![t] = "panic"]
      /\ lines' = [lines EXCEPT ![t] = 0]
      /\ UNCHANGED <<locked, rflags, intr, current, pc, want, flags, held, left, screen, excepted>>
  BY ConsoleAssumption
     DEF Panic, Become, Free, lockvars, S!At, S!Goto, Executes
<1>1. TypeOK'
  BY <1>0, ConsoleAssumption DEF Inv, TypeOK, Modes
<1>2. Undisturbed'
  BY <1>0, ConsoleAssumption DEF Inv, Undisturbed, Executes, Masked, Ending
<1>3. Position'
  BY <1>0, ConsoleAssumption DEF Inv, Position, Printing
<1>4. InnerFlags'
  BY <1>0, ConsoleAssumption DEF Inv, InnerFlags, Ending, Printing, Bound
<1>5. Message'
  BY <1>0, ConsoleAssumption DEF Inv, Message, Printing, Whole
<1>6. Half'
  BY <1>0, ConsoleAssumption DEF Inv, Half, Printing, Whole
<1>7. Reported'
  BY <1>0, ConsoleAssumption DEF Inv, Reported
<1> QED
  BY <1>1, <1>2, <1>3, <1>4, <1>5, <1>6, <1>7 DEF Inv

(* From here on the panicking thread is never preempted.                    *)
LEMMA PanicCliKept ==
    ASSUME Inv, NEW t \in Threads,
           PanicCli(t)
    PROVE  Inv'
<1>0. /\ pc[t] = "run"
      /\ Executes(t)
      /\ mode[t] = "panic"
      /\ ~Printing(t)
      /\ mode' = [mode EXCEPT ![t] = "unlock"]
      /\ lines' = [lines EXCEPT ![t] = 0]
      /\ intr' = [intr EXCEPT ![cpu] = FALSE]
      /\ UNCHANGED <<locked, rflags, current, pc, want, flags, held, left, screen, excepted>>
  BY ConsoleAssumption DEF PanicCli, Become, Free, S!At, S!Goto, Executes
<1>1. TypeOK'
  BY <1>0, ConsoleAssumption DEF Inv, TypeOK, Modes
<1>2. Undisturbed'
  BY <1>0, ConsoleAssumption
     DEF Inv, TypeOK, Undisturbed, Executes, Masked, Ending
<1>3. Position'
  BY <1>0, ConsoleAssumption DEF Inv, Position, Printing
<1>4. InnerFlags'
  BY <1>0, ConsoleAssumption DEF Inv, InnerFlags, Ending, Printing, Bound
<1>5. Message'
  BY <1>0, ConsoleAssumption DEF Inv, Message, Printing, Whole
<1>6. Half'
  BY <1>0, ConsoleAssumption DEF Inv, Half, Printing, Whole
<1>7. Reported'
  BY <1>0, ConsoleAssumption DEF Inv, Reported
<1> QED
  BY <1>1, <1>2, <1>3, <1>4, <1>5, <1>6, <1>7 DEF Inv

(* Nobody is in the middle of a message when panic breaks the lock.         *)
LEMMA ForceUnlockKept ==
    ASSUME Inv, NEW t \in Threads,
           printk_force_unlock(t)
    PROVE  Inv'
<1>0. /\ pc[t] = "run"
      /\ Executes(t)
      /\ mode[t] = "unlock"
      /\ ~Printing(t)
      /\ mode' = [mode EXCEPT ![t] = "banner"]
      /\ lines' = [lines EXCEPT ![t] = BannerLines]
      /\ locked' = [locked EXCEPT ![printk_lock] = FALSE]
      /\ UNCHANGED <<rflags, intr, current, pc, want, flags, held, left, screen, excepted>>
  BY ConsoleAssumption
     DEF printk_force_unlock, Become, Free, S!At, S!Goto, Executes
<1>1. TypeOK'
  BY <1>0, ConsoleAssumption DEF Inv, TypeOK, Modes, Held
<1>2. Undisturbed'
  BY <1>0, ConsoleAssumption DEF Inv, Undisturbed, Executes, Masked, Ending
<1>3. Position'
  BY <1>0, ConsoleAssumption DEF Inv, Position, Printing
<1>4. InnerFlags'
  BY <1>0, ConsoleAssumption DEF Inv, InnerFlags, Ending, Printing, Bound
<1>5. Message'
  BY <1>0, ConsoleAssumption DEF Inv, Message, Undisturbed, Executes, Printing
<1>6. Half'
  BY <1>0, ConsoleAssumption DEF Inv, Half, Executes, Whole
<1>7. Reported'
  BY <1>0, ConsoleAssumption DEF Inv, Reported
<1> QED
  BY <1>1, <1>2, <1>3, <1>4, <1>5, <1>6, <1>7 DEF Inv

(* An exception may cut a message short, and then its lock stays taken.     *)
LEMMA ExceptionKept ==
    ASSUME Inv, NEW t \in Threads,
           Exception(t)
    PROVE  Inv'
<1>0. /\ Executes(t)
      /\ mode' = [mode EXCEPT ![t] = "isr"]
      /\ lines' = [lines EXCEPT ![t] = ExceptionLines]
      /\ left' = [left EXCEPT ![t] = 0]
      /\ intr' = [intr EXCEPT ![cpu] = FALSE]
      /\ pc' = [pc EXCEPT ![t] = "run"]
      /\ held' = [held EXCEPT ![t] = {}]
      /\ excepted' = TRUE
      /\ UNCHANGED <<locked, rflags, current, want, flags, screen>>
  BY ConsoleAssumption DEF Exception, Become, S!At, S!Goto, Executes
<1>1. TypeOK'
  BY <1>0, ConsoleAssumption DEF Inv, TypeOK, Modes
<1>2. Undisturbed'
  BY <1>0, ConsoleAssumption
     DEF Inv, TypeOK, Undisturbed, Executes, Masked, Ending
<1>3. Position'
  BY <1>0, ConsoleAssumption DEF Inv, TypeOK, Position, Printing
<1>4. InnerFlags'
  BY <1>0, ConsoleAssumption
     DEF Inv, TypeOK, InnerFlags, Ending, Printing, Bound
<1>5. Message'
  BY <1>0, ConsoleAssumption DEF Inv, TypeOK, Message, Printing, Whole
<1>6. Half'
  BY <1>0, ConsoleAssumption DEF Inv, TypeOK, Message, Half, Printing, Whole
<1>7. Reported'
  BY <1>0, ConsoleAssumption DEF Inv, Reported
<1> QED
  BY <1>1, <1>2, <1>3, <1>4, <1>5, <1>6, <1>7 DEF Inv

(* The report is complete and the machine stops.                            *)
LEMMA HaltKept ==
    ASSUME Inv, NEW t \in Threads,
           Halt(t)
    PROVE  Inv'
<1>0. /\ pc[t] = "run"
      /\ Executes(t)
      /\ mode[t] \in {"banner", "isr"}
      /\ ~Printing(t)
      /\ mode' = [mode EXCEPT ![t] = "halt"]
      /\ lines' = [lines EXCEPT ![t] = 0]
      /\ intr' = [intr EXCEPT ![cpu] = FALSE]
      /\ UNCHANGED <<locked, rflags, current, pc, want, flags, held, left, screen, excepted>>
  BY ConsoleAssumption DEF Halt, Become, Free, S!At, S!Goto, Executes
<1>1. TypeOK'
  BY <1>0, ConsoleAssumption DEF Inv, TypeOK, Modes
<1>2. Undisturbed'
  BY <1>0, ConsoleAssumption DEF Inv, Undisturbed, Executes, Masked, Ending
<1>3. Position'
  BY <1>0, ConsoleAssumption DEF Inv, Position, Printing
<1>4. InnerFlags'
  BY <1>0, ConsoleAssumption DEF Inv, InnerFlags, Ending, Printing, Bound
<1>5. Message'
  BY <1>0, ConsoleAssumption DEF Inv, Message, Printing, Whole
<1>6. Half'
  BY <1>0, ConsoleAssumption DEF Inv, Half, Printing, Whole
<1>7. Reported'
  BY <1>0, ConsoleAssumption DEF Inv, Reported
<1> QED
  BY <1>1, <1>2, <1>3, <1>4, <1>5, <1>6, <1>7 DEF Inv
-----------------------------------------------------------------------------
(* Nothing has been printed, and nobody has a lock. *)
LEMMA Initially == Init => Inv
<1> SUFFICES ASSUME Init PROVE Inv
  OBVIOUS
<1>1. TypeOK
  <2>1. /\ current \in [{cpu} -> Threads] /\ intr \in [{cpu} -> BOOLEAN]
        /\ want \in [Threads -> Held]
    BY DEF Init, S!Init, Held
  <2>2. /\ locked \in [Held -> BOOLEAN] /\ rflags \in [Held -> BOOLEAN]
        /\ pc \in [Threads -> {"run", "cli", "spin", "store", "clear", "popf"}]
        /\ flags \in [Threads -> BOOLEAN] /\ held \in [Threads -> SUBSET Held]
    BY DEF Init, S!Init, Held
  <2>3. /\ mode \in [Threads -> Modes] /\ lines \in [Threads -> Nat]
        /\ excepted \in BOOLEAN
    BY DEF Init, Modes
  <2>4. 0 \in 0 .. Length
    BY ConsoleAssumption
  <2>5. left \in [Threads -> 0 .. Length]
    BY <2>4, ZenonT(30) DEF Init
  <2> QED
    BY <2>1, <2>2, <2>3, <2>5 DEF Init, TypeOK
<1>2. Undisturbed /\ Position /\ InnerFlags /\ Message
  BY DEF Init, S!Init, Undisturbed, Position, InnerFlags, Message, Ending,
         Printing
<1>3. Half /\ Reported
  BY DEF Init, Half, Whole, Reported, Nothing
<1> QED
  BY <1>1, <1>2, <1>3 DEF Inv

(* Always. *)
LEMMA Invariance == Spec => []Inv
<1>1. ASSUME Inv, [Next]_vars PROVE Inv'
  <2>1. ASSUME NEW t \in Threads, Step(t) PROVE Inv'
    <3>1. CASE PutChar(t)
      BY <1>1, <3>1, PutCharKept
    <3>2. CASE EndPrintk(t)
      BY <1>1, <3>2, LoadFlagsKept
    <3>3. CASE LockStep(t)
      BY <1>1, <3>3, CliKept, TestAndSetKept, StoreFlagsKept, ClearLockKept,
         PopfKept
         DEF LockStep
    <3>4. CASE NextLine(t)
      BY <1>1, <3>4, SaveFlagsKept
    <3>5. CASE PanicCli(t) \/ printk_force_unlock(t) \/ Halt(t)
      BY <1>1, <3>5, PanicCliKept, ForceUnlockKept, HaltKept
    <3> QED
      BY <2>1, <3>1, <3>2, <3>3, <3>4, <3>5 DEF Step
  <2>2. ASSUME NEW t \in Threads, \E on \in BOOLEAN : SetInterrupts(t, on) PROVE Inv'
    BY <1>1, <2>2, SetInterruptsKept
  <2>3. ASSUME NEW t \in Threads, Printk(t) \/ LockHeap(t) \/ UnlockHeap(t) PROVE Inv'
    BY <1>1, <2>3, SaveFlagsKept, LockHeapKept, LoadFlagsKept
  <2>4. ASSUME NEW t \in Threads, PreemptTo(t) \/ Panic(t) \/ Exception(t) PROVE Inv'
    BY <1>1, <2>4, PreemptKept, PanicKept, ExceptionKept
  <2>5. CASE UNCHANGED vars
    BY <1>1, <2>5
       DEF Inv, TypeOK, Undisturbed, Executes, Masked, Ending, Position,
           InnerFlags, Bound, Message, Printing, Whole, Half, Reported, vars,
           lockvars
  <2> QED
    BY <1>1, <2>1, <2>2, <2>3, <2>4, <2>5 DEF Next
<1> QED
  BY <1>1, Initially, PTL DEF Spec

-----------------------------------------------------------------------------
(* Only PutChar writes to the screen. *)
LEMMA Writer ==
    ASSUME Inv, [Next]_vars, screen' # screen
    PROVE  \E t \in Threads : PutChar(t)
  BY DEF Next, Step, EndPrintk, LockStep, NextLine, Printk, Start, LockHeap,
         UnlockHeap, SetInterrupts, PreemptTo, Panic, PanicCli,
         printk_force_unlock, Exception, Halt, vars

(* Messages of printk are never mixed nor cut short by another one, though *)
(* panic takes printk_lock by force and an exception may strike anywhere.  *)
THEOREM WholeMessages == Spec => MessagesWhole
<1>1. ASSUME Inv, [Next]_vars, screen' # screen
      PROVE  IF screen = Nothing \/ screen.left = 0 THEN screen'.left = Length - 1
             ELSE screen' = [screen EXCEPT !.left = @ - 1]
  <2>1. PICK t \in Threads : PutChar(t)
    BY <1>1, Writer
  <2>2. /\ Printing(t) /\ left[t] > 0
        /\ screen' = [from |-> mode[t], thread |-> t, left |-> left[t] - 1]
    BY <2>1 DEF PutChar
  <2>3. \/ left[t] = Length /\ Whole
        \/ screen = [from |-> mode[t], thread |-> t, left |-> left[t]]
    BY <1>1, <2>2 DEF Inv, Message
  <2>4. CASE Whole
    <3>1. left[t] = Length
      BY <1>1, <2>2, <2>3, <2>4 DEF Whole, Nothing
    <3> QED
      BY <2>2, <2>4, <3>1 DEF Whole
  <2>5. CASE ~Whole
    BY <2>2, <2>3, <2>5 DEF Whole
  <2> QED
    BY <2>4, <2>5
<1> QED
  BY <1>1, Invariance, PTL DEF MessagesWhole, Spec

(* Once a report of a panic or an exception has begun no other thread      *)
(* writes: its thread runs with interrupts off and never turns them on.    *)
THEOREM LastReport == Spec => ReportIsLast
<1>1. ASSUME Inv, [Next]_vars, screen' # screen, screen.from \in {"banner", "isr"}
      PROVE  screen'.thread = screen.thread
  <2>1. PICK t \in Threads : PutChar(t)
    BY <1>1, Writer
  <2>2. Executes(t) /\ screen'.thread = t
    BY <2>1 DEF PutChar, S!At, Executes
  <2>3. screen.thread \in Threads
    BY <1>1 DEF Inv, TypeOK, Nothing
  <2>4. Executes(screen.thread)
    BY <1>1, <2>3 DEF Inv, Reported, Undisturbed, Ending
  <2> QED
    BY <2>2, <2>4 DEF Executes
<1> QED
  BY <1>1, Invariance, PTL DEF ReportIsLast, Spec

=============================================================================
