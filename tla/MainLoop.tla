------------------------------ MODULE MainLoop ------------------------------
(***************************************************************************)
(* The main loop of kernel.c on the one CPU: it shows what was drawn       *)
(* (fb_swap of display/framebuffer.c), takes a character from the keyboard *)
(* driver's ring and gives it to the shell, or halts.  A command may draw  *)
(* and wait in turns, with timer_sleep_ms of drivers/timer.c.  Keyboard    *)
(* and timer interrupts come between any two instructions while IF is set. *)
(*                                                                         *)
(* timer_ticks and target_ticks appear as their difference, and the two    *)
(* buffers of the screen as whether they differ.                           *)
(***************************************************************************)
EXTENDS Keyboard

CONSTANTS MaxTicks,  \* bound: the longest wait
          MaxWaits   \* bound: the waits of one command

ASSUME WaitAssumption == MaxTicks \in Nat /\ MaxWaits \in Nat

VARIABLES
    main,       \* the next step
    c,          \* get_char's local variable, then the shell's argument
    due,        \* target_ticks - timer_ticks, or 0 when the time has come
    waits,      \* how often the command running may still wait
    dirty,      \* the back buffer differs from the screen
    overslept   \* history: ticks a wait spent halted after its time

timer == <<due, waits, overslept>>
loop == <<main, c, timer, dirty>>
vars == <<driver, loop>>

Init ==
    /\ InitDriver
    /\ main = "swap" /\ c = NUL
    /\ due = 0 /\ waits = 0 /\ overslept = 0
    /\ dirty = TRUE  \* shell_init has drawn the prompt

-----------------------------------------------------------------------------
(* Interrupts: both end hlt. *)

Woken == CASE main = "hlt"  -> "swap"
           [] main = "doze" -> "wait"
           [] OTHER         -> main

KeyboardInterrupt == Interrupt /\ main' = Woken /\ UNCHANGED <<c, timer, dirty>>

(* timer_handler: timer_ticks++ *)
Tick ==
    /\ intr /\ ~handling
    /\ due' = IF due > 0 THEN due - 1 ELSE 0
    /\ overslept' = IF main = "doze" /\ due = 0 THEN overslept + 1 ELSE overslept
    /\ main' = Woken
    /\ UNCHANGED <<driver, c, waits, dirty>>

-----------------------------------------------------------------------------
(* The loop *)

Running(step) == main = step /\ ~handling
Goto(step) == main' = step

fb_swap == dirty' = FALSE

(* Faulty: no cli before the test. *)
TestWithInterrupts ==
    /\ Running("swap") /\ fb_swap
    /\ Goto("test")
    /\ UNCHANGED <<driver, c, timer>>

(* fb_swap(), then cli *)
DisableInterrupts ==
    /\ Running("swap") /\ fb_swap
    /\ intr' = FALSE
    /\ Goto("test")
    /\ UNCHANGED <<hardware, kb_state, ring, handling, c, timer>>

has_char == kb_head # kb_tail

(* keyboard_has_char() *)
TestChar ==
    /\ Running("test")
    /\ Goto(IF has_char THEN "found" ELSE "none")
    /\ UNCHANGED <<driver, c, timer, dirty>>

EnableInterrupts ==
    /\ intr' = TRUE
    /\ UNCHANGED <<hardware, kb_state, ring, handling, c, timer, dirty>>

(* Yes: sti. *)
GoRead == Running("found") /\ Goto("read") /\ EnableInterrupts

(* No: sti; hlt.  An interrupt is taken only after the hlt has begun. *)
Halt == Running("none") /\ Goto("hlt") /\ EnableInterrupts

(* keyboard_get_char *)
ReadChar ==
    /\ Running("read")
    /\ IF has_char THEN c' = kb_buffer[kb_tail] /\ Goto("advance")
                   ELSE c' = NUL /\ Goto("shell")
    /\ UNCHANGED <<driver, timer, dirty>>

(* Faulty: the character stays in the ring. *)
KeepTail ==
    /\ Running("advance")
    /\ Goto("shell")
    /\ UNCHANGED <<driver, c, timer, dirty>>

AdvanceTail ==
    /\ Running("advance")
    /\ kb_tail' = Following(kb_tail)
    /\ Goto("shell")
    /\ UNCHANGED <<hardware, kb_state, kb_buffer, kb_head, intr, handling, c, timer, dirty>>

(* shell_process_char(c) draws, and returns or runs a command that waits.  *)
Process ==
    /\ Running("shell")
    /\ c' = NUL /\ dirty' = TRUE
    /\ \/ Goto("swap") /\ UNCHANGED waits
       \/ \E n \in 1 .. MaxWaits : Goto("draw") /\ waits' = n
    /\ UNCHANGED <<driver, due, overslept>>

-----------------------------------------------------------------------------
(* A command that waits *)

(* It draws; timer_sleep_ms(ms) rounds ms down to whole ticks. *)
Sleep ==
    /\ Running("draw") /\ waits > 0
    /\ dirty' = TRUE
    /\ \E ticks \in 0 .. MaxTicks : due' = ticks
    /\ waits' = waits - 1 /\ overslept' = 0
    /\ Goto("wait")
    /\ UNCHANGED <<driver, c>>

(* while (timer_ticks < target_ticks) *)
TestTime ==
    /\ Running("wait")
    /\ Goto(IF due > 0 THEN "nap" ELSE "draw")
    /\ UNCHANGED <<driver, c, timer, dirty>>

(* sti; hlt.  IF was set before: an interrupt may come in between too. *)
Nap == Running("nap") /\ Goto("doze") /\ EnableInterrupts

(* The command returns. *)
Finish ==
    /\ Running("draw") /\ waits = 0
    /\ dirty' = TRUE
    /\ overslept' = 0 /\ Goto("swap")
    /\ UNCHANGED <<driver, c, due, waits>>

-----------------------------------------------------------------------------
Main ==
    \/ DisableInterrupts \/ TestChar \/ GoRead \/ Halt
    \/ ReadChar \/ AdvanceTail \/ Process
    \/ Sleep \/ TestTime \/ Nap \/ Finish

Controller == (\E byte \in Sent : Type(byte)) \/ Acknowledge

Next ==
    \/ Controller /\ UNCHANGED loop
    \/ Handler /\ UNCHANGED loop
    \/ KeyboardInterrupt \/ Tick
    \/ Main

Spec == Init /\ [][Next]_vars

(* The CPU runs what it can, a latched interrupt is delivered once IF is   *)
(* set often enough, and the keyboard is slower than the handler, which    *)
(* ends whenever it is called.  The PIT keeps ticking while a command      *)
(* waits; the main loop's own halt is not assumed to end by a tick: the    *)
(* keyboard's interrupt has to wake it.                                    *)
SlowKeyboard == []<>~handling
FairSpec ==
    /\ Spec
    /\ WF_vars(Handler /\ UNCHANGED loop) /\ SF_vars(KeyboardInterrupt) /\ SF_vars(Main)
    /\ SF_vars(main \in {"nap", "doze"} /\ Tick)
    /\ SlowKeyboard

-----------------------------------------------------------------------------
(* Properties *)

(* No lost wake-up: the loop is never halted with a character to read or   *)
(* with output nobody has seen, and a wait that is halted after its time   *)
(* has come is halted for one tick at most.  cli before the test and sti   *)
(* right before hlt guarantee the first; the wait of timer_sleep_ms tests  *)
(* with interrupts on, and only the next tick saves it.                    *)
HaltsInTime ==
    /\ main = "hlt" => ~has_char /\ ~dirty
    /\ overslept <= 1

(* Every byte the keyboard sends is read by the handler, a character in    *)
(* the ring is taken from it, whatever commands wait meanwhile, and what   *)
(* is drawn is shown.                                                      *)
KeysAreTaken ==
    /\ port # EMPTY ~> handling
    /\ \A s \in Slots : (has_char /\ kb_tail = s) ~> kb_tail # s
    /\ dirty ~> ~dirty

(* Although its two ends are moved by an interrupt handler and the code it *)
(* interrupts, with no lock and in several steps, the ring is CharFifo     *)
(* with one slot kept empty.                                               *)
Fifo == INSTANCE CharFifo WITH
    Capacity <- KB_BUFFER_SIZE - 1,
    queue <- Contents,
    got <- IF main = "shell" THEN c ELSE NUL
Implements == Fifo!Spec
=============================================================================
