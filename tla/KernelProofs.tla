---------------------------- MODULE KernelProofs ----------------------------
(***************************************************************************)
(* The start of the kernel and the loop it ends in, for every machine,     *)
(* archive, key and wait.                                                  *)
(*                                                                         *)
(* The main loop never halts with work to do, and the ring it shares with  *)
(* the keyboard handler implements CharFifo.  HaltsInTime is not           *)
(* inductive: that the ring is still empty at hlt depends on IF having     *)
(* been clear since the test, so Masked and Tested say what holds from cli *)
(* on.  The refinement needs Taken: between the two steps of               *)
(* keyboard_get_char the handler may store more characters, but never at   *)
(* kb_tail.                                                                *)
(*                                                                         *)
(* Of Boot, every invariant rests on Control: where the start is, and that *)
(* the tables are the machine's.  pci_init registers exactly what it has   *)
(* passed, up to the registry's size (PciInv: the buses mapped, where the  *)
(* three loops stand, and the registry against Scanned).  Every open entry *)
(* of the IOAPIC serves its line (LinesInv: the walk of the MADT knows a   *)
(* line or has met no override of it; an entry is opened masked and aimed  *)
(* first, and a byte keeps its interrupt pending).  The walk of the        *)
(* archive stands before the entry whose number is that of the nodes       *)
(* registered, and is over only when there is none left (WalkInv: headers  *)
(* have places of their own, size fields decode to the lengths they        *)
(* encode, cat's buffer is what is allocated).  And the kernel has come as *)
(* far as what it has asked of the machine allows (ComeSoFar).             *)
(***************************************************************************)
EXTENDS MainLoop, Boot, FiniteSetTheorems, SequenceTheorems, NaturalsInduction,
        WellFoundedInduction, TLAPS

-----------------------------------------------------------------------------
(* The main loop: its typing and its invariant *)

Steps == {"swap", "test", "found", "none", "read", "advance", "shell", "hlt",
          "draw", "wait", "nap", "doze"}

DriverTypeOK ==
    /\ port \in Byte \cup {EMPTY}
    /\ irq \in BOOLEAN
    /\ acks \in Nat
    /\ kb_state \in [State -> BOOLEAN]
    /\ kb_buffer \in [Slots -> Char \cup {NUL}]
    /\ kb_head \in Slots
    /\ kb_tail \in Slots
    /\ intr \in BOOLEAN
    /\ handling \in BOOLEAN

LoopTypeOK ==
    /\ main \in Steps
    /\ c \in Char \cup {NUL}
    /\ due \in Nat
    /\ waits \in Nat
    /\ overslept \in Nat
    /\ dirty \in BOOLEAN

TypeOK == DriverTypeOK /\ LoopTypeOK

(* The handler and the test of the ring run with IF clear, *)
Masked ==
    /\ handling => ~intr
    /\ main \in {"test", "found", "none"} => ~intr /\ ~handling /\ ~dirty

(* so what the test found is still so when the loop acts on it, *)
Tested ==
    /\ main \in {"found", "read", "advance"} => has_char
    /\ main = "none" => ~has_char
    /\ main = "hlt" => ~has_char /\ ~dirty /\ ~handling

(* and the character read is still the oldest when it is taken.            *)
Taken == main = "advance" => c = kb_buffer[kb_tail]

(* A tick that finds a wait over ends its halt, and it is not halted again.*)
Woke ==
    /\ overslept <= 1
    /\ overslept > 0 => due = 0 /\ main \in {"wait", "draw"}

Inv == TypeOK /\ Masked /\ Tested /\ Taken /\ Woke

-----------------------------------------------------------------------------
(* The ring's arithmetic *)

(* How many slots lie between two. *)
Distance(head, tail) ==
    IF tail <= head THEN head - tail ELSE head + KB_BUFFER_SIZE - tail

(* What % computes for slots: the slot after one, the distance of two, and *)
(* the slots from one on.                                                  *)
LEMMA Modulo ==
    ASSUME NEW head \in Slots, NEW tail \in Slots
    PROVE  /\ Following(head) \in Slots
           /\ Following(head) = IF head = KB_BUFFER_SIZE - 1 THEN 0 ELSE head + 1
           /\ (head + KB_BUFFER_SIZE - tail) % KB_BUFFER_SIZE =
                  Distance(head, tail)
           /\ \A k \in 1 .. KB_BUFFER_SIZE : (tail + k - 1) % KB_BUFFER_SIZE =
                  IF tail + k <= KB_BUFFER_SIZE THEN tail + k - 1
                                                ELSE tail + k - 1 - KB_BUFFER_SIZE
  BY BufferAssumption DEF Slots, Following, Distance

-----------------------------------------------------------------------------
(* Types *)

(* A character is a key of the two tables with one of its two forms. *)
LEMMA TranslateType ==
    ASSUME TypeOK, NEW key \in Letters \cup Symbols
    PROVE  Translate(key) \in Char
<1>1. {"shift", "CAPSLOCK"} \subseteq State
  BY DEF State, Locks
<1>2. kb_state["shift"] \in BOOLEAN /\ kb_state["CAPSLOCK"] \in BOOLEAN
  BY <1>1 DEF TypeOK, DriverTypeOK
<1>3. (kb_state["shift"] # kb_state["CAPSLOCK"]) \in BOOLEAN
  OBVIOUS
<1>4. (IF key \in Letters THEN kb_state["shift"] # kb_state["CAPSLOCK"]
                          ELSE kb_state["shift"]) \in BOOLEAN
  BY <1>2, <1>3
<1> QED
  BY <1>4 DEF Translate, Char

(* The keyboard controller and the handler keep the types of the driver. *)
LEMMA DriverTyping ==
    ASSUME TypeOK, Controller \/ Handler
    PROVE  DriverTypeOK'
<1> USE DEF TypeOK, DriverTypeOK
<1>1. ASSUME NEW byte \in Sent, Type(byte) PROVE DriverTypeOK'
  BY <1>1, SentAssumption DEF Type, Arrives, ring
<1>2. CASE Acknowledge
  BY <1>2 DEF Acknowledge, Arrives, ring, Byte, Keys
<1>3. CASE Drained
  BY <1>3 DEF Drained, hardware, ring
<1>4. CASE Discard
  BY <1>4 DEF Discard, ReadPort, ring
<1>5. CASE Modifier
  <2>1. port.released \in BOOLEAN
    BY <1>5 DEF Modifier, HasByte, Byte
  <2>2. kb_state' \in [State -> BOOLEAN]
    BY <1>5, <2>1 DEF Modifier
  <2> QED
    BY <1>5, <2>2 DEF Modifier, ReadPort, ring
<1>6. CASE Toggle
  <2>1. kb_state' \in [State -> BOOLEAN]
    BY <1>6 DEF Toggle
  <2> QED
    BY <1>6, <2>1 DEF Toggle, ReadPort, ring
<1>7. CASE Ignore
  BY <1>7 DEF Ignore, ReadPort, ring
<1>8. CASE Press
  <2>1. Translate(port.key) \in Char
    BY <1>8, TranslateType DEF Press
  <2>2. kb_buffer' \in [Slots -> Char \cup {NUL}] /\ kb_head' \in Slots
    BY <1>8, <2>1, Modulo DEF Press
  <2> QED
    BY <1>8, <2>2 DEF Press, ReadPort
<1> QED
  BY <1>1, <1>2, <1>3, <1>4, <1>5, <1>6, <1>7, <1>8 DEF Controller, Handler

(* Every step keeps the types. *)
LEMMA Typing ==
    ASSUME TypeOK, [Next]_vars
    PROVE  TypeOK'
<1> USE DEF TypeOK, loop, timer
<1>1. CASE (Controller \/ Handler) /\ UNCHANGED loop
  BY <1>1, DriverTyping DEF LoopTypeOK
<1>2. CASE KeyboardInterrupt
  BY <1>2 DEF KeyboardInterrupt, Interrupt, Woken, DriverTypeOK, LoopTypeOK, Steps, ring
<1>3. CASE Tick
  BY <1>3 DEF Tick, Woken, DriverTypeOK, LoopTypeOK, Steps, driver, hardware, ring
<1>4. CASE Main
  <2> USE DEF Goto, Running, EnableInterrupts, fb_swap, DriverTypeOK, LoopTypeOK,
              Steps, driver, hardware, ring
  <2>1. CASE DisableInterrupts
    BY <2>1 DEF DisableInterrupts
  <2>2. CASE TestChar
    BY <2>2 DEF TestChar
  <2>3. CASE GoRead
    BY <2>3 DEF GoRead
  <2>4. CASE Halt
    BY <2>4 DEF Halt
  <2>5. CASE ReadChar
    BY <2>5 DEF ReadChar
  <2>6. CASE AdvanceTail
    BY <2>6, Modulo DEF AdvanceTail
  <2>7. CASE Process
    BY <2>7 DEF Process
  <2>8. CASE Sleep
    BY <2>8, WaitAssumption DEF Sleep
  <2>9. CASE TestTime
    BY <2>9 DEF TestTime
  <2>10. CASE Nap
    BY <2>10 DEF Nap
  <2>11. CASE Finish
    BY <2>11 DEF Finish
  <2> QED
    BY <1>4, <2>1, <2>2, <2>3, <2>4, <2>5, <2>6, <2>7, <2>8, <2>9, <2>10, <2>11 DEF Main
<1>5. CASE UNCHANGED vars
  BY <1>5 DEF vars, driver, hardware, ring, DriverTypeOK, LoopTypeOK
<1> QED
  BY <1>1, <1>2, <1>3, <1>4, <1>5 DEF Next

-----------------------------------------------------------------------------
(* The loop never halts with work to do *)

(* A step of the keyboard or of the handler keeps the rest of Inv: Press   *)
(* adds characters to the ring, and never at kb_tail while it is not empty.*)
LEMMA DriverInvariance ==
    ASSUME Inv, (Controller \/ Handler) /\ UNCHANGED loop
    PROVE  (Masked /\ Tested /\ Taken /\ Woke)'
<1> USE DEF Inv, TypeOK, loop, timer, Masked, Tested, Taken, Woke, has_char
<1>1. CASE Controller
  BY <1>1 DEF Controller, Type, Acknowledge, ring
<1>2. CASE Drained \/ Discard \/ Modifier \/ Toggle \/ Ignore
  BY <1>2 DEF Drained, Discard, Modifier, Toggle, Ignore, HasByte, ring
<1>3. CASE Press
  <2>1. CASE Full
    BY <1>3, <2>1 DEF Press, HasByte
  <2>2. CASE ~Full
    <3>1. kb_head' # kb_tail /\ kb_tail' = kb_tail
      BY <1>3, <2>2 DEF Press, Full
    <3>2. kb_head # kb_tail => kb_buffer'[kb_tail] = kb_buffer[kb_tail]
      BY <1>3, <2>2 DEF Press, DriverTypeOK
    <3> QED
      BY <1>3, <2>2, <3>1, <3>2 DEF Press, HasByte
  <2> QED
    BY <2>1, <2>2
<1> QED
  BY <1>1, <1>2, <1>3 DEF Handler

(* Every step keeps the inductive invariant. *)
LEMMA Invariance ==
    ASSUME Inv, [Next]_vars
    PROVE  Inv'
<1>1. TypeOK'
  BY Typing DEF Inv
<1>2. (Masked /\ Tested /\ Taken /\ Woke)'
  <2> USE DEF Inv, Masked, Tested, Taken, Woke, has_char, timer
  <2>1. CASE (Controller \/ Handler) /\ UNCHANGED loop
    BY <2>1, DriverInvariance
  <2>2. CASE KeyboardInterrupt
    BY <2>2 DEF KeyboardInterrupt, Interrupt, Woken, ring
  <2>3. CASE Tick
    BY <2>3 DEF Tick, Woken, TypeOK, LoopTypeOK, driver, hardware, ring
  <2>4. CASE Main
    <3> USE DEF Goto, Running, EnableInterrupts, fb_swap, TypeOK, LoopTypeOK,
                driver, hardware, ring
    <3>1. CASE DisableInterrupts \/ TestChar \/ GoRead \/ Halt
      BY <3>1 DEF DisableInterrupts, TestChar, GoRead, Halt
    <3>2. CASE ReadChar \/ AdvanceTail \/ Process
      BY <3>2 DEF ReadChar, AdvanceTail, Process
    <3>3. CASE Sleep \/ TestTime \/ Nap \/ Finish
      BY <3>3 DEF Sleep, TestTime, Nap, Finish
    <3> QED
      BY <2>4, <3>1, <3>2, <3>3 DEF Main
  <2>5. CASE UNCHANGED vars
    BY <2>5 DEF vars, driver, loop, ring
  <2> QED
    BY <2>1, <2>2, <2>3, <2>4, <2>5 DEF Next
<1> QED
  BY <1>1, <1>2 DEF Inv

(* The driver starts with an empty ring and interrupts on. *)
LEMMA Initially == Init => Inv
<1> SUFFICES ASSUME Init PROVE Inv
  OBVIOUS
<1>1. TypeOK
  <2>1. DriverTypeOK
    <3>1. 0 \in Slots
      BY BufferAssumption DEF Slots
    <3> QED
      BY <3>1 DEF Init, InitDriver, DriverTypeOK
  <2>2. LoopTypeOK
    BY DEF Init, LoopTypeOK, Steps
  <2> QED
    BY <2>1, <2>2 DEF TypeOK
<1> QED
  BY <1>1 DEF Init, InitDriver, Inv, Masked, Tested, Taken, Woke, has_char

(* For every ring and every set of keys, no interrupt leaves a variable of *)
(* the driver or of the loop outside its type: the two indices stay slots  *)
(* of kb_buffer.                                                           *)
THEOREM TypeCorrectness == Spec => []TypeOK
<1>1. Inv => TypeOK
  BY DEF Inv
<1> QED
  BY <1>1, Initially, Invariance, PTL DEF Spec

(* For every ring and every wait: cli before keyboard_has_char and sti     *)
(* right before hlt leave no wake-up to lose, and a wait sleeps at most    *)
(* one tick past its time.                                                 *)
THEOREM Halts == Spec => []HaltsInTime
<1>1. Inv => HaltsInTime
  BY DEF Inv, Tested, Woke, HaltsInTime
<1> QED
  BY <1>1, Initially, Invariance, PTL DEF Spec

-----------------------------------------------------------------------------
(* The ring is a queue *)

Got == IF main = "shell" THEN c ELSE NUL

(* The ring's size: one slot stays empty. *)
LEMMA ContentsType ==
    ASSUME DriverTypeOK
    PROVE  /\ Count \in 0 .. KB_BUFFER_SIZE - 1
           /\ Count = 0 <=> kb_head = kb_tail
           /\ Count = KB_BUFFER_SIZE - 1 <=> Full
           /\ Contents \in [1 .. Count -> Char \cup {NUL}]
           /\ Len(Contents) = Count
<1>1. /\ Count \in 0 .. KB_BUFFER_SIZE - 1
      /\ Count = 0 <=> kb_head = kb_tail
      /\ Count = KB_BUFFER_SIZE - 1 <=> Full
  <2>1. /\ Count = Distance(kb_head, kb_tail)
        /\ Full <=> kb_tail = IF kb_head = KB_BUFFER_SIZE - 1 THEN 0 ELSE kb_head + 1
    BY Modulo DEF DriverTypeOK, Count, Full
  <2> QED
    BY <2>1, BufferAssumption DEF DriverTypeOK, Slots, Distance
<1>2. \A k \in 1 .. Count : (kb_tail + k - 1) % KB_BUFFER_SIZE \in Slots
  BY <1>1, BufferAssumption DEF DriverTypeOK, Slots
<1>3. Contents \in [1 .. Count -> Char \cup {NUL}]
  BY <1>2 DEF DriverTypeOK, Contents
<1> QED
  BY <1>1, <1>3

(* The same after a step. *)
LEMMA NextContents ==
    (DriverTypeOK => Contents \in [1 .. Count -> Char \cup {NUL}] /\ Len(Contents) = Count)'
<1>1. DriverTypeOK => Contents \in [1 .. Count -> Char \cup {NUL}] /\ Len(Contents) = Count
  BY ContentsType
<1> QED
  BY <1>1, PTL

(* A character stored in a ring that is not full is put at the end. *)
LEMMA PutAtEnd ==
    ASSUME Inv, Inv', Press, ~Full, UNCHANGED loop
    PROVE  Fifo!Put
<1> USE DEF Inv, TypeOK
<1>1. /\ kb_head' = Following(kb_head)
      /\ kb_tail' = kb_tail
      /\ \A s \in Slots \ {kb_head} : kb_buffer'[s] = kb_buffer[s]
  BY DEF Press, DriverTypeOK
<1>2. Count' = Count + 1
  <2>1. /\ Count = Distance(kb_head, kb_tail)
        /\ Count' = Distance(Following(kb_head), kb_tail)
    BY <1>1, Modulo DEF DriverTypeOK, Count
  <2>2. /\ Following(kb_head) = IF kb_head = KB_BUFFER_SIZE - 1 THEN 0 ELSE kb_head + 1
        /\ Following(kb_head) # kb_tail
    BY Modulo DEF DriverTypeOK, Full
  <2> QED
    BY <2>1, <2>2, BufferAssumption DEF DriverTypeOK, Distance, Slots
<1>3. \A k \in 1 .. Count : Contents'[k] = Contents[k]
  <2> SUFFICES ASSUME NEW k \in 1 .. Count PROVE Contents'[k] = Contents[k]
    OBVIOUS
  <2> DEFINE s == (kb_tail + k - 1) % KB_BUFFER_SIZE
  <2>1. s \in Slots /\ s # kb_head
    <3>1. k <= Distance(kb_head, kb_tail) /\ k \in 1 .. KB_BUFFER_SIZE
      <4>1. Count = Distance(kb_head, kb_tail)
        BY Modulo DEF DriverTypeOK, Count
      <4> QED
        BY <4>1, ContentsType, BufferAssumption
    <3>2. s = IF kb_tail + k <= KB_BUFFER_SIZE THEN kb_tail + k - 1
                                               ELSE kb_tail + k - 1 - KB_BUFFER_SIZE
      BY <3>1, Modulo DEF DriverTypeOK
    <3> HIDE DEF s
    <3> QED
      BY <3>1, <3>2, BufferAssumption DEF DriverTypeOK, Slots, Distance
  <2>2. Contents[k] = kb_buffer[s]
    BY DEF Contents
  <2>3. k \in 1 .. Count'
    BY <1>2, ContentsType
  <2>4. Contents'[k] = kb_buffer'[s]
    BY <1>1, <2>3 DEF Contents
  <2> QED
    BY <1>1, <2>1, <2>2, <2>4
<1>4. Len(Contents) = Count /\ Len(Contents') = Count + 1
  BY <1>2, ContentsType, NextContents
<1>5. SubSeq(Contents', 1, Len(Contents)) = Contents
  BY <1>2, <1>3, <1>4, ContentsType, NextContents
<1>6. Len(Contents) < KB_BUFFER_SIZE - 1
  BY <1>4, ContentsType, BufferAssumption
<1> QED
  BY <1>4, <1>5, <1>6 DEF Fifo!Put, loop, Got

(* The character taken from a ring is the first one. *)
LEMMA GetFirst ==
    ASSUME Inv, Inv', AdvanceTail
    PROVE  Fifo!Get
<1> USE DEF Inv, TypeOK
<1>1. /\ kb_head' = kb_head /\ kb_buffer' = kb_buffer
      /\ kb_tail' = Following(kb_tail)
      /\ has_char /\ c = kb_buffer[kb_tail]
      /\ main = "advance" /\ main' = "shell" /\ c' = c
  BY DEF AdvanceTail, Running, Goto, Tested, Taken
<1>2. Count > 0 /\ Count' = Count - 1
  <2>1. /\ Count = Distance(kb_head, kb_tail)
        /\ Count' = Distance(kb_head, Following(kb_tail))
    BY <1>1, Modulo DEF DriverTypeOK, Count
  <2>2. Following(kb_tail) = IF kb_tail = KB_BUFFER_SIZE - 1 THEN 0 ELSE kb_tail + 1
    BY Modulo DEF DriverTypeOK
  <2> QED
    BY <1>1, <2>1, <2>2, BufferAssumption DEF DriverTypeOK, has_char, Distance, Slots
<1>3. \A k \in 1 .. Count' : Contents'[k] = Contents[k + 1]
  <2> SUFFICES ASSUME NEW k \in 1 .. Count' PROVE Contents'[k] = Contents[k + 1]
    OBVIOUS
  <2>1. k + 1 \in 1 .. Count
    BY <1>2, ContentsType
  <2>2. (Following(kb_tail) + k - 1) % KB_BUFFER_SIZE = (kb_tail + (k + 1) - 1) % KB_BUFFER_SIZE
    <3>1. k \in 1 .. KB_BUFFER_SIZE /\ k + 1 \in 1 .. KB_BUFFER_SIZE
      BY <2>1, ContentsType, BufferAssumption
    <3>2. /\ (kb_tail + (k + 1) - 1) % KB_BUFFER_SIZE =
                 IF kb_tail + (k + 1) <= KB_BUFFER_SIZE
                 THEN kb_tail + (k + 1) - 1 ELSE kb_tail + (k + 1) - 1 - KB_BUFFER_SIZE
          /\ (Following(kb_tail) + k - 1) % KB_BUFFER_SIZE =
                 IF Following(kb_tail) + k <= KB_BUFFER_SIZE
                 THEN Following(kb_tail) + k - 1 ELSE Following(kb_tail) + k - 1 - KB_BUFFER_SIZE
      BY <3>1, Modulo DEF DriverTypeOK
    <3>3. Following(kb_tail) = IF kb_tail = KB_BUFFER_SIZE - 1 THEN 0 ELSE kb_tail + 1
      BY Modulo DEF DriverTypeOK
    <3> QED
      BY <3>1, <3>2, <3>3, BufferAssumption DEF DriverTypeOK, Slots
  <2> QED
    BY <1>1, <2>1, <2>2 DEF Contents
<1>4. Contents' \in [1 .. Count - 1 -> Char \cup {NUL}]
  BY <1>2, NextContents
<1>5. Contents' = Tail(Contents)
  BY <1>2, <1>3, <1>4, ContentsType
<1>6. Contents # <<>> /\ Head(Contents) = kb_buffer[kb_tail]
  <2>1. Contents[1] = kb_buffer[(kb_tail + 1 - 1) % KB_BUFFER_SIZE]
    BY <1>2, ContentsType DEF Contents
  <2>2. (kb_tail + 1 - 1) % KB_BUFFER_SIZE = kb_tail
    BY BufferAssumption, SMTT(30) DEF DriverTypeOK, Slots
  <2> QED
    BY <1>2, <2>1, <2>2, ContentsType
<1> QED
  BY <1>1, <1>5, <1>6 DEF Fifo!Get

(* Whatever does not touch the ring leaves the queue alone. *)
LEMMA QueueKept ==
    ASSUME UNCHANGED ring
    PROVE  UNCHANGED Contents
  BY DEF ring, Contents, Count

(* Press on a ring with room is Put, AdvanceTail is Get, and Process is    *)
(* Done; every other step stutters.                                        *)
LEMMA StepRefinement ==
    ASSUME Inv, Inv', [Next]_vars
    PROVE  [Fifo!Put \/ Fifo!Get \/ Fifo!Done]_<<Contents, Got>>
<1> USE DEF Got
<1>1. CASE Press /\ ~Full /\ UNCHANGED loop
  BY <1>1, PutAtEnd
<1>2. CASE AdvanceTail
  BY <1>2, GetFirst
<1>3. CASE Process
  BY <1>3, QueueKept DEF Process, Running, Goto, driver, Fifo!Done
<1>4. CASE UNCHANGED ring /\ ((main # "shell" /\ main' # "shell") \/ UNCHANGED <<main, c>>)
  BY <1>4, QueueKept
<1>5. CASE (Controller \/ Handler) /\ UNCHANGED loop /\ ~(Press /\ ~Full)
  <2>1. UNCHANGED ring
    BY <1>5 DEF Controller, Type, Acknowledge, Handler, Drained, Discard, Modifier,
                Toggle, Ignore, Press, ring
  <2> QED
    BY <1>4, <1>5, <2>1 DEF loop
<1>6. CASE KeyboardInterrupt \/ Tick
  <2>1. UNCHANGED ring /\ UNCHANGED c
    BY <1>6 DEF KeyboardInterrupt, Interrupt, Tick, driver
  <2>2. main' = main \/ (main # "shell" /\ main' # "shell")
    BY <1>6 DEF KeyboardInterrupt, Tick, Woken
  <2> QED
    BY <1>4, <2>1, <2>2
<1>7. CASE ReadChar
  BY <1>7, QueueKept DEF ReadChar, Running, Goto, driver
<1>8. CASE DisableInterrupts \/ TestChar \/ GoRead \/ Halt \/ Sleep \/ TestTime \/ Nap \/ Finish
  <2>1. UNCHANGED ring /\ main # "shell" /\ main' # "shell"
    BY <1>8 DEF DisableInterrupts, TestChar, GoRead, Halt, Sleep, TestTime, Nap, Finish,
                Running, Goto, EnableInterrupts, driver
  <2> QED
    BY <1>4, <2>1
<1>9. CASE UNCHANGED vars
  BY <1>4, <1>9 DEF vars, driver, loop
<1> QED
  BY <1>1, <1>2, <1>3, <1>5, <1>6, <1>7, <1>8, <1>9 DEF Next, Main

(* The ring starts as an empty queue. *)
LEMMA InitRefinement == Init => Fifo!Init
<1> SUFFICES ASSUME Init PROVE Fifo!Init
  OBVIOUS
<1>1. Count = 0
  BY Initially, ContentsType DEF Inv, TypeOK, Init, InitDriver
<1>2. Contents = <<>>
  BY <1>1 DEF Contents
<1> QED
  BY <1>2 DEF Init, Fifo!Init

(* For every ring of at least two slots: in whatever order the handler and *)
(* the loop move its two ends, the ring is a first-in first-out queue of   *)
(* one character less than its size, that drops a character only when it   *)
(* is full.                                                                *)
THEOREM Refinement == Spec => Implements
<1>1. Inv /\ Inv' /\ [Next]_vars =>
        [Fifo!Put \/ Fifo!Get \/ Fifo!Done]_<<Contents, IF main = "shell" THEN c ELSE NUL>>
  BY StepRefinement DEF Got
<1> QED
  BY <1>1, Initially, Invariance, InitRefinement, PTL DEF Spec, Implements, Fifo!Spec

-----------------------------------------------------------------------------
(* Numbers, and functions defined step by step *)

(* Min is the least element of a set of numbers. *)
LEMMA Least ==
    ASSUME NEW S \in SUBSET Nat, S # {}
    PROVE  Min(S) \in S /\ \A y \in S : Min(S) <= y
<1> DEFINE R == {ss \in Nat \X Nat : ss[1] < ss[2]}
<1>1. IsWellFoundedOn(R, Nat)
  BY NatLessThanWellFounded DEF OpToRel
<1>2. \A x, y \in S : <<y, x>> \in R <=> y < x
  OBVIOUS
<1> HIDE DEF R
<1>3. PICK x \in S : \A y \in S : ~(<<y, x>> \in R)
  BY <1>1, WFMin
<1>4. ASSUME NEW y \in S PROVE x <= y
  <2>1. ~(y < x)
    BY <1>2, <1>3
  <2>2. x \in Nat /\ y \in Nat
    OBVIOUS
  <2> QED
    BY <2>1, <2>2
<1> QED
  BY <1>4 DEF Min

(* Induction up to n. *)
LEMMA Upward ==
    ASSUME NEW n \in Nat, NEW P, 0 \in P, \A k \in 1 .. n : k - 1 \in P => k \in P
    PROVE  \A k \in 0 .. n : k \in P
<1> DEFINE Bad == {k \in 0 .. n : k \notin P}
<1> SUFFICES ASSUME Bad # {} PROVE FALSE
  OBVIOUS
<1>1. Bad \in SUBSET Nat /\ \A k \in Bad : k \in 0 .. n /\ k \notin P
  OBVIOUS
<1>2. \A k \in 0 .. n : k \notin P => k \in Bad
  OBVIOUS
<1> HIDE DEF Bad
<1>3. PICK k \in Bad : \A j \in Bad : k <= j
  BY <1>1, Least
<1>4. k \in 1 .. n /\ k \notin P
  BY <1>1
<1>5. k - 1 \in 0 .. n /\ ~(k <= k - 1)
  BY <1>4
<1> QED
  BY <1>2, <1>3, <1>4, <1>5

(* A function defined from each value to the next, by a table. *)
Follows(g, n, A, base, table) ==
    /\ g \in [0 .. n -> A] /\ g[0] = base
    /\ \A k \in 1 .. n : g[k] = table[<<g[k - 1], k>>]

(* Such a function exists: by induction on how far it is defined. *)
LEMMA Recursion ==
    ASSUME NEW n \in Nat, NEW A, NEW base \in A, NEW F \in [A \X (1 .. n) -> A]
    PROVE  \E g : Follows(g, n, A, base, F)
<1> DEFINE Solves(g, m) ==
              /\ g \in [0 .. m -> A] /\ g[0] = base
              /\ \A k \in 1 .. m : g[k] = F[<<g[k - 1], k>>]
           P == {m \in 0 .. n : \E g : Solves(g, m)}
<1>1. 0 \in P
  <2>1. Solves([k \in 0 .. 0 |-> base], 0)
    OBVIOUS
  <2>2. \E g : Solves(g, 0)
    BY <2>1
  <2> HIDE DEF Solves
  <2> QED
    BY <2>2
<1>2. ASSUME NEW m \in 1 .. n, m - 1 \in P PROVE m \in P
  <2>1. PICK g : Solves(g, m - 1)
    BY <1>2
  <2> DEFINE h == [k \in 0 .. m |-> IF k = m THEN F[<<g[m - 1], m>>] ELSE g[k]]
  <2>2. m - 1 \in 0 .. m - 1 /\ m # 0 /\ 0 \in 0 .. m /\ 0 \in 0 .. m - 1
    OBVIOUS
  <2>3. F[<<g[m - 1], m>>] \in A
    BY <2>1, <2>2
  <2>4. \A k \in 0 .. m : k # m => k \in 0 .. m - 1
    OBVIOUS
  <2>5. h \in [0 .. m -> A] /\ h[0] = base /\ h[m] = F[<<g[m - 1], m>>]
        /\ \A k \in 0 .. m - 1 : h[k] = g[k]
    BY <2>1, <2>2, <2>3, <2>4
  <2> HIDE DEF h
  <2>6. ASSUME NEW k \in 1 .. m PROVE h[k] = F[<<h[k - 1], k>>]
    <3>1. k - 1 \in 0 .. m - 1 /\ h[k - 1] = g[k - 1]
      BY <2>5
    <3>2. CASE k = m
      BY <2>5, <3>1, <3>2
    <3>3. CASE k # m
      <4>1. k \in 1 .. m - 1 /\ k \in 0 .. m - 1
        BY <3>3
      <4> QED
        BY <2>1, <2>5, <3>1, <4>1
    <3> QED
      BY <3>2, <3>3
  <2>7. Solves(h, m)
    BY <2>5, <2>6
  <2> HIDE DEF Solves
  <2>8. m \in 0 .. n /\ \E e : Solves(e, m)
    BY <2>7
  <2> QED
    BY <2>8
<1> HIDE DEF P
<1>3. n \in P
  BY <1>1, <1>2, Upward
<1> QED
  BY <1>3 DEF P, Follows

(* Min of two numbers is the lesser. *)
LEMMA MinOfTwo ==
    ASSUME NEW m \in Nat, NEW n \in Nat
    PROVE  Min({m, n}) = IF n < m THEN n ELSE m
<1> DEFINE S == {m, n}
<1>1. S \in SUBSET Nat /\ S # {} /\ m \in S /\ n \in S
  OBVIOUS
<1>2. PICK x \in S : \A y \in S : x <= y
  <2>1. CASE n < m
    BY <2>1
  <2>2. CASE ~(n < m)
    BY <2>2
  <2> QED
    BY <2>1, <2>2
<1>3. Min(S) \in S /\ \A y \in S : Min(S) <= y
  BY <1>2 DEF Min
<1>4. Min(S) = m \/ Min(S) = n
  BY <1>3
<1>5. Min(S) <= m /\ Min(S) <= n
  BY <1>1, <1>3
<1> QED
  BY <1>4, <1>5

-----------------------------------------------------------------------------
(* The start of the kernel: where it is *)

Early == {"start", "walk", "acpi", "idt", "apic", "madt", "svr", "mask", "aim", "open", "pci"}
Scan == {"map_bus", "check_device"}
Up == {"buffer", "idle", "alloc", "check", "free", "reboot", "off", "reset"}
Ended == {"panic", "halted"}

(* The tables are those of the machine, from acpi_init on, and interrupts  *)
(* are taken from InitDevices on.                                          *)
Control ==
    /\ \E m \in Machines : machine = m.machine /\ archive = m.archive
    /\ pc \in Early \cup Scan \cup {"devices"} \cup Up \cup Ended
    /\ pc \notin {"start", "walk", "acpi"} \cup Ended => root = RootTable
    /\ interrupts \in BOOLEAN
    /\ interrupts => pc \in Up \cup Ended

(* Every step of the kernel goes where Control says, and acpi_init alone   *)
(* finds the tables.                                                       *)
LEMMA ControlKept ==
    ASSUME Control, [BootNext]_bootvars
    PROVE  Control'
<1> USE DEF Control, Early, Scan, Up, Ended, At, Then, RootTable
<1> USE DEF bootvars, filevars, files, walk, cat, cpuvars, pcivars, apicvars
<1>1. CASE Start
  BY <1>1 DEF Start
<1>2. CASE Ramdisk
  BY <1>2 DEF Ramdisk, ParseEntry, EndOfArchive
<1>3. CASE FindTables
  BY <1>3 DEF FindTables, acpi_init
<1>4. CASE idt_init
  BY <1>4 DEF idt_init
<1>5. CASE FindMadt
  BY <1>5 DEF FindMadt
<1>6. CASE WalkMadt
  BY <1>6 DEF WalkMadt
<1>7. CASE Svr
  BY <1>7 DEF Svr
<1>8. CASE Route
  BY <1>8 DEF Route
<1>9. CASE pci_init
  BY <1>9 DEF pci_init
<1>10. CASE InitDevices
  BY <1>10 DEF InitDevices
<1>11. CASE fb_enable_double_buffering
  BY <1>11 DEF fb_enable_double_buffering
<1>12. CASE \E vector \in irr : Deliver(vector)
  BY <1>12 DEF Deliver
<1>13. CASE Devices
  BY <1>13 DEF Devices
<1>14. CASE Command
  BY <1>14 DEF Command, Reader, Cat, Open, AllocBuffer, TooLarge, Show, FreeBuffer, Img,
              Proceed, Return
<1>15. CASE Leave("reboot") \/ Leave("off")
  BY <1>15 DEF Leave
<1>16. CASE Restart \/ StayDown
  BY <1>16 DEF Restart, StayDown
<1>17. CASE UNCHANGED bootvars
  BY <1>17
<1> QED
  BY <1>1, <1>2, <1>3, <1>4, <1>5, <1>6, <1>7, <1>8, <1>9, <1>10, <1>11, <1>12, <1>13,
     <1>14, <1>15, <1>16, <1>17 DEF BootNext, Step

(* So the start is always where Control says. *)
LEMMA BootControl == BootSpec => []Control
<1>1. BootInit => Control
  BY DEF BootInit, Control, Early
<1> QED
  BY <1>1, ControlKept, PTL DEF BootSpec

-----------------------------------------------------------------------------
(* The devices *)

(* The function answers, and its device lets it be asked. *)
Offered(h) ==
    \E first \in machine.pci :
        /\ first.function = 0 /\ first.device = h.device
        /\ first.bus = h.bus /\ first.segment = h.segment
        /\ h.function = 0 \/ first.multi

(* The enumeration has come by the function. *)
Passed(h) ==
    /\ h.bus \in DOMAIN ecam /\ h.segment = ecam[h.bus]
    /\ pc = "check_device" /\ h.bus = bus =>
           h.device < device \/ (h.device = device /\ h.function < function)

Place(h) == <<h.bus, h.device, h.function>>
Seen == {h \in machine.pci : Passed(h) /\ Offered(h)}
Scanned == {Place(h) : h \in Seen}

(* Which buses are mapped, *)
BusesMapped ==
    /\ \A b \in DOMAIN ecam : \E k \in DOMAIN Allocations :
          /\ ecam[b] = Allocations[k].segment
          /\ b \in Allocations[k].start_bus .. Allocations[k].end_bus
    /\ \A k \in 1 .. alloc : k \in DOMAIN Allocations =>
          \A b \in Allocations[k].start_bus .. Allocations[k].end_bus :
             (k = alloc => b < bus) => b \in DOMAIN ecam /\ ecam[b] = Allocations[k].segment

(* where the loops are, *)
LoopsAt ==
    /\ alloc \in Nat
    /\ pc \in Early => alloc = 0 /\ ecam = <<>> /\ pci_devices = <<>>
    /\ pc = "map_bus" => alloc > 0
    /\ pc = "map_bus" /\ alloc \in DOMAIN Allocations =>
          bus \in Nat /\ Allocations[alloc].start_bus <= bus
    /\ pc = "check_device" =>
          /\ alloc \in DOMAIN Allocations /\ bus \in Nat /\ bus \in DOMAIN ecam
          /\ bus \in Allocations[alloc].start_bus .. Allocations[alloc].end_bus
          /\ ecam[bus] = Allocations[alloc].segment
          /\ device \in 0 .. DEVICES - 1 /\ function \in 0 .. FUNCTIONS - 1
          /\ function > 0 => \E h \in Header(0) : h.multi
    /\ pc = "devices" \/ interrupts => DOMAIN Allocations \subseteq 1 .. alloc - 1

(* and what is registered. *)
Registry ==
    /\ pci_devices \in Seq(Scanned)
    /\ IsInjective(pci_devices)
    /\ Len(pci_devices) = IF Cardinality(Scanned) < PCI_MAX_DEVICES
                          THEN Cardinality(Scanned) ELSE PCI_MAX_DEVICES

PciInv == BusesMapped /\ LoopsAt /\ Registry

(* Buses, devices and functions have their numbers, on every machine. *)
LEMMA PciTypes ==
    ASSUME Control, root = RootTable
    PROVE  /\ IsFiniteSet(machine.pci)
           /\ \A h \in machine.pci :
                 h.device \in 0 .. DEVICES - 1 /\ h.function \in 0 .. FUNCTIONS - 1
           /\ Allocations \in Seq(Range(Allocations))
           /\ \A k \in DOMAIN Allocations :
                 Allocations[k].start_bus \in Nat /\ Allocations[k].end_bus \in Nat
<1>1. PICK m \in Machines : machine = m.machine
  BY DEF Control
<1>2. Numbered(machine, Allocations)
  BY <1>1, MachinesAssumption DEF Allocations, acpi_find_table, RootTable
<1>3. \A k \in DOMAIN Allocations : Allocations[k] \in Range(Allocations)
  BY DEF Range
<1> QED
  BY <1>2, <1>3 DEF Numbered

(* The walk passes finitely many functions. *)
LEMMA ScannedFinite ==
    ASSUME IsFiniteSet(machine.pci)
    PROVE  IsFiniteSet(Scanned)
<1>1. IsFiniteSet(Seen)
  BY FS_Subset DEF Seen
<1> DEFINE f == [h \in Seen |-> Place(h)]
<1>2. f \in Surjection(Seen, Scanned)
  BY DEF Surjection, Scanned
<1> QED
  BY <1>1, <1>2, FS_Surjection

(* Before the enumeration nothing is mapped and nothing registered. *)
LEMMA PciBlank ==
    ASSUME alloc = 0, ecam = <<>>, pci_devices = <<>>,
           pc \notin Scan \cup {"devices"}, ~interrupts
    PROVE  PciInv
<1>1. Scanned = {}
  BY DEF Scanned, Seen, Passed
<1>2. Cardinality(Scanned) = 0
  BY <1>1, FS_EmptySet
<1>3. Registry
  <2>1. pci_devices \in Seq(Scanned) /\ Len(pci_devices) = 0 /\ IsInjective(pci_devices)
    BY DEF IsInjective
  <2> QED
    BY <1>2, <2>1, PciAssumption DEF Registry
<1>4. BusesMapped
  BY DEF BusesMapped
<1>5. LoopsAt
  BY DEF LoopsAt, Scan
<1> QED
  BY <1>3, <1>4, <1>5 DEF PciInv

(* A step that leaves the loops of pci_init alone keeps their invariant. *)
LEMMA PciQuiet ==
    ASSUME PciInv, UNCHANGED <<machine, root, pcivars>>,
           pc' = "map_bus" => pc = "map_bus", (pc' = "check_device") = (pc = "check_device"),
           pc' \in Early => pc \in Early,
           pc' = "devices" \/ interrupts' => pc = "devices" \/ interrupts
    PROVE  PciInv'
<1> USE DEF pcivars, cursor
<1>1. Allocations' = Allocations
  BY DEF Allocations, acpi_find_table
<1>2. Seen' = Seen
  BY DEF Seen, Passed, Offered
<1>3. Scanned' = Scanned
  BY <1>2 DEF Scanned, Place
<1>4. Registry'
  BY <1>3 DEF PciInv, Registry
<1>5. BusesMapped'
  BY <1>1 DEF PciInv, BusesMapped
<1>7. pc' = "check_device" => Header(0)' = Header(0)
  BY DEF Header
<1>8. LoopsAt'
  BY <1>1, <1>7 DEF PciInv, LoopsAt
<1> QED
  BY <1>4, <1>5, <1>8 DEF PciInv

(* One step of the enumeration comes by one function, or leaves out the    *)
(* others of a device that has only one.                                   *)
LEMMA Comes ==
    ASSUME Control, PciInv, root = RootTable, pc = "check_device", pci_check_device,
           pc' = (IF bus' = bus THEN "check_device" ELSE "map_bus"),
           UNCHANGED <<machine, root>>
    PROVE  /\ Scanned \subseteq Scanned'
           /\ <<bus, device, function>> \notin Scanned
           /\ Len(pci_devices) < PCI_MAX_DEVICES =>
                  Scanned' = IF Registers THEN Scanned \cup {<<bus, device, function>>}
                                          ELSE Scanned
<1> DEFINE before(h) == h.device < device \/ (h.device = device /\ h.function < function)
<1>1. /\ bus \in Nat /\ bus \in DOMAIN ecam
      /\ device \in 0 .. DEVICES - 1 /\ function \in 0 .. FUNCTIONS - 1
      /\ function > 0 => \E h \in Header(0) : h.multi
  BY DEF PciInv, LoopsAt
<1>2. \A h \in machine.pci :
         h.device \in 0 .. DEVICES - 1 /\ h.function \in 0 .. FUNCTIONS - 1
  BY PciTypes
<1>3. /\ pc' = "check_device" => bus' = bus
      /\ ecam' = ecam /\ machine' = machine
  BY DEF pci_check_device
<1>4. \A h : Offered(h)' = Offered(h)
  BY DEF Offered
<1>5. ASSUME NEW h \in machine.pci, h.bus = bus
      PROVE  pc' = "check_device" =>
                /\ before(h) => before(h)'
                /\ h.device = device /\ h.function = function => before(h)'
  <2>1. CASE MoreFunctions /\ function + 1 < FUNCTIONS
    BY <1>1, <1>2, <1>5, <2>1 DEF pci_check_device
  <2>2. CASE ~(MoreFunctions /\ function + 1 < FUNCTIONS) /\ device + 1 < DEVICES
    BY <1>1, <1>2, <1>5, <2>2 DEF pci_check_device
  <2>3. CASE ~(MoreFunctions /\ function + 1 < FUNCTIONS) /\ ~(device + 1 < DEVICES)
    <3>1. bus' # bus
      BY <1>1, <2>3 DEF pci_check_device, NextBus
    <3> QED
      BY <3>1
  <2> QED
    BY <2>1, <2>2, <2>3
<1>6. ASSUME NEW h \in machine.pci PROVE Passed(h) => Passed(h)'
  BY <1>3, <1>5 DEF Passed
<1>7. Seen \subseteq Seen'
  BY <1>3, <1>4, <1>6 DEF Seen
<1>8. Scanned \subseteq Scanned'
  BY <1>7 DEF Scanned, Place
<1>9. ASSUME NEW h \in Seen PROVE Place(h) # <<bus, device, function>>
  BY <1>1, <1>2 DEF Seen, Passed, Place
<1>10. <<bus, device, function>> \notin Scanned
  BY <1>9 DEF Scanned
<1>11. ASSUME Len(pci_devices) < PCI_MAX_DEVICES
       PROVE  Scanned' = IF Registers THEN Scanned \cup {<<bus, device, function>>} ELSE Scanned
  <2>1. Registers <=> Header(function) # {}
    BY <1>11 DEF Registers
  <2>2. ASSUME NEW h \in Seen', h \notin Seen
        PROVE  h \in Header(function) /\ Place(h) = <<bus, device, function>>
    <3>1. h \in machine.pci /\ Offered(h) /\ Passed(h)' /\ ~Passed(h)
      BY <1>3, <1>4, <2>2 DEF Seen
    <3>2. h.bus = bus /\ h.segment = ecam[bus] /\ ~before(h)
      BY <1>3, <3>1 DEF Passed
    <3>3. h.device = device
      <4>1. CASE pc' = "check_device"
        <5>1. before(h)'
          BY <1>3, <3>1, <3>2, <4>1 DEF Passed
        <5> QED
          BY <1>1, <1>2, <3>1, <3>2, <5>1, PciAssumption DEF pci_check_device
      <4>2. CASE pc' # "check_device"
        <5>1. bus' # bus
          BY <4>2
        <5>2. device + 1 >= DEVICES
          BY <1>1, <5>1, PciAssumption DEF pci_check_device
        <5> QED
          BY <1>1, <1>2, <3>1, <3>2, <5>2, PciAssumption
      <4> QED
        BY <4>1, <4>2
    <3>4. h.function = function
      <4>1. CASE MoreFunctions /\ function + 1 < FUNCTIONS
        <5>1. function' = function + 1 /\ bus' = bus /\ device' = device
          BY <4>1 DEF pci_check_device
        <5>2. before(h)'
          BY <1>3, <3>1, <3>2, <5>1 DEF Passed
        <5> QED
          BY <1>1, <1>2, <3>1, <3>2, <3>3, <5>1, <5>2, PciAssumption
      <4>2. CASE function + 1 >= FUNCTIONS
        BY <1>1, <1>2, <3>1, <3>2, <3>3, <4>2, PciAssumption
      <4>3. CASE ~MoreFunctions
        <5>1. function = 0 /\ ~(Registers /\ \E g \in Header(0) : g.multi)
          BY <1>1, <4>3 DEF MoreFunctions
        <5>2. SUFFICES ASSUME h.function # 0 PROVE FALSE
          BY <5>1
        <5>3. PICK first \in machine.pci :
                 /\ first.function = 0 /\ first.device = h.device
                 /\ first.bus = h.bus /\ first.segment = h.segment
                 /\ first.multi
          BY <3>1, <5>2 DEF Offered
        <5>4. first \in Header(0)
          BY <3>2, <3>3, <5>3 DEF Header
        <5> QED
          BY <2>1, <5>1, <5>3, <5>4
      <4>4. function \in Int /\ FUNCTIONS \in Int
        BY <1>1, PciAssumption
      <4> QED
        BY <4>1, <4>2, <4>3, <4>4
    <3> QED
      BY <3>1, <3>2, <3>3, <3>4 DEF Header, Place
  <2>3. ASSUME NEW h \in Header(function)
        PROVE  h \in Seen' /\ Place(h) = <<bus, device, function>>
    <3>1. h \in machine.pci /\ h.segment = ecam[bus] /\ h.bus = bus
          /\ h.device = device /\ h.function = function
      BY DEF Header
    <3>2. Offered(h)
      <4>1. CASE function = 0
        BY <3>1, <4>1 DEF Offered
      <4>2. CASE function # 0
        <5>1. PICK g \in Header(0) : g.multi
          BY <1>1, <4>2
        <5> QED
          BY <3>1, <5>1 DEF Offered, Header
      <4> QED
        BY <4>1, <4>2
    <3>3. Passed(h)'
      BY <1>1, <1>3, <1>5, <3>1 DEF Passed
    <3> QED
      BY <1>3, <1>4, <3>1, <3>2, <3>3 DEF Seen, Place
  <2>4. CASE Registers
    <3>1. PICK h : h \in Header(function)
      BY <2>1, <2>4
    <3>2. <<bus, device, function>> \in Scanned'
      BY <2>3, <3>1 DEF Scanned, Place
    <3>3. ASSUME NEW p \in Scanned', p \notin Scanned PROVE p = <<bus, device, function>>
      <4>1. PICK g \in Seen' : p = Place(g)
        BY <3>3 DEF Scanned, Place
      <4>2. g \notin Seen
        BY <3>3, <4>1 DEF Scanned
      <4> QED
        BY <2>2, <4>1, <4>2
    <3> QED
      BY <1>8, <2>4, <3>2, <3>3
  <2>5. CASE ~Registers
    <3>1. Seen' = Seen
      BY <1>7, <2>1, <2>2, <2>5
    <3> QED
      BY <2>5, <3>1 DEF Scanned, Place
  <2> QED
    BY <2>4, <2>5
<1> QED
  BY <1>8, <1>10, <1>11

(* What is registered after a step. *)
LEMMA RegistryKept ==
    ASSUME Control, PciInv, root = RootTable, pc = "check_device", pci_check_device,
           pc' = (IF bus' = bus THEN "check_device" ELSE "map_bus"),
           UNCHANGED <<machine, root>>
    PROVE  Registry'
<1> DEFINE here == <<bus, device, function>>
<1>1. /\ Scanned \subseteq Scanned' /\ here \notin Scanned
      /\ Len(pci_devices) < PCI_MAX_DEVICES =>
            Scanned' = IF Registers THEN Scanned \cup {here} ELSE Scanned
  BY Comes
<1>2. IsFiniteSet(Scanned) /\ IsFiniteSet(Scanned')
  <2>1. IsFiniteSet(machine.pci)
    BY PciTypes
  <2>2. (IsFiniteSet(machine.pci) => IsFiniteSet(Scanned))'
    BY ScannedFinite, PTL
  <2> QED
    BY <2>1, <2>2, ScannedFinite
<1>3. Cardinality(Scanned) \in Nat /\ Cardinality(Scanned') \in Nat
      /\ Cardinality(Scanned) <= Cardinality(Scanned')
  BY <1>1, <1>2, FS_CardinalityType, FS_Subset
<1>4. /\ pci_devices \in Seq(Scanned) /\ IsInjective(pci_devices)
      /\ Len(pci_devices) = IF Cardinality(Scanned) < PCI_MAX_DEVICES
                            THEN Cardinality(Scanned) ELSE PCI_MAX_DEVICES
  BY DEF PciInv, Registry
<1> HIDE DEF here
<1>5. CASE Registers
  <2>1. Len(pci_devices) < PCI_MAX_DEVICES /\ pci_devices' = Append(pci_devices, here)
    BY <1>5 DEF Registers, pci_check_device, here
  <2>2. Scanned' = Scanned \cup {here}
    BY <1>1, <1>5, <2>1
  <2>3. Cardinality(Scanned') = Cardinality(Scanned) + 1
    BY <1>1, <1>2, <2>2, FS_AddElement
  <2>4. /\ pci_devices' \in Seq(Scanned')
        /\ Len(pci_devices') = Len(pci_devices) + 1
        /\ \A k \in 1 .. Len(pci_devices) : pci_devices'[k] = pci_devices[k]
        /\ pci_devices'[Len(pci_devices) + 1] = here
        /\ DOMAIN pci_devices' = 1 .. Len(pci_devices) + 1
    <3>1. pci_devices \in Seq(Scanned') /\ here \in Scanned'
      BY <1>4, <2>2
    <3> QED
      BY <2>1, <3>1
  <2>5. IsInjective(pci_devices')
    <3>1. \A k \in 1 .. Len(pci_devices) : pci_devices[k] \in Scanned
      BY <1>4
    <3>2. Len(pci_devices) \in Nat /\ DOMAIN pci_devices = 1 .. Len(pci_devices)
      BY <1>4
    <3>3. ASSUME NEW j \in 1 .. Len(pci_devices) + 1, NEW k \in 1 .. Len(pci_devices) + 1,
                 pci_devices'[j] = pci_devices'[k]
          PROVE  j = k
      BY <1>1, <1>4, <2>4, <3>1, <3>2, <3>3 DEF IsInjective
    <3> QED
      BY <2>4, <3>3 DEF IsInjective
  <2>6. Len(pci_devices') = IF Cardinality(Scanned') < PCI_MAX_DEVICES
                            THEN Cardinality(Scanned') ELSE PCI_MAX_DEVICES
    BY <1>3, <1>4, <2>1, <2>3, <2>4, PciAssumption
  <2> QED
    BY <2>4, <2>5, <2>6 DEF Registry
<1>6. CASE ~Registers
  <2>1. pci_devices' = pci_devices
    BY <1>6 DEF pci_check_device
  <2>2. pci_devices' \in Seq(Scanned')
    BY <1>1, <1>4, <2>1
  <2>3. CASE Len(pci_devices) < PCI_MAX_DEVICES
    BY <1>1, <1>4, <1>6, <2>1, <2>2, <2>3 DEF Registry
  <2>4. CASE ~(Len(pci_devices) < PCI_MAX_DEVICES)
    <3>1. Len(pci_devices) = PCI_MAX_DEVICES /\ PCI_MAX_DEVICES <= Cardinality(Scanned)
      BY <1>3, <1>4, <2>4, PciAssumption
    <3>2. ~(Cardinality(Scanned') < PCI_MAX_DEVICES)
      BY <1>3, <3>1, PciAssumption
    <3> QED
      BY <1>4, <2>1, <2>2, <3>1, <3>2 DEF Registry
  <2> QED
    BY <2>3, <2>4
<1> QED
  BY <1>5, <1>6

(* The enumeration keeps its invariant, whichever of its loops goes on. *)
LEMMA PciStep ==
    ASSUME Control, Control', PciInv, pci_init
    PROVE  PciInv'
<1> USE DEF At, Then
<1>1. root = RootTable /\ UNCHANGED <<machine, root>> /\ UNCHANGED interrupts /\ ~interrupts
  BY DEF pci_init, Control, Scan, Early, Up, Ended, cpuvars
<1>2. /\ Allocations \in Seq(Range(Allocations))
      /\ \A k \in DOMAIN Allocations :
            Allocations[k].start_bus \in Nat /\ Allocations[k].end_bus \in Nat
  BY <1>1, PciTypes
<1>3. Allocations' = Allocations
  BY <1>1 DEF Allocations, acpi_find_table
<1>4. /\ DOMAIN Allocations = 1 .. Len(Allocations) /\ Len(Allocations) \in Nat
  BY <1>2
<1> HIDE DEF Allocations
<1>5. alloc \in Nat
  BY DEF PciInv, LoopsAt
<1> DEFINE Same == UNCHANGED <<ecam, pci_devices>> /\ pc' # "check_device" /\ pc # "check_device"
<1>6. Same => Registry'
  <2>1. SUFFICES ASSUME Same PROVE Registry'
    OBVIOUS
  <2>2. Seen' = Seen
    BY <1>1, <2>1 DEF Seen, Passed, Offered
  <2>3. Scanned' = Scanned
    BY <2>2 DEF Scanned, Place
  <2> QED
    BY <2>1, <2>3 DEF PciInv, Registry
<1>7. CASE pc = "pci"
  <2>1. alloc = 0 /\ ecam = <<>> /\ pci_devices = <<>>
    BY <1>7 DEF PciInv, LoopsAt, Early
  <2>2. CASE acpi_find_table("MCFG") = NOTHING
    <3>1. Allocations = <<>>
      BY <2>2 DEF Allocations, NOTHING
    <3>2. pc' = "devices" /\ UNCHANGED pcivars
      BY <1>7, <2>2 DEF pci_init
    <3> USE DEF pcivars, cursor
    <3>3. LoopsAt'
      BY <1>1, <1>3, <2>1, <3>1, <3>2 DEF LoopsAt, Early
    <3>4. BusesMapped'
      BY <1>3, <2>1, <3>1, <3>2 DEF BusesMapped
    <3> QED
      BY <1>6, <1>7, <3>2, <3>3, <3>4 DEF PciInv
  <2>3. CASE acpi_find_table("MCFG") # NOTHING
    <3>1. pc' = "map_bus" /\ NextAllocation
      BY <1>7, <2>3 DEF pci_init
    <3>2. /\ alloc' = 1 /\ UNCHANGED <<ecam, pci_devices>>
          /\ 1 \in DOMAIN Allocations => bus' = Allocations[1].start_bus
      BY <1>3, <2>1, <3>1 DEF NextAllocation
    <3>3. LoopsAt'
      BY <1>1, <1>2, <1>3, <1>4, <3>1, <3>2 DEF LoopsAt, Early
    <3>4. BusesMapped'
      BY <1>2, <1>3, <1>4, <2>1, <3>2 DEF BusesMapped
    <3> QED
      BY <1>6, <1>7, <3>1, <3>2, <3>3, <3>4 DEF PciInv
  <2> QED
    BY <2>2, <2>3
<1>8. CASE pc = "map_bus" /\ alloc \notin DOMAIN Allocations
  <2>1. pc' = "devices" /\ UNCHANGED pcivars
    BY <1>8 DEF pci_init
  <2> USE DEF pcivars, cursor
  <2>2. alloc > 0
    BY <1>8 DEF PciInv, LoopsAt
  <2>3. DOMAIN Allocations \subseteq 1 .. alloc - 1
    BY <1>4, <1>5, <1>8, <2>2
  <2>4. LoopsAt'
    BY <1>1, <1>3, <1>5, <2>1, <2>3 DEF LoopsAt, Early
  <2>5. BusesMapped'
    BY <1>3, <2>1 DEF PciInv, BusesMapped
  <2> QED
    BY <1>6, <1>8, <2>1, <2>4, <2>5 DEF PciInv
<1>9. CASE pc = "map_bus" /\ alloc \in DOMAIN Allocations /\ bus > Allocations[alloc].end_bus
  <2>1. bus \in Nat
    BY <1>9 DEF PciInv, LoopsAt
  <2>2. ~(bus <= Allocations[alloc].end_bus)
    BY <1>2, <1>9, <2>1
  <2>3. pc' = "map_bus" /\ NextAllocation
    BY <1>9, <2>2 DEF pci_init
  <2>4. /\ alloc' = alloc + 1 /\ UNCHANGED <<ecam, pci_devices>>
        /\ alloc + 1 \in DOMAIN Allocations => bus' = Allocations[alloc + 1].start_bus
    BY <1>3, <2>3 DEF NextAllocation
  <2>5. LoopsAt'
    BY <1>1, <1>2, <1>3, <1>5, <2>3, <2>4 DEF LoopsAt, Early
  <2>6. \A b \in DOMAIN ecam : \E k \in DOMAIN Allocations :
           /\ ecam[b] = Allocations[k].segment
           /\ b \in Allocations[k].start_bus .. Allocations[k].end_bus
    BY DEF PciInv, BusesMapped
  <2>7. ASSUME NEW k \in 1 .. alloc + 1, k \in DOMAIN Allocations,
               NEW b \in Allocations[k].start_bus .. Allocations[k].end_bus,
               k = alloc + 1 => b < bus'
        PROVE  b \in DOMAIN ecam /\ ecam[b] = Allocations[k].segment
    <3>1. k \in 1 .. alloc
      BY <1>2, <1>5, <2>4, <2>7
    <3>2. k = alloc => b < bus
      BY <1>2, <1>9, <2>1, <2>7
    <3> QED
      BY <2>7, <3>1, <3>2 DEF PciInv, BusesMapped
  <2>8. BusesMapped'
    BY <1>3, <2>4, <2>6, <2>7 DEF BusesMapped
  <2> QED
    BY <1>6, <1>9, <2>3, <2>4, <2>5, <2>8 DEF PciInv
<1>10. CASE pc = "map_bus" /\ alloc \in DOMAIN Allocations /\ bus <= Allocations[alloc].end_bus
  <2>1. bus \in Nat /\ Allocations[alloc].start_bus <= bus
    BY <1>10 DEF PciInv, LoopsAt
  <2>2. ~(bus > Allocations[alloc].end_bus)
    BY <1>2, <1>10, <2>1
  <2>3. CASE Mapped
    <3>1. pc' = "panic" /\ UNCHANGED pcivars
      BY <1>10, <2>2, <2>3 DEF pci_init
    <3> QED
      BY <1>1, <1>10, <3>1, PciQuiet DEF Early
  <2>4. CASE ~Mapped
    <3>1. pc' = "check_device" /\ map_ecam_bus
      BY <1>10, <2>2, <2>4 DEF pci_init
    <3>2. /\ bus \notin DOMAIN ecam /\ DOMAIN ecam' = DOMAIN ecam \cup {bus}
          /\ ecam'[bus] = Allocations[alloc].segment
          /\ \A b \in DOMAIN ecam : ecam'[b] = ecam[b]
          /\ device' = 0 /\ function' = 0 /\ UNCHANGED <<alloc, bus, pci_devices>>
      BY <2>4, <3>1 DEF map_ecam_bus, Mapped
    <3>3. bus \in Allocations[alloc].start_bus .. Allocations[alloc].end_bus
      BY <1>2, <1>10, <2>1
    <3>4. LoopsAt'
      BY <1>1, <1>3, <1>5, <1>10, <2>1, <3>1, <3>2, <3>3, PciAssumption DEF LoopsAt, Early
    <3>5. ASSUME NEW b \in DOMAIN ecam'
          PROVE  \E k \in DOMAIN Allocations :
                    /\ ecam'[b] = Allocations[k].segment
                    /\ b \in Allocations[k].start_bus .. Allocations[k].end_bus
      BY <1>10, <3>2, <3>3 DEF PciInv, BusesMapped
    <3>6. ASSUME NEW k \in 1 .. alloc, k \in DOMAIN Allocations,
                 NEW b \in Allocations[k].start_bus .. Allocations[k].end_bus,
                 k = alloc => b < bus
          PROVE  b \in DOMAIN ecam' /\ ecam'[b] = Allocations[k].segment
      BY <3>2, <3>6 DEF PciInv, BusesMapped
    <3>7. BusesMapped'
      BY <1>3, <3>2, <3>5, <3>6 DEF BusesMapped
    <3>8. \A h \in machine.pci : Passed(h)' <=> Passed(h)
      <4> SUFFICES ASSUME NEW h \in machine.pci PROVE Passed(h)' <=> Passed(h)
        OBVIOUS
      <4>1. h.device \in 0 .. DEVICES - 1 /\ h.function \in 0 .. FUNCTIONS - 1
        BY <1>1, PciTypes
      <4>2. ~(h.device < 0) /\ ~(h.function < 0)
        BY <4>1, PciAssumption
      <4>3. Passed(h) <=> h.bus \in DOMAIN ecam /\ h.segment = ecam[h.bus]
        BY <1>10 DEF Passed
      <4>4. Passed(h)' <=> h.bus \in DOMAIN ecam' /\ h.segment = ecam'[h.bus] /\ h.bus # bus
        BY <3>1, <3>2, <4>2 DEF Passed
      <4> QED
        BY <3>2, <4>3, <4>4
    <3>9. Seen' = Seen
      BY <1>1, <3>8 DEF Seen, Offered
    <3>10. Registry'
      BY <3>2, <3>9 DEF PciInv, Registry, Scanned, Place
    <3> QED
      BY <3>4, <3>7, <3>10 DEF PciInv
  <2> QED
    BY <2>3, <2>4
<1>11. CASE pc = "check_device"
  <2>1. pci_check_device /\ pc' = (IF bus' = bus THEN "check_device" ELSE "map_bus")
    BY <1>11 DEF pci_init
  <2>2. Registry'
    BY <1>1, <1>11, <2>1, RegistryKept
  <2>3. /\ alloc \in DOMAIN Allocations /\ bus \in Nat /\ bus \in DOMAIN ecam
        /\ bus \in Allocations[alloc].start_bus .. Allocations[alloc].end_bus
        /\ ecam[bus] = Allocations[alloc].segment
        /\ device \in 0 .. DEVICES - 1 /\ function \in 0 .. FUNCTIONS - 1
        /\ function > 0 => \E h \in Header(0) : h.multi
    BY <1>11 DEF PciInv, LoopsAt
  <2>4. UNCHANGED <<alloc, ecam>> /\ (bus' = bus \/ bus' = bus + 1)
    BY <2>1 DEF pci_check_device, NextBus
  <2>5. ASSUME NEW k \in 1 .. alloc, k \in DOMAIN Allocations,
               NEW b \in Allocations[k].start_bus .. Allocations[k].end_bus,
               k = alloc => b < bus'
        PROVE  b \in DOMAIN ecam /\ ecam[b] = Allocations[k].segment
    <3>1. CASE k = alloc /\ b = bus
      BY <2>3, <3>1
    <3>2. CASE ~(k = alloc /\ b = bus)
      <4>1. k = alloc => b < bus
        BY <1>2, <2>3, <2>4, <2>5, <3>2
      <4> QED
        BY <2>5, <4>1 DEF PciInv, BusesMapped
    <3> QED
      BY <3>1, <3>2
  <2>6. BusesMapped'
    <3>1. \A b \in DOMAIN ecam : \E k \in DOMAIN Allocations :
             /\ ecam[b] = Allocations[k].segment
             /\ b \in Allocations[k].start_bus .. Allocations[k].end_bus
      BY DEF PciInv, BusesMapped
    <3> QED
      BY <1>3, <2>4, <2>5, <3>1 DEF BusesMapped
  <2>7. CASE bus' = bus
    <3>1. pc' = "check_device"
      BY <2>1, <2>7
    <3>2. device' \in 0 .. DEVICES - 1 /\ function' \in 0 .. FUNCTIONS - 1
      BY <2>1, <2>3, PciAssumption DEF pci_check_device
    <3>3. function' > 0 => device' = device /\ (function > 0 \/ \E h \in Header(0) : h.multi)
      BY <2>1, <2>3, PciAssumption DEF pci_check_device, MoreFunctions
    <3>4. function' > 0 => Header(0)' = Header(0)
      BY <1>1, <2>4, <2>7, <3>3 DEF Header
    <3>5. LoopsAt'
      BY <1>1, <1>3, <1>5, <2>3, <2>4, <2>7, <3>1, <3>2, <3>3, <3>4 DEF LoopsAt, Early
    <3> QED
      BY <2>2, <2>6, <3>5 DEF PciInv
  <2>8. CASE bus' # bus
    <3>1. pc' = "map_bus" /\ bus' = bus + 1
      BY <2>1, <2>4, <2>8
    <3>2. alloc > 0 /\ bus' \in Nat /\ Allocations[alloc].start_bus <= bus'
      BY <1>2, <1>4, <1>5, <2>3, <3>1
    <3>3. LoopsAt'
      BY <1>1, <1>3, <1>5, <2>3, <2>4, <3>1, <3>2 DEF LoopsAt, Early
    <3> QED
      BY <2>2, <2>6, <3>3 DEF PciInv
  <2> QED
    BY <2>7, <2>8
<1>12. \/ pc = "pci" \/ pc = "check_device"
       \/ pc = "map_bus" /\ alloc \notin DOMAIN Allocations
       \/ pc = "map_bus" /\ alloc \in DOMAIN Allocations /\ bus > Allocations[alloc].end_bus
       \/ pc = "map_bus" /\ alloc \in DOMAIN Allocations /\ bus <= Allocations[alloc].end_bus
  BY DEF pci_init
<1> QED
  BY <1>7, <1>8, <1>9, <1>10, <1>11, <1>12

(* The other steps leave the enumeration alone; FindTables precedes it. *)
LEMMA PciKept ==
    ASSUME Control, Control', PciInv, [BootNext]_bootvars
    PROVE  PciInv'
<1> USE DEF Control, Early, Scan, Up, Ended, At, Then
<1> USE DEF bootvars, filevars, files, walk, cat, cpuvars
<1>1. CASE pci_init
  BY <1>1, PciStep
<1>2. CASE FindTables
  <2>1. alloc = 0 /\ ecam = <<>> /\ pci_devices = <<>> /\ ~interrupts
    BY <1>2 DEF FindTables, PciInv, LoopsAt
  <2>2. UNCHANGED <<pcivars, interrupts>> /\ pc' \in {"idt", "panic"}
    BY <1>2 DEF FindTables
  <2>3. UNCHANGED <<alloc, ecam, pci_devices>>
    BY <2>2 DEF pcivars, cursor
  <2>4. (alloc = 0 /\ ecam = <<>> /\ pci_devices = <<>> /\ pc \notin Scan \cup {"devices"}
           /\ ~interrupts => PciInv)'
    BY PciBlank, PTL
  <2> QED
    BY <2>1, <2>2, <2>3, <2>4
<1>3. SUFFICES ASSUME ~pci_init, ~FindTables PROVE PciInv'
  BY <1>1, <1>2
<1>4. /\ UNCHANGED <<machine, root, pcivars>>
      /\ pc' = "map_bus" => pc = "map_bus"
      /\ (pc' = "check_device") = (pc = "check_device")
      /\ pc' \in Early => pc \in Early
      /\ pc' = "devices" \/ interrupts' => pc = "devices" \/ interrupts
  <2>1. CASE Start
    BY <2>1 DEF Start
  <2>2. CASE Ramdisk
    BY <2>2 DEF Ramdisk, ParseEntry, EndOfArchive
  <2>3. CASE idt_init
    BY <2>3 DEF idt_init
  <2>4. CASE FindMadt
    BY <2>4 DEF FindMadt
  <2>5. CASE WalkMadt
    BY <2>5 DEF WalkMadt
  <2>6. CASE Svr
    BY <2>6 DEF Svr
  <2>7. CASE Route
    BY <2>7 DEF Route
  <2>8. CASE InitDevices
    BY <2>8 DEF InitDevices
  <2>9. CASE fb_enable_double_buffering
    BY <2>9 DEF fb_enable_double_buffering
  <2>10. CASE \E vector \in irr : Deliver(vector)
    BY <2>10 DEF Deliver
  <2>11. CASE Devices
    BY <2>11 DEF Devices
  <2>12. CASE Command
    BY <2>12 DEF Command, Reader, Cat, Open, AllocBuffer, TooLarge, Show, FreeBuffer, Img,
                 Proceed, Return
  <2>13. CASE Leave("reboot") \/ Leave("off")
    BY <2>13 DEF Leave
  <2>14. CASE Restart \/ StayDown
    BY <2>14 DEF Restart, StayDown
  <2>15. CASE UNCHANGED bootvars
    BY <2>15
  <2> QED
    BY <1>3, <2>1, <2>2, <2>3, <2>4, <2>5, <2>6, <2>7, <2>8, <2>9, <2>10, <2>11, <2>12,
       <2>13, <2>14, <2>15 DEF BootNext, Step
<1> QED
  BY <1>4, PciQuiet

(* The invariant of the enumeration holds in every state. *)
LEMMA Enumeration == BootSpec => []PciInv
<1>1. BootInit => PciInv
  BY PciBlank DEF BootInit, InitPci, Scan
<1>2. Control /\ Control' /\ PciInv /\ [BootNext]_bootvars => PciInv'
  BY PciKept
<1> QED
  BY <1>1, <1>2, BootControl, PTL DEF BootSpec

(* Only functions of the buses named are registered, each of them once,    *)
(* and all of them as far as the registry goes.                            *)
THEOREM DevicesAreRegistered == BootSpec => []DevicesRegistered
<1>1. ASSUME Control, PciInv PROVE DevicesRegistered
  <2>1. pci_devices \in Seq(Scanned) /\ IsInjective(pci_devices)
        /\ Len(pci_devices) = IF Cardinality(Scanned) < PCI_MAX_DEVICES
                              THEN Cardinality(Scanned) ELSE PCI_MAX_DEVICES
    BY <1>1 DEF PciInv, Registry
  <2>2. Present = {Place(h) : h \in {h \in machine.pci :
            /\ \E k \in DOMAIN Allocations :
                  /\ h.segment = Allocations[k].segment
                  /\ h.bus \in Allocations[k].start_bus .. Allocations[k].end_bus
            /\ Offered(h)}}
    BY DEF Present, Place, Offered
  <2>3. Seen \subseteq {h \in machine.pci :
            /\ \E k \in DOMAIN Allocations :
                  /\ h.segment = Allocations[k].segment
                  /\ h.bus \in Allocations[k].start_bus .. Allocations[k].end_bus
            /\ Offered(h)}
    BY <1>1 DEF Seen, Passed, PciInv, BusesMapped
  <2>4. Range(pci_devices) \subseteq Present
    <3>1. Range(pci_devices) \subseteq Scanned
      BY <2>1 DEF Range
    <3> QED
      BY <2>2, <2>3, <3>1 DEF Scanned
  <2>5. ASSUME TakesInterrupts
        PROVE  Len(pci_devices) = Min({PCI_MAX_DEVICES, Cardinality(Present)})
    <3>1. interrupts /\ pc \in Up
      BY <1>1, <2>5 DEF TakesInterrupts, Control, Up, Ended, Stopped
    <3>2. root = RootTable
      BY <1>1, <3>1 DEF Control, Up, Ended
    <3>3. DOMAIN Allocations \subseteq 1 .. alloc - 1 /\ alloc \in Nat
      BY <1>1, <3>1 DEF PciInv, LoopsAt
    <3>4. ASSUME NEW h \in machine.pci, NEW k \in DOMAIN Allocations,
                 h.segment = Allocations[k].segment,
                 h.bus \in Allocations[k].start_bus .. Allocations[k].end_bus
          PROVE  h.bus \in DOMAIN ecam /\ h.segment = ecam[h.bus]
      <4>1. k \in 1 .. alloc /\ k # alloc
        BY <3>3, <3>4
      <4> QED
        BY <1>1, <3>4, <4>1 DEF PciInv, BusesMapped
    <3>5. pc # "check_device"
      BY <3>1 DEF Up
    <3>6. Present = Scanned
      BY <2>2, <2>3, <3>4, <3>5 DEF Scanned, Seen, Passed
    <3>7. Cardinality(Scanned) \in Nat
      BY <1>1, <3>2, PciTypes, ScannedFinite, FS_CardinalityType
    <3> QED
      BY <2>1, <3>6, <3>7, MinOfTwo, PciAssumption
  <2> QED
    BY <2>1, <2>4, <2>5 DEF DevicesRegistered
<1> QED
  BY <1>1, BootControl, Enumeration, PTL

-----------------------------------------------------------------------------
(* Interrupt routing *)

Before == {"start", "walk", "acpi", "idt", "apic"}
Opening == {"mask", "aim", "open"}
Routed == {"pci", "devices"} \cup Scan \cup Up

(* Until the local APIC is enabled every entry is masked. *)
EntriesTyped ==
    /\ DOMAIN irq_overrides = Sources /\ DOMAIN irq_flags = Sources
    /\ DOMAIN low = DOMAIN machine.ioapics /\ DOMAIN high = DOMAIN machine.ioapics
    /\ \A id \in DOMAIN machine.ioapics : DOMAIN low[id] = Pins /\ DOMAIN high[id] = Pins
    /\ routed \in Lines
    /\ pc \in Before \cup {"madt", "svr"} => ~lapic /\ routed = 0
    /\ pc \in Opening \cup Routed => lapic
    /\ ~lapic => \A id \in DOMAIN machine.ioapics, pin \in Pins : low[id][pin].masked

(* What the walk knows of a line: how it is wired, or that no override of  *)
(* it has come yet.                                                        *)
Known(line) == irq_overrides[line] = Line(line).gsi /\ irq_flags[line] = Line(line).flags
OverridesRead ==
    /\ pc \in Before => start = 1
    /\ pc = "madt" =>
          /\ MADT # NOTHING /\ start \in 1 .. Len(MADT.body) + 1
          /\ \A line \in Lines :
                \/ Known(line)
                \/ /\ irq_overrides[line] = line /\ irq_flags[line] = BusDefault
                   /\ \A k \in 1 .. start - 1 :
                         ~(IsOverride(MADT.body[k]) /\ MADT.body[k].source = line)
    /\ pc \in {"svr"} \cup Opening =>
          ioapic_base # NONE /\ \A line \in Lines : Known(line)

(* An entry that is open serves a line. *)
Serves(line, id, pin) ==
    /\ Wire(line) = <<id, pin>> /\ high[id][pin] = machine.cpu
    /\ low[id][pin].vector = 32 + line
    /\ low[id][pin].active_low = (Line(line).flags.polarity = 3)
    /\ low[id][pin].level = (Line(line).flags.trigger = 3)
    /\ low[id][pin].vector \in idt
EntriesRight ==
    /\ pc \in {"apic", "madt", "svr"} \cup Opening => idt = Exceptions \cup Irqs
    /\ ServesLines =>
          /\ \A id \in DOMAIN machine.ioapics, pin \in Pins :
                ~low[id][pin].masked => \E line \in Lines : Serves(line, id, pin)
          /\ pc = "open" => HighOf(routed) = machine.cpu
          /\ \A line \in Lines :
                pc \in Routed \/ (pc \in Opening /\ line < routed) =>
                    ~LowOf(line).masked /\ HighOf(line) = machine.cpu

(* A byte that waits has been announced, or came too early. *)
Announced ==
    /\ obf /\ ~lapic => early
    /\ ServesLines /\ obf /\ ~early => 33 \in irr

LinesInv == EntriesTyped /\ OverridesRead /\ EntriesRight /\ Announced

(* A line ends at a pin of an IOAPIC. *)
LEMMA Wires ==
    ASSUME Control, NEW line \in Lines
    PROVE  /\ Wire(line)[1] \in DOMAIN machine.ioapics
           /\ Wire(line)[2] \in Pins
           /\ Wire(line) = <<Wire(line)[1], Line(line).gsi - machine.ioapics[Wire(line)[1]]>>
           /\ Line(line).gsi \in Nat
<1>1. Wired(machine)
  BY MachinesAssumption DEF Control
<1>2. Line(line).gsi \in Nat
      /\ \E id \in DOMAIN machine.ioapics : Line(line).gsi - machine.ioapics[id] \in Pins
  BY <1>1 DEF Wired, Line
<1> DEFINE at == CHOOSE id \in DOMAIN machine.ioapics :
                    Line(line).gsi - machine.ioapics[id] \in Pins
<1>3. at \in DOMAIN machine.ioapics /\ Line(line).gsi - machine.ioapics[at] \in Pins
  BY <1>2
<1>4. Wire(line) = <<at, Line(line).gsi - machine.ioapics[at]>>
  BY DEF Wire
<1> HIDE DEF at
<1> QED
  BY <1>2, <1>3, <1>4

(* When the IOAPIC that is used has the lines, they end at two of its      *)
(* pins.                                                                   *)
LEMMA ServedWires ==
    ASSUME Control, ServesLines, ioapic_base # NONE
    PROVE  /\ ioapic_base \in DOMAIN machine.ioapics
           /\ \A line \in Lines : Wire(line) = <<ioapic_base, Line(line).gsi>>
                                  /\ Line(line).gsi \in Pins
           /\ Wire(0) # Wire(1)
<1>1. machine.ioapics[ioapic_base] = 0 /\ \A line \in Lines : Wire(line)[1] = ioapic_base
  BY DEF ServesLines
<1>2. ASSUME NEW line \in Lines
      PROVE  /\ Wire(line) = <<ioapic_base, Line(line).gsi>> /\ Line(line).gsi \in Pins
             /\ ioapic_base \in DOMAIN machine.ioapics
  <2>1. /\ Wire(line)[1] \in DOMAIN machine.ioapics
        /\ Wire(line)[2] \in Pins
        /\ Wire(line) = <<Wire(line)[1], Line(line).gsi - machine.ioapics[Wire(line)[1]]>>
        /\ Line(line).gsi \in Nat
    BY Wires
  <2>2. Line(line).gsi - 0 = Line(line).gsi
    BY <2>1
  <2>3. Wire(line) = <<ioapic_base, Line(line).gsi>>
    BY <1>1, <2>1, <2>2
  <2> QED
    BY <1>1, <2>1, <2>3
<1>3. Line(0).gsi # Line(1).gsi
  <2>1. Wired(machine)
    BY MachinesAssumption DEF Control
  <2> QED
    BY <2>1 DEF Wired, Line
<1>4. 0 \in Lines /\ 1 \in Lines
  BY DEF Lines
<1> QED
  BY <1>2, <1>3, <1>4

(* What one of the three writes of ioapic_set_entry changes. *)
LEMMA LowWritten ==
    ASSUME EntriesTyped, NEW value, WriteLow(routed, value)
    PROVE  /\ DOMAIN low' = DOMAIN low /\ \A id \in DOMAIN low : DOMAIN low'[id] = DOMAIN low[id]
           /\ Control /\ ServesLines /\ ioapic_base # NONE /\ Known(routed) =>
                 \A id \in DOMAIN machine.ioapics, pin \in Pins :
                    low'[id][pin] = IF <<id, pin>> = Wire(routed) THEN value ELSE low[id][pin]
<1>1. low' = [low EXCEPT ![ioapic_base][irq_overrides[routed]] = value]
  BY DEF WriteLow
<1>2. DOMAIN low' = DOMAIN low /\ \A id \in DOMAIN low : DOMAIN low'[id] = DOMAIN low[id]
  BY <1>1
<1>3. ASSUME Control, ServesLines, ioapic_base # NONE, Known(routed),
             NEW id \in DOMAIN machine.ioapics, NEW pin \in Pins
      PROVE  low'[id][pin] = IF <<id, pin>> = Wire(routed) THEN value ELSE low[id][pin]
  <2>1. Wire(routed) = <<ioapic_base, irq_overrides[routed]>>
    BY <1>3, ServedWires DEF EntriesTyped, Known
  <2>2. id \in DOMAIN low /\ pin \in DOMAIN low[id]
    BY <1>3 DEF EntriesTyped
  <2> QED
    BY <1>1, <2>1, <2>2
<1> QED
  BY <1>2, <1>3

(* The upper half of an entry is that of the line being routed. *)
LEMMA HighWritten ==
    ASSUME EntriesTyped, AimEntry(routed)
    PROVE  /\ DOMAIN high' = DOMAIN high /\ \A id \in DOMAIN high : DOMAIN high'[id] = DOMAIN high[id]
           /\ Control /\ ServesLines /\ ioapic_base # NONE /\ Known(routed) =>
                 \A id \in DOMAIN machine.ioapics, pin \in Pins :
                    high'[id][pin] = IF <<id, pin>> = Wire(routed) THEN machine.cpu
                                                                   ELSE high[id][pin]
<1>1. high' = [high EXCEPT ![ioapic_base][irq_overrides[routed]] = machine.cpu]
  BY DEF AimEntry, apic_get_id
<1>2. DOMAIN high' = DOMAIN high /\ \A id \in DOMAIN high : DOMAIN high'[id] = DOMAIN high[id]
  BY <1>1
<1>3. ASSUME Control, ServesLines, ioapic_base # NONE, Known(routed),
             NEW id \in DOMAIN machine.ioapics, NEW pin \in Pins
      PROVE  high'[id][pin] = IF <<id, pin>> = Wire(routed) THEN machine.cpu ELSE high[id][pin]
  <2>1. Wire(routed) = <<ioapic_base, irq_overrides[routed]>>
    BY <1>3, ServedWires DEF EntriesTyped, Known
  <2>2. id \in DOMAIN high /\ pin \in DOMAIN high[id]
    BY <1>3 DEF EntriesTyped
  <2> QED
    BY <1>1, <2>1, <2>2
<1> QED
  BY <1>2, <1>3

(* A step that leaves the controllers alone keeps their invariant. *)
LEMMA LinesQuiet ==
    ASSUME Control, LinesInv, UNCHANGED <<machine, apicvars, routed, idt>>,
           pc' \in Before => pc \in Before, pc' = "apic" => pc = "apic",
           pc' = "svr" => pc = "svr", pc' = "madt" => pc = "madt" /\ root' = root,
           pc' \in Opening => pc' = pc, pc' \in Routed => pc \in Routed
    PROVE  LinesInv'
<1> USE DEF LinesInv, apicvars, routes, redtbl
<1>1. \A line : Line(line)' = Line(line) /\ Wire(line)' = Wire(line)
  BY DEF Line, Wire
<1>2. \A line : LowOf(line)' = LowOf(line) /\ HighOf(line)' = HighOf(line)
  BY <1>1 DEF LowOf, HighOf
<1>3. EntriesTyped'
  BY DEF EntriesTyped, Opening
<1>4. pc' = "madt" => MADT' = MADT
  BY DEF MADT, acpi_find_table
<1>5. \A line : Known(line)' = Known(line)
  BY <1>1 DEF Known
<1>6. OverridesRead'
  BY <1>4, <1>5 DEF OverridesRead, Opening
<1>7. ServesLines' = ServesLines
  BY <1>1 DEF ServesLines
<1>8. \A line, id, pin : Serves(line, id, pin)' = Serves(line, id, pin)
  BY <1>1 DEF Serves
<1>9. EntriesRight'
  BY <1>1, <1>2, <1>7, <1>8 DEF EntriesRight, Opening
<1>10. Announced'
  BY <1>7 DEF Announced
<1> QED
  BY <1>3, <1>6, <1>9, <1>10

(* idt_init: no entry is open yet. *)
LEMMA GatesSet ==
    ASSUME Control, LinesInv, idt_init
    PROVE  LinesInv'
<1> USE DEF idt_init, At, Then, apicvars, routes, redtbl, LinesInv, Before
<1>1. ~lapic /\ ~lapic'
  BY DEF EntriesTyped
<1>2. EntriesTyped' /\ OverridesRead' /\ Announced'
  <2>1. ServesLines' = ServesLines
    BY DEF ServesLines, Wire, Line
  <2> QED
    BY <1>1, <2>1 DEF EntriesTyped, OverridesRead, Announced, Opening, Routed, Scan, Up
<1>3. EntriesRight'
  BY <1>1, <1>2 DEF EntriesRight, EntriesTyped, Opening, Routed, Scan, Up
<1> QED
  BY <1>2, <1>3

(* The overrides of a line agree with its wire, wherever they stand. *)
LEMMA MadtIs ==
    ASSUME Control, root = RootTable, MADT # NOTHING
    PROVE  /\ MADT.body \in Seq(Range(MADT.body))
           /\ \A line \in Lines :
                 /\ \A k \in DOMAIN MADT.body :
                       IsOverride(MADT.body[k]) /\ MADT.body[k].source = line =>
                           /\ Line(line).gsi = MADT.body[k].gsi
                           /\ Line(line).flags = MADT.body[k].flags
                 /\ (\A k \in DOMAIN MADT.body :
                       ~(IsOverride(MADT.body[k]) /\ MADT.body[k].source = line)) =>
                           Line(line).gsi = line /\ Line(line).flags = BusDefault
<1>1. Truthful(machine, MADT.body)
  BY MachinesAssumption DEF Control, MADT, acpi_find_table, RootTable
<1> HIDE DEF MADT
<1>2. MADT.body \in Seq(Range(MADT.body))
  BY <1>1 DEF Truthful
<1>3. \A k \in DOMAIN MADT.body : MADT.body[k] \in Range(MADT.body)
  BY DEF Range
<1>4. \A e \in Range(MADT.body) : \E k \in DOMAIN MADT.body : e = MADT.body[k]
  BY DEF Range
<1> SUFFICES ASSUME NEW line \in Lines
             PROVE  /\ \A e \in Range(MADT.body) : IsOverride(e) /\ e.source = line =>
                          Line(line).gsi = e.gsi /\ Line(line).flags = e.flags
                    /\ (\A e \in Range(MADT.body) : ~(IsOverride(e) /\ e.source = line)) =>
                          Line(line).gsi = line /\ Line(line).flags = BusDefault
  BY <1>2, <1>3, <1>4
<1> DEFINE overrides == {e \in Range(MADT.body) : IsOverride(e) /\ e.source = line}
<1>5. /\ \A e \in overrides : Line(line) = [gsi |-> e.gsi, flags |-> e.flags]
      /\ overrides = {} => Line(line) = [gsi |-> line, flags |-> BusDefault]
  BY <1>1 DEF Truthful, Line
<1> QED
  BY <1>5

(* apic_init up to the walk: every line as usual, no override read. *)
LEMMA WalkBegun ==
    ASSUME Control, LinesInv, FindMadt
    PROVE  LinesInv'
<1> USE DEF FindMadt, At, Then, LinesInv, Before
<1>1. CASE UNCHANGED apicvars /\ pc' = "panic"
  BY <1>1, LinesQuiet DEF cpuvars, Opening, Routed, Scan, Up
<1>2. CASE MADT # NOTHING /\ SetDefaults /\ pc' = "madt"
  <2> USE <1>2 DEF SetDefaults, redtbl, cpuvars
  <2>1. ~lapic /\ ~lapic'
    BY DEF EntriesTyped
  <2>2. start = 1 /\ MADT.body \in Seq(Range(MADT.body))
    <3>1. root = RootTable
      BY DEF Control, Ended
    <3> QED
      BY <3>1, MadtIs DEF OverridesRead
  <2>3. MADT' = MADT
    BY DEF MADT, acpi_find_table
  <2>4. OverridesRead'
    <3>1. \A line \in Lines : line \in Sources
      BY ApicAssumption DEF Lines, Sources
    <3> HIDE DEF MADT
    <3>2. Len(MADT.body) \in Nat
      BY <2>2
    <3> QED
      BY <2>2, <2>3, <3>1, <3>2 DEF OverridesRead, Opening
  <2>5. EntriesTyped'
    BY DEF EntriesTyped, Opening, Routed, Scan, Up
  <2>6. EntriesRight'
    BY <2>1, <2>5 DEF EntriesRight, EntriesTyped, Opening, Routed, Scan, Up
  <2>7. Announced'
    BY <2>1 DEF Announced
  <2> QED
    BY <2>4, <2>5, <2>6, <2>7
<1> QED
  BY <1>1, <1>2

(* One entry of the MADT: an override makes its line known. *)
LEMMA Walked ==
    ASSUME Control, LinesInv, WalkMadt
    PROVE  LinesInv'
<1> USE DEF At, Then, LinesInv, Before
<1>1. /\ pc = "madt" /\ ~lapic /\ MADT # NOTHING /\ start \in 1 .. Len(MADT.body) + 1
      /\ root = RootTable /\ UNCHANGED <<machine, root, routed, idt>>
  BY DEF WalkMadt, EntriesTyped, OverridesRead, Control, Ended, cpuvars
<1>2. MADT' = MADT /\ \A line : Line(line)' = Line(line)
  BY <1>1 DEF MADT, acpi_find_table, Line
<1>3. MADT.body \in Seq(Range(MADT.body))
  BY <1>1, MadtIs
<1>4. DOMAIN MADT.body = 1 .. Len(MADT.body) /\ Len(MADT.body) \in Nat
  BY <1>3
<1> DEFINE Read(line, n) ==
      \/ Known(line)
      \/ /\ irq_overrides[line] = line /\ irq_flags[line] = BusDefault
         /\ \A k \in 1 .. n - 1 : ~(IsOverride(MADT.body[k]) /\ MADT.body[k].source = line)
<1>5. \A line \in Lines : Read(line, start)
  BY <1>1 DEF OverridesRead
<1> HIDE DEF MADT
<1>6. CASE start \in DOMAIN MADT.body
  <2> DEFINE entry == MADT.body[start]
  <2>1. ParseMadtEntry(entry) /\ pc' = "madt"
    BY <1>6 DEF WalkMadt
  <2>2. /\ lapic' = lapic /\ UNCHANGED <<low, high, irr, obf, early>>
        /\ start' = start \/ start' = start + 1
    BY <2>1 DEF ParseMadtEntry, redtbl
  <2>3. DOMAIN irq_overrides' = Sources /\ DOMAIN irq_flags' = Sources
    BY <2>1 DEF ParseMadtEntry, EntriesTyped
  <2>4. EntriesTyped'
    BY <1>1, <2>1, <2>2, <2>3 DEF EntriesTyped, Opening, Routed, Scan, Up
  <2>5. ASSUME NEW line \in Lines
        PROVE  \/ Known(line)'
               \/ /\ irq_overrides'[line] = line /\ irq_flags'[line] = BusDefault
                  /\ \A k \in 1 .. start' - 1 :
                        ~(IsOverride(MADT.body[k]) /\ MADT.body[k].source = line)
    <3>1. line \in Sources /\ line \in DOMAIN irq_overrides /\ line \in DOMAIN irq_flags
      BY ApicAssumption DEF Lines, Sources, EntriesTyped
    <3>2. CASE IsOverride(entry) /\ entry.source = line
      <4>1. Line(line).gsi = entry.gsi /\ Line(line).flags = entry.flags
        BY <1>1, <1>6, <3>2, MadtIs
      <4>2. irq_overrides'[line] = entry.gsi /\ irq_flags'[line] = entry.flags
        BY <2>1, <3>1, <3>2 DEF ParseMadtEntry
      <4> QED
        BY <1>2, <4>1, <4>2 DEF Known
    <3>3. CASE ~(IsOverride(entry) /\ entry.source = line)
      <4>1. irq_overrides'[line] = irq_overrides[line] /\ irq_flags'[line] = irq_flags[line]
        BY <2>1, <3>1, <3>3 DEF ParseMadtEntry
      <4>2. Known(line) => Known(line)'
        BY <1>2, <4>1 DEF Known
      <4>3. ASSUME \A k \in 1 .. start - 1 :
                      ~(IsOverride(MADT.body[k]) /\ MADT.body[k].source = line),
                   NEW k \in 1 .. start' - 1
            PROVE  ~(IsOverride(MADT.body[k]) /\ MADT.body[k].source = line)
        <5>1. k \in 1 .. start - 1 \/ k = start
          BY <1>1, <1>4, <2>2, <4>3
        <5> QED
          BY <3>3, <4>3, <5>1
      <4> QED
        BY <1>2, <1>5, <4>1, <4>2, <4>3
    <3> QED
      BY <3>2, <3>3
  <2>6. OverridesRead'
    <3>1. start' \in 1 .. Len(MADT.body) + 1
      BY <1>1, <1>4, <1>6, <2>2
    <3> QED
      BY <1>1, <1>2, <2>1, <2>5, <3>1 DEF OverridesRead, Opening
  <2>7. EntriesRight'
    BY <1>1, <2>1, <2>2, <2>4 DEF EntriesRight, EntriesTyped, Opening, Routed, Scan, Up
  <2>8. Announced'
    BY <1>1, <2>2 DEF Announced
  <2> QED
    BY <2>4, <2>6, <2>7, <2>8
<1>7. CASE start \notin DOMAIN MADT.body
  <2>1. UNCHANGED apicvars /\ pc' = IF ioapic_base = NONE THEN "panic" ELSE "svr"
    BY <1>7 DEF WalkMadt
  <2>2. CASE ioapic_base = NONE
    BY <1>1, <2>1, <2>2, LinesQuiet DEF Opening, Routed, Scan, Up
  <2>3. CASE ioapic_base # NONE
    <3> USE DEF apicvars, routes, redtbl
    <3>1. start - 1 = Len(MADT.body)
      BY <1>1, <1>4, <1>7
    <3>2. ASSUME NEW line \in Lines PROVE Known(line)
      BY <1>1, <1>4, <1>5, <3>1, MadtIs DEF Known
    <3>3. OverridesRead'
      BY <1>2, <2>1, <2>3, <3>2 DEF OverridesRead, Known
    <3>4. EntriesTyped'
      BY <1>1, <2>1, <2>3 DEF EntriesTyped, Opening, Routed, Scan, Up
    <3>5. EntriesRight'
      BY <1>1, <2>1, <2>3, <3>4 DEF EntriesRight, EntriesTyped, Opening, Routed, Scan, Up
    <3>6. Announced'
      BY <1>1, <2>1 DEF Announced
    <3> QED
      BY <3>3, <3>4, <3>5, <3>6
  <2> QED
    BY <2>2, <2>3
<1> QED
  BY <1>6, <1>7

(* The local APIC is enabled while every entry is masked. *)
LEMMA Enabled ==
    ASSUME Control, LinesInv, Svr
    PROVE  LinesInv'
<1> USE DEF Svr, EnableLapic, At, Then, LinesInv, Before, routes, redtbl, cpuvars
<1>1. ~lapic /\ routed = 0 /\ pc = "svr"
  BY DEF EntriesTyped
<1>2. ServesLines' = ServesLines /\ \A line : Known(line)' = Known(line)
  BY DEF ServesLines, Known, Wire, Line
<1>3. EntriesTyped'
  BY <1>1 DEF EntriesTyped, Opening, Routed, Scan, Up
<1>4. OverridesRead'
  BY <1>1, <1>2 DEF OverridesRead, Opening
<1>5. \A id \in DOMAIN machine.ioapics, pin \in Pins : low[id][pin].masked
  BY <1>1 DEF EntriesTyped
<1>6. ~\E line \in Lines : line < 0
  BY DEF Lines
<1>7. EntriesRight'
  BY <1>1, <1>5, <1>6 DEF EntriesRight, Opening, Routed, Scan, Up
<1>8. Announced'
  BY <1>1 DEF Announced
<1> QED
  BY <1>3, <1>4, <1>7, <1>8

(* What the steps of ioapic_set_entry have in common. *)
LEMMA RouteTyped ==
    ASSUME Control, LinesInv, Route
    PROVE  /\ EntriesTyped' /\ OverridesRead'
           /\ lapic /\ Known(routed) /\ ioapic_base # NONE /\ pc \in Opening
           /\ UNCHANGED <<machine, routes, lapic, obf, early, idt>>
           /\ irr \subseteq irr'
           /\ ServesLines' = ServesLines
           /\ idt = Exceptions \cup Irqs
           /\ \A line : Line(line)' = Line(line) /\ Wire(line)' = Wire(line)
<1> USE DEF LinesInv, At, Then
<1>1. pc \in Opening
  BY DEF Route, Opening
<1>2. lapic /\ Known(routed) /\ ioapic_base # NONE /\ routed \in Lines
      /\ idt = Exceptions \cup Irqs
  BY <1>1 DEF EntriesTyped, OverridesRead, EntriesRight, Opening
<1>3. UNCHANGED <<machine, root, routes, lapic, obf, early, idt>>
  BY DEF Route, MaskEntry, AimEntry, OpenEntry
<1>4. irr \subseteq irr'
  BY DEF Route, MaskEntry, AimEntry, OpenEntry
<1>5. \A line : Line(line)' = Line(line) /\ Wire(line)' = Wire(line)
  BY <1>3 DEF Line, Wire
<1>6. ServesLines' = ServesLines
  BY <1>3, <1>5 DEF ServesLines, routes
<1>7. DOMAIN low' = DOMAIN low /\ \A id \in DOMAIN low : DOMAIN low'[id] = DOMAIN low[id]
  BY LowWritten DEF Route, MaskEntry, AimEntry, OpenEntry
<1>8. DOMAIN high' = DOMAIN high /\ \A id \in DOMAIN high : DOMAIN high'[id] = DOMAIN high[id]
  BY HighWritten DEF Route, MaskEntry, AimEntry, OpenEntry
<1>9. pc' \in Opening \cup {"pci"} /\ routed' \in Lines
  BY <1>2 DEF Route, Opening, Lines
<1>10. EntriesTyped'
  BY <1>2, <1>3, <1>7, <1>8, <1>9
     DEF EntriesTyped, Before, Opening, Routed, Scan, Up, routes
<1>11. OverridesRead'
  <2>1. \A line : Known(line)' = Known(line)
    BY <1>3, <1>5 DEF Known, routes
  <2> QED
    BY <1>1, <1>3, <1>9, <2>1 DEF OverridesRead, Before, Opening, routes
<1> QED
  BY <1>1, <1>2, <1>3, <1>4, <1>5, <1>6, <1>10, <1>11

(* ioapic_set_entry: masked, aimed, then opened with what is known of the  *)
(* line.                                                                   *)
LEMMA LineRouted ==
    ASSUME Control, LinesInv, Route
    PROVE  LinesInv'
<1> USE DEF LinesInv, At, Then
<1>1. /\ EntriesTyped' /\ OverridesRead'
      /\ lapic /\ Known(routed) /\ ioapic_base # NONE /\ pc \in Opening
      /\ UNCHANGED <<machine, routes, lapic, obf, early, idt>>
      /\ irr \subseteq irr'
      /\ ServesLines' = ServesLines
      /\ idt = Exceptions \cup Irqs
      /\ \A line : Line(line)' = Line(line) /\ Wire(line)' = Wire(line)
  BY RouteTyped
<1>2. Announced'
  BY <1>1 DEF Announced
<1>3. pc' \in Opening \cup {"pci"} /\ (pc' \in {"apic", "madt", "svr"} \cup Opening => pc' \in Opening)
  BY DEF Route, Opening
<1>4. CASE ~ServesLines
  BY <1>1, <1>2, <1>3, <1>4 DEF EntriesRight
<1>5. CASE ServesLines
  <2> USE <1>1, <1>5
  <2> DEFINE D == DOMAIN machine.ioapics
  <2>1. /\ \A line \in Lines : Wire(line) \in D \X Pins
        /\ Wire(0) # Wire(1)
        /\ routed \in Lines /\ Lines = {0, 1} /\ Wire(routed) \in D \X Pins
    BY ServedWires DEF EntriesTyped, Lines
  <2>2. /\ \A id \in D, pin \in Pins : ~low[id][pin].masked =>
              \E line \in Lines : Serves(line, id, pin)
        /\ pc = "open" => HighOf(routed) = machine.cpu
        /\ \A line \in Lines : line < routed => ~LowOf(line).masked /\ HighOf(line) = machine.cpu
    BY DEF EntriesRight
  <2>3. \A line \in Lines : Wire(line) = <<Wire(line)[1], Wire(line)[2]>>
          /\ Wire(line)[1] \in D /\ Wire(line)[2] \in Pins
    BY <2>1
  <2>4. CASE pc = "mask" /\ MaskEntry(routed, Vector(routed)) /\ pc' = "aim" /\ routed' = routed
    <3>1. high' = high /\ \A id \in D, pin \in Pins :
             low'[id][pin] = IF <<id, pin>> = Wire(routed) THEN MASKED ELSE low[id][pin]
      BY <2>4, LowWritten DEF MaskEntry
    <3>2. ASSUME NEW id \in D, NEW pin \in Pins, ~low'[id][pin].masked
          PROVE  \E line \in Lines : Serves(line, id, pin)'
      <4>1. low'[id][pin] = low[id][pin]
        BY <3>1, <3>2 DEF MASKED
      <4>2. PICK line \in Lines : Serves(line, id, pin)
        BY <2>2, <3>2, <4>1
      <4> QED
        BY <3>1, <4>1, <4>2 DEF Serves
    <3>3. ASSUME NEW line \in Lines, line < routed
          PROVE  ~LowOf(line)'.masked /\ HighOf(line)' = machine.cpu
      <4>1. line = 0 /\ routed = 1
        BY <2>1, <3>3
      <4>2. LowOf(line)' = LowOf(line) /\ HighOf(line)' = HighOf(line)
        BY <2>1, <2>3, <3>1, <4>1 DEF LowOf, HighOf
      <4> QED
        BY <2>2, <3>3, <4>2
    <3> QED
      BY <1>2, <2>4, <3>2, <3>3 DEF EntriesRight, Routed, Opening, Scan, Up
  <2>5. CASE pc = "aim" /\ AimEntry(routed) /\ pc' = "open" /\ routed' = routed
    <3>1. low' = low /\ \A id \in D, pin \in Pins :
             high'[id][pin] = IF <<id, pin>> = Wire(routed) THEN machine.cpu ELSE high[id][pin]
      BY <2>5, HighWritten DEF AimEntry
    <3>2. ASSUME NEW id \in D, NEW pin \in Pins, ~low'[id][pin].masked
          PROVE  \E line \in Lines : Serves(line, id, pin)'
      <4>1. PICK line \in Lines : Serves(line, id, pin)
        BY <2>2, <3>1, <3>2
      <4> QED
        BY <3>1, <4>1 DEF Serves
    <3>3. HighOf(routed)' = machine.cpu
      BY <2>1, <2>3, <2>5, <3>1 DEF HighOf
    <3>4. ASSUME NEW line \in Lines, line < routed
          PROVE  ~LowOf(line)'.masked /\ HighOf(line)' = machine.cpu
      <4>1. LowOf(line)' = LowOf(line) /\ HighOf(line)' \in {HighOf(line), machine.cpu}
        BY <2>1, <2>3, <3>1 DEF LowOf, HighOf
      <4> QED
        BY <2>2, <3>4, <4>1
    <3> QED
      BY <1>2, <2>5, <3>2, <3>3, <3>4 DEF EntriesRight, Routed, Opening, Scan, Up
  <2>6. CASE /\ pc = "open" /\ OpenEntry(routed, Vector(routed))
             /\ IF routed = 0 THEN routed' = 1 /\ pc' = "mask" ELSE routed' = routed /\ pc' = "pci"
    <3> DEFINE entry == LowPart(routed, Vector(routed))
    <3>1. high' = high /\ \A id \in D, pin \in Pins :
             low'[id][pin] = IF <<id, pin>> = Wire(routed) THEN entry ELSE low[id][pin]
      BY <2>6, LowWritten DEF OpenEntry
    <3>2. /\ ~entry.masked /\ entry.vector = 32 + routed
          /\ entry.active_low = (Line(routed).flags.polarity = 3)
          /\ entry.level = (Line(routed).flags.trigger = 3)
      BY DEF LowPart, Vector, Known
    <3> HIDE DEF entry
    <3>3. HighOf(routed) = machine.cpu
      BY <2>2, <2>6
    <3>4. 32 + routed \in idt
      BY <2>1 DEF Irqs
    <3>5. ASSUME NEW id \in D, NEW pin \in Pins, ~low'[id][pin].masked
          PROVE  \E line \in Lines : Serves(line, id, pin)'
      <4>1. CASE <<id, pin>> = Wire(routed)
        <5>1. low'[id][pin] = entry /\ high'[id][pin] = machine.cpu
          BY <2>3, <3>1, <3>3, <4>1 DEF HighOf
        <5> QED
          BY <2>1, <3>2, <3>4, <4>1, <5>1 DEF Serves
      <4>2. CASE <<id, pin>> # Wire(routed)
        <5>1. low'[id][pin] = low[id][pin]
          BY <3>1, <4>2
        <5>2. PICK line \in Lines : Serves(line, id, pin)
          BY <2>2, <3>5, <5>1
        <5> QED
          BY <3>1, <5>1, <5>2 DEF Serves
      <4> QED
        BY <4>1, <4>2
    <3>6. ASSUME NEW line \in Lines, line <= routed
          PROVE  ~LowOf(line)'.masked /\ HighOf(line)' = machine.cpu
      <4>1. LowOf(line)' = low'[Wire(line)[1]][Wire(line)[2]] /\ HighOf(line)' = HighOf(line)
        BY <3>1 DEF LowOf, HighOf
      <4>2. CASE line = routed
        BY <2>3, <3>1, <3>2, <3>3, <4>1, <4>2
      <4>3. CASE line # routed
        <5>1. line = 0 /\ routed = 1
          BY <2>1, <3>6, <4>3
        <5>2. LowOf(line)' = LowOf(line)
          BY <2>1, <2>3, <3>1, <4>1, <5>1 DEF LowOf
        <5> QED
          BY <2>2, <4>1, <5>1, <5>2
      <4> QED
        BY <4>2, <4>3
    <3>7. \A line \in Lines : pc' \in Routed \/ (pc' \in Opening /\ line < routed') => line <= routed
      BY <2>1, <2>6 DEF Routed, Opening, Scan, Up
    <3>8. pc' # "open"
      BY <2>6
    <3> QED
      BY <1>2, <3>5, <3>6, <3>7, <3>8 DEF EntriesRight
  <2> QED
    BY <2>4, <2>5, <2>6 DEF Route
<1> QED
  BY <1>4, <1>5

(* An entry of a line that is open announces what comes. *)
LEMMA OpenAnnounces ==
    ASSUME Control, LinesInv, ServesLines, ~LowOf(1).masked
    PROVE  Accepted(1) /\ LowOf(1).vector = 33
<1> USE DEF LinesInv
<1>1. 0 \in Lines /\ 1 \in Lines /\ Lines = {0, 1}
  BY DEF Lines
<1>2. Wire(1)[1] \in DOMAIN machine.ioapics /\ Wire(1)[2] \in Pins
      /\ Wire(1) = <<Wire(1)[1], Wire(1)[2]>>
  BY <1>1, Wires
<1>3. PICK line \in Lines : Serves(line, Wire(1)[1], Wire(1)[2])
  BY <1>2 DEF EntriesRight, LowOf
<1>4. lapic
  BY <1>2 DEF EntriesTyped, LowOf
<1>5. Wire(line) = Wire(1)
  BY <1>2, <1>3 DEF Serves
<1>6. line = 1
  <2>1. Wire(0) # Wire(1)
    <3>1. Wired(machine)
      BY MachinesAssumption DEF Control
    <3>2. Line(0).gsi # Line(1).gsi
      BY <3>1 DEF Wired, Line
    <3>3. Wire(0)[1] = Wire(1)[1] /\ Wire(0)[2] = Wire(1)[2] => Line(0).gsi = Line(1).gsi
      <4>1. Wire(0)[2] = Line(0).gsi - machine.ioapics[Wire(0)[1]]
            /\ Wire(1)[2] = Line(1).gsi - machine.ioapics[Wire(1)[1]]
            /\ Line(0).gsi \in Nat /\ Line(1).gsi \in Nat
            /\ Wire(1)[1] \in DOMAIN machine.ioapics
        BY <1>1, Wires
      <4>2. machine.ioapics[Wire(1)[1]] \in Nat
        BY <3>1, <4>1 DEF Wired
      <4> QED
        BY <4>1, <4>2
    <3> QED
      BY <3>2, <3>3
  <2> QED
    BY <1>1, <1>5, <2>1
<1> QED
  BY <1>3, <1>4, <1>6 DEF Serves, Accepted, LowOf, HighOf

(* Interrupts and devices: a byte comes with its edge, and is read with    *)
(* its interrupt.                                                          *)
LEMMA LinesDevice ==
    ASSUME Control, LinesInv, (\E vector \in irr : Deliver(vector)) \/ Devices
    PROVE  LinesInv'
<1> USE DEF LinesInv
<1>1. UNCHANGED <<machine, root, pc, routes, redtbl, lapic, routed, idt>>
  BY DEF Deliver, Devices, Pulse, KeyArrives, filevars, cpuvars
<1>2. EntriesTyped' /\ OverridesRead' /\ EntriesRight' /\ (Announced => ServesLines' = ServesLines)
  <2> USE DEF routes, redtbl
  <2>1. \A line : Line(line)' = Line(line) /\ Wire(line)' = Wire(line)
    BY <1>1 DEF Line, Wire
  <2>2. \A line : LowOf(line)' = LowOf(line) /\ HighOf(line)' = HighOf(line)
    BY <1>1, <2>1 DEF LowOf, HighOf
  <2>3. EntriesTyped'
    BY <1>1 DEF EntriesTyped
  <2>4. MADT' = MADT
    BY <1>1 DEF MADT, acpi_find_table
  <2>5. \A line : Known(line)' = Known(line)
    BY <1>1, <2>1 DEF Known
  <2>6. OverridesRead'
    BY <1>1, <2>4, <2>5 DEF OverridesRead
  <2>7. ServesLines' = ServesLines
    BY <1>1, <2>1 DEF ServesLines
  <2>8. \A line, id, pin : Serves(line, id, pin)' = Serves(line, id, pin)
    BY <1>1, <2>1 DEF Serves
  <2>9. EntriesRight'
    BY <1>1, <2>1, <2>2, <2>7, <2>8 DEF EntriesRight
  <2> QED
    BY <2>3, <2>6, <2>7, <2>9
<1>3. CASE Pulse
  <2>1. irr \subseteq irr' /\ UNCHANGED <<obf, early>>
    BY <1>3 DEF Pulse, Raised
  <2> QED
    BY <1>1, <1>2, <2>1 DEF Announced
<1>4. CASE KeyArrives
  <2>1. early' = LowOf(1).masked /\ irr' = Raised(1)
    BY <1>4 DEF KeyArrives
  <2>2. ~lapic => LowOf(1).masked
    <3>1. Wire(1)[1] \in DOMAIN machine.ioapics /\ Wire(1)[2] \in Pins
      BY Wires DEF Lines
    <3> QED
      BY <3>1 DEF EntriesTyped, LowOf
  <2>3. ServesLines /\ ~LowOf(1).masked => 33 \in irr'
    BY <2>1, OpenAnnounces DEF Raised
  <2> QED
    BY <1>1, <1>2, <2>1, <2>2, <2>3 DEF Announced
<1>5. CASE \E vector \in irr : Deliver(vector)
  <2>1. PICK vector \in irr : Deliver(vector)
    BY <1>5
  <2>2. CASE vector = 33
    <3>1. obf' = FALSE
      BY <2>1, <2>2 DEF Deliver, Irq
    <3> QED
      BY <1>2, <3>1 DEF Announced
  <2>3. CASE vector # 33
    <3>1. 33 \in irr => 33 \in irr'
      BY <2>1, <2>3 DEF Deliver
    <3>2. obf' => obf /\ early' = early
      BY <2>1 DEF Deliver
    <3> QED
      BY <1>1, <1>2, <3>1, <3>2 DEF Announced
  <2> QED
    BY <2>2, <2>3
<1> QED
  BY <1>3, <1>4, <1>5 DEF Devices

(* Every step of the kernel keeps what is known of the lines. *)
LEMMA LinesKept ==
    ASSUME Control, LinesInv, [BootNext]_bootvars
    PROVE  LinesInv'
<1> USE DEF At, Then, Before, Opening, Routed, Scan, Up
<1> USE DEF bootvars, filevars, files, walk, cat, cpuvars
<1>1. CASE idt_init
  BY <1>1, GatesSet
<1>2. CASE FindMadt
  BY <1>2, WalkBegun
<1>3. CASE WalkMadt
  BY <1>3, Walked
<1>4. CASE Svr
  BY <1>4, Enabled
<1>5. CASE Route
  BY <1>5, LineRouted
<1>6. CASE (\E vector \in irr : Deliver(vector)) \/ Devices
  BY <1>6, LinesDevice
<1>7. SUFFICES ASSUME ~(idt_init \/ FindMadt \/ WalkMadt \/ Svr \/ Route),
                      ~((\E vector \in irr : Deliver(vector)) \/ Devices)
               PROVE  LinesInv'
  BY <1>1, <1>2, <1>3, <1>4, <1>5, <1>6
<1>8. /\ UNCHANGED <<machine, apicvars, routed, idt>>
      /\ pc' \in Before => pc \in Before
      /\ pc' = "apic" => pc = "apic"
      /\ pc' = "svr" => pc = "svr"
      /\ pc' = "madt" => pc = "madt" /\ root' = root
      /\ pc' \in Opening => pc' = pc
      /\ pc' \in Routed => pc \in Routed
  <2>1. CASE Start
    BY <2>1 DEF Start
  <2>2. CASE Ramdisk
    BY <2>2 DEF Ramdisk, ParseEntry, EndOfArchive
  <2>3. CASE FindTables
    BY <2>3 DEF FindTables
  <2>4. CASE pci_init
    BY <2>4 DEF pci_init
  <2>5. CASE InitDevices
    BY <2>5 DEF InitDevices
  <2>6. CASE fb_enable_double_buffering
    BY <2>6 DEF fb_enable_double_buffering
  <2>7. CASE Command
    BY <2>7 DEF Command, Reader, Cat, Open, AllocBuffer, TooLarge, Show, FreeBuffer, Img,
                Proceed, Return
  <2>8. CASE Leave("reboot") \/ Leave("off")
    BY <2>8 DEF Leave
  <2>9. CASE Restart \/ StayDown
    BY <2>9 DEF Restart, StayDown
  <2>10. CASE UNCHANGED bootvars
    BY <2>10
  <2> QED
    BY <1>7, <2>1, <2>2, <2>3, <2>4, <2>5, <2>6, <2>7, <2>8, <2>9, <2>10 DEF BootNext, Step
<1> HIDE DEF Before, Opening, Routed, Scan, Up
<1> QED
  BY <1>8, LinesQuiet

(* The invariant of the interrupt routing holds in every state. *)
LEMMA Routing == BootSpec => []LinesInv
<1>1. BootInit => LinesInv
  <2> SUFFICES ASSUME BootInit PROVE LinesInv
    OBVIOUS
  <2> USE DEF BootInit, InitApic, Before, Opening, Routed, Scan, Up, Lines
  <2>1. EntriesTyped
    BY DEF EntriesTyped, MASKED
  <2>2. OverridesRead /\ Announced
    BY DEF OverridesRead, Announced
  <2>3. EntriesRight
    BY DEF EntriesRight, MASKED
  <2> QED
    BY <2>1, <2>2, <2>3 DEF LinesInv
<1>2. Control /\ LinesInv /\ [BootNext]_bootvars => LinesInv'
  BY LinesKept
<1> QED
  BY <1>1, <1>2, BootControl, PTL DEF BootSpec

(* An entry is open for its device only, as it is wired, with a gate behind*)
(* its vector, and both are open when interrupts are taken.                *)
THEOREM LinesAreRouted == BootSpec => []LinesReachHandlers
<1>1. ASSUME Control, LinesInv PROVE LinesReachHandlers
  <2> USE <1>1 DEF LinesInv
  <2>1. ASSUME ServesLines, NEW id \in DOMAIN low, NEW pin \in Pins, ~low[id][pin].masked
        PROVE  \E line \in Lines : Serves(line, id, pin)
    BY <2>1 DEF EntriesRight, EntriesTyped
  <2>2. ASSUME ServesLines, TakesInterrupts, NEW line \in Lines PROVE Accepted(line)
    <3>1. pc \in Routed
      BY <2>2 DEF TakesInterrupts, Control, Routed, Up, Ended, Stopped
    <3> QED
      BY <2>2, <3>1 DEF EntriesRight, EntriesTyped, Accepted
  <2> QED
    BY <2>1, <2>2 DEF LinesReachHandlers, Serves
<1> QED
  BY <1>1, BootControl, Routing, PTL

(* A byte that came through an open entry is still announced. *)
THEOREM BytesAreAnnounced == BootSpec => []BytesAnnounced
<1>1. LinesInv => BytesAnnounced
  BY DEF LinesInv, Announced, BytesAnnounced
<1> QED
  BY <1>1, Routing, PTL

-----------------------------------------------------------------------------
(* The archive and its walk *)

(* What FilesAssumption says of the entries of an archive. *)
LEMMA ArchiveIs ==
    ASSUME NEW a \in Archives
    PROVE  /\ DOMAIN a = 1 .. Len(a) /\ Len(a) \in Nat
           /\ \A i \in DOMAIN a :
                 /\ a[i].name \in Names /\ a[i].len \in Nat /\ a[i].is_dir \in BOOLEAN
                 /\ a[i].text \in 0 .. a[i].len
                 /\ a[i].field \in Seq(Nat) /\ Encodes(a[i].field, a[i].len)
                 /\ a[i].is_dir \/ a[i].len = 0 => a[i].len = 0 /\ a[i].info = NoPicture
                 /\ Supported(a[i].info) => Whole(a[i].info, a[i].len)
<1>1. a \in Seq(Range(a)) /\ \A i \in DOMAIN a : a[i] \in Range(a)
  BY FilesAssumption DEF Range
<1> QED
  BY <1>1, FilesAssumption

(* A block has a byte at least. *)
LEMMA BlockNumber == BLOCK \in Nat /\ BLOCK > 0
  BY FilesAssumption

(* As many blocks as padded_size says. *)
LEMMA BlocksIs ==
    ASSUME NEW len \in Nat
    PROVE  Blocks(len) \in Nat /\ padded_size(len) = BLOCK * Blocks(len)
<1> DEFINE S == {n \in 0 .. len : n * BLOCK >= len}
           q == (len + BLOCK - 1) \div BLOCK
<1>1. S \in SUBSET Nat
  OBVIOUS
<1>2. q \in Nat /\ q * BLOCK >= len /\ (q > 0 => (q - 1) * BLOCK < len)
  BY BlockNumber
<1>3. q <= len
  <2>1. CASE len = 0
    BY <2>1, BlockNumber
  <2>2. CASE len > 0
    <3>1. SUFFICES ASSUME q > len PROVE FALSE
      BY <1>2
    <3>2. (q - 1) * BLOCK >= len * BLOCK /\ len * BLOCK >= len
      BY <1>2, <3>1, BlockNumber
    <3> QED
      BY <1>2, <2>2, <3>1, <3>2, BlockNumber
  <2> QED
    BY <2>1, <2>2
<1>4. q \in S
  BY <1>2, <1>3
<1>5. \A n \in S : q <= n
  <2> SUFFICES ASSUME NEW n \in S, n < q PROVE FALSE
    BY <1>2
  <2>1. n <= q - 1 /\ n * BLOCK >= len /\ n \in Nat
    BY <1>2
  <2>2. n * BLOCK <= (q - 1) * BLOCK
    BY <1>2, <2>1, BlockNumber
  <2> QED
    BY <1>2, <2>1, <2>2, BlockNumber
<1>6. Min(S) = q
  <2> HIDE DEF S, q
  <2>1. Min(S) \in S /\ \A y \in S : Min(S) <= y
    BY <1>1, <1>4, Least
  <2>2. Min(S) <= q /\ q <= Min(S) /\ Min(S) \in Nat /\ q \in Nat
    BY <1>1, <1>2, <1>4, <1>5, <2>1
  <2> QED
    BY <2>2
<1>7. Blocks(len) = q
  BY <1>6 DEF Blocks
<1> QED
  BY <1>2, <1>7, BlockNumber DEF padded_size

(* Where the headers are. *)
LEMMA Headers ==
    ASSUME NEW a \in Archives
    PROVE  /\ HeaderOf(a, 1) = 0
           /\ \A i \in DOMAIN a :
                 HeaderOf(a, i + 1) = HeaderOf(a, i) + BLOCK * (1 + Blocks(a[i].len))
           /\ \A i \in 1 .. Len(a) + 1 : HeaderOf(a, i) \in Nat
<1> DEFINE n == Len(a)
           F == [x \in Nat \X (1 .. n) |-> x[1] + BLOCK * (1 + Blocks(a[x[2]].len))]
           Is(f) == f = [k \in 0 .. n |-> IF k = 0 THEN 0
                                          ELSE f[k - 1] + BLOCK * (1 + Blocks(a[k].len))]
           P(f) == {k \in 0 .. n : f[k] \in Nat}
<1>1. n \in Nat /\ DOMAIN a = 1 .. n
  BY ArchiveIs
<1>2. \A k \in 1 .. n : BLOCK * (1 + Blocks(a[k].len)) \in Nat
  <2> SUFFICES ASSUME NEW k \in 1 .. n PROVE BLOCK * (1 + Blocks(a[k].len)) \in Nat
    OBVIOUS
  <2>1. Blocks(a[k].len) \in Nat
    BY <1>1, ArchiveIs, BlocksIs
  <2> QED
    BY <2>1, BlockNumber
<1>3. F \in [Nat \X (1 .. n) -> Nat]
  BY <1>2
<1>4. \A x \in Nat, k \in 1 .. n : F[<<x, k>>] = x + BLOCK * (1 + Blocks(a[k].len))
  OBVIOUS
<1> HIDE DEF F, n
<1>5. \E f : Is(f)
  <2>1. PICK g \in [0 .. n -> Nat] :
           g[0] = 0 /\ \A k \in 1 .. n : g[k] = F[<<g[k - 1], k>>]
    <3>1. \E g : Follows(g, n, Nat, 0, F)
      BY <1>1, <1>3, Recursion
    <3> QED
      BY <3>1 DEF Follows
  <2>2. ASSUME NEW k \in 0 .. n
        PROVE  g[k] = IF k = 0 THEN 0 ELSE g[k - 1] + BLOCK * (1 + Blocks(a[k].len))
    <3>1. CASE k = 0
      BY <2>1, <3>1
    <3>2. CASE k # 0
      <4>1. k \in 1 .. n /\ k - 1 \in 0 .. n
        BY <1>1, <3>2
      <4> QED
        BY <1>4, <2>1, <3>2, <4>1
    <3> QED
      BY <3>1, <3>2
  <2>3. Is(g)
    BY <2>2
  <2> QED
    BY <2>3
<1> DEFINE header == CHOOSE f : Is(f)
<1>6. \A i : HeaderOf(a, i) = header[i - 1]
  BY DEF HeaderOf, n
<1>7. Is(header)
  BY <1>5
<1> HIDE DEF header
<1>8. header[0] = 0
      /\ \A k \in 1 .. n : header[k] = header[k - 1] + BLOCK * (1 + Blocks(a[k].len))
  <2>1. 0 \in 0 .. n /\ \A k \in 1 .. n : k \in 0 .. n /\ k # 0
    BY <1>1
  <2> QED
    BY <1>7, <2>1
<1>9. \A k \in 0 .. n : header[k] \in Nat
  <2> DEFINE Q == P(header)
  <2>1. 0 \in Q /\ \A k \in 1 .. n : k - 1 \in Q => k \in Q
    BY <1>1, <1>2, <1>8
  <2>2. \A k \in Q : header[k] \in Nat
    OBVIOUS
  <2> HIDE DEF Q
  <2>3. \A k \in 0 .. n : k \in Q
    BY <1>1, <2>1, Upward
  <2> QED
    BY <2>2, <2>3
<1>10. \A i \in 1 .. n + 1 : i - 1 \in 0 .. n
  BY <1>1
<1>11. \A i \in 1 .. n : (i + 1) - 1 = i
  BY <1>1
<1>12. HeaderOf(a, 1) = 0
  BY <1>6, <1>8
<1>13. ASSUME NEW i \in 1 .. n
       PROVE  HeaderOf(a, i + 1) = HeaderOf(a, i) + BLOCK * (1 + Blocks(a[i].len))
  BY <1>6, <1>8, <1>11
<1>14. ASSUME NEW i \in 1 .. n + 1 PROVE HeaderOf(a, i) \in Nat
  BY <1>6, <1>9, <1>10
<1> QED
  BY <1>1, <1>12, <1>13, <1>14 DEF n

(* No two headers are at the same place, nor is the end. *)
LEMMA HeadersDiffer ==
    ASSUME NEW a \in Archives
    PROVE  \A i, j \in 1 .. Len(a) + 1 : i < j => HeaderOf(a, i) < HeaderOf(a, j)
<1> DEFINE n == Len(a)
           H(i) == HeaderOf(a, i)
<1>1. n \in Nat /\ DOMAIN a = 1 .. n
  BY ArchiveIs
<1>2. ASSUME NEW i \in 1 .. n PROVE H(i) \in Nat /\ H(i + 1) \in Nat /\ H(i) < H(i + 1)
  <2>1. H(i + 1) = H(i) + BLOCK * (1 + Blocks(a[i].len))
    BY <1>1, Headers
  <2>2. H(i) \in Nat
    <3>1. i \in 1 .. n + 1
      BY <1>1
    <3> QED
      BY <3>1, Headers
  <2>3. Blocks(a[i].len) \in Nat
    BY <1>1, ArchiveIs, BlocksIs
  <2>4. BLOCK * (1 + Blocks(a[i].len)) > 0 /\ BLOCK * (1 + Blocks(a[i].len)) \in Nat
    BY <2>3, BlockNumber
  <2> HIDE DEF H
  <2> QED
    BY <2>1, <2>2, <2>4
<1> HIDE DEF H, n
<1>3. \A i \in 1 .. n + 1 : H(i) \in Nat
  BY Headers DEF H, n
<1> SUFFICES ASSUME NEW i \in 1 .. n + 1 PROVE \A j \in 1 .. n + 1 : i < j => H(i) < H(j)
  BY DEF H, n
<1> DEFINE P == {k \in 0 .. n : i < k + 1 => H(i) < H(k + 1)}
<1>4. 0 \in P
  BY <1>1
<1>5. ASSUME NEW k \in 1 .. n, k - 1 \in P PROVE k \in P
  <2>1. i < k => H(i) < H(k)
    <3>1. (k - 1) + 1 = k
      BY <1>1
    <3> QED
      BY <1>5, <3>1
  <2>2. H(k) < H(k + 1) /\ H(k) \in Nat /\ H(k + 1) \in Nat /\ H(i) \in Nat
    BY <1>2, <1>3
  <2>3. i < k + 1 => H(i) < H(k + 1)
    BY <1>1, <2>1, <2>2
  <2> QED
    BY <1>1, <2>3
<1>6. \A k \in P : i < k + 1 => H(i) < H(k + 1)
  OBVIOUS
<1> HIDE DEF P
<1>7. \A k \in 0 .. n : k \in P
  BY <1>1, <1>4, <1>5, Upward
<1> SUFFICES ASSUME NEW j \in 1 .. n + 1, i < j PROVE H(i) < H(j)
  OBVIOUS
<1>8. j - 1 \in 0 .. n /\ (j - 1) + 1 = j
  BY <1>1
<1> QED
  BY <1>6, <1>7, <1>8

-----------------------------------------------------------------------------
(* Size fields *)

(* Reading digit by digit undoes the divisions that the field stands for.  *)
LEMMA OctalIs ==
    ASSUME NEW field \in Seq(Nat), NEW len \in Nat, Encodes(field, len)
    PROVE  octal_to_int(field) = len
<1> DEFINE n == Len(field)
           IsRest(f) == f = [k \in 0 .. n |-> IF k = 0 THEN len ELSE f[k - 1] \div 8]
           IsValue(f) == f = [i \in 0 .. n |->
              CASE i = 0                         -> 0
                [] i > 0 /\ field[i] \in Digits -> f[i - 1] * 8 + field[i]
                [] OTHER                         -> f[i - 1]]
           Digit(j) == field[j] \in Digits
           After(k) == DigitsAfter(field, k)
<1>1. n \in Nat /\ DOMAIN field = 1 .. n /\ \A i \in 1 .. n : field[i] \in Nat
  BY LenProperties
<1>2. /\ After(n) = 0 /\ \A k \in 0 .. n : After(k) \in 0 .. n
      /\ \A k \in 1 .. n : After(k - 1) = IF Digit(k) THEN After(k) + 1 ELSE After(k)
  <2> DEFINE D(k) == {j \in k + 1 .. n : Digit(j)}
  <2>1. \A k : After(k) = Cardinality(D(k))
    BY DEF DigitsAfter
  <2>2. ASSUME NEW k \in 0 .. n
        PROVE  IsFiniteSet(D(k)) /\ Cardinality(D(k)) \in 0 .. n
    <3>1. IsFiniteSet(1 .. n) /\ Cardinality(1 .. n) = n
      <4> HIDE DEF n
      <4>1. IsFiniteSet(1 .. n) /\ Cardinality(1 .. n) = IF 1 > n THEN 0 ELSE n - 1 + 1
        BY <1>1, FS_Interval
      <4> QED
        BY <1>1, <4>1
    <3>2. D(k) \in SUBSET (1 .. n)
      BY <1>1
    <3>3. IsFiniteSet(D(k)) /\ Cardinality(D(k)) <= n
      BY <3>1, <3>2, FS_Subset
    <3> QED
      BY <1>1, <3>3, FS_CardinalityType
  <2>3. After(n) = 0
    <3>1. D(n) = {}
      BY <1>1
    <3> QED
      BY <2>1, <3>1, FS_EmptySet
  <2>4. ASSUME NEW k \in 1 .. n
        PROVE  After(k - 1) = IF Digit(k) THEN After(k) + 1 ELSE After(k)
    <3>1. k \in 0 .. n /\ k - 1 \in 0 .. n /\ (k - 1) + 1 = k /\ k \notin D(k)
      BY <1>1
    <3>2. \A j : j \in k .. n <=> j = k \/ j \in k + 1 .. n
      BY <1>1
    <3>3. CASE Digit(k)
      <4>1. D(k - 1) = D(k) \cup {k}
        BY <3>1, <3>2, <3>3
      <4>2. Cardinality(D(k) \cup {k}) = Cardinality(D(k)) + 1
        <5>1. IsFiniteSet(D(k)) /\ k \notin D(k)
          BY <2>2, <3>1
        <5> HIDE DEF D
        <5> QED
          BY <5>1, FS_AddElement
      <4> QED
        BY <2>1, <3>3, <4>1, <4>2
    <3>4. CASE ~Digit(k)
      <4>1. D(k - 1) = D(k)
        BY <3>1, <3>2, <3>4
      <4> QED
        BY <2>1, <3>4, <4>1
    <3> QED
      BY <3>3, <3>4
  <2> HIDE DEF D
  <2> QED
    BY <2>1, <2>2, <2>3, <2>4
<1>3. \E f : IsRest(f)
  <2> DEFINE F == [x \in Nat \X (1 .. n) |-> x[1] \div 8]
  <2>1. F \in [Nat \X (1 .. n) -> Nat] /\ \A x \in Nat, k \in 1 .. n : F[<<x, k>>] = x \div 8
    OBVIOUS
  <2> HIDE DEF F, n
  <2>2. PICK g \in [0 .. n -> Nat] : g[0] = len /\ \A k \in 1 .. n : g[k] = F[<<g[k - 1], k>>]
    <3>1. \E g : Follows(g, n, Nat, len, F)
      BY <1>1, <2>1, Recursion
    <3> QED
      BY <3>1 DEF Follows
  <2>3. ASSUME NEW k \in 0 .. n PROVE g[k] = IF k = 0 THEN len ELSE g[k - 1] \div 8
    <3>1. CASE k = 0
      BY <2>2, <3>1
    <3>2. CASE k # 0
      <4>1. k \in 1 .. n /\ k - 1 \in 0 .. n
        BY <1>1, <3>2
      <4> QED
        BY <2>1, <2>2, <3>2, <4>1
    <3> QED
      BY <3>1, <3>2
  <2>4. IsRest(g)
    BY <2>3
  <2> QED
    BY <2>4
<1>4. \E f : IsValue(f)
  <2> DEFINE F == [x \in Nat \X (1 .. n) |->
                     IF Digit(x[2]) THEN x[1] * 8 + field[x[2]] ELSE x[1]]
  <2>1. /\ F \in [Nat \X (1 .. n) -> Nat]
        /\ \A x \in Nat, k \in 1 .. n :
              F[<<x, k>>] = IF Digit(k) THEN x * 8 + field[k] ELSE x
    <3> HIDE DEF n, Digit
    <3>1. \A x \in Nat, k \in 1 .. n : x * 8 + field[k] \in Nat
      BY <1>1
    <3>2. \A z \in Nat \X (1 .. n) : (IF Digit(z[2]) THEN z[1] * 8 + field[z[2]] ELSE z[1]) \in Nat
      BY <3>1
    <3> QED
      BY <3>2
  <2> HIDE DEF F, n
  <2>2. PICK g \in [0 .. n -> Nat] : g[0] = 0 /\ \A k \in 1 .. n : g[k] = F[<<g[k - 1], k>>]
    <3>1. \E g : Follows(g, n, Nat, 0, F)
      BY <1>1, <2>1, Recursion
    <3> QED
      BY <3>1 DEF Follows
  <2>3. ASSUME NEW k \in 0 .. n
        PROVE  g[k] = CASE k = 0                   -> 0
                        [] k > 0 /\ Digit(k) -> g[k - 1] * 8 + field[k]
                        [] OTHER                   -> g[k - 1]
    <3>1. CASE k = 0
      BY <2>2, <3>1
    <3>2. CASE k # 0
      <4>1. k \in 1 .. n /\ k - 1 \in 0 .. n /\ k > 0
        BY <1>1, <3>2
      <4>2. g[k] = IF Digit(k) THEN g[k - 1] * 8 + field[k] ELSE g[k - 1]
        BY <2>1, <2>2, <4>1
      <4> QED
        BY <3>2, <4>1, <4>2
    <3> QED
      BY <3>1, <3>2
  <2>4. IsValue(g)
    BY <2>3
  <2> QED
    BY <2>4
<1> DEFINE rest == CHOOSE f : IsRest(f)
           value == CHOOSE f : IsValue(f)
<1>5. IsRest(rest) /\ IsValue(value)
  BY <1>3, <1>4
<1>6. octal_to_int(field) = value[n]
  BY DEF octal_to_int, n
<1>7. /\ \A k \in 1 .. n : Digit(k) => field[k] = rest[After(k)] % 8
      /\ rest[After(0)] = 0
  BY <1>1 DEF Encodes, n
<1> QED
  <2> HIDE DEF rest, value, n
  <2>1. rest[0] = len /\ \A k \in 1 .. n : rest[k] = rest[k - 1] \div 8
    <3>1. 0 \in 0 .. n /\ \A k \in 1 .. n : k \in 0 .. n /\ k # 0
      BY <1>1
    <3> QED
      BY <1>5, <3>1
  <2>2. /\ value[0] = 0
        /\ \A i \in 1 .. n : value[i] = IF Digit(i) THEN value[i - 1] * 8 + field[i]
                                                     ELSE value[i - 1]
    <3>1. 0 \in 0 .. n /\ \A k \in 1 .. n : k \in 0 .. n /\ k # 0 /\ k > 0
      BY <1>1
    <3>2. \A k \in 0 .. n : value[k] = CASE k = 0               -> 0
                                          [] k > 0 /\ Digit(k) -> value[k - 1] * 8 + field[k]
                                          [] OTHER               -> value[k - 1]
      BY <1>5
    <3> HIDE DEF Digit
    <3>3. value[0] = 0
      BY <3>1, <3>2
    <3>4. ASSUME NEW i \in 1 .. n
          PROVE  value[i] = IF Digit(i) THEN value[i - 1] * 8 + field[i] ELSE value[i - 1]
      <4>1. i \in 0 .. n /\ i # 0 /\ i > 0
        BY <3>1
      <4> QED
        BY <3>2, <4>1
    <3> QED
      BY <3>3, <3>4
  <2>3. \A k \in 0 .. n : rest[k] \in Nat
    <3> DEFINE P == {k \in 0 .. n : rest[k] \in Nat}
    <3>1. 0 \in P /\ \A k \in 1 .. n : k - 1 \in P => k \in P
      BY <1>1, <2>1
    <3>2. \A k \in P : rest[k] \in Nat
      OBVIOUS
    <3> HIDE DEF P
    <3>3. \A k \in 0 .. n : k \in P
      BY <1>1, <3>1, Upward
    <3> QED
      BY <3>2, <3>3
  <2> HIDE DEF After
  <2> DEFINE Q == {i \in 0 .. n : value[i] = rest[After(i)]}
  <2>4. 0 \in Q
    BY <1>1, <1>7, <2>2
  <2>5. ASSUME NEW i \in 1 .. n, i - 1 \in Q PROVE i \in Q
    <3>1. value[i - 1] = rest[After(i - 1)] /\ i \in 0 .. n /\ i - 1 \in 0 .. n
      BY <1>1, <2>5
    <3>2. After(i) \in 0 .. n /\ After(i - 1) \in 0 .. n
      BY <1>2, <3>1
    <3>3. CASE Digit(i)
      <4>1. After(i - 1) = After(i) + 1
        BY <1>2, <3>3
      <4>2. (After(i) + 1) - 1 = After(i) /\ After(i) + 1 \in 1 .. n
        BY <1>1, <3>2, <4>1
      <4>3. rest[After(i - 1)] = rest[After(i)] \div 8
        BY <2>1, <4>1, <4>2
      <4>4. value[i] = (rest[After(i)] \div 8) * 8 + (rest[After(i)] % 8)
        BY <1>7, <2>2, <3>1, <3>3, <4>3
      <4>5. rest[After(i)] \in Nat
        BY <2>3, <3>2
      <4>6. value[i] = rest[After(i)]
        BY <4>4, <4>5
      <4> QED
        BY <3>1, <4>6
    <3>4. CASE ~Digit(i)
      BY <1>2, <2>2, <3>1, <3>4
    <3> QED
      BY <3>3, <3>4
  <2>6. \A i \in Q : value[i] = rest[After(i)]
    OBVIOUS
  <2> HIDE DEF Q
  <2>7. \A i \in 0 .. n : i \in Q
    BY <1>1, <2>4, <2>5, Upward
  <2>8. n \in Q
    BY <1>1, <2>7
  <2> QED
    BY <1>2, <1>6, <2>1, <2>6, <2>8

-----------------------------------------------------------------------------
(* The list of files and the buffer of cat *)

(* The entry of that name that counts. *)
LastOfName(i, name) ==
    /\ i \in DOMAIN archive /\ archive[i].name = name
    /\ \A j \in DOMAIN archive : archive[j].name = name => j <= i

(* The walk has come by the first entries and stands before the next. *)
Registered ==
    /\ nodes \in Seq({NodeOf(k) : k \in DOMAIN archive}) /\ Len(nodes) <= Len(archive)
    /\ \A k \in 1 .. Len(nodes) : nodes[k] = NodeOf(Len(nodes) + 1 - k)
    /\ current = HeaderOf(archive, Len(nodes) + 1)
    /\ pc \notin {"start", "walk"} \cup Ended => Len(nodes) = Len(archive)

(* What cat has opened: the last file of a name. *)
Reading ==
    pc \in {"alloc", "check", "free"} =>
        \E i \in DOMAIN archive : LastOfName(i, file.name) /\ file = NodeOf(i) /\ ~file.is_dir

WalkInv == Registered /\ Reading

(* Every header has a place of its own, and so has the block after the     *)
(* last file.                                                              *)
LEMMA OwnHeader ==
    ASSUME Control, NEW i \in 1 .. Len(archive) + 1, NEW j \in 1 .. Len(archive) + 1,
           HeaderOf(archive, i) = HeaderOf(archive, j)
    PROVE  i = j
<1>1. archive \in Archives
  BY MachinesAssumption DEF Control
<1>2. Len(archive) \in Nat /\ HeaderOf(archive, i) \in Nat
  BY <1>1, ArchiveIs, Headers
<1>3. ~(i < j) /\ ~(j < i)
  BY <1>1, <1>2, HeadersDiffer
<1> QED
  BY <1>2, <1>3

(* No node is taken for NULL. *)
LEMMA NodeIs == \A i : NodeOf(i) # NULL
<1> SUFFICES ASSUME NEW i, NodeOf(i) = NULL PROVE FALSE
  OBVIOUS
<1>1. "size" \in DOMAIN NodeOf(i)
  BY DEF NodeOf
<1>2. "size" \notin DOMAIN NULL
  BY DEF NULL
<1> QED
  BY <1>1, <1>2

(* The first node of a name in the list is the last entry of that name. *)
LEMMA Opened ==
    ASSUME Control, Registered, Len(nodes) = Len(archive), NEW name
    PROVE  \/ vfs_open(name) = NULL /\ \A i \in DOMAIN archive : archive[i].name # name
           \/ /\ vfs_open(name) # NULL
              /\ \E i \in DOMAIN archive : LastOfName(i, name) /\ vfs_open(name) = NodeOf(i)
<1> DEFINE n == Len(nodes)
<1>1. n \in Nat /\ DOMAIN nodes = 1 .. n /\ DOMAIN archive = 1 .. n
  <2>1. archive \in Archives
    BY MachinesAssumption DEF Control
  <2> QED
    BY <2>1, ArchiveIs, LenProperties DEF Registered
<1>2. \A k \in 1 .. n : nodes[k] = NodeOf(n + 1 - k) /\ nodes[k].name = archive[n + 1 - k].name
  BY DEF Registered, NodeOf
<1>3. \A k \in 1 .. n : n + 1 - k \in 1 .. n /\ n + 1 - (n + 1 - k) = k
  BY <1>1
<1> HIDE DEF n
<1>4. CASE Hits(name) = {}
  <2>1. \A k \in 1 .. n : nodes[k].name # name
    BY <1>1, <1>4 DEF Hits
  <2>2. ASSUME NEW i \in 1 .. n PROVE archive[i].name # name
    <3>1. n + 1 - i \in 1 .. n /\ n + 1 - (n + 1 - i) = i
      BY <1>3
    <3> QED
      BY <1>2, <2>1, <3>1
  <2> QED
    BY <1>1, <1>4, <2>2 DEF vfs_open
<1>5. CASE Hits(name) # {}
  <2> DEFINE k == Min(Hits(name))
  <2>1. Hits(name) \in SUBSET Nat
    BY <1>1 DEF Hits
  <2>2. k \in Hits(name) /\ \A j \in Hits(name) : k <= j
    BY <1>5, <2>1, Least
  <2> HIDE DEF k
  <2>3. k \in 1 .. n /\ nodes[k].name = name
    BY <1>1, <2>2 DEF Hits
  <2>4. ASSUME NEW j \in 1 .. n, archive[j].name = name PROVE j <= n + 1 - k
    <3>1. n + 1 - j \in 1 .. n /\ n + 1 - (n + 1 - j) = j
      BY <1>3
    <3>2. nodes[n + 1 - j].name = name
      BY <1>2, <2>4, <3>1
    <3>3. k <= n + 1 - j
      BY <1>1, <2>2, <3>1, <3>2 DEF Hits
    <3> QED
      BY <1>1, <2>3, <3>1, <3>3
  <2>5. vfs_open(name) = NodeOf(n + 1 - k)
    BY <1>2, <1>5, <2>3 DEF vfs_open, k
  <2>6. LastOfName(n + 1 - k, name) /\ n + 1 - k \in DOMAIN archive
    BY <1>1, <1>2, <1>3, <2>3, <2>4 DEF LastOfName
  <2> QED
    BY <2>5, <2>6, NodeIs
<1> QED
  BY <1>4, <1>5

(* One step of the walk registers the next entry, and goes on to the       *)
(* header after it.                                                        *)
LEMMA EntryParsed ==
    ASSUME Control, WalkInv, ParseEntry
    PROVE  WalkInv'
<1> DEFINE n == Len(nodes)
           Made == {NodeOf(k) : k \in DOMAIN archive}
<1>1. archive \in Archives /\ pc = "walk" /\ UNCHANGED <<archive, pc, cat>>
  BY MachinesAssumption DEF Control, ParseEntry
<1>2. DOMAIN archive = 1 .. Len(archive) /\ Len(archive) \in Nat
      /\ n \in 0 .. Len(archive) /\ DOMAIN nodes = 1 .. n /\ nodes \in Seq(Made)
      /\ current = HeaderOf(archive, n + 1)
      /\ \A k \in 1 .. n : nodes[k] = NodeOf(n + 1 - k)
  BY <1>1, ArchiveIs, LenProperties DEF WalkInv, Registered
<1>3. PICK i \in DOMAIN archive :
        /\ HeaderOf(archive, i) = current
        /\ vfs_register_node(archive[i].name, octal_to_int(archive[i].field),
                             archive[i].is_dir, current + BLOCK)
        /\ current' = current + BLOCK + padded_size(octal_to_int(archive[i].field))
  BY DEF ParseEntry
<1>4. i = n + 1
  BY <1>2, <1>3, OwnHeader
<1>5. octal_to_int(archive[i].field) = archive[i].len /\ archive[i].len \in Nat
  BY <1>1, ArchiveIs, OctalIs
<1>6. nodes' = <<NodeOf(i)>> \o nodes
  BY <1>3, <1>5 DEF vfs_register_node, NodeOf, DataOf
<1>7. current' = HeaderOf(archive, i + 1)
  <2>1. HeaderOf(archive, i + 1) = HeaderOf(archive, i) + BLOCK * (1 + Blocks(archive[i].len))
    BY <1>1, Headers
  <2>2. padded_size(archive[i].len) = BLOCK * Blocks(archive[i].len)
        /\ Blocks(archive[i].len) \in Nat
    BY <1>5, BlocksIs
  <2>3. HeaderOf(archive, i) \in Nat
    BY <1>1, <1>2, Headers
  <2>4. BLOCK * (1 + Blocks(archive[i].len)) = BLOCK + BLOCK * Blocks(archive[i].len)
    BY <2>2, BlockNumber
  <2> QED
    BY <1>3, <1>5, <2>1, <2>2, <2>3, <2>4, BlockNumber
<1>8. nodes' \in Seq(Made) /\ Len(nodes') = n + 1
      /\ \A k \in 1 .. n + 1 : nodes'[k] = NodeOf(n + 2 - k)
  <2>1. NodeOf(i) \in Made
    OBVIOUS
  <2> HIDE DEF Made
  <2>2. <<NodeOf(i)>> \in Seq(Made) /\ Len(<<NodeOf(i)>>) = 1 /\ <<NodeOf(i)>>[1] = NodeOf(i)
    BY <2>1
  <2>3. nodes' \in Seq(Made) /\ Len(nodes') = 1 + n
        /\ \A k \in 1 .. 1 + n : nodes'[k] = IF k <= 1 THEN <<NodeOf(i)>>[k] ELSE nodes[k - 1]
    BY <1>2, <1>6, <2>2, ConcatProperties
  <2>4. ASSUME NEW k \in 1 .. n + 1 PROVE nodes'[k] = NodeOf(n + 2 - k)
    <3>1. CASE k = 1
      <4>1. n + 2 - k = i
        BY <1>2, <1>4, <3>1
      <4> QED
        BY <1>2, <2>2, <2>3, <3>1, <4>1
    <3>2. CASE k # 1
      <4>1. k - 1 \in 1 .. n /\ n + 1 - (k - 1) = n + 2 - k /\ ~(k <= 1) /\ k \in 1 .. 1 + n
        BY <1>2, <3>2
      <4> QED
        BY <1>2, <2>3, <4>1
    <3> QED
      BY <3>1, <3>2
  <2> QED
    BY <1>2, <2>3, <2>4
<1>9. \A k : NodeOf(k)' = NodeOf(k)
  BY <1>1 DEF NodeOf, DataOf
<1>10. Registered'
  <2>1. n + 2 = i + 1 /\ n + 1 <= Len(archive)
    BY <1>2, <1>4
  <2>2. \A k \in 1 .. n + 1 : n + 2 - k = (n + 1) + 1 - k
    BY <1>2
  <2> QED
    BY <1>1, <1>2, <1>7, <1>8, <1>9, <2>1, <2>2 DEF Registered, Ended
<1>11. Reading'
  BY <1>1 DEF WalkInv, Reading, cat
<1> QED
  BY <1>10, <1>11 DEF WalkInv

(* The walk stands before the first entry, with nothing registered. *)
LEMMA WalkStarts ==
    ASSUME Control, pc = "start", Empty
    PROVE  WalkInv
<1>1. archive \in Archives
  BY MachinesAssumption DEF Control
<1>2. Len(archive) \in Nat /\ HeaderOf(archive, 1) = 0
  BY <1>1, ArchiveIs, Headers
<1>3. Len(nodes) = 0 /\ nodes = <<>>
  BY DEF Empty
<1>4. Len(nodes) + 1 = 1 /\ 1 .. Len(nodes) = {}
  BY <1>3
<1>5. Registered
  BY <1>2, <1>3, <1>4 DEF Registered, Empty
<1>6. Reading
  BY DEF Reading, Empty
<1> QED
  BY <1>5, <1>6 DEF WalkInv

(* A step that leaves the files alone keeps what is known of them. *)
LEMMA WalkQuiet ==
    ASSUME WalkInv, UNCHANGED <<walk, file>>,
           \/ pc' = pc
           \/ /\ {pc, pc'} \cap {"alloc", "check", "free"} = {}
              /\ pc \in {"start", "walk"} \cup Ended => pc' \in {"start", "walk"} \cup Ended
    PROVE  WalkInv'
<1>1. UNCHANGED <<archive, current, nodes>>
  BY DEF walk
<1>2. \A k : NodeOf(k)' = NodeOf(k)
  BY <1>1 DEF NodeOf, DataOf
<1>3. \A i, name : LastOfName(i, name)' <=> LastOfName(i, name)
  BY <1>1 DEF LastOfName
<1>4. Registered'
  BY <1>1, <1>2 DEF WalkInv, Registered, Ended
<1>5. Reading'
  BY <1>1, <1>2, <1>3 DEF WalkInv, Reading
<1> QED
  BY <1>4, <1>5 DEF WalkInv

(* The walk ends at the block after the last file: every entry is          *)
(* registered.                                                             *)
LEMMA WalkEnds ==
    ASSUME Control, WalkInv, EndOfArchive("acpi")
    PROVE  WalkInv'
<1>1. archive \in Archives /\ pc = "walk" /\ pc' = "acpi" /\ UNCHANGED <<archive, current, nodes, cat>>
  BY MachinesAssumption DEF Control, EndOfArchive, walk
<1>2. Len(archive) \in Nat /\ Len(nodes) \in Nat
  BY <1>1, ArchiveIs, LenProperties DEF WalkInv, Registered
<1>3. Len(nodes) = Len(archive)
  <2>1. HeaderOf(archive, Len(nodes) + 1) = HeaderOf(archive, Len(archive) + 1)
    BY DEF EndOfArchive, WalkInv, Registered
  <2>2. Len(nodes) <= Len(archive)
    BY DEF WalkInv, Registered
  <2>3. Len(nodes) + 1 = Len(archive) + 1
    BY <1>2, <2>1, <2>2, OwnHeader
  <2> QED
    BY <1>2, <2>3
<1>4. \A k : NodeOf(k)' = NodeOf(k)
  BY <1>1 DEF NodeOf, DataOf
<1>5. Registered'
  BY <1>1, <1>3, <1>4 DEF WalkInv, Registered
<1>6. Reading'
  BY <1>1 DEF WalkInv, Reading, cat
<1> QED
  BY <1>5, <1>6 DEF WalkInv

(* What cat has opened is a node, and its size a number. *)
LEMMA SizeIs ==
    ASSUME Control, Reading, pc \in {"alloc", "check", "free"}
    PROVE  file.size \in Nat
<1>1. PICK i \in DOMAIN archive : file = NodeOf(i)
  BY DEF Reading
<1>2. archive \in Archives
  BY MachinesAssumption DEF Control
<1> QED
  BY <1>1, <1>2, ArchiveIs DEF NodeOf

(* cat goes on with the file it has opened, and no command registers       *)
(* anything.                                                               *)
LEMMA CommandKeeps ==
    ASSUME Control, WalkInv, Reader
    PROVE  WalkInv'
<1>1. UNCHANGED <<archive, current, nodes>>
  BY DEF Reader, Cat, Open, AllocBuffer, TooLarge, Show, FreeBuffer, Img, Proceed, Return, walk
<1>2. \A k : NodeOf(k)' = NodeOf(k)
  BY <1>1 DEF NodeOf, DataOf
<1>3. \A i, name : LastOfName(i, name)' <=> LastOfName(i, name)
  BY <1>1 DEF LastOfName
<1>4. Registered'
  <2>1. pc \notin {"start", "walk"} \cup Ended
    BY DEF Reader, Cat, Open, AllocBuffer, TooLarge, Show, FreeBuffer, Img, Ended
  <2> QED
    BY <1>1, <1>2, <2>1 DEF WalkInv, Registered
<1>5. Reading'
  <2>1. CASE \E name \in Names : Open(name)
    <3>1. PICK name \in Names : Open(name)
      BY <2>1
    <3>2. CASE UNCHANGED <<pc, file>>
      BY <1>1, <1>2, <1>3, <3>1, <3>2 DEF Open, WalkInv, Reading
    <3>3. CASE vfs_open(name) # NULL /\ ~vfs_open(name).is_dir /\ pc' = "alloc" /\ file' = vfs_open(name)
      <4>1. Len(nodes) = Len(archive) /\ Registered
        BY <3>1 DEF Open, WalkInv, Registered, Ended
      <4>2. PICK i \in DOMAIN archive : LastOfName(i, name) /\ vfs_open(name) = NodeOf(i)
        BY <3>3, <4>1, Opened
      <4>3. file'.name = name
        BY <3>3, <4>2 DEF NodeOf, LastOfName
      <4>4. \E k \in DOMAIN archive : LastOfName(k, file'.name) /\ file' = NodeOf(k) /\ ~file'.is_dir
        BY <3>3, <4>2, <4>3
      <4> QED
        BY <1>1, <1>2, <1>3, <4>4 DEF Reading
    <3> QED
      BY <3>1, <3>2, <3>3 DEF Open
  <2>2. CASE AllocBuffer
    BY <1>1, <1>2, <1>3, <2>2 DEF AllocBuffer, Proceed, WalkInv, Reading
  <2>3. CASE TooLarge
    BY <2>3 DEF TooLarge, Return, Reading
  <2>4. CASE Show
    BY <1>1, <1>2, <1>3, <2>4 DEF Show, Proceed, WalkInv, Reading
  <2>5. CASE FreeBuffer
    BY <2>5 DEF FreeBuffer, Return, Reading
  <2>6. CASE \E name \in Names : Img(name)
    BY <1>1, <1>2, <1>3, <2>6 DEF Img, WalkInv, Reading
  <2> QED
    BY <2>1, <2>2, <2>3, <2>4, <2>5, <2>6 DEF Reader, Cat
<1> QED
  BY <1>4, <1>5 DEF WalkInv

(* Only the walk and the commands touch the files. *)
LEMMA FilesQuiet ==
    ASSUME Control, [BootNext]_bootvars
    PROVE  \/ ParseEntry \/ EndOfArchive("acpi") \/ Reader
           \/ /\ UNCHANGED <<walk, cat>>
              /\ \/ pc' = pc
                 \/ /\ {pc, pc'} \cap {"alloc", "check", "free"} = {}
                    /\ pc \in {"start", "walk"} \cup Ended => pc' \in {"start", "walk"} \cup Ended
<1> USE DEF Control, Early, Scan, Up, Ended, At, Then, bootvars, filevars, files
<1>1. CASE Start
  BY <1>1 DEF Start
<1>2. CASE Ramdisk
  BY <1>2 DEF Ramdisk
<1>3. CASE FindTables
  BY <1>3 DEF FindTables
<1>4. CASE idt_init
  BY <1>4 DEF idt_init
<1>5. CASE FindMadt
  BY <1>5 DEF FindMadt
<1>6. CASE WalkMadt
  BY <1>6 DEF WalkMadt
<1>7. CASE Svr
  BY <1>7 DEF Svr
<1>8. CASE Route
  BY <1>8 DEF Route
<1>9. CASE pci_init
  BY <1>9 DEF pci_init
<1>10. CASE InitDevices
  BY <1>10 DEF InitDevices
<1>11. CASE fb_enable_double_buffering
  BY <1>11 DEF fb_enable_double_buffering
<1>12. CASE \E vector \in irr : Deliver(vector)
  BY <1>12 DEF Deliver
<1>13. CASE Devices
  BY <1>13 DEF Devices
<1>14. CASE Command
  BY <1>14 DEF Command
<1>15. CASE Leave("reboot") \/ Leave("off")
  BY <1>15 DEF Leave
<1>16. CASE Restart \/ StayDown
  BY <1>16 DEF Restart, StayDown
<1>17. CASE UNCHANGED bootvars
  BY <1>17
<1> QED
  BY <1>1, <1>2, <1>3, <1>4, <1>5, <1>6, <1>7, <1>8, <1>9, <1>10, <1>11, <1>12, <1>13,
     <1>14, <1>15, <1>16, <1>17 DEF BootNext, Step

(* The invariant of the files holds in every state. *)
LEMMA WalkKept == BootSpec => []WalkInv
<1>1. BootInit => Control /\ WalkInv
  BY WalkStarts DEF BootInit, Control, Early
<1>2. Control /\ WalkInv /\ [BootNext]_bootvars => WalkInv'
  <2> SUFFICES ASSUME Control, WalkInv, [BootNext]_bootvars PROVE WalkInv'
    OBVIOUS
  <2> QED
    BY FilesQuiet, EntryParsed, WalkEnds, CommandKeeps, WalkQuiet DEF cat
<1> QED
  BY <1>1, <1>2, BootControl, PTL DEF BootSpec

(* The walk registers every file of the archive, newest first, each with   *)
(* its own length and bytes, and none is missing when the walk is over.    *)
THEOREM FilesAreFound == BootSpec => []FilesFound
<1>1. ASSUME Control, WalkInv PROVE FilesFound
  <2> DEFINE n == Len(nodes)
             own == [i \in DOMAIN nodes |-> NodeOf(i)]
             Made == {NodeOf(k) : k \in DOMAIN archive}
  <2>1. archive \in Archives
    BY MachinesAssumption, <1>1 DEF Control
  <2>2. DOMAIN archive = 1 .. Len(archive) /\ Len(archive) \in Nat
        /\ n \in Nat /\ n <= Len(archive) /\ nodes \in [1 .. n -> Made] /\ DOMAIN nodes = 1 .. n
    BY <1>1, <2>1, ArchiveIs, LenProperties DEF WalkInv, Registered
  <2>3. own \in [1 .. n -> Made] /\ Len(own) = n
    <3>1. \A k \in 1 .. n : k \in DOMAIN archive
      BY <2>2
    <3>2. own \in [1 .. n -> Made]
      BY <2>2, <3>1
    <3>3. own \in Seq(Made) /\ DOMAIN own = 1 .. n
      BY <2>2, <3>2, SeqDef
    <3> QED
      BY <2>2, <3>2, <3>3, LenProperties
  <2>4. Reverse(own) = [i \in 1 .. n |-> own[(n - i) + 1]]
    BY <2>3 DEF Reverse
  <2>5. \A i \in 1 .. n : own[(n - i) + 1] = nodes[i]
    <3>1. \A i \in 1 .. n : (n - i) + 1 \in 1 .. n /\ (n - i) + 1 = n + 1 - i
      BY <2>2
    <3>2. \A i \in 1 .. n : nodes[i] = NodeOf(n + 1 - i)
      BY <1>1 DEF WalkInv, Registered
    <3> QED
      BY <2>2, <3>1, <3>2
  <2> HIDE DEF own
  <2>6. nodes = [i \in 1 .. n |-> nodes[i]]
    BY <2>2
  <2>7. nodes = Reverse(own)
    BY <2>4, <2>5, <2>6
  <2>8. pc \in {"idle", "alloc", "check", "free"} => n = Len(archive)
    BY <1>1 DEF WalkInv, Registered, Ended
  <2> QED
    BY <2>7, <2>8 DEF FilesFound, own
<1> QED
  BY <1>1, WalkKept, BootControl, PTL

-----------------------------------------------------------------------------
(* What cat and bitmap show *)

(* Products of natural numbers grow with their factors. *)
LEMMA Products ==
    ASSUME NEW a \in Nat, NEW b \in Nat, NEW q \in Nat, a <= b
    PROVE  a * q <= b * q
<1>1. PICK d \in Nat : b = a + d
  <2>1. b - a \in Nat /\ b = a + (b - a)
    OBVIOUS
  <2> QED
    BY <2>1
<1>2. d * q \in Nat /\ a * q \in Nat
  OBVIOUS
<1>3. (a + d) * q = a * q + d * q
  OBVIOUS
<1> QED
  BY <1>1, <1>2, <1>3

(* A row takes its bytes, and as many more as make it a multiple of four. *)
LEMMA Padded ==
    ASSUME NEW used \in Nat
    PROVE  /\ ((used + 3) \div 4) * 4 \in Nat /\ ((used + 3) \div 4) * 4 >= used
           /\ Min({b \in used .. used + 3 : b % 4 = 0}) = ((used + 3) \div 4) * 4
<1> DEFINE S == {b \in used .. used + 3 : b % 4 = 0}
           p == ((used + 3) \div 4) * 4
<1>1. p \in used .. used + 3 /\ p % 4 = 0
  OBVIOUS
<1>2. S \in SUBSET Nat
  OBVIOUS
<1>3. p \in S /\ \A q \in S : q \in used .. used + 3 /\ q % 4 = 0
  BY <1>1
<1> HIDE DEF S, p
<1>4. Min(S) \in S /\ \A q \in S : Min(S) <= q
  BY <1>2, <1>3, Least
<1>5. Min(S) \in used .. used + 3 /\ Min(S) % 4 = 0 /\ Min(S) <= p
  BY <1>3, <1>4
<1>6. Min(S) = p
  <2>1. \A q \in used .. used + 3 : q % 4 = 0 /\ q <= p => q = p
    BY <1>1
  <2> QED
    BY <1>5, <2>1
<1> QED
  BY <1>1, <1>6 DEF S, p

(* The rows from top to bottom, by number. *)
LEMMA RowsAre ==
    ASSUME NEW info, info.height \in Int
    PROVE  /\ DOMAIN TopDown(info) = 1 .. rows(info) /\ rows(info) \in Nat
           /\ \A row \in 1 .. rows(info) :
                 /\ file_y(info, row - 1) \in 0 .. rows(info) - 1
                 /\ TopDown(info)[row] = RowOf(info, file_y(info, row - 1))
<1> DEFINE h == info.height
<1>1. CASE h < 0
  <2>1. TopDown(info) = [n \in 1 .. -h |-> RowOf(info, n - 1)]
    BY <1>1 DEF TopDown
  <2>2. rows(info) = -h /\ \A y : file_y(info, y) = y
    BY <1>1 DEF rows, file_y
  <2>3. \A row \in 1 .. -h : row - 1 \in 0 .. -h - 1
    OBVIOUS
  <2> QED
    BY <1>1, <2>1, <2>2, <2>3
<1>2. CASE ~(h < 0)
  <2> DEFINE s == [n \in 1 .. h |-> RowOf(info, n - 1)]
             Made == {RowOf(info, n - 1) : n \in 1 .. h}
  <2>1. TopDown(info) = Reverse(s)
    BY <1>2 DEF TopDown
  <2>2. rows(info) = h /\ h \in Nat /\ \A y : file_y(info, y) = h - 1 - y
    BY <1>2 DEF rows, file_y
  <2>3. Len(s) = h
    <3>1. s \in [1 .. h -> Made]
      OBVIOUS
    <3> HIDE DEF s, Made, h
    <3>2. s \in Seq(Made) /\ DOMAIN s = 1 .. h
      BY <2>2, <3>1, SeqDef
    <3> QED
      BY <2>2, <3>1, <3>2, LenProperties
  <2>4. Reverse(s) = [i \in 1 .. h |-> s[(h - i) + 1]]
    <3> HIDE DEF s, h
    <3>1. Reverse(s) = [i \in 1 .. Len(s) |-> s[(Len(s) - i) + 1]]
      BY DEF Reverse
    <3> QED
      BY <2>3, <3>1
  <2>5. ASSUME NEW row \in 1 .. h
        PROVE  /\ h - 1 - (row - 1) \in 0 .. h - 1
               /\ s[(h - row) + 1] = RowOf(info, h - 1 - (row - 1))
    <3>1. (h - row) + 1 \in 1 .. h /\ (h - row) + 1 - 1 = h - 1 - (row - 1)
          /\ h - 1 - (row - 1) \in 0 .. h - 1
      BY <2>2
    <3> QED
      BY <3>1
  <2> HIDE DEF s
  <2> QED
    BY <2>1, <2>2, <2>4, <2>5
<1> QED
  BY <1>1, <1>2

(* A pixel of the picture is the three bytes at its place in the file. *)
LEMMA PixelIs ==
    ASSUME NEW info, NEW len \in Nat, Supported(info), Whole(info, len),
           NEW a \in 0 .. info.width - 1, NEW b \in 0 .. rows(info) - 1
    PROVE  LET first == TopDown(info)[b + 1][a + 1]
           IN  /\ color(info, a, b) = [blue |-> first, green |-> first + 1, red |-> first + 2]
               /\ color(info, a, b).red < len
<1> DEFINE used == info.width * bytes_per_pixel(info)
           stride == row_stride(info)
           fy == file_y(info, b)
           bytes == bytes_per_pixel(info)
<1>1. info.width \in Nat /\ info.height \in Int /\ info.data_offset \in Nat
      /\ info.data_offset + rows(info) * stride <= len
  BY DEF Whole
<1>2. bytes \in {3, 4} /\ info.bpp \div 8 = bytes
  BY DEF Supported, bytes_per_pixel
<1>3. used \in Nat /\ stride = ((used + 3) \div 4) * 4 /\ stride \in Nat /\ stride >= used
      /\ Min({p \in used .. used + 3 : p % 4 = 0}) = stride
  <2>1. used \in Nat
    BY <1>1, <1>2
  <2>2. stride = ((used + 3) \div 4) * 4
    BY DEF row_stride
  <2> HIDE DEF used, stride
  <2> QED
    BY <2>1, <2>2, Padded
<1>4. rows(info) \in Nat /\ b + 1 \in 1 .. rows(info) /\ (b + 1) - 1 = b
      /\ fy \in 0 .. rows(info) - 1 /\ TopDown(info)[b + 1] = RowOf(info, fy)
  <2>1. rows(info) \in Nat
    BY <1>1, RowsAre
  <2>2. b + 1 \in 1 .. rows(info) /\ (b + 1) - 1 = b
    BY <2>1
  <2> QED
    BY <1>1, <2>1, <2>2, RowsAre
<1>5. a \in Nat /\ a + 1 \in 1 .. info.width /\ (a + 1) - 1 = a
  BY <1>1
<1>6. RowOf(info, fy)[a + 1] = info.data_offset + fy * stride + a * bytes
  <2>1. RowOf(info, fy) = [x \in 1 .. info.width |->
            info.data_offset + fy * Min({p \in used .. used + 3 : p % 4 = 0}) + (x - 1) * bytes]
    BY <1>2 DEF RowOf
  <2> HIDE DEF used, stride, bytes, fy
  <2> QED
    BY <1>3, <1>5, <2>1
<1>7. LET first == info.data_offset + fy * stride + a * bytes
      IN  color(info, a, b) = [blue |-> first, green |-> first + 1, red |-> first + 2]
  BY DEF color
<1>8. a * bytes + 2 < used /\ a * bytes \in Nat
  <2>1. CASE bytes = 3
    <3>1. used = info.width * 3 /\ a * bytes = a * 3
      BY <2>1
    <3> QED
      BY <1>1, <1>5, <3>1
  <2>2. CASE bytes = 4
    <3>1. used = info.width * 4 /\ a * bytes = a * 4
      BY <2>2
    <3> QED
      BY <1>1, <1>5, <3>1
  <2> QED
    BY <1>2, <2>1, <2>2
<1> HIDE DEF used, stride, bytes, fy
<1>9. fy * stride + stride <= rows(info) * stride /\ fy * stride \in Nat
  <2>1. fy \in Nat /\ fy + 1 \in Nat /\ fy + 1 <= rows(info)
    BY <1>4
  <2>2. (fy + 1) * stride <= rows(info) * stride
    BY <1>3, <1>4, <2>1, Products
  <2>3. (fy + 1) * stride = fy * stride + stride /\ fy * stride \in Nat
    BY <1>3, <2>1
  <2> QED
    BY <2>2, <2>3
<1>10. info.data_offset + fy * stride + a * bytes + 2 < len
  <2> DEFINE above == fy * stride
             all == rows(info) * stride
             left == a * bytes
  <2>1. above \in Nat /\ left \in Nat /\ all \in Nat
    BY <1>3, <1>4, <1>8, <1>9
  <2>2. info.data_offset + all <= len /\ above + stride <= all /\ left + 2 < used
    BY <1>1, <1>8, <1>9
  <2> HIDE DEF above, all, left
  <2>3. info.data_offset + above + left + 2 < len
    BY <1>1, <1>3, <2>1, <2>2
  <2> QED
    BY <2>3 DEF above, left
<1> QED
  BY <1>4, <1>6, <1>7, <1>10

(* bmp_draw draws the picture. *)
LEMMA Drawn ==
    ASSUME NEW info, NEW len \in Nat, Supported(info), Whole(info, len)
    PROVE  IsDrawn(bmp_draw(info, Corner[1], Corner[2]), info, len)
<1> DEFINE pixels == bmp_draw(info, Corner[1], Corner[2])
           Places == {<<Corner[1] + x, Corner[2] + y>> : x \in 0 .. info.width - 1,
                                                       y \in 0 .. rows(info) - 1}
           Screened == (0 .. Screen.width - 1) \X (0 .. Screen.height - 1)
<1>1. Corner[1] \in Int /\ Corner[2] \in Int /\ Screen.width \in Nat /\ Screen.height \in Nat
  BY FilesAssumption
<1>2. info.width \in Nat /\ rows(info) \in Nat /\ DOMAIN TopDown(info) = 1 .. rows(info)
  BY RowsAre DEF Whole
<1>3. DOMAIN pixels = Places \cap Screened
      /\ \A p \in Places \cap Screened :
            pixels[p] = color(info, p[1] - Corner[1], p[2] - Corner[2])
  <2>1. pixels = [p \in Places \cap Screened |->
                     color(info, p[1] - Corner[1], p[2] - Corner[2])]
    BY DEF bmp_draw
  <2> HIDE DEF pixels, Places, Screened
  <2> QED
    BY <2>1
<1> HIDE DEF pixels
<1>4. ASSUME NEW x \in 0 .. Screen.width - 1, NEW y \in 0 .. Screen.height - 1
      PROVE  LET row == y - Corner[2] + 1
                 column == x - Corner[1] + 1
                 inside == row \in DOMAIN TopDown(info) /\ column \in 1 .. info.width
             IN  /\ inside <=> <<x, y>> \in DOMAIN pixels
                 /\ inside => LET first == TopDown(info)[row][column]
                              IN  pixels[<<x, y>>] = [blue |-> first, green |-> first + 1,
                                                      red |-> first + 2]
  <2> DEFINE a == x - Corner[1]
             b == y - Corner[2]
  <2>1. a \in Int /\ b \in Int /\ x = Corner[1] + a /\ y = Corner[2] + b
    BY <1>1
  <2>2. <<x, y>> \in Screened
    OBVIOUS
  <2>3. ASSUME b + 1 \in 1 .. rows(info), a + 1 \in 1 .. info.width
        PROVE  LET first == TopDown(info)[b + 1][a + 1]
               IN  /\ <<x, y>> \in DOMAIN pixels
                   /\ pixels[<<x, y>>] = [blue |-> first, green |-> first + 1, red |-> first + 2]
    <3>1. a \in 0 .. info.width - 1 /\ b \in 0 .. rows(info) - 1
      <4> HIDE DEF a, b
      <4>1. a \in 0 .. info.width - 1
        BY <1>2, <2>1, <2>3
      <4>2. b \in 0 .. rows(info) - 1
        BY <1>2, <2>1, <2>3
      <4> QED
        BY <4>1, <4>2
    <3>2. <<x, y>> \in Places
      BY <2>1, <3>1
    <3>3. pixels[<<x, y>>] = color(info, a, b)
      BY <1>3, <2>2, <3>2
    <3> HIDE DEF a, b
    <3> QED
      BY <1>3, <2>2, <3>1, <3>2, <3>3, PixelIs
  <2>4. ASSUME <<x, y>> \in DOMAIN pixels
        PROVE  b + 1 \in 1 .. rows(info) /\ a + 1 \in 1 .. info.width
    <3>1. PICK e \in 0 .. info.width - 1, d \in 0 .. rows(info) - 1 :
             x = Corner[1] + e /\ y = Corner[2] + d
      BY <1>3, <2>4
    <3> HIDE DEF a, b
    <3>2. a = e /\ b = d
      <4>1. e \in Int /\ d \in Int
        BY <1>2
      <4>2. Corner[1] + a = Corner[1] + e /\ Corner[2] + b = Corner[2] + d
        BY <2>1, <3>1
      <4> QED
        BY <1>1, <2>1, <4>1, <4>2
    <3>3. e + 1 \in 1 .. info.width
      BY <1>2
    <3>4. d + 1 \in 1 .. rows(info)
      BY <1>2
    <3> QED
      BY <3>2, <3>3, <3>4
  <2> QED
    BY <1>2, <2>3, <2>4
<1>5. ASSUME NEW p \in DOMAIN pixels
      PROVE  pixels[p].red < len
  <2>1. PICK a \in 0 .. info.width - 1, b \in 0 .. rows(info) - 1 :
           p = <<Corner[1] + a, Corner[2] + b>>
    BY <1>3
  <2>2. p[1] - Corner[1] = a /\ p[2] - Corner[2] = b
    BY <1>1, <1>2, <2>1
  <2> QED
    BY <1>3, <2>2, PixelIs
<1> QED
  BY <1>4, <1>5 DEF IsDrawn, pixels

(* The last entry of a name is the one whose number is the greatest. *)
LEMMA GreatestIs ==
    ASSUME Control, NEW name, NEW i, LastOfName(i, name)
    PROVE  /\ {j \in DOMAIN archive : archive[j].name = name} # {}
           /\ Max({j \in DOMAIN archive : archive[j].name = name}) = i
<1> DEFINE S == {j \in DOMAIN archive : archive[j].name = name}
<1>1. archive \in Archives
  BY MachinesAssumption DEF Control
<1>2. \A j \in S : j \in Nat
  BY <1>1, ArchiveIs
<1>3. i \in S /\ \A j \in S : i >= j
  BY <1>2 DEF LastOfName
<1> HIDE DEF S
<1>4. Max(S) \in S /\ \A j \in S : Max(S) >= j
  BY <1>3 DEF Max
<1>5. Max(S) = i
  BY <1>2, <1>3, <1>4
<1> QED
  BY <1>3, <1>5 DEF S

(* The bytes behind a file's header are those of no other file. *)
LEMMA InfoIs ==
    ASSUME Control, NEW i \in DOMAIN archive
    PROVE  /\ InfoAt(DataOf(archive, i)) = archive[i].info
           /\ TextAt(DataOf(archive, i)) = archive[i].text
<1> DEFINE S == FilesAt(DataOf(archive, i))
<1>1. archive \in Archives /\ DOMAIN archive = 1 .. Len(archive) /\ Len(archive) \in Nat
  BY MachinesAssumption, ArchiveIs DEF Control
<1>2. \A j \in DOMAIN archive : j \in 1 .. Len(archive) + 1 /\ HeaderOf(archive, j) \in Nat
  BY <1>1, Headers
<1>3. ASSUME NEW j \in DOMAIN archive, DataOf(archive, j) = DataOf(archive, i) PROVE j = i
  <2>1. HeaderOf(archive, j) = HeaderOf(archive, i)
    BY <1>2, <1>3, BlockNumber DEF DataOf
  <2> QED
    BY <1>2, <2>1, OwnHeader
<1>4. archive[i].len \in Nat
      /\ (archive[i].len = 0 => archive[i].info = NoPicture /\ archive[i].text = 0)
  BY <1>1, ArchiveIs
<1>5. CASE archive[i].len = 0
  <2>1. S = {}
    BY <1>3, <1>5 DEF FilesAt
  <2> QED
    BY <1>4, <1>5, <2>1 DEF InfoAt, TextAt
<1>6. CASE archive[i].len # 0
  <2>1. S = {i}
    BY <1>3, <1>4, <1>6 DEF FilesAt
  <2>2. (CHOOSE j \in S : TRUE) = i
    BY <2>1
  <2> HIDE DEF S
  <2>3. /\ InfoAt(DataOf(archive, i)) = archive[CHOOSE j \in S : TRUE].info
        /\ TextAt(DataOf(archive, i)) = archive[CHOOSE j \in S : TRUE].text
    BY <2>1 DEF InfoAt, TextAt, S
  <2> QED
    BY <2>2, <2>3
<1> QED
  BY <1>5, <1>6

(* What a command may show of a name: cases of ShowsTheFile. *)
Told(s) ==
    \/ /\ \A i \in DOMAIN archive : archive[i].name # s.name
       /\ s.text = <<"not found">>
    \/ \E i \in DOMAIN archive :
          /\ LastOfName(i, s.name)
          /\ \/ archive[i].is_dir /\ s.text = <<"directory">>
             \/ /\ ~archive[i].is_dir /\ s.command = "cat"
                /\ s.text = IF archive[i].len > LIMIT THEN <<"too large">>
                            ELSE <<DataOf(archive, i), archive[i].text>>
             \/ /\ ~archive[i].is_dir /\ s.command # "cat" /\ Supported(archive[i].info)
                /\ s.text[1] = DataOf(archive, i)
                /\ IsDrawn(s.text[3], archive[i].info, archive[i].len)
             \/ /\ ~archive[i].is_dir /\ s.command # "cat" /\ ~Supported(archive[i].info)
                /\ s.text = <<"no picture">>

ShownInv == shown # NULL => Told(shown)

(* What ShownInv says is what ShowsTheFile asks. *)
LEMMA ToldIs ==
    ASSUME Control, ShownInv
    PROVE  ShowsTheFile
<1> SUFFICES ASSUME shown # NULL
             PROVE  LET entries == {i \in DOMAIN archive : archive[i].name = shown.name}
                        i == Max(entries)
                        text == shown.text
                    IN  IF entries = {} THEN text = <<"not found">>
                        ELSE IF archive[i].is_dir THEN text = <<"directory">>
                        ELSE IF shown.command = "cat"
                             THEN text = IF archive[i].len > LIMIT THEN <<"too large">>
                                         ELSE <<DataOf(archive, i), archive[i].text>>
                        ELSE IF archive[i].info # NoPicture /\ Supported(archive[i].info)
                             THEN text[1] = DataOf(archive, i)
                                  /\ IsDrawn(text[3], archive[i].info, archive[i].len)
                        ELSE text = <<"no picture">>
  BY DEF ShowsTheFile
<1>1. Told(shown)
  BY DEF ShownInv
<1>2. CASE \A i \in DOMAIN archive : archive[i].name # shown.name
  <2>1. \A i : ~LastOfName(i, shown.name)
    BY <1>2 DEF LastOfName
  <2>2. shown.text = <<"not found">>
    BY <1>1, <2>1 DEF Told
  <2> QED
    BY <1>2, <2>2
<1>3. CASE ~ \A i \in DOMAIN archive : archive[i].name # shown.name
  <2>1. PICK i \in DOMAIN archive :
          /\ LastOfName(i, shown.name)
          /\ \/ archive[i].is_dir /\ shown.text = <<"directory">>
             \/ /\ ~archive[i].is_dir /\ shown.command = "cat"
                /\ shown.text = IF archive[i].len > LIMIT THEN <<"too large">>
                                ELSE <<DataOf(archive, i), archive[i].text>>
             \/ /\ ~archive[i].is_dir /\ shown.command # "cat" /\ Supported(archive[i].info)
                /\ shown.text[1] = DataOf(archive, i)
                /\ IsDrawn(shown.text[3], archive[i].info, archive[i].len)
             \/ /\ ~archive[i].is_dir /\ shown.command # "cat" /\ ~Supported(archive[i].info)
                /\ shown.text = <<"no picture">>
    BY <1>1, <1>3 DEF Told
  <2> DEFINE entries == {j \in DOMAIN archive : archive[j].name = shown.name}
  <2>2. entries # {} /\ Max(entries) = i
    BY <2>1, GreatestIs
  <2>3. ~Supported(NoPicture)
    BY DEF Supported, NoPicture
  <2> HIDE DEF entries
  <2>4. IF entries = {} THEN shown.text = <<"not found">>
        ELSE IF archive[i].is_dir THEN shown.text = <<"directory">>
        ELSE IF shown.command = "cat"
             THEN shown.text = IF archive[i].len > LIMIT THEN <<"too large">>
                               ELSE <<DataOf(archive, i), archive[i].text>>
        ELSE IF archive[i].info # NoPicture /\ Supported(archive[i].info)
             THEN shown.text[1] = DataOf(archive, i)
                  /\ IsDrawn(shown.text[3], archive[i].info, archive[i].len)
        ELSE shown.text = <<"no picture">>
    BY <2>1, <2>2, <2>3
  <2> QED
    BY <2>2, <2>4 DEF entries
<1> QED
  BY <1>2, <1>3

(* A step that shows what the archive says keeps ShownInv. *)
LEMMA ToldKept ==
    ASSUME UNCHANGED archive, shown' # NULL => Told(shown')
    PROVE  ShownInv'
<1>1. \A i, name : LastOfName(i, name)' <=> LastOfName(i, name)
  BY DEF LastOfName
<1> QED
  BY <1>1 DEF ShownInv, Told, DataOf

(* The file is read at once, and printed up to its first NUL. *)
LEMMA PrintsText ==
    ASSUME Control, NEW i \in DOMAIN archive, ~archive[i].is_dir
    PROVE  Printed(NodeOf(i)) = archive[i].text
<1> DEFINE len == archive[i].len
           text == archive[i].text
           node == NodeOf(i)
<1>1. len \in Nat /\ text \in 0 .. len
  <2>1. archive \in Archives
    BY MachinesAssumption DEF Control
  <2> QED
    BY <2>1, ArchiveIs
<1>2. node.size = len /\ ~node.is_dir /\ TextAt(node.data) = text
  BY InfoIs DEF NodeOf
<1> HIDE DEF len, text, node
<1>3. vfs_read(node, len, 0) = len
  <2>1. len - 0 = len /\ (0 >= len => len = 0) /\ Min({len, len}) = len
    BY <1>1, MinOfTwo
  <2> QED
    BY <1>2, <2>1 DEF vfs_read
<1>4. Min({len, text}) = text
  <2>1. Min({len, text}) = IF text < len THEN text ELSE len
    BY <1>1, MinOfTwo
  <2> QED
    BY <1>1, <2>1
<1>5. Printed(node) = Min({vfs_read(node, len, 0), text})
  BY <1>2 DEF Printed
<1> QED
  BY <1>3, <1>4, <1>5 DEF node, text

(* cat shows what the archive says of the name. *)
LEMMA CatTells ==
    ASSUME Control, WalkInv, ShownInv, Cat
    PROVE  ShownInv'
<1>1. UNCHANGED archive
  BY DEF Cat, Open, AllocBuffer, TooLarge, Show, FreeBuffer, Proceed, Return, walk
<1>2. CASE UNCHANGED shown
  BY <1>1, <1>2, ToldKept DEF ShownInv
<1>3. ASSUME NEW name \in Names, Open(name), ~UNCHANGED shown PROVE Told(shown')
  <2>1. Len(nodes) = Len(archive) /\ Registered
    BY <1>3 DEF Open, WalkInv, Registered, Ended
  <2>2. CASE vfs_open(name) = NULL /\ Say(name, <<"not found">>)
    <3>1. \A i \in DOMAIN archive : archive[i].name # name
      BY <2>1, <2>2, Opened
    <3> QED
      BY <2>2, <3>1 DEF Say, Told
  <2>3. CASE vfs_open(name) # NULL /\ vfs_open(name).is_dir /\ Say(name, <<"directory">>)
    <3>1. PICK i \in DOMAIN archive : LastOfName(i, name) /\ vfs_open(name) = NodeOf(i)
      BY <2>1, <2>3, Opened
    <3>2. archive[i].is_dir
      BY <2>3, <3>1 DEF NodeOf
    <3> QED
      BY <2>3, <3>1, <3>2 DEF Say, Told
  <2> QED
    BY <1>3, <2>2, <2>3 DEF Open
<1>4. ASSUME TooLarge \/ Show PROVE Told(shown')
  <2>1. PICK i \in DOMAIN archive : LastOfName(i, file.name) /\ file = NodeOf(i) /\ ~file.is_dir
    BY <1>4 DEF TooLarge, Show, WalkInv, Reading
  <2>2. file.size \in Nat
    BY <1>4, SizeIs DEF TooLarge, Show, WalkInv
  <2>3. file.size = archive[i].len /\ ~archive[i].is_dir /\ file.data = DataOf(archive, i)
    BY <2>1 DEF NodeOf
  <2>4. LIMIT \in Nat
    BY FilesAssumption
  <2>5. shown'.name = file.name /\ shown'.command = "cat"
        /\ shown'.text = IF archive[i].len > LIMIT THEN <<"too large">>
                         ELSE <<DataOf(archive, i), archive[i].text>>
    <3>1. CASE TooLarge
      BY <2>3, <3>1 DEF TooLarge, Say
    <3>2. CASE Show
      <4>1. Printed(file) = archive[i].text
        BY <2>1, <2>3, PrintsText
      <4>2. ~(archive[i].len > LIMIT)
        BY <2>2, <2>3, <2>4, <3>2 DEF Show
      <4>3. shown' = [command |-> "cat", name |-> file.name,
                      text |-> <<DataOf(archive, i), archive[i].text>>]
        BY <2>3, <3>2, <4>1 DEF Show, Say
      <4> QED
        BY <4>2, <4>3
    <3> QED
      BY <1>4, <3>1, <3>2
  <2> QED
    BY <2>1, <2>3, <2>5 DEF Told
<1> QED
  BY <1>1, <1>2, <1>3, <1>4, ToldKept DEF Cat, AllocBuffer, FreeBuffer

(* bitmap shows what the archive says of the name. *)
LEMMA ImgTells ==
    ASSUME Control, WalkInv, NEW name \in Names, Img(name)
    PROVE  ShownInv'
<1>1. UNCHANGED archive /\ shown'.name = name /\ shown'.command = "bitmap"
      /\ shown'.text = Picture(name)
  BY DEF Img, walk
<1>2. Len(nodes) = Len(archive) /\ Registered
  BY DEF Img, WalkInv, Registered, Ended
<1>3. CASE vfs_open(name) = NULL
  <2>1. \A i \in DOMAIN archive : archive[i].name # name
    BY <1>2, <1>3, Opened
  <2>2. Picture(name) = <<"not found">>
    BY <1>3 DEF Picture
  <2> QED
    BY <1>1, <2>1, <2>2, ToldKept DEF Told
<1>4. CASE vfs_open(name) # NULL
  <2>1. PICK i \in DOMAIN archive : LastOfName(i, name) /\ vfs_open(name) = NodeOf(i)
    BY <1>2, <1>4, Opened
  <2> DEFINE node == vfs_open(name)
             info == archive[i].info
  <2>2. node.is_dir = archive[i].is_dir /\ InfoAt(node.data) = info
    <3>1. node.is_dir = archive[i].is_dir /\ node.data = DataOf(archive, i)
      BY <2>1 DEF NodeOf
    <3> QED
      BY <3>1, InfoIs
  <2>3. node.data = DataOf(archive, i)
    BY <2>1 DEF NodeOf
  <2>4. archive[i].len \in Nat /\ (Supported(info) => Whole(info, archive[i].len))
    <3>1. archive \in Archives
      BY MachinesAssumption DEF Control
    <3> QED
      BY <3>1, ArchiveIs
  <2>5. Picture(name) = IF archive[i].is_dir THEN <<"directory">>
                        ELSE IF ~Supported(info) THEN <<"no picture">>
                        ELSE <<node.data, Corner, bmp_draw(info, Corner[1], Corner[2])>>
    BY <1>4, <2>2 DEF Picture
  <2> HIDE DEF node, info
  <2>6. CASE archive[i].is_dir
    BY <1>1, <2>1, <2>5, <2>6, ToldKept DEF Told
  <2>7. CASE ~archive[i].is_dir /\ ~Supported(info)
    BY <1>1, <2>1, <2>5, <2>7, ToldKept DEF Told, info
  <2>8. CASE ~archive[i].is_dir /\ Supported(info)
    <3>1. IsDrawn(bmp_draw(info, Corner[1], Corner[2]), info, archive[i].len)
      BY <2>4, <2>8, Drawn
    <3>2. shown'.text = <<node.data, Corner, bmp_draw(info, Corner[1], Corner[2])>>
      BY <1>1, <2>5, <2>8
    <3>3. shown'.text[1] = DataOf(archive, i)
          /\ shown'.text[3] = bmp_draw(info, Corner[1], Corner[2])
      BY <2>3, <3>2
    <3>4. Told(shown')
      BY <1>1, <2>1, <2>8, <3>1, <3>3 DEF Told, info
    <3> QED
      BY <1>1, <3>4, ToldKept
  <2> QED
    BY <2>6, <2>7, <2>8
<1> QED
  BY <1>3, <1>4

(* What cat and bitmap show is what the archive says of that name: the     *)
(* bytes up to the first NUL, or the picture, of its last entry, or why    *)
(* there is nothing to be seen.                                            *)
THEOREM FilesAreShown == BootSpec => []ShowsTheFile
<1>1. BootInit => ShownInv
  BY DEF BootInit, Empty, ShownInv
<1>2. Control /\ WalkInv /\ ShownInv /\ [BootNext]_bootvars => ShownInv'
  <2> SUFFICES ASSUME Control, WalkInv, ShownInv, [BootNext]_bootvars PROVE ShownInv'
    OBVIOUS
  <2>1. CASE UNCHANGED <<walk, cat>> \/ ParseEntry \/ EndOfArchive("acpi")
    <3>1. UNCHANGED <<archive, shown>>
      BY <2>1 DEF ParseEntry, EndOfArchive, walk, cat
    <3> QED
      BY <3>1, ToldKept DEF ShownInv
  <2>2. CASE Reader
    BY <2>2, CatTells, ImgTells DEF Reader
  <2> QED
    BY <2>1, <2>2, FilesQuiet
<1> QED
  BY <1>1, <1>2, ToldIs, WalkKept, BootControl, PTL DEF BootSpec

-----------------------------------------------------------------------------
(* What has been asked of the machine so far *)

Lengths(body) == \A e \in Range(body) : e.length # 0
HasIoApic(body) == \E e \in Range(body) : e.type = "IOAPIC"

(* No bus that has been mapped is a bus of an earlier entry of the MCFG. *)
Mapping(k, b) == k = alloc => b < bus \/ (pc = "check_device" /\ b = bus)
Apart ==
    \A k \in 1 .. alloc : k \in DOMAIN Allocations =>
        \A j \in 1 .. k - 1, b \in Buses(Allocations[k]) :
            Mapping(k, b) => b \notin Buses(Allocations[j])

MadtRead ==
    /\ pc \in Before => ioapic_base = NONE
    /\ pc = "madt" =>
          /\ \A i \in 1 .. start - 1 : MADT.body[i].length # 0
          /\ ioapic_base # NONE => HasIoApic(MADT.body)
    /\ pc \notin Before \cup {"madt"} \cup Ended => Lengths(MADT.body) /\ HasIoApic(MADT.body)

Asked ==
    /\ pc \notin {"start"} \cup Ended => Answered
    /\ pc \notin {"start", "walk", "acpi"} \cup Ended => machine.rsdp.found /\ RootTable.valid
    /\ pc \notin Before \cup Ended => MADT # NOTHING /\ machine.integrated
    /\ pc \in Up \ {"buffer"} => machine.roomy

ComeSoFar ==
    /\ Asked /\ MadtRead /\ Apart
    /\ pc \in {"devices"} \cup Up => Disjoint(Allocations)

(* acpi_find_table finds the first table of the signature, if it is valid. *)
LEMMA FindsFirst ==
    ASSUME Control, NEW signature
    PROVE  /\ Find(RootTable, signature) # NOTHING =>
                 First(signature).valid /\ Find(RootTable, signature) = First(signature)
           /\ First(signature).valid => Find(RootTable, signature) = First(signature)
<1> DEFINE body == RootTable.body
           hits == {k \in DOMAIN body : body[k].signature = signature}
           places == {k \in 1 .. Len(body) : body[k].signature = signature}
<1>1. DOMAIN body = 1 .. Len(body) /\ Len(body) \in Nat
  <2>1. body \in Seq(Range(body))
    BY MachinesAssumption DEF Control, RootTable
  <2> HIDE DEF body
  <2> QED
    BY <2>1, LenProperties
<1>2. hits = places /\ hits \in SUBSET Nat
  BY <1>1
<1>3. First(signature) = IF hits = {} THEN NOTHING ELSE body[Min(hits)]
  BY DEF First
<1>4. Find(RootTable, signature) =
         LET first == IF places # {} THEN Min(places) ELSE 0
         IN  IF first # 0 /\ body[first].valid THEN body[first] ELSE NOTHING
  BY DEF Find, SelectInSeq, validate_checksum
<1>5. hits # {} => Min(hits) # 0
  <2>1. hits # {} => Min(hits) \in hits
    <3> HIDE DEF hits
    <3> QED
      BY <1>2, Least
  <2> QED
    BY <1>1, <2>1
<1>6. ~NOTHING.valid
  BY DEF NOTHING
<1> HIDE DEF body, hits, places
<1> QED
  BY <1>2, <1>3, <1>4, <1>5, <1>6

(* A step that leaves the tables and the enumeration alone, and goes no    *)
(* further than has been asked, keeps what is known of the machine.        *)
LEMMA AskedQuiet ==
    ASSUME Control, ComeSoFar, UNCHANGED <<machine, root, ioapic_base, start>>,
           UNCHANGED <<alloc, bus>>, (pc' = "check_device") = (pc = "check_device"),
           pc \in {"start"} \cup Ended => pc' \in {"start"} \cup Ended,
           pc \in {"start", "walk", "acpi"} \cup Ended => pc' \in {"start", "walk", "acpi"} \cup Ended,
           pc \in Before \cup Ended => pc' \in Before \cup Ended,
           pc' \in Before => pc \in Before, pc' = "madt" => pc = "madt",
           pc = "madt" => pc' \in {"madt"} \cup Ended,
           pc' \in Up => pc \in Up, pc' \in Up \ {"buffer"} => pc \in Up \ {"buffer"},
           pc' = "devices" => pc = "devices"
    PROVE  ComeSoFar'
<1>1. MADT' = MADT /\ Allocations' = Allocations /\ RootTable' = RootTable
  BY DEF MADT, Allocations, acpi_find_table, RootTable
<1>2. Asked'
  BY <1>1 DEF ComeSoFar, Asked, Answered
<1>3. MadtRead'
  BY <1>1 DEF ComeSoFar, MadtRead, Before, Ended
<1>4. Apart'
  <2>1. \A k, b : Mapping(k, b)' <=> Mapping(k, b)
    BY DEF Mapping
  <2> QED
    BY <1>1, <2>1 DEF ComeSoFar, Apart
<1>5. pc' \in {"devices"} \cup Up => Disjoint(Allocations)'
  BY <1>1 DEF ComeSoFar
<1> QED
  BY <1>2, <1>3, <1>4, <1>5 DEF ComeSoFar

(* Before acpi_init has found the tables there is nothing to know of them. *)
LEMMA AskedBefore ==
    ASSUME alloc = 0, pc \in {"start", "walk", "acpi", "idt"} \cup Ended, Asked,
           pc \in Before => ioapic_base = NONE
    PROVE  ComeSoFar
<1>1. Apart
  BY DEF Apart
<1>2. MadtRead
  BY DEF MadtRead, Before, Ended
<1> QED
  BY <1>1, <1>2 DEF ComeSoFar, Up, Ended

(* acpi_init and apic_init go on only with what they have found, and the   *)
(* walk only past entries of the MADT that have a length.                   *)
LEMMA AskedWalk ==
    ASSUME Control, LinesInv, ComeSoFar, FindMadt \/ WalkMadt
    PROVE  ComeSoFar'
<1> USE DEF At, Then
<1>1. UNCHANGED <<machine, root, pcivars>> /\ pc' \in {"madt", "svr"} \cup Ended
      /\ pc \in {"apic", "madt"}
  BY DEF FindMadt, WalkMadt, Ended
<1>2. MADT' = MADT /\ Allocations' = Allocations /\ RootTable' = RootTable
  BY <1>1 DEF MADT, Allocations, acpi_find_table, RootTable
<1>3. Apart' /\ (pc' \in {"devices"} \cup Up => Disjoint(Allocations)')
  <2>1. \A k, b : Mapping(k, b)' <=> Mapping(k, b)
    BY <1>1 DEF Mapping, Ended, pcivars, cursor
  <2> QED
    BY <1>1, <1>2, <2>1 DEF ComeSoFar, Apart, pcivars, cursor, Up, Ended
<1>4. Asked'
  BY <1>1, <1>2 DEF ComeSoFar, Asked, Answered, FindMadt, WalkMadt, Before, Up, Ended
<1>5. MadtRead'
  <2>1. CASE pc' \in Ended
    BY <2>1 DEF MadtRead, Before, Ended
  <2>2. CASE FindMadt /\ pc' \notin Ended
    <3>1. pc' = "madt" /\ start' = 1 /\ ioapic_base' = NONE
      BY <2>2 DEF FindMadt, SetDefaults, ComeSoFar, MadtRead, Before, LinesInv, OverridesRead, Ended
    <3> QED
      BY <3>1 DEF MadtRead, Before, Ended
  <2>3. CASE WalkMadt /\ pc' \notin Ended
    <3>1. pc = "madt" /\ start \in 1 .. Len(MADT.body) + 1 /\ root = RootTable /\ MADT # NOTHING
      BY <2>3 DEF WalkMadt, LinesInv, OverridesRead, Control, Ended
    <3>2. MADT.body \in Seq(Range(MADT.body))
      BY <3>1, MadtIs
    <3>3. DOMAIN MADT.body = 1 .. Len(MADT.body) /\ Len(MADT.body) \in Nat
          /\ Range(MADT.body) = {MADT.body[i] : i \in 1 .. Len(MADT.body)}
      BY <3>2, LenProperties DEF Range
    <3>4. /\ \A i \in 1 .. start - 1 : MADT.body[i].length # 0
          /\ ioapic_base # NONE => HasIoApic(MADT.body)
      BY <3>1 DEF ComeSoFar, MadtRead
    <3>5. CASE start \in DOMAIN MADT.body
      <4>1. ParseMadtEntry(MADT.body[start]) /\ pc' = "madt"
        BY <2>3, <3>5 DEF WalkMadt
      <4>2. \A i \in 1 .. start' - 1 : MADT.body[i].length # 0
        <5>1. CASE MADT.body[start].length = 0
          BY <3>4, <4>1, <5>1 DEF ParseMadtEntry
        <5>2. CASE MADT.body[start].length # 0
          <6>1. start' = start + 1
            BY <4>1, <5>2 DEF ParseMadtEntry
          <6>2. \A i \in 1 .. start' - 1 : i \in 1 .. start - 1 \/ i = start
            BY <3>1, <3>3, <6>1
          <6> QED
            BY <3>4, <5>2, <6>2
        <5> QED
          BY <5>1, <5>2
      <4>3. ioapic_base' # NONE => HasIoApic(MADT.body)
        BY <3>3, <3>4, <3>5, <4>1 DEF ParseMadtEntry, HasIoApic
      <4> QED
        BY <1>2, <4>1, <4>2, <4>3 DEF MadtRead, Before, Ended
    <3>6. CASE start \notin DOMAIN MADT.body
      <4>1. UNCHANGED apicvars /\ pc' = "svr" /\ ioapic_base # NONE
        BY <2>3, <3>6 DEF WalkMadt, Ended
      <4>2. start = Len(MADT.body) + 1
        BY <3>1, <3>3, <3>6
      <4>3. Lengths(MADT.body)
        BY <3>3, <3>4, <4>2 DEF Lengths
      <4> QED
        BY <1>2, <3>4, <4>1, <4>3 DEF MadtRead, Before, Ended
    <3> QED
      BY <3>5, <3>6
  <2> QED
    BY <2>1, <2>2, <2>3
<1> QED
  BY <1>3, <1>4, <1>5 DEF ComeSoFar

(* No bus is mapped twice, so those mapped for one entry are not another's. *)
LEMMA AskedMapping ==
    ASSUME Control, PciInv, ComeSoFar, pci_init
    PROVE  ComeSoFar'
<1> USE DEF At, Then
<1>1. UNCHANGED <<machine, root, apicvars>> /\ root = RootTable
      /\ pc \in {"pci"} \cup Scan /\ pc' \in {"devices", "panic"} \cup Scan
  BY DEF pci_init, Control, Scan, Ended
<1>2. MADT' = MADT /\ Allocations' = Allocations /\ RootTable' = RootTable
  BY <1>1 DEF MADT, Allocations, acpi_find_table, RootTable
<1>3. Asked'
  BY <1>1, <1>2 DEF ComeSoFar, Asked, Answered, Before, Scan, Up, Ended
<1>4. MadtRead'
  BY <1>1, <1>2 DEF ComeSoFar, MadtRead, Before, Scan, Ended, apicvars, routes
<1>5. DOMAIN Allocations = 1 .. Len(Allocations) /\ Len(Allocations) \in Nat
      /\ \A k \in DOMAIN Allocations :
            Allocations[k].start_bus \in Nat /\ Allocations[k].end_bus \in Nat
  <2>1. Allocations \in Seq(Range(Allocations))
    BY <1>1, PciTypes
  <2> QED
    BY <1>1, <2>1, PciTypes, LenProperties
<1>6. alloc \in Nat
  BY DEF PciInv, LoopsAt
<1>7. Apart
  BY DEF ComeSoFar
<1> USE DEF pcivars, cursor
<1>8. CASE UNCHANGED pcivars /\ pc # "check_device" /\ pc' # "check_device"
  <2>1. \A k, b : Mapping(k, b)' <=> Mapping(k, b)
    BY <1>8 DEF Mapping
  <2>2. Apart'
    BY <1>2, <1>7, <1>8, <2>1 DEF Apart
  <2>3. ASSUME pc' \in {"devices"} \cup Up PROVE Disjoint(Allocations)
    <3>1. CASE pc = "pci"
      <4>1. acpi_find_table("MCFG") = NOTHING
        <5>1. ~ (pc' = "map_bus")
          BY <2>3 DEF Up
        <5> QED
          BY <3>1, <5>1 DEF pci_init
      <4>2. Allocations = <<>>
        BY <4>1 DEF Allocations, NOTHING
      <4> QED
        BY <4>2 DEF Disjoint
    <3>2. CASE pc # "pci"
      <4>1. alloc \notin DOMAIN Allocations /\ pc = "map_bus"
        BY <1>1, <1>8, <2>3, <3>2 DEF pci_init, Scan, Up
      <4>2. DOMAIN Allocations \subseteq 1 .. alloc - 1
        BY <1>5, <1>6, <4>1 DEF PciInv, LoopsAt
      <4>3. ASSUME NEW j \in DOMAIN Allocations, NEW k \in DOMAIN Allocations, j < k
            PROVE  Buses(Allocations[j]) \cap Buses(Allocations[k]) = {}
        <5>1. k \in 1 .. alloc /\ j \in 1 .. k - 1 /\ k # alloc
          BY <1>5, <1>6, <4>1, <4>2, <4>3
        <5> QED
          BY <1>7, <5>1 DEF Apart, Mapping
      <4>4. \A j, k \in DOMAIN Allocations : j # k => j < k \/ k < j
        BY <1>5
      <4> QED
        BY <4>3, <4>4 DEF Disjoint
    <3> QED
      BY <3>1, <3>2
  <2> QED
    BY <1>2, <1>3, <1>4, <2>2, <2>3 DEF ComeSoFar
<1>9. ASSUME pc' \in Scan \cup {"panic"}, Apart' PROVE ComeSoFar'
  BY <1>3, <1>4, <1>9 DEF ComeSoFar, Scan, Up
<1>10. CASE NextAllocation /\ pc' = "map_bus"
             /\ (pc = "pci" \/ (pc = "map_bus" /\ alloc \in DOMAIN Allocations
                                /\ bus > Allocations[alloc].end_bus))
  <2>1. alloc' = alloc + 1 /\ (alloc + 1 \in DOMAIN Allocations =>
                                   bus' = Allocations[alloc + 1].start_bus)
    BY <1>2, <1>10 DEF NextAllocation
  <2>2. ASSUME NEW k \in 1 .. alloc + 1, k \in DOMAIN Allocations, NEW j \in 1 .. k - 1,
               NEW b \in Buses(Allocations[k]), Mapping(k, b)'
        PROVE  b \notin Buses(Allocations[j])
    <3>1. k # alloc + 1
      <4>1. SUFFICES ASSUME k = alloc + 1 PROVE FALSE
        OBVIOUS
      <4>2. b < bus' /\ bus' = Allocations[k].start_bus
        BY <1>10, <2>1, <2>2, <4>1 DEF Mapping
      <4> QED
        BY <1>5, <2>2, <4>2 DEF Buses
    <3>2. k \in 1 .. alloc
      BY <1>6, <3>1
    <3>3. Mapping(k, b)
      <4>1. k = alloc => b < bus
        <5>1. SUFFICES ASSUME k = alloc PROVE b < bus
          OBVIOUS
        <5>2. pc = "map_bus" /\ alloc \in DOMAIN Allocations /\ bus > Allocations[alloc].end_bus
          <6>1. pc = "pci" => alloc = 0
            BY DEF PciInv, LoopsAt, Early
          <6> QED
            BY <1>10, <3>2, <5>1, <6>1
        <5>3. bus \in Nat
          BY <5>2 DEF PciInv, LoopsAt
        <5> QED
          BY <1>5, <5>1, <5>2, <5>3 DEF Buses
      <4> QED
        BY <4>1 DEF Mapping
    <3> QED
      BY <1>7, <2>2, <3>2, <3>3 DEF Apart
  <2>3. Apart'
    BY <1>2, <2>1, <2>2 DEF Apart
  <2> QED
    BY <1>9, <1>10, <2>3 DEF Scan
<1>11. CASE map_ecam_bus /\ pc = "map_bus" /\ pc' = "check_device" /\ alloc \in DOMAIN Allocations
  <2>1. UNCHANGED <<alloc, bus>> /\ bus \notin DOMAIN ecam
    BY <1>11 DEF map_ecam_bus, Mapped
  <2>2. ASSUME NEW k \in 1 .. alloc, k \in DOMAIN Allocations, NEW j \in 1 .. k - 1,
               NEW b \in Buses(Allocations[k]), Mapping(k, b)'
        PROVE  b \notin Buses(Allocations[j])
    <3>1. CASE Mapping(k, b)
      BY <1>7, <2>2, <3>1 DEF Apart
    <3>2. CASE ~Mapping(k, b)
      <4>1. k = alloc /\ b = bus
        BY <2>1, <2>2, <3>2 DEF Mapping
      <4>2. j \in 1 .. alloc /\ j # alloc /\ j \in DOMAIN Allocations
        BY <1>5, <1>6, <2>2, <4>1
      <4>3. \A d \in Buses(Allocations[j]) : d \in DOMAIN ecam
        BY <4>2 DEF PciInv, BusesMapped, Buses
      <4> QED
        BY <2>1, <4>1, <4>3
    <3> QED
      BY <3>1, <3>2
  <2>3. Apart'
    BY <1>2, <2>1, <2>2 DEF Apart
  <2> QED
    BY <1>9, <1>11, <2>3 DEF Scan
<1>12. CASE pci_check_device /\ pc = "check_device"
             /\ pc' = (IF bus' = bus THEN "check_device" ELSE "map_bus")
  <2>1. alloc' = alloc /\ bus' \in {bus, bus + 1} /\ bus \in Nat
    BY <1>12 DEF pci_check_device, NextBus, PciInv, LoopsAt
  <2>2. ASSUME NEW k \in 1 .. alloc, k \in DOMAIN Allocations, NEW j \in 1 .. k - 1,
               NEW b \in Buses(Allocations[k]), Mapping(k, b)'
        PROVE  b \notin Buses(Allocations[j])
    <3>1. b \in Nat
      BY <1>5, <2>2 DEF Buses
    <3>2. Mapping(k, b)
      BY <1>12, <2>1, <2>2, <3>1 DEF Mapping
    <3> QED
      BY <1>7, <2>2, <3>2 DEF Apart
  <2>3. Apart'
    BY <1>2, <2>1, <2>2 DEF Apart
  <2> QED
    BY <1>9, <1>12, <2>3 DEF Scan
<1> QED
  BY <1>1, <1>8, <1>10, <1>11, <1>12 DEF pci_init, Scan

(* Every step of the kernel keeps what is known of the machine.            *)
LEMMA AskedKept ==
    ASSUME Control, LinesInv, PciInv, ComeSoFar, [BootNext]_bootvars
    PROVE  ComeSoFar'
<1> USE DEF Control, Early, Scan, Up, Ended, Before, At, Then
<1> USE DEF bootvars, filevars, files, walk, cat, cpuvars, pcivars, cursor, apicvars, routes
<1>1. CASE pci_init
  BY <1>1, AskedMapping
<1>2. CASE FindMadt \/ WalkMadt
  BY <1>2, AskedWalk
<1>3. CASE Start \/ FindTables
  <2>1. /\ UNCHANGED <<machine, alloc, ioapic_base>> /\ pc \in {"start", "acpi"}
        /\ pc' \in {"walk", "halted", "idt", "panic"} /\ alloc = 0 /\ ioapic_base = NONE
    BY <1>3 DEF Start, FindTables, PciInv, LoopsAt, ComeSoFar, MadtRead
  <2>2. Asked'
    BY <1>3 DEF Start, FindTables, acpi_init, validate_checksum, ComeSoFar, Asked, Answered, RootTable
  <2>3. (alloc = 0 /\ pc \in {"start", "walk", "acpi", "idt"} \cup Ended /\ Asked
           /\ (pc \in Before => ioapic_base = NONE) => ComeSoFar)'
    BY AskedBefore, PTL
  <2> QED
    BY <2>1, <2>2, <2>3
<1>4. CASE Ramdisk
  <2>1. /\ UNCHANGED <<machine, alloc, ioapic_base>> /\ pc = "walk" /\ pc' \in {"walk", "acpi"}
        /\ alloc = 0 /\ ioapic_base = NONE
    BY <1>4 DEF Ramdisk, ParseEntry, EndOfArchive, PciInv, LoopsAt, ComeSoFar, MadtRead
  <2>2. Asked'
    BY <2>1 DEF ComeSoFar, Asked, Answered
  <2>3. (alloc = 0 /\ pc \in {"start", "walk", "acpi", "idt"} \cup Ended /\ Asked
           /\ (pc \in Before => ioapic_base = NONE) => ComeSoFar)'
    BY AskedBefore, PTL
  <2> QED
    BY <2>1, <2>2, <2>3
<1>5. CASE fb_enable_double_buffering
  <2>1. UNCHANGED <<machine, root, apicvars, pcivars>> /\ pc = "buffer"
        /\ pc' = IF machine.roomy THEN "idle" ELSE "panic"
    BY <1>5 DEF fb_enable_double_buffering
  <2>2. MADT' = MADT /\ Allocations' = Allocations /\ RootTable' = RootTable
    BY <2>1 DEF MADT, Allocations, acpi_find_table, RootTable
  <2>3. Asked' /\ MadtRead'
    BY <2>1, <2>2 DEF ComeSoFar, Asked, Answered, MadtRead
  <2>4. \A k, b : Mapping(k, b)' <=> Mapping(k, b)
    BY <2>1 DEF Mapping
  <2>5. Apart'
    BY <2>1, <2>2, <2>4 DEF ComeSoFar, Apart
  <2> QED
    BY <2>1, <2>2, <2>3, <2>5 DEF ComeSoFar
<1>6. CASE InitDevices
  <2>1. UNCHANGED <<machine, root, apicvars, pcivars>> /\ pc = "devices" /\ pc' = "buffer"
    BY <1>6 DEF InitDevices
  <2>2. MADT' = MADT /\ Allocations' = Allocations /\ RootTable' = RootTable
    BY <2>1 DEF MADT, Allocations, acpi_find_table, RootTable
  <2>3. Asked' /\ MadtRead'
    BY <2>1, <2>2 DEF ComeSoFar, Asked, Answered, MadtRead
  <2>4. \A k, b : Mapping(k, b)' <=> Mapping(k, b)
    BY <2>1 DEF Mapping
  <2>5. Apart'
    BY <2>1, <2>2, <2>4 DEF ComeSoFar, Apart
  <2> QED
    BY <2>1, <2>2, <2>3, <2>5 DEF ComeSoFar
<1>7. CASE idt_init
  <2>1. UNCHANGED <<machine, root, apicvars, pcivars>> /\ pc = "idt" /\ pc' = "apic"
    BY <1>7 DEF idt_init
  <2>2. MADT' = MADT /\ Allocations' = Allocations /\ RootTable' = RootTable
    BY <2>1 DEF MADT, Allocations, acpi_find_table, RootTable
  <2>3. Asked' /\ MadtRead'
    BY <2>1, <2>2 DEF ComeSoFar, Asked, Answered, MadtRead
  <2>4. \A k, b : Mapping(k, b)' <=> Mapping(k, b)
    BY <2>1 DEF Mapping
  <2>5. Apart'
    BY <2>1, <2>2, <2>4 DEF ComeSoFar, Apart
  <2> QED
    BY <2>1, <2>3, <2>5 DEF ComeSoFar
<1>8. CASE Svr \/ Route
  <2>1. /\ UNCHANGED <<machine, root, routes, pcivars>>
        /\ pc \in {"svr", "mask", "aim", "open"} /\ pc' \in {"mask", "aim", "open", "pci"}
    BY <1>8 DEF Svr, EnableLapic, Route, MaskEntry, AimEntry, OpenEntry
  <2>2. MADT' = MADT /\ Allocations' = Allocations /\ RootTable' = RootTable
    BY <2>1 DEF MADT, Allocations, acpi_find_table, RootTable
  <2>3. Asked' /\ MadtRead'
    BY <2>1, <2>2 DEF ComeSoFar, Asked, Answered, MadtRead
  <2>4. \A k, b : Mapping(k, b)' <=> Mapping(k, b)
    BY <2>1 DEF Mapping
  <2>5. Apart'
    BY <2>1, <2>2, <2>4 DEF ComeSoFar, Apart
  <2> QED
    BY <2>1, <2>3, <2>5 DEF ComeSoFar
<1>9. SUFFICES ASSUME \/ \E vector \in irr : Deliver(vector)
                      \/ Devices \/ Command \/ Leave("reboot") \/ Leave("off")
                      \/ Restart \/ StayDown \/ UNCHANGED bootvars
               PROVE  ComeSoFar'
  BY <1>1, <1>2, <1>3, <1>4, <1>5, <1>6, <1>7, <1>8 DEF BootNext, Step
<1>10. /\ UNCHANGED <<machine, root, routes, pcivars>>
       /\ \/ pc' = pc
          \/ pc \in Up \ {"buffer"} /\ pc' \in Up \cup Ended /\ pc' # "buffer"
  <2>1. CASE \E vector \in irr : Deliver(vector)
    BY <2>1 DEF Deliver
  <2>2. CASE Devices
    BY <2>2 DEF Devices, Pulse, KeyArrives
  <2>3. CASE Command
    BY <2>3 DEF Command, Reader, Cat, Open, AllocBuffer, TooLarge, Show, FreeBuffer, Img,
                Proceed, Return
  <2>4. CASE Leave("reboot") \/ Leave("off")
    BY <2>4 DEF Leave
  <2>5. CASE Restart \/ StayDown
    BY <2>5 DEF Restart, StayDown
  <2>6. CASE UNCHANGED bootvars
    BY <2>6
  <2> QED
    BY <1>9, <2>1, <2>2, <2>3, <2>4, <2>5, <2>6
<1> QED
  BY <1>10, AskedQuiet

(* The kernel comes up only where everything it asks for is there: the     *)
(* loader's answers, valid tables, an integrated APIC, an IOAPIC, entries  *)
(* of the MADT with a length, bus ranges that do not overlap, and room for *)
(* the back buffer.  This is the safety half of Boots.                     *)
THEOREM ComesUpOnlyThere == BootSpec => []OnlyBootable
<1>1. BootInit => ComeSoFar
  <2> SUFFICES ASSUME BootInit PROVE ComeSoFar
    OBVIOUS
  <2>1. alloc = 0 /\ pc = "start" /\ ioapic_base = NONE
    BY DEF BootInit, InitPci, InitApic
  <2>2. Asked
    BY <2>1 DEF Asked, Before, Up
  <2> QED
    BY <2>1, <2>2, AskedBefore
<1>2. ASSUME Control, ComeSoFar PROVE OnlyBootable
  <2> SUFFICES ASSUME pc = "idle" PROVE Bootable
    BY DEF OnlyBootable
  <2>1. /\ root = RootTable /\ Answered /\ machine.rsdp.found /\ RootTable.valid
        /\ MADT # NOTHING /\ machine.integrated /\ machine.roomy
        /\ Lengths(MADT.body) /\ HasIoApic(MADT.body) /\ Disjoint(Allocations)
    BY <1>2 DEF Control, ComeSoFar, Asked, MadtRead, Before, Up, Ended
  <2>2. MADT = Find(RootTable, "APIC") /\ Allocations = Find(RootTable, "MCFG").body
    BY <2>1 DEF MADT, Allocations, acpi_find_table
  <2>3. First("APIC").valid /\ MADT = First("APIC")
    BY <1>2, <2>1, <2>2, FindsFirst
  <2>4. First("MCFG").valid => Allocations = First("MCFG").body
    BY <1>2, <2>2, FindsFirst
  <2> QED
    BY <2>1, <2>3, <2>4 DEF Bootable, Lengths, HasIoApic
<1> QED
  BY <1>1, <1>2, AskedKept, BootControl, Routing, Enumeration, PTL DEF BootSpec
=============================================================================
