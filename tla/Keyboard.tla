------------------------------ MODULE Keyboard ------------------------------
(***************************************************************************)
(* The PS/2 keyboard driver of drivers/keyboard.c: the controller, the     *)
(* interrupt handler and the ring of characters it fills.  Its one reader  *)
(* is the main loop, module MainLoop, on the same CPU.                     *)
(*                                                                         *)
(* The interrupt handler runs with interrupts off and cannot itself be     *)
(* interrupted.  The ring has two indices and no lock: the handler writes  *)
(* kb_head, the reader kb_tail.  The keyboard controller and the interrupt *)
(* controller are external: the output buffer holds one byte, the next may *)
(* come as soon as it is read, and each raises an edge that stays latched  *)
(* (irq) until delivered.                                                  *)
(*                                                                         *)
(* Scancodes are abstracted to keys: the modifiers and locks by name, and  *)
(* sets of keys whose character depends on Shift and Caps Lock (Letters),  *)
(* on Shift only (Symbols), or that have no character (Mute).              *)
(***************************************************************************)
EXTENDS Naturals, Sequences

CONSTANTS KB_BUFFER_SIZE,
          Letters, Symbols, Mute,  \* keys that are not modifiers
          Sent                     \* the bytes the keyboard sends in a run

Shifts == {"LSHIFT", "RSHIFT"}
Locks == {"CAPSLOCK", "NUMLOCK", "SCROLLLOCK"}
Modifiers == Shifts \cup {"CTRL", "ALT"} \cup Locks
Keys == Modifiers \cup Letters \cup Symbols \cup Mute

ASSUME BufferAssumption == KB_BUFFER_SIZE \in Nat /\ KB_BUFFER_SIZE > 1
ASSUME KeysAssumption ==
    /\ Letters \cap (Symbols \cup Mute \cup Modifiers) = {}
    /\ Symbols \cap (Mute \cup Modifiers) = {}
    /\ Mute \cap Modifiers = {}

\* A byte of the controller: a key pressed or released, or, with an error
\* bit in the status port, noise.
NOISE == [key |-> "noise", released |-> FALSE]
EMPTY == [key |-> "empty", released |-> FALSE]
Byte == [key : Keys, released : BOOLEAN] \cup {NOISE}

ASSUME SentAssumption == Sent \subseteq Byte

\* A character: the key and which of its two forms.
Char == (Letters \cup Symbols) \X BOOLEAN

NUL == <<>>

State == {"shift", "ctrl", "alt"} \cup Locks

VARIABLES
    port, irq, acks,  \* external: output buffer, latched edge, replies due
    kb_state,
    kb_buffer, kb_head, kb_tail,
    intr,       \* IF
    handling    \* keyboard_handler is running

hardware == <<port, irq, acks>>
ring == <<kb_buffer, kb_head, kb_tail>>
driver == <<hardware, kb_state, ring, intr, handling>>

Slots == 0 .. KB_BUFFER_SIZE - 1

InitDriver ==
    /\ port = EMPTY /\ irq = FALSE /\ acks = 0
    /\ kb_state = [s \in State |-> FALSE]
    /\ kb_buffer = [s \in Slots |-> NUL]
    /\ kb_head = 0 /\ kb_tail = 0
    /\ intr = TRUE
    /\ handling = FALSE

-----------------------------------------------------------------------------
(* The controllers *)

Arrives(byte) ==
    /\ port = EMPTY
    /\ port' = byte
    /\ irq' = TRUE

(* A key is pressed or released, or a byte arrives damaged.  The keyboard  *)
(* sends the replies it owes first.                                        *)
Type(byte) ==
    /\ acks = 0
    /\ Arrives(byte)
    /\ UNCHANGED <<acks, kb_state, ring, intr, handling>>

(* The keyboard acknowledges a byte sent to it: 0xFA reads as a release.   *)
Acknowledge ==
    /\ acks > 0
    /\ acks' = acks - 1
    /\ \E key \in Mute : Arrives([key |-> key, released |-> TRUE])
    /\ UNCHANGED <<kb_state, ring, intr, handling>>

ReadPort == port' = EMPTY /\ UNCHANGED irq

-----------------------------------------------------------------------------
(* keyboard_handler *)

(* The interrupt is delivered. *)
Interrupt ==
    /\ irq /\ intr /\ ~handling
    /\ irq' = FALSE
    /\ intr' = FALSE
    /\ handling' = TRUE
    /\ UNCHANGED <<port, acks, kb_state, ring>>

(* No more data: EOI and iretq. *)
Drained ==
    /\ handling /\ port = EMPTY
    /\ handling' = FALSE
    /\ intr' = TRUE
    /\ UNCHANGED <<hardware, kb_state, ring>>

HasByte == handling /\ port # EMPTY

Discard ==
    /\ HasByte /\ port = NOISE
    /\ ReadPort
    /\ UNCHANGED <<acks, kb_state, ring, intr, handling>>

(* process_scancode *)
Flag(key) == CASE key \in Shifts -> "shift"
               [] key = "CTRL"   -> "ctrl"
               [] key = "ALT"    -> "alt"

Modifier ==
    /\ HasByte /\ port # NOISE
    /\ port.key \in Modifiers \ Locks
    /\ kb_state' = [kb_state EXCEPT ![Flag(port.key)] = ~port.released]
    /\ ReadPort
    /\ UNCHANGED <<acks, ring, intr, handling>>

(* keyboard_set_leds sends two bytes to the keyboard. *)
Toggle ==
    /\ HasByte /\ port # NOISE /\ ~port.released
    /\ port.key \in Locks
    /\ kb_state' = [kb_state EXCEPT ![port.key] = ~@]
    /\ acks' = acks + 2
    /\ ReadPort
    /\ UNCHANGED <<ring, intr, handling>>

(* A release, or a key with no character. *)
Ignore ==
    /\ HasByte /\ port # NOISE
    /\ \/ port.released /\ port.key \notin Modifiers \ Locks
       \/ port.key \in Mute
    /\ ReadPort
    /\ UNCHANGED <<acks, kb_state, ring, intr, handling>>

(* The form of a character: Shift picks the table, Caps Lock swaps letters.*)
Translate(key) ==
    <<key, IF key \in Letters THEN kb_state["shift"] # kb_state["CAPSLOCK"]
                              ELSE kb_state["shift"]>>

Following(slot) == (slot + 1) % KB_BUFFER_SIZE

(* Faulty: the last empty slot is filled too. *)
NeverFull == FALSE

Full == Following(kb_head) = kb_tail

Press ==
    /\ HasByte /\ port # NOISE /\ ~port.released
    /\ port.key \in Letters \cup Symbols
    /\ IF Full THEN UNCHANGED <<kb_buffer, kb_head>>
       ELSE /\ kb_buffer' = [kb_buffer EXCEPT ![kb_head] = Translate(port.key)]
            /\ kb_head' = Following(kb_head)
    /\ ReadPort
    /\ UNCHANGED <<acks, kb_state, kb_tail, intr, handling>>

Handler == Drained \/ Discard \/ Modifier \/ Toggle \/ Ignore \/ Press

-----------------------------------------------------------------------------
(* The ring as a queue: the characters from kb_tail up to kb_head.         *)
Count == (kb_head + KB_BUFFER_SIZE - kb_tail) % KB_BUFFER_SIZE
Contents == [k \in 1 .. Count |-> kb_buffer[(kb_tail + k - 1) % KB_BUFFER_SIZE]]
=============================================================================
