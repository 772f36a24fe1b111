-------------------------------- MODULE Apic --------------------------------
(***************************************************************************)
(* Interrupt routing, arch/apic.c: the walk through the MADT and the       *)
(* redirection entries it leads to, on the machine of module Acpi.         *)
(*                                                                         *)
(* The local APIC, the IOAPICs and the two devices, PIT (IRQ 0) and        *)
(* keyboard controller (IRQ 1), are external.  The loader hands over with  *)
(* every redirection entry masked.  An edge on a masked entry, or before   *)
(* the local APIC is enabled, is lost; a level is seen once it is unmasked.*)
(***************************************************************************)
EXTENDS Acpi

CONSTANTS SOURCES,  \* 16: interrupts of the ISA bus
          PINS      \* bound: redirection entries of an IOAPIC

ASSUME ApicAssumption == SOURCES \in Nat /\ SOURCES > 1 /\ PINS \in Nat

VARIABLES
    irq_overrides, irq_flags,
    ioapic_base,  \* which IOAPIC is used, or NONE
    start,        \* the entry of the MADT that the walk has reached
    low, high,    \* external: the two registers of every redirection entry
    lapic,        \* external: the local APIC is software-enabled
    irr,          \* external: vectors waiting in the local APIC
    obf,          \* external: the keyboard controller has a byte
    early         \* history: it came while its entry was masked

routes == <<irq_overrides, irq_flags, ioapic_base, start>>
redtbl == <<low, high>>
apicvars == <<routes, redtbl, lapic, irr, obf, early>>

NONE == 0  \* IOAPICs are numbered from 1
Sources == 0 .. SOURCES - 1
Pins == 0 .. PINS - 1
BusDefault == [polarity |-> 0, trigger |-> 0]
MASKED == [masked |-> TRUE, vector |-> 0, active_low |-> FALSE, level |-> FALSE]

InitApic ==
    /\ irq_overrides = [s \in Sources |-> 0] /\ irq_flags = [s \in Sources |-> BusDefault]
    /\ ioapic_base = NONE /\ start = 1
    /\ low = [id \in DOMAIN machine.ioapics |-> [pin \in Pins |-> MASKED]]
    /\ high = [id \in DOMAIN machine.ioapics |-> [pin \in Pins |-> 0]]
    /\ lapic = FALSE /\ irr = {} /\ obf = FALSE /\ early = FALSE

-----------------------------------------------------------------------------
(* apic_init *)

MADT == acpi_find_table("APIC")

SetDefaults ==
    /\ irq_overrides' = [s \in Sources |-> s]
    /\ irq_flags' = [s \in Sources |-> BusDefault]
    /\ UNCHANGED <<ioapic_base, start, redtbl, lapic, irr, obf, early>>

IsOverride(entry) == entry.type = "ISO" /\ entry.source < SOURCES

ParseMadtEntry(entry) ==
    /\ ioapic_base' = IF entry.type = "IOAPIC" /\ ioapic_base = NONE
                      THEN entry.id ELSE ioapic_base
    /\ IF IsOverride(entry)
       THEN /\ irq_overrides' = [irq_overrides EXCEPT ![entry.source] = entry.gsi]
            /\ irq_flags' = [irq_flags EXCEPT ![entry.source] = entry.flags]
       ELSE UNCHANGED <<irq_overrides, irq_flags>>
    /\ start' = IF entry.length = 0 THEN start ELSE start + 1
    /\ UNCHANGED <<redtbl, lapic, irr, obf, early>>

\* The local vector table is masked, then SVR written.
EnableLapic == lapic' = TRUE /\ UNCHANGED <<routes, redtbl, irr, obf, early>>

(* ioapic_set_entry: three register writes *)

apic_get_id == machine.cpu

LowPart(irq, vector) ==
    [masked |-> FALSE, vector |-> vector,
     active_low |-> irq_flags[irq].polarity = 3, level |-> irq_flags[irq].trigger = 3]

WriteLow(irq, value) == low' = [low EXCEPT ![ioapic_base][irq_overrides[irq]] = value]

\* Faulty: the entry is not masked while it is modified.
LeaveOpen(irq, vector) ==
    /\ WriteLow(irq, LowPart(irq, vector))
    /\ UNCHANGED <<routes, high, lapic, irr, obf, early>>

MaskEntry(irq, vector) ==
    /\ WriteLow(irq, MASKED)
    /\ UNCHANGED <<routes, high, lapic, irr, obf, early>>

AimEntry(irq) ==
    /\ high' = [high EXCEPT ![ioapic_base][irq_overrides[irq]] = apic_get_id]
    /\ UNCHANGED <<routes, low, lapic, irr, obf, early>>

-----------------------------------------------------------------------------
(* The devices: machine.lines says where PIT and keyboard are wired.       *)

Lines == {0, 1}
Line(irq) == machine.lines[irq]

\* The IOAPIC and its pin that a line is wired to.
Wire(irq) ==
    LET gsi == Line(irq).gsi
        id == CHOOSE id \in DOMAIN machine.ioapics : gsi - machine.ioapics[id] \in Pins
    IN  <<id, gsi - machine.ioapics[id]>>
LowOf(irq) == low[Wire(irq)[1]][Wire(irq)[2]]
HighOf(irq) == high[Wire(irq)[1]][Wire(irq)[2]]

Accepted(irq) == lapic /\ ~LowOf(irq).masked /\ HighOf(irq) = machine.cpu
Raised(irq) == IF Accepted(irq) THEN irr \cup {LowOf(irq).vector} ELSE irr

\* The PIT's next period begins.
Pulse ==
    /\ irr' = Raised(0)
    /\ UNCHANGED <<routes, redtbl, lapic, obf, early>>

KeyArrives ==
    /\ machine.keyboard /\ ~obf
    /\ obf' = TRUE /\ early' = LowOf(1).masked
    /\ irr' = Raised(1)
    /\ UNCHANGED <<routes, redtbl, lapic>>

OpenEntry(irq, vector) ==
    /\ WriteLow(irq, LowPart(irq, vector))
    /\ irr' = IF irq = 1 /\ obf /\ lapic /\ LowPart(irq, vector).level
              THEN irr \cup {vector} ELSE irr
    /\ UNCHANGED <<routes, high, lapic, obf, early>>
=============================================================================
