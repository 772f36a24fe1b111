-------------------------------- MODULE Boot --------------------------------
(***************************************************************************)
(* _start of kernel.c, from the loader's answers to the main loop, with    *)
(* the modules it calls: the ramdisk's walk (Files), Acpi, Apic and Pci.   *)
(* Everything runs in one thread with interrupts off until the last steps, *)
(* while the devices go on as they like.  Afterwards interrupts are taken, *)
(* and the commands cat, bitmap, reboot and shutdown are given.            *)
(*                                                                         *)
(* The memory managers and the scheduler have their own modules; here they *)
(* succeed, but for the room of the back buffer.                           *)
(***************************************************************************)
EXTENDS Files, Apic, Pci

CONSTANT Machines  \* [machine, archive]

\* Every line ends at a pin of its own.
Wired(m) ==
    /\ \A id \in DOMAIN m.ioapics : m.ioapics[id] \in Nat
    /\ \A line \in Lines :
          /\ m.lines[line].gsi \in Nat
          /\ \E id \in DOMAIN m.ioapics : m.lines[line].gsi - m.ioapics[id] \in Pins
    /\ m.lines[0].gsi # m.lines[1].gsi

\* The MADT tells how the lines are wired that are not wired as usual.
Truthful(m, madt) ==
    /\ madt \in Seq(Range(madt))
    /\ \A line \in Lines :
          LET overrides == {e \in Range(madt) : IsOverride(e) /\ e.source = line}
          IN  /\ \A e \in overrides : m.lines[line] = [gsi |-> e.gsi, flags |-> e.flags]
              /\ overrides = {} => m.lines[line] = [gsi |-> line, flags |-> BusDefault]

\* Buses, devices and functions have their numbers.
Numbered(m, mcfg) ==
    /\ IsFiniteSet(m.pci)
    /\ \A h \in m.pci : h.device \in 0 .. DEVICES - 1 /\ h.function \in 0 .. FUNCTIONS - 1
    /\ mcfg \in Seq(Range(mcfg))
    /\ \A a \in Range(mcfg) : a.start_bus \in Nat /\ a.end_bus \in Nat

ASSUME MachinesAssumption ==
    \A m \in Machines :
       LET tables == RootOf(m.machine.rsdp).body
           madt == Find(RootOf(m.machine.rsdp), "APIC")
       IN  /\ m.archive \in Archives
           /\ tables \in Seq(Range(tables))
           /\ Wired(m.machine)
           /\ madt # NOTHING => Truthful(m.machine, madt.body)
           /\ Numbered(m.machine, Find(RootOf(m.machine.rsdp), "MCFG").body)

VARIABLES
    routed,  \* the line whose entry apic_init is writing
    idt,     \* the vectors with a gate
    interrupts     \* IF

cpuvars == <<routed, idt, interrupts>>
bootvars == <<machine, root, filevars, apicvars, pcivars, cpuvars>>

BootInit ==
    /\ \E m \in Machines : machine = m.machine /\ archive = m.archive
    /\ pc = "start" /\ Empty
    /\ root = NOTHING /\ InitApic /\ InitPci
    /\ routed = 0 /\ idt = {} /\ interrupts = FALSE

\* The program runs, and goes on to the next step.
files == <<walk, cat>>
At(step) == pc = step
Then(step) == pc' = step

-----------------------------------------------------------------------------
(* _start *)

Answered == machine.framebuffer /\ machine.hhdm /\ machine.memmap

Start ==  \* The frame buffer, memory; hcf when an answer is missing.
    /\ At("start")
    /\ Then(IF Answered THEN "walk" ELSE "halted")
    /\ UNCHANGED <<machine, root, files, apicvars, pcivars, cpuvars>>

\* tar_init; without a module there is nothing to walk.
Ramdisk ==
    /\ ParseEntry \/ EndOfArchive("acpi")
    /\ UNCHANGED <<machine, root, apicvars, pcivars, cpuvars>>

FindTables ==
    /\ At("acpi")
    /\ \/ acpi_init /\ Then("idt")
       \/ AcpiPanics /\ Then("panic") /\ UNCHANGED root
    /\ UNCHANGED <<machine, files, apicvars, pcivars, cpuvars>>

Exceptions == 0 .. 21 \cup {31}
Irqs == 32 .. 47

idt_init ==
    /\ At("idt") /\ Then("apic")
    /\ idt' = Exceptions \cup Irqs
    /\ UNCHANGED <<machine, root, files, apicvars, pcivars, routed, interrupts>>

\* apic_init up to the walk, and the walk.
FindMadt ==
    /\ At("apic")
    /\ \/ MADT # NOTHING /\ machine.integrated /\ SetDefaults /\ Then("madt")
       \/ (MADT = NOTHING \/ ~machine.integrated) /\ Then("panic") /\ UNCHANGED apicvars
    /\ UNCHANGED <<machine, root, files, pcivars, cpuvars>>

WalkMadt ==
    /\ At("madt")
    /\ \/ start \in DOMAIN MADT.body /\ ParseMadtEntry(MADT.body[start]) /\ Then("madt")
       \/ /\ start \notin DOMAIN MADT.body /\ UNCHANGED apicvars
          /\ Then(IF ioapic_base = NONE THEN "panic" ELSE "svr")
    /\ UNCHANGED <<machine, root, files, pcivars, cpuvars>>

Svr ==
    /\ At("svr") /\ EnableLapic /\ Then("mask")
    /\ UNCHANGED <<machine, root, files, pcivars, cpuvars>>

\* ioapic_set_entry(0, 32), then ioapic_set_entry(1, 33)
Vector(irq) == 32 + irq

Route ==
    /\ \/ At("mask") /\ MaskEntry(routed, Vector(routed)) /\ Then("aim") /\ UNCHANGED routed
       \/ At("aim") /\ AimEntry(routed) /\ Then("open") /\ UNCHANGED routed
       \/ At("open") /\ OpenEntry(routed, Vector(routed))
          /\ IF routed = 0 THEN routed' = 1 /\ Then("mask")
                           ELSE UNCHANGED routed /\ Then("pci")
    /\ UNCHANGED <<machine, root, files, pcivars, idt, interrupts>>

pci_init ==
    /\ \/ /\ At("pci")
          /\ IF acpi_find_table("MCFG") = NOTHING THEN Then("devices") /\ UNCHANGED pcivars
                                                  ELSE Then("map_bus") /\ NextAllocation
       \/ At("map_bus") /\ alloc \notin DOMAIN Allocations /\ Then("devices") /\ UNCHANGED pcivars
       \/ At("map_bus") /\ alloc \in DOMAIN Allocations /\ bus > Allocations[alloc].end_bus
          /\ NextAllocation /\ Then("map_bus")
       \/ /\ At("map_bus") /\ alloc \in DOMAIN Allocations /\ bus <= Allocations[alloc].end_bus
          /\ IF Mapped THEN Then("panic") /\ UNCHANGED pcivars
                       ELSE map_ecam_bus /\ Then("check_device")
       \/ /\ At("check_device") /\ pci_check_device
          /\ Then(IF bus' = bus THEN "check_device" ELSE "map_bus")
    /\ UNCHANGED <<machine, root, files, apicvars, cpuvars>>

\* keyboard_init, which does not read the port, timer_init, and sti.
InitDevices ==
    /\ At("devices") /\ Then("buffer")
    /\ interrupts' = TRUE
    /\ UNCHANGED <<machine, root, files, apicvars, pcivars, routed, idt>>

\* kmalloc does not return NULL: the way back to one buffer is never taken.
fb_enable_double_buffering ==
    /\ At("buffer")
    /\ Then(IF machine.roomy THEN "idle" ELSE "panic")
    /\ UNCHANGED <<machine, root, files, apicvars, pcivars, cpuvars>>

Step ==
    \/ Start \/ Ramdisk \/ FindTables \/ idt_init \/ FindMadt \/ WalkMadt \/ Svr \/ Route
    \/ pci_init \/ InitDevices \/ fb_enable_double_buffering

-----------------------------------------------------------------------------
(* irq_handler: keyboard_handler drains the controller, the timer's part is*)
(* in Sched; then EOI.                                                     *)

Stopped == {"panic", "halted", "off", "reset"}

IrqFromOne(vector) == vector - 31  \* Faulty: counted from one.

Irq(vector) == vector - 32

Deliver(vector) ==
    /\ interrupts /\ pc \notin Stopped
    /\ irr' = irr \ {vector}
    /\ IF Irq(vector) = 1 THEN obf' = FALSE /\ early' = FALSE ELSE UNCHANGED <<obf, early>>
    /\ UNCHANGED <<machine, root, files, pc, routes, redtbl, lapic, pcivars, cpuvars>>

Devices ==
    /\ Pulse \/ KeyArrives
    /\ UNCHANGED <<machine, root, filevars, pcivars, cpuvars>>

-----------------------------------------------------------------------------
(* Commands, given in the main loop *)

Command ==
    /\ Reader
    /\ UNCHANGED <<machine, root, apicvars, pcivars, cpuvars>>

Leave(step) ==
    /\ At("idle") /\ Then(step)
    /\ interrupts' = FALSE
    /\ UNCHANGED <<machine, root, files, apicvars, pcivars, routed, idt>>

\* acpi_reboot; it returns, and the keyboard controller is asked, when the
\* FADT offers no reset register.  One that is not an I/O port is not written.
Restart ==
    /\ At("reboot") /\ (OffersReset => FADT.body[1].io) /\ Then("reset")
    /\ UNCHANGED <<machine, root, files, apicvars, pcivars, cpuvars>>

\* Nothing was reset: for (;;) cli; hlt.
StayDown ==
    /\ At("reboot") /\ Then("halted")
    /\ UNCHANGED <<machine, root, files, apicvars, pcivars, cpuvars>>

BootNext ==
    \/ Step
    \/ \E vector \in irr : Deliver(vector)
    \/ Devices
    \/ Command \/ Leave("reboot") \/ Leave("off") \/ Restart \/ StayDown

\* The CPU executes.
BootSpec == BootInit /\ [][BootNext]_bootvars /\ WF_bootvars(Step)

-----------------------------------------------------------------------------
(* Properties *)

TakesInterrupts == interrupts /\ pc \notin Stopped

\* The IOAPIC that apic_init takes, the first one listed, has the ISA lines,
\* and its pins are counted from 0: the code adds no base to a pin.
ServesLines ==
    ioapic_base # NONE =>
        machine.ioapics[ioapic_base] = 0 /\ \A irq \in Lines : Wire(irq)[1] = ioapic_base

(* An entry of the IOAPICs is open only when an interrupt that takes it is *)
(* wanted: it is a device's, aims at this CPU with that device's vector,   *)
(* polarity and trigger mode, and there is a gate behind the vector.  When *)
(* interrupts are on, every device has such an entry.                      *)
LinesReachHandlers ==
    ServesLines =>
        /\ \A id \in DOMAIN low, pin \in Pins : ~low[id][pin].masked =>
              \E irq \in Lines :
                 /\ Wire(irq) = <<id, pin>> /\ high[id][pin] = machine.cpu
                 /\ low[id][pin].vector = 32 + irq
                 /\ low[id][pin].active_low = (Line(irq).flags.polarity = 3)
                 /\ low[id][pin].level = (Line(irq).flags.trigger = 3)
                 /\ low[id][pin].vector \in idt
        /\ TakesInterrupts => \A irq \in Lines : Accepted(irq)

(* A byte of the keyboard is never left without an interrupt that will     *)
(* read it, unless it came before the entry was opened: nobody reads the   *)
(* port then, and no edge follows.                                         *)
BytesAnnounced == TakesInterrupts /\ ServesLines /\ obf /\ ~early => 33 \in irr

(* Every function of the buses that the firmware names is registered, each *)
(* once, until the registry is full, and nothing else is.                  *)
DevicesRegistered ==
    /\ IsInjective(pci_devices) /\ Range(pci_devices) \subseteq Present
    /\ TakesInterrupts => Len(pci_devices) = Min({PCI_MAX_DEVICES, Cardinality(Present)})

\* What the kernel asks of loader, firmware and machine.
First(signature) ==
    LET body == RootTable.body
        hits == {k \in DOMAIN body : body[k].signature = signature}
    IN  IF hits = {} THEN NOTHING ELSE body[Min(hits)]
Buses(allocation) == allocation.start_bus .. allocation.end_bus
Disjoint(allocations) ==
    \A j, k \in DOMAIN allocations :
        j # k => Buses(allocations[j]) \cap Buses(allocations[k]) = {}
Bootable ==
    /\ Answered /\ machine.rsdp.found /\ RootTable.valid
    /\ First("APIC").valid /\ machine.integrated
    /\ \E e \in Range(First("APIC").body) : e.type = "IOAPIC"
    /\ \A e \in Range(First("APIC").body) : e.length # 0
    /\ First("MCFG").valid => Disjoint(First("MCFG").body)
    /\ machine.roomy

(* Exactly on these machines the kernel comes up.                          *)
OnlyBootable == pc = "idle" => Bootable
Boots == (pc = "start" /\ Bootable ~> pc = "idle") /\ []OnlyBootable
=============================================================================
