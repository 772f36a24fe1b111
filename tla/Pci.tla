-------------------------------- MODULE Pci ---------------------------------
(***************************************************************************)
(* PCI enumeration, drivers/pci.c: every bus that the MCFG table names is  *)
(* mapped and its devices and functions are registered.                    *)
(*                                                                         *)
(* The configuration spaces are machine.pci: a set of [segment, bus,       *)
(* device, function, multi], where multi is bit 7 of the header type.  A   *)
(* device without it may answer to other functions as well.                *)
(***************************************************************************)
EXTENDS Acpi, SequencesExt, FiniteSetsExt

CONSTANTS DEVICES, FUNCTIONS,  \* 32 devices of a bus, 8 functions of a device
          PCI_MAX_DEVICES      \* 256

ASSUME PciAssumption ==
    DEVICES \in Nat \ {0} /\ FUNCTIONS \in Nat \ {0} /\ PCI_MAX_DEVICES \in Nat

VARIABLES
    alloc, bus, device, function,  \* the loops' variables
    ecam,                \* the bus addresses mapped so far, and what they show
    pci_devices

cursor == <<alloc, bus, device, function>>
pcivars == <<cursor, ecam, pci_devices>>

InitPci ==
    /\ alloc = 0 /\ bus = 0 /\ device = 0 /\ function = 0
    /\ ecam = <<>> /\ pci_devices = <<>>

Allocations == acpi_find_table("MCFG").body

NextAllocation ==
    /\ alloc' = alloc + 1
    /\ bus' = IF alloc' \in DOMAIN Allocations THEN Allocations[alloc'].start_bus ELSE bus
    /\ UNCHANGED <<device, function, ecam, pci_devices>>

\* The virtual address is the bus's alone; vmm_map panics when it is in use.
Mapped == bus \in DOMAIN ecam

map_ecam_bus ==
    /\ ~Mapped
    /\ ecam' = [b \in DOMAIN ecam \cup {bus} |->
                  IF b = bus THEN Allocations[alloc].segment ELSE ecam[b]]
    /\ device' = 0 /\ function' = 0
    /\ UNCHANGED <<alloc, bus, pci_devices>>

\* The function's header, if its vendor id is not 0xFFFF.
Header(f) ==
    {h \in machine.pci : h.segment = ecam[bus] /\ h.bus = bus
                         /\ h.device = device /\ h.function = f}

Registers == Len(pci_devices) < PCI_MAX_DEVICES /\ Header(function) # {}

AnyFunctions == TRUE  \* Faulty

\* Function 0 says whether the device has others.
MoreFunctions == function > 0 \/ (Registers /\ \E h \in Header(0) : h.multi)

NextInAByte(b) == (b + 1) % 256  \* Faulty: the counter is a byte, as the bus number is.

NextBus(b) == b + 1

pci_check_device ==
    /\ pci_devices' = IF Registers THEN Append(pci_devices, <<bus, device, function>>)
                                   ELSE pci_devices
    /\ IF MoreFunctions /\ function + 1 < FUNCTIONS
       THEN function' = function + 1 /\ UNCHANGED <<bus, device>>
       ELSE /\ function' = 0
            /\ IF device + 1 < DEVICES THEN device' = device + 1 /\ UNCHANGED bus
                                       ELSE bus' = NextBus(bus) /\ UNCHANGED device
    /\ UNCHANGED <<alloc, ecam>>

-----------------------------------------------------------------------------
(* What the enumeration is to find: the functions of the buses named, those*)
(* after the first where the first says that there are more.               *)
Present ==
    {<<h.bus, h.device, h.function>> : h \in {h \in machine.pci :
        /\ \E k \in DOMAIN Allocations :
              /\ h.segment = Allocations[k].segment
              /\ h.bus \in Allocations[k].start_bus .. Allocations[k].end_bus
        /\ \E first \in machine.pci :
              /\ first.function = 0 /\ first.device = h.device
              /\ first.bus = h.bus /\ first.segment = h.segment
              /\ h.function = 0 \/ first.multi}}
=============================================================================
