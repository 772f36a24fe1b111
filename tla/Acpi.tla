-------------------------------- MODULE Acpi --------------------------------
(***************************************************************************)
(* The ACPI tables of drivers/acpi.c: which root table is used and which   *)
(* table a signature finds.                                                *)
(*                                                                         *)
(* A table is a record: its signature, whether its bytes sum up to zero    *)
(* (valid), and its body, a sequence of entries.  The body of a root table *)
(* is the sequence of the tables it points to.                             *)
(***************************************************************************)
EXTENDS Integers, Sequences, SequencesExt

VARIABLES
    machine,  \* external: what loader and firmware say, and the devices
    root      \* xsdt or rsdt, whichever use_xsdt selects

NOTHING == [signature |-> "none", valid |-> FALSE, body |-> <<>>]

validate_checksum(table) == table.valid

\* acpi_init panics when there is no RSDP or its root table is damaged.
RootOf(rsdp) ==
    IF rsdp.revision >= 2 /\ rsdp.xsdt # NOTHING THEN rsdp.xsdt ELSE rsdp.rsdt
RootTable == RootOf(machine.rsdp)

acpi_init == machine.rsdp.found /\ validate_checksum(RootTable) /\ root' = RootTable
AcpiPanics == ~machine.rsdp.found \/ ~validate_checksum(RootTable)

\* The first table of that signature, unless it is damaged.
Find(table, signature) ==
    LET first == SelectInSeq(table.body, LAMBDA t : t.signature = signature)
    IN  IF first # 0 /\ validate_checksum(table.body[first]) THEN table.body[first] ELSE NOTHING
acpi_find_table(signature) == Find(root, signature)

(* acpi_reboot writes the reset register, if it is an I/O port, and then   *)
(* halts for good; it returns when the FADT offers no reset register.      *)
FADT == acpi_find_table("FACP")
OffersReset == FADT # NOTHING /\ FADT.body[1].reset_flag
=============================================================================
