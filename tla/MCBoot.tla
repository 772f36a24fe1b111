------------------------------- MODULE MCBoot -------------------------------
(* Machines for TLC: every archive of up to three entries on the standard  *)
(* machine without a keyboard, and one archive on machines that differ     *)
(* from it in one or two ways.                                             *)
EXTENDS Boot, MCFiles

Table(signature, body) == [signature |-> signature, valid |-> TRUE, body |-> body]
Damaged(table) == [table EXCEPT !.valid = FALSE]

\* The MADT.  The PIT is wired to pin 2, as usual.
IoApic(k) == [type |-> "IOAPIC", length |-> 12, id |-> k]
Processor == [type |-> "LAPIC", length |-> 8]
Override(source, gsi, p, t) ==
    [type |-> "ISO", length |-> 10, source |-> source, gsi |-> gsi,
     flags |-> [polarity |-> p, trigger |-> t]]
At2 == Override(0, 2, 0, 0)
Sci == Override(2, 3, 3, 3)
NotIsa == Override(20, 1, 3, 3)
Level == Override(1, 1, 3, 3)
Madts == {<<IoApic(1), Processor, At2>>, <<At2, NotIsa, Sci, IoApic(1)>>,
          <<At2, IoApic(1), IoApic(2)>>, <<IoApic(2), IoApic(1), At2>>,
          <<At2>>, <<At2, [Processor EXCEPT !.length = 0], IoApic(1)>>}
Usual == [gsi |-> 1, flags |-> [polarity |-> 0, trigger |-> 0]]
PitLine == [Usual EXCEPT !.gsi = 2]

\* PCI: more devices than the registry holds; a device that answers to a
\* function it does not have; a function without a first one; two segments.
Alloc(s, first, last) == [segment |-> s, start_bus |-> first, end_bus |-> last]
Function(s, b, d, f, m) ==
    [segment |-> s, bus |-> b, device |-> d, function |-> f, multi |-> m]
Cards == {Function(0, 0, 0, 0, FALSE), Function(0, 0, 0, 1, FALSE),
          Function(0, 0, 1, 0, TRUE), Function(0, 0, 1, 2, FALSE),
          Function(0, 1, 0, 1, FALSE), Function(0, 1, 1, 0, TRUE),
          Function(0, 1, 1, 1, FALSE), Function(1, 1, 0, 0, FALSE),
          Function(0, 255, 1, 0, FALSE)}
Mcfgs == {<<Alloc(0, 0, 0)>>, <<Alloc(0, 0, 1)>>, <<Alloc(0, 255, 255), Alloc(1, 1, 1)>>,
          <<Alloc(0, 0, 1), Alloc(1, 1, 1)>>, <<>>}

Fadt(flag, io) == Table("FACP", <<[reset_flag |-> flag, io |-> io]>>)
Root(madt, mcfg) ==
    Table("XSDT", <<Fadt(TRUE, TRUE), Table("APIC", madt), Table("MCFG", mcfg)>>)
Standard ==
    [framebuffer |-> TRUE, hhdm |-> TRUE, memmap |-> TRUE, roomy |-> TRUE,
     rsdp |-> [found |-> TRUE, revision |-> 2, rsdt |-> NOTHING,
               xsdt |-> Root(<<IoApic(1), Processor, At2>>, <<Alloc(0, 0, 0)>>)],
     integrated |-> TRUE, cpu |-> 1, ioapics |-> <<0, 4>>,
     lines |-> [irq \in {0, 1} |-> IF irq = 0 THEN PitLine ELSE Usual],
     pci |-> Cards, keyboard |-> TRUE]

WithRoot(table) == [Standard EXCEPT !.rsdp.xsdt = table]
Without(k) == [Root(<<IoApic(1), At2>>, <<>>) EXCEPT !.body = RemoveAt(@, k)]
Variants ==
    {[Standard EXCEPT !.framebuffer = FALSE], [Standard EXCEPT !.hhdm = FALSE],
     [Standard EXCEPT !.memmap = FALSE], [Standard EXCEPT !.roomy = FALSE],
     [Standard EXCEPT !.rsdp.found = FALSE], [Standard EXCEPT !.integrated = FALSE]}
    \cup {WithRoot(Root(madt, mcfg)) : madt \in {<<IoApic(1), Processor, At2>>}, mcfg \in Mcfgs}
    \cup {WithRoot(Root(madt, <<>>)) : madt \in Madts}
    \cup {[WithRoot(Root(<<Level, At2, IoApic(1)>>, <<>>)) EXCEPT
             !.lines[1].flags = [polarity |-> 3, trigger |-> 3]]}
    \cup {[WithRoot(Root(<<IoApic(2), At2>>, <<>>)) EXCEPT !.ioapics = <<4, 0>>]}
    \cup {WithRoot(Damaged(Root(<<IoApic(1), At2>>, <<>>)))}
    \cup {WithRoot(Without(k)) : k \in 1 .. 3}
    \cup {WithRoot([Root(<<IoApic(1), At2>>, <<Alloc(0, 0, 1)>>) EXCEPT !.body[k].valid = FALSE]) :
             k \in 1 .. 3}
    \cup {WithRoot([Root(<<IoApic(1), At2>>, <<>>) EXCEPT !.body[1] = Fadt(flag, io)]) :
             flag \in BOOLEAN, io \in BOOLEAN}
    \cup {[Standard EXCEPT !.rsdp = [found |-> TRUE, revision |-> r, rsdt |-> table,
                                     xsdt |-> NOTHING]] :
             r \in {0, 2}, table \in {Root(<<IoApic(1), At2>>, <<>>), NOTHING}}

OneArchive == <<File("a", 9), File("b", 1)>>
MCMachines ==
    {[machine |-> [Standard EXCEPT !.keyboard = FALSE], archive |-> a] : a \in MCArchives}
    \cup {[machine |-> m, archive |-> OneArchive] : m \in Variants}
=============================================================================
