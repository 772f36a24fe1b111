# VostokOS in TLA+

VostokOS is a small x86-64 kernel booted by Limine: one CPU, kernel threads
with round-robin preemption, a spinlock, a physical page allocator, page
tables, a heap, a PS/2 keyboard driver, a text terminal and a shell. This
directory holds TLA+ models of its parts, TLC configurations that check them on
small instances, and TLAPS proofs of the theorems that matter most.

Run inside `tla/`: `tlc -config MCHeap.cfg MCHeap.tla` checks a model,
`tlapm HeapProofs.tla` a proof. `PROJECT.json` lists every run, the source
lines every definition stands for, the mutants (plausible bugs of the code that
each property detects), the hazards and the theorems.

## 1. The system

| Part | State | Operations | Hard part |
|---|---|---|---|
| Spinlock `lib/spinlock.c` | lock word, saved flags *in the lock* | acquire, release | interrupts and other CPUs between any two instructions; nesting |
| Physical memory `mm/pmm.c`, `lib/bitmap.c` | bitmap, three counters | init, alloc/free one page or a run | memory maps with holes; the skip in the run search; counters |
| Page tables `mm/vmm.c` | four levels of tables, TLB | init, map, unmap, translate | tables linked while the MMU walks; stale TLB; no pages left in the middle |
| Heap `mm/heap.c` | block list, tail, end, lock | kmalloc, kcalloc, krealloc, kfree, growth | splits and merges; growth that fails half way; reads without the lock |
| Scheduler `kernel/sched.c`, `arch/idt_asm.s` | ring of threads, current thread, tick count | thread_create, sched_tick | interrupt between any two steps; stack frames; end of interrupt |
| Interrupts `arch/idt.c`, `arch/apic.c`, `arch/pic.c` | IDT, local APIC, IOAPIC entries, overrides | init, dispatch, EOI | order of EOI and switch; an entry written in three steps while devices run; overrides in any order |
| Timer `drivers/timer.c` | tick counter | handler, sleep, uptime | the wait races the tick; rounding |
| Keyboard `drivers/keyboard.c` | modifiers, ring of characters | interrupt handler, has_char, get_char | ring without a lock; LED replies |
| Main loop `kernel.c` | back buffer shown or not | swap, test, read, halt | lost wake-up, of a key and of what was drawn |
| Boot `kernel.c` | | the calls of `_start`, in order | early stops; interrupts that come too early |
| printk, panic `lib/printk.c`, `lib/panic.c` | one lock | printk, forced unlock, panic | panics and exceptions in any context |
| Terminal `display/terminal.c` | ring of 20 lines, cursor, scroll offset, pixels | putchar, backspace, scroll, clear | the screen and the ring must agree |
| Shell `shell/shell.c`, `shell/commands.c` | line buffer, history | one key, execute, parse | limits of the line, the history and the arguments |
| File system `fs/vfs.c`, `fs/tar.c` | list of nodes | parse archive, open, read | sizes and padding; `cat` and memory |
| Discovery `drivers/acpi.c`, `drivers/pci.c` | root table, devices registered | once, at boot; reset | damaged, missing and overlapping tables; bus 255; a full registry |
| Pixels `display/framebuffer.c`, `gui/bmp.c` | back buffer | put pixel, swap, draw | padding, order of rows, clipping |

How they interact. `_start` in `kernel.c` initialises everything with
interrupts off, then runs the main loop: swap the frame buffer, take a
character from the keyboard ring and give it to the shell, or halt. Interrupts
(timer, keyboard) enter through `irq_common_stub`, call `irq_handler`, and
return to the interrupted thread or, when a slice is over, to the next one of
the ring. Threads share the heap and `printk`, each behind a spinlock. The heap
calls the page tables and the page allocator while it holds its lock, and the
page tables may print or panic there: the locks nest heap before printk.
`kmalloc` never returns NULL for want of memory: it panics. No thread is
created by the code as it stands (the call in `kernel.c` is a comment), so the
threads of the models are the ones the scheduler's interface invites.

### What makes each part correct

* Spinlock: mutual exclusion; an owner cannot be preempted; nobody spins
  for a thread of its own CPU; the interrupt flag after release is the one before
  acquire.
* Pages: counters equal the bitmap; only RAM is given out, never the bitmap's
  own pages; no page is lost; first fit misses no run.
* Heap: the list is linked both ways, in order, without overlap, up to the
  mapped end; free neighbours are joined; what a caller holds stays his; it
  implements "give out disjoint regions".
* Scheduler: the run queue is one ring; a thread resumes exactly where it was;
  nobody starves; slices are full; a thread's stack is used inside its bounds.
* Keyboard and main loop: a bounded first-in first-out queue; the CPU never
  halts with a character waiting or something drawn and not shown.
* Page tables: every page translates to what was asked for it, at every moment
  the MMU may look; the kernel's own half survives the switch of CR3; no stale
  TLB entry survives a call.
* Timer: a wait never halts for more than one tick after its time has come.
* Boot, APIC: exactly the machines that offer what the kernel needs come up; an
  open redirection entry always leads to a gate with the device's own vector,
  polarity and trigger; no byte of the keyboard waits without an interrupt.
* PCI: every function of the buses the firmware names is registered, once.
* printk, panic: messages stay whole; a panic is reported and stops the machine.
* Terminal, shell: the screen shows the ring and, without padding, nothing else, the
  echo shows the line, the history is the last lines, the arguments are the words.
* Files, pictures: every file of the archive is found, with its own bytes, and `cat` shows
  them up to the first NUL; every
  pixel has its own three.

## 2. The modules

| Module | Models | Abstract specification |
|---|---|---|
| `Spinlock` | acquire/release, instruction by instruction, any CPUs, threads, nested locks | |
| `Heap` | all calls of the heap, growth page by page, panics | `HeapAbs`: regions granted and released, never overlapping |
| `Pmm` | boot from a memory map; both allocators page by page; frees | `PmmAbs`: the lowest run of free pages, or none if there is none |
| `Sched` | thread_create store by store, interrupt delivery, sched_tick, EOI, iretq | |
| `ThreadStack` | one thread's stack word by word: initial frame, pushes, pops, the handler, calls | |
| `Keyboard` | controller, interrupt handler, ring | |
| `MainLoop` | the main loop, commands that wait, timer, `fb_swap`; extends `Keyboard` | `CharFifo`: a bounded queue that drops when full |
| `Vmm` | vmm_init, map and unmap write by write, the MMU and its TLB | `VmmAbs`: a partial function from pages to frames and rights |
| `Console` | printk, panic, exceptions; composes `Spinlock` | |
| `Terminal` | ring of lines, cursor, view, screen | `Scrollback`: the last lines of the text |
| `Shell` | line editing, history, parsing, what commands print; extends `Terminal` | |
| `Bmp` | what `bmp_draw` writes for a picture | |
| `Files` | the walk through the archive, open, read, `cat`, `bitmap`; extends `Bmp` | |
| `Acpi` | root table, finding tables, reset register | |
| `Apic` | MADT, overrides, redirection entries, the devices behind them; extends `Acpi` | |
| `Pci` | mapping and enumeration of the buses; extends `Acpi` | |
| `Boot` | `_start` up to the main loop, interrupts after it, `reboot`, `shutdown`; extends `Files`, `Apic`, `Pci` | |

The `MC*` modules give the constants their small values. The `*Proofs` modules
hold the theorems: those about `ThreadStack` are in `SchedProofs`, those about
`Terminal` in `ShellProofs`, those about `MainLoop`, `Boot`, `Apic`, `Pci` and `Files`
in `KernelProofs`.

### Spinlock
`pc` of a thread is its next instruction inside `spinlock_acquire`
(`SaveFlags` = pushfq/pop, `DisableInterrupts` = cli, `TestAndSet`, `StoreFlags`
= `lock->rflags = rflags`) or `spinlock_release` (`LoadFlags`, `ClearLock`,
`RestoreFlags` = popfq). `Preempt` is the timer interrupt switching a CPU whose
IF is set; `SetInterrupts` the cli/sti of other code. `Rank` is the nesting
order read from the callers. `Home` pins a thread to its CPU.

### Heap
The headers are the set `blocks` with functions `size`, `is_free`, `next`,
`prev`. Each call is split at what other threads can observe: taking the lock,
each step of the walk, each page mapped, each coalescing step, release. Calls
that only wait for the lock overlap, and so do krealloc's unlocked read of
`block->size` and its copy. `MapPage` takes between 1 and `MaxCost` frames (the
page and the page tables `vmm_map` allocates); with too few, `OutOfMemory` or
`OutOfTables` panics. `owned` is a ghost: the pointers callers hold, with the
size asked for; callers free only what they own. Sizes are bytes, scaled down
together with header, granularity and page.

### Pmm
`Init` is `pmm_init` applied to every memory map of `Memmaps`: the bitmap goes
to the first usable region that holds it. The allocators keep their loop
variables `i`, `j`; `AfterBlock` is `i += j` and the loop's `i++` together.
Memory is counted in pages, as Limine aligns usable regions. `owned` is a ghost.
The calls run one after another: in the kernel they are made at boot, or with
`heap_lock` held.

### Sched and ThreadStack
`Sched` takes a stack frame as one value, (thread, point of its execution), and
checks where control goes; `ThreadStack` takes one thread and checks that a
frame is really what the assembly code pushes and pops, word by word, including
the frame `thread_create` fabricates. `Interrupt` ends with `irq_handler` running on
that stack: its return address and up to `HandlerWords` words of its own lie below
the frame, and it returns to the thread (`NoSwitch`) or to another (`SwitchAway`). In `Sched` an interrupt (`Raise`,
`Deliver`) may come at every step of a thread whose IF is set; the local APIC
delivers nothing until EOI. `creating` holds the local variables of
`thread_create` per thread; the two stores that link a thread are steps of their own
(`Chain`, `Link`), and `Linked` leaves out the thread that is between them.

### Keyboard and MainLoop
`port`, `irq`, `acks` are the controller: its output buffer of one byte, the
latched edge, replies still due to LED commands. The handler runs with interrupts
off, one byte per step. Scancodes are keys with the properties the code tests.

`main` is the next step of `_start`'s loop, one instruction or call each, with
`sti; hlt` split as the CPU does: the interrupt shadow of `sti` makes `Halt` one
step, while `timer_sleep_ms`, which runs with IF set, can be interrupted
everywhere (`TestTime`, `Nap`). `due` is `target_ticks - timer_ticks`; a command
that waits (`sleep`, `spinner`, `matrix`, `shutdown`, `reboot`) draws and sleeps
some times before it returns. `dirty` says that the back buffer differs from the
screen; `fb_swap` is the only thing that clears it. `overslept` is a ghost.

### Vmm
A frame is a table of entries; frames nobody has written hold stale entries.
Every action of `Vmm` is one memory write (the two `|=` of an entry that is there are
`AllowUser` and `UseTable`), and `TlbFill` may walk the tables
between any two. `Memories` are the frames left at boot, few enough in some to
run out in the middle of a walk. Frames that callers map are theirs and do not
come back, as nothing in the kernel frees a page.

### Console
`Console` takes all steps of acquire and release from `Spinlock`, for one CPU.
A message has `Length` characters, a report `BannerLines` or `ExceptionLines`
messages. `Exception` may strike at any step, once; the interrupted code never
goes on, so it releases nothing.

### Boot, Acpi, Apic, Pci
`machine` holds what loader and firmware say and the devices; it never changes.
A table is a record with a signature, a flag for its checksum and a body. `Boot`
runs the calls of `_start` in their order, `pc` shared with `Files`: one MADT entry,
one register of a redirection entry, one bus mapped, one PCI function per step, so
that `Devices` (a period of the PIT, a byte of the keyboard) can act between any
two. The loader hands over with every redirection entry masked; an edge on a
masked entry is lost, a level is not. `early` is a ghost: the byte in the output
buffer came while its entry was masked. The machine may stop in `panic`, `halted`
(`hcf`, or a reset that did nothing), `off` and `reset`. Afterwards `Deliver` takes
interrupts, and the commands `cat`, `bitmap`, `reboot` and `shutdown` are given.

### Terminal, Shell and Files
`Terminal` keeps the glyph of each cell; `redraw_screen` draws a line up to its
first NUL, `PutChar` a single cell, `hardware_scroll` moves rows. `fb_clear` is computed
by pixels: it clears as many as the screen has, in a row, while the rows of the buffer
are `pitch` apart, so that a cell may keep all of its glyph or a part of it (`Remains`). `max_rows` is a
variable: `terminal_init` takes it from the size of the screen. On usual screens
the ring of 20 lines is the shorter one; both cases are checked.

`Shell` adds the line buffer, the history and the commands, and so drives the
terminal the way the kernel does. `Type`, `Erase` and `Enter` are one key each.
What a command prints waits in `todo`; `Printk` writes it character by character,
and the next key comes when nothing is left, as the main loop handles one
key at a time. `Scroll` moves the view between two keys: `terminal.h` offers these
calls, but nothing calls them yet. `Texts` stands for the commands that only
print (help, info, uptime, meminfo, ls).

`Files` parses one entry per step, then runs `cat` step by step; `octal_to_int`
and `padded_size` are the code's, `Blocks` and `HeaderOf` define independently
where the archive keeps things; `Printed` ends at the buffer's first NUL, as `%s` does;
and `Encodes` what a size field must say: the digits
of the length, from the right, among characters that are none. A picture is its headers, a byte of it its offset,
a colour the offsets of its three bytes; `TopDown` and `IsDrawn` define
independently where each pixel belongs, and that its bytes are blue, green, red.

## 3. The runs

| Run | Instance | What it shows |
|---|---|---|
| `spinlock` | 2 CPUs, 3 threads, 2 nested locks | mutual exclusion, owners never preempted, nobody spins for its own CPU, flags restored |
| `heap` | 2 threads, 2 pages of heap, 3 frames, sizes 1 and 5, up to 2 pointers held | list, grants, coalescing, retry, krealloc, refinement of `HeapAbs` |
| `pmm` | 6 memory maps of up to 17 pages, runs up to 4 | counters, RAM only, no page lost, refinement of `PmmAbs` |
| `main_loop` | ring of 3 slots, waits of 0 to 2 ticks | refinement of `CharFifo`, no lost wake-up, nothing unshown, bytes are read and characters taken |
| `sched` | 4 threads, slice 2 | ring and ids, resumption, slices, no starvation |
| `thread_stack` | both alignments, 3 nested calls, a handler of 2 words, a stack that just holds them | first start, resumption, bounds of the stack |
| `thread_exit` (violation) | the same | a returning entry point misses `thread_exit` |
| `vmm` | tables of 3 entries, 10 frames, 3 pages in shared and separate tables | refinement of `VmmAbs`, TLB, higher half, tables form a tree |
| `console` | 2 threads, messages of 2 characters, reports of 2 messages | messages whole, reports last, reports end |
| `shell` | lines of 5 characters in rows of 3, ring of 2 lines, screens of 1 and 3 rows, lower and higher than it, and one of 2 rows with 2 pixels of padding to 3, history of 2, 2 arguments | screen, view and ring agree, refinement of `Scrollback`, echo, history, arguments |
| `boot` | 33 machines with one archive, one machine with all archives of up to 3 entries (sizes 0, 1, a block, a block and a byte, pictures); buses of 2 devices with 3 functions, a registry of 3, IOAPICs of 4 pins | which machines come up, interrupt lines, keyboard bytes, PCI functions, the walk, `cat`, `bitmap` |
| `cat_without_memory` (violation) | a heap with room for any one file | a file that is too large, shown twice, exhausts it: `kmalloc` panics |

Why these bounds are enough. The interesting cases all occur: a split and a
block too small to split, merges right, left and both, growth joined to a free
tail and not, running out of frames half way; a full ring and an index that
wraps; runs of pages that end at a hole and at the end of memory, a bitmap that
does not fit the first region; creators interrupted inside thread_create with
the ring changed before they go on; a second CPU taking a lock between clear and
popfq. Each property's mutant, which plants
the bug the property is about, is found on the same instance. Bounds in the
models, named where declared: `MaxOwned`, `Frames` and `MaxCost` (`Heap`),
`MaxCount` (`Pmm`), `Points` (`Sched`, the places where a thread can be
interrupted outside of `thread_create`), `Sent` (`Keyboard`: the bytes a keyboard
sends), `MaxTicks` and `MaxWaits` (`MainLoop`: the longest wait and the waits of one
command), `PINS` (`Apic`), `Machines` (`Boot`), `MaxDepth` and `HandlerWords`
(`ThreadStack`), `MaxRow` and `MaxLater` (`Shell`: no key while scrolled back with
the cursor lower than `MaxRow`; lines after the first are shorter), and one
exception (`excepted` in `Console`).

Where a configuration says `CHECK_DEADLOCK FALSE`, the machine really can stop:
after a panic (`Heap`, and `Pmm` when no region holds the bitmap), after a report
or an exception inside printk (`Console`), when the machine has panicked, halted or
been switched off (`Files`, `Boot`), and when the one thread of `ThreadStack` has returned. The others never block.

### Fairness
Four runs state liveness.

* MainLoop: the main loop and the keyboard's interrupt are strongly fair, the
  handler weakly; the keyboard pauses now and then (`SlowKeyboard`), since the drain
  loop has no bound of its own; and the PIT ticks again and again while a command
  waits in `timer_sleep_ms`. The halt of the main loop itself is *not* assumed to be
  ended by a tick: the keyboard's own interrupt wakes it.
* Boot: the CPU executes (weak fairness of `Step`); nothing is assumed of the
  devices.
* Sched: the timer keeps ticking, the CPU executes, and whoever turned
  interrupts off turns them on again (critical sections and `thread_create` are
  finite; the main loop's `cli` is followed by `sti`).
* Console: the CPU executes, critical sections of the heap end, the scheduler
  starves nobody (`EveryThreadRuns`), and interrupts are turned on again.

Nothing is claimed of the progress of a spinning CPU: test-and-set is not fair,
and on the one CPU of this kernel nobody spins (`OneCpuNeverWaits`).

### What is found
`thread_create` writes the address of `thread_exit` in the word below
`stack_top` and starts the thread with `rsp = stack_top`, one word above it, so
a thread whose entry point returns does not reach `thread_exit`
(`ReturnReachesThreadExit`, run `thread_exit`).

`cmd_cat` expects NULL from a `kmalloc` that panics, and does not free its buffer when
the file is too large: a second such `cat` can take the system down
(`CatSurvivesNoMemory`, run `cat_without_memory`).

Limits that the properties state, because the code gives no more: `ReportsEnd`
promises the report of an exception only outside of printk, since `isr_handler`
prints without the forced unlock that panic makes and would wait for a lock its
own CPU holds; `EchoShown` promises the echo only while the line has not filled a
row, since `terminal_backspace` does nothing in the first column; `ScreenShowsTail`
promises the text on every screen, but the blanks behind and below it only where rows are
not padded, since `fb_clear` takes the frame buffer for `width * height` pixels in a row
while its rows are `pitch / 4` apart: elsewhere `clear`, and every drawing anew of the
ring, leaves remains at the bottom; `HaltsInTime` lets a sleep last one
tick too long, since `timer_sleep_ms` tests the time with interrupts on;
`BytesAnnounced` leaves out a byte that came before the keyboard's entry was opened
(`keyboard_init` does not read the port, and no second edge follows);
`LinesReachHandlers` and `BytesAnnounced` ask that the first IOAPIC of the MADT serves
the ISA lines (`gsi_base` is ignored); `Bootable` asks for MCFG ranges that do not
overlap (the virtual address is the bus's alone, and `vmm_map` panics), for MADT
entries with a length (zero keeps the walk in place for ever) and for a good
checksum of the first MADT (a second one is not looked for).

Observations that no property states:

* After `fb_enable_double_buffering` all drawing goes to the back buffer, and only
  the main loop swaps. A panic or an exception, and the last words of `shutdown`, are
  written where nobody sees them; the dots of `sleep` and the animations of `spinner`
  and `matrix` appear when the command has returned.
* `acpi_reboot` halts for good when the FADT has a reset register that is not an I/O
  port, so the other two ways of `cmd_reboot` are tried only when it has none. The
  third one writes to page 0 before it loads the empty IDT, so that a page fault is
  reported instead of the triple fault.
* The message that falls back to one buffer is unreachable, as `kmalloc` panics.
* `timer_sleep_ms` rounds down to ticks and counts the one that is running: it may
  return up to a tick early.
* The spurious vector 0xFF has no gate.
* `strncpy` writes `n + 1` bytes when its source is shorter than `n`. Its three callers
  pass one less than the buffer holds.
* `cmd_sleep` adds up digits without looking at overflow before it tests the range.

## 4. What is proved

For every value of the constants, from the named assumptions in the modules.

* `SpinlockProofs`: mutual exclusion, owners run with interrupts off, who spins
  for whom, flags restored, and that on one CPU nobody ever
  waits. The invariant `Inv` adds to these what each program position knows:
  the lock word mirrors `held`; a lock's saved flags belong to its owner and are
  those of before `cli`; an inner lock's flags are off. Without the last,
  releasing an inner lock could turn interrupts on.
* `HeapProofs`: the list is whole (linked both ways, in order, disjoint, up to
  the mapped end), grants are real, free neighbours joined, the retry after
  growth, krealloc's copy, stability of owned blocks, refinement of `HeapAbs`.
  `Inv` says, for each step a thread can be at, how far the list is from its
  resting shape: which block may lack a merge on which side, where the end is
  while pages are being mapped, which block is the one about to be returned.
  `Coalesced` and `EndsAtHeapEnd`, parts of `ListIsWhole`, alone are not inductive for that reason. The
  list is handled through `next`, `prev` and the order of addresses, never by
  induction along it.
* `PmmProofs`: type, counters, conservation and RAM only (together `PagesOnce`),
  refinement of `PmmAbs`.
  `Inv` says that the pages the search has passed are no starts of a free run,
  and that those it has tested after `i` are free.

* `KernelProofs`, of the main loop: type correctness, `HaltsInTime`, refinement of
  `CharFifo`. `HaltsInTime` is not inductive, since it speaks of `hlt` alone: the
  invariant adds what holds on the way there. From `cli` on interrupts are off
  (`Masked`), so what was found empty stays empty and what was shown stays shown
  (`Tested`); and the tick that finds a wait over ends its halt (`Woke`). The refinement
  needs `Taken`: while `keyboard_get_char` is between its read and its store of
  `kb_tail` the handler may add characters, but not in the slot that was read.
* `KernelProofs`, of the start: `LinesReachHandlers`, `BytesAnnounced`,
  `DevicesRegistered`, `FilesFound`, `ShowsTheFile` and the safety half
  of `Boots`, for any machine, any number of IOAPICs, pins, overrides and buses, and any
  archive. All rest on `Control`, which says where the start is and that the tables are the machine's.
  - Lines (`LinesInv`). The walk of the MADT knows a line, or has not met an override of
    it yet and has it as usual (`OverridesRead`), whatever the order of the entries. No
    entry is open before the local APIC is enabled (`EntriesTyped`), and every open one
    serves a line that `routed` has come to, with all of its fields (`EntriesRight`): this
    holds between the three register writes because an entry is masked before it is aimed
    and aimed before it is opened. `Announced` is `BytesAnnounced` without the condition
    that interrupts are on: a byte comes with its edge, and the two are taken together.
  - Devices (`PciInv`). The buses mapped are those that the loops have come by
    (`BusesMapped`, `LoopsAt`), and the registry holds, each once, the functions already
    passed that answer and whose device may be asked for them, or as many as it has room
    for (`Registry`). One step passes one function, or leaves out seven of a device that
    has one only.
  - Files (`WalkInv`). With `n` nodes registered the walk stands before entry `n + 1`, and
    node `k` is entry `n + 1 - k`. Headers have places of their own, so the walk cannot
    take one for another, and is over only behind the last one. `octal_to_int` of a field
    is the length it encodes, by induction over its characters (`OctalIs`), and the
    rounding is the number of blocks (`BlocksIs`). The first node of a name is the last
    entry of that name (`Opened`), and what `%s` prints of its buffer ends where the entry's
    text does (`PrintsText`). `Drawn` compares the addresses that `bmp_draw` computes with the
    rows of the picture, for every size, depth, orientation and clipping.
  - What the machine must offer (`ComeSoFar`). `Asked` says what has been found out of
    the machine by the time the start is at each of its steps. A walk of the MADT that is
    over has met no entry without a length (`MadtRead`); no bus is mapped twice, so bus
    ranges that are all mapped do not overlap (`Apart`); and `acpi_find_table` finds the
    first table of a signature (`FindsFirst`). So a kernel that is at its loop is on a `Bootable`
    machine (`ComesUpOnlyThere`).
* `SchedProofs`: `RingIsWhole`, `ResumesWhereItLeft`, `SlicesAreFull`. Only one thread
  at a time is between `cli` and `popf` of `thread_create` and the timer cannot
  interrupt it (`Atomic`), so an object is linked once (`Fresh`) with an id of its own
  (`Ids`), its fields are what was stored in them (`Prepared`), and no part of the ring is
  closed under `next` (`Whole`), between the two stores that link a thread as after them. A switch resumes what was
  left because each thread that does not execute has its frame on its own stack and the
  address of it in its `rsp` (`Frames`). The second part is about `ThreadStack`:
  `FramesMatch`, for every depth of calls and any handler. That the stack suffices
  (`StackBounds`) is a lemma only, as `StackAssumption` makes the room. There the invariant relates
  `rsp` to the depth and says which word of a saved frame holds which register; the
  pops read the words in the order in which the pushes, reversed, wrote them.
* `VmmProofs`: `HigherHalfKept`, `TlbCoherent`, `TablesAreATree`, refinement of
  `VmmAbs`. The tables are described by two functions that the code does not have: the
  `rank` of a frame (the level it is used at) and `up`, the one entry that leads to it.
  A write keeps them or extends them by one table, so that linking and clearing an
  entry disturbs no other page, whether the MMU walks before or after it. What the
  boot loader mapped stays until CR3 is loaded (`LoaderKept`), the half that is copied
  is complete then (`Moving`), both roots share it (`Shared`), and `Call` is what each
  step of `vmm_map` and `vmm_unmap` knows of the entries it has passed.
* `ConsoleProofs`: `MessagesWhole`, `ReportIsLast`. The theorems of `SpinlockProofs` do
  not carry over, as a panic takes the lock from whoever has it. The invariant says why
  that is safe on one CPU: who holds a lock or is past panic's `cli` cannot be preempted
  (`Undisturbed`, `InnerFlags`), so nobody else is in the middle of a message
  (`Message`), and half a message is being printed or was cut short by an exception,
  which leaves the lock taken for ever (`Half`); a report belongs to a thread that goes
  nowhere but to its halt (`Reported`).
* `ShellProofs`: `ScreenShowsTail`, refinement of `Scrollback` (`RingHoldsTail`),
  `HistoryIsRecent`, `EchoShown`, `RunsTheWords`. Screen and ring are kept in different ways, cell by
  cell and by moving an index; they agree because each line is text and then NULs and
  the cursor is where they begin (`Lines`), and because the screen is full before it is
  scrolled (`Cursor`). A row that is drawn shows its text on every screen; that clearing
  leaves blanks is shown where rows are not padded (`Clearing`). For the echo, `Prompted`
  says that whatever is left to print ends
  with a line's end and then the prompt, so that the prompt starts a row; `Echoing`
  relates what is left, the row and the line buffer while the prompt is printed and the
  keys are echoed. The loops of the parser and of two commands are recursive functions;
  that they have a value and its type is shown on finite ranges, from the least index
  where it would fail (`Upward`, `Recursion`). `RunsTheWords` is shown by the same
  induction along the line: after each character the words found are those that begin so
  far, each numbered by how many begin before it, and the blanks marked are all up to
  the start of the last argument (`Marked`); the definition of the words that it is
  compared with does not know of the loop.

Each `Inv` was checked by TLC on the instance of its run before it was proved, except
the part of `VmmProofs` that says that `rank` and `up` exist.

Assumptions are those of the `ASSUME`s: positive sizes, a header smaller than
the initial heap, distinct ranks, a ring of at least two slots, `NONE` not a thread,
frames and devices apart, the boot loader's tables mapping what is used at boot
(`BootAssumption`), a stack that holds the deepest call, an interrupt's frame
and its handler (`StackAssumption`), columns that fit the screen, in rows of the buffer no
shorter than its own (`TerminalAssumption`), a prompt shorter than a row, and no newline among the characters
of a key. The code meets each of them by its own constants or by the order of its calls.

`Boot` and `Files` take from outside what the code cannot check. `MachinesAssumption`:
the two lines end at different pins (`Wired`), the MADT tells how they are wired where
that is not as usual (`Truthful`), buses, devices and functions have numbers in their
ranges (`Numbered`), and the root table points to a sequence of tables. Nothing is assumed of the order or number of the MADT's entries, of
overrides of other sources, of checksums, or of which tables there are.
`FilesAssumption`: a size field encodes its file's length (`Encodes`), a
text ends inside its file, directories and
empty files are no pictures, and a picture that `bmp_draw` supports has all its rows
(`Whole`; the code does not compare the headers with the size of the file).
`MachinesAssumption` and `FilesAssumption` hold of all the machines and archives of the
runs.

Model-checked only:

* all liveness (`KeysAreTaken`, `EveryThreadRuns`, `ReportsEnd`, and that of `Boots`),
  which like ENABLED is out of the prover's reach. The safety half of `Boots` is the
  theorem `ComesUpOnlyThere`.
* the two properties that do not hold, `ReturnReachesThreadExit` and
  `CatSurvivesNoMemory`, whose counterexamples TLC finds.

## 5. Not modelled

* The string and memory helpers, which keep no state; `timer_wait_ticks` and the PCI
  lookups, which nothing calls; the legacy PIC but for its being masked.
* The arithmetic of uptime, of `sleep`'s number and of `benchmark`, and the bit layout
  of descriptor tables, page attributes and configuration headers.
* Formatting, glyphs and colours; the terminal's branch for '\r', which no caller
  writes.
* Failures of memory at boot: in `Boot` only the back buffer can be too large (`roomy`);
  `Pmm`, `Vmm` and `Heap` have the others.
* A firmware whose tables contradict their own lengths, and reading outside of them.
* `kheap_print_stats`, an unlocked walk for a message; the heap's magic number,
  which only misuse by callers could damage; the width of sizes and addresses (no
  caller comes near it).
* `holder_cpu` and `holder_eip` of a spinlock, which nothing reads.
* Concurrent callers of the page allocator outside the heap's lock, and of the
  terminal: only boot code and the main loop make those calls, and nobody creates
  a second thread.
* Vendored and generated files (`limine.h`, `font/`), build files.

## 6. What is left

Every invariant and action property that a run checks and that holds is a theorem, or
the lemma `StackBounds`. What would say more about the system:

1. the composition of `MainLoop` and `Shell`: a key from the wire to the screen;
2. `sleep`'s number and the benchmark's arithmetic;
3. a second thread that allocates pages, which `Pmm` does not admit, as the kernel does
   not create one.
