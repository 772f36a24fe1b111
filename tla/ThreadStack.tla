----------------------------- MODULE ThreadStack ----------------------------
(***************************************************************************)
(* The stack of one thread, word by word: the frame thread_create builds   *)
(* on it (kernel/sched.c), the frames the interrupt path pushes and pops   *)
(* (arch/idt_asm.s), and the calls the thread makes in between.            *)
(*                                                                         *)
(* Addresses count words of 8 bytes; a word is 16-byte aligned when its    *)
(* address is even.  The stack is the words base .. stack_top - 1 of a     *)
(* kmalloc block, whose alignment varies; the words beyond belong to other *)
(* blocks or to nobody.  What a register or a word holds is a value: code  *)
(* or stack addresses, selectors, flags, and contents that only have to    *)
(* come back unchanged.                                                    *)
(***************************************************************************)
EXTENDS Integers, Sequences

CONSTANTS STACK_WORDS,  \* 8192 bytes in the code
          MaxDepth,     \* bound: calls the thread nests, of one word each
          HandlerWords  \* bound: words irq_handler and what it calls use

Code(f) == <<"code", f>>
Addr(a) == <<"addr", a>>
Zero == <<"zero">>
CS == <<"selector", 8>>
SS == <<"selector", 16>>
FLAGS == <<"flags", "IF">>    \* 0x202
Other == <<"other">>          \* contents that are not the thread's
Own(r, v) == <<"own", r, v>>

(* trapframe_t, from its lowest address up. *)
trapframe == <<"r15", "r14", "r13", "r12", "r11", "r10", "r9", "r8",
               "rbp", "rdi", "rsi", "rdx", "rcx", "rbx", "rax",
               "irq_num", "error_code",
               "rip", "cs", "rflags", "rsp", "ss">>

(* What an interrupt pushes: the CPU, the irq macro, irq_common_stub. *)
Pushes == <<"ss", "rsp", "rflags", "cs", "rip",
            "error_code", "irq_num",
            "rax", "rbx", "rcx", "rdx", "rsi", "rdi", "rbp",
            "r8", "r9", "r10", "r11", "r12", "r13", "r14", "r15">>

(* Faulty: two registers popped in the order they were pushed. *)
PopsSwapped == <<"r14", "r15", "r13", "r12", "r11", "r10", "r9", "r8",
                 "rbp", "rdi", "rsi", "rdx", "rcx", "rbx", "rax",
                 "skip", "skip",
                 "rip", "cs", "rflags", "rsp", "ss">>

(* What the stub's pops and iretq load, from the saved rsp up; addq $16    *)
(* skips two words.                                                        *)
Pops == <<"r15", "r14", "r13", "r12", "r11", "r10", "r9", "r8",
          "rbp", "rdi", "rsi", "rdx", "rcx", "rbx", "rax",
          "skip", "skip",
          "rip", "cs", "rflags", "rsp", "ss">>

Words == Len(trapframe)
General == {trapframe[k] : k \in 1 .. 15}
Registers == General \cup {"rip", "cs", "rflags", "rsp", "ss"}
Stacked == Registers \cup {"irq_num", "error_code"}

\* The calls, a word for the CPU's alignment, a frame, and the C handler
\* with its return address, all on the thread's stack.
ASSUME StackAssumption ==
    /\ STACK_WORDS \in Nat /\ MaxDepth \in Nat /\ HandlerWords \in Nat
    /\ MaxDepth + 1 + Words + 1 + HandlerWords <= STACK_WORDS

VARIABLES
    base,     \* stack_base
    mem,      \* the words around the stack
    state,    \* "none", "ready", "running", "handling", "stopped" or "returned"
    saved,    \* thread_t.rsp
    current_rsp,  \* irq_common_stub's rbp, and the argument of irq_handler
    regs,     \* the registers while the thread runs
    depth,    \* calls under way
    written,  \* ghost: the words written
    last      \* ghost: the registers when the thread was interrupted

stackvars == <<base, mem, state, saved, current_rsp, regs, depth, written, last>>

stack_top == base + STACK_WORDS
Memory == 0 .. STACK_WORDS + 3
Align(a) == a - (a % 2)

NoRegisters == [r \in Registers |-> Other]

StackInit ==
    /\ base \in {1, 2}
    /\ mem = [a \in Memory |-> Other]
    /\ state = "none"
    /\ saved = 0 /\ current_rsp = 0 /\ depth = 0
    /\ regs = NoRegisters
    /\ written = {}
    /\ last = NoRegisters

(* The words of w are written. *)
Write(w) ==
    /\ mem' = [a \in Memory |-> IF a \in DOMAIN w THEN w[a] ELSE mem[a]]
    /\ written' = written \cup DOMAIN w

-----------------------------------------------------------------------------
(* thread_create *)

(* Faulty: not decremented before the store. *)
stack_ptr_top == stack_top

stack_ptr == stack_top - 1
tf_addr == Align(stack_ptr - Words)

InitialFrame(field) ==
    CASE field = "rip"    -> Code("entry_point")
      [] field = "cs"     -> CS
      [] field = "rflags" -> FLAGS
      [] field = "rsp"    -> Addr(stack_top)
      [] field = "ss"     -> SS
      [] OTHER            -> Zero

BuildFrame ==
    /\ state = "none"
    /\ Write([a \in tf_addr .. tf_addr + Words - 1 \cup {stack_ptr} |->
                IF a = stack_ptr THEN Code("thread_exit")
                ELSE InitialFrame(trapframe[a - tf_addr + 1])])
    /\ saved' = tf_addr
    /\ state' = "ready"
    /\ UNCHANGED <<base, current_rsp, regs, depth, last>>

-----------------------------------------------------------------------------
(* The interrupt path *)

(* The CPU aligns the stack and pushes its part, the stub the rest.  The   *)
(* stub aligns rsp again and calls irq_handler, whose return address and   *)
(* whose own words, however many, lie below the frame.                     *)
Top == Align(regs["rsp"][2])

Stacks(field) == IF field \in Registers THEN regs[field] ELSE Zero

Interrupt ==
    /\ state = "running"
    /\ current_rsp' = Top - Words
    /\ \E used \in 0 .. HandlerWords :
          LET call == Align(current_rsp') - 1
          IN  Write([a \in call - used .. call \cup current_rsp' .. Top - 1 |->
                       IF a <= call THEN Other ELSE Stacks(Pushes[Top - a])])
    /\ last' = regs
    /\ regs' = NoRegisters
    /\ state' = "handling"
    /\ UNCHANGED <<base, saved, depth>>

(* The pops and iretq, from rsp up. *)
Restore(rsp) ==
    /\ regs' = [r \in Registers |->
                  mem[rsp + (CHOOSE k \in 1 .. Words : Pops[k] = r) - 1]]
    /\ state' = "running"
    /\ UNCHANGED <<base, mem, saved, current_rsp, depth, written, last>>

(* irq_handler returns 0, and the stub goes back to its frame. *)
NoSwitch == state = "handling" /\ Restore(current_rsp)

(* sched_tick saves the stack pointer, and the stub takes another thread's.*)
SwitchAway ==
    /\ state = "handling"
    /\ saved' = current_rsp
    /\ state' = "stopped"
    /\ UNCHANGED <<base, mem, current_rsp, regs, depth, written, last>>

(* A later tick returns the saved one. *)
SwitchTo == state \in {"ready", "stopped"} /\ Restore(saved)

-----------------------------------------------------------------------------
(* The thread's own code *)

Rsp == regs["rsp"][2]

Compute(v) ==
    /\ state = "running"
    /\ regs' = [r \in Registers |-> IF r \in General THEN Own(r, v) ELSE regs[r]]
    /\ UNCHANGED <<base, mem, state, saved, current_rsp, depth, written, last>>

Call ==
    /\ state = "running"
    /\ depth < MaxDepth
    /\ Write([a \in {Rsp - 1} |-> regs["rip"]])
    /\ regs' = [regs EXCEPT !["rsp"] = Addr(Rsp - 1), !["rip"] = Code("callee")]
    /\ depth' = depth + 1
    /\ UNCHANGED <<base, state, saved, current_rsp, last>>

(* ret, from a callee or from the entry point itself *)
Return ==
    /\ state = "running"
    /\ regs' = [regs EXCEPT !["rsp"] = Addr(Rsp + 1), !["rip"] = mem[Rsp]]
    /\ IF depth > 0 THEN depth' = depth - 1 /\ state' = state
                    ELSE depth' = depth /\ state' = "returned"
    /\ UNCHANGED <<base, mem, saved, current_rsp, written, last>>

StackNext ==
    \/ BuildFrame
    \/ Interrupt \/ NoSwitch \/ SwitchAway \/ SwitchTo
    \/ \E v \in {1, 2} : Compute(v)
    \/ Call \/ Return

StackSpec == StackInit /\ [][StackNext]_stackvars

-----------------------------------------------------------------------------
(* Properties *)

(* The stub pops what was put there.  A thread first executes entry_point, *)
(* with interrupts on, the kernel's segments and an empty stack: the frame *)
(* thread_create invents "must exactly match the registers pushed".  Later *)
(* it goes on with every register as it was when it was interrupted,       *)
(* wherever that found it and its stack, whatever the handler left on the  *)
(* stack below the frame, and whether other threads ran in between.        *)
FramesMatch ==
    [][state # "running" /\ state' = "running" =>
          regs' = IF state = "ready" THEN [r \in Registers |-> InitialFrame(r)] ELSE last]_stackvars

(* Nothing the thread, the interrupt path or its handler pushes, and       *)
(* nothing thread_create prepares, is outside the 8 KB it allocated.       *)
StaysInside == written \subseteq base .. stack_top - 1

(* "Place the return address (thread_exit) at the top of the stack": an    *)
(* entry point that returns arrives in thread_exit.                        *)
ReturnReachesThreadExit ==
    state = "returned" => regs["rip"] = Code("thread_exit")
=============================================================================
