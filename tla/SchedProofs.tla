----------------------------- MODULE SchedProofs ----------------------------
(***************************************************************************)
(* For every set of threads, slice and length of execution: the ring stays *)
(* whole, a switch resumes a thread where it left, and a slice is full.    *)
(*                                                                         *)
(* None of the three is inductive.  The ring is whole because only one     *)
(* thread at a time is between cli and popf of thread_create (Atomic), so  *)
(* an object is linked once and its id is new (Ids, Fresh); what a switch  *)
(* resumes is right because every thread that does not execute has its     *)
(* frame on its own stack and its own stack pointer in its rsp (Frames).   *)
(*                                                                         *)
(* The second part is about the words of such a frame: module ThreadStack. *)
(***************************************************************************)
EXTENDS Sched, ThreadStack, TLAPS

(* A thread that executes and has come as far as it has.                   *)
Itself(t) == [thread |-> t, at |-> reached[t]]

(* thread_create, between cli and popf, is not interrupted. *)
Atomic ==
    \A t \in Threads :
        pc[t] \in {"count", "init", "chain", "link", "popf"} =>
            handler = NONE /\ ~intr /\ t = current_thread

(* The object being created is not in the ring yet. *)
Fresh ==
    /\ \A t \in Threads : pc[t] \in {"init", "chain", "link"} => child[t] \notin Linked
    /\ \A t \in Threads \ Linked : reached[t] = 0 /\ frame[t] = Itself(t)

(* What has been stored of it before it is linked. *)
Prepared ==
    \A t \in Threads :
        /\ pc[t] \in {"chain", "link"} =>
              child[t] \in DOMAIN id /\ id[child[t]] = n[t] /\ rsp[child[t]] = child[t]
        /\ pc[t] = "link" =>
              child[t] \in DOMAIN next /\ next[child[t]] = next[current_thread]

Ids ==
    /\ \A t, u \in Linked : t # u => id[t] # id[u]
    /\ \A u \in Linked : id[u] < next_thread_id
    /\ \A t \in Threads :
          /\ pc[t] = "init" => n[t] = next_thread_id
          /\ pc[t] \in {"chain", "link"} => \A u \in Linked : id[u] < n[t]
          /\ pc[t] \in {"chain", "link"} => n[t] < next_thread_id

Whole ==
    \A S \in SUBSET Linked :
        S # {} /\ (\A t \in S : next[t] \in S) => S = Linked

(* Threads that do not execute, and in a handler the interrupted one too,  *)
(* are saved on their stacks.                                              *)
Frames ==
    /\ \A t \in Linked \ {current_thread} : rsp[t] = t
    /\ \A t \in Linked : t # current_thread \/ handler # NONE => frame[t] = Itself(t)
    /\ new_rsp \in {NONE, current_thread}
    /\ new_rsp = NONE => cpu = Itself(current_thread)
    /\ handler \in {NONE, "tick"} => new_rsp = NONE

Slices == ran = tick_count

Inv ==
    /\ TypeOK /\ reached \in [Threads -> Nat]
    /\ Atomic /\ Fresh /\ Prepared /\ Ids /\ Whole /\ Frames /\ Slices

-----------------------------------------------------------------------------
(* A thread executes *)

(* The code that executes is current_thread's. *)
LEMMA Executing ==
    ASSUME Inv, NEW t \in Threads, Running(t)
    PROVE  /\ t = current_thread /\ t \in Linked
           /\ cpu = Itself(t) /\ new_rsp = NONE
  BY DEF Inv, Frames, Running, Itself, TypeOK

(* An instruction moves its own thread on, and no other. *)
LEMMA Proceeding ==
    ASSUME Inv, NEW t \in Threads, Running(t), Proceed(t)
    PROVE  /\ cpu' \in Context
           /\ cpu' = [thread |-> t, at |-> reached'[t]]
           /\ reached' \in [Threads -> Nat]
           /\ \A u \in Threads : reached'[u] \in 0 .. Points[u] - 1
           /\ \A u \in Threads \ {t} : reached'[u] = reached[u]
<1>1. cpu = [thread |-> t, at |-> reached[t]]
  BY Executing DEF Itself
<1>2. Points[t] \in Nat \ {0} /\ reached[t] \in 0 .. Points[t] - 1
  BY SchedAssumption DEF Inv, TypeOK
<1>3. (reached[t] + 1) % Points[t] \in 0 .. Points[t] - 1
  BY <1>2
<1>4. /\ reached' \in [Threads -> Nat]
      /\ reached'[t] = (reached[t] + 1) % Points[t]
      /\ \A u \in Threads \ {t} : reached'[u] = reached[u]
  BY <1>3 DEF Proceed, Inv
<1>5. cpu' = [thread |-> t, at |-> reached'[t]]
  BY <1>1, <1>4 DEF Proceed
<1>6. cpu' \in Context
  BY <1>3, <1>4, <1>5 DEF Context
<1> QED
  BY <1>3, <1>4, <1>5, <1>6 DEF Inv, TypeOK

(* What a step of a thread leaves alone of the interrupt path. *)
ThreadStep(t) ==
    \/ Work(t) \/ SetInterrupts(t) \/ SaveFlags(t) \/ Create(t)

(* While a thread executes, the state of the interrupt path stays as it    *)
(* was and the thread goes on from where it is.                            *)
LEMMA ThreadStepFrame ==
    ASSUME NEW t \in Threads, ThreadStep(t)
    PROVE  /\ Running(t) /\ Proceed(t)
           /\ UNCHANGED <<current_thread, tick_count, handler, new_rsp, ran, apic>>
  BY DEF ThreadStep, Create, Work, SetInterrupts, SaveFlags, DisableInterrupts, ReadId,
         InitThread, Chain, Link, RestoreFlags, At, Step, control, path

(* Link alone adds to the ring, and what it adds is new. *)
LEMMA Linking ==
    ASSUME Inv, [Next]_vars
    PROVE  /\ \A t \in Threads : Link(t) => Linked' = Linked \cup {child[t]}
           /\ (\A t \in Threads : ~Link(t)) => Linked' = Linked
<1>1. Atomic /\ Fresh /\ Prepared /\ TypeOK
  BY DEF Inv
<1>2. CASE UNCHANGED <<next, pc, child>>
  <2>1. Linked' = Linked
    BY <1>2 DEF Linked
  <2>2. \A t \in Threads : ~Link(t)
    BY <1>1, <1>2 DEF Link, At, Step, TypeOK
  <2> QED
    BY <2>1, <2>2
<1>3. ASSUME NEW t \in Threads, ThreadStep(t), ~UNCHANGED <<next, pc, child>>
      PROVE  IF Link(t) THEN Linked' = Linked \cup {child[t]} /\ \A u \in Threads \ {t} : ~Link(u)
                        ELSE Linked' = Linked /\ \A u \in Threads : ~Link(u)
  <2>1. t = current_thread /\ Running(t)
    BY <1>3, ThreadStepFrame, Executing
  <2>2. \A u \in Threads \ {t} : ~Link(u)
    BY <2>1 DEF Link, At, Running
  <2>3. \A u \in Threads \ {t} : pc[u] # "link" \/ pc[t] \notin {"count", "init", "chain", "link"}
    BY <1>1, <2>1 DEF Atomic
  <2>4. CASE SaveFlags(t) \/ DisableInterrupts(t) \/ RestoreFlags(t) \/ ReadId(t) \/ InitThread(t)
    <3>1. UNCHANGED next /\ ~Link(t)
      BY <1>1, <2>4 DEF SaveFlags, DisableInterrupts, RestoreFlags, ReadId, InitThread, Link, At,
                        Step, ring, TypeOK
    <3>2. \A u \in Threads : /\ pc'[u] = "link" <=> pc[u] = "link"
                             /\ pc[u] = "link" => child'[u] = child[u]
      BY <1>1, <2>4 DEF SaveFlags, DisableInterrupts, RestoreFlags, ReadId, InitThread, At,
                        Step, TypeOK
    <3> QED
      BY <2>2, <3>1, <3>2 DEF Linked
  <2>5. CASE Chain(t)
    <3>1. /\ DOMAIN next' = DOMAIN next \cup {child[t]} /\ child' = child /\ ~Link(t)
          /\ pc[t] = "chain" /\ pc'[t] = "link" /\ \A u \in Threads \ {t} : pc'[u] = pc[u]
      BY <1>1, <2>5 DEF Chain, Link, At, Step, Store, TypeOK
    <3>2. \A u \in Threads : pc[u] # "link"
      BY <2>3, <3>1
    <3>3. child[t] \notin Linked
      BY <1>1, <3>1 DEF Fresh
    <3> QED
      BY <2>2, <3>1, <3>2, <3>3 DEF Linked
  <2>6. CASE Link(t)
    <3>1. /\ current_thread \in DOMAIN next
          /\ DOMAIN next' = DOMAIN next \cup {current_thread} /\ child' = child
          /\ pc[t] = "link" /\ pc'[t] = "popf" /\ \A u \in Threads \ {t} : pc'[u] = pc[u]
      BY <1>1, <2>6 DEF Link, At, Step, Store, TypeOK, Linked
    <3>2. \A u \in Threads : pc'[u] # "link"
      BY <2>3, <3>1
    <3>3. child[t] \in DOMAIN next
      BY <1>1, <3>1 DEF Prepared
    <3>4. Linked' = DOMAIN next /\ Linked = DOMAIN next \ {child[t]}
      BY <2>3, <3>1, <3>2 DEF Linked
    <3> QED
      BY <2>2, <2>6, <3>3, <3>4
  <2>7. CASE Work(t) \/ SetInterrupts(t)
    BY <1>3, <2>7 DEF Work, SetInterrupts, ring, creating
  <2> QED
    BY <1>3, <2>4, <2>5, <2>6, <2>7 DEF ThreadStep, Create
<1>4. CASE (\E v \in Vectors : Raise(v) \/ Deliver(v)) \/ Irq \/ UNCHANGED vars
  <2>1. UNCHANGED <<next, pc, child>>
    BY <1>4 DEF Raise, Deliver, Irq, StayAlone, Stay, Switch, SendEoi, Resume, vars, ring, creating
  <2> QED
    BY <1>2, <2>1
<1> QED
  BY <1>2, <1>3, <1>4 DEF Next, ThreadStep

(* The same for a thread that executes. *)
LEMMA StepLinks ==
    ASSUME Inv, NEW t \in Threads, ThreadStep(t)
    PROVE  Linked' = IF Link(t) THEN Linked \cup {child[t]} ELSE Linked
<1>1. \A u \in Threads \ {t} : ~Link(u)
  BY ThreadStepFrame DEF Link, At, Running
<1>2. [Next]_vars
  BY DEF Next, ThreadStep
<1> QED
  BY <1>1, <1>2, Linking

-----------------------------------------------------------------------------
(* Types *)

(* The steps of a thread keep the types. *)
LEMMA ThreadTyping ==
    ASSUME Inv, NEW t \in Threads, ThreadStep(t)
    PROVE  TypeOK' /\ reached' \in [Threads -> Nat]
<1>1. /\ Running(t) /\ Proceed(t)
      /\ UNCHANGED <<current_thread, tick_count, handler, new_rsp, ran, apic>>
  BY ThreadStepFrame
<1>2. /\ cpu' \in Context
      /\ reached' \in [Threads -> Nat]
      /\ \A u \in Threads : reached'[u] \in 0 .. Points[u] - 1
  BY <1>1, Proceeding
<1>3. TypeOK /\ Prepared /\ t = current_thread
  BY <1>1, Executing DEF Inv
<1>4. Linked' = IF Link(t) THEN Linked \cup {child[t]} ELSE Linked
  BY StepLinks
<1>5. CASE Work(t) \/ SetInterrupts(t)
  BY <1>1, <1>2, <1>3, <1>4, <1>5 DEF Work, SetInterrupts, Link, At, TypeOK, ring, control, apic,
                                      path, creating
<1>6. CASE SaveFlags(t) \/ DisableInterrupts(t)
  <2>1. rflags' \in [Threads -> BOOLEAN] /\ pc' \in [Threads -> Pc] /\ ~Link(t)
    BY <1>3, <1>6, SMTT(30) DEF SaveFlags, DisableInterrupts, Link, At, Step, TypeOK, Pc
  <2> QED
    BY <1>1, <1>2, <1>3, <1>4, <1>6, <2>1 DEF SaveFlags, DisableInterrupts, TypeOK, ring, control,
                                              apic, path
<1>7. CASE ReadId(t)
  <2>1. pc' \in [Threads -> Pc] /\ n' \in [Threads -> Nat] /\ child' \in [Threads -> Threads]
        /\ ~Link(t)
    BY <1>3, <1>7 DEF ReadId, Link, At, Step, TypeOK, Pc
  <2> QED
    BY <1>1, <1>2, <1>3, <1>4, <1>7, <2>1 DEF ReadId, TypeOK, ring, control, apic, path
<1>8. CASE InitThread(t)
  <2>1. child[t] \in Threads /\ n[t] \in Nat /\ [thread |-> child[t], at |-> 0] \in Context
    BY <1>3, SchedAssumption DEF Context, TypeOK
  <2>2. /\ id' \in [DOMAIN id' -> Nat] /\ DOMAIN id' = DOMAIN id \cup {child[t]}
        /\ rsp' \in [DOMAIN id' -> Threads]
    BY <1>3, <1>8, <2>1 DEF InitThread, Store, TypeOK
  <2>3. pc' \in [Threads -> Pc] /\ frame' \in [Threads -> Context] /\ next_thread_id' \in Nat
        /\ ~Link(t)
    BY <1>3, <1>8, <2>1 DEF InitThread, Link, At, Step, TypeOK, Pc
  <2> QED
    BY <1>1, <1>2, <1>3, <1>4, <1>8, <2>1, <2>2, <2>3 DEF InitThread, TypeOK, apic
<1>9. CASE Chain(t)
  <2>1. child[t] \in DOMAIN id /\ current_thread \in Linked
        /\ current_thread \in DOMAIN next /\ next[current_thread] \in Linked
    BY <1>3, <1>9 DEF Chain, At, Prepared, TypeOK, Linked
  <2>2. next' \in [DOMAIN next' -> Linked] /\ DOMAIN next' = DOMAIN next \cup {child[t]}
    BY <1>3, <1>9, <2>1 DEF Chain, Store, TypeOK
  <2>3. pc' \in [Threads -> Pc] /\ ~Link(t)
    BY <1>3, <1>9 DEF Chain, Link, At, Step, TypeOK, Pc
  <2> QED
    BY <1>1, <1>2, <1>3, <1>4, <1>9, <2>1, <2>2, <2>3 DEF Chain, TypeOK, control, apic, path
<1>10. CASE Link(t)
  <2>1. child[t] \in Threads /\ current_thread \in Linked /\ current_thread \in DOMAIN next
    BY <1>3 DEF TypeOK, Linked
  <2>2. next' \in [DOMAIN next' -> Linked'] /\ DOMAIN next' = DOMAIN next
    BY <1>3, <1>4, <1>10, <2>1 DEF Link, Store, TypeOK
  <2>3. pc' \in [Threads -> Pc]
    BY <1>3, <1>10 DEF Link, Step, TypeOK, Pc
  <2> QED
    BY <1>1, <1>2, <1>3, <1>4, <1>10, <2>1, <2>2, <2>3 DEF Link, TypeOK, control, apic, path
<1>11. CASE RestoreFlags(t)
  <2>1. pc' \in [Threads -> Pc] /\ n' \in [Threads -> Nat] /\ child' \in [Threads -> Threads]
        /\ rflags' \in [Threads -> BOOLEAN] /\ intr' \in BOOLEAN /\ ~Link(t)
    BY <1>3, <1>11, SMTT(30) DEF RestoreFlags, Link, At, Step, TypeOK, Pc
  <2> QED
    BY <1>1, <1>2, <1>3, <1>4, <1>11, <2>1 DEF RestoreFlags, TypeOK, ring, control, apic, path
<1> QED
  BY <1>5, <1>6, <1>7, <1>8, <1>9, <1>10, <1>11 DEF ThreadStep, Create

(* So do the steps of the interrupt path. *)
LEMMA Typing ==
    ASSUME Inv, [Next]_vars
    PROVE  TypeOK' /\ reached' \in [Threads -> Nat]
<1>1. TypeOK /\ reached \in [Threads -> Nat]
  BY DEF Inv
<1>10. UNCHANGED <<next, pc, child>> => Linked' = Linked
  BY DEF Linked
<1>2. ASSUME NEW t \in Threads, ThreadStep(t) PROVE TypeOK' /\ reached' \in [Threads -> Nat]
  BY <1>2, ThreadTyping
<1>3. ASSUME NEW v \in Vectors, Raise(v) PROVE TypeOK' /\ reached' \in [Threads -> Nat]
  BY <1>1, <1>10, <1>3 DEF Raise, TypeOK, ring, control, path, creating
<1>4. ASSUME NEW v \in Vectors, Deliver(v) PROVE TypeOK' /\ reached' \in [Threads -> Nat]
  BY <1>1, <1>10, <1>4 DEF Deliver, TypeOK, ring, control, creating
<1>5. CASE StayAlone \/ SendEoi
  BY <1>1, <1>10, <1>5 DEF StayAlone, SendEoi, TypeOK, ring, control, apic, creating
<1>6. CASE Stay
  <2>1. tick_count \in Nat /\ SCHED_SLICE \in Nat \ {0}
    BY <1>1, SchedAssumption DEF TypeOK
  <2>2. (tick_count + 1) % SCHED_SLICE \in 0 .. SCHED_SLICE - 1
    BY <2>1
  <2> QED
    BY <1>1, <1>10, <1>6, <2>2 DEF Stay, TypeOK, ring, apic, creating
<1>7. CASE Switch
  <2>1. cpu.thread \in Threads
    BY <1>1 DEF TypeOK, Context
  <2>2. rsp' \in [DOMAIN id -> Threads] /\ current_thread' \in Linked
    BY <1>1, <1>7, <2>1 DEF Switch, SaveAndAdvance, TypeOK, Linked
  <2>3. new_rsp' \in Threads /\ 0 \in 0 .. SCHED_SLICE - 1
    BY <1>1, <1>7, <2>2, SchedAssumption DEF Switch, TypeOK, Linked, ring
  <2> QED
    BY <1>1, <1>10, <1>7, <2>2, <2>3 DEF Switch, TypeOK, ring, apic, creating
<1>8. CASE Resume
  <2>1. cpu.thread \in Threads
    BY <1>1 DEF TypeOK, Context
  <2>2. cpu' \in Context
    BY <1>1, <1>10, <1>8, <2>1 DEF Resume, TypeOK
  <2> QED
    BY <1>1, <1>10, <1>8, <2>2 DEF Resume, TypeOK, ring, control, apic, creating
<1>9. CASE UNCHANGED vars
  BY <1>1, <1>10, <1>9 DEF vars, TypeOK, ring, control, apic, path, creating
<1> QED
  BY <1>2, <1>3, <1>4, <1>5, <1>6, <1>7, <1>8, <1>9 DEF Next, Irq, ThreadStep

-----------------------------------------------------------------------------
(* Threads that create threads *)

(* Only the thread that executes can be in thread_create past its cli,     *)
(* since nothing is delivered before its popf.                             *)
LEMMA AtomicKept ==
    ASSUME Inv, [Next]_vars
    PROVE  Atomic'
<1>1. Atomic /\ TypeOK
  BY DEF Inv
<1>2. ASSUME NEW t \in Threads, ThreadStep(t) PROVE Atomic'
  <2>1. /\ t = current_thread /\ current_thread' = t
        /\ handler = NONE /\ handler' = NONE
    BY <1>2, ThreadStepFrame, Executing DEF Running
  <2>2. /\ pc[t] \in {"run", "cli"} => \A u \in Threads : pc[u] \notin {"count", "init", "chain", "link", "popf"}
        /\ pc[t] \notin {"run", "cli"} => ~intr
    BY <1>1, <2>1 DEF Atomic, TypeOK, Pc
  <2>3. \A u \in Threads \ {t} : pc'[u] = pc[u]
    BY <1>1, <1>2 DEF ThreadStep, Create, Work, SetInterrupts, SaveFlags, DisableInterrupts,
                      ReadId, InitThread, Chain, Link, RestoreFlags, Step, creating, TypeOK
  <2>4. pc'[t] \in {"count", "init", "chain", "link", "popf"} => ~intr'
    BY <1>1, <1>2, <2>2 DEF ThreadStep, Create, Work, SetInterrupts, SaveFlags,
          DisableInterrupts, ReadId, InitThread, Chain, Link, RestoreFlags, At, Step, creating, TypeOK
  <2> QED
    BY <1>1, <2>1, <2>3, <2>4 DEF Atomic
<1>3. CASE \E v \in Vectors : Raise(v) \/ Deliver(v)
  BY <1>1, <1>3 DEF Atomic, Raise, Deliver, control, path, creating
<1>4. CASE Irq
  BY <1>1, <1>4 DEF Atomic, Irq, StayAlone, Stay, Switch, SendEoi, Resume, control, path,
                    creating, NONE
<1>5. CASE UNCHANGED vars
  BY <1>1, <1>5 DEF Atomic, vars, control, path, creating
<1> QED
  BY <1>2, <1>3, <1>4, <1>5 DEF Next, ThreadStep

(* So an object that is not linked has not run, and its frame is the       *)
(* initial one.                                                            *)
LEMMA FreshKept ==
    ASSUME Inv, [Next]_vars
    PROVE  Fresh'
<1>1. Fresh /\ Atomic /\ TypeOK
  BY DEF Inv
<1>2. ASSUME NEW t \in Threads, ThreadStep(t) PROVE Fresh'
  <2>1. /\ t = current_thread /\ t \in Linked
        /\ \A u \in Threads \ {t} : reached'[u] = reached[u]
        /\ \A u \in Threads \ {t} : pc[u] \notin {"init", "chain", "link"}
             \/ pc[t] \notin {"count", "init", "chain", "link"}
    BY <1>1, <1>2, ThreadStepFrame, Executing, Proceeding DEF Atomic
  <2>2. Linked' = IF Link(t) THEN Linked \cup {child[t]} ELSE Linked
    BY <1>2, StepLinks
  <2>3. CASE Work(t) \/ SetInterrupts(t) \/ SaveFlags(t) \/ DisableInterrupts(t) \/ Chain(t)
             \/ RestoreFlags(t)
    <3>1. UNCHANGED frame
      BY <2>3 DEF Work, SetInterrupts, SaveFlags, DisableInterrupts, Chain, RestoreFlags, path
    <3>2. ~Link(t)
      BY <1>1, <2>3 DEF Work, SetInterrupts, SaveFlags, DisableInterrupts, Chain, RestoreFlags,
                        Link, At
    <3>3. \A u \in Threads : pc'[u] \in {"init", "chain", "link"} =>
             pc[u] \in {"init", "chain", "link"} /\ child'[u] = child[u]
      BY <1>1, <2>3 DEF Work, SetInterrupts, SaveFlags, DisableInterrupts, Chain, RestoreFlags,
                        At, Step, creating, TypeOK
    <3> QED
      BY <1>1, <2>1, <2>2, <3>1, <3>2, <3>3 DEF Fresh, Itself
  <2>4. CASE ReadId(t)
    <3>1. UNCHANGED frame /\ ~Link(t)
      BY <2>4 DEF ReadId, Link, At, path
    <3>2. child'[t] \notin Linked
      BY <1>1, <2>4 DEF ReadId, TypeOK
    <3>3. \A u \in Threads \ {t} : pc'[u] = pc[u] /\ child'[u] = child[u]
      BY <1>1, <2>4 DEF ReadId, Step, TypeOK
    <3> QED
      BY <1>1, <2>1, <2>2, <3>1, <3>2, <3>3 DEF Fresh, Itself
  <2>5. CASE InitThread(t)
    <3>1. child[t] \in Threads \ Linked /\ reached[child[t]] = 0
      BY <1>1, <2>5 DEF InitThread, At, Fresh, TypeOK
    <3>2. child' = child /\ ~Link(t)
      BY <2>5 DEF InitThread, Link, At
    <3>3. \A u \in Threads \ Linked : frame'[u] = [thread |-> u, at |-> reached[u]]
      BY <1>1, <2>5, <3>1 DEF InitThread, Fresh, Itself, TypeOK
    <3>4. \A u \in Threads : pc'[u] \in {"init", "chain", "link"} =>
             pc[u] \in {"init", "chain", "link"}
      BY <1>1, <2>5 DEF InitThread, At, Step, TypeOK
    <3> QED
      BY <1>1, <2>1, <2>2, <3>2, <3>3, <3>4 DEF Fresh, Itself
  <2>6. CASE Link(t)
    <3>1. UNCHANGED <<frame, child>>
      BY <2>6 DEF Link, path
    <3>2. \A u \in Threads : pc'[u] \notin {"init", "chain", "link"}
      BY <1>1, <2>1, <2>6 DEF Link, At, Step, TypeOK
    <3> QED
      BY <1>1, <2>1, <2>2, <2>6, <3>1, <3>2 DEF Fresh, Itself
  <2> QED
    BY <1>2, <2>3, <2>4, <2>5, <2>6 DEF ThreadStep, Create
<1>3. UNCHANGED <<next, pc, child>> => Linked' = Linked
  BY DEF Linked
<1>4. ASSUME NEW v \in Vectors, Raise(v) PROVE Fresh'
  BY <1>1, <1>3, <1>4 DEF Fresh, Raise, ring, path, creating, Itself
<1>5. ASSUME NEW v \in Vectors, Deliver(v) PROVE Fresh'
  <2>1. cpu.thread \in Linked
    BY <1>5 DEF Deliver, Inv, Frames, Itself, TypeOK
  <2>2. \A u \in Threads \ Linked : frame'[u] = frame[u]
    BY <1>1, <1>5, <2>1 DEF Deliver, TypeOK
  <2> QED
    BY <1>1, <1>3, <1>5, <2>2 DEF Fresh, Deliver, ring, creating, Itself
<1>6. CASE Irq
  BY <1>1, <1>3, <1>6 DEF Fresh, Irq, StayAlone, Stay, Switch, SendEoi, Resume, ring, path,
                          creating, Itself
<1>7. CASE UNCHANGED vars
  BY <1>1, <1>3, <1>7 DEF Fresh, vars, ring, path, creating, Itself
<1> QED
  BY <1>2, <1>4, <1>5, <1>6, <1>7 DEF Next, ThreadStep

(* What was stored in it stays there, as no tick comes before it is linked.*)
LEMMA PreparedKept ==
    ASSUME Inv, [Next]_vars
    PROVE  Prepared'
<1>1. Prepared /\ Atomic /\ Fresh /\ TypeOK
  BY DEF Inv
<1>2. ASSUME NEW t \in Threads, ThreadStep(t) PROVE Prepared'
  <2>1. t = current_thread /\ current_thread' = t
    BY <1>2, ThreadStepFrame, Executing
  <2>2. \A u \in Threads \ {t} : pc'[u] = pc[u] /\ child'[u] = child[u] /\ n'[u] = n[u]
    BY <1>1, <1>2 DEF ThreadStep, Create, Work, SetInterrupts, SaveFlags, DisableInterrupts,
                      ReadId, InitThread, Chain, Link, RestoreFlags, Step, creating, TypeOK
  <2>3. \A u \in Threads \ {t} : pc[u] \notin {"chain", "link"}
    BY <1>1, <2>1 DEF Atomic
  <2>4. CASE Chain(t)
    <3>1. /\ pc[t] = "chain" /\ UNCHANGED <<id, rsp, child, n>>
          /\ next' = Store(next, child[t], next[current_thread])
      BY <2>4 DEF Chain, At, control
    <3>2. current_thread \in Linked /\ current_thread \in DOMAIN next /\ child[t] # current_thread
      BY <1>1, <3>1 DEF Fresh, TypeOK, Linked
    <3>3. child[t] \in DOMAIN next' /\ next'[child[t]] = next'[current_thread]
      BY <3>1, <3>2 DEF Store
    <3> QED
      BY <1>1, <2>1, <2>2, <2>3, <3>1, <3>3 DEF Prepared
  <2>5. CASE InitThread(t)
    <3>1. /\ pc'[t] = "chain" /\ UNCHANGED <<child, n>>
          /\ id' = Store(id, child[t], n[t]) /\ rsp' = Store(rsp, child[t], child[t])
      BY <1>1, <2>5 DEF InitThread, Step, TypeOK
    <3>2. child[t] \in DOMAIN id' /\ id'[child[t]] = n[t] /\ rsp'[child[t]] = child[t]
      BY <3>1 DEF Store
    <3> QED
      BY <2>2, <2>3, <3>1, <3>2 DEF Prepared
  <2>6. CASE ~Chain(t) /\ ~InitThread(t)
    <3>1. pc'[t] \in {"chain", "link"} => /\ pc'[t] = pc[t]
                                         /\ UNCHANGED <<id, rsp, child, n, next>>
      BY <1>1, <1>2, <2>6 DEF ThreadStep, Create, Work, SetInterrupts, SaveFlags,
          DisableInterrupts, ReadId, Link, RestoreFlags, At, Step, creating, ring, control, TypeOK
    <3> QED
      BY <1>1, <2>1, <2>2, <2>3, <3>1 DEF Prepared
  <2> QED
    BY <2>4, <2>5, <2>6
<1>3. CASE (\E v \in Vectors : Raise(v) \/ Deliver(v)) \/ StayAlone \/ Stay \/ SendEoi \/ Resume
           \/ UNCHANGED vars
  BY <1>1, <1>3 DEF Prepared, Raise, Deliver, StayAlone, Stay, SendEoi, Resume, vars, ring,
                    control, creating
<1>4. CASE Switch
  <2>1. \A u \in Threads : pc[u] \notin {"chain", "link"}
    BY <1>1, <1>4 DEF Switch, Atomic, NONE
  <2> QED
    BY <1>4, <2>1 DEF Prepared, Switch, creating
<1> QED
  BY <1>2, <1>3, <1>4 DEF Next, Irq, ThreadStep

(* The two halves of next_thread_id++ have nobody in between. *)
LEMMA IdsKept ==
    ASSUME Inv, [Next]_vars
    PROVE  Ids'
<1>1. Ids /\ Atomic /\ Fresh /\ Prepared /\ TypeOK
  BY DEF Inv
<1>2. CASE UNCHANGED <<ring, pc, n, child>>
  BY <1>1, <1>2 DEF Ids, ring, Linked
<1>3. ASSUME NEW t \in Threads, ThreadStep(t) PROVE Ids'
  <2>1. t = current_thread
    BY <1>3, ThreadStepFrame, Executing
  <2>2. Linked' = IF Link(t) THEN Linked \cup {child[t]} ELSE Linked
    BY <1>3, StepLinks
  <2>3. CASE Work(t) \/ SetInterrupts(t)
    BY <1>2, <2>3 DEF Work, SetInterrupts, creating
  <2>4. CASE SaveFlags(t) \/ DisableInterrupts(t) \/ Chain(t) \/ RestoreFlags(t)
    <3>1. \A u \in Threads :
             /\ pc'[u] = "init" => pc[u] = "init" /\ n'[u] = n[u]
             /\ pc'[u] \in {"chain", "link"} => pc[u] \in {"chain", "link"} /\ n'[u] = n[u]
      BY <1>1, <2>4 DEF SaveFlags, DisableInterrupts, Chain, RestoreFlags, At, Step, TypeOK
    <3>2. UNCHANGED <<id, next_thread_id>> /\ ~Link(t)
      BY <2>4 DEF SaveFlags, DisableInterrupts, Chain, RestoreFlags, Link, At, ring
    <3> QED
      BY <1>1, <2>2, <3>1, <3>2 DEF Ids
  <2>5. CASE ReadId(t)
    <3>1. UNCHANGED <<id, next_thread_id>> /\ ~Link(t)
      BY <2>5 DEF ReadId, Link, At, ring
    <3>2. /\ pc'[t] = "init" /\ n'[t] = next_thread_id
          /\ \A u \in Threads \ {t} : pc'[u] = pc[u] /\ n'[u] = n[u]
      BY <1>1, <2>5 DEF ReadId, Step, TypeOK
    <3> QED
      BY <1>1, <2>2, <3>1, <3>2 DEF Ids
  <2>6. CASE InitThread(t)
    <3>1. /\ n' = n /\ ~Link(t) /\ child[t] \notin Linked
          /\ next_thread_id' = next_thread_id + 1 /\ n[t] = next_thread_id
          /\ next_thread_id \in Nat /\ Linked \subseteq DOMAIN id /\ id \in [DOMAIN id -> Nat]
      BY <1>1, <2>6 DEF InitThread, Link, At, Ids, Fresh, Linked, TypeOK
    <3>2. /\ pc'[t] = "chain"
          /\ \A u \in Threads \ {t} : pc'[u] = pc[u] /\ pc[u] \notin {"init", "chain", "link"}
      BY <1>1, <2>1, <2>6 DEF InitThread, At, Step, TypeOK, Atomic
    <3>3. \A u \in Linked : id'[u] = id[u] /\ id[u] \in Nat
      BY <2>6, <3>1 DEF InitThread, Store
    <3> QED
      BY <1>1, <2>2, <3>1, <3>2, <3>3 DEF Ids
  <2>7. CASE Link(t)
    <3>1. pc[t] = "link" /\ UNCHANGED <<id, next_thread_id>> /\ id[child[t]] = n[t]
      BY <1>1, <2>7 DEF Link, At, Prepared
    <3>2. \A u \in Threads : pc'[u] \notin {"init", "chain", "link"}
      BY <1>1, <2>1, <2>7 DEF Link, At, Step, TypeOK, Atomic
    <3>3. /\ n[t] \in Nat /\ n[t] < next_thread_id /\ Linked \subseteq DOMAIN id
          /\ \A u \in Linked : id[u] < n[t] /\ id[u] \in Nat
      BY <1>1, <3>1 DEF Ids, Linked, TypeOK
    <3> QED
      BY <1>1, <2>2, <2>7, <3>1, <3>2, <3>3 DEF Ids
  <2> QED
    BY <1>3, <2>3, <2>4, <2>5, <2>6, <2>7 DEF ThreadStep, Create
<1>4. CASE \E v \in Vectors : Raise(v) \/ Deliver(v)
  BY <1>2, <1>4 DEF Raise, Deliver, creating
<1>5. CASE Irq
  BY <1>2, <1>5 DEF Irq, StayAlone, Stay, Switch, SendEoi, Resume, creating
<1>6. CASE UNCHANGED vars
  BY <1>2, <1>6 DEF vars, creating
<1> QED
  BY <1>3, <1>4, <1>5, <1>6 DEF Next, ThreadStep

-----------------------------------------------------------------------------
(* The ring *)

(* Inserting an object after any thread of a whole ring leaves it whole: a *)
(* set that is closed under the new next is, without the object, closed    *)
(* under the old one, and therefore contains the thread before it.         *)
LEMMA Insertion ==
    ASSUME Whole, \A t \in Linked : next[t] \in Linked,
           NEW new, new \notin Linked, NEW after \in Linked,
           Linked' = Linked \cup {new},
           next'[new] = next[after], next'[after] = new,
           \A t \in Linked \ {after} : next'[t] = next[t]
    PROVE  Whole'
<1> SUFFICES ASSUME NEW S \in SUBSET Linked', S # {}, \A t \in S : next'[t] \in S
             PROVE  S = Linked'
  BY DEF Whole
<1> DEFINE T == S \ {new}
<1>1. T \in SUBSET Linked
  OBVIOUS
<1>2. T # {}
  OBVIOUS
<1>3. \A t \in T : next[t] \in T
  <2> SUFFICES ASSUME NEW t \in T PROVE next[t] \in T
    OBVIOUS
  <2>1. next[t] \in Linked
    BY <1>1
  <2>2. CASE t = after
    BY <2>1, <2>2
  <2>3. CASE t # after
    BY <1>1, <2>1, <2>3
  <2> QED
    BY <2>2, <2>3
<1>4. T = Linked
  BY <1>1, <1>2, <1>3 DEF Whole
<1>5. new \in S
  BY <1>4
<1> QED
  BY <1>4, <1>5

(* Only Link touches the ring, with an object that is not in it yet and    *)
(* leads to where the thread before it has led.                            *)
LEMMA WholeKept ==
    ASSUME Inv, [Next]_vars
    PROVE  Whole'
<1>1. Whole /\ Fresh /\ Prepared /\ TypeOK
  BY DEF Inv
<1>2. ASSUME NEW t \in Threads, Link(t) PROVE Whole'
  <2>1. /\ pc[t] = "link" /\ child[t] \notin Linked /\ child[t] \in DOMAIN next
        /\ next' = Store(next, current_thread, child[t])
        /\ next[child[t]] = next[current_thread]
    BY <1>1, <1>2 DEF Link, At, Fresh, Prepared
  <2>2. current_thread \in Linked /\ Linked \subseteq DOMAIN next
        /\ \A u \in Linked : next[u] \in Linked
    BY <1>1 DEF TypeOK, Linked
  <2>3. Linked' = Linked \cup {child[t]}
    BY <1>2, StepLinks DEF ThreadStep, Create
  <2>4. \A u \in DOMAIN next : next'[u] = IF u = current_thread THEN child[t] ELSE next[u]
    BY <2>1, <2>2 DEF Store
  <2> QED
    BY <1>1, <2>1, <2>2, <2>3, <2>4, Insertion
<1>3. ASSUME NEW t \in Threads, ThreadStep(t), ~Link(t) PROVE Whole'
  <2>1. Linked' = Linked
    BY <1>3, StepLinks
  <2>2. \A u \in Linked : next'[u] = next[u]
    <3>1. CASE Chain(t)
      <4>1. child[t] \notin Linked /\ Linked \subseteq DOMAIN next
        BY <1>1, <3>1 DEF Chain, At, Fresh, Linked
      <4> QED
        BY <3>1, <4>1 DEF Chain, Store
    <3>2. CASE ~Chain(t)
      BY <1>3, <3>2 DEF ThreadStep, Create, Work, SetInterrupts, SaveFlags, DisableInterrupts,
                        ReadId, InitThread, RestoreFlags, ring
    <3> QED
      BY <3>1, <3>2
  <2> QED
    BY <1>1, <2>1, <2>2 DEF Whole
<1>4. CASE (\E v \in Vectors : Raise(v) \/ Deliver(v)) \/ Irq \/ UNCHANGED vars
  <2>1. UNCHANGED <<next, pc, child>>
    BY <1>4 DEF Raise, Deliver, Irq, StayAlone, Stay, Switch, SendEoi, Resume, vars, ring, creating
  <2> QED
    BY <1>1, <2>1 DEF Whole, Linked
<1> QED
  BY <1>2, <1>3, <1>4 DEF Next, ThreadStep

-----------------------------------------------------------------------------
(* What a switch resumes *)

(* The steps of a thread: it is the one thread that is not saved, and the  *)
(* object it links has its initial frame and its own stack pointer.        *)
LEMMA ThreadFrames ==
    ASSUME Inv, NEW t \in Threads, ThreadStep(t)
    PROVE  Frames'
<1>1. Frames /\ Fresh /\ Prepared /\ TypeOK /\ Linked \subseteq DOMAIN id
  BY DEF Inv, TypeOK, Linked
<1>2. /\ t = current_thread /\ current_thread' = current_thread
      /\ handler = NONE /\ handler' = NONE /\ new_rsp = NONE /\ new_rsp' = NONE
      /\ cpu' = [thread |-> t, at |-> reached'[t]]
      /\ \A u \in Threads \ {t} : reached'[u] = reached[u]
  BY ThreadStepFrame, Executing, Proceeding DEF Running
<1>3. SUFFICES \A u \in Linked' \ {t} : rsp'[u] = u /\ frame'[u] = [thread |-> u, at |-> reached[u]]
  <2>1. Linked' \subseteq Threads /\ t \in Linked
    BY <1>1, <1>2, ThreadTyping DEF TypeOK
  <2> QED
    BY <1>2, <2>1 DEF Frames, Itself
<1>4. \A u \in Linked \ {t} : rsp[u] = u /\ frame[u] = [thread |-> u, at |-> reached[u]]
  BY <1>1, <1>2 DEF Frames, Itself
<1>5. Linked' = IF Link(t) THEN Linked \cup {child[t]} ELSE Linked
  BY StepLinks
<1>6. CASE InitThread(t)
  <2>1. child[t] \notin Linked /\ ~Link(t)
    BY <1>1, <1>6 DEF InitThread, Link, At, Fresh
  <2>2. \A u \in Linked : frame'[u] = frame[u]
    BY <1>1, <1>6, <2>1 DEF InitThread, TypeOK
  <2>3. \A u \in Linked : rsp'[u] = rsp[u]
    BY <1>1, <1>6, <2>1 DEF InitThread, Store, TypeOK
  <2> QED
    BY <1>4, <1>5, <2>1, <2>2, <2>3
<1>7. CASE Link(t)
  <2>1. UNCHANGED <<frame, rsp>> /\ rsp[child[t]] = child[t]
    BY <1>1, <1>7 DEF Link, At, Prepared, path, control
  <2>2. child[t] \in Threads \ Linked
    BY <1>1, <1>7 DEF Link, At, Fresh, TypeOK
  <2>3. frame[child[t]] = [thread |-> child[t], at |-> reached[child[t]]]
    BY <1>1, <2>2 DEF Fresh, Itself
  <2> QED
    BY <1>4, <1>5, <1>7, <2>1, <2>3
<1>8. CASE ~InitThread(t) /\ ~Link(t)
  <2>1. UNCHANGED <<rsp, frame>>
    BY <1>8 DEF ThreadStep, Create, Work, SetInterrupts, SaveFlags, DisableInterrupts, ReadId,
                Chain, RestoreFlags, control, path
  <2> QED
    BY <1>4, <1>5, <1>8, <2>1
<1> QED
  BY <1>6, <1>7, <1>8

(* The steps of the interrupt path: delivery saves the thread that         *)
(* executes, a switch saves its stack pointer and takes another thread     *)
(* that is saved, and iretq resumes that one.                              *)
LEMMA FramesKept ==
    ASSUME Inv, [Next]_vars
    PROVE  Frames'
<1>1. Frames /\ TypeOK /\ Linked \subseteq DOMAIN next /\ Linked \subseteq DOMAIN id
  BY DEF Inv, TypeOK, Linked
<1>8. UNCHANGED <<next, pc, child>> => Linked' = Linked
  BY DEF Linked
<1>2. ASSUME NEW v \in Vectors, Raise(v) PROVE Frames'
  BY <1>1, <1>2, <1>8 DEF Frames, Raise, ring, control, path, creating, Itself
<1>3. ASSUME NEW v \in Vectors, Deliver(v) PROVE Frames'
  <2>1. /\ handler = NONE /\ handler' # NONE
        /\ UNCHANGED <<next, pc, child, rsp, current_thread, cpu, reached, new_rsp>>
        /\ cpu = Itself(current_thread) /\ cpu.thread = current_thread /\ new_rsp = NONE
    BY <1>1, <1>3 DEF Deliver, Frames, ring, control, creating, NONE, Itself
  <2>2. /\ frame'[current_thread] = Itself(current_thread)
        /\ \A u \in Linked \ {current_thread} : frame'[u] = frame[u]
    BY <1>1, <1>3, <2>1 DEF Deliver, TypeOK
  <2> QED
    BY <1>1, <1>8, <2>1, <2>2 DEF Frames, Itself
<1>4. CASE StayAlone \/ Stay \/ SendEoi
  BY <1>1, <1>4, <1>8 DEF Frames, StayAlone, Stay, SendEoi, ring, control, creating, Itself, NONE
<1>5. CASE Switch
  <2>1. /\ handler = "tick" /\ handler' = "eoi"
        /\ UNCHANGED <<next, pc, child, frame, cpu, reached>>
        /\ current_thread' = next[current_thread]
        /\ rsp' = [rsp EXCEPT ![current_thread] = cpu.thread]
        /\ new_rsp' = rsp'[current_thread']
    BY <1>5 DEF Switch, SaveAndAdvance, ring, creating
  <2>2. cpu.thread = current_thread
    BY <1>1, <2>1 DEF Frames, Itself
  <2>3. \A u \in Linked : rsp'[u] = u /\ frame'[u] = Itself(u)
    BY <1>1, <2>1, <2>2 DEF Frames, TypeOK, NONE
  <2>4. current_thread' \in Linked /\ current_thread' # NONE
    BY <1>1, <2>1, SchedAssumption DEF TypeOK
  <2> QED
    BY <1>8, <2>1, <2>3, <2>4 DEF Frames, Itself, NONE
<1>6. CASE Resume
  <2>1. /\ handler = "iret" /\ handler' = NONE /\ new_rsp' = NONE
        /\ UNCHANGED <<next, pc, child, rsp, current_thread, frame, reached>>
        /\ cpu' = frame[IF new_rsp = NONE THEN cpu.thread ELSE new_rsp]
    BY <1>6 DEF Resume, ring, control, creating
  <2>2. (IF new_rsp = NONE THEN cpu.thread ELSE new_rsp) = current_thread
    BY <1>1 DEF Frames, Itself
  <2>3. cpu' = Itself(current_thread)
    BY <1>1, <2>1, <2>2 DEF Frames, TypeOK, NONE
  <2> QED
    BY <1>1, <1>8, <2>1, <2>3 DEF Frames, Itself, NONE
<1>7. CASE UNCHANGED vars
  BY <1>1, <1>7, <1>8 DEF Frames, vars, ring, control, path, creating, Itself
<1> QED
  BY ThreadFrames, <1>2, <1>3, <1>4, <1>5, <1>6, <1>7 DEF Next, Irq, ThreadStep

-----------------------------------------------------------------------------
(* How long a slice is *)

(* Counting modulo SCHED_SLICE. *)
LEMMA Wrap ==
    ASSUME NEW k \in 0 .. SCHED_SLICE - 1
    PROVE  (k + 1) % SCHED_SLICE = IF k + 1 = SCHED_SLICE THEN 0 ELSE k + 1
  BY SchedAssumption

(* A tick that does not end a slice counts in tick_count, and alone no     *)
(* tick does.                                                              *)
LEMMA SlicesKept ==
    ASSUME Inv, [Next]_vars
    PROVE  Slices'
<1>1. Slices /\ TypeOK
  BY DEF Inv
<1>2. ASSUME NEW t \in Threads, ThreadStep(t) PROVE Slices'
  BY <1>1, <1>2, ThreadStepFrame DEF Slices
<1>3. CASE Stay
  <2>1. tick_count' = tick_count + 1
    BY <1>1, <1>3, Wrap DEF Stay, SliceOver, TypeOK
  <2> QED
    BY <1>1, <1>3, <2>1 DEF Slices, Stay
<1>4. CASE Switch
  BY <1>4 DEF Slices, Switch
<1>5. CASE (\E v \in Vectors : Raise(v) \/ Deliver(v)) \/ StayAlone \/ SendEoi \/ Resume
           \/ UNCHANGED vars
  BY <1>1, <1>5 DEF Slices, Raise, Deliver, StayAlone, SendEoi, Resume, vars, control
<1> QED
  BY <1>2, <1>3, <1>4, <1>5 DEF Next, Irq, ThreadStep

-----------------------------------------------------------------------------
(* The properties *)

(* sched_init makes a ring of one thread that executes. *)
LEMMA Initially == Init => Inv
<1> SUFFICES ASSUME Init PROVE Inv
  OBVIOUS
<1>1. Linked = {Main} /\ Main \in Threads
  BY SchedAssumption DEF Init, Linked
<1>2. [thread |-> Main, at |-> 0] \in Context
      /\ [t \in Threads |-> [thread |-> t, at |-> 0]] \in [Threads -> Context]
  BY SchedAssumption DEF Context
<1>3. TypeOK
  <2>1. 0 \in 0 .. SCHED_SLICE - 1 /\ \A t \in Threads : 0 \in 0 .. Points[t] - 1
    BY SchedAssumption
  <2> QED
    BY <1>1, <1>2, <2>1 DEF Init, TypeOK, Pc, NONE
<1>4. Atomic /\ Fresh /\ Prepared /\ Ids
  BY <1>1 DEF Init, Atomic, Fresh, Prepared, Ids, Itself
<1>5. Whole
  BY <1>1 DEF Whole
<1>6. Frames /\ Slices
  BY <1>1 DEF Init, Frames, Slices, Itself
<1> QED
  BY <1>3, <1>4, <1>5, <1>6 DEF Inv, Init

(* Every step keeps the inductive invariant. *)
LEMMA Invariance == Inv /\ [Next]_vars => Inv'
  BY Typing, AtomicKept, FreshKept, PreparedKept, IdsKept, WholeKept, FramesKept, SlicesKept DEF Inv

(* For any number of threads: however their thread_create calls and the    *)
(* interrupts interleave, the ring that sched_tick walks has no branch and *)
(* no inner loop, and no two threads get the same id.                      *)
THEOREM RingWhole == Spec => []RingIsWhole
<1>1. Inv => RingIsWhole
  BY DEF Inv, Ids, Whole, RingIsWhole
<1> QED
  BY <1>1, Initially, Invariance, PTL DEF Spec

(* For any number of threads and slices: what irq_common_stub pops is the  *)
(* frame of the thread that is now current_thread, at the point where it   *)
(* was last interrupted or, the first time, at its entry point.            *)
THEOREM Resumption == Spec => []ResumesWhereItLeft
<1>1. Inv => ResumesWhereItLeft
  BY DEF Inv, Frames, ResumesWhereItLeft, Itself
<1> QED
  BY <1>1, Initially, Invariance, PTL DEF Spec

(* For every SCHED_SLICE: from when there is a second thread, a switch     *)
(* comes exactly that many ticks after the one before.                     *)
THEOREM FullSlices == Spec => SlicesAreFull
<1>1. ASSUME Inv, [Next]_vars
      PROVE  [current_thread' # current_thread => ran + 1 = SCHED_SLICE]_vars
  <2>1. CASE Switch
    BY <1>1, <2>1, Wrap DEF Inv, Slices, TypeOK, Switch, SliceOver
  <2>2. CASE ~Switch
    <3>1. UNCHANGED current_thread \/ UNCHANGED vars
      BY <1>1, <2>2, ThreadStepFrame DEF Next, ThreadStep, Raise, Deliver, Irq, StayAlone, Stay,
                                         SendEoi, Resume, control
    <3> QED
      BY <3>1
  <2> QED
    BY <2>1, <2>2
<1> QED
  BY <1>1, Initially, Invariance, PTL DEF Spec, SlicesAreFull
-----------------------------------------------------------------------------
(* The stack of one thread, module ThreadStack *)

(* How a thread's rsp follows from its calls, and what the frame of one    *)
(* that does not run holds.                                                *)
StackTypeOK ==
    /\ base \in {1, 2}
    /\ mem = [a \in Memory |-> mem[a]]
    /\ state \in {"none", "ready", "running", "handling", "stopped", "returned"}
    /\ saved \in Int /\ current_rsp \in Int
    /\ depth \in 0 .. MaxDepth

Registered(rs) ==
    /\ rs = [r \in Registers |-> rs[r]]
    /\ rs["rsp"] = Addr(stack_top - depth)

\* A frame at this word that holds the registers the thread was interrupted with.
Holds(at) ==
    \A k \in 1 .. Words :
        Pushes[Words + 1 - k] \in Registers =>
            mem[at + k - 1] = last[Pushes[Words + 1 - k]]

StackInv ==
    /\ StackTypeOK
    /\ StaysInside
    /\ state = "running" => Registered(regs)
    /\ state = "ready" =>
          /\ depth = 0
          /\ \A k \in 1 .. Words : mem[saved + k - 1] = InitialFrame(trapframe[k])
    /\ state = "handling" => Registered(last) /\ Holds(current_rsp)
    /\ state = "stopped" => Registered(last) /\ Holds(saved)
    /\ state = "none" => depth = 0

-----------------------------------------------------------------------------
(* A frame is as long as what is pushed and what is popped. *)
LEMMA Length == Words = 22 /\ Len(Pops) = 22 /\ Len(Pushes) = 22
  BY DEF Words, trapframe, Pops, Pushes

(* A stack has room for the calls, a frame, its alignment and a handler. *)
LEMMA Room ==
    StackTypeOK => /\ STACK_WORDS \in Nat /\ MaxDepth \in Nat /\ HandlerWords \in Nat
                   /\ MaxDepth + 24 + HandlerWords <= STACK_WORDS
  BY Length, StackAssumption DEF StackTypeOK

(* The registers of iretq's part of a frame. *)
LEMMA Special == {"rip", "cs", "rflags", "rsp", "ss"} \subseteq Registers
  BY DEF Registers

(* The pops take the words where trapframe_t has them and the pushes left  *)
(* them.                                                                   *)
LEMMA Mirror ==
    ASSUME NEW k \in 1 .. 22, Pops[k] # "skip"
    PROVE  trapframe[k] = Pops[k] /\ Pushes[23 - k] = Pops[k]
<1>1. CASE k \in 1 .. 7
  BY <1>1 DEF trapframe, Pops, Pushes
<1>2. CASE k \in 8 .. 15
  BY <1>2 DEF trapframe, Pops, Pushes
<1>3. CASE k \in 16 .. 22
  BY <1>3 DEF trapframe, Pops, Pushes
<1> QED
  BY <1>1, <1>2, <1>3

(* Every register is popped. *)
LEMMA Popped ==
    ASSUME NEW r \in Registers
    PROVE  \E k \in 1 .. 22 : Pops[k] = r /\ r # "skip"
<1>1. CASE r \in General
  <2>1. PICK k \in 1 .. 15 : trapframe[k] = r
    BY <1>1 DEF General
  <2>2. Pops[k] = trapframe[k] /\ Pops[k] # "skip"
    BY <2>1 DEF trapframe, Pops
  <2> QED
    BY <2>1, <2>2
<1>2. CASE r \in {"rip", "cs", "rflags", "rsp", "ss"}
  <2>1. /\ Pops[18] = "rip" /\ Pops[19] = "cs" /\ Pops[20] = "rflags"
        /\ Pops[21] = "rsp" /\ Pops[22] = "ss"
    BY DEF Pops
  <2> QED
    BY <1>2, <2>1
<1> QED
  BY <1>1, <1>2 DEF Registers

(* The word that a register is loaded from is the register's own. *)
LEMMA Loaded ==
    ASSUME NEW r \in Registers
    PROVE  LET k == CHOOSE j \in 1 .. Words : Pops[j] = r
           IN  k \in 1 .. Words /\ trapframe[k] = r /\ Pushes[Words + 1 - k] = r
<1>1. PICK i \in 1 .. Words : Pops[i] = r /\ r # "skip"
  BY Popped, Length
<1>2. (CHOOSE j \in 1 .. Words : Pops[j] = r) \in 1 .. Words
      /\ Pops[CHOOSE j \in 1 .. Words : Pops[j] = r] = r
  BY <1>1
<1> DEFINE k == CHOOSE j \in 1 .. Words : Pops[j] = r
<1>3. k \in 1 .. 22 /\ Pops[k] = r /\ r # "skip"
  BY <1>1, <1>2, Length
<1> HIDE DEF k
<1>4. trapframe[k] = r /\ Pushes[23 - k] = r
  BY <1>3, Mirror
<1>5. k \in 1 .. Words /\ trapframe[k] = r /\ Pushes[Words + 1 - k] = r
  BY <1>3, <1>4, Length
<1> QED
  BY <1>5 DEF k

-----------------------------------------------------------------------------
(* Aligning a stack pointer skips a word or none. *)
LEMMA Aligned == \A a \in Int : Align(a) \in {a - 1, a}
  BY DEF Align

(* A frame that is pushed at an aligned address is aligned itself. *)
LEMMA FrameAligned == \A a \in Int : Align(Align(a) - 22) = Align(a) - 22
  BY DEF Align

(* Where rsp is, while the thread runs. *)
LEMMA Position ==
    ASSUME StackTypeOK, Registered(regs)
    PROVE  Rsp = stack_top - depth /\ Top \in {Rsp - 1, Rsp} /\ Rsp \in Int
<1>1. Rsp = stack_top - depth /\ Rsp \in Int
  <2>1. Rsp = stack_top - depth
    BY DEF Registered, Rsp, Addr
  <2>2. base \in Int /\ depth \in Int /\ STACK_WORDS \in Int
    BY Room DEF StackTypeOK
  <2> QED
    BY <2>1, <2>2 DEF stack_top
<1> QED
  BY <1>1, Aligned DEF Top, Rsp

(* What a write to memory leaves there. *)
LEMMA Written ==
    ASSUME StackTypeOK, NEW w, Write(w)
    PROVE  /\ mem' = [a \in Memory |-> mem'[a]]
           /\ \A a \in Memory : mem'[a] = IF a \in DOMAIN w THEN w[a] ELSE mem[a]
           /\ written' = written \cup DOMAIN w
  BY DEF Write

(* thread_create: the frame it invents is inside of the stack. *)
LEMMA CreateKept == StackInv /\ BuildFrame => StackInv'
<1> SUFFICES ASSUME StackInv, BuildFrame PROVE StackInv'
  OBVIOUS
<1> DEFINE w == [a \in tf_addr .. tf_addr + Words - 1 \cup {stack_ptr} |->
                IF a = stack_ptr THEN Code("thread_exit")
                ELSE InitialFrame(trapframe[a - tf_addr + 1])]
<1>1. tf_addr \in {stack_ptr - 23, stack_ptr - 22} /\ stack_ptr = base + STACK_WORDS - 1
      /\ stack_ptr \in Int /\ tf_addr \in Int
  BY Aligned, Length, Room DEF StackInv, StackTypeOK, stack_ptr, stack_top, tf_addr
<1>2. DOMAIN w \subseteq base .. stack_top - 1 /\ DOMAIN w \subseteq Memory
  <2>1. /\ base >= 1 /\ base \in Int /\ base + STACK_WORDS <= STACK_WORDS + 2
        /\ STACK_WORDS \in Int /\ tf_addr >= base /\ tf_addr + 22 <= base + STACK_WORDS
    BY <1>1, Room DEF StackInv, StackTypeOK
  <2>2. DOMAIN w = tf_addr .. tf_addr + 21 \cup {stack_ptr}
    BY Length
  <2> HIDE DEF w
  <2> QED
    BY <1>1, <2>1, <2>2 DEF stack_top, Memory
<1>3. StackTypeOK' /\ written' = written \cup DOMAIN w /\ saved' = tf_addr /\ depth = 0
      /\ state' = "ready" /\ depth' = depth /\ base' = base
  BY <1>1, Written DEF StackInv, StackTypeOK, BuildFrame, Write, Memory
<1>4. \A k \in 1 .. Words : mem'[tf_addr + k - 1] = InitialFrame(trapframe[k])
  <2> SUFFICES ASSUME NEW k \in 1 .. Words
               PROVE  mem'[tf_addr + k - 1] = InitialFrame(trapframe[k])
    OBVIOUS
  <2> DEFINE a == tf_addr + k - 1
  <2>1. a \in tf_addr .. tf_addr + 21 /\ a # stack_ptr /\ a - tf_addr + 1 = k
    BY <1>1, Length
  <2> HIDE DEF a
  <2>2. a \in DOMAIN w /\ w[a] = InitialFrame(trapframe[a - tf_addr + 1])
    BY <2>1, Length
  <2>3. mem'[a] = w[a]
    BY <1>2, <2>2 DEF BuildFrame, Write
  <2>4. mem'[a] = InitialFrame(trapframe[k])
    BY <2>1, <2>2, <2>3
  <2> QED
    BY <2>4 DEF a
<1>5. StaysInside'
  BY <1>2, <1>3 DEF StackInv, StaysInside, stack_top
<1>6. \A k \in 1 .. Words : mem'[saved' + k - 1] = InitialFrame(trapframe[k])'
  BY <1>3, <1>4 DEF InitialFrame, stack_top
<1> HIDE DEF w
<1> QED
  BY <1>3, <1>5, <1>6 DEF StackInv

(* The interrupt path down to irq_handler: the frame is inside of the      *)
(* stack, and the handler leaves it alone.                                 *)
LEMMA InterruptKept == StackInv /\ Interrupt => StackInv'
<1> SUFFICES ASSUME StackInv, Interrupt PROVE StackInv'
  OBVIOUS
<1> DEFINE at == Top - 22
           call == at - 1
<1>1. /\ Rsp = stack_top - depth /\ Rsp \in Int /\ Top \in {Rsp - 1, Rsp}
      /\ StackTypeOK /\ Registered(regs)
  BY Position DEF StackInv, Interrupt
<1>2. current_rsp' = at /\ Align(at) = at /\ at \in Int
  BY <1>1, Length, FrameAligned DEF Interrupt, Top, Rsp
<1> DEFINE w(used) == [a \in call - used .. call \cup at .. Top - 1 |->
                          IF a <= call THEN Other ELSE Stacks(Pushes[Top - a])]
<1>3. PICK used \in 0 .. HandlerWords : Write(w(used))
  BY <1>2 DEF Interrupt
<1>4. DOMAIN w(used) \subseteq base .. stack_top - 1 /\ DOMAIN w(used) \subseteq Memory
  <2>1. /\ base >= 1 /\ base \in Int /\ base + STACK_WORDS <= STACK_WORDS + 2
        /\ STACK_WORDS \in Int /\ Top \in Int /\ Top <= base + STACK_WORDS
        /\ Top - 23 - HandlerWords >= base /\ HandlerWords \in Nat
    BY <1>1, Room DEF StackTypeOK, stack_top
  <2>2. DOMAIN w(used) = Top - 23 - used .. Top - 23 \cup Top - 22 .. Top - 1
    BY <2>1
  <2> HIDE DEF w
  <2> QED
    BY <2>1, <2>2 DEF stack_top, Memory
<1>5. StackTypeOK' /\ written' = written \cup DOMAIN w(used) /\ last' = regs
      /\ state' = "handling" /\ depth' = depth /\ base' = base
  BY <1>1, <1>2, <1>3 DEF StackTypeOK, Interrupt, Write, Memory
<1>6. ASSUME NEW k \in 1 .. Words, Pushes[Words + 1 - k] \in Registers
      PROVE  mem'[at + k - 1] = regs[Pushes[Words + 1 - k]]
  <2> DEFINE a == at + k - 1
  <2>1. k \in 1 .. 22 /\ Words + 1 - k = 23 - k
    BY Length
  <2>2. a \in at .. Top - 1 /\ ~(a <= call) /\ Top - a = 23 - k
    BY <1>1, <2>1
  <2> HIDE DEF a, call, at
  <2>3. a \in DOMAIN w(used) /\ w(used)[a] = regs[Pushes[23 - k]]
    BY <1>6, <2>1, <2>2 DEF Stacks
  <2>4. mem'[a] = w(used)[a]
    BY <1>3, <1>4, <2>3 DEF Write
  <2>5. mem'[a] = regs[Pushes[Words + 1 - k]]
    BY <2>1, <2>3, <2>4
  <2> QED
    BY <2>5 DEF a
<1> HIDE DEF w, at
<1>7. StaysInside'
  BY <1>4, <1>5 DEF StackInv, StaysInside, stack_top
<1>8. Holds(current_rsp)'
  BY <1>2, <1>5, <1>6 DEF Holds
<1>9. Registered(last)'
  BY <1>1, <1>5 DEF Registered, stack_top
<1> QED
  BY <1>5, <1>7, <1>8, <1>9 DEF StackInv

(* sched_tick stores the address of the frame. *)
LEMMA SwitchAwayKept == StackInv /\ SwitchAway => StackInv'
<1> SUFFICES ASSUME StackInv, SwitchAway PROVE StackInv'
  OBVIOUS
<1>1. Registered(last)' /\ Holds(saved)'
  BY DEF StackInv, SwitchAway, Registered, Holds, stack_top
<1> QED
  BY <1>1 DEF StackInv, StackTypeOK, StaysInside, SwitchAway, stack_top

(* The pops load what thread_create or the interrupt path stored. *)
LEMMA RestoreMatches ==
    ASSUME StackInv, SwitchTo \/ NoSwitch
    PROVE  regs' = IF state = "ready" THEN [r \in Registers |-> InitialFrame(r)] ELSE last
<1> DEFINE at == IF state = "handling" THEN current_rsp ELSE saved
<1>1. Restore(at) /\ state \in {"ready", "handling", "stopped"}
  BY DEF SwitchTo, NoSwitch
<1> HIDE DEF at
<1>2. ASSUME NEW r \in Registers
      PROVE  regs'[r] = IF state = "ready" THEN InitialFrame(r) ELSE last[r]
  <2> DEFINE k == CHOOSE k \in 1 .. Words : Pops[k] = r
  <2>1. k \in 1 .. Words /\ trapframe[k] = r /\ Pushes[Words + 1 - k] = r
    BY Loaded
  <2>2. regs'[r] = mem[at + k - 1]
    BY <1>1 DEF Restore
  <2> HIDE DEF k
  <2> QED
    BY <1>1, <2>1, <2>2 DEF StackInv, Holds, at
<1>3. regs' = [r \in Registers |-> regs'[r]]
  BY <1>1 DEF Restore
<1>4. CASE state = "ready"
  BY <1>2, <1>3, <1>4
<1>5. CASE state # "ready"
  BY <1>1, <1>2, <1>3, <1>5 DEF StackInv, Registered
<1> QED
  BY <1>4, <1>5

(* The pops and iretq. *)
LEMMA RestoreKept == StackInv /\ (SwitchTo \/ NoSwitch) => StackInv'
<1> SUFFICES ASSUME StackInv, SwitchTo \/ NoSwitch PROVE StackInv'
  OBVIOUS
<1>1. /\ state \in {"ready", "handling", "stopped"} /\ state' = "running"
      /\ UNCHANGED <<base, mem, saved, current_rsp, depth, written, last>>
  BY DEF SwitchTo, NoSwitch, Restore
<1>2. Registered(regs')
  <2>1. CASE state = "ready"
    <3>1. regs' = [r \in Registers |-> InitialFrame(r)]
      BY <2>1, RestoreMatches
    <3>2. depth = 0 /\ stack_top \in Int
      BY <2>1, Room DEF StackInv, StackTypeOK, stack_top
    <3>3. InitialFrame("rsp") = Addr(stack_top - depth)
      BY <3>2 DEF InitialFrame
    <3> QED
      BY <3>1, <3>3, Special DEF Registered
  <2>2. CASE state # "ready"
    BY <1>1, <2>2, RestoreMatches DEF StackInv, Registered
  <2> QED
    BY <2>1, <2>2
<1>3. Registered(regs)'
  BY <1>1, <1>2 DEF Registered, stack_top
<1> QED
  BY <1>1, <1>3 DEF StackInv, StackTypeOK, StaysInside, stack_top

(* The thread computes. *)
LEMMA WorkKept == StackInv /\ (\E v \in {1, 2} : Compute(v)) => StackInv'
<1> SUFFICES ASSUME StackInv, NEW v, Compute(v) PROVE StackInv'
  OBVIOUS
<1>1. "rsp" \notin General
  BY DEF General, trapframe
<1>2. Registered(regs)'
  BY <1>1, Special DEF Compute, StackInv, Registered, stack_top
<1> QED
  BY <1>2 DEF StackInv, StackTypeOK, StaysInside, Compute, stack_top

(* The thread calls a function. *)
LEMMA CallKept == StackInv /\ Call => StackInv'
<1> SUFFICES ASSUME StackInv, Call PROVE StackInv'
  OBVIOUS
<1>1. Rsp = stack_top - depth /\ Rsp \in Int /\ StackTypeOK /\ Registered(regs)
  BY Position DEF StackInv, Call
<1>2. Registered(regs)'
  <2>1. regs' = [r \in Registers |-> regs'[r]] /\ regs'["rsp"] = Addr(Rsp - 1)
    BY <1>1, Special DEF Call, Registered
  <2>2. Rsp - 1 = stack_top' - depth'
    BY <1>1, Room DEF Call, stack_top, StackTypeOK
  <2> QED
    BY <2>1, <2>2 DEF Registered
<1>3. Rsp - 1 \in base .. stack_top - 1
  BY <1>1, Room DEF Call, StackTypeOK, stack_top
<1>4. written' = written \cup {Rsp - 1} /\ StackTypeOK'
  BY <1>1, Room DEF Call, StackTypeOK, Write, Memory
<1> QED
  BY <1>2, <1>3, <1>4 DEF StackInv, StaysInside, Call, stack_top

(* The thread returns from one. *)
LEMMA ReturnKept == StackInv /\ Return => StackInv'
<1> SUFFICES ASSUME StackInv, Return PROVE StackInv'
  OBVIOUS
<1>1. Rsp = stack_top - depth /\ Rsp \in Int /\ StackTypeOK /\ Registered(regs)
  BY Position DEF StackInv, Return
<1>2. depth > 0 => Registered(regs)'
  <2>1. regs' = [r \in Registers |-> regs'[r]] /\ regs'["rsp"] = Addr(Rsp + 1)
    BY <1>1, Special DEF Return, Registered
  <2>2. depth > 0 => Rsp + 1 = stack_top' - depth'
    BY <1>1, Room DEF Return, stack_top, StackTypeOK
  <2> QED
    BY <2>1, <2>2 DEF Registered
<1>3. StackTypeOK' /\ StaysInside'
  BY <1>1, Room DEF StackInv, StackTypeOK, StaysInside, Return, stack_top
<1>4. state' \in {"running", "returned"} /\ (state' = "running" => depth > 0)
  BY DEF Return, StackInv
<1> QED
  BY <1>2, <1>3, <1>4 DEF StackInv

(* Always, on a stack that has the room. *)
LEMMA StackInvariance == StackSpec => []StackInv
<1>1. StackInit => StackInv
  BY StackAssumption DEF StackInit, StackInv, StackTypeOK, StaysInside, Memory
<1>2. StackInv /\ [StackNext]_stackvars => StackInv'
  <2>1. ASSUME StackInv, UNCHANGED stackvars PROVE StackInv'
    <3>1. \A f : InitialFrame(f)' = InitialFrame(f)
      BY <2>1 DEF stackvars, InitialFrame, stack_top
    <3>2. /\ StackTypeOK' /\ StaysInside'
          /\ Registered(regs) => Registered(regs)'
          /\ Registered(last) => Registered(last)'
          /\ Holds(saved) => Holds(saved)'
          /\ Holds(current_rsp) => Holds(current_rsp)'
      BY <2>1 DEF stackvars, StackInv, StackTypeOK, StaysInside, Registered, Holds, stack_top
    <3> QED
      BY <2>1, <3>1, <3>2 DEF stackvars, StackInv
  <2> QED
    BY <2>1, CreateKept, InterruptKept, SwitchAwayKept, RestoreKept, WorkKept, CallKept,
       ReturnKept DEF StackNext
<1> QED
  BY <1>1, <1>2, PTL DEF StackSpec

(* The calls, a frame and a handler stay inside of a stack that has room   *)
(* for all of them at once.                                                *)
LEMMA StackBounds == StackSpec => []StaysInside
<1>1. StackInv => StaysInside
  BY DEF StackInv
<1> QED
  BY <1>1, StackInvariance, PTL

(* For every size of the stack, either alignment, any nesting and any      *)
(* handler that fits, wherever interrupts strike: a thread begins with the *)
(* registers of the frame thread_create invented, and goes on with those   *)
(* it was interrupted with, whether or not the tick switched away from it. *)
THEOREM Restored == StackSpec => FramesMatch
<1>1. StackInv /\ [StackNext]_stackvars =>
        (state # "running" /\ state' = "running" =>
          regs' = IF state = "ready" THEN [r \in Registers |-> InitialFrame(r)] ELSE last)
  <2> SUFFICES ASSUME StackInv, [StackNext]_stackvars, state # "running", state' = "running"
               PROVE  regs' = IF state = "ready" THEN [r \in Registers |-> InitialFrame(r)] ELSE last
    OBVIOUS
  <2>1. SwitchTo \/ NoSwitch
    BY DEF StackNext, BuildFrame, Interrupt, SwitchAway, Compute, Call, Return, stackvars
  <2> QED
    BY <2>1, RestoreMatches
<1> QED
  BY <1>1, StackInvariance, PTL DEF FramesMatch, StackSpec
=============================================================================
