--------------------------- MODULE SpinlockProofs ---------------------------
(***************************************************************************)
(* For any number of CPUs, threads and locks: the safety properties of     *)
(* Spinlock.                                                               *)
(*                                                                         *)
(* None of them is inductive by itself.  That a holder keeps interrupts    *)
(* off needs the flag an inner release will restore to be clear, which is  *)
(* known only because the flag was saved while an outer lock was held, and *)
(* because no other thread stored into lock->rflags in between.  Inv says  *)
(* all of this.                                                            *)
(***************************************************************************)
EXTENDS Spinlock, TLAPS

(* The lock word is set exactly while some thread owns the lock.           *)
Ownership ==
    /\ \A l \in Locks : locked[l] => \E t \in Threads : l \in held[t]
    /\ \A t \in Threads : \A l \in held[t] : locked[l]
    /\ \A t, u \in Threads : \A l \in Locks :
          l \in held[t] /\ l \in held[u] => t = u

(* The lock being taken or given back is the innermost one.                *)
Position ==
    \A t \in Threads :
        /\ pc[t] \in {"cli", "spin", "popf"} => Nests(t, want[t])
        /\ pc[t] \in {"store", "clear"} =>
              /\ want[t] \in held[t]
              /\ \A h \in held[t] : Rank[h] <= Rank[want[t]]

(* From cli to popfq, and while it holds a lock, a thread runs undisturbed. *)
Undisturbed ==
    \A t \in Threads :
        pc[t] \notin {"run", "cli"} \/ held[t] # {} =>
            current[Home[t]] = t /\ ~IntrOn(t)

(* Between pushfq and cli a preempted thread finds IF as it saved it.      *)
SavedBeforeCli ==
    \A t \in Threads :
        pc[t] = "cli" =>
            IF current[Home[t]] = t THEN flags[t] = IntrOn(t)
                                    ELSE flags[t] = TRUE

(* The saved flag is the one acquire found, on the stack and in the lock.  *)
SavedFlags ==
    \A t \in Threads :
        /\ pc[t] # "run" => flags[t] = before[t][want[t]]
        /\ \A l \in held[t] :
              ~(pc[t] = "store" /\ want[t] = l) => rflags[l] = before[t][l]

(* A lock taken inside another one saved a clear flag.                     *)
InnerFlagsClear ==
    \A t \in Threads :
        /\ \A h, l \in held[t] : Rank[h] < Rank[l] => ~before[t][l]
        /\ pc[t] \in {"cli", "spin", "popf"} /\ held[t] # {} =>
              ~before[t][want[t]]

Inv ==
    /\ TypeOK
    /\ Ownership
    /\ Position
    /\ Undisturbed
    /\ SavedBeforeCli
    /\ SavedFlags
    /\ InnerFlagsClear

-----------------------------------------------------------------------------
(* The initial states satisfy the invariant.                              *)
LEMMA InitInv == Init => Inv
  BY HomeAssumption, RankAssumption
  DEF Init, Inv, TypeOK, Pc, Ownership, Position, Undisturbed, SavedBeforeCli,
      SavedFlags, InnerFlagsClear

(* Every step preserves it: one step of the proof per action.              *)
LEMMA NextInv == Inv /\ [Next]_vars => Inv'
  <1> SUFFICES ASSUME Inv, [Next]_vars PROVE Inv'
    OBVIOUS
  <1> USE HomeAssumption, RankAssumption DEF Inv
  <1>1. ASSUME NEW t \in Threads, NEW l \in Locks, SaveFlags(t, l)
        PROVE Inv'
    <2>1. TypeOK'
      BY <1>1 DEF SaveFlags, At, Goto, TypeOK, Pc, IntrOn
    <2>2. Ownership'
      BY <1>1 DEF SaveFlags, At, Goto, TypeOK, Ownership, Position, Nests
    <2>3. Position'
      BY <1>1 DEF SaveFlags, At, Goto, TypeOK, Position, Nests, Innermost
    <2>4. Undisturbed'
      BY <1>1 DEF SaveFlags, At, Goto, TypeOK, Undisturbed, IntrOn
    <2>5. SavedBeforeCli'
      BY <1>1 DEF SaveFlags, At, Goto, TypeOK, Undisturbed, SavedBeforeCli,
             IntrOn
    <2>6. SavedFlags'
      BY <1>1 DEF SaveFlags, At, Goto, TypeOK, SavedFlags, Nests
    <2>7. InnerFlagsClear'
      BY <1>1 DEF SaveFlags, At, Goto, TypeOK, InnerFlagsClear, Undisturbed,
             Position, Nests, IntrOn
    <2> QED BY <2>1, <2>2, <2>3, <2>4, <2>5, <2>6, <2>7
  <1>2. ASSUME NEW t \in Threads, DisableInterrupts(t)
        PROVE Inv'
    <2>1. TypeOK'
      BY <1>2 DEF DisableInterrupts, At, Goto, TypeOK, Pc
    <2>2. Ownership'
      BY <1>2 DEF DisableInterrupts, At, Goto, TypeOK, Ownership, Position,
             Nests
    <2>3. Position'
      BY <1>2 DEF DisableInterrupts, At, Goto, TypeOK, Position, Nests,
             Innermost
    <2>4. Undisturbed'
      BY <1>2 DEF DisableInterrupts, At, Goto, TypeOK, Undisturbed, IntrOn
    <2>5. SavedBeforeCli'
      <3> SUFFICES ASSUME NEW u \in Threads, pc'[u] = "cli"
                   PROVE  IF current'[Home[u]] = u
                          THEN flags'[u] = intr'[Home[u]] ELSE flags'[u] = TRUE
        BY DEF SavedBeforeCli, IntrOn
      <3>1. u # t /\ pc[u] = "cli" /\ flags'[u] = flags[u] /\ current' = current
        BY <1>2 DEF DisableInterrupts, Goto, TypeOK
      <3>2. CASE current[Home[u]] = u
        <4>1. Home[u] # Home[t]
          BY <3>1, <3>2, <1>2 DEF DisableInterrupts, At
        <4>2. intr'[Home[u]] = intr[Home[u]]
          BY <4>1, <1>2 DEF DisableInterrupts, TypeOK
        <4> QED
          BY <3>1, <3>2, <4>2 DEF SavedBeforeCli, IntrOn
      <3>3. CASE current[Home[u]] # u
        BY <3>1, <3>3 DEF SavedBeforeCli
      <3> QED BY <3>2, <3>3
    <2>6. SavedFlags'
      BY <1>2 DEF DisableInterrupts, At, Goto, TypeOK, SavedFlags, Ownership,
             Position
    <2>7. InnerFlagsClear'
      BY <1>2 DEF DisableInterrupts, At, Goto, TypeOK, InnerFlagsClear,
             Undisturbed, Position, Nests, IntrOn
    <2> QED BY <2>1, <2>2, <2>3, <2>4, <2>5, <2>6, <2>7
  <1>3. ASSUME NEW t \in Threads, TestAndSet(t)
        PROVE Inv'
    <2>1. TypeOK'
      BY <1>3 DEF TestAndSet, Free, At, Goto, TypeOK, Pc
    <2>2. Ownership'
      BY <1>3 DEF TestAndSet, Free, At, Goto, TypeOK, Ownership, Position,
             Nests
    <2>3. Position'
      BY <1>3 DEF TestAndSet, Free, At, Goto, TypeOK, Position, Nests,
             Innermost
    <2>4. Undisturbed'
      BY <1>3 DEF TestAndSet, Free, At, Goto, TypeOK, Undisturbed, IntrOn
    <2>5. SavedBeforeCli'
      BY <1>3 DEF TestAndSet, Free, At, Goto, TypeOK, Undisturbed,
             SavedBeforeCli, IntrOn
    <2>6. SavedFlags'
      BY <1>3 DEF TestAndSet, Free, At, Goto, TypeOK, SavedFlags, Ownership,
             Position
    <2>7. InnerFlagsClear'
      BY <1>3 DEF TestAndSet, Free, At, Goto, TypeOK, InnerFlagsClear,
             Undisturbed, Position, Nests, IntrOn
    <2> QED BY <2>1, <2>2, <2>3, <2>4, <2>5, <2>6, <2>7
  <1>4. ASSUME NEW t \in Threads, StoreFlags(t)
        PROVE Inv'
    <2>1. TypeOK'
      BY <1>4 DEF StoreFlags, At, Goto, TypeOK, Pc
    <2>2. Ownership'
      BY <1>4 DEF StoreFlags, At, Goto, TypeOK, Ownership, Position, Nests
    <2>3. Position'
      BY <1>4 DEF StoreFlags, At, Goto, TypeOK, Position, Nests, Innermost
    <2>4. Undisturbed'
      BY <1>4 DEF StoreFlags, At, Goto, TypeOK, Undisturbed, IntrOn
    <2>5. SavedBeforeCli'
      BY <1>4 DEF StoreFlags, At, Goto, TypeOK, Undisturbed, SavedBeforeCli,
             IntrOn
    <2>6. SavedFlags'
      BY <1>4 DEF StoreFlags, At, Goto, TypeOK, SavedFlags, Ownership,
             Position
    <2>7. InnerFlagsClear'
      BY <1>4 DEF StoreFlags, At, Goto, TypeOK, InnerFlagsClear, Undisturbed,
             Position, Nests, IntrOn
    <2> QED BY <2>1, <2>2, <2>3, <2>4, <2>5, <2>6, <2>7
  <1>5. ASSUME NEW t \in Threads, NEW l \in Locks, LoadFlags(t, l)
        PROVE Inv'
    <2>1. TypeOK'
      BY <1>5 DEF LoadFlags, At, Goto, TypeOK, Pc
    <2>2. Ownership'
      BY <1>5 DEF LoadFlags, At, Goto, TypeOK, Ownership, Position, Nests
    <2>3. Position'
      BY <1>5 DEF LoadFlags, At, Goto, TypeOK, Position, Nests, Innermost
    <2>4. Undisturbed'
      BY <1>5 DEF LoadFlags, At, Goto, TypeOK, Undisturbed, Innermost, IntrOn
    <2>5. SavedBeforeCli'
      BY <1>5 DEF LoadFlags, At, Goto, TypeOK, Undisturbed, SavedBeforeCli,
             IntrOn
    <2>6. SavedFlags'
      BY <1>5 DEF LoadFlags, At, Goto, TypeOK, SavedFlags, Innermost
    <2>7. InnerFlagsClear'
      BY <1>5 DEF LoadFlags, At, Goto, TypeOK, InnerFlagsClear, Undisturbed,
             Position, Nests, IntrOn
    <2> QED BY <2>1, <2>2, <2>3, <2>4, <2>5, <2>6, <2>7
  <1>6. ASSUME NEW t \in Threads, ClearLock(t)
        PROVE Inv'
    <2>1. TypeOK'
      BY <1>6 DEF ClearLock, At, Goto, TypeOK, Pc
    <2>2. Ownership'
      BY <1>6 DEF ClearLock, At, Goto, TypeOK, Ownership, Position, Nests
    <2>3. Position'
      <3>1. /\ want[t] \in held[t] /\ want[t] \in Locks
            /\ \A h \in held[t] : h \in Locks /\ Rank[h] <= Rank[want[t]]
        BY <1>6 DEF ClearLock, At, Position, TypeOK
      <3>2. \A h \in held[t] \ {want[t]} : Rank[h] < Rank[want[t]]
        BY <3>1
      <3>3. /\ held'[t] = held[t] \ {want[t]} /\ pc'[t] = "popf"
            /\ \A u \in Threads \ {t} : pc'[u] = pc[u] /\ held'[u] = held[u]
            /\ want' = want
        BY <1>6 DEF ClearLock, Goto, TypeOK
      <3> QED
        BY <3>2, <3>3 DEF Position, Nests
    <2>4. Undisturbed'
      BY <1>6 DEF ClearLock, At, Goto, TypeOK, Undisturbed, IntrOn
    <2>5. SavedBeforeCli'
      <3>1. /\ UNCHANGED <<current, intr, flags>>
            /\ \A u \in Threads : pc'[u] = "cli" => pc[u] = "cli"
        BY <1>6 DEF ClearLock, Goto, TypeOK
      <3> QED
        BY <3>1 DEF SavedBeforeCli, IntrOn
    <2>6. SavedFlags'
      BY <1>6 DEF ClearLock, At, Goto, TypeOK, SavedFlags, Ownership,
             Position
    <2>7. InnerFlagsClear'
      <3>1. /\ want[t] \in held[t]
            /\ \A h \in held[t] : Rank[h] <= Rank[want[t]]
        BY <1>6 DEF ClearLock, At, Position
      <3>2. ASSUME held'[t] # {} PROVE ~before[t][want[t]]
        <4>1. PICK h \in held'[t] : TRUE
          BY <3>2
        <4>2. h \in held[t] /\ h # want[t] /\ h \in Locks /\ want[t] \in Locks
          BY <1>6, <4>1 DEF ClearLock, TypeOK
        <4>3. Rank[h] < Rank[want[t]]
          BY <3>1, <4>2
        <4> QED
          BY <3>1, <4>2, <4>3 DEF InnerFlagsClear
      <3>3. /\ \A u \in Threads : held'[u] \in SUBSET held[u]
            /\ \A u \in Threads \ {t} : pc'[u] = pc[u] /\ held'[u] = held[u]
            /\ UNCHANGED <<before, want>>
        BY <1>6 DEF ClearLock, Goto, TypeOK
      <3> QED
        BY <3>2, <3>3 DEF InnerFlagsClear
    <2> QED BY <2>1, <2>2, <2>3, <2>4, <2>5, <2>6, <2>7
  <1>7. ASSUME NEW t \in Threads, RestoreFlags(t)
        PROVE Inv'
    <2>1. TypeOK'
      BY <1>7 DEF RestoreFlags, At, Goto, TypeOK, Pc
    <2>2. Ownership'
      BY <1>7 DEF RestoreFlags, At, Goto, TypeOK, Ownership, Position, Nests
    <2>3. Position'
      BY <1>7 DEF RestoreFlags, At, Goto, TypeOK, Position, Nests, Innermost
    <2>4. Undisturbed'
      BY <1>7 DEF RestoreFlags, At, Goto, TypeOK, Undisturbed, SavedFlags,
             InnerFlagsClear, IntrOn
    <2>5. SavedBeforeCli'
      BY <1>7 DEF RestoreFlags, At, Goto, TypeOK, Undisturbed,
             SavedBeforeCli, IntrOn
    <2>6. SavedFlags'
      BY <1>7 DEF RestoreFlags, At, Goto, TypeOK, SavedFlags, Ownership,
             Position
    <2>7. InnerFlagsClear'
      BY <1>7 DEF RestoreFlags, At, Goto, TypeOK, InnerFlagsClear,
             Undisturbed, Position, Nests, IntrOn
    <2> QED BY <2>1, <2>2, <2>3, <2>4, <2>5, <2>6, <2>7
  <1>8. ASSUME NEW t \in Threads, NEW on \in BOOLEAN, SetInterrupts(t, on)
        PROVE Inv'
    <2>1. TypeOK'
      BY <1>8 DEF SetInterrupts, At, TypeOK, Pc
    <2>2. Ownership'
      BY <1>8 DEF SetInterrupts, At, TypeOK, Ownership, Position, Nests
    <2>3. Position'
      BY <1>8 DEF SetInterrupts, At, TypeOK, Position, Nests, Innermost
    <2>4. Undisturbed'
      BY <1>8 DEF SetInterrupts, At, TypeOK, Undisturbed, IntrOn
    <2>5. SavedBeforeCli'
      BY <1>8 DEF SetInterrupts, At, TypeOK, Undisturbed, SavedBeforeCli,
             IntrOn
    <2>6. SavedFlags'
      BY <1>8 DEF SetInterrupts, At, TypeOK, SavedFlags, Ownership, Position
    <2>7. InnerFlagsClear'
      BY <1>8 DEF SetInterrupts, At, TypeOK, InnerFlagsClear, Undisturbed,
             Position, Nests, IntrOn
    <2> QED BY <2>1, <2>2, <2>3, <2>4, <2>5, <2>6, <2>7
  <1>9. ASSUME NEW c \in Cpus, Preempt(c)
        PROVE Inv'
    <2>1. TypeOK'
      BY <1>9 DEF Preempt, Preemptible, TypeOK, Pc
    <2>2. Ownership'
      BY <1>9 DEF Preempt, Preemptible, TypeOK, Ownership, Position, Nests
    <2>3. Position'
      BY <1>9 DEF Preempt, Preemptible, TypeOK, Position, Nests, Innermost
    <2>4. Undisturbed'
      BY <1>9 DEF Preempt, Preemptible, TypeOK, Undisturbed, IntrOn
    <2>5. SavedBeforeCli'
      BY <1>9 DEF Preempt, Preemptible, TypeOK, Undisturbed, SavedBeforeCli,
             IntrOn
    <2>6. SavedFlags'
      BY <1>9 DEF Preempt, Preemptible, TypeOK, SavedFlags, Ownership,
             Position
    <2>7. InnerFlagsClear'
      BY <1>9 DEF Preempt, Preemptible, TypeOK, InnerFlagsClear, Undisturbed,
             Position, Nests, IntrOn
    <2> QED BY <2>1, <2>2, <2>3, <2>4, <2>5, <2>6, <2>7
  <1>10. ASSUME UNCHANGED vars PROVE Inv'
    BY <1>10 DEF vars, TypeOK, Ownership, Position, Undisturbed,
         SavedBeforeCli, SavedFlags, InnerFlagsClear, Nests, IntrOn
  <1> QED
    BY <1>1, <1>2, <1>3, <1>4, <1>5, <1>6, <1>7, <1>8, <1>9, <1>10
    DEF Next, Acquire, Release

(* Type correctness and the strengthened invariant, for every instance.    *)
THEOREM Invariance == Spec => []Inv
  BY InitInv, NextInv, PTL DEF Spec

(* The variables keep their types: in particular every CPU always executes *)
(* a thread that is its own.                                               *)
THEOREM TypeCorrectness == Spec => []TypeOK
  <1>1. Inv => TypeOK
    BY DEF Inv
  <1> QED BY <1>1, Invariance, PTL

(* At most one thread owns a lock, and the lock word tells whether one does. *)
THEOREM Exclusion == Spec => []MutualExclusion
  <1>1. Inv => MutualExclusion
    BY DEF Inv, TypeOK, Ownership, MutualExclusion
  <1> QED BY <1>1, Invariance, PTL

(* An owner of a lock cannot be preempted, whatever it nests.              *)
THEOREM HolderRuns == Spec => []HolderNotPreemptible
  <1>1. Inv => HolderNotPreemptible
    BY DEF Inv, Undisturbed, HolderNotPreemptible
  <1> QED BY <1>1, Invariance, PTL

(* acquire spins only for an owner that another CPU is executing.          *)
THEOREM NoSpinOnOwnCpu == Spec => []SpinsOnlyForAnotherCpu
  <1>1. ASSUME Inv, NEW t \in Threads, pc[t] = "spin", locked[want[t]]
        PROVE  \E u \in Threads : /\ want[t] \in held[u]
                                  /\ Home[u] # Home[t]
                                  /\ current[Home[u]] = u
    <2>1. PICK u \in Threads : want[t] \in held[u]
      BY <1>1 DEF Inv, TypeOK, Ownership
    <2>2. want[t] \notin held[t]
      BY <1>1, RankAssumption DEF Inv, TypeOK, Position, Nests
    <2>3. current[Home[u]] = u /\ current[Home[t]] = t
      BY <1>1, <2>1 DEF Inv, Undisturbed
    <2> QED BY <2>1, <2>2, <2>3
  <1>2. Inv => SpinsOnlyForAnotherCpu
    BY <1>1 DEF SpinsOnlyForAnotherCpu
  <1> QED BY <1>2, Invariance, PTL

(* With one CPU, as the kernel runs, a spinning acquire finds the lock     *)
(* free: it never waits.                                                   *)
THEOREM OneCpuNeverWaits ==
  ASSUME \A c, d \in Cpus : c = d
  PROVE  Spec => [](\A t \in Threads : pc[t] = "spin" => ~locked[want[t]])
  <1>1. SpinsOnlyForAnotherCpu =>
          \A t \in Threads : pc[t] = "spin" => ~locked[want[t]]
    BY HomeAssumption DEF SpinsOnlyForAnotherCpu
  <1> QED BY <1>1, NoSpinOnOwnCpu, PTL

(* The action form of the property: a popfq restores IF as acquire saved it. *)
THEOREM InterruptsRestored == Spec => RestoresInterrupts
  <1>1. Inv /\ [Next]_vars =>
          [\A t \in Threads :
             pc[t] = "popf" /\ pc'[t] = "run" =>
                intr'[Home[t]] = before[t][want[t]]]_vars
    <2> SUFFICES ASSUME Inv, Next, NEW t \in Threads,
                        pc[t] = "popf", pc'[t] = "run"
                 PROVE  intr'[Home[t]] = before[t][want[t]]
      BY DEF vars
    <2>1. RestoreFlags(t)
      BY DEF Next, Acquire, Release, SaveFlags, DisableInterrupts, TestAndSet,
             StoreFlags, LoadFlags, ClearLock, RestoreFlags, SetInterrupts,
             Preempt, At, Goto, Inv, TypeOK
    <2> QED
      BY <2>1, HomeAssumption DEF RestoreFlags, Inv, TypeOK, SavedFlags
  <1> QED BY <1>1, Invariance, PTL DEF Spec, RestoresInterrupts
=============================================================================
