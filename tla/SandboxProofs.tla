---------------------------- MODULE SandboxProofs ----------------------------
(***************************************************************************)
(* For any number of runs on one engine: no run is reported as timed out   *)
(* unless a timer fired after its store was created.                       *)
(***************************************************************************)
EXTENDS Sandbox, FiniteSetTheorems, TLAPS

\* The epoch is the number of timers that fired, and a store's deadline is one
\* more than the number that had fired when it was created.
Epochs(r) ==
    /\ seen[r] \subseteq Fired
    /\ thread[r] \in InWasm \cup InHost => deadline[r] = Cardinality(seen[r]) + 1
    /\ result[r] = "Timeout" => Fired \ seen[r] # {}

Timers(r) ==
    /\ timer[r] = "none" <=> caller[r] = "idle"
    /\ caller[r] = "idle" => thread[r] = "idle"
    /\ caller[r] = "returned" => thread[r] = "ended"
    /\ result[r] # "none" => thread[r] = "ended"

\* The inductive invariant.
IInv ==
    /\ TypeOK
    /\ epoch = Cardinality(Fired)
    /\ \A r \in Runs : Epochs(r)
    /\ \A r \in Runs : Timers(r)

\* Sets of runs are finite.
LEMMA RunSets == \A S \in SUBSET Runs : IsFiniteSet(S) /\ Cardinality(S) \in Nat
  BY SandboxAssumption, FS_Subset, FS_CardinalityType

\* A step of one run's thread that leaves timers and epoch alone, and creates
\* no store, keeps the invariant if a timeout it reports is due.
LEMMA ThreadOK ==
  ASSUME IInv, NEW r \in Runs, thread[r] # "ended", caller[r] # "idle",
         NEW l \in {"store", "ended"} \cup InWasm \cup InHost,
         thread' = [thread EXCEPT ![r] = l],
         NEW e \in Outcome \cup {"none"}, result' = [result EXCEPT ![r] = e],
         l \in InWasm \cup InHost => thread[r] \in InWasm \cup InHost,
         l = "ended" \/ e = "none", e = "Timeout" => Fired \ seen[r] # {},
         UNCHANGED <<caller, timer, epoch, deadline, denied, seen>>
  PROVE  IInv'
<1>1. TypeOK'
  BY DEF IInv, TypeOK
<1>2. Fired' = Fired
  BY DEF Fired
<1>3. ASSUME NEW s \in Runs PROVE Epochs(s)'
  <2>1. CASE s = r
    BY <1>2, <2>1 DEF IInv, TypeOK, Epochs
  <2>2. CASE s # r
    BY <1>2, <2>2 DEF IInv, TypeOK, Epochs
  <2>3. QED
    BY <2>1, <2>2
<1>4. ASSUME NEW s \in Runs PROVE Timers(s)'
  <2>1. CASE s = r
    BY <2>1 DEF IInv, TypeOK, Timers
  <2>2. CASE s # r
    BY <2>2 DEF IInv, TypeOK, Timers
  <2>3. QED
    BY <2>1, <2>2
<1>5. QED
  BY <1>1, <1>2, <1>3, <1>4 DEF IInv

\* A thread that goes on to its next phase keeps the invariant.
LEMMA AdvanceOK ==
  ASSUME IInv, NEW r \in Runs, Advance(r),
         thread[r] \in {"compile", "exports", "write"} \cup InWasm
  PROVE  IInv'
<1>1. /\ thread[r] # "ended" /\ caller[r] # "idle"
      /\ Following(thread[r]) \in {"store", "ended"} \cup InWasm \cup InHost
      /\ Following(thread[r]) \in InWasm \cup InHost => thread[r] \in InWasm \cup InHost
  BY DEF Following, InWasm, InHost, IInv, Timers
<1>2. result[r] = "none" /\ result' = [result EXCEPT ![r] = "none"]
  BY <1>1 DEF Advance, IInv, TypeOK, Timers
<1>3. QED
  BY <1>1, <1>2, ThreadOK DEF Advance

\* A thread that ends keeps it too, provided a timeout it reports is due.
LEMMA EndWithOK ==
  ASSUME IInv, NEW r \in Runs, NEW e \in Outcome, EndWith(r, e),
         thread[r] \in {"compile", "store"} \cup InWasm \cup InHost,
         e = "Timeout" => Fired \ seen[r] # {}
  PROVE  IInv'
<1>1. thread[r] # "ended" /\ caller[r] # "idle"
  BY DEF InWasm, InHost, IInv, Timers
<1>2. /\ thread' = [thread EXCEPT ![r] = "ended"]
      /\ result' = [result EXCEPT ![r] = e]
      /\ UNCHANGED <<caller, timer, epoch, deadline, denied, seen>>
  BY DEF EndWith
<1>3. "ended" \in {"store", "ended"} \cup InWasm \cup InHost /\ "ended" \notin InWasm \cup InHost
  BY DEF InWasm, InHost
<1>4. QED
  BY <1>1, <1>2, <1>3, ThreadOK

\* An interrupt is due: the epoch passed the number of timers seen.
LEMMA InterruptDue ==
  ASSUME IInv, NEW r \in Runs, thread[r] \in InWasm, epoch >= deadline[r]
  PROVE  Fired \ seen[r] # {}
<1>1. seen[r] \in SUBSET Runs /\ Fired \in SUBSET Runs /\ seen[r] \subseteq Fired
  BY DEF IInv, TypeOK, Fired, Epochs
<1>2. Cardinality(seen[r]) \in Nat /\ Cardinality(Fired) \in Nat
  BY <1>1, RunSets
<1>3. Cardinality(Fired) >= Cardinality(seen[r]) + 1
  BY <1>2 DEF IInv, Epochs
<1>4. Fired # seen[r]
  BY <1>2, <1>3
<1>5. QED
  BY <1>1, <1>4

\* Every step of a run's thread keeps the invariant.
LEMMA ThreadStepOK == ASSUME IInv, NEW r \in Runs, ThreadStep(r) PROVE IInv'
<1>1. CASE Compile(r)
  BY <1>1, AdvanceOK, EndWithOK DEF Compile, Outcome
<1>2. CASE CreateStore(r)
  <2>1. TypeOK'
    BY <1>2 DEF CreateStore, IInv, TypeOK, InWasm, Fired
  <2>2. Fired' = Fired /\ epoch' = epoch
    BY <1>2 DEF CreateStore, Fired
  <2>3. ASSUME NEW s \in Runs PROVE Epochs(s)'
    <3>1. CASE s = r
      BY <1>2, <2>2, <3>1 DEF CreateStore, IInv, TypeOK, Epochs, Timers
    <3>2. CASE s # r
      BY <1>2, <2>2, <3>2 DEF CreateStore, IInv, TypeOK, Epochs
    <3>3. QED
      BY <3>1, <3>2
  <2>4. ASSUME NEW s \in Runs PROVE Timers(s)'
    <3>1. CASE s = r
      BY <1>2, <3>1 DEF CreateStore, IInv, TypeOK, Timers
    <3>2. CASE s # r
      BY <1>2, <3>2 DEF CreateStore, IInv, TypeOK, Timers
    <3>3. QED
      BY <3>1, <3>2
  <2>5. QED
    BY <2>1, <2>2, <2>3, <2>4 DEF IInv
<1>3. CASE WasmReturns(r)
  BY <1>3, AdvanceOK DEF WasmReturns
<1>4. CASE Trap(r)
  BY <1>4, EndWithOK DEF Trap, WasmError, Outcome
<1>5. CASE Interrupt(r)
  BY <1>5, EndWithOK, InterruptDue DEF Interrupt, WasmError, Outcome
<1>6. CASE HostStep(r)
  BY <1>6, AdvanceOK, EndWithOK DEF HostStep, InHost, Outcome
<1>7. CASE Panic(r)
  BY <1>7, EndWithOK DEF Panic, Outcome
<1>8. QED
  BY <1>1, <1>2, <1>3, <1>4, <1>5, <1>6, <1>7 DEF ThreadStep

\* The timer's tick adds itself to Fired and one to the epoch.
LEMMA TimerFiresOK == ASSUME IInv, NEW r \in Runs, TimerFires(r) PROVE IInv'
<1>1. TypeOK'
  BY DEF TimerFires, IInv, TypeOK
<1>2. Fired' = Fired \cup {r} /\ r \notin Fired
  BY DEF TimerFires, IInv, TypeOK, Fired
<1>3. epoch' = Cardinality(Fired')
  <2>1. IsFiniteSet(Fired)
    BY RunSets DEF Fired
  <2>2. Cardinality(Fired \cup {r}) = Cardinality(Fired) + 1
    BY <1>2, <2>1, FS_AddElement
  <2>3. QED
    BY <1>2, <2>2 DEF TimerFires, IInv
<1>4. ASSUME NEW s \in Runs PROVE Epochs(s)'
  BY <1>2 DEF TimerFires, IInv, Epochs
<1>5. ASSUME NEW s \in Runs PROVE Timers(s)'
  BY DEF TimerFires, IInv, TypeOK, Timers
<1>6. QED
  BY <1>1, <1>3, <1>4, <1>5 DEF IInv

\* Start, Return, Cancel and DenyGrowth touch neither Fired nor the deadlines.
LEMMA CallerOK ==
  ASSUME IInv, NEW r \in Runs, Start(r) \/ Return(r) \/ Cancel(r) \/ DenyGrowth(r)
  PROVE  IInv'
<1> USE DEF Start, Return, Cancel, DenyGrowth
<1>1. TypeOK'
  <2>1. CASE Start(r)
    BY <2>1 DEF IInv, TypeOK
  <2>2. CASE Return(r)
    BY <2>2 DEF IInv, TypeOK
  <2>3. CASE Cancel(r) \/ DenyGrowth(r)
    BY <2>3 DEF IInv, TypeOK
  <2>4. QED
    BY <2>1, <2>2, <2>3
<1>2. Fired' = Fired /\ epoch' = epoch
  <2>1. Start(r) => timer[r] # "fired"
    BY DEF IInv, Timers, Epochs
  <2>2. QED
    BY <2>1 DEF IInv, TypeOK, Fired
<1>3. ASSUME NEW s \in Runs PROVE Epochs(s)'
  <2>1. UNCHANGED <<seen, deadline, result>>
    OBVIOUS
  <2>2. thread'[s] \in InWasm \cup InHost => thread[s] \in InWasm \cup InHost
    BY DEF IInv, TypeOK, InWasm, InHost
  <2>3. QED
    BY <1>2, <2>1, <2>2 DEF IInv, Epochs
<1>4. ASSUME NEW s \in Runs PROVE Timers(s)'
  <2>1. CASE s = r
    BY <2>1 DEF IInv, TypeOK, Timers
  <2>2. CASE s # r
    BY <2>2 DEF IInv, TypeOK, Timers
  <2>3. QED
    BY <2>1, <2>2
<1>5. QED
  BY <1>1, <1>2, <1>3, <1>4 DEF IInv

\* Whatever the interleaving of runs, timers, traps and cancellations: no
\* timeout is reported that no timer since the run's start explains.
THEOREM SandboxSafety == Spec => [](TypeOK /\ TimeoutExplained)
<1>1. Init => IInv
  <2> SUFFICES ASSUME Init PROVE IInv
    OBVIOUS
  <2>1. TypeOK
    BY DEF Init, TypeOK
  <2>2. Fired = {}
    BY DEF Init, Fired
  <2>3. epoch = Cardinality(Fired)
    BY <2>2, FS_EmptySet DEF Init
  <2>4. QED
    BY <2>1, <2>2, <2>3 DEF Init, IInv, Epochs, Timers, InWasm, InHost
<1>2. IInv /\ [Next]_vars => IInv'
  <2> SUFFICES ASSUME IInv, [Next]_vars PROVE IInv'
    OBVIOUS
  <2>1. CASE UNCHANGED vars
    BY <2>1 DEF vars, IInv, TypeOK, Fired, Epochs, Timers
  <2>2. QED
    BY <2>1, ThreadStepOK, TimerFiresOK, CallerOK DEF Next
<1>3. IInv => TypeOK /\ TimeoutExplained
  BY DEF IInv, Epochs, TimeoutExplained
<1>4. QED
  BY <1>1, <1>2, <1>3, PTL DEF Spec

\* Threads, timers, flags and results only take the values the code gives
\* them: no error of a run is reported under a name map_trap_error lacks.
THEOREM SandboxTypes == Spec => []TypeOK
BY SandboxSafety, PTL
=============================================================================
