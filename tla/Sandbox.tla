------------------------------- MODULE Sandbox -------------------------------
(***************************************************************************)
(* WASM runs on one edge node (crates/wasm-runtime/src/sandbox.rs).  Every *)
(* run has a caller that awaits it, a blocking thread that executes it and *)
(* a timer task that bumps the engine's epoch when timeout_ms is over.     *)
(* All runs share the engine, so they share the epoch: a run is            *)
(* interrupted when the epoch reaches the deadline its store was given.    *)
(*                                                                         *)
(* thread[r] is how far the blocking thread is: queued or compiling        *)
(* ("compile"), about to create the store ("store"), then the phases of    *)
(* execute_sync_compiled.  Delays are arbitrary: a timer may fire at any   *)
(* moment after it is armed.                                               *)
(***************************************************************************)
EXTENDS Integers, FiniteSets

CONSTANTS Runs,
          Loops              \* runs whose process function never returns

ASSUME SandboxAssumption == IsFiniteSet(Runs) /\ Loops \subseteq Runs

VARIABLES caller,            \* the future of execute or execute_compiled
          thread, result,    \* the blocking thread, and what it ended with
          timer,             \* the spawned timeout task
          epoch,             \* the engine's epoch
          deadline,          \* the store's epoch deadline
          denied,            \* LimitState.denied
          seen               \* history: timers that had fired by then

vars == <<caller, thread, result, timer, epoch, deadline, denied, seen>>

\* The phases that run WASM code: the start function, alloc and process.
InWasm == {"instantiate", "alloc", "process"}
InHost == {"exports", "write", "output"}

\* Where a phase that goes well leads.
Following(phase) ==
    CASE phase = "compile"     -> "store"
      [] phase = "instantiate" -> "exports"
      [] phase = "exports"     -> "alloc"
      [] phase = "alloc"       -> "write"
      [] phase = "write"       -> "process"
      [] phase = "process"     -> "output"

Fired == {r \in Runs : timer[r] = "fired"}

Init ==
    /\ caller = [r \in Runs |-> "idle"]
    /\ thread = [r \in Runs |-> "idle"]
    /\ result = [r \in Runs |-> "none"]
    /\ timer = [r \in Runs |-> "none"]
    /\ epoch = 0
    /\ deadline = [r \in Runs |-> 0]
    /\ denied = [r \in Runs |-> FALSE]
    /\ seen = [r \in Runs |-> {}]

\* execute starts from bytes, execute_compiled from a module; both spawn the
\* timer first.
Start(r) ==
    /\ caller[r] = "idle"
    /\ caller' = [caller EXCEPT ![r] = "waiting"]
    /\ timer' = [timer EXCEPT ![r] = "armed"]
    /\ \E l \in {"compile", "store"} : thread' = [thread EXCEPT ![r] = l]
    /\ UNCHANGED <<result, epoch, deadline, denied, seen>>

-----------------------------------------------------------------------------
(* The blocking thread *)

Advance(r) ==
    /\ thread' = [thread EXCEPT ![r] = Following(thread[r])]
    /\ UNCHANGED <<caller, result, timer, epoch, deadline, denied, seen>>

EndWith(r, outcome) ==
    /\ thread' = [thread EXCEPT ![r] = "ended"]
    /\ result' = [result EXCEPT ![r] = outcome]
    /\ UNCHANGED <<caller, timer, epoch, deadline, denied, seen>>

Compile(r) ==
    /\ thread[r] = "compile"
    /\ \/ Advance(r)
       \/ \E e \in {"InvalidWasm", "CompilationFailed"} : EndWith(r, e)

\* Mutant: the deadline is the current epoch.
CreateStoreDue(r) ==
    /\ thread[r] = "store"
    /\ deadline' = [deadline EXCEPT ![r] = epoch]
    /\ seen' = [seen EXCEPT ![r] = Fired]
    /\ thread' = [thread EXCEPT ![r] = "instantiate"]
    /\ UNCHANGED <<caller, result, timer, epoch, denied>>

\* Mutant: the deadline is one epoch too late.
CreateStoreLenient(r) ==
    /\ thread[r] = "store"
    /\ deadline' = [deadline EXCEPT ![r] = epoch + 2]
    /\ seen' = [seen EXCEPT ![r] = Fired]
    /\ thread' = [thread EXCEPT ![r] = "instantiate"]
    /\ UNCHANGED <<caller, result, timer, epoch, denied>>

\* set_epoch_deadline(1) counts from the epoch at this moment.
CreateStore(r) ==
    /\ thread[r] = "store"
    /\ deadline' = [deadline EXCEPT ![r] = epoch + 1]
    /\ seen' = [seen EXCEPT ![r] = Fired]
    /\ thread' = [thread EXCEPT ![r] = "instantiate"]
    /\ UNCHANGED <<caller, result, timer, epoch, denied>>

WasmReturns(r) ==
    /\ thread[r] \in InWasm
    /\ thread[r] = "process" => r \notin Loops
    /\ Advance(r)

\* memory_growing refuses: the instance sees memory.grow fail and goes on.
DenyGrowth(r) ==
    /\ thread[r] \in InWasm
    /\ denied' = [denied EXCEPT ![r] = TRUE]
    /\ UNCHANGED <<caller, thread, result, timer, epoch, deadline, seen>>

\* Mutant: map_trap_error does not know the trap of an epoch deadline.
WasmErrorUnmapped(r, kind) ==
    IF denied[r] THEN "MemoryLimitExceeded"
    ELSE IF kind = "Timeout" THEN "Interrupt" ELSE kind

\* The error of a WASM call: the limiter's flag comes before the trap's kind.
WasmError(r, kind) == IF denied[r] THEN "MemoryLimitExceeded" ELSE kind

Trap(r) == thread[r] \in InWasm /\ EndWith(r, WasmError(r, "Trap"))

\* WASM code checks the epoch at function entries and loop back edges.
Interrupt(r) ==
    /\ thread[r] \in InWasm
    /\ epoch >= deadline[r]
    /\ EndWith(r, WasmError(r, "Timeout"))

\* Exports are looked up, the input is written, the output is read.
HostStep(r) ==
    \/ thread[r] \in {"exports", "write"} /\ Advance(r)
    \/ thread[r] = "exports" /\ EndWith(r, "MissingExport")
    \/ thread[r] \in {"write", "output"} /\ EndWith(r, "Io")
    \/ thread[r] = "output" /\ EndWith(r, "Ok")

Panic(r) ==
    /\ thread[r] \in InHost \cup {"compile", "store"}
    /\ EndWith(r, "panic")

-----------------------------------------------------------------------------
(* The timer and the caller *)

TimerFires(r) ==
    /\ timer[r] = "armed"
    /\ timer' = [timer EXCEPT ![r] = "fired"]
    /\ epoch' = epoch + 1
    /\ UNCHANGED <<caller, thread, result, deadline, denied, seen>>

\* The caller resumes and aborts the timer, unless it leaves by the `?` of a
\* panicked thread.  abort does not stop a timer task that is being polled at
\* that moment: such a timer still fires.
Return(r) ==
    /\ caller[r] = "waiting"
    /\ thread[r] = "ended"
    /\ caller' = [caller EXCEPT ![r] = "returned"]
    /\ \/ UNCHANGED timer
       \/ /\ timer[r] = "armed" /\ result[r] # "panic"
          /\ timer' = [timer EXCEPT ![r] = "aborted"]
    /\ UNCHANGED <<thread, result, epoch, deadline, denied, seen>>

\* The caller's future is dropped, which detaches the thread and the timer.
Cancel(r) ==
    /\ caller[r] = "waiting"
    /\ caller' = [caller EXCEPT ![r] = "gone"]
    /\ UNCHANGED <<thread, result, timer, epoch, deadline, denied, seen>>

-----------------------------------------------------------------------------
ThreadStep(r) ==
    \/ Compile(r) \/ CreateStore(r) \/ WasmReturns(r) \/ Trap(r) \/ Interrupt(r)
    \/ HostStep(r) \/ Panic(r)

Next ==
    \E r \in Runs : \/ Start(r) \/ ThreadStep(r) \/ DenyGrowth(r)
                    \/ TimerFires(r) \/ Return(r) \/ Cancel(r)

\* Threads are scheduled and timers fire.  Whether WASM code returns or traps
\* is its own affair: fairness is only for what the host does.
HostDoes(r) == Compile(r) \/ CreateStore(r) \/ HostStep(r) \/ Interrupt(r)

Fairness ==
    \A r \in Runs : WF_vars(HostDoes(r)) /\ WF_vars(TimerFires(r)) /\ WF_vars(Return(r))

Spec == Init /\ [][Next]_vars
FairSpec == Spec /\ Fairness

-----------------------------------------------------------------------------
(* Properties *)

Outcome == {"Ok", "Timeout", "MemoryLimitExceeded", "Trap", "InvalidWasm",
            "CompilationFailed", "MissingExport", "Io", "panic"}

\* Type invariant.
TypeOK ==
    /\ caller \in [Runs -> {"idle", "waiting", "returned", "gone"}]
    /\ thread \in [Runs -> {"idle", "compile", "store", "ended"} \cup InWasm \cup InHost]
    /\ result \in [Runs -> Outcome \cup {"none"}]
    /\ timer \in [Runs -> {"none", "armed", "fired", "aborted"}]
    /\ epoch \in Nat
    /\ deadline \in [Runs -> Nat]
    /\ denied \in [Runs -> BOOLEAN]
    /\ seen \in [Runs -> SUBSET Runs]

\* A run that is reported as timed out saw a timer fire, its own or another
\* run's, after its store was created: timeouts that elapsed earlier, however
\* many, never count against it.
TimeoutExplained ==
    \A r \in Runs : result[r] = "Timeout" => Fired \ seen[r] # {}

\* A run whose timer fires when its store exists ends, even if it loops.
InTimeTimerEndsRun ==
    \A r \in Runs :
        thread[r] \in InWasm \cup InHost /\ r \in Fired \ seen[r] ~> thread[r] = "ended"

\* crates/wasm-runtime/src/tests.rs line 156: "Infinite-loop WASM must be
\* interrupted within ~2x the configured timeout."
TimeoutEnforced == \A r \in Runs : timer[r] = "fired" ~> thread[r] = "ended"
=============================================================================
