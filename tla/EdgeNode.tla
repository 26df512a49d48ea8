------------------------------ MODULE EdgeNode ------------------------------
(***************************************************************************)
(* One edge node's ExecuteTask handler (services/edge-node/src/server/     *)
(* grpc.rs): the semaphore that admits calls, NodeState.active_tasks that  *)
(* the health probe reports, and the ways a call can end.                  *)
(*                                                                         *)
(* call[c] is where call c is suspended:                                   *)
(*   idle       not arrived                                                *)
(*   admitted   holds a permit, about to count itself in                   *)
(*   lookup, downloading, compiling   resolving a module reference         *)
(*   no_source  the request names no WASM                                  *)
(*   running    its WASM runs on a blocking thread                         *)
(*   finish_ok, finish_err   result in hand, about to count itself out     *)
(*   answered   returned after counting itself out                         *)
(*   exhausted  refused: no permit                                         *)
(*   failed     returned by `?` from a failed download or compilation      *)
(*   dropped    cancelled before it counted itself in                      *)
(*   orphaned   cancelled while its WASM runs: the thread runs on          *)
(*   abandoned  cancelled after it counted itself in                       *)
(* The permit is a guard: every way out of the handler gives it back.      *)
(***************************************************************************)
EXTENDS Integers, FiniteSets

CONSTANTS Calls,             \* ExecuteTask requests
          Permits            \* MAX_TASKS

ASSUME EdgeNodeAssumption ==
    /\ IsFiniteSet(Calls)
    /\ Permits \in Nat \ {0}

VARIABLES call, active_tasks, total_executed, total_failed

vars == <<call, active_tasks, total_executed, total_failed>>

Working == {"lookup", "downloading", "compiling", "no_source", "running",
            "finish_ok", "finish_err"}
Ended   == {"answered", "exhausted", "failed", "dropped", "orphaned", "abandoned"}

In(S) == {c \in Calls : call[c] \in S}

\* The calls that hold a permit.
Admitted == In(Working \cup {"admitted"})

Init ==
    /\ call = [c \in Calls |-> "idle"]
    /\ active_tasks = 0
    /\ total_executed = 0
    /\ total_failed = 0

Goto(c, l) == call' = [call EXCEPT ![c] = l]

\* Mutant: a refused call counts itself out, although it never counted in.
TryAcquireCountsOut(c) ==
    /\ call[c] = "idle"
    /\ LET free == Cardinality(Admitted) < Permits
       IN  /\ Goto(c, IF free THEN "admitted" ELSE "exhausted")
           /\ active_tasks' = IF free THEN active_tasks ELSE active_tasks - 1
    /\ UNCHANGED <<total_executed, total_failed>>

\* Semaphore::try_acquire does not wait.
TryAcquire(c) ==
    /\ call[c] = "idle"
    /\ Goto(c, IF Cardinality(Admitted) < Permits
               THEN "admitted" ELSE "exhausted")
    /\ UNCHANGED <<active_tasks, total_executed, total_failed>>

\* WASM in the request runs at once, a module reference is looked up first.
CountIn(c) ==
    /\ call[c] = "admitted"
    /\ active_tasks' = active_tasks + 1
    /\ \E l \in {"running", "lookup", "no_source"} : Goto(c, l)
    /\ UNCHANGED <<total_executed, total_failed>>

\* The module cache, the control plane's GET /modules and the compiler.
Lookup(c) ==
    /\ call[c] = "lookup"
    /\ \E l \in {"running", "downloading"} : Goto(c, l)
    /\ UNCHANGED <<active_tasks, total_executed, total_failed>>

Downloaded(c) ==
    /\ call[c] = "downloading"
    /\ Goto(c, "compiling")
    /\ UNCHANGED <<active_tasks, total_executed, total_failed>>

Compiled(c) ==
    /\ call[c] = "compiling"
    /\ Goto(c, "running")
    /\ UNCHANGED <<active_tasks, total_executed, total_failed>>

\* `?` on the download or on the compilation leaves the counters alone.
ModuleFailed(c) ==
    /\ call[c] \in {"downloading", "compiling"}
    /\ Goto(c, "failed")
    /\ UNCHANGED <<active_tasks, total_executed, total_failed>>

\* Mutant: the early return forgets to count itself out.
RejectForgetsActive(c) ==
    /\ call[c] \in {"downloading", "no_source"}
    /\ total_failed' = total_failed + 1
    /\ Goto(c, "answered")
    /\ UNCHANGED <<active_tasks, total_executed>>

\* A hash mismatch and a request without WASM count themselves out.
Reject(c) ==
    /\ call[c] \in {"downloading", "no_source"}
    /\ active_tasks' = IF active_tasks > 0 THEN active_tasks - 1 ELSE 0
    /\ total_failed' = total_failed + 1
    /\ Goto(c, "answered")
    /\ UNCHANGED total_executed

RunEnds(c) ==
    /\ call[c] = "running"
    /\ \E l \in {"finish_ok", "finish_err"} : Goto(c, l)
    /\ UNCHANGED <<active_tasks, total_executed, total_failed>>

\* Mutant: a failed run is counted as executed too.
CountOutTwice(c) ==
    /\ call[c] \in {"finish_ok", "finish_err"}
    /\ active_tasks' = IF active_tasks > 0 THEN active_tasks - 1 ELSE 0
    /\ total_executed' = total_executed + 1
    /\ total_failed' = total_failed + (IF call[c] = "finish_err" THEN 1 ELSE 0)
    /\ Goto(c, "answered")

CountOut(c) ==
    /\ call[c] \in {"finish_ok", "finish_err"}
    /\ active_tasks' = IF active_tasks > 0 THEN active_tasks - 1 ELSE 0
    /\ total_executed' = total_executed + (IF call[c] = "finish_ok" THEN 1 ELSE 0)
    /\ total_failed' = total_failed + (IF call[c] = "finish_err" THEN 1 ELSE 0)
    /\ Goto(c, "answered")

\* The control plane resets the stream (its own client left, or its process
\* died) and the server drops the handler's future.  A blocking thread cannot
\* be dropped.
Cancel(c) ==
    /\ call[c] \in Working \cup {"admitted"}
    /\ Goto(c, CASE call[c] = "admitted" -> "dropped"
                 [] call[c] = "running"  -> "orphaned"
                 [] OTHER                -> "abandoned")
    /\ UNCHANGED <<active_tasks, total_executed, total_failed>>

OrphanEnds(c) ==
    /\ call[c] = "orphaned"
    /\ Goto(c, "abandoned")
    /\ UNCHANGED <<active_tasks, total_executed, total_failed>>

Next ==
    \E c \in Calls :
        \/ TryAcquire(c) \/ CountIn(c) \/ Lookup(c) \/ Downloaded(c) \/ Compiled(c)
        \/ ModuleFailed(c) \/ Reject(c) \/ RunEnds(c) \/ CountOut(c)
        \/ Cancel(c) \/ OrphanEnds(c)

Spec == Init /\ [][Next]_vars

-----------------------------------------------------------------------------
(* Properties *)

\* Type invariant.
TypeOK ==
    /\ call \in [Calls -> {"idle", "admitted"} \cup Working \cup Ended]
    /\ active_tasks \in Nat
    /\ total_executed \in Nat
    /\ total_failed \in Nat

\* Calls that counted themselves in and never out: at work, or leaked.
Counted == In(Working \cup {"failed", "orphaned", "abandoned"})

\* active_tasks is exactly the calls at work plus the calls that left without
\* counting themselves out, so the saturating_sub never saturates and the
\* number the health probe reports never falls below the load.
ActiveAccounting == active_tasks = Cardinality(Counted)

\* total_executed and total_failed together count each call that counted
\* itself out, once.
ExecutionAccounting == total_executed + total_failed = Cardinality(In({"answered"}))

\* edge-node/src/state.rs line 4, of NodeState.active_tasks: "Number of tasks
\* currently executing."
ActiveIsCurrent == active_tasks = Cardinality(In(Working))
=============================================================================
