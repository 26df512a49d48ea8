------------------------------ MODULE Dispatch ------------------------------
(***************************************************************************)
(* dispatch_task (services/control-plane/src/api/handlers.rs): concurrent  *)
(* task submissions scheduled, sent to edge nodes, retried and recorded,   *)
(* over the node table, the circuit breakers, the connection pool and the  *)
(* one RwLock that guards them all.                                        *)
(*                                                                         *)
(* pc[t] is where task t's future is suspended:                            *)
(*   new       not submitted                                               *)
(*   select    about to take the write lock in select_node_for_task        *)
(*   enqueue   no node found, about to count itself into queued            *)
(*   queued    in the 1 s sleep of a queued task                           *)
(*   dequeue   line 287: holds the read guard of the right-hand side       *)
(*   blocked   line 287: waits for the write lock, still holding the guard *)
(*   picked    has a node after a failed attempt, about to count the retry *)
(*   connect   has a node, about to read the pool's handle off AppState    *)
(*   channel   about to take the pool's own mutex, AppState released       *)
(*   rpc       ExecuteTask call in flight                                  *)
(*   reply_success, reply_failure   outcome in hand, about to report it to *)
(*             the node's breaker                                          *)
(*   store_success, store_failure   about to store the result              *)
(*   done, cancelled                                                       *)
(*                                                                         *)
(* Every other critical section of the lock is one step.  The sleeps are   *)
(* not states of their own, except the queued one, which is visible.       *)
(***************************************************************************)
EXTENDS NodeTable, CircuitBreaker, FiniteSets

CONSTANTS Tasks,
          Batched,           \* tasks of POST /tasks/batch: spawned, never dropped
          Strategy,          \* SCHEDULING_STRATEGY
          MaxAttempts,       \* RetryConfig::max_attempts (3)
          MaxCapacityWaits,  \* MAX_CAPACITY_WAITS (30)
          QueueRetries,      \* selections that may find no node (3)
          BadAddrs           \* registered addresses that are not valid URIs

ASSUME DispatchAssumption ==
    /\ IsFiniteSet(Tasks)
    /\ IsFiniteSet(Nodes)
    /\ Batched \subseteq Tasks
    /\ MaxAttempts \in Nat \ {0}
    /\ MaxCapacityWaits \in Nat
    /\ QueueRetries \in Nat
    /\ BadAddrs \subseteq Addrs

VARIABLES
    \* locals of each dispatch_task
    pc, tried, target, target_addr, error_retries, no_node_count, capacity_waits,
    \* AppState
    breakers,                \* circuit_breakers, or_default for an absent entry
    pool,                    \* connection_pool: address each channel dials
    results,                 \* tasks: results[t]
    total_submitted, total_success, total_failed, total_retried, queued

localVars   == <<tried, target, target_addr, error_retries, no_node_count, capacity_waits>>
counterVars == <<total_submitted, total_success, total_failed, total_retried>>
appState    == <<nodes, breakers, pool, results, counterVars, queued>>
vars        == <<tableVars, pc, localVars, breakers, pool, results, counterVars, queued>>

\* Places at which the task has a node.
AtNode == {"picked", "connect", "channel", "rpc", "reply_success", "reply_failure"}

PC == AtNode \cup {"new", "select", "enqueue", "queued", "dequeue", "blocked",
                   "store_success", "store_failure", "done", "cancelled"}

Init ==
    /\ TableInit
    /\ pc = [t \in Tasks |-> "new"]
    /\ tried = [t \in Tasks |-> {}]
    /\ target = [t \in Tasks |-> None]
    /\ target_addr = [t \in Tasks |-> None]
    /\ error_retries = [t \in Tasks |-> 0]
    /\ no_node_count = [t \in Tasks |-> 0]
    /\ capacity_waits = [t \in Tasks |-> 0]
    /\ breakers = [n \in Nodes |-> DefaultBreaker]
    /\ pool = [n \in Nodes |-> None]
    /\ results = [t \in Tasks |-> "absent"]
    /\ total_submitted = 0
    /\ total_success = 0
    /\ total_failed = 0
    /\ total_retried = 0
    /\ queued = 0

Goto(t, l) == pc' = [pc EXCEPT ![t] = l]

-----------------------------------------------------------------------------
(* The AppState lock, a tokio RwLock: writers wait for every guard, and    *)
(* readers wait behind a queued writer.                                    *)

ReadFree  == \A t \in Tasks : pc[t] # "blocked"
WriteFree == \A t \in Tasks : pc[t] \notin {"dequeue", "blocked"}

-----------------------------------------------------------------------------
(* Scheduling *)

Submit(t) ==
    /\ pc[t] = "new"
    /\ WriteFree
    /\ total_submitted' = total_submitted + 1
    /\ Goto(t, "select")
    /\ UNCHANGED <<tableVars, localVars, breakers, pool, results,
                   total_success, total_failed, total_retried, queued>>

\* Mutant: a task may go back to a node that failed it.
ExcludedForgetsTried(t) == {n \in Nodes : ~AllowsRequest(breakers[n])}

\* Mutant: the breakers are asked and their answers are not used.
ExcludedIgnoresBreakers(t) == tried[t]

Excluded(t) == tried[t] \cup {n \in Nodes : ~AllowsRequest(breakers[n])}

\* select_node_for_task asks every breaker allow_request, with its side
\* effect, before it knows which node it will pick, if any.
Sweep == breakers' = [n \in Nodes |-> AllowRequest(breakers[n])]

SelectNode(t) ==
    /\ pc[t] = "select"
    /\ WriteFree
    /\ Sweep
    /\ \E n \in Picks(Strategy, nodes, Excluded(t)) :
         /\ target' = [target EXCEPT ![t] = n]
         /\ target_addr' = [target_addr EXCEPT ![t] = nodes[n].address]
    /\ Goto(t, IF error_retries[t] > 0 THEN "picked" ELSE "connect")
    /\ UNCHANGED <<tableVars, tried, error_retries, no_node_count, capacity_waits,
                   pool, results, counterVars, queued>>

NoNode(t) ==
    /\ pc[t] = "select"
    /\ WriteFree
    /\ Sweep
    /\ Picks(Strategy, nodes, Excluded(t)) = {}
    /\ no_node_count' = [no_node_count EXCEPT ![t] = @ + 1]
    /\ Goto(t, IF no_node_count[t] + 1 > QueueRetries THEN "store_failure" ELSE "enqueue")
    /\ UNCHANGED <<tableVars, tried, target, target_addr, error_retries, capacity_waits,
                   pool, results, counterVars, queued>>

\* Mutant: the gauge is not raised.
EnqueueUncounted(t) ==
    /\ pc[t] = "enqueue"
    /\ WriteFree
    /\ Goto(t, "queued")
    /\ UNCHANGED <<tableVars, localVars, breakers, pool, results, counterVars, queued>>

\* Mutant: the gauge is lowered on the way in.
EnqueueDecrements(t) ==
    /\ pc[t] = "enqueue"
    /\ WriteFree
    /\ queued' = queued - 1
    /\ Goto(t, "queued")
    /\ UNCHANGED <<tableVars, localVars, breakers, pool, results, counterVars>>

Enqueue(t) ==
    /\ pc[t] = "enqueue"
    /\ WriteFree
    /\ queued' = queued + 1
    /\ Goto(t, "queued")
    /\ UNCHANGED <<tableVars, localVars, breakers, pool, results, counterVars>>

\* Line 287, `state.write().await.queued = state.read().await.queued...`: the
\* right-hand side runs first and its read guard lives to the end of the
\* statement ...
WakeQueued(t) ==
    /\ pc[t] = "queued"
    /\ ReadFree
    /\ Goto(t, "dequeue")
    /\ UNCHANGED <<tableVars, localVars, breakers, pool, results, counterVars, queued>>

\* ... so the task then queues for the write lock while it holds the guard
\* that keeps the lock from ever being granted: no step leads on from here.
BlockOnWrite(t) ==
    /\ pc[t] = "dequeue"
    /\ Goto(t, "blocked")
    /\ UNCHANGED <<tableVars, localVars, breakers, pool, results, counterVars, queued>>

-----------------------------------------------------------------------------
(* Execution *)

CountRetry(t) ==
    /\ pc[t] = "picked"
    /\ WriteFree
    /\ total_retried' = total_retried + 1
    /\ Goto(t, "connect")
    /\ UNCHANGED <<tableVars, localVars, breakers, pool, results,
                   total_submitted, total_success, total_failed, queued>>

\* grpc_execute clones the pool's handle under the read lock and lets go of
\* the lock ...
Connect(t) ==
    /\ pc[t] = "connect"
    /\ ReadFree
    /\ Goto(t, "channel")
    /\ UNCHANGED <<tableVars, localVars, breakers, pool, results, counterVars, queued>>

GetOrCreate(n, a) ==
    IF pool[n] # None \/ a \in BadAddrs THEN pool ELSE [pool EXCEPT ![n] = a]

\* ... before it takes the pool's mutex to look the node's channel up or to
\* create it (no I/O): whoever holds AppState by now does not stop it.
OpenChannel(t) ==
    /\ pc[t] = "channel"
    /\ pool' = GetOrCreate(target[t], target_addr[t])
    /\ Goto(t, "rpc")
    /\ UNCHANGED <<tableVars, localVars, breakers, results, counterVars, queued>>

\* The call reaches whoever serves where the node's channel dials; a server
\* that drains still answers the calls it has.  A task without a channel
\* (invalid address) or a server gets a transport error.
Reached(t) == pool[target[t]] # None /\ Answering(pool[target[t]])

\* What became of the call; the breaker hears of it later.
Reply(t, l) ==
    /\ Goto(t, l)
    /\ UNCHANGED <<tableVars, localVars, breakers, pool, results, counterVars, queued>>

RpcSuccess(t) == pc[t] = "rpc" /\ Reached(t) /\ Reply(t, "reply_success")

\* The node answered success = false: the WASM is invalid, trapped, or
\* exceeded its memory or its time.
ExecutionFailed(t) == pc[t] = "rpc" /\ Reached(t) /\ Reply(t, "reply_failure")

\* Connection refused or lost, or any other gRPC status, such as that of a
\* module that does not download or compile.
TransportFailed(t) == pc[t] = "rpc" /\ Reply(t, "reply_failure")

ReportSuccess(t) ==
    /\ pc[t] = "reply_success"
    /\ WriteFree
    /\ breakers' = [breakers EXCEPT ![target[t]] = RecordSuccess(@)]
    /\ Goto(t, "store_success")
    /\ UNCHANGED <<tableVars, localVars, pool, results, counterVars, queued>>

\* Mutant: the result is stored, and counted, for a task that is retried too.
StoreSuccessTwice(t) ==
    /\ pc[t] = "store_success"
    /\ WriteFree
    /\ results' = [results EXCEPT ![t] = "success"]
    /\ total_success' = total_success + 1
    /\ Goto(t, "select")
    /\ UNCHANGED <<tableVars, localVars, breakers, pool,
                   total_submitted, total_failed, total_retried, queued>>

StoreSuccess(t) ==
    /\ pc[t] = "store_success"
    /\ WriteFree
    /\ results' = [results EXCEPT ![t] = "success"]
    /\ total_success' = total_success + 1
    /\ Goto(t, "done")
    /\ UNCHANGED <<tableVars, localVars, breakers, pool,
                   total_submitted, total_failed, total_retried, queued>>

\* The node chosen for this iteration of the loop goes out of scope.
DropNode(t) ==
    /\ target' = [target EXCEPT ![t] = None]
    /\ target_addr' = [target_addr EXCEPT ![t] = None]

\* Both arms that end a failed attempt mark the node and go round again.
ReportFailure(t) ==
    /\ pc[t] = "reply_failure"
    /\ WriteFree
    /\ tried' = [tried EXCEPT ![t] = @ \cup {target[t]}]
    /\ breakers' = [breakers EXCEPT ![target[t]] = RecordFailure(@)]
    /\ error_retries' = [error_retries EXCEPT ![t] = @ + 1]
    /\ DropNode(t)
    /\ Goto(t, IF error_retries[t] + 1 >= MaxAttempts THEN "store_failure" ELSE "select")
    /\ UNCHANGED <<tableVars, no_node_count, capacity_waits,
                   pool, results, counterVars, queued>>

\* Mutant: the last permitted wait is already refused.
RpcExhaustedOffByOne(t) ==
    /\ pc[t] = "rpc"
    /\ Reached(t)
    /\ capacity_waits' = [capacity_waits EXCEPT ![t] = @ + 1]
    /\ DropNode(t)
    /\ Goto(t, IF capacity_waits[t] + 1 >= MaxCapacityWaits THEN "store_failure" ELSE "select")
    /\ UNCHANGED <<tableVars, tried, error_retries, no_node_count,
                   breakers, pool, results, counterVars, queued>>

\* Mutant: waits for capacity are not counted.
RpcExhaustedForever(t) ==
    /\ pc[t] = "rpc"
    /\ Reached(t)
    /\ DropNode(t)
    /\ Goto(t, "select")
    /\ UNCHANGED <<tableVars, tried, error_retries, no_node_count, capacity_waits,
                   breakers, pool, results, counterVars, queued>>

\* ResourceExhausted: neither the breaker nor tried changes.
RpcExhausted(t) ==
    /\ pc[t] = "rpc"
    /\ Reached(t)
    /\ capacity_waits' = [capacity_waits EXCEPT ![t] = @ + 1]
    /\ DropNode(t)
    /\ Goto(t, IF capacity_waits[t] + 1 > MaxCapacityWaits THEN "store_failure" ELSE "select")
    /\ UNCHANGED <<tableVars, tried, error_retries, no_node_count,
                   breakers, pool, results, counterVars, queued>>

\* Mutant: the failure is counted but its result is not stored.
StoreFailureUnstored(t) ==
    /\ pc[t] = "store_failure"
    /\ WriteFree
    /\ total_failed' = total_failed + 1
    /\ Goto(t, "done")
    /\ UNCHANGED <<tableVars, localVars, breakers, pool, results,
                   total_submitted, total_success, total_retried, queued>>

\* Mutant: the failure is stored without the lock.
StoreFailureUnlocked(t) ==
    /\ pc[t] = "store_failure"
    /\ results' = [results EXCEPT ![t] = "failure"]
    /\ total_failed' = total_failed + 1
    /\ Goto(t, "done")
    /\ UNCHANGED <<tableVars, localVars, breakers, pool,
                   total_submitted, total_success, total_retried, queued>>

\* Both places that give up: out of queueing retries, and out of attempts or
\* waits for capacity.
StoreFailure(t) ==
    /\ pc[t] = "store_failure"
    /\ WriteFree
    /\ results' = [results EXCEPT ![t] = "failure"]
    /\ total_failed' = total_failed + 1
    /\ Goto(t, "done")
    /\ UNCHANGED <<tableVars, localVars, breakers, pool,
                   total_submitted, total_success, total_retried, queued>>

Active(t) == pc[t] \notin {"new", "done", "cancelled"}

\* The client of POST /tasks disconnects and the server drops the handler's
\* future wherever it is suspended, with any guard it holds.
Cancel(t) ==
    /\ t \notin Batched
    /\ Active(t)
    /\ Goto(t, "cancelled")
    /\ UNCHANGED <<tableVars, localVars, breakers, pool, results, counterVars, queued>>

-----------------------------------------------------------------------------
Step(t) ==
    \/ SelectNode(t) \/ NoNode(t) \/ Enqueue(t) \/ WakeQueued(t) \/ BlockOnWrite(t)
    \/ CountRetry(t) \/ Connect(t) \/ OpenChannel(t)
    \/ ReportSuccess(t) \/ ReportFailure(t) \/ StoreSuccess(t) \/ StoreFailure(t)

Rpc(t) == RpcSuccess(t) \/ ExecutionFailed(t) \/ TransportFailed(t) \/ RpcExhausted(t)

Tick ==
    /\ breakers' = [n \in Nodes |-> Elapse(breakers[n])]
    /\ UNCHANGED <<tableVars, pc, localVars, pool, results, counterVars, queued>>

\* The node table under the same lock.
TableStep ==
    /\ \/ EdgeNext
       \/ \E n \in Nodes, a \in Addrs : RegisterNode(n, a) /\ WriteFree
       \/ \E n \in Nodes, a \in Addrs : Probe(n, a)
       \/ StartRound /\ ReadFree
       \/ ApplyProbe /\ WriteFree
    /\ UNCHANGED <<pc, localVars, breakers, pool, results, counterVars, queued>>

Next ==
    \/ \E t \in Tasks : Submit(t) \/ Step(t) \/ Rpc(t) \/ Cancel(t)
    \/ Tick
    \/ TableStep

\* The runtime polls every task that can make progress, every RPC returns,
\* and time passes.
Fairness ==
    /\ \A t \in Tasks : WF_vars(Step(t)) /\ WF_vars(Rpc(t))
    /\ WF_vars(Tick)

Spec == Init /\ [][Next]_vars
FairSpec == Spec /\ Fairness
-----------------------------------------------------------------------------
(* Properties *)

\* Type invariant.
TypeOK ==
    /\ TableTypeOK
    /\ pc \in [Tasks -> PC]
    /\ tried \in [Tasks -> SUBSET Nodes]
    /\ target \in [Tasks -> Nodes \cup {None}]
    /\ target_addr \in [Tasks -> Addrs \cup {None}]
    /\ error_retries \in [Tasks -> Nat]
    /\ no_node_count \in [Tasks -> Nat]
    /\ capacity_waits \in [Tasks -> Nat]
    /\ breakers \in [Nodes -> Breaker]
    /\ pool \in [Nodes -> Addrs \cup {None}]
    /\ results \in [Tasks -> {"absent", "success", "failure"}]
    /\ total_submitted \in Nat
    /\ total_success \in Nat
    /\ total_failed \in Nat
    /\ total_retried \in Nat
    /\ queued \in Nat

Disciplined(t) ==
    /\ error_retries[t] = Cardinality(tried[t])
    /\ pc[t] \in AtNode => target[t] \in Nodes \ tried[t]
    /\ pc[t] = "picked" => error_retries[t] > 0
    /\ pc[t] \in PC \ {"store_failure", "done", "cancelled"} =>
         /\ error_retries[t] < MaxAttempts
         /\ capacity_waits[t] <= MaxCapacityWaits
         /\ no_node_count[t] <= QueueRetries

\* Retries of dispatch_task go to nodes that have not failed the task yet,
\* each failed attempt on one more node, and neither the attempts nor the
\* waits for capacity nor the fruitless selections exceed their limits while
\* the task goes on.
RetryDiscipline == \A t \in Tasks : Disciplined(t)

Exhausted(t) ==
    \/ error_retries[t] = MaxAttempts
    \/ capacity_waits[t] = MaxCapacityWaits + 1
    \/ no_node_count[t] = QueueRetries + 1

\* dispatch_task fails a task only when its attempts, its waits for capacity
\* or its queueing retries are used up.
FailureJustified ==
    \A t \in Tasks : pc[t] = "store_failure" \/ results[t] = "failure" => Exhausted(t)

\* AppState.tasks holds a result for exactly the tasks whose dispatch_task
\* returned.
ResultWhenDone == \A t \in Tasks : results[t] # "absent" <=> pc[t] = "done"

\* Every node's breaker stays consistent under the interleaved sweeps and
\* reports of all tasks.
BreakersConsistent == \A n \in Nodes : Consistent(breakers[n])

\* The counters GET /metrics serves: every submission is counted once, and
\* total_success and total_failed count exactly the stored results, although
\* result and counter are written in another critical section than the
\* breaker's and a client may leave in between.
CountersAgree ==
    /\ total_submitted = Cardinality({t \in Tasks : pc[t] # "new"})
    /\ total_success = Cardinality({t \in Tasks : results[t] = "success"})
    /\ total_failed = Cardinality({t \in Tasks : results[t] = "failure"})

InQueue == {t \in Tasks : pc[t] \in {"queued", "dequeue", "blocked"}}
Cancelled == {t \in Tasks : pc[t] = "cancelled"}

\* AppState.queued counts at least the tasks that wait in the queue, and
\* exceeds them only by tasks whose client left.
QueuedBounds ==
    /\ Cardinality(InQueue) <= queued
    /\ queued <= Cardinality(InQueue) + Cardinality(Cancelled)

\* control-plane/src/state.rs line 38, of AppState.total_retried: "Tasks that
\* were retried at least once."
RetriedCountsTasks == total_retried <= Cardinality({t \in Tasks : error_retries[t] > 0})

Wedged == \E t \in Batched : pc[t] = "blocked"

\* A batch task that reaches the self-deadlock of line 287 stops the whole
\* control plane for good: no node registers, and no health result, breaker
\* report, task result or counter is ever written again.  Failures only grow
\* older.  (Calls past the lock may still open channels.)
WedgeIsPermanent ==
    [][ Wedged => /\ Wedged'
                  /\ UNCHANGED <<nodes, results, counterVars, queued>>
                  /\ \A n \in Nodes : breakers'[n] \in {breakers[n], Elapse(breakers[n])} ]_vars

CoolingDown(n) == breakers[n].state = "Open" /\ ~Cooled(breakers[n])

\* During its cooldown a node whose circuit is open is spared: no task takes
\* it for its target, and its circuit leaves Open only when a call made to it
\* earlier reports its success, whatever sweeps, reports and node churn there are.
OpenNodeSpared ==
    [][ \A n \in Nodes : CoolingDown(n) =>
          /\ \A t \in Tasks : target'[t] = n => target[t] = n
          /\ \/ breakers'[n].state = "Open"
             \/ \E t \in Tasks : /\ pc[t] = "reply_success" /\ target[t] = n
                                 /\ pc'[t] = "store_success" ]_vars

\* Steps from a place in dispatch_task to its end when no attempt fails.
StepsAhead(place) ==
    CASE place = "new"      -> 8
      [] place = "select"   -> 7
      [] place = "picked"   -> 6
      [] place = "connect"  -> 5
      [] place \in {"channel", "enqueue"} -> 4
      [] place \in {"rpc", "queued"}      -> 3
      [] place \in {"reply_success", "reply_failure", "dequeue"} -> 2
      [] place \in {"store_success", "store_failure", "blocked"} -> 1
      [] place \in {"done", "cancelled"}  -> 0

\* Steps a task can still take: six for each failed attempt and wait for
\* capacity that it is still allowed, and those ahead.
StepsLeft(t) ==
    6 * ((MaxAttempts - error_retries[t]) + (MaxCapacityWaits + 1 - capacity_waits[t]))
    + StepsAhead(pc[t])

\* The retry loop of dispatch_task cannot go round for ever: every step of a
\* task uses up some of the steps it has left, of which there are finitely
\* many, and no step of anything else gives it more.
WorkBounded ==
    [][ \A t \in Tasks :
          /\ 0 <= StepsLeft(t)'
          /\ IF pc'[t] = pc[t] THEN StepsLeft(t)' = StepsLeft(t)
                                ELSE StepsLeft(t)' < StepsLeft(t) ]_vars

\* A submitted task settles (result stored, or its client gone) provided no
\* task ever fails to find a node: attempts and capacity waits are bounded.
SettlesUnlessQueued ==
    [](\A t \in Tasks : pc[t] # "enqueue")
        => \A t \in Tasks : Active(t) ~> ~Active(t)

\* SYSTEM_DESIGN.md line 90: "Task queued for up to 3 x 1 s retries, then
\* failed with error".
QueuedTaskSettles == \A t \in Tasks : pc[t] = "queued" ~> ~Active(t)

\* What the task service sees of the dispatcher.
StatusOf(t) ==
    CASE pc[t] = "new"           -> "new"
      [] pc[t] = "cancelled"     -> "abandoned"
      [] results[t] = "success"  -> "succeeded"
      [] results[t] = "failure"  -> "failed"
      [] OTHER                   -> "pending"

TaskStatus == [t \in Tasks |-> StatusOf(t)]

TS == INSTANCE TaskService WITH status <- TaskStatus

\* Every step of the dispatcher is a step of the task service or invisible to
\* it: one final result per task, and counters that agree with the results.
ImplementsTaskService == TS!Spec
=============================================================================
