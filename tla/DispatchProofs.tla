--------------------------- MODULE DispatchProofs ---------------------------
(***************************************************************************)
(* Safety of the dispatcher for any nodes, tasks, strategy and limits.     *)
(*                                                                         *)
(* The inductive invariant is the conjunction of the type invariant, the   *)
(* breakers' consistency, RetryDiscipline, FailureJustified and            *)
(* ResultWhenDone.                                                         *)
(***************************************************************************)
EXTENDS Dispatch, NodeTableProofs, FiniteSetTheorems, TLAPS

USE DEF vars, localVars, counterVars, tableVars, Goto

-----------------------------------------------------------------------------
(* Types *)

\* Types of what dispatch_task itself keeps, breakers apart.
TaskTypeOK ==
    /\ pc \in [Tasks -> PC]
    /\ tried \in [Tasks -> SUBSET Nodes]
    /\ target \in [Tasks -> Nodes \cup {None}]
    /\ target_addr \in [Tasks -> Addrs \cup {None}]
    /\ error_retries \in [Tasks -> Nat]
    /\ no_node_count \in [Tasks -> Nat]
    /\ capacity_waits \in [Tasks -> Nat]
    /\ pool \in [Nodes -> Addrs \cup {None}]
    /\ results \in [Tasks -> {"absent", "success", "failure"}]
    /\ total_submitted \in Nat
    /\ total_success \in Nat
    /\ total_failed \in Nat
    /\ total_retried \in Nat
    /\ queued \in Nat

BreakersOK == breakers \in [Nodes -> Breaker] /\ BreakersConsistent

\* The inductive invariant.
IInv ==
    /\ TableTypeOK
    /\ TaskTypeOK
    /\ BreakersOK
    /\ RetryDiscipline
    /\ FailureJustified
    /\ ResultWhenDone

\* What the scheduler picks is a registered node that is not excluded.
LEMMA PicksAreCandidates ==
  ASSUME TableTypeOK, NEW excluded, NEW n \in Picks(Strategy, nodes, excluded)
  PROVE  n \in Nodes \ excluded /\ nodes[n].address \in Addrs
  BY DEF Picks, LeastLoaded, Available, Candidates, Registered, TableTypeOK, NodeInfo

\* While a task is at a node, that node is one of the registered ids.
LEMMA TargetIsNode ==
  ASSUME IInv, NEW t \in Tasks, pc[t] \in AtNode
  PROVE  target[t] \in Nodes \ tried[t]
  BY DEF IInv, RetryDiscipline, Disciplined

\* Every step keeps the types of the dispatcher's own state.
LEMMA TaskTypes ==
  ASSUME IInv, [Next]_vars PROVE TaskTypeOK'
<1> USE NodesAssumption, DispatchAssumption DEF TaskTypeOK, PC, AtNode
<1>a. TaskTypeOK /\ TableTypeOK
  BY DEF IInv
<1>1. ASSUME NEW t \in Tasks, Submit(t) PROVE TaskTypeOK'
  BY <1>a, <1>1 DEF Submit
<1>2. ASSUME NEW t \in Tasks, SelectNode(t) PROVE TaskTypeOK'
  <2>1. PICK n \in Picks(Strategy, nodes, Excluded(t)) :
          /\ target' = [target EXCEPT ![t] = n]
          /\ target_addr' = [target_addr EXCEPT ![t] = nodes[n].address]
    BY <1>2 DEF SelectNode
  <2>2. n \in Nodes /\ nodes[n].address \in Addrs
    BY <1>a, PicksAreCandidates
  <2>3. QED
    BY <1>a, <1>2, <2>1, <2>2 DEF SelectNode
<1>3. ASSUME NEW t \in Tasks, NoNode(t) PROVE TaskTypeOK'
  BY <1>a, <1>3 DEF NoNode
<1>4. ASSUME NEW t \in Tasks, Enqueue(t) PROVE TaskTypeOK'
  BY <1>a, <1>4 DEF Enqueue
<1>5. ASSUME NEW t \in Tasks, WakeQueued(t) PROVE TaskTypeOK'
  BY <1>a, <1>5 DEF WakeQueued
<1>6. ASSUME NEW t \in Tasks, BlockOnWrite(t) PROVE TaskTypeOK'
  BY <1>a, <1>6 DEF BlockOnWrite
<1>7. ASSUME NEW t \in Tasks, CountRetry(t) \/ Connect(t) PROVE TaskTypeOK'
  BY <1>a, <1>7 DEF CountRetry, Connect
<1>7a. ASSUME NEW t \in Tasks, OpenChannel(t) PROVE TaskTypeOK'
  <2>1. pool' \in [Nodes -> Addrs \cup {None}]
    BY <1>a, <1>7a DEF OpenChannel, GetOrCreate
  <2>2. QED
    BY <1>a, <1>7a, <2>1 DEF OpenChannel
<1>8. ASSUME NEW t \in Tasks, NEW l \in {"reply_success", "reply_failure"}, Reply(t, l)
      PROVE  TaskTypeOK'
  BY <1>a, <1>8 DEF Reply
<1>8a. ASSUME NEW t \in Tasks, ReportSuccess(t) PROVE TaskTypeOK'
  BY <1>a, <1>8a DEF ReportSuccess
<1>9. ASSUME NEW t \in Tasks, StoreSuccess(t) PROVE TaskTypeOK'
  BY <1>a, <1>9 DEF StoreSuccess
<1>10. ASSUME NEW t \in Tasks, ReportFailure(t) PROVE TaskTypeOK'
  <2>1. target[t] \in Nodes
    BY <1>10, TargetIsNode DEF ReportFailure
  <2>2. QED
    BY <1>a, <1>10, <2>1 DEF ReportFailure, DropNode
<1>11. ASSUME NEW t \in Tasks, RpcExhausted(t) PROVE TaskTypeOK'
  BY <1>a, <1>11 DEF RpcExhausted, DropNode
<1>12. ASSUME NEW t \in Tasks, StoreFailure(t) PROVE TaskTypeOK'
  BY <1>a, <1>12 DEF StoreFailure
<1>13. ASSUME NEW t \in Tasks, Cancel(t) PROVE TaskTypeOK'
  BY <1>a, <1>13 DEF Cancel
<1>14. CASE Tick
  BY <1>a, <1>14 DEF Tick
<1>15. CASE TableStep
  BY <1>a, <1>15 DEF TableStep
<1>16. CASE UNCHANGED vars
  BY <1>a, <1>16
<1>17. QED
  BY <1>1, <1>2, <1>3, <1>4, <1>5, <1>6, <1>7, <1>7a, <1>8, <1>8a, <1>9, <1>10, <1>11,
     <1>12, <1>13, <1>14, <1>15, <1>16
  DEF Next, Step, Rpc, RpcSuccess, ExecutionFailed, TransportFailed

-----------------------------------------------------------------------------
(* Breakers *)

\* A new breaker is consistent, and every operation on one keeps it so.
LEMMA BreakerOperations ==
  /\ DefaultBreaker \in Breaker /\ Consistent(DefaultBreaker)
  /\ \A cb \in Breaker : Consistent(cb) =>
       /\ AllowRequest(cb) \in Breaker /\ Consistent(AllowRequest(cb))
       /\ RecordSuccess(cb) \in Breaker /\ Consistent(RecordSuccess(cb))
       /\ RecordFailure(cb) \in Breaker /\ Consistent(RecordFailure(cb))
       /\ Elapse(cb) \in Breaker /\ Consistent(Elapse(cb))
<1> USE BreakerAssumption DEF Breaker, CircuitState, Consistent, NeverFailed
<1>1. DefaultBreaker \in Breaker /\ Consistent(DefaultBreaker)
  BY DEF DefaultBreaker
<1>2. ASSUME NEW cb \in Breaker, Consistent(cb)
      PROVE  AllowRequest(cb) \in Breaker /\ Consistent(AllowRequest(cb))
  BY <1>2 DEF AllowRequest, Cooled
<1>3. ASSUME NEW cb \in Breaker, Consistent(cb)
      PROVE  /\ RecordSuccess(cb) \in Breaker /\ Consistent(RecordSuccess(cb))
             /\ RecordFailure(cb) \in Breaker /\ Consistent(RecordFailure(cb))
  BY <1>3 DEF RecordSuccess, RecordFailure
<1>4. ASSUME NEW cb \in Breaker, Consistent(cb)
      PROVE  Elapse(cb) \in Breaker /\ Consistent(Elapse(cb))
  BY <1>4 DEF Elapse
<1> HIDE DEF Breaker, Consistent
<1> QED
  BY <1>1, <1>2, <1>3, <1>4

\* Sweeps, reports and ticks keep every breaker consistent.
LEMMA BreakersStep ==
  ASSUME IInv, [Next]_vars PROVE BreakersOK'
<1> USE DEF BreakersOK, BreakersConsistent
<1>a. BreakersOK
  BY DEF IInv
<1>b. ASSUME Sweep PROVE BreakersOK'
  BY <1>a, <1>b, BreakerOperations DEF Sweep
<1>1. ASSUME NEW t \in Tasks, SelectNode(t) \/ NoNode(t) PROVE BreakersOK'
  BY <1>b, <1>1 DEF SelectNode, NoNode
<1>2. ASSUME NEW t \in Tasks, ReportSuccess(t) PROVE BreakersOK'
  <2>1. target[t] \in Nodes
    BY <1>2, TargetIsNode DEF ReportSuccess, AtNode
  <2>2. QED
    BY <1>a, <1>2, <2>1, BreakerOperations DEF ReportSuccess
<1>3. ASSUME NEW t \in Tasks, ReportFailure(t) PROVE BreakersOK'
  <2>1. target[t] \in Nodes
    BY <1>3, TargetIsNode DEF ReportFailure, AtNode
  <2>2. QED
    BY <1>a, <1>3, <2>1, BreakerOperations DEF ReportFailure
<1>4. CASE Tick
  BY <1>a, <1>4, BreakerOperations DEF Tick
<1>5. CASE UNCHANGED breakers
  BY <1>a, <1>5
<1>6. QED
  BY <1>1, <1>2, <1>3, <1>4, <1>5
  DEF Next, Step, Rpc, RpcSuccess, ExecutionFailed, TransportFailed, Reply, TableStep,
      Submit, Enqueue, WakeQueued, BlockOnWrite, CountRetry, Connect, OpenChannel,
      StoreSuccess, StoreFailure, RpcExhausted, Cancel

-----------------------------------------------------------------------------
(* Retries *)

\* A task other than the one that moves keeps all of its locals.
LEMMA OthersUnmoved ==
  ASSUME IInv, NEW t \in Tasks, NEW u \in Tasks \ {t},
         Submit(t) \/ Step(t) \/ Rpc(t) \/ Cancel(t)
  PROVE  /\ pc'[u] = pc[u]
         /\ tried'[u] = tried[u]
         /\ target'[u] = target[u]
         /\ error_retries'[u] = error_retries[u]
         /\ no_node_count'[u] = no_node_count[u]
         /\ capacity_waits'[u] = capacity_waits[u]
         /\ results'[u] = results[u]
<1> USE DEF IInv, TaskTypeOK
<1>1. CASE Submit(t) \/ Cancel(t)
  BY <1>1 DEF Submit, Cancel
<1>2. CASE SelectNode(t) \/ NoNode(t)
  BY <1>2 DEF SelectNode, NoNode
<1>3. CASE \/ Enqueue(t) \/ WakeQueued(t) \/ BlockOnWrite(t)
           \/ CountRetry(t) \/ Connect(t) \/ OpenChannel(t)
  BY <1>3 DEF Enqueue, WakeQueued, BlockOnWrite, CountRetry, Connect, OpenChannel
<1>4. CASE StoreSuccess(t) \/ StoreFailure(t) \/ ReportSuccess(t) \/ RpcExhausted(t)
  BY <1>4 DEF StoreSuccess, StoreFailure, ReportSuccess, RpcExhausted, DropNode
<1>5. CASE ReportFailure(t)
  BY <1>5 DEF ReportFailure, DropNode
<1>5a. CASE RpcSuccess(t) \/ ExecutionFailed(t) \/ TransportFailed(t)
  BY <1>5a DEF RpcSuccess, ExecutionFailed, TransportFailed, Reply
<1>6. QED
  BY <1>1, <1>2, <1>3, <1>4, <1>5, <1>5a DEF Step, Rpc

\* A task's own properties.
TaskOK(t) ==
    /\ Disciplined(t)
    /\ pc[t] = "store_failure" \/ results[t] = "failure" => Exhausted(t)
    /\ results[t] # "absent" <=> pc[t] = "done"

\* A step of task t keeps t's own properties.
LEMMA MoverOK ==
  ASSUME IInv, NEW t \in Tasks, Submit(t) \/ Step(t) \/ Rpc(t) \/ Cancel(t)
  PROVE  TaskOK(t)'
<1> USE NodesAssumption, DispatchAssumption
    DEF TaskOK, Disciplined, Exhausted, TaskTypeOK, PC, AtNode
<1>a. TaskOK(t) /\ TaskTypeOK
  BY DEF IInv, RetryDiscipline, FailureJustified, ResultWhenDone
<1>1. CASE Submit(t)
  BY <1>a, <1>1 DEF Submit
<1>2. CASE SelectNode(t)
  <2>1. PICK n \in Picks(Strategy, nodes, Excluded(t)) :
          target' = [target EXCEPT ![t] = n]
    BY <1>2 DEF SelectNode
  <2>2. n \in Nodes \ tried[t]
    BY PicksAreCandidates DEF IInv, Excluded
  <2>3. QED
    BY <1>a, <1>2, <2>1, <2>2 DEF SelectNode
<1>3. CASE NoNode(t)
  BY <1>a, <1>3 DEF NoNode
<1>4. CASE Enqueue(t)
  BY <1>a, <1>4 DEF Enqueue
<1>5. CASE WakeQueued(t)
  BY <1>a, <1>5 DEF WakeQueued
<1>6. CASE BlockOnWrite(t)
  BY <1>a, <1>6 DEF BlockOnWrite
<1>7. CASE CountRetry(t) \/ Connect(t) \/ OpenChannel(t)
  BY <1>a, <1>7 DEF CountRetry, Connect, OpenChannel
<1>8. CASE RpcSuccess(t) \/ ExecutionFailed(t) \/ TransportFailed(t)
  BY <1>a, <1>8 DEF RpcSuccess, ExecutionFailed, TransportFailed, Reply
<1>8a. CASE ReportSuccess(t)
  BY <1>a, <1>8a DEF ReportSuccess
<1>9. CASE StoreSuccess(t)
  BY <1>a, <1>9 DEF StoreSuccess
<1>10. CASE ReportFailure(t)
  <2>1. target[t] \in Nodes /\ target[t] \notin tried[t]
    BY <1>10, TargetIsNode DEF ReportFailure
  <2>2. IsFiniteSet(tried[t])
    BY <1>a, FS_Subset
  <2>3. Cardinality(tried[t] \cup {target[t]}) = Cardinality(tried[t]) + 1
    BY <2>1, <2>2, FS_AddElement
  <2>4. QED
    BY <1>a, <1>10, <2>3 DEF ReportFailure
<1>11. CASE RpcExhausted(t)
  BY <1>a, <1>11 DEF RpcExhausted
<1>12. CASE StoreFailure(t)
  BY <1>a, <1>12 DEF StoreFailure
<1>13. CASE Cancel(t)
  BY <1>a, <1>13 DEF Cancel, Active
<1>14. QED
  BY <1>1, <1>2, <1>3, <1>4, <1>5, <1>6, <1>7, <1>8, <1>8a, <1>9, <1>10, <1>11, <1>12,
     <1>13
  DEF Step, Rpc

\* Every step keeps every task's properties.
LEMMA TasksStep ==
  ASSUME IInv, [Next]_vars
  PROVE  RetryDiscipline' /\ FailureJustified' /\ ResultWhenDone'
<1> SUFFICES ASSUME NEW u \in Tasks PROVE TaskOK(u)'
  BY DEF TaskOK, RetryDiscipline, FailureJustified, ResultWhenDone
<1>a. TaskOK(u)
  BY DEF IInv, TaskOK, RetryDiscipline, FailureJustified, ResultWhenDone
<1>1. ASSUME NEW t \in Tasks, Submit(t) \/ Step(t) \/ Rpc(t) \/ Cancel(t)
      PROVE  TaskOK(u)'
  <2>1. CASE u = t
    BY <1>1, <2>1, MoverOK
  <2>2. CASE u # t
    BY <1>a, <1>1, <2>2, OthersUnmoved DEF TaskOK, Disciplined, Exhausted
  <2>3. QED
    BY <2>1, <2>2
<1>2. CASE UNCHANGED <<pc, localVars, results>>
  BY <1>a, <1>2 DEF TaskOK, Disciplined, Exhausted
<1>3. QED
  BY <1>1, <1>2 DEF Next, Tick, TableStep

-----------------------------------------------------------------------------
(* Safety *)

\* The initial states satisfy the inductive invariant.
LEMMA InitOK == ASSUME Init PROVE IInv
<1> USE DEF Init
<1>1. TableTypeOK
  BY TableInitTypes
<1>2. TaskTypeOK
  BY DEF TaskTypeOK, PC, AtNode
<1>3. BreakersOK
  BY BreakerOperations DEF BreakersOK, BreakersConsistent
<1>4. RetryDiscipline
  BY FS_EmptySet, DispatchAssumption DEF RetryDiscipline, Disciplined, AtNode
<1>5. FailureJustified /\ ResultWhenDone
  BY DEF FailureJustified, ResultWhenDone
<1>6. QED
  BY <1>1, <1>2, <1>3, <1>4, <1>5 DEF IInv

\* Every step preserves the inductive invariant.
LEMMA StepOK == ASSUME IInv, [Next]_vars PROVE IInv'
<1>1. TableTypeOK'
  <2>1. CASE TableStep
    BY <2>1, TableTypes DEF IInv, TableStep, TableNext
  <2>2. CASE UNCHANGED tableVars
    BY <2>2 DEF IInv, TableTypeOK
  <2>3. ASSUME NEW t \in Tasks, Submit(t) \/ Step(t) \/ Rpc(t) \/ Cancel(t)
        PROVE  UNCHANGED tableVars
    BY <2>3 DEF Submit, Step, SelectNode, NoNode, Enqueue, WakeQueued, BlockOnWrite,
       CountRetry, Connect, OpenChannel, ReportSuccess, ReportFailure, StoreSuccess,
       StoreFailure, Rpc, RpcSuccess, ExecutionFailed, TransportFailed, Reply,
       RpcExhausted, Cancel
  <2>4. QED
    BY <2>1, <2>2, <2>3 DEF Next, Tick
<1>2. QED
  BY <1>1, TaskTypes, BreakersStep, TasksStep DEF IInv

\* The dispatcher is well typed, its breakers stay consistent, retries keep
\* to nodes that have not failed the task and to their limits, a task fails
\* only when a limit is used up, and results are stored for exactly the
\* tasks that are done: for all nodes, tasks, strategies and limits.
THEOREM DispatchSafety ==
  Spec => [](/\ TypeOK
             /\ BreakersConsistent
             /\ RetryDiscipline
             /\ FailureJustified
             /\ ResultWhenDone)
<1>1. Init => IInv
  BY InitOK
<1>2. IInv /\ [Next]_vars => IInv'
  BY StepOK
<1>3. IInv => /\ TypeOK
              /\ BreakersConsistent
              /\ RetryDiscipline
              /\ FailureJustified
              /\ ResultWhenDone
  BY DEF IInv, TypeOK, TaskTypeOK, BreakersOK
<1>4. QED
  BY <1>1, <1>2, <1>3, PTL DEF Spec

\* Retries go to nodes that have not failed the task, within their limits.
THEOREM DispatchRetryDiscipline == Spec => []RetryDiscipline
  BY DispatchSafety, PTL

\* A task is failed only when one of its limits is used up.
THEOREM DispatchFailureJustified == Spec => []FailureJustified
  BY DispatchSafety, PTL

\* A result is stored exactly when dispatch_task has returned: no task ends
\* without one, whatever arm of the loop it left by.
THEOREM DispatchResults == Spec => []ResultWhenDone
  BY DispatchSafety, PTL

\* No interleaving of sweeps, reports and ticks makes a breaker inconsistent.
THEOREM DispatchBreakersConsistent == Spec => []BreakersConsistent
  BY DispatchSafety, PTL

-----------------------------------------------------------------------------
(* The self-deadlock of line 287 *)

\* Once a batch task waits for the write lock behind its own read guard, no
\* step of any task, node, probe or request ever writes to AppState again;
\* only the failures the breakers recorded grow older.
THEOREM WedgePermanent == Spec => WedgeIsPermanent
<1> DEFINE Frozen ==
      /\ Wedged'
      /\ UNCHANGED <<nodes, results, counterVars, queued>>
      /\ \A n \in Nodes : breakers'[n] \in {breakers[n], Elapse(breakers[n])}
<1>1. IInv /\ [Next]_vars => [Wedged => Frozen]_vars
  <2> SUFFICES ASSUME IInv, Next, Wedged PROVE Frozen
    OBVIOUS
  <2>1. PICK w \in Batched : pc[w] = "blocked"
    BY DEF Wedged
  <2>2. w \in Tasks /\ ~ReadFree /\ ~WriteFree
    BY <2>1, DispatchAssumption DEF ReadFree, WriteFree
  <2>3. ASSUME NEW t \in Tasks, Submit(t) \/ Step(t) \/ Rpc(t) \/ Cancel(t)
        PROVE  UNCHANGED <<nodes, breakers, results, counterVars, queued>>
    BY <2>2, <2>3 DEF Submit, Step, SelectNode, NoNode, Enqueue, WakeQueued, BlockOnWrite,
       CountRetry, Connect, OpenChannel, ReportSuccess, ReportFailure, StoreSuccess,
       StoreFailure, Rpc, RpcSuccess, ExecutionFailed, TransportFailed, Reply,
       RpcExhausted, Cancel
  <2>4. ASSUME NEW t \in Tasks, Submit(t) \/ Step(t) \/ Rpc(t) \/ Cancel(t)
        PROVE  pc'[w] = "blocked"
    <3>1. CASE t = w
      BY <2>1, <2>2, <2>4, <3>1 DEF Submit, Step, SelectNode, NoNode, Enqueue, WakeQueued,
         BlockOnWrite, CountRetry, Connect, OpenChannel, ReportSuccess, ReportFailure,
         StoreSuccess, StoreFailure, Rpc, RpcSuccess, ExecutionFailed, TransportFailed,
         RpcExhausted, Cancel
    <3>2. CASE t # w
      BY <2>1, <2>2, <2>4, <3>2, OthersUnmoved
    <3>3. QED
      BY <3>1, <3>2
  <2>5. CASE Tick
    BY <2>1, <2>5 DEF Tick, Wedged
  <2>6. CASE TableStep
    <3>1. UNCHANGED nodes
      BY <2>2, <2>6 DEF TableStep, EdgeNext, StartNode, LoseRegistration,
         Listen, Drain, StopNode, Probe
    <3>2. QED
      BY <2>1, <2>6, <3>1 DEF TableStep, Wedged
  <2>7. QED
    BY <2>1, <2>3, <2>4, <2>5, <2>6 DEF Next, Wedged
<1>2. Init => IInv
  BY InitOK
<1>3. IInv /\ [Next]_vars => IInv'
  BY StepOK
<1>4. QED
  BY <1>1, <1>2, <1>3, PTL DEF Spec, WedgeIsPermanent

-----------------------------------------------------------------------------
(* The dispatcher implements the task service *)

\* A step of task t shows in t's status only.
LEMMA StatusMoves ==
  ASSUME IInv, NEW t \in Tasks, Submit(t) \/ Step(t) \/ Rpc(t) \/ Cancel(t)
  PROVE  TaskStatus' = [TaskStatus EXCEPT ![t] = StatusOf(t)']
<1>1. \A u \in Tasks \ {t} : StatusOf(u)' = StatusOf(u)
  BY OthersUnmoved DEF StatusOf
<1>2. QED
  BY <1>1 DEF TaskStatus

\* A step of a task is a step of the task service or leaves it unchanged.
LEMMA MoverImplements ==
  ASSUME IInv, NEW t \in Tasks, Submit(t) \/ Step(t) \/ Rpc(t) \/ Cancel(t)
  PROVE  [TS!Next]_(TS!vars)
<1> USE DEF StatusOf, TaskTypeOK
<1>a. TaskTypeOK /\ (results[t] # "absent" <=> pc[t] = "done")
  BY DEF IInv, ResultWhenDone
<1>b. TaskStatus[t] = StatusOf(t)
  BY DEF TaskStatus
<1>c. TaskStatus \in [Tasks -> {"new", "pending", "succeeded", "failed", "abandoned"}]
  BY DEF TaskStatus
<1>d. TaskStatus' = [TaskStatus EXCEPT ![t] = StatusOf(t)']
  BY StatusMoves
<1>e. ASSUME StatusOf(t)' = StatusOf(t), UNCHANGED <<total_submitted, total_success, total_failed>>
      PROVE  UNCHANGED TS!vars
  BY <1>b, <1>c, <1>d, <1>e DEF TS!vars
<1>1. CASE Submit(t)
  <2>1. StatusOf(t) = "new" /\ StatusOf(t)' = "pending"
    BY <1>a, <1>1 DEF Submit
  <2>2. TS!Submit(t)
    BY <1>1, <1>b, <1>d, <2>1 DEF Submit, TS!Submit
  <2>3. QED
    BY <2>2 DEF TS!Next
<1>2. CASE StoreSuccess(t)
  <2>1. StatusOf(t) = "pending" /\ StatusOf(t)' = "succeeded"
    BY <1>a, <1>2 DEF StoreSuccess
  <2>2. TS!Succeed(t)
    BY <1>2, <1>b, <1>d, <2>1 DEF StoreSuccess, TS!Succeed
  <2>3. QED
    BY <2>2 DEF TS!Next
<1>3. CASE StoreFailure(t)
  <2>1. StatusOf(t) = "pending" /\ StatusOf(t)' = "failed"
    BY <1>a, <1>3 DEF StoreFailure
  <2>2. TS!Fail(t)
    BY <1>3, <1>b, <1>d, <2>1 DEF StoreFailure, TS!Fail
  <2>3. QED
    BY <2>2 DEF TS!Next
<1>4. CASE Cancel(t)
  <2>1. StatusOf(t) = "pending" /\ StatusOf(t)' = "abandoned"
    BY <1>a, <1>4 DEF Cancel, Active
  <2>2. TS!Abandon(t)
    BY <1>4, <1>b, <1>d, <2>1 DEF Cancel, TS!Abandon
  <2>3. QED
    BY <2>2 DEF TS!Next
<1>5. CASE \/ SelectNode(t) \/ NoNode(t) \/ Enqueue(t) \/ WakeQueued(t)
           \/ BlockOnWrite(t) \/ CountRetry(t) \/ Connect(t) \/ OpenChannel(t)
           \/ ReportSuccess(t) \/ ReportFailure(t)
  <2>1. StatusOf(t)' = StatusOf(t)
    BY <1>a, <1>5 DEF SelectNode, NoNode, Enqueue, WakeQueued, BlockOnWrite, CountRetry,
       Connect, OpenChannel, ReportSuccess, ReportFailure
  <2>2. UNCHANGED <<total_submitted, total_success, total_failed>>
    BY <1>5 DEF SelectNode, NoNode, Enqueue, WakeQueued, BlockOnWrite, CountRetry,
       Connect, OpenChannel, ReportSuccess, ReportFailure
  <2>3. QED
    BY <1>e, <2>1, <2>2
<1>6. CASE Rpc(t)
  <2>1. StatusOf(t)' = StatusOf(t)
    BY <1>a, <1>6
    DEF Rpc, RpcSuccess, ExecutionFailed, TransportFailed, Reply, RpcExhausted
  <2>2. UNCHANGED <<total_submitted, total_success, total_failed>>
    BY <1>6 DEF Rpc, RpcSuccess, ExecutionFailed, TransportFailed, Reply, RpcExhausted
  <2>3. QED
    BY <1>e, <2>1, <2>2
<1>7. QED
  BY <1>1, <1>2, <1>3, <1>4, <1>5, <1>6 DEF Step

\* So is every other step: sweeps of the clock and of the node table do not
\* show.
LEMMA StepImplements ==
  ASSUME IInv, [Next]_vars PROVE [TS!Next]_(TS!vars)
<1>1. CASE UNCHANGED <<pc, results, counterVars>>
  BY <1>1 DEF TS!vars, TaskStatus, StatusOf
<1>2. QED
  BY <1>1, MoverImplements DEF Next, Tick, TableStep

\* dispatch_task, with its retries, queue, locks and failing nodes, implements
\* the task service.
THEOREM DispatchImplementsTaskService == Spec => ImplementsTaskService
<1>1. Init => TS!Init
  BY DEF Init, TS!Init, TaskStatus, StatusOf
<1>2. IInv /\ [Next]_vars => [TS!Next]_(TS!vars)
  BY StepImplements
<1>3. Init => IInv
  BY InitOK
<1>4. IInv /\ [Next]_vars => IInv'
  BY StepOK
<1>5. QED
  BY <1>1, <1>2, <1>3, <1>4, PTL DEF Spec, ImplementsTaskService, TS!Spec

-----------------------------------------------------------------------------
(* The queued gauge *)

\* Sets of tasks are finite, and grow and shrink by one element as usual.
LEMMA TaskSets ==
  /\ \A S \in SUBSET Tasks : IsFiniteSet(S) /\ Cardinality(S) \in Nat
  /\ \A S \in SUBSET Tasks : \A t \in Tasks \ S : Cardinality(S \cup {t}) = Cardinality(S) + 1
  /\ \A S \in SUBSET Tasks : \A t \in S : Cardinality(S \ {t}) = Cardinality(S) - 1
<1>1. \A S \in SUBSET Tasks : IsFiniteSet(S) /\ Cardinality(S) \in Nat
  BY DispatchAssumption, FS_Subset, FS_CardinalityType
<1>2. QED
  BY <1>1, FS_AddElement, FS_RemoveElement

\* Every step keeps the gauge between the tasks that wait and the tasks that
\* wait or were dropped.
LEMMA QueuedStep ==
  ASSUME IInv, QueuedBounds, [Next]_vars PROVE QueuedBounds'
<1> USE DEF QueuedBounds
<1>a. /\ pc \in [Tasks -> PC]
      /\ queued \in Nat
      /\ InQueue \in SUBSET Tasks
      /\ Cancelled \in SUBSET Tasks
  BY DEF IInv, TaskTypeOK, InQueue, Cancelled
<1>b. ASSUME InQueue' = InQueue, Cancelled' = Cancelled, queued' = queued
      PROVE  QueuedBounds'
  BY <1>b
<1>1. ASSUME NEW t \in Tasks, Enqueue(t) PROVE QueuedBounds'
  <2>1. InQueue' = InQueue \cup {t} /\ t \notin InQueue /\ Cancelled' = Cancelled
    BY <1>a, <1>1 DEF Enqueue, InQueue, Cancelled
  <2>2. Cardinality(InQueue') = Cardinality(InQueue) + 1
    BY <1>a, <2>1, TaskSets
  <2>3. queued' = queued + 1
    BY <1>1 DEF Enqueue
  <2>4. Cardinality(InQueue) \in Nat /\ Cardinality(Cancelled) \in Nat
    BY <1>a, TaskSets
  <2>5. QED
    BY <1>a, <2>1, <2>2, <2>3, <2>4
<1>2. ASSUME NEW t \in Tasks, Cancel(t) PROVE QueuedBounds'
  <2>1. Cancelled' = Cancelled \cup {t} /\ t \notin Cancelled
    BY <1>a, <1>2 DEF Cancel, Active, Cancelled
  <2>2. Cardinality(Cancelled') = Cardinality(Cancelled) + 1
    BY <1>a, <2>1, TaskSets
  <2>3. queued' = queued /\ Cardinality(InQueue) \in Nat /\ Cardinality(Cancelled) \in Nat
    BY <1>a, <1>2, TaskSets DEF Cancel
  <2>4. CASE t \in InQueue
    <3>1. InQueue' = InQueue \ {t}
      BY <1>a, <1>2 DEF Cancel, InQueue
    <3>2. Cardinality(InQueue') = Cardinality(InQueue) - 1
      BY <1>a, <2>4, <3>1, TaskSets
    <3>3. QED
      BY <1>a, <2>2, <2>3, <3>2
  <2>5. CASE t \notin InQueue
    <3>1. InQueue' = InQueue
      BY <1>a, <1>2, <2>5 DEF Cancel, InQueue
    <3>2. QED
      BY <1>a, <2>2, <2>3, <3>1
  <2>6. QED
    BY <2>4, <2>5
<1>3. ASSUME NEW t \in Tasks,
             \/ Submit(t) \/ SelectNode(t) \/ NoNode(t) \/ CountRetry(t) \/ Connect(t)
             \/ OpenChannel(t) \/ ReportSuccess(t) \/ ReportFailure(t) \/ WakeQueued(t)
             \/ BlockOnWrite(t) \/ StoreSuccess(t) \/ StoreFailure(t)
      PROVE  QueuedBounds'
  <2>1. InQueue' = InQueue /\ Cancelled' = Cancelled
    BY <1>a, <1>3 DEF Submit, SelectNode, NoNode, CountRetry, Connect, OpenChannel, ReportSuccess,
       ReportFailure, WakeQueued, BlockOnWrite, StoreSuccess, StoreFailure, InQueue, Cancelled
  <2>2. queued' = queued
    BY <1>3 DEF Submit, SelectNode, NoNode, CountRetry, Connect, OpenChannel, ReportSuccess,
       ReportFailure, WakeQueued, BlockOnWrite, StoreSuccess, StoreFailure
  <2>3. QED
    BY <1>b, <2>1, <2>2
<1>4. ASSUME NEW t \in Tasks, Rpc(t) PROVE QueuedBounds'
  <2>1. InQueue' = InQueue /\ Cancelled' = Cancelled
    BY <1>a, <1>4 DEF Rpc, RpcSuccess, ExecutionFailed, TransportFailed, Reply,
       RpcExhausted, InQueue, Cancelled
  <2>2. queued' = queued
    BY <1>4 DEF Rpc, RpcSuccess, ExecutionFailed, TransportFailed, Reply, RpcExhausted
  <2>3. QED
    BY <1>b, <2>1, <2>2
<1>5. CASE UNCHANGED <<pc, queued>>
  BY <1>b, <1>5 DEF InQueue, Cancelled
<1>6. QED
  BY <1>1, <1>2, <1>3, <1>4, <1>5 DEF Next, Step, Tick, TableStep

\* AppState.queued is never below the number of queued tasks, and above it by
\* no more than the number of dropped ones.
THEOREM QueuedGauge == Spec => []QueuedBounds
<1>1. Init => IInv /\ QueuedBounds
  <2> SUFFICES ASSUME Init PROVE QueuedBounds
    BY InitOK
  <2>1. InQueue = {} /\ Cancelled = {}
    BY DEF Init, InQueue, Cancelled
  <2>2. QED
    BY <2>1, FS_EmptySet DEF Init, QueuedBounds
<1>2. IInv /\ QueuedBounds /\ [Next]_vars => (IInv /\ QueuedBounds)'
  BY StepOK, QueuedStep
<1>3. QED
  BY <1>1, <1>2, PTL DEF Spec

-----------------------------------------------------------------------------
(* The counters *)

Submitted == {t \in Tasks : pc[t] # "new"}
With(result) == {t \in Tasks : results[t] = result}

\* Every step counts what it does to the submissions and to the results.
LEMMA CountersStep ==
  ASSUME IInv, CountersAgree, [Next]_vars PROVE CountersAgree'
<1> USE DEF CountersAgree, Submitted, With
<1>a. /\ pc \in [Tasks -> PC] /\ results \in [Tasks -> {"absent", "success", "failure"}]
      /\ \A t \in Tasks : results[t] # "absent" <=> pc[t] = "done"
  BY DEF IInv, TaskTypeOK, ResultWhenDone
<1>b. ASSUME Submitted' = Submitted, UNCHANGED <<results, total_submitted, total_success, total_failed>>
      PROVE  CountersAgree'
  BY <1>b
<1>1. ASSUME NEW t \in Tasks, Submit(t) PROVE CountersAgree'
  <2>1. Submitted' = Submitted \cup {t} /\ t \in Tasks \ Submitted /\ Submitted \in SUBSET Tasks
    BY <1>a, <1>1 DEF Submit
  <2>2. Cardinality(Submitted') = Cardinality(Submitted) + 1
    BY <2>1, TaskSets
  <2> QED
    BY <1>1, <2>2 DEF Submit
<1>2. ASSUME NEW t \in Tasks, StoreSuccess(t) PROVE CountersAgree'
  <2>1. /\ With("success")' = With("success") \cup {t} /\ t \in Tasks \ With("success")
        /\ With("success") \in SUBSET Tasks
        /\ With("failure")' = With("failure")
        /\ Submitted' = Submitted
    BY <1>a, <1>2 DEF StoreSuccess
  <2>2. Cardinality(With("success")') = Cardinality(With("success")) + 1
    BY <2>1, TaskSets
  <2> QED
    BY <1>2, <2>1, <2>2 DEF StoreSuccess
<1>3. ASSUME NEW t \in Tasks, StoreFailure(t) PROVE CountersAgree'
  <2>1. /\ With("failure")' = With("failure") \cup {t} /\ t \in Tasks \ With("failure")
        /\ With("failure") \in SUBSET Tasks
        /\ With("success")' = With("success")
        /\ Submitted' = Submitted
    BY <1>a, <1>3 DEF StoreFailure
  <2>2. Cardinality(With("failure")') = Cardinality(With("failure")) + 1
    BY <2>1, TaskSets
  <2> QED
    BY <1>3, <2>1, <2>2 DEF StoreFailure
<1>4. ASSUME NEW t \in Tasks,
             \/ SelectNode(t) \/ NoNode(t) \/ Enqueue(t) \/ WakeQueued(t)
             \/ BlockOnWrite(t) \/ CountRetry(t) \/ Connect(t) \/ OpenChannel(t)
             \/ ReportSuccess(t) \/ ReportFailure(t) \/ Cancel(t)
      PROVE  CountersAgree'
  <2>1. Submitted' = Submitted
    BY <1>a, <1>4 DEF SelectNode, NoNode, Enqueue, WakeQueued, BlockOnWrite, CountRetry,
       Connect, OpenChannel, ReportSuccess, ReportFailure, Cancel, Active
  <2>2. UNCHANGED <<results, total_submitted, total_success, total_failed>>
    BY <1>4 DEF SelectNode, NoNode, Enqueue, WakeQueued, BlockOnWrite, CountRetry, Connect,
       OpenChannel, ReportSuccess, ReportFailure, Cancel
  <2> QED
    BY <1>b, <2>1, <2>2
<1>5. ASSUME NEW t \in Tasks, Rpc(t) PROVE CountersAgree'
  <2>1. Submitted' = Submitted
    BY <1>a, <1>5 DEF Rpc, RpcSuccess, ExecutionFailed, TransportFailed, Reply,
       RpcExhausted
  <2>2. UNCHANGED <<results, total_submitted, total_success, total_failed>>
    BY <1>5 DEF Rpc, RpcSuccess, ExecutionFailed, TransportFailed, Reply, RpcExhausted
  <2> QED
    BY <1>b, <2>1, <2>2
<1>6. CASE UNCHANGED <<pc, results, total_submitted, total_success, total_failed>>
  BY <1>b, <1>6
<1> QED
  BY <1>1, <1>2, <1>3, <1>4, <1>5, <1>6 DEF Next, Step, Tick, TableStep

\* The counters of AppState agree with the stored results in every reachable
\* state, for every finite set of tasks.
THEOREM DispatchCounters == Spec => []CountersAgree
<1>1. Init => IInv /\ CountersAgree
  <2> SUFFICES ASSUME Init PROVE CountersAgree
    BY InitOK
  <2>1. Submitted = {} /\ With("success") = {} /\ With("failure") = {}
    BY DEF Init, Submitted, With
  <2> QED
    BY <2>1, FS_EmptySet DEF Init, CountersAgree, Submitted, With
<1>2. IInv /\ CountersAgree /\ [Next]_vars => (IInv /\ CountersAgree)'
  BY StepOK, CountersStep
<1> QED
  BY <1>1, <1>2, PTL DEF Spec

-----------------------------------------------------------------------------
(* The retry counter.  A sum over the tasks is counted as a set of pairs. *)

Cells(a, b) == UNION {{t} \X (a .. b[t]) : t \in Tasks}

\* Finitely many tasks have finitely many cells.
LEMMA CellsFinite ==
  ASSUME NEW a \in Nat, NEW b \in [Tasks -> Nat]
  PROVE  IsFiniteSet(Cells(a, b)) /\ Cardinality(Cells(a, b)) \in Nat
<1> DEFINE F == [t \in Tasks |-> {t} \X (a .. b[t])]
           R == {{t} \X (a .. b[t]) : t \in Tasks}
<1>1. F \in Surjection(Tasks, R)
  BY DEF Surjection
<1>2. IsFiniteSet(R)
  BY <1>1, DispatchAssumption, FS_Surjection
<1>3. ASSUME NEW t \in Tasks PROVE IsFiniteSet({t} \X (a .. b[t]))
  <2>1. IsFiniteSet({t})
    BY FS_Singleton
  <2>2. IsFiniteSet(a .. b[t])
    BY FS_Interval
  <2> QED
    BY <2>1, <2>2, FS_Product
<1>4. IsFiniteSet(UNION R)
  BY <1>2, <1>3, FS_UNION
<1> QED
  BY <1>4, FS_CardinalityType DEF Cells

\* More for every task is more in all.
LEMMA CellsMonotone ==
  ASSUME NEW a \in Nat, NEW b \in [Tasks -> Nat], NEW c \in [Tasks -> Nat],
         \A t \in Tasks : b[t] <= c[t]
  PROVE  Cardinality(Cells(a, b)) <= Cardinality(Cells(a, c))
<1>1. Cells(a, b) \subseteq Cells(a, c)
  BY DEF Cells
<1> QED
  BY <1>1, CellsFinite, FS_Subset

\* One more for one task is one more in all.
LEMMA CellsGrow ==
  ASSUME NEW a \in Nat, NEW b \in [Tasks -> Nat], NEW c \in [Tasks -> Nat],
         NEW t \in Tasks, c[t] = b[t] + 1, a <= c[t],
         \A u \in Tasks \ {t} : c[u] = b[u]
  PROVE  Cardinality(Cells(a, c)) = Cardinality(Cells(a, b)) + 1
<1> DEFINE x == <<t, c[t]>>
<1>1. x \notin Cells(a, b)
  BY DEF Cells
<1>2. \A u \in Tasks : {u} \X (a .. c[u]) = IF u = t THEN ({u} \X (a .. b[u])) \cup {x}
                                             ELSE {u} \X (a .. b[u])
  <2>1. a .. c[t] = (a .. b[t]) \cup {c[t]}
    OBVIOUS
  <2>2. {t} \X (a .. c[t]) = ({t} \X (a .. b[t])) \cup {x}
    BY <2>1
  <2> QED
    BY <2>2
<1>3. Cells(a, c) = Cells(a, b) \cup {x}
  BY <1>2 DEF Cells
<1> QED
  BY <1>1, <1>3, CellsFinite, FS_AddElement

\* Failed attempts but the first of each task, and all attempts and waits of
\* the tasks that had a failed one: one pair for each.
FailedAgain == UNION {{t} \X (2 .. error_retries[t]) : t \in Tasks}
Attempted == UNION {{t} \X (1 .. error_retries[t] + capacity_waits[t]) :
                       t \in {u \in Tasks : error_retries[u] > 0}}

\* What AppState.total_retried counts, which is attempts and not tasks: every
\* failed attempt of a task but the first adds one, and a wait for capacity
\* after a failure may add another; tasks that only waited add nothing.
RetriedBounds ==
    /\ Cardinality(FailedAgain) <= total_retried
    /\ total_retried <= Cardinality(Attempted)

\* What task t has added to total_retried at least, plus one, and at most: an
\* attempt is counted before its call is made, and may be cut off.
LoOf(t) == IF error_retries[t] = 0 THEN 1
           ELSE error_retries[t] + (IF pc[t] \in AtNode \ {"picked"} THEN 1 ELSE 0)
HiOf(t) == IF error_retries[t] = 0 THEN 0
           ELSE error_retries[t] - 1 + capacity_waits[t]
                + (IF pc[t] \in (AtNode \ {"picked"}) \cup {"store_success", "done", "cancelled"}
                   THEN 1 ELSE 0)
Lo == [t \in Tasks |-> LoOf(t)]
Hi == [t \in Tasks |-> HiOf(t)]

\* The inductive form of RetriedBounds.
RetriedInv ==
    /\ Cardinality(Cells(2, Lo)) <= total_retried
    /\ total_retried <= Cardinality(Cells(1, Hi))

LEMMA LoHiTypes == ASSUME IInv PROVE Lo \in [Tasks -> Nat] /\ Hi \in [Tasks -> Nat]
<1>1. ASSUME NEW t \in Tasks PROVE LoOf(t) \in Nat /\ HiOf(t) \in Nat
  <2>1. error_retries[t] \in Nat /\ capacity_waits[t] \in Nat
    BY DEF IInv, TaskTypeOK
  <2> QED
    BY <2>1 DEF LoOf, HiOf
<1> QED
  BY <1>1 DEF Lo, Hi

\* Only CountRetry counts: any other step of t can only lower
\* what t must have added and raise what it may have added.
LEMMA MoverRetries ==
  ASSUME IInv, NEW t \in Tasks, Submit(t) \/ Step(t) \/ Rpc(t) \/ Cancel(t)
  PROVE  \/ /\ LoOf(t)' <= LoOf(t) /\ HiOf(t) <= HiOf(t)'
            /\ total_retried' = total_retried
         \/ /\ LoOf(t)' = LoOf(t) + 1 /\ LoOf(t)' >= 2 /\ HiOf(t)' = HiOf(t) + 1
            /\ total_retried' = total_retried + 1
<1> USE DEF LoOf, HiOf, AtNode
<1>a. /\ error_retries \in [Tasks -> Nat] /\ capacity_waits \in [Tasks -> Nat]
      /\ pc \in [Tasks -> PC] /\ error_retries[t] \in Nat /\ capacity_waits[t] \in Nat
      /\ pc[t] = "picked" => error_retries[t] > 0
  BY DEF IInv, TaskTypeOK, RetryDiscipline, Disciplined
<1>1. CASE Submit(t) \/ Cancel(t)
  BY <1>1, <1>a DEF Submit, Cancel, Active
<1>2. CASE SelectNode(t) \/ NoNode(t) \/ Enqueue(t) \/ WakeQueued(t) \/ BlockOnWrite(t)
  BY <1>2, <1>a DEF SelectNode, NoNode, Enqueue, WakeQueued, BlockOnWrite
<1>3. CASE StoreSuccess(t) \/ StoreFailure(t) \/ ReportSuccess(t)
  BY <1>3, <1>a DEF StoreSuccess, StoreFailure, ReportSuccess
<1>4. CASE RpcExhausted(t)
  BY <1>4, <1>a DEF RpcExhausted
<1>5. CASE ReportFailure(t)
  <2>1. /\ error_retries'[t] = error_retries[t] + 1
        /\ capacity_waits'[t] = capacity_waits[t]
        /\ pc[t] = "reply_failure" /\ pc'[t] \in {"select", "store_failure"}
        /\ total_retried' = total_retried
    BY <1>5, <1>a DEF ReportFailure
  <2> QED
    BY <1>5, <1>a, <2>1
<1>6. CASE Connect(t) \/ OpenChannel(t)
  BY <1>6, <1>a DEF Connect, OpenChannel
<1>7. CASE RpcSuccess(t) \/ ExecutionFailed(t) \/ TransportFailed(t)
  BY <1>7, <1>a DEF RpcSuccess, ExecutionFailed, TransportFailed, Reply
<1>8. CASE CountRetry(t)
  BY <1>8, <1>a DEF CountRetry
<1> QED
  BY <1>1, <1>2, <1>3, <1>4, <1>5, <1>6, <1>7, <1>8 DEF Step, Rpc

LEMMA RetriedStep == ASSUME IInv, RetriedInv, [Next]_vars PROVE RetriedInv'
<1> USE DEF RetriedInv
<1>a. /\ Lo \in [Tasks -> Nat] /\ Lo' \in [Tasks -> Nat]
      /\ Hi \in [Tasks -> Nat] /\ Hi' \in [Tasks -> Nat]
      /\ total_retried \in Nat
  <2>1. (IInv => Lo \in [Tasks -> Nat] /\ Hi \in [Tasks -> Nat])'
    BY LoHiTypes, PTL
  <2> QED
    BY <2>1, StepOK, LoHiTypes DEF IInv, TaskTypeOK
<1>b. /\ Cardinality(Cells(2, Lo)) \in Nat /\ Cardinality(Cells(2, Lo')) \in Nat
      /\ Cardinality(Cells(1, Hi)) \in Nat /\ Cardinality(Cells(1, Hi')) \in Nat
  BY <1>a, CellsFinite
<1>c. Cells(2, Lo)' = Cells(2, Lo') /\ Cells(1, Hi)' = Cells(1, Hi')
  BY DEF Cells
<1>1. ASSUME NEW t \in Tasks, Submit(t) \/ Step(t) \/ Rpc(t) \/ Cancel(t)
      PROVE  RetriedInv'
  <2>1. ASSUME NEW u \in Tasks \ {t} PROVE Lo'[u] = Lo[u] /\ Hi'[u] = Hi[u]
    BY <1>1, OthersUnmoved DEF Lo, Hi, LoOf, HiOf
  <2>2. Lo[t] = LoOf(t) /\ Lo'[t] = LoOf(t)' /\ Hi[t] = HiOf(t) /\ Hi'[t] = HiOf(t)'
    BY DEF Lo, Hi
  <2>3. CASE /\ LoOf(t)' <= LoOf(t) /\ HiOf(t) <= HiOf(t)'
             /\ total_retried' = total_retried
    <3>1. \A u \in Tasks : Lo'[u] <= Lo[u] /\ Hi[u] <= Hi'[u]
      BY <1>a, <2>1, <2>2, <2>3
    <3>2. /\ Cardinality(Cells(2, Lo')) <= Cardinality(Cells(2, Lo))
          /\ Cardinality(Cells(1, Hi)) <= Cardinality(Cells(1, Hi'))
      BY <1>a, <3>1, CellsMonotone
    <3> QED
      BY <1>a, <1>b, <1>c, <2>3, <3>2
  <2>4. CASE /\ LoOf(t)' = LoOf(t) + 1 /\ LoOf(t)' >= 2 /\ HiOf(t)' = HiOf(t) + 1
             /\ total_retried' = total_retried + 1
    <3>1. Hi'[t] >= 1 /\ Lo'[t] >= 2
      BY <1>a, <2>2, <2>4
    <3>2. Cardinality(Cells(2, Lo')) = Cardinality(Cells(2, Lo)) + 1
      BY <1>a, <2>1, <2>2, <2>4, <3>1, CellsGrow
    <3>3. Cardinality(Cells(1, Hi')) = Cardinality(Cells(1, Hi)) + 1
      BY <1>a, <2>1, <2>2, <2>4, <3>1, CellsGrow
    <3> QED
      BY <1>a, <1>b, <1>c, <2>4, <3>2, <3>3
  <2> QED
    BY <1>1, <2>3, <2>4, MoverRetries
<1>2. CASE UNCHANGED <<pc, error_retries, capacity_waits, total_retried>>
  <2>1. Lo' = Lo /\ Hi' = Hi
    BY <1>2 DEF Lo, Hi, LoOf, HiOf
  <2> QED
    BY <1>2, <1>c, <2>1
<1> QED
  BY <1>1, <1>2 DEF Next, Tick, TableStep

\* The inductive form implies the bounds.
LEMMA RetriedInvBounds == ASSUME IInv, RetriedInv PROVE RetriedBounds
<1> DEFINE er == error_retries
           all == [t \in Tasks |-> IF er[t] > 0 THEN er[t] + capacity_waits[t] ELSE 0]
<1>1. er \in [Tasks -> Nat] /\ capacity_waits \in [Tasks -> Nat] /\ total_retried \in Nat
  BY DEF IInv, TaskTypeOK
<1>2. /\ Lo \in [Tasks -> Nat] /\ Hi \in [Tasks -> Nat] /\ all \in [Tasks -> Nat]
  BY <1>1, LoHiTypes
<1>3. FailedAgain = Cells(2, er)
  BY DEF FailedAgain, Cells
<1>4. Attempted = Cells(1, all)
  <2>1. ASSUME NEW t \in Tasks, ~(er[t] > 0) PROVE {t} \X (1 .. all[t]) = {}
    BY <1>1, <2>1
  <2>2. ASSUME NEW t \in Tasks, er[t] > 0 PROVE all[t] = er[t] + capacity_waits[t]
    BY <2>2
  <2> HIDE DEF all
  <2> QED
    BY <2>1, <2>2 DEF Attempted, Cells
<1>5. Cardinality(Cells(2, er)) <= Cardinality(Cells(2, Lo))
  <2>1. \A t \in Tasks : er[t] <= Lo[t]
    BY <1>1 DEF Lo, LoOf
  <2> QED
    BY <1>1, <1>2, <2>1, CellsMonotone
<1>6. Cardinality(Cells(1, Hi)) <= Cardinality(Cells(1, all))
  <2>1. \A t \in Tasks : Hi[t] <= all[t]
    BY <1>1 DEF Hi, HiOf
  <2> HIDE DEF all
  <2> QED
    BY <1>2, <2>1, CellsMonotone
<1>7. /\ Cardinality(Cells(2, er)) \in Nat /\ Cardinality(Cells(2, Lo)) \in Nat
      /\ Cardinality(Cells(1, Hi)) \in Nat /\ Cardinality(Cells(1, all)) \in Nat
  BY <1>1, <1>2, CellsFinite
<1> HIDE DEF er, all
<1> QED
  BY <1>1, <1>3, <1>4, <1>5, <1>6, <1>7 DEF RetriedInv, RetriedBounds

\* total_retried lies between the failed attempts that followed another one
\* and all attempts and waits of the tasks that had a failed one, for any
\* number of tasks and any limits.
THEOREM DispatchRetried == Spec => []RetriedBounds
<1>1. Init => IInv /\ RetriedInv
  <2> SUFFICES ASSUME Init PROVE RetriedInv
    BY InitOK
  <2>1. \A t \in Tasks : Lo[t] = 1 /\ Hi[t] = 0
    BY DEF Init, Lo, Hi, LoOf, HiOf
  <2>2. Cells(2, Lo) = {} /\ Cells(1, Hi) = {}
    BY <2>1 DEF Cells
  <2> QED
    BY <2>2, FS_EmptySet DEF Init, RetriedInv
<1>2. IInv /\ RetriedInv /\ [Next]_vars => (IInv /\ RetriedInv)'
  BY StepOK, RetriedStep
<1>3. IInv /\ RetriedInv => RetriedBounds
  BY RetriedInvBounds
<1> QED
  BY <1>1, <1>2, <1>3, PTL DEF Spec

-----------------------------------------------------------------------------
(* Open circuits *)

\* A step of a task makes no spared node the target of any task.
LEMMA TargetsSpared ==
  ASSUME IInv, NEW t \in Tasks, Submit(t) \/ Step(t) \/ Rpc(t) \/ Cancel(t),
         NEW n \in Nodes, CoolingDown(n), NEW u \in Tasks, target'[u] = n
  PROVE  target[u] = n
<1>a. target \in [Tasks -> Nodes \cup {None}] /\ n # None
  BY NodesAssumption DEF IInv, TaskTypeOK
<1>1. CASE u # t
  BY <1>1, OthersUnmoved
<1>2. CASE u = t /\ SelectNode(t)
  <2>1. PICK m \in Picks(Strategy, nodes, Excluded(t)) :
          target' = [target EXCEPT ![t] = m]
    BY <1>2 DEF SelectNode
  <2>2. m \notin Excluded(t)
    BY PicksAreCandidates DEF IInv
  <2>3. m = n
    BY <1>2, <1>a, <2>1
  <2>4. n \in Excluded(t)
    BY DEF CoolingDown, Excluded, AllowsRequest
  <2> QED
    BY <2>2, <2>3, <2>4
<1>3. CASE u = t /\ (ReportFailure(t) \/ RpcExhausted(t))
  BY <1>3, <1>a DEF ReportFailure, RpcExhausted, DropNode
<1>4. CASE UNCHANGED target
  BY <1>4
<1> QED
  BY <1>1, <1>2, <1>3, <1>4
  DEF Submit, Step, Rpc, RpcSuccess, ExecutionFailed, TransportFailed, Reply, NoNode,
      Enqueue, WakeQueued, BlockOnWrite, CountRetry, Connect, OpenChannel, ReportSuccess,
      StoreSuccess, StoreFailure, Cancel

\* A step of a task takes a spared node's circuit out of Open only with the
\* report of a success.
LEMMA CircuitSpared ==
  ASSUME IInv, NEW t \in Tasks, Submit(t) \/ Step(t) \/ Rpc(t) \/ Cancel(t),
         NEW n \in Nodes, CoolingDown(n)
  PROVE  \/ breakers'[n].state = "Open"
         \/ pc[t] = "reply_success" /\ target[t] = n /\ pc'[t] = "store_success"
<1>a. /\ breakers \in [Nodes -> Breaker] /\ breakers[n] \in Breaker
      /\ breakers[n].state = "Open" /\ ~Cooled(breakers[n])
      /\ pc \in [Tasks -> PC]
  BY DEF IInv, BreakersOK, CoolingDown, TaskTypeOK
<1>1. CASE SelectNode(t) \/ NoNode(t)
  BY <1>a, <1>1 DEF SelectNode, NoNode, Sweep, AllowRequest
<1>2. CASE ReportSuccess(t)
  BY <1>a, <1>2 DEF ReportSuccess
<1>3. CASE ReportFailure(t)
  BY <1>a, <1>3 DEF ReportFailure, RecordFailure
<1>4. CASE UNCHANGED breakers
  BY <1>a, <1>4
<1> QED
  BY <1>1, <1>2, <1>3, <1>4
  DEF Submit, Step, Rpc, RpcSuccess, ExecutionFailed, TransportFailed, Reply, Enqueue,
      WakeQueued, BlockOnWrite, CountRetry, Connect, OpenChannel, StoreSuccess,
      StoreFailure, RpcExhausted, Cancel

\* While its circuit cools down a node gets no new task, and the circuit
\* leaves Open only when an earlier call reports its success: for any number of
\* tasks and nodes, any threshold and any cooldown.
THEOREM DispatchSparesOpenNodes == Spec => OpenNodeSpared
<1> DEFINE Spared ==
      \A n \in Nodes : CoolingDown(n) =>
        /\ \A t \in Tasks : target'[t] = n => target[t] = n
        /\ \/ breakers'[n].state = "Open"
           \/ \E t \in Tasks : /\ pc[t] = "reply_success" /\ target[t] = n
                               /\ pc'[t] = "store_success"
<1>1. Init => IInv
  BY InitOK
<1>2. IInv /\ [Next]_vars => IInv'
  BY StepOK
<1>3. IInv /\ [Next]_vars => [Spared]_vars
  <2> SUFFICES ASSUME IInv, [Next]_vars, NEW n \in Nodes, CoolingDown(n)
               PROVE  /\ \A t \in Tasks : target'[t] = n => target[t] = n
                      /\ \/ breakers'[n].state = "Open"
                         \/ \E t \in Tasks : /\ pc[t] = "reply_success" /\ target[t] = n
                                             /\ pc'[t] = "store_success"
    OBVIOUS
  <2>1. ASSUME NEW t \in Tasks, Submit(t) \/ Step(t) \/ Rpc(t) \/ Cancel(t)
        PROVE  /\ \A u \in Tasks : target'[u] = n => target[u] = n
               /\ \/ breakers'[n].state = "Open"
                  \/ pc[t] = "reply_success" /\ target[t] = n /\ pc'[t] = "store_success"
    BY <2>1, TargetsSpared, CircuitSpared
  <2>2. CASE Tick
    BY <2>2 DEF Tick, Elapse, CoolingDown, IInv, BreakersOK, Breaker
  <2>3. CASE UNCHANGED <<target, breakers>>
    BY <2>3 DEF CoolingDown
  <2> QED
    BY <2>1, <2>2, <2>3 DEF Next, TableStep
<1> QED
  BY <1>1, <1>2, <1>3, PTL DEF Spec, OpenNodeSpared

-----------------------------------------------------------------------------
(* Termination of the retry loop *)

\* The limits hold for tasks that have ended, too.
WithinLimits(t) ==
    error_retries[t] <= MaxAttempts /\ capacity_waits[t] <= MaxCapacityWaits + 1

LimitsKept == \A t \in Tasks : WithinLimits(t)
StepsCounted == \A t \in Tasks : StepsLeft(t) \in Nat

LEMMA StepsAheadValues ==
  /\ StepsAhead("new") = 8 /\ StepsAhead("select") = 7
  /\ StepsAhead("picked") = 6 /\ StepsAhead("connect") = 5
  /\ StepsAhead("channel") = 4 /\ StepsAhead("enqueue") = 4
  /\ StepsAhead("rpc") = 3 /\ StepsAhead("queued") = 3
  /\ StepsAhead("reply_success") = 2 /\ StepsAhead("reply_failure") = 2
  /\ StepsAhead("dequeue") = 2 /\ StepsAhead("blocked") = 1
  /\ StepsAhead("store_success") = 1 /\ StepsAhead("store_failure") = 1
  /\ StepsAhead("done") = 0 /\ StepsAhead("cancelled") = 0
BY DEF StepsAhead

\* A step of a task keeps it within its limits and uses steps up.
LEMMA MoverProgresses ==
  ASSUME IInv, NEW t \in Tasks, WithinLimits(t),
         Submit(t) \/ Step(t) \/ Rpc(t) \/ Cancel(t)
  PROVE  WithinLimits(t)' /\ pc'[t] # pc[t] /\ StepsLeft(t)' < StepsLeft(t)
<1> USE DispatchAssumption DEF WithinLimits, StepsLeft
<1>a. /\ pc \in [Tasks -> PC] /\ pc[t] \in PC
      /\ error_retries \in [Tasks -> Nat] /\ error_retries[t] \in Nat
      /\ capacity_waits \in [Tasks -> Nat] /\ capacity_waits[t] \in Nat
      /\ pc[t] \in AtNode => /\ error_retries[t] < MaxAttempts
                             /\ capacity_waits[t] <= MaxCapacityWaits
  BY DEF IInv, TaskTypeOK, RetryDiscipline, Disciplined, PC, AtNode
<1>1. CASE Submit(t)
  BY <1>a, <1>1, StepsAheadValues DEF Submit
<1>2. CASE SelectNode(t) \/ NoNode(t)
  BY <1>a, <1>2, StepsAheadValues DEF SelectNode, NoNode
<1>3. CASE Enqueue(t) \/ WakeQueued(t) \/ BlockOnWrite(t)
  BY <1>a, <1>3, StepsAheadValues DEF Enqueue, WakeQueued, BlockOnWrite
<1>3a. CASE CountRetry(t) \/ Connect(t) \/ OpenChannel(t)
  BY <1>a, <1>3a, StepsAheadValues DEF CountRetry, Connect, OpenChannel
<1>3b. CASE RpcSuccess(t) \/ ExecutionFailed(t) \/ TransportFailed(t)
  BY <1>a, <1>3b, StepsAheadValues DEF RpcSuccess, ExecutionFailed, TransportFailed, Reply
<1>4. CASE ReportSuccess(t) \/ StoreSuccess(t) \/ StoreFailure(t)
  BY <1>a, <1>4, StepsAheadValues DEF ReportSuccess, StoreSuccess, StoreFailure
<1>5. CASE ReportFailure(t)
  <2>1. /\ error_retries'[t] = error_retries[t] + 1
        /\ capacity_waits'[t] = capacity_waits[t]
        /\ pc[t] = "reply_failure" /\ pc'[t] \in {"select", "store_failure"}
    BY <1>a, <1>5 DEF ReportFailure
  <2> QED
    BY <1>a, <2>1, StepsAheadValues DEF AtNode
<1>6. CASE RpcExhausted(t)
  <2>1. /\ error_retries'[t] = error_retries[t]
        /\ capacity_waits'[t] = capacity_waits[t] + 1
        /\ pc[t] = "rpc" /\ pc'[t] \in {"select", "store_failure"}
    BY <1>a, <1>6 DEF RpcExhausted
  <2> QED
    BY <1>a, <2>1, StepsAheadValues DEF AtNode
<1>7. CASE Cancel(t)
  <2>1. pc'[t] = "cancelled" /\ UNCHANGED <<error_retries, capacity_waits>>
    BY <1>a, <1>7 DEF Cancel
  <2>2. StepsAhead(pc[t]) \in Nat /\ StepsAhead(pc[t]) >= 1 /\ pc[t] # "cancelled"
    BY <1>a, <1>7, StepsAheadValues DEF Cancel, Active, PC, AtNode
  <2> QED
    BY <1>a, <2>1, <2>2, StepsAheadValues
<1> QED
  BY <1>1, <1>2, <1>3, <1>3a, <1>3b, <1>4, <1>5, <1>6, <1>7
  DEF Step, Rpc

\* There are never less than no steps left.
LEMMA StepsLeftNat == ASSUME IInv, LimitsKept PROVE StepsCounted
<1> SUFFICES ASSUME NEW t \in Tasks, WithinLimits(t) PROVE StepsLeft(t) \in Nat
  BY DEF LimitsKept, StepsCounted
<1>1. StepsAhead(pc[t]) \in Nat
  <2>1. pc[t] \in PC
    BY DEF IInv, TaskTypeOK
  <2> QED
    BY <2>1, StepsAheadValues DEF PC, AtNode
<1>2. error_retries[t] \in Nat /\ capacity_waits[t] \in Nat
  BY DEF IInv, TaskTypeOK
<1> QED
  BY <1>1, <1>2, DispatchAssumption DEF WithinLimits, StepsLeft

\* A task takes at most 6 * (MaxAttempts + MaxCapacityWaits + 1) + 8 steps,
\* whatever the nodes answer and the other tasks do: the retry loop
\* terminates for every setting of its limits.
THEOREM DispatchWorkBounded == Spec => WorkBounded /\ [](LimitsKept /\ StepsCounted)
<1>1. Init => IInv /\ LimitsKept
  BY InitOK, DispatchAssumption DEF Init, LimitsKept, WithinLimits
<1>2. IInv /\ [Next]_vars => IInv'
  BY StepOK
<1>3. ASSUME IInv, LimitsKept, [Next]_vars, NEW u \in Tasks
      PROVE  /\ WithinLimits(u)'
             /\ IF pc'[u] = pc[u] THEN StepsLeft(u)' = StepsLeft(u)
                                   ELSE StepsLeft(u)' < StepsLeft(u)
  <2>1. ASSUME NEW t \in Tasks, Submit(t) \/ Step(t) \/ Rpc(t) \/ Cancel(t), u = t
        PROVE  WithinLimits(u)' /\ pc'[u] # pc[u] /\ StepsLeft(u)' < StepsLeft(u)
    BY <1>3, <2>1, MoverProgresses DEF LimitsKept
  <2>2. CASE /\ pc'[u] = pc[u] /\ error_retries'[u] = error_retries[u]
             /\ capacity_waits'[u] = capacity_waits[u]
    BY <1>3, <2>2 DEF LimitsKept, WithinLimits, StepsLeft
  <2>3. ASSUME NEW t \in Tasks, Submit(t) \/ Step(t) \/ Rpc(t) \/ Cancel(t), u # t
        PROVE  /\ pc'[u] = pc[u] /\ error_retries'[u] = error_retries[u]
               /\ capacity_waits'[u] = capacity_waits[u]
    BY <1>3, <2>3, OthersUnmoved
  <2>4. CASE UNCHANGED <<pc, localVars>>
    BY <2>2, <2>4
  <2> QED
    BY <1>3, <2>1, <2>2, <2>3, <2>4 DEF Next, Tick, TableStep
<1>4. IInv /\ LimitsKept /\ [Next]_vars => LimitsKept'
  BY <1>3 DEF LimitsKept
<1>5. IInv /\ LimitsKept => StepsCounted
  BY StepsLeftNat
<1>6. IInv /\ LimitsKept /\ StepsCounted' /\ [Next]_vars
      => [ \A t \in Tasks :
             /\ 0 <= StepsLeft(t)'
             /\ IF pc'[t] = pc[t] THEN StepsLeft(t)' = StepsLeft(t)
                                   ELSE StepsLeft(t)' < StepsLeft(t) ]_vars
  BY <1>3 DEF StepsCounted
<1> QED
  BY <1>1, <1>2, <1>4, <1>5, <1>6, PTL DEF Spec, WorkBounded

-----------------------------------------------------------------------------
(* What the dispatcher inherits *)

\* A stored result is never changed, replaced or removed by a step of any
\* task, retries and cancellations included.
THEOREM DispatchResultsFinal == Spec => TS!ResultsFinal
<1>1. Init => IInv
  BY InitOK
<1>2. IInv /\ [Next]_vars => IInv'
  BY StepOK
<1>3. IInv /\ [Next]_vars
      => [ \A t \in Tasks : TaskStatus[t] \in {"succeeded", "failed", "abandoned"}
                            => TaskStatus'[t] = TaskStatus[t] ]_(TS!vars)
  <2>1. IInv => TaskStatus \in [Tasks -> {"new", "pending", "succeeded", "failed", "abandoned"}]
    BY DEF TaskStatus, StatusOf
  <2>2. IInv /\ [Next]_vars => [TS!Next]_(TS!vars)
    BY StepImplements
  <2> QED
    BY <2>1, <2>2
    DEF TS!Next, TS!Submit, TS!Succeed, TS!Fail, TS!Abandon, TS!vars
<1> QED
  BY <1>1, <1>2, <1>3, PTL DEF Spec, TS!ResultsFinal

\* The dispatcher's lock only restricts the node table: what holds of every
\* behaviour of the table alone holds under dispatching, too.
THEOREM DispatchImplementsNodeTable == Spec => TableSpec
<1>1. Init => TableInit
  BY DEF Init
<1>2. [Next]_vars => [TableNext]_tableVars
  <2>1. ASSUME NEW t \in Tasks, Submit(t) \/ Step(t) \/ Rpc(t) \/ Cancel(t)
        PROVE  UNCHANGED tableVars
    BY <2>1 DEF Submit, Step, SelectNode, NoNode, Enqueue, WakeQueued, BlockOnWrite,
       CountRetry, Connect, OpenChannel, ReportSuccess, ReportFailure, StoreSuccess,
       StoreFailure, Rpc, RpcSuccess, ExecutionFailed, TransportFailed, Reply,
       RpcExhausted, Cancel
  <2> QED
    BY <2>1 DEF Next, Tick, TableStep, TableNext
<1> QED
  BY <1>1, <1>2, PTL DEF Spec, TableSpec
=============================================================================
