---------------------------- MODULE FleetProofs ----------------------------
(***************************************************************************)
(* The edge node's accounts, alone and under the control plane's table,    *)
(* and how leaked counts shut it out: for any nodes, calls, permits and    *)
(* capacity, and through crashes and restarts of either process.           *)
(*                                                                         *)
(* First EdgeNode by itself; its invariant, that active_tasks is exactly   *)
(* the calls at work and the leaked ones, is what makes ShutOut last: the  *)
(* next probe cannot report less than the leaked calls.                    *)
(***************************************************************************)
EXTENDS Fleet, NodeTableProofs, FiniteSetTheorems

-----------------------------------------------------------------------------
(* The edge node *)

CallStates   == {"idle", "admitted"} \cup Working \cup Ended
IsCountedIn  == Working \cup {"failed", "orphaned", "abandoned"}
IsCountedOut == {"answered"}

\* How many calls of f are in a state of S.
At(f, S)  == {c \in Calls : f[c] \in S}
Num(f, S) == Cardinality(At(f, S))

\* The inductive invariant, in terms of Num.
IInv ==
    /\ TypeOK
    /\ active_tasks = Num(call, IsCountedIn)
    /\ total_executed + total_failed = Num(call, IsCountedOut)

\* The number of calls in a set of states is a natural number.
LEMMA NumType == ASSUME NEW f, NEW S PROVE IsFiniteSet(At(f, S)) /\ Num(f, S) \in Nat
  BY EdgeNodeAssumption, FS_Subset, FS_CardinalityType DEF At, Num

\* A step moves call c to the state `to`, and no other call.
Moved(c, to) ==
    /\ call \in [Calls -> CallStates]
    /\ call' \in [Calls -> CallStates]
    /\ call'[c] = to
    /\ \A d \in Calls \ {c} : call'[d] = call[d]

\* How that changes the number of calls in S.
LEMMA Moves ==
  ASSUME NEW c \in Calls, NEW to, Moved(c, to), NEW S
  PROVE  /\ call[c] \in S /\ to \in S => Num(call', S) = Num(call, S)
         /\ call[c] \notin S /\ to \notin S => Num(call', S) = Num(call, S)
         /\ call[c] \notin S /\ to \in S => Num(call', S) = Num(call, S) + 1
         /\ call[c] \in S /\ to \notin S => Num(call', S) = Num(call, S) - 1
<1>1. ASSUME call[c] \in S, to \in S PROVE Num(call', S) = Num(call, S)
  <2>1. At(call', S) = At(call, S)
    BY <1>1 DEF At, Moved
  <2>2. QED
    BY <2>1 DEF Num
<1>2. ASSUME call[c] \notin S, to \notin S PROVE Num(call', S) = Num(call, S)
  <2>1. At(call', S) = At(call, S)
    BY <1>2 DEF At, Moved
  <2>2. QED
    BY <2>1 DEF Num
<1>3. ASSUME call[c] \notin S, to \in S PROVE Num(call', S) = Num(call, S) + 1
  <2>1. At(call', S) = At(call, S) \cup {c} /\ c \notin At(call, S)
    BY <1>3 DEF At, Moved
  <2>2. QED
    BY <2>1, NumType, FS_AddElement DEF Num
<1>4. ASSUME call[c] \in S, to \notin S PROVE Num(call', S) = Num(call, S) - 1
  <2>1. At(call', S) = At(call, S) \ {c} /\ c \in At(call, S)
    BY <1>4 DEF At, Moved
  <2>2. QED
    BY <2>1, NumType, FS_RemoveElement DEF Num
<1>5. QED
  BY <1>1, <1>2, <1>3, <1>4

\* An admitted call is not counted yet, and a refused one never is.
LEMMA TryAcquireOK == ASSUME IInv, NEW c \in Calls, TryAcquire(c) PROVE IInv'
<1>1. PICK to \in {"admitted", "exhausted"} : call' = [call EXCEPT ![c] = to]
  BY DEF TryAcquire, Goto
<1>2. UNCHANGED <<active_tasks, total_executed, total_failed>> /\ call[c] = "idle"
  BY DEF TryAcquire
<1>3. Moved(c, to) /\ TypeOK'
  BY <1>1, <1>2 DEF IInv, TypeOK, CallStates, Ended, Moved
<1>4. Num(call', IsCountedIn) = Num(call, IsCountedIn)
  <2>1. call[c] \notin IsCountedIn /\ to \notin IsCountedIn
    BY <1>1, <1>2 DEF IsCountedIn, Working
  <2>2. QED
    BY <2>1, <1>3, Moves
<1>5. Num(call', IsCountedOut) = Num(call, IsCountedOut)
  <2>1. call[c] \notin IsCountedOut /\ to \notin IsCountedOut
    BY <1>1, <1>2 DEF IsCountedOut
  <2>2. QED
    BY <2>1, <1>3, Moves
<1>6. QED
  BY <1>2, <1>3, <1>4, <1>5 DEF IInv

\* A call counts itself in once.
LEMMA CountInOK == ASSUME IInv, NEW c \in Calls, CountIn(c) PROVE IInv'
<1>1. PICK to \in {"running", "lookup", "no_source"} : call' = [call EXCEPT ![c] = to]
  BY DEF CountIn, Goto
<1>2. /\ call[c] = "admitted"
      /\ active_tasks' = active_tasks + 1
      /\ UNCHANGED <<total_executed, total_failed>>
  BY DEF CountIn
<1>3. Moved(c, to) /\ TypeOK'
  BY <1>1, <1>2 DEF IInv, TypeOK, CallStates, Working, Moved
<1>4. Num(call', IsCountedIn) = Num(call, IsCountedIn) + 1
  <2>1. call[c] \notin IsCountedIn /\ to \in IsCountedIn
    BY <1>1, <1>2 DEF IsCountedIn, Working
  <2>2. QED
    BY <2>1, <1>3, Moves
<1>5. Num(call', IsCountedOut) = Num(call, IsCountedOut)
  <2>1. call[c] \notin IsCountedOut /\ to \notin IsCountedOut
    BY <1>1, <1>2 DEF IsCountedOut
  <2>2. QED
    BY <2>1, <1>3, Moves
<1>6. QED
  BY <1>2, <1>3, <1>4, <1>5 DEF IInv

\* The two ways to count out: active_tasks is at least one, so the
\* saturating_sub takes one off, and one of the two totals grows by one.
LEMMA CountOutOK ==
  ASSUME IInv, NEW c \in Calls, Reject(c) \/ CountOut(c) PROVE IInv'
<1>1. /\ call[c] \in {"downloading", "no_source", "finish_ok", "finish_err"}
      /\ call' = [call EXCEPT ![c] = "answered"]
      /\ active_tasks' = IF active_tasks > 0 THEN active_tasks - 1 ELSE 0
  BY DEF Reject, CountOut, Goto
<1>2. /\ total_executed' + total_failed' = total_executed + total_failed + 1
      /\ total_executed' \in Nat /\ total_failed' \in Nat
  BY DEF Reject, CountOut, IInv, TypeOK
<1>3. Moved(c, "answered")
  BY <1>1 DEF IInv, TypeOK, CallStates, Ended, Moved
<1>4. Num(call', IsCountedIn) = Num(call, IsCountedIn) - 1
  <2>1. call[c] \in IsCountedIn /\ "answered" \notin IsCountedIn
    BY <1>1 DEF IsCountedIn, Working
  <2>2. QED
    BY <2>1, <1>3, Moves
<1>6. Num(call', IsCountedOut) = Num(call, IsCountedOut) + 1
  <2>1. call[c] \notin IsCountedOut /\ "answered" \in IsCountedOut
    BY <1>1 DEF IsCountedOut
  <2>2. QED
    BY <2>1, <1>3, Moves
<1>7. active_tasks' = Num(call', IsCountedIn) /\ active_tasks' \in Nat
  <2>1. Num(call', IsCountedIn) \in Nat /\ Num(call, IsCountedIn) \in Nat
    BY NumType
  <2>2. QED
    BY <1>1, <1>4, <2>1 DEF IInv
<1>8. TypeOK'
  BY <1>2, <1>3, <1>7 DEF TypeOK, CallStates, Moved
<1>9. QED
  BY <1>2, <1>6, <1>7, <1>8 DEF IInv

\* The other steps leave the counters alone, and move no call into or out of
\* the states that are counted.
LEMMA QuietOK ==
  ASSUME IInv, NEW c \in Calls,
         \/ Lookup(c) \/ Downloaded(c) \/ Compiled(c) \/ ModuleFailed(c)
         \/ RunEnds(c) \/ Cancel(c) \/ OrphanEnds(c)
  PROVE  IInv'
<1> USE DEF Lookup, Downloaded, Compiled, ModuleFailed, RunEnds, Cancel, OrphanEnds, Goto
<1>1. PICK to \in {"running", "downloading", "compiling", "failed", "finish_ok",
                   "finish_err", "dropped", "orphaned", "abandoned"} :
        /\ call' = [call EXCEPT ![c] = to]
        /\ call[c] = "admitted" => to = "dropped"
        /\ to = "dropped" => call[c] = "admitted"
        /\ call[c] = "orphaned" => to = "abandoned"
        /\ call[c] \in Working \cup {"admitted", "orphaned"}
  BY DEF Working
<1>2. UNCHANGED <<active_tasks, total_executed, total_failed>>
  OBVIOUS
<1> HIDE DEF Lookup, Downloaded, Compiled, ModuleFailed, RunEnds, Cancel, OrphanEnds, Goto
<1>3. Moved(c, to) /\ TypeOK'
  BY <1>1, <1>2 DEF IInv, TypeOK, CallStates, Working, Ended, Moved
<1>4. Num(call', IsCountedIn) = Num(call, IsCountedIn)
  <2>1. call[c] \in IsCountedIn <=> to \in IsCountedIn
    BY <1>1 DEF IsCountedIn, Working
  <2>2. QED
    BY <2>1, <1>3, Moves
<1>5. Num(call', IsCountedOut) = Num(call, IsCountedOut)
  <2>1. call[c] \notin IsCountedOut /\ to \notin IsCountedOut
    BY <1>1 DEF IsCountedOut, Working
  <2>2. QED
    BY <2>1, <1>3, Moves
<1>6. QED
  BY <1>2, <1>3, <1>4, <1>5 DEF IInv

LEMMA EdgeInitOK == ASSUME Init PROVE IInv
<1>1. TypeOK
  BY DEF Init, TypeOK
<1>2. At(call, IsCountedIn) = {} /\ At(call, IsCountedOut) = {}
  BY DEF Init, At, IsCountedIn, IsCountedOut, Working
<1> QED
  BY <1>1, <1>2, FS_EmptySet, EdgeNodeAssumption DEF Init, IInv, Num

LEMMA EdgeStepOK == ASSUME IInv, [Next]_vars PROVE IInv'
<1>1. CASE UNCHANGED vars
  BY <1>1 DEF vars, IInv, TypeOK
<1> QED
  BY <1>1, TryAcquireOK, CountInOK, CountOutOK, QuietOK DEF Next

LEMMA EdgeInvImplies ==
  ASSUME IInv PROVE TypeOK /\ ActiveAccounting /\ ExecutionAccounting
<1>1. /\ Counted = At(call, IsCountedIn)
      /\ In({"answered"}) = At(call, IsCountedOut)
  BY DEF Counted, In, At, IsCountedIn, IsCountedOut
<1> QED
  BY <1>1 DEF IInv, Num, ActiveAccounting, ExecutionAccounting

\* Whatever interleaving of calls, failures and cancellations: active_tasks is
\* the calls at work plus the calls leaked, and every call that counts
\* itself out is counted once.
THEOREM EdgeNodeSafety ==
  Spec => [](TypeOK /\ ActiveAccounting /\ ExecutionAccounting)
<1>1. Init => IInv
  BY EdgeInitOK
<1>2. IInv /\ [Next]_vars => IInv'
  BY EdgeStepOK
<1>3. IInv => TypeOK /\ ActiveAccounting /\ ExecutionAccounting
  BY EdgeInvImplies
<1>4. QED
  BY <1>1, <1>2, <1>3, PTL DEF Spec

-----------------------------------------------------------------------------
(* The node under the control plane's table *)

FInv == TableTypeOK /\ IInv /\ sent \subseteq Calls

\* A process that ends takes its calls with it; the next counts from zero.
LEMMA NodeStopsOK == ASSUME IInv, NodeStops PROVE IInv'
<1>1. \A c \in Calls : call'[c] \in {"idle", "dropped"}
  BY DEF NodeStops
<1>2. TypeOK'
  BY DEF NodeStops, TypeOK, Ended
<1>3. At(call', IsCountedIn) = {} /\ At(call', IsCountedOut) = {}
  BY <1>1 DEF At, IsCountedIn, IsCountedOut, Working
<1>4. Num(call', IsCountedIn) = 0 /\ Num(call', IsCountedOut) = 0
  BY <1>3, FS_EmptySet DEF Num
<1> QED
  BY <1>2, <1>4, EdgeNodeAssumption DEF NodeStops, IInv

\* What a step of the composition is on either side.
LEMMA FleetStep ==
  ASSUME FleetNext
  PROVE  /\ [Next]_vars \/ NodeStops
         /\ [TableNext]_tableVars
<1>1. ASSUME NEW c \in Calls, SendCall(c) \/ CallLost(c)
      PROVE  UNCHANGED <<vars, tableVars>>
  BY <1>1 DEF SendCall, CallLost
<1>2. ASSUME NEW c \in Calls, CallArrives(c) \/ HandlerStep(c)
      PROVE  Next /\ UNCHANGED tableVars
  BY <1>2 DEF CallArrives, HandlerStep, Next
<1>3. CASE NodeStops
  BY <1>3, FleetAssumption DEF NodeStops, TableNext, EdgeNext
<1>4. ASSUME NEW n \in Nodes, NEW a \in Addrs, NodeProbed(n, a)
      PROVE  TableNext /\ UNCHANGED vars
  BY <1>4 DEF NodeProbed, TableNext
<1>5. CASE TableStep
  BY <1>5 DEF TableStep, TableNext, EdgeNext
<1> QED
  BY <1>1, <1>2, <1>3, <1>4, <1>5 DEF FleetNext

LEMMA FleetInitOK == ASSUME FleetInit PROVE FInv
BY EdgeInitOK, TableInitTypes DEF FleetInit, FInv

LEMMA FleetStepOK == ASSUME FInv, [FleetNext]_fleetVars PROVE FInv'
<1>1. CASE UNCHANGED fleetVars
  <2>1. UNCHANGED vars /\ UNCHANGED tableVars /\ UNCHANGED sent
    BY <1>1 DEF fleetVars
  <2>2. TableTypeOK'
    BY <2>1 DEF FInv, TableTypeOK, tableVars
  <2> QED
    BY <2>1, <2>2, EdgeStepOK DEF FInv
<1>2. CASE FleetNext
  <2>1. IInv'
    BY <1>2, FleetStep, EdgeStepOK, NodeStopsOK DEF FInv
  <2>2. TableTypeOK'
    <3>1. UNCHANGED tableVars => TableTypeOK'
      BY DEF FInv, TableTypeOK, tableVars
    <3> QED
      BY <1>2, <3>1, FleetStep, TableTypes DEF FInv
  <2>3. sent' \subseteq Calls
    BY <1>2 DEF FInv, FleetNext, SendCall, CallLost, CallArrives, HandlerStep, NodeStops,
                NodeProbed, TableStep
  <2> QED
    BY <2>1, <2>2, <2>3 DEF FInv
<1> QED
  BY <1>1, <1>2

\* Types and the node's accounts hold through restarts of either process.
THEOREM FleetSafety == FleetSpec => []FInv
<1>1. FleetInit => FInv
  BY FleetInitOK
<1>2. FInv /\ [FleetNext]_fleetVars => FInv'
  BY FleetStepOK
<1> QED
  BY <1>1, <1>2, PTL DEF FleetSpec

\* The composition is well typed.
THEOREM FleetTypes == FleetSpec => []FleetTypeOK
<1>1. FInv => FleetTypeOK
  BY DEF FInv, IInv, FleetTypeOK
<1> QED
  BY <1>1, FleetSafety, PTL

\* active_tasks, which the health probe reports, is the calls at work plus the
\* leaked ones.
THEOREM FleetActiveAccounting == FleetSpec => []ActiveAccounting
<1>1. FInv => ActiveAccounting
  BY EdgeInvImplies DEF FInv
<1> QED
  BY <1>1, FleetSafety, PTL

\* Every call of a process that counted itself out is counted once.
THEOREM FleetExecutionAccounting == FleetSpec => []ExecutionAccounting
<1>1. FInv => ExecutionAccounting
  BY EdgeInvImplies DEF FInv
<1> QED
  BY <1>1, FleetSafety, PTL

-----------------------------------------------------------------------------
(* Leaks are for ever *)

LeakStates == {"failed", "orphaned", "abandoned"}

\* While the node's process lives no call leaves the leaked ones.
LEMMA LeaksStay ==
  ASSUME TypeOK, [Next]_vars
  PROVE  At(call, LeakStates) \subseteq At(call', LeakStates)
<1>1. CASE UNCHANGED vars
  BY <1>1 DEF vars, At
<1>2. ASSUME NEW c \in Calls,
             TryAcquire(c) \/ CountIn(c) \/ Lookup(c) \/ Downloaded(c) \/ Compiled(c)
             \/ ModuleFailed(c) \/ Reject(c) \/ RunEnds(c) \/ CountOut(c)
      PROVE  At(call, LeakStates) \subseteq At(call', LeakStates)
  <2>1. /\ call[c] \notin LeakStates
        /\ \A d \in Calls \ {c} : call'[d] = call[d]
    BY <1>2 DEF TypeOK, LeakStates, TryAcquire, CountIn, Lookup, Downloaded, Compiled,
                ModuleFailed, Reject, RunEnds, CountOut, Goto
  <2> QED
    BY <2>1 DEF At
<1>3. ASSUME NEW c \in Calls, Cancel(c) PROVE At(call, LeakStates) \subseteq At(call', LeakStates)
  <2>1. /\ call[c] \notin LeakStates
        /\ \A d \in Calls \ {c} : call'[d] = call[d]
    BY <1>3 DEF TypeOK, LeakStates, Cancel, Working, Goto
  <2> QED
    BY <2>1 DEF At
<1>4. ASSUME NEW c \in Calls, OrphanEnds(c) PROVE At(call, LeakStates) \subseteq At(call', LeakStates)
  BY <1>4 DEF TypeOK, LeakStates, OrphanEnds, Goto, At
<1> QED
  BY <1>1, <1>2, <1>3, <1>4 DEF Next

\* The number of leaked calls, and that active_tasks is no less.
LEMMA LeakedCounted ==
  ASSUME IInv
  PROVE  /\ Leaked = At(call, LeakStates)
         /\ Num(call, LeakStates) \in Nat
         /\ active_tasks >= Num(call, LeakStates)
<1>1. Leaked = At(call, LeakStates)
  BY DEF Leaked, In, At, LeakStates
<1>2. At(call, LeakStates) \subseteq At(call, IsCountedIn)
  BY DEF At, LeakStates, IsCountedIn
<1>3. Num(call, LeakStates) <= Num(call, IsCountedIn)
  BY <1>2, NumType, FS_Subset DEF Num
<1> QED
  BY <1>1, <1>3, NumType DEF IInv

\* The node's side of ShutOut.
LEMMA LeaksLast ==
  ASSUME FInv, [Next]_vars, Cardinality(Leaked) >= Capacity[Node]
  PROVE  Cardinality(Leaked)' >= Capacity[Node]
<1>1. IInv /\ IInv'
  BY EdgeStepOK DEF FInv
<1>2. At(call, LeakStates) \subseteq At(call', LeakStates)
  BY LeaksStay, <1>1 DEF IInv
<1>3. Num(call, LeakStates) <= Num(call', LeakStates)
  BY <1>2, NumType, FS_Subset DEF Num
<1>4. Cardinality(Leaked) = Num(call, LeakStates)
  BY <1>1, LeakedCounted DEF Num
<1>5. Leaked' = At(call', LeakStates)
  BY DEF Leaked, In, At, LeakStates
<1>6. Cardinality(Leaked)' = Num(call', LeakStates)
  BY <1>5 DEF Num
<1>7. Capacity[Node] \in Nat
  BY NodesAssumption, FleetAssumption
<1> QED
  BY <1>3, <1>4, <1>6, <1>7, NumType

\* The table's side: the rest of ShutOut.
TableFull ==
    /\ nodes[Node].active_tasks >= Capacity[Node]
    /\ edge[Node].address = nodes[Node].address
    /\ edge[Node].phase = "listening"
    /\ \A a \in Addrs : <<Node, a>> \notin posted
    /\ \A a \in Addrs : <<Node, a>> \in round => a = edge[Node].address
    /\ probe.node = Node /\ probe.ok => probe.active_tasks >= Capacity[Node]

LEMMA TableStaysFull ==
  ASSUME FInv, TableFull, edge'[Node] = edge[Node], Node \in Registered(nodes'),
         Cardinality(Leaked) >= Capacity[Node], FleetNext
  PROVE  TableFull'
<1> USE FleetAssumption, NodesAssumption, NodeTableAssumption DEF FInv, TableTypeOK, TableFull
<1>1. CASE UNCHANGED tableVars
  BY <1>1 DEF tableVars
<1>2. CASE NodeStops
  BY <1>2 DEF NodeStops, StopNode, Down
<1>3. ASSUME NEW n \in Nodes, NEW a \in Addrs, NodeProbed(n, a) PROVE TableFull'
  <2>1. UNCHANGED <<nodes, edge, posted>> /\ round' \subseteq round /\ probe'.node = n
        /\ <<n, a>> \in round
    BY <1>3 DEF NodeProbed, Probe
  <2>2. n = Node /\ probe'.ok => probe'.active_tasks = active_tasks
    BY <1>3, <2>1 DEF NodeProbed
  <2>3. active_tasks >= Capacity[Node]
    BY LeakedCounted, NumType DEF Num, IInv, TypeOK
  <2> QED
    BY <2>1, <2>2, <2>3
<1>4. ASSUME NEW n \in Nodes, NEW a \in Addrs, StartNode(n, a) PROVE TableFull'
  <2>1. n # Node
    BY <1>4 DEF StartNode, Down
  <2> QED
    BY <1>4, <2>1 DEF StartNode
<1>5. ASSUME NEW n \in Nodes, NEW a \in Addrs, RegisterNode(n, a) PROVE TableFull'
  <2>1. n # Node
    BY <1>5 DEF RegisterNode
  <2> QED
    BY <1>5, <2>1 DEF RegisterNode
<1>6. ASSUME NEW n \in Nodes, NEW a \in Addrs, LoseRegistration(n, a) PROVE TableFull'
  BY <1>6 DEF LoseRegistration
<1>7. ASSUME NEW n \in Nodes, Listen(n) \/ Drain(n) PROVE TableFull'
  BY <1>7 DEF Listen, Drain
<1>8. ASSUME NEW n \in Nodes \ {Node}, StopNode(n) PROVE TableFull'
  BY <1>8 DEF StopNode
<1>9. CASE StartRound
  BY <1>9 DEF StartRound
<1>10. CASE ApplyProbe
  <2>1. probe # NoProbe /\ probe \in ProbeAnswer
    BY <1>10 DEF ApplyProbe
  <2>2. probe' = NoProbe /\ UNCHANGED <<edge, posted, round>> /\ probe'.node # Node
    BY <1>10 DEF ApplyProbe, NoProbe
  <2>3. nodes'[Node].address = nodes[Node].address
        /\ nodes'[Node].active_tasks >= Capacity[Node]
    BY <1>10, <2>1 DEF ApplyProbe, ProbeAnswer
  <2> QED
    BY <2>2, <2>3
<1>11. CASE RestartControlPlane
  BY <1>11 DEF RestartControlPlane, Unknown, Registered
<1>12. CASE TableStep
  BY <1>12, <1>4, <1>5, <1>6, <1>7, <1>8, <1>9, <1>10, <1>11 DEF TableStep
<1>13. ASSUME NEW c \in Calls, SendCall(c) \/ CallArrives(c) \/ CallLost(c) \/ HandlerStep(c)
       PROVE  UNCHANGED tableVars
  BY <1>13 DEF SendCall, CallArrives, CallLost, HandlerStep
<1> QED
  BY <1>1, <1>2, <1>3, <1>12, <1>13 DEF FleetNext

\* A full node is not picked.
LEMMA FullNotSent ==
  ASSUME FInv, TableFull, FleetNext
  PROVE  sent' \subseteq sent
<1>1. ASSUME NEW c \in Calls, SendCall(c) PROVE FALSE
  <2>1. PICK excluded : Node \in Picks("least_loaded", nodes, excluded)
    BY <1>1 DEF SendCall
  <2>2. nodes[Node].active_tasks < Capacity[Node]
    BY <2>1 DEF Picks, LeastLoaded, Available
  <2> QED
    BY <2>2, FleetAssumption, NodesAssumption DEF TableFull, FInv, TableTypeOK, NodeInfo
<1> QED
  BY <1>1 DEF FleetNext, CallLost, CallArrives, HandlerStep, NodeStops, NodeProbed, TableStep

\* Once leaked calls have shut the node out, and while neither process ends,
\* it stays shut out and nothing is sent to it.
THEOREM LeaksPermanent == FleetSpec => LeaksShutNodeOut
<1>1. ASSUME FInv, [FleetNext]_fleetVars, ShutOut, edge'[Node] = edge[Node],
             Node \in Registered(nodes')
      PROVE  ShutOut' /\ sent' \subseteq sent
  <2>0. TableFull /\ Cardinality(Leaked) >= Capacity[Node]
    BY <1>1 DEF ShutOut, TableFull
  <2>1. CASE UNCHANGED fleetVars
    BY <1>1, <2>1 DEF fleetVars, tableVars, vars, ShutOut, Leaked, In
  <2>2. CASE FleetNext
    <3>1. ~NodeStops
      BY <1>1, FleetAssumption DEF NodeStops, StopNode, Down, ShutOut, FInv, TableTypeOK
    <3>2. [Next]_vars
      BY <2>2, <3>1, FleetStep
    <3>3. Cardinality(Leaked)' >= Capacity[Node]
      BY <1>1, <2>0, <3>2, LeaksLast
    <3>4. TableFull'
      BY <1>1, <2>0, <2>2, TableStaysFull
    <3>5. sent' \subseteq sent
      BY <1>1, <2>0, <2>2, FullNotSent
    <3> QED
      BY <3>3, <3>4, <3>5 DEF ShutOut, TableFull
  <2> QED
    BY <1>1, <2>1, <2>2
<1>2. FInv /\ [FleetNext]_fleetVars
      => (ShutOut /\ edge'[Node] = edge[Node] /\ Node \in Registered(nodes')
          => ShutOut' /\ sent' \subseteq sent)
  BY <1>1
<1> QED
  BY <1>2, FleetSafety, PTL DEF FleetSpec, LeaksShutNodeOut

-----------------------------------------------------------------------------
(* The fleet implements the node table *)

\* Real loads in the probes' answers, and a node that takes its calls along
\* when it stops, are nothing the table alone does not allow: the fleet's
\* health checker and registrations behave as the node table says.
THEOREM FleetImplementsNodeTable == FleetSpec => TableSpec
<1>1. FleetInit => TableInit
  BY DEF FleetInit
<1>2. [FleetNext]_fleetVars => [TableNext]_tableVars
  BY FleetStep DEF fleetVars
<1> QED
  BY <1>1, <1>2, PTL DEF FleetSpec, TableSpec
=============================================================================
