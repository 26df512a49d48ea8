-------------------------------- MODULE Fleet --------------------------------
(***************************************************************************)
(* One edge node and the control plane's idea of its load: EdgeNode's      *)
(* active_tasks is what the health probe of NodeTable reports, the table   *)
(* is what least-loaded scheduling compares with max_concurrent_tasks, and *)
(* what the scheduler sends comes back as EdgeNode's calls.  Each side     *)
(* works on what the other said a while ago.                               *)
(*                                                                         *)
(* The node registers no max_concurrent_tasks of its own (the control      *)
(* plane then assumes 10), so Capacity[Node] and Permits (MAX_TASKS) are   *)
(* independent.                                                            *)
(***************************************************************************)
EXTENDS NodeTable, EdgeNode

CONSTANT Node                \* the edge node whose calls are followed

ASSUME FleetAssumption == Node \in Nodes

VARIABLE sent                \* calls picked for Node and not yet arrived

fleetVars == <<tableVars, vars, sent>>

FleetInit == TableInit /\ Init /\ sent = {}

\* select_node_for_task picks the node, whichever others are excluded.
SendCall(c) ==
    /\ call[c] = "idle"
    /\ c \notin sent
    /\ \E excluded \in SUBSET (Nodes \ {Node}) :
         Node \in Picks("least_loaded", nodes, excluded)
    /\ sent' = sent \cup {c}
    /\ UNCHANGED <<tableVars, vars>>

CallArrives(c) ==
    /\ c \in sent
    /\ edge[Node].phase = "listening"
    /\ TryAcquire(c)
    /\ sent' = sent \ {c}
    /\ UNCHANGED tableVars

\* The channel fails, or the caller is cancelled; the call may be made again.
CallLost(c) ==
    /\ c \in sent
    /\ sent' = sent \ {c}
    /\ UNCHANGED <<tableVars, vars>>

\* The handler of an admitted call goes on, while the server drains too.
HandlerStep(c) ==
    /\ \/ CountIn(c) \/ Lookup(c) \/ Downloaded(c) \/ Compiled(c) \/ ModuleFailed(c)
       \/ Reject(c) \/ RunEnds(c) \/ CountOut(c) \/ Cancel(c) \/ OrphanEnds(c)
    /\ UNCHANGED <<tableVars, sent>>

\* The node's process ends, with the calls it still has if it did not drain;
\* the next one counts from zero.
NodeStops ==
    /\ StopNode(Node)
    /\ call' = [c \in Calls |-> IF call[c] = "idle" THEN "idle" ELSE "dropped"]
    /\ active_tasks' = 0
    /\ total_executed' = 0
    /\ total_failed' = 0
    /\ UNCHANGED sent

\* The health handler answers with active_tasks.
NodeProbed(n, a) ==
    /\ Probe(n, a)
    /\ probe'.ok /\ a = edge[Node].address => probe'.active_tasks = active_tasks
    /\ UNCHANGED <<vars, sent>>

TableStep ==
    /\ \/ \E n \in Nodes, a \in Addrs : StartNode(n, a) \/ RegisterNode(n, a)
                                        \/ LoseRegistration(n, a)
       \/ \E n \in Nodes : Listen(n) \/ Drain(n)
       \/ \E n \in Nodes \ {Node} : StopNode(n)
       \/ StartRound \/ ApplyProbe \/ RestartControlPlane
    /\ UNCHANGED <<vars, sent>>

FleetNext ==
    \/ \E c \in Calls : SendCall(c) \/ CallArrives(c) \/ CallLost(c) \/ HandlerStep(c)
    \/ NodeStops
    \/ \E n \in Nodes, a \in Addrs : NodeProbed(n, a)
    \/ TableStep

FleetSpec == FleetInit /\ [][FleetNext]_fleetVars

\* A process that has started comes to listen (or stops), an HTTP request
\* ends, and the checker's interval ticks: each probe has a 2 s timeout.
FleetFairness ==
    /\ \A n \in Nodes : WF_fleetVars(Listen(n) /\ UNCHANGED <<vars, sent>>)
    /\ \A n \in Nodes, a \in Addrs :
         /\ WF_fleetVars((RegisterNode(n, a) \/ LoseRegistration(n, a)) /\ UNCHANGED <<vars, sent>>)
         /\ WF_fleetVars(NodeProbed(n, a))
    /\ WF_fleetVars((StartRound \/ ApplyProbe) /\ UNCHANGED <<vars, sent>>)

FairFleetSpec == FleetSpec /\ FleetFairness

-----------------------------------------------------------------------------
(* Properties *)

\* Type invariant.
FleetTypeOK == TableTypeOK /\ TypeOK /\ sent \subseteq Calls

\* Calls that ended without counting themselves out.
Leaked == In({"failed", "orphaned", "abandoned"})

\* The table says the node is full, the node's counter will never say
\* otherwise, and nothing else is on its way to the table.
ShutOut ==
    /\ Cardinality(Leaked) >= Capacity[Node]
    /\ nodes[Node].active_tasks >= Capacity[Node]
    /\ edge[Node].address = nodes[Node].address
    /\ edge[Node].phase = "listening"
    /\ \A a \in Addrs : <<Node, a>> \notin posted
    /\ \A a \in Addrs : <<Node, a>> \in round => a = edge[Node].address
    /\ probe.node = Node /\ probe.ok => probe.active_tasks >= Capacity[Node]

\* Leaked counts shut a node out: once as many calls as the control plane
\* thinks the node can take have left without counting themselves out, and
\* the health checker has seen it, an idle and healthy node is sent nothing
\* until its process or the control plane's ends.
LeaksShutNodeOut ==
    [][ ShutOut /\ edge'[Node] = edge[Node] /\ Node \in Registered(nodes')
        => ShutOut' /\ sent' \subseteq sent ]_fleetVars

\* The load the scheduler works with comes to be the node's own count when the
\* node stays up, whatever answers and registrations were stale or lost: a
\* node that was full is offered again once its calls have counted
\* themselves out.
LoadConverges ==
    <>[](/\ Node \in Registered(nodes)
         /\ edge[Node] = [address |-> nodes[Node].address, phase |-> "listening"]
         => nodes[Node].active_tasks = active_tasks)
=============================================================================
