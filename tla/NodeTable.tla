------------------------------ MODULE NodeTable ------------------------------
(***************************************************************************)
(* The control plane's view of its edge nodes and how it goes stale: edge  *)
(* nodes start, register once (best effort), drain and stop; the health    *)
(* checker (control-plane/src/health.rs) probes a snapshot of the table,   *)
(* one node at a time, and writes each answer back later.                  *)
(*                                                                         *)
(* The table is guarded by the AppState lock.  No step here holds it       *)
(* across an await, so each is atomic; the dispatcher, which composes this *)
(* module, adds the lock's guards.                                         *)
(***************************************************************************)
EXTENDS Scheduler

CONSTANTS Running,           \* nodes up and registered when the run starts
          Home,              \* Home[n]: the address of a running node
          MaxChurn,          \* bound on process starts, stops and restarts
          HealthChecker,     \* FALSE: a window between two rounds, 10 s apart
          MaxLoad,           \* largest active_tasks a probe reports
          Flaky              \* TRUE: a live node may fail or time out a probe

ASSUME NodeTableAssumption ==
    /\ Running \subseteq Nodes
    /\ Home \in [Nodes -> Addrs]
    /\ \A m, n \in Running : Home[m] = Home[n] => m = n
    /\ MaxChurn \in Nat
    /\ HealthChecker \in BOOLEAN
    /\ MaxLoad \in Nat
    /\ Flaky \in BOOLEAN

VARIABLES nodes,             \* AppState.nodes
          edge,              \* edge[n]: the address process n is bound to, and
                             \* how far its gRPC server is
          posted,            \* POST /nodes/register requests on their way
          round,             \* rest of the health checker's snapshot
          probe,             \* probe answered but not yet written back
          churn              \* process starts, stops and restarts so far

tableVars == <<nodes, edge, posted, round, probe, churn>>

ProbeAnswer == [node : Nodes, address : Addrs, ok : BOOLEAN, active_tasks : Nat]

NoProbe == [node |-> None, address |-> None, ok |-> FALSE, active_tasks |-> 0]

Phases == {"down", "starting", "listening", "draining"}

Down == [address |-> None, phase |-> "down"]

\* New connections are accepted at a; calls made earlier are answered there.
Served(a) == \E n \in Nodes : edge[n] = [address |-> a, phase |-> "listening"]
Answering(a) ==
    \E n \in Nodes : edge[n].address = a /\ edge[n].phase \in {"listening", "draining"}

Unknown == [address |-> None, healthy |-> FALSE, active_tasks |-> 0]

TableInit ==
    /\ nodes = [n \in Nodes |-> IF n \in Running
                                THEN [address |-> Home[n], healthy |-> TRUE, active_tasks |-> 0]
                                ELSE Unknown]
    /\ edge = [n \in Nodes |-> IF n \in Running
                               THEN [address |-> Home[n], phase |-> "listening"]
                               ELSE Down]
    /\ posted = {}
    /\ round = {}
    /\ probe = NoProbe
    /\ churn = 0

\* An edge process starts at an address no other process has.  It sends its
\* registration from a spawned task, before or after its server listens.
StartNode(n, a) ==
    /\ churn < MaxChurn
    /\ edge[n] = Down
    /\ \A m \in Nodes : edge[m].address # a
    /\ edge' = [edge EXCEPT ![n] = [address |-> a, phase |-> "starting"]]
    /\ posted' = posted \cup {<<n, a>>}
    /\ churn' = churn + 1
    /\ UNCHANGED <<nodes, round, probe>>

Listen(n) ==
    /\ edge[n].phase = "starting"
    /\ edge' = [edge EXCEPT ![n].phase = "listening"]
    /\ UNCHANGED <<nodes, posted, round, probe, churn>>

\* serve_with_shutdown, told to stop, accepts no more connections and finishes
\* the calls it has; the process keeps its address meanwhile.
Drain(n) ==
    /\ churn < MaxChurn
    /\ edge[n].phase = "listening"
    /\ edge' = [edge EXCEPT ![n].phase = "draining"]
    /\ churn' = churn + 1
    /\ UNCHANGED <<nodes, posted, round, probe>>

\* The process ends: by a crash, or because its server has drained.  The
\* control plane is told nothing.
StopNode(n) ==
    /\ edge[n] # Down
    /\ \/ edge[n].phase = "draining" /\ UNCHANGED churn
       \/ edge[n].phase # "draining" /\ churn < MaxChurn /\ churn' = churn + 1
    /\ edge' = [edge EXCEPT ![n] = Down]
    /\ UNCHANGED <<nodes, posted, round, probe>>

RegisterNode(n, a) ==
    /\ <<n, a>> \in posted
    /\ posted' = posted \ {<<n, a>>}
    /\ nodes' = [nodes EXCEPT ![n] = [address      |-> a,
                                      healthy      |-> TRUE,
                                      active_tasks |-> 0]]
    /\ UNCHANGED <<edge, round, probe, churn>>

\* register_with_control_plane logs a failure and does not try again.
LoseRegistration(n, a) ==
    /\ <<n, a>> \in posted
    /\ posted' = posted \ {<<n, a>>}
    /\ UNCHANGED <<nodes, edge, round, probe, churn>>

\* check_all_nodes: the snapshot under the read lock ...
StartRound ==
    /\ HealthChecker
    /\ round = {}
    /\ probe = NoProbe
    /\ round' = {<<n, nodes[n].address>> : n \in Registered(nodes)}
    /\ UNCHANGED <<nodes, edge, posted, probe, churn>>

\* ... then one probe after the other, on a fresh connection to the address
\* of the snapshot.  Whoever listens there answers; the answer is not
\* checked against the node id.
Probe(n, a) ==
    /\ <<n, a>> \in round
    /\ probe = NoProbe
    /\ round' = round \ {<<n, a>>}
    /\ \/ /\ Served(a)
          /\ \E load \in 0 .. MaxLoad :
               probe' = [node |-> n, address |-> a, ok |-> TRUE, active_tasks |-> load]
       \/ /\ Flaky \/ ~Served(a)
          /\ probe' = [node |-> n, address |-> a, ok |-> FALSE, active_tasks |-> 0]
    /\ UNCHANGED <<nodes, edge, posted, churn>>

\* Mutant: the error and timeout arms leave the node as it is.
ApplyProbeIgnoresFailure ==
    LET n == probe.node
    IN  /\ probe # NoProbe
        /\ nodes' = IF probe.ok
                    THEN [nodes EXCEPT ![n] = [address      |-> nodes[n].address,
                                               healthy      |-> TRUE,
                                               active_tasks |-> probe.active_tasks]]
                    ELSE nodes
        /\ probe' = NoProbe
        /\ UNCHANGED <<edge, posted, round, churn>>

\* Mutant: the table keeps the highest load it was told of.
ApplyProbeHighWater ==
    LET n == probe.node
    IN  /\ probe # NoProbe
        /\ nodes' = [nodes EXCEPT ![n] =
                       [address      |-> nodes[n].address,
                        healthy      |-> probe.ok,
                        active_tasks |-> IF probe.ok /\ probe.active_tasks > nodes[n].active_tasks
                                         THEN probe.active_tasks ELSE nodes[n].active_tasks]]
        /\ probe' = NoProbe
        /\ UNCHANGED <<edge, posted, round, churn>>

\* The answer is written to the table entry the id has by now (entries are
\* never removed, so get_mut always finds one).
ApplyProbe ==
    LET n == probe.node
    IN  /\ probe # NoProbe
        /\ nodes' = [nodes EXCEPT ![n] =
                       [address      |-> nodes[n].address,
                        healthy      |-> probe.ok,
                        active_tasks |-> IF probe.ok THEN probe.active_tasks
                                         ELSE nodes[n].active_tasks]]
        /\ probe' = NoProbe
        /\ UNCHANGED <<edge, posted, round, churn>>

\* The control plane starts again with an empty table.  Running nodes do not
\* register again; a request on its way may reach the new process.
RestartControlPlane ==
    /\ churn < MaxChurn
    /\ nodes' = [n \in Nodes |-> Unknown]
    /\ round' = {}
    /\ probe' = NoProbe
    /\ churn' = churn + 1
    /\ UNCHANGED <<edge, posted>>

EdgeNext ==
    \/ \E n \in Nodes, a \in Addrs : StartNode(n, a) \/ LoseRegistration(n, a)
    \/ \E n \in Nodes : Listen(n) \/ Drain(n) \/ StopNode(n)

TableNext ==
    \/ EdgeNext
    \/ \E n \in Nodes, a \in Addrs : RegisterNode(n, a) \/ Probe(n, a)
    \/ StartRound
    \/ ApplyProbe
    \/ RestartControlPlane

TableSpec == TableInit /\ [][TableNext]_tableVars

-----------------------------------------------------------------------------
(* Properties *)

\* Type invariant.
TableTypeOK ==
    /\ nodes \in [Nodes -> NodeInfo]
    /\ edge \in [Nodes -> [address : Addrs \cup {None}, phase : Phases]]
    /\ posted \subseteq Nodes \X Addrs
    /\ round \subseteq Nodes \X Addrs
    /\ probe \in ProbeAnswer \cup {NoProbe}
    /\ churn \in 0 .. MaxChurn

\* Once processes stop coming and going, the table's healthy flag settles on
\* whether the registered address is served, in both directions and whatever
\* stale answers and late registrations were under way.
HealthConverges ==
    \A n \in Nodes :
        <>[](n \in Registered(nodes) => (nodes[n].healthy <=> Served(nodes[n].address)))
=============================================================================
