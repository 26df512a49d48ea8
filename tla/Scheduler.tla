------------------------------ MODULE Scheduler ------------------------------
(***************************************************************************)
(* Node selection of the control plane: services/control-plane/src/        *)
(* scheduler/ and the strategy switch of select_node_for_task.             *)
(*                                                                         *)
(* nodes is AppState.nodes as a total function: an id that is not in the   *)
(* HashMap has the address None.  Each operator returns the set of nodes   *)
(* that may be picked: least-loaded breaks ties with the wall clock, and   *)
(* round-robin indexes the HashMap's unspecified iteration order.          *)
(***************************************************************************)
EXTENDS Integers

CONSTANTS Nodes, Addrs,
          None,              \* Option::None for addresses and node ids
          Capacity           \* Capacity[n]: n's registered max_concurrent_tasks

ASSUME NodesAssumption ==
    /\ None \notin Nodes \cup Addrs
    /\ Capacity \in [Nodes -> Nat \ {0}]

NodeInfo == [address      : Addrs \cup {None},
             healthy      : BOOLEAN,
             active_tasks : Nat]

Registered(nodes) == {n \in Nodes : nodes[n].address # None}

\* select_node_excluded and the round-robin arm of select_node_for_task.
Candidates(nodes, excluded) ==
    {n \in Registered(nodes) : nodes[n].healthy} \ excluded

\* Mutant: a full node is taken for one with headroom.
AvailableIgnoresCapacity(nodes, excluded) ==
    {n \in Candidates(nodes, excluded) : nodes[n].active_tasks <= Capacity[n]}

Available(nodes, excluded) ==
    {n \in Candidates(nodes, excluded) : nodes[n].active_tasks < Capacity[n]}

LeastLoaded(nodes, excluded) ==
    {n \in Available(nodes, excluded) :
        \A m \in Available(nodes, excluded) :
            nodes[n].active_tasks <= nodes[m].active_tasks}

\* Any strategy name other than "least_loaded" means round-robin.
Picks(strategy, nodes, excluded) ==
    IF strategy = "least_loaded" THEN LeastLoaded(nodes, excluded)
                                 ELSE Candidates(nodes, excluded)
=============================================================================
