------------------------------- MODULE MCFleet -------------------------------
(* Values for Fleet's function-valued constants. *)
EXTENDS Fleet

\* A home of its own for every node.
MCHome == CHOOSE home \in [Nodes -> Addrs] :
             \A m, n \in Nodes : home[m] = home[n] => m = n

\* As many as MAX_TASKS, so that one leaked call fills a node.
MCCapacity == [n \in Nodes |-> Permits]
=============================================================================
