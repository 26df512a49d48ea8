----------------------------- MODULE MCDispatch -----------------------------
(* Values for Dispatch's function-valued constants. *)
EXTENDS Dispatch

\* A home of its own for every node.
MCHome == CHOOSE home \in [Nodes -> Addrs] :
             \A m, n \in Nodes : home[m] = home[n] => m = n

\* Every node advertises room for one task.
MCCapacity == [n \in Nodes |-> 1]
=============================================================================
