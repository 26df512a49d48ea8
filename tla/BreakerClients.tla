--------------------------- MODULE BreakerClients ---------------------------
(***************************************************************************)
(* One edge node's circuit breaker under the dispatcher's concurrent       *)
(* requests.  Every select_node_for_task sweep asks every breaker          *)
(* allow_request, whether or not it then picks the node; a request that is *)
(* dispatched reports back much later, after any number of other sweeps,   *)
(* reports and clock ticks.                                                *)
(*                                                                         *)
(* A request is one dispatch attempt, so it is admitted at most once; a    *)
(* retry is another request.                                               *)
(***************************************************************************)
EXTENDS CircuitBreaker

CONSTANT Requests            \* dispatch attempts that may choose this node

VARIABLES breaker,           \* circuit_breakers[node]
          req                \* req[r]: where attempt r is

vars == <<breaker, req>>

InFlight == {r \in Requests : req[r] = "in_flight"}

Init ==
    /\ breaker = DefaultBreaker
    /\ req = [r \in Requests |-> "waiting"]

\* A sweep admits the node and the scheduler picks it for attempt r.
Admit(r) ==
    /\ req[r] = "waiting"
    /\ AllowsRequest(breaker)
    /\ breaker' = AllowRequest(breaker)
    /\ req' = [req EXCEPT ![r] = "in_flight"]

\* A sweep on behalf of a task that ends up on another node, or on none.
Sweep ==
    /\ breaker' = AllowRequest(breaker)
    /\ UNCHANGED req

Succeed(r) ==
    /\ r \in InFlight
    /\ breaker' = RecordSuccess(breaker)
    /\ req' = [req EXCEPT ![r] = "done"]

Fail(r) ==
    /\ r \in InFlight
    /\ breaker' = RecordFailure(breaker)
    /\ req' = [req EXCEPT ![r] = "done"]

\* Attempts that record nothing: the node answered ResourceExhausted, or
\* the client went away and the dispatching future was dropped.
Vanish(r) ==
    /\ r \in InFlight
    /\ req' = [req EXCEPT ![r] = "done"]
    /\ UNCHANGED breaker

Tick ==
    /\ breaker' = Elapse(breaker)
    /\ UNCHANGED req

Next ==
    \/ \E r \in Requests : Admit(r) \/ Succeed(r) \/ Fail(r) \/ Vanish(r)
    \/ Sweep
    \/ Tick

\* Time passes, and other tasks keep sweeping the breakers.
Fairness == WF_vars(Tick) /\ WF_vars(Sweep)

Spec == Init /\ [][Next]_vars
FairSpec == Spec /\ Fairness

-----------------------------------------------------------------------------
(* Properties *)

\* Type invariant.
TypeOK ==
    /\ breaker \in Breaker
    /\ req \in [Requests -> {"waiting", "in_flight", "done"}]

\* The fields of CircuitBreaker agree (see Consistent) whatever order
\* results, sweeps and ticks come in.
BreakerConsistent == Consistent(breaker)

\* While an open circuit's last failure is younger than the cooldown,
\* allow_request admits nobody and the circuit stays open, unless an attempt
\* admitted earlier reports a success.
CooldownHeld ==
    [][ breaker.state = "Open" /\ breaker.last_failure < Cooldown
        => /\ \A r \in Requests : req[r] = "waiting" => req'[r] = "waiting"
           /\ breaker'.state # "Open"
                => breaker'.state = "Closed" /\ InFlight' # InFlight ]_vars

\* An open circuit does not stay open for ever (it leaves through HalfOpen,
\* after the cooldown, or through a late success), although late failures of
\* earlier attempts restart the cooldown while it is open.
OpenIsLeft == breaker.state = "Open" ~> breaker.state # "Open"
=============================================================================
