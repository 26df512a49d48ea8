--------------------------- MODULE CircuitBreaker ---------------------------
(***************************************************************************)
(* The per-node circuit breaker of the control plane                       *)
(* (services/control-plane/src/circuit_breaker.rs) as operators on a       *)
(* breaker record.                                                         *)
(*                                                                         *)
(* Only "has the cooldown elapsed since the last failure?" is ever asked   *)
(* of the clock, so last_failure holds the ticks elapsed since the most    *)
(* recent failure, saturating at Cooldown, or NeverFailed for None.        *)
(***************************************************************************)
EXTENDS Integers

CONSTANTS FailureThreshold,  \* failures that open the circuit (5 in the code)
          Cooldown           \* ticks an open circuit stays closed to requests (30 s)

ASSUME BreakerAssumption ==
    /\ FailureThreshold \in Nat \ {0}
    /\ Cooldown \in Nat \ {0}

CircuitState == {"Closed", "Open", "HalfOpen"}

NeverFailed == -1

Breaker == [state         : CircuitState,
            failure_count : Nat,
            last_failure  : {NeverFailed} \cup (0 .. Cooldown)]

DefaultBreaker == [state         |-> "Closed",
                   failure_count |-> 0,
                   last_failure  |-> NeverFailed]

\* Mutant: a timestamp one tick short of the cooldown is old enough.
CooledEarly(cb) == cb.last_failure >= Cooldown - 1

\* last_failure.map(elapsed).unwrap_or(ZERO) >= cooldown
Cooled(cb) ==
    (IF cb.last_failure = NeverFailed THEN 0 ELSE cb.last_failure) >= Cooldown

\* The value allow_request returns ...
AllowsRequest(cb) == cb.state = "Open" => Cooled(cb)

\* Mutant: an open breaker is only read, never moved to HalfOpen.
AllowRequestNoSideEffect(cb) == cb

\* ... and its side effect on the breaker.
AllowRequest(cb) ==
    IF cb.state = "Open" /\ Cooled(cb) THEN [cb EXCEPT !.state = "HalfOpen"]
                                       ELSE cb

\* Mutant: a success takes one failure back.
RecordSuccessDecrements(cb) == [state         |-> "Closed",
                                failure_count |-> cb.failure_count - 1,
                                last_failure  |-> cb.last_failure]

RecordSuccess(cb) == [state         |-> "Closed",
                      failure_count |-> 0,
                      last_failure  |-> cb.last_failure]

\* Mutant: a half-open breaker starts counting to the threshold afresh.
RecordFailureRestartsCount(cb) ==
    LET n == IF cb.state = "HalfOpen" THEN 1 ELSE cb.failure_count + 1
    IN  [state         |-> IF cb.state = "HalfOpen" \/ n >= FailureThreshold
                           THEN "Open" ELSE cb.state,
         failure_count |-> n,
         last_failure  |-> 0]

RecordFailure(cb) ==
    LET n == cb.failure_count + 1
    IN  [state         |-> IF cb.state = "HalfOpen" \/ n >= FailureThreshold
                           THEN "Open" ELSE cb.state,
         failure_count |-> n,
         last_failure  |-> 0]

\* The monotonic clock: one tick more since the last failure.
Elapse(cb) ==
    IF cb.last_failure \in 0 .. Cooldown - 1
    THEN [cb EXCEPT !.last_failure = @ + 1] ELSE cb

\* A breaker's three fields agree: the circuit is closed exactly while
\* failure_count is below failure_threshold; a breaker that is not closed has
\* the timestamp without which allow_request's unwrap_or(ZERO) would shut the
\* node out for ever; a half-open breaker's cooldown is over.
Consistent(cb) ==
    /\ cb.state = "Closed" <=> cb.failure_count < FailureThreshold
    /\ cb.state # "Closed" => cb.last_failure # NeverFailed
    /\ cb.state = "HalfOpen" => cb.last_failure = Cooldown
=============================================================================
