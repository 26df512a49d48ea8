------------------------ MODULE BreakerClientsProofs ------------------------
(***************************************************************************)
(* The circuit breaker is consistent for every threshold, every cooldown   *)
(* and any number of concurrent requests.                                  *)
(***************************************************************************)
EXTENDS BreakerClients, TLAPS

-----------------------------------------------------------------------------
(* What each operation of the circuit breaker preserves *)

\* CircuitBreaker::default is consistent.
LEMMA DefaultConsistent == DefaultBreaker \in Breaker /\ Consistent(DefaultBreaker)
  BY BreakerAssumption DEF DefaultBreaker, Breaker, CircuitState, Consistent, NeverFailed

\* allow_request keeps a breaker consistent: it leaves Open only once the
\* saturated age of the last failure has reached the cooldown.
LEMMA AllowRequestConsistent ==
  ASSUME NEW cb \in Breaker, Consistent(cb)
  PROVE  AllowRequest(cb) \in Breaker /\ Consistent(AllowRequest(cb))
  BY BreakerAssumption
  DEF AllowRequest, Cooled, Breaker, CircuitState, Consistent, NeverFailed

\* record_success keeps a breaker consistent.
LEMMA RecordSuccessConsistent ==
  ASSUME NEW cb \in Breaker, Consistent(cb)
  PROVE  RecordSuccess(cb) \in Breaker /\ Consistent(RecordSuccess(cb))
  BY BreakerAssumption
  DEF RecordSuccess, Breaker, CircuitState, Consistent, NeverFailed

\* record_failure keeps a breaker consistent, from every state.
LEMMA RecordFailureConsistent ==
  ASSUME NEW cb \in Breaker, Consistent(cb)
  PROVE  RecordFailure(cb) \in Breaker /\ Consistent(RecordFailure(cb))
  BY BreakerAssumption
  DEF RecordFailure, Breaker, CircuitState, Consistent, NeverFailed

\* The passing of time keeps a breaker consistent.
LEMMA ElapseConsistent ==
  ASSUME NEW cb \in Breaker, Consistent(cb)
  PROVE  Elapse(cb) \in Breaker /\ Consistent(Elapse(cb))
  BY BreakerAssumption
  DEF Elapse, Breaker, CircuitState, Consistent, NeverFailed

-----------------------------------------------------------------------------
(* Concurrent requests *)

\* The inductive invariant: types and consistency together.
IInv == TypeOK /\ Consistent(breaker)

\* The initial breaker satisfies it.
LEMMA InitOK == ASSUME Init PROVE IInv
  BY DefaultConsistent DEF Init, IInv, TypeOK

\* Every operation preserves it.
LEMMA StepOK == ASSUME IInv, [Next]_vars PROVE IInv'
<1> USE DEF IInv, TypeOK
<1>1. ASSUME NEW r \in Requests, Admit(r) PROVE IInv'
  BY <1>1, AllowRequestConsistent DEF Admit
<1>2. CASE Sweep
  BY <1>2, AllowRequestConsistent DEF Sweep
<1>3. ASSUME NEW r \in Requests, Succeed(r) PROVE IInv'
  BY <1>3, RecordSuccessConsistent DEF Succeed
<1>4. ASSUME NEW r \in Requests, Fail(r) PROVE IInv'
  BY <1>4, RecordFailureConsistent DEF Fail
<1>5. ASSUME NEW r \in Requests, Vanish(r) PROVE IInv'
  BY <1>5 DEF Vanish
<1>6. CASE Tick
  BY <1>6, ElapseConsistent DEF Tick
<1>7. CASE UNCHANGED vars
  BY <1>7 DEF vars
<1>8. QED
  BY <1>1, <1>2, <1>3, <1>4, <1>5, <1>6, <1>7 DEF Next

\* Whatever sweeps, reports and ticks do, the breaker stays well typed and
\* its state, count and timestamp agree.
THEOREM BreakerSafety == Spec => [](TypeOK /\ BreakerConsistent)
<1>1. Init => IInv
  BY InitOK
<1>2. IInv /\ [Next]_vars => IInv'
  BY StepOK
<1>3. IInv => TypeOK /\ BreakerConsistent
  BY DEF IInv, BreakerConsistent
<1>4. QED
  BY <1>1, <1>2, <1>3, PTL DEF Spec

\* An open circuit admits nobody before its cooldown is over and can only be
\* closed earlier by a request admitted before.
THEOREM BreakerHoldsCooldown == Spec => CooldownHeld
<1> DEFINE Held ==
      breaker.state = "Open" /\ breaker.last_failure < Cooldown
      => /\ \A r \in Requests : req[r] = "waiting" => req'[r] = "waiting"
         /\ breaker'.state # "Open"
              => breaker'.state = "Closed" /\ InFlight' # InFlight
<1>1. IInv /\ [Next]_vars => [Held]_vars
  <2> SUFFICES ASSUME IInv, Next, breaker.state = "Open", breaker.last_failure < Cooldown
               PROVE  /\ \A r \in Requests : req[r] = "waiting" => req'[r] = "waiting"
                      /\ breaker'.state # "Open"
                           => breaker'.state = "Closed" /\ InFlight' # InFlight
    OBVIOUS
  <2>1. ~Cooled(breaker) /\ AllowRequest(breaker) = breaker /\ ~AllowsRequest(breaker)
    BY BreakerAssumption
    DEF IInv, TypeOK, Breaker, Cooled, AllowRequest, AllowsRequest, NeverFailed
  <2>2. ASSUME NEW r \in Requests, Succeed(r)
        PROVE  /\ breaker'.state = "Closed" /\ InFlight' # InFlight
               /\ \A q \in Requests : req[q] = "waiting" => req'[q] = "waiting"
    BY <2>2 DEF Succeed, RecordSuccess, InFlight, IInv, TypeOK
  <2>3. ASSUME NEW r \in Requests, Fail(r)
        PROVE  /\ breaker'.state = "Open"
               /\ \A q \in Requests : req[q] = "waiting" => req'[q] = "waiting"
    BY <2>3 DEF Fail, RecordFailure, InFlight, IInv, TypeOK
  <2>4. ASSUME NEW r \in Requests, Vanish(r)
        PROVE  /\ breaker'.state = "Open"
               /\ \A q \in Requests : req[q] = "waiting" => req'[q] = "waiting"
    BY <2>4 DEF Vanish, InFlight, IInv, TypeOK
  <2>5. CASE Sweep
    BY <2>1, <2>5 DEF Sweep
  <2>6. CASE Tick
    BY <2>6 DEF Tick, Elapse, IInv, TypeOK, Breaker
  <2>7. QED
    BY <2>1, <2>2, <2>3, <2>4, <2>5, <2>6 DEF Next, Admit
<1>2. Init => IInv
  BY InitOK
<1>3. IInv /\ [Next]_vars => IInv'
  BY StepOK
<1>4. QED
  BY <1>1, <1>2, <1>3, PTL DEF Spec, CooldownHeld

\* The breaker's count never leaves 0 .. threshold and its clock its range,
\* whichever reports arrive after the circuit opened.
THEOREM BreakerTypes == Spec => []TypeOK
BY BreakerSafety, PTL
=============================================================================
