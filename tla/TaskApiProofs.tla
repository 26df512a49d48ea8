---------------------------- MODULE TaskApiProofs ----------------------------
(***************************************************************************)
(* The task service's counters, for every finite set of tasks, and the     *)
(* HTTP side of a task, for any requests: the inductive invariant of the   *)
(* API says of each request how far it is and which of its tasks started.  *)
(***************************************************************************)
EXTENDS TaskApi, FiniteSetTheorems, SequenceTheorems, TLAPS

-----------------------------------------------------------------------------
(* The task service *)

\* Each of the sets that are counted is a finite set of tasks.
LEMMA StatusFinite ==
  ASSUME IsFiniteSet(Tasks), NEW s
  PROVE  IsFiniteSet(InStatus(s)) /\ Cardinality(InStatus(s)) \in Nat
  BY FS_Subset, FS_CardinalityType DEF InStatus

\* A task that enters a status s raises the number of tasks that have it.
LEMMA StatusEntered ==
  ASSUME IsFiniteSet(Tasks), TypeOK, NEW t \in Tasks, NEW s, NEW r,
         status[t] = r, r # s, status' = [status EXCEPT ![t] = s]
  PROVE  Cardinality(InStatus(s)') = Cardinality(InStatus(s)) + 1
<1>1. InStatus(s)' = InStatus(s) \cup {t} /\ t \notin InStatus(s)
  BY DEF InStatus, TypeOK
<1>2. QED
  BY <1>1, StatusFinite, FS_AddElement

\* A status that no task enters or leaves keeps its tasks.
LEMMA StatusKept ==
  ASSUME TypeOK, NEW t \in Tasks, NEW s, NEW r,
         status[t] # s, r # s, status' = [status EXCEPT ![t] = r]
  PROVE  InStatus(s)' = InStatus(s)
  BY DEF InStatus, TypeOK

\* The inductive invariant.
IInv == TypeOK /\ Accounting

\* The tasks submitted so far.
Submitted == {t \in Tasks : status[t] # "new"}

\* Submitting counts one more submission and leaves the results alone.
LEMMA SubmitCounts ==
  ASSUME IsFiniteSet(Tasks), IInv, NEW t \in Tasks, Submit(t) PROVE IInv'
<1> USE DEF IInv, Submit
<1>1. TypeOK'
  BY DEF TypeOK, Status
<1>2. Submitted' = Submitted \cup {t} /\ t \notin Submitted
  BY DEF Submitted, TypeOK
<1>3. IsFiniteSet(Submitted)
  BY FS_Subset DEF Submitted
<1>4. Cardinality(Submitted') = Cardinality(Submitted) + 1
  BY <1>2, <1>3, FS_AddElement
<1>5. /\ InStatus("succeeded")' = InStatus("succeeded")
      /\ InStatus("failed")' = InStatus("failed")
  BY StatusKept
<1>6. QED
  BY <1>1, <1>4, <1>5 DEF Accounting, Submitted

\* A pending task that settles as s changes no other status.
LEMMA SettleKeeps ==
  ASSUME TypeOK, NEW t \in Tasks, status[t] = "pending",
         NEW s \in {"succeeded", "failed", "abandoned"},
         status' = [status EXCEPT ![t] = s]
  PROVE  /\ Submitted' = Submitted
         /\ \A r \in {"succeeded", "failed"} \ {s} : InStatus(r)' = InStatus(r)
<1>1. Submitted' = Submitted
  BY DEF Submitted, TypeOK
<1>2. ASSUME NEW r \in {"succeeded", "failed"} \ {s}
      PROVE  InStatus(r)' = InStatus(r)
  BY <1>2, StatusKept
<1>3. QED
  BY <1>1, <1>2

\* Initially nothing is counted.
LEMMA InitAccounts == ASSUME Init PROVE IInv
<1>1. TypeOK
  BY DEF Init, TypeOK, Status
<1>2. Submitted = {} /\ InStatus("succeeded") = {} /\ InStatus("failed") = {}
  BY DEF Init, Submitted, InStatus
<1>3. QED
  BY <1>1, <1>2, FS_EmptySet DEF Init, IInv, Accounting, Submitted

\* Every step counts what it does to the statuses.
LEMMA StepAccounts ==
  ASSUME IsFiniteSet(Tasks), IInv, [Next]_vars PROVE IInv'
<1>1. ASSUME NEW t \in Tasks, Submit(t) PROVE IInv'
  BY <1>1, SubmitCounts
<1>2. ASSUME NEW t \in Tasks, Succeed(t) PROVE IInv'
  <2>1. TypeOK'
    BY <1>2 DEF IInv, TypeOK, Succeed, Status
  <2>2. Submitted' = Submitted /\ InStatus("failed")' = InStatus("failed")
    BY <1>2, SettleKeeps DEF IInv, Succeed
  <2>3. Cardinality(InStatus("succeeded")') = Cardinality(InStatus("succeeded")) + 1
    BY <1>2, StatusEntered DEF IInv, Succeed
  <2>4. QED
    BY <1>2, <2>1, <2>2, <2>3 DEF IInv, Accounting, Succeed, Submitted
<1>3. ASSUME NEW t \in Tasks, Fail(t) PROVE IInv'
  <2>1. TypeOK'
    BY <1>3 DEF IInv, TypeOK, Fail, Status
  <2>2. Submitted' = Submitted /\ InStatus("succeeded")' = InStatus("succeeded")
    BY <1>3, SettleKeeps DEF IInv, Fail
  <2>3. Cardinality(InStatus("failed")') = Cardinality(InStatus("failed")) + 1
    BY <1>3, StatusEntered DEF IInv, Fail
  <2>4. QED
    BY <1>3, <2>1, <2>2, <2>3 DEF IInv, Accounting, Fail, Submitted
<1>4. ASSUME NEW t \in Tasks, Abandon(t) PROVE IInv'
  <2>1. TypeOK'
    BY <1>4 DEF IInv, TypeOK, Abandon, Status
  <2>2. /\ Submitted' = Submitted
        /\ InStatus("succeeded")' = InStatus("succeeded")
        /\ InStatus("failed")' = InStatus("failed")
    BY <1>4, SettleKeeps DEF IInv, Abandon
  <2>3. QED
    BY <1>4, <2>1, <2>2 DEF IInv, Accounting, Abandon, Submitted
<1>5. CASE UNCHANGED vars
  BY <1>5 DEF IInv, TypeOK, Accounting, InStatus, vars
<1>6. QED
  BY <1>1, <1>2, <1>3, <1>4, <1>5 DEF Next

\* At any time the counters agree with the tasks' statuses, for every finite
\* set of tasks.
THEOREM TaskServiceSafety ==
  ASSUME IsFiniteSet(Tasks) PROVE Spec => [](TypeOK /\ Accounting)
<1>1. Init => IInv
  BY InitAccounts
<1>2. IInv /\ [Next]_vars => IInv'
  BY StepAccounts
<1>3. QED
  BY <1>1, <1>2, PTL DEF Spec, IInv

\* A result, once stored, is never replaced.
THEOREM TaskServiceResultsFinal == Spec => ResultsFinal
<1>1. TypeOK /\ [Next]_vars
      => [ \A t \in Tasks : status[t] \in {"succeeded", "failed", "abandoned"}
                            => status'[t] = status[t] ]_vars
  BY DEF TypeOK, Next, Submit, Succeed, Fail, Abandon, vars
<1>2. Init => TypeOK
  BY DEF Init, TypeOK, Status
<1>3. TypeOK /\ [Next]_vars => TypeOK'
  BY DEF TypeOK, Status, Next, Submit, Succeed, Fail, Abandon, vars
<1>4. QED
  BY <1>1, <1>2, <1>3, PTL DEF Spec, ResultsFinal

-----------------------------------------------------------------------------
(* The API *)

\* Where the handler of r is among its items.
Placed(r) ==
    /\ req[r] = "new" => pos[r] = 1
    /\ req[r] = "resolving" => pos[r] <= Len(Items[r])
    /\ req[r] = "awaiting" => pos[r] = Len(Items[r]) + 1

\* Types of the API's own state.
ReqTypeOK ==
    /\ req \in [Requests -> Places]
    /\ pos \in [Requests -> Nat \ {0}]
    /\ \A r \in Requests : pos[r] <= Len(Items[r]) + 1
    /\ started \subseteq Tasks
    /\ panicked \subseteq started

\* What the properties say of item i of request r.
ItemOK(r, i) ==
    /\ Items[r][i] \in started => i < pos[r]
    /\ Items[r][i] \in panicked => r \notin Single
    /\ status[Items[r][i]] # "new" => i < pos[r]
    /\ i < pos[r] /\ ~(r \in Single /\ req[r] = "gone") => Items[r][i] \in started
    /\ status[Items[r][i]] = "abandoned"
         => (r \in Single /\ req[r] = "gone") \/ Items[r][i] \in panicked

\* The inductive invariant.
ApiInv ==
    /\ TypeOK
    /\ ReqTypeOK
    /\ \A r \in Requests : Placed(r)
    /\ \A r \in Requests : \A i \in 1 .. Len(Items[r]) : ItemOK(r, i)

\* Every item is a task, and belongs to one place of one request.
LEMMA ItemsApart ==
  /\ \A r \in Requests : Len(Items[r]) \in Nat /\ DOMAIN Items[r] = 1 .. Len(Items[r])
  /\ \A r \in Requests : \A i \in 1 .. Len(Items[r]) : Items[r][i] \in Tasks
  /\ \A q, r \in Requests : \A i \in 1 .. Len(Items[q]), j \in 1 .. Len(Items[r]) :
       Items[q][i] = Items[r][j] => q = r /\ i = j
  /\ \A r \in Requests : TasksOf(r) = {Items[r][i] : i \in 1 .. Len(Items[r])}
<1>1. \A r \in Requests : Items[r] \in Seq(Tasks)
  BY TaskApiAssumption
<1>2. \A r \in Requests : Len(Items[r]) \in Nat /\ DOMAIN Items[r] = 1 .. Len(Items[r])
  BY <1>1, LenProperties
<1>3. \A r \in Requests : \A i \in 1 .. Len(Items[r]) : Items[r][i] \in Tasks
  BY <1>1, ElementOfSeq
<1> QED
  BY <1>2, <1>3, TaskApiAssumption DEF TasksOf, ToSet

\* The invariant gives the properties.
LEMMA ApiInvProperties ==
  ASSUME ApiInv PROVE ApiTypeOK /\ EndedRequests
<1>1. ApiTypeOK
  BY DEF ApiInv, ApiTypeOK, ReqTypeOK
<1>2. EndedRequests
  BY ItemsApart DEF ApiInv, EndedRequests, ItemOK
<1> QED
  BY <1>1, <1>2

LEMMA ApiInitOK == ASSUME ApiInit PROVE ApiInv
<1>1. TypeOK
  BY InitAccounts DEF ApiInit, IInv
<1>2. ReqTypeOK
  BY ItemsApart DEF ApiInit, ReqTypeOK, Places
<1>3. ASSUME NEW r \in Requests PROVE Placed(r)
  BY ItemsApart DEF ApiInit, Placed
<1>4. ASSUME NEW r \in Requests, NEW i \in 1 .. Len(Items[r]) PROVE ItemOK(r, i)
  BY ItemsApart DEF ApiInit, Init, ItemOK
<1> QED
  BY <1>1, <1>2, <1>3, <1>4 DEF ApiInv

-----------------------------------------------------------------------------
(* Steps of the handlers *)

\* A handler that moves on to l keeps everybody else's place.
LEMMA HandlerMoves ==
  ASSUME ApiInv, NEW r \in Requests, NEW l \in Places, Goto(r, l),
         UNCHANGED <<vars, pos, started, panicked>>, req[r] # "gone",
         l = "resolving" => pos[r] <= Len(Items[r]),
         l \notin {"new", "awaiting", "gone"}
  PROVE  ApiInv'
<1> USE DEF Goto, vars
<1>1. TypeOK' /\ ReqTypeOK'
  BY DEF ApiInv, TypeOK, ReqTypeOK
<1>2. req' = [req EXCEPT ![r] = l] /\ req \in [Requests -> Places]
  BY DEF ApiInv, ReqTypeOK
<1>3. ASSUME NEW q \in Requests PROVE Placed(q)'
  BY <1>2 DEF ApiInv, Placed
<1>4. ASSUME NEW q \in Requests, NEW i \in 1 .. Len(Items[q]) PROVE ItemOK(q, i)'
  BY <1>2 DEF ApiInv, ItemOK, Settled
<1> QED
  BY <1>1, <1>3, <1>4 DEF ApiInv

LEMMA ArriveOK ==
  ASSUME ApiInv, NEW r \in Requests, Arrive(r) PROVE ApiInv'
<1>1. Len(Items[r]) \in Nat /\ (Items[r] = <<>> <=> Len(Items[r]) = 0)
  BY ItemsApart, EmptySeq, TaskApiAssumption
<1>2. \/ Items[r] = <<>> /\ Goto(r, "ok")
      \/ Goto(r, "error")
      \/ Items[r] # <<>> /\ Goto(r, "resolving")
  BY Zenon DEF Arrive
<1>3. req[r] = "new" /\ pos[r] = 1 /\ UNCHANGED <<vars, pos, started, panicked>>
  BY DEF Arrive, ApiInv, Placed
<1> QED
  BY <1>1, <1>2, <1>3, HandlerMoves DEF Places

LEMMA BadItemOK ==
  ASSUME ApiInv, NEW r \in Requests, BadItem(r) PROVE ApiInv'
BY HandlerMoves DEF BadItem, Places

LEMMA AnswerOK ==
  ASSUME ApiInv, NEW r \in Requests, Answer(r) PROVE ApiInv'
BY HandlerMoves DEF Answer, Places

\* An item starts when its turn comes, and with it no item of another request.
LEMMA StartItemOK ==
  ASSUME ApiInv, NEW r \in Requests, StartItem(r) PROVE ApiInv'
<1> DEFINE p == pos[r]
           l == IF p = Len(Items[r]) THEN "awaiting" ELSE "resolving"
<1>1. /\ req[r] = "resolving" /\ p \in 1 .. Len(Items[r]) /\ Len(Items[r]) \in Nat
      /\ req \in [Requests -> Places] /\ pos \in [Requests -> Nat \ {0}]
  BY ItemsApart DEF StartItem, ApiInv, ReqTypeOK, Placed
<1>2. /\ started' = started \cup {Items[r][p]}
      /\ pos' = [pos EXCEPT ![r] = p + 1]
      /\ req' = [req EXCEPT ![r] = l]
      /\ UNCHANGED <<vars, panicked>>
  BY DEF StartItem, Goto
<1>3. status' = status /\ TypeOK'
  BY <1>2 DEF ApiInv, TypeOK, vars
<1>4. ReqTypeOK'
  <2>1. Items[r][p] \in Tasks
    BY <1>1, ItemsApart
  <2> QED
    BY <1>1, <1>2, <2>1 DEF ApiInv, ReqTypeOK, Places
<1>5. ASSUME NEW q \in Requests PROVE Placed(q)'
  BY <1>1, <1>2 DEF ApiInv, Placed
<1>6. ASSUME NEW q \in Requests, NEW i \in 1 .. Len(Items[q]) PROVE ItemOK(q, i)'
  <2>1. ItemOK(q, i)
    BY DEF ApiInv
  <2>2. CASE q = r
    <3>1. pos'[r] = p + 1 /\ req'[r] = l
      BY <1>1, <1>2
    <3>2. i < p + 1 <=> i < p \/ i = p
      BY <1>1, <2>2
    <3>3. i # p => Items[q][i] # Items[r][p]
      BY <1>1, <2>2, ItemsApart
    <3> QED
      BY <1>1, <1>2, <1>3, <2>1, <2>2, <3>1, <3>2, <3>3 DEF ItemOK, Settled
  <2>3. CASE q # r
    <3>1. pos'[q] = pos[q] /\ req'[q] = req[q] /\ Items[q][i] # Items[r][p]
      BY <1>1, <1>2, <2>3, ItemsApart
    <3> QED
      BY <1>2, <1>3, <2>1, <3>1 DEF ItemOK, Settled
  <2> QED
    BY <2>2, <2>3
<1> QED
  BY <1>3, <1>4, <1>5, <1>6 DEF ApiInv

\* What a handler that is dropped takes along.
Dropped(r) == {t \in TasksOf(r) : r \in Single /\ ~Settled(t)}

\* A handler that is dropped ends its own task, if it is that of a single
\* request, and no other.
LEMMA DisconnectOK ==
  ASSUME ApiInv, NEW r \in Requests, Disconnect(r) PROVE ApiInv'
<1>1. /\ req[r] \in {"resolving", "awaiting"}
      /\ req' = [req EXCEPT ![r] = "gone"]
      /\ started' = started \ Dropped(r)
      /\ status' = [t \in Tasks |-> IF t \in Dropped(r) /\ status[t] = "pending"
                                    THEN "abandoned" ELSE status[t]]
      /\ UNCHANGED <<total_submitted, total_success, total_failed, pos, panicked>>
  BY DEF Disconnect, Goto, Dropped
<1>2. /\ req \in [Requests -> Places] /\ pos \in [Requests -> Nat \ {0}]
      /\ status \in [Tasks -> Status]
  BY DEF ApiInv, TypeOK, ReqTypeOK
<1>3. TypeOK' /\ ReqTypeOK'
  <2>1. \A t \in Dropped(r) : t \notin panicked
    BY ItemsApart DEF Dropped, ApiInv, ItemOK
  <2> QED
    BY <1>1, <1>2, <2>1 DEF ApiInv, TypeOK, ReqTypeOK, Status, Places
<1>4. ASSUME NEW q \in Requests PROVE Placed(q)'
  BY <1>1, <1>2 DEF ApiInv, Placed
<1>5. ASSUME NEW q \in Requests, NEW i \in 1 .. Len(Items[q]) PROVE ItemOK(q, i)'
  <2> DEFINE t == Items[q][i]
  <2>1. ItemOK(q, i) /\ t \in Tasks
    BY ItemsApart DEF ApiInv
  <2>2. t \in Dropped(r) <=> q = r /\ r \in Single /\ ~Settled(t)
    BY ItemsApart DEF Dropped
  <2>3. /\ t \notin Dropped(r) => status'[t] = status[t]
        /\ t \in started' <=> t \in started /\ t \notin Dropped(r)
        /\ status'[t] = "abandoned" => status[t] = "abandoned" \/ t \in Dropped(r)
        /\ status'[t] # "new" => status[t] # "new"
    BY <1>1, <2>1
  <2>4. CASE q = r
    BY <1>1, <1>2, <2>1, <2>2, <2>3, <2>4 DEF ItemOK, Settled
  <2>5. CASE q # r
    BY <1>1, <1>2, <2>1, <2>2, <2>3, <2>5 DEF ItemOK, Settled
  <2> QED
    BY <2>4, <2>5
<1> QED
  BY <1>3, <1>4, <1>5 DEF ApiInv

\* A started task runs its course without moving its request.
LEMMA DispatchedOK ==
  ASSUME ApiInv, NEW t \in Tasks, Dispatched(t) PROVE ApiInv'
<1>1. TypeOK'
  BY DEF ApiInv, TypeOK, Dispatched, Submit, Succeed, Fail, Status
<1>2. UNCHANGED <<req, pos, started, panicked>> /\ t \in started \ panicked
  BY DEF Dispatched
<1>3. \E s \in {"pending", "succeeded", "failed"} :
         status[t] \in {"new", "pending"} /\ status' = [status EXCEPT ![t] = s]
  BY DEF Dispatched, Submit, Succeed, Fail
<1>4. ReqTypeOK' /\ \A q \in Requests : Placed(q)'
  BY <1>2 DEF ApiInv, ReqTypeOK, Placed
<1>5. ASSUME NEW q \in Requests, NEW i \in 1 .. Len(Items[q]) PROVE ItemOK(q, i)'
  <2>1. ItemOK(q, i) /\ Items[q][i] \in Tasks /\ status \in [Tasks -> Status]
    BY ItemsApart DEF ApiInv, TypeOK
  <2>2. CASE Items[q][i] = t
    BY <1>2, <1>3, <2>1, <2>2 DEF ItemOK, Settled
  <2>3. CASE Items[q][i] # t
    BY <1>2, <1>3, <2>1, <2>3 DEF ItemOK, Settled
  <2> QED
    BY <2>2, <2>3
<1> QED
  BY <1>1, <1>4, <1>5 DEF ApiInv

\* A spawned task that panics is an item of a batch, which goes on.
LEMMA PanicOK ==
  ASSUME ApiInv, NEW t \in Tasks, Panic(t) PROVE ApiInv'
<1>1. TypeOK'
  BY DEF ApiInv, TypeOK, Panic, Abandon, Status, vars
<1>2. /\ UNCHANGED <<req, pos, started>> /\ t \in started
      /\ panicked' = panicked \cup {t}
      /\ \A r \in Single : t \notin TasksOf(r)
  BY DEF Panic
<1>3. \/ status' = status
      \/ status[t] = "pending" /\ status' = [status EXCEPT ![t] = "abandoned"]
  BY DEF Panic, Abandon, vars
<1>4. ReqTypeOK' /\ \A q \in Requests : Placed(q)'
  BY <1>2 DEF ApiInv, ReqTypeOK, Placed
<1>5. ASSUME NEW q \in Requests, NEW i \in 1 .. Len(Items[q]) PROVE ItemOK(q, i)'
  <2>1. ItemOK(q, i) /\ Items[q][i] \in Tasks /\ status \in [Tasks -> Status]
    BY ItemsApart DEF ApiInv, TypeOK
  <2>2. CASE Items[q][i] = t
    <3>1. q \notin Single
      BY <1>2, <2>2, ItemsApart
    <3> QED
      BY <1>2, <1>3, <2>1, <2>2, <3>1 DEF ItemOK
  <2>3. CASE Items[q][i] # t
    BY <1>2, <1>3, <2>1, <2>3 DEF ItemOK
  <2> QED
    BY <2>2, <2>3
<1> QED
  BY <1>1, <1>4, <1>5 DEF ApiInv

LEMMA ApiStepOK == ASSUME ApiInv, [ApiNext]_apiVars PROVE ApiInv'
<1>1. CASE UNCHANGED apiVars
  BY <1>1 DEF ApiInv, TypeOK, ReqTypeOK, Placed, ItemOK, Settled, apiVars, vars
<1> QED
  BY <1>1, ArriveOK, BadItemOK, AnswerOK, StartItemOK, DisconnectOK, DispatchedOK, PanicOK
  DEF ApiNext

-----------------------------------------------------------------------------
(* Safety of the API *)

\* For any requests: places and positions keep their types, and a request
\* that ended has started exactly the items before the one it was at.
THEOREM ApiSafety == ApiSpec => [](ApiTypeOK /\ EndedRequests)
BY ApiInitOK, ApiStepOK, ApiInvProperties, PTL DEF ApiSpec

\* No later item of an ended request starts, and only the task of a single
\* request whose client left and a spawned task that panicked are abandoned.
THEOREM ApiEndedRequests == ApiSpec => []EndedRequests
BY ApiSafety, PTL

\* Every step of a handler is a step of the task service, or does not show
\* there: a dropped handler abandons at most its one task.
LEMMA ApiStepImplements ==
  ASSUME ApiInv, [ApiNext]_apiVars PROVE [Next]_vars
<1>1. ASSUME NEW r \in Requests, Disconnect(r) PROVE [Next]_vars
  <2>1. /\ status' = [t \in Tasks |-> IF t \in Dropped(r) /\ status[t] = "pending"
                                      THEN "abandoned" ELSE status[t]]
        /\ UNCHANGED <<total_submitted, total_success, total_failed>>
    BY <1>1 DEF Disconnect, Dropped
  <2>2. status \in [Tasks -> Status]
    BY DEF ApiInv, TypeOK
  <2>3. CASE \E t \in Dropped(r) : status[t] = "pending"
    <3>1. PICK t \in Dropped(r) : status[t] = "pending"
      BY <2>3
    <3>2. r \in Single /\ Len(Items[r]) = 1
      BY TaskApiAssumption DEF Dropped
    <3>3. t = Items[r][1] /\ Dropped(r) = {t} /\ t \in Tasks
      BY <3>2, ItemsApart DEF Dropped
    <3>4. status' = [status EXCEPT ![t] = "abandoned"]
      BY <2>1, <2>2, <3>1, <3>3
    <3> QED
      BY <2>1, <3>1, <3>3, <3>4 DEF Next, Abandon
  <2>4. CASE ~ \E t \in Dropped(r) : status[t] = "pending"
    <3>1. status' = status
      BY <2>1, <2>2, <2>4
    <3> QED
      BY <2>1, <3>1 DEF vars
  <2> QED
    BY <2>3, <2>4
<1>2. ASSUME NEW t \in Tasks, Dispatched(t) PROVE Next
  BY <1>2 DEF Dispatched, Next
<1>3. ASSUME NEW t \in Tasks, Panic(t) PROVE [Next]_vars
  BY <1>3 DEF Panic, Next
<1> QED
  BY <1>1, <1>2, <1>3 DEF ApiNext, apiVars, Arrive, StartItem, BadItem, Answer

\* The API implements the task service: whatever requests arrive, fail and
\* leave, a task gets at most one result.
THEOREM ApiImplementsTaskService == ApiSpec => Spec
<1>1. ApiInit => Init
  BY DEF ApiInit
<1> QED
  BY <1>1, ApiInitOK, ApiStepOK, ApiStepImplements, PTL DEF ApiSpec, Spec

\* So the counters GET /metrics serves agree with the statuses, and no result
\* is replaced, with any number of requests in flight.
THEOREM ApiAccounting ==
  ASSUME IsFiniteSet(Tasks) PROVE ApiSpec => []Accounting /\ ResultsFinal
BY ApiImplementsTaskService, TaskServiceSafety, TaskServiceResultsFinal, PTL
=============================================================================
