----------------------------- MODULE TaskService -----------------------------
(***************************************************************************)
(* What the control plane promises of a task, with no nodes, retries or    *)
(* locks: a submitted task gets at most one result, success or failure,    *)
(* which is then final, and the three counters served by GET /metrics      *)
(* count submissions and results.  A task whose client disconnects while   *)
(* it is pending is abandoned: its handler is dropped and it never gets a  *)
(* result.  Dispatch implements this specification.                        *)
(***************************************************************************)
EXTENDS Integers, FiniteSets

CONSTANT Tasks

VARIABLES status,            \* status[t]
          total_submitted, total_success, total_failed

vars == <<status, total_submitted, total_success, total_failed>>

Status == {"new", "pending", "succeeded", "failed", "abandoned"}

InStatus(s) == {t \in Tasks : status[t] = s}

Init ==
    /\ status = [t \in Tasks |-> "new"]
    /\ total_submitted = 0
    /\ total_success = 0
    /\ total_failed = 0

Submit(t) ==
    /\ status[t] = "new"
    /\ status' = [status EXCEPT ![t] = "pending"]
    /\ total_submitted' = total_submitted + 1
    /\ UNCHANGED <<total_success, total_failed>>

Succeed(t) ==
    /\ status[t] = "pending"
    /\ status' = [status EXCEPT ![t] = "succeeded"]
    /\ total_success' = total_success + 1
    /\ UNCHANGED <<total_submitted, total_failed>>

Fail(t) ==
    /\ status[t] = "pending"
    /\ status' = [status EXCEPT ![t] = "failed"]
    /\ total_failed' = total_failed + 1
    /\ UNCHANGED <<total_submitted, total_success>>

Abandon(t) ==
    /\ status[t] = "pending"
    /\ status' = [status EXCEPT ![t] = "abandoned"]
    /\ UNCHANGED <<total_submitted, total_success, total_failed>>

Next == \E t \in Tasks : Submit(t) \/ Succeed(t) \/ Fail(t) \/ Abandon(t)

Spec == Init /\ [][Next]_vars

-----------------------------------------------------------------------------
(* Properties *)

\* Type invariant.
TypeOK ==
    /\ status \in [Tasks -> Status]
    /\ total_submitted \in Nat
    /\ total_success \in Nat
    /\ total_failed \in Nat

\* The counters of AppState that GET /metrics serves: every submission is
\* counted once, and total_success and total_failed count exactly the stored
\* results, so what separates them from total_submitted is the tasks still
\* pending and the tasks whose client left.
Accounting ==
    /\ total_submitted = Cardinality({t \in Tasks : status[t] # "new"})
    /\ total_success = Cardinality(InStatus("succeeded"))
    /\ total_failed = Cardinality(InStatus("failed"))

\* A stored result is final: tasks.insert never replaces it.
ResultsFinal ==
    [][ \A t \in Tasks : status[t] \in {"succeeded", "failed", "abandoned"}
                         => status'[t] = status[t] ]_vars
=============================================================================
