------------------------------- MODULE TaskApi -------------------------------
(***************************************************************************)
(* The HTTP side of a task (control-plane/src/api/handlers.rs): POST       *)
(* /tasks, POST /tasks/batch and GET /tasks/:id over the task service that *)
(* Dispatch implements.                                                    *)
(*                                                                         *)
(* A single request runs dispatch_task in its own handler, which is        *)
(* dropped if its client leaves.  A batch spawns one task per item as soon *)
(* as that item's inputs resolve; a spawned task runs on whatever becomes  *)
(* of the request.                                                         *)
(***************************************************************************)
EXTENDS TaskService, Sequences, SequencesExt

CONSTANTS Requests,
          Items,             \* Items[r]: the tasks of r, one per item of its body
          Single,            \* requests to POST /tasks; the others are batches
          MaxBatch           \* 100

ASSUME TaskApiAssumption ==
    /\ Items \in [Requests -> Seq(Tasks)]
    /\ \A q, r \in Requests : \A i \in DOMAIN Items[q], j \in DOMAIN Items[r] :
         Items[q][i] = Items[r][j] => q = r /\ i = j
    /\ Single \subseteq Requests
    /\ \A r \in Single : Len(Items[r]) = 1
    /\ MaxBatch \in Nat \ {0}

VARIABLES req,               \* req[r]: how far the handler of r is
          pos,               \* pos[r]: the item it resolves next
          started,           \* tasks whose dispatch_task was called or spawned
          panicked           \* spawned tasks whose handle yields a JoinError

apiVars == <<vars, req, pos, started, panicked>>

Places == {"new", "resolving", "awaiting", "ok", "error", "gone"}

TasksOf(r) == ToSet(Items[r])

\* A result is stored; get_task answers "pending" until then, whatever became
\* of the task.
Settled(t) == status[t] \in {"succeeded", "failed"}

\* dispatch_task, or the handle of the task it runs in, has returned.
Ended(t) == Settled(t) \/ t \in panicked

ApiInit ==
    /\ Init
    /\ req = [r \in Requests |-> "new"]
    /\ pos = [r \in Requests |-> 1]
    /\ started = {}
    /\ panicked = {}

Goto(r, l) == req' = [req EXCEPT ![r] = l]

\* submit_tasks_batch looks at the length first.
Arrive(r) ==
    /\ req[r] = "new"
    /\ Goto(r, CASE Items[r] = <<>>            -> "ok"
                 [] Len(Items[r]) > MaxBatch   -> "error"
                 [] OTHER                      -> "resolving")
    /\ UNCHANGED <<vars, pos, started, panicked>>

\* resolve_task_inputs finds the item's input and WASM source in order; a
\* batch spawns its dispatch_task and goes on to the next item.
StartItem(r) ==
    /\ req[r] = "resolving"
    /\ started' = started \cup {Items[r][pos[r]]}
    /\ pos' = [pos EXCEPT ![r] = pos[r] + 1]
    /\ Goto(r, IF pos[r] = Len(Items[r]) THEN "awaiting" ELSE "resolving")
    /\ UNCHANGED <<vars, panicked>>

\* `?` on the item's base64 or on its module, which is looked up in the
\* registry at this moment, ends the request.
BadItem(r) ==
    /\ req[r] = "resolving"
    /\ Goto(r, "error")
    /\ UNCHANGED <<vars, pos, started, panicked>>

\* Mutant: the batch looks for its tasks' results instead of joining them.
AnswerAwaitsResults(r) ==
    /\ req[r] = "awaiting"
    /\ \A t \in TasksOf(r) \cap started : Settled(t)
    /\ Goto(r, "ok")
    /\ UNCHANGED <<vars, pos, started, panicked>>

\* dispatch_task or all the spawned handles have returned.  The ids are sent,
\* with "error" in the place of one whose handle yields a JoinError.
Answer(r) ==
    /\ req[r] = "awaiting"
    /\ \A t \in TasksOf(r) \cap started : Ended(t)
    /\ Goto(r, "ok")
    /\ UNCHANGED <<vars, pos, started, panicked>>

\* Mutant: the tasks of a batch are dropped with their handler.
DisconnectAborts(r) ==
    LET dropped == {t \in TasksOf(r) : ~Settled(t)}
    IN  /\ req[r] \in {"resolving", "awaiting"}
        /\ Goto(r, "gone")
        /\ started' = started \ dropped
        /\ status' = [t \in Tasks |-> IF t \in dropped /\ status[t] = "pending"
                                      THEN "abandoned" ELSE status[t]]
        /\ UNCHANGED <<total_submitted, total_success, total_failed, pos, panicked>>

\* Mutant: a dropped task is taken back from the submissions.
DisconnectUncounts(r) ==
    LET dropped == {t \in TasksOf(r) : r \in Single /\ ~Settled(t)}
    IN  /\ req[r] \in {"resolving", "awaiting"}
        /\ Goto(r, "gone")
        /\ started' = started \ dropped
        /\ status' = [t \in Tasks |-> IF t \in dropped /\ status[t] = "pending"
                                      THEN "abandoned" ELSE status[t]]
        /\ total_submitted' = total_submitted - Cardinality(dropped)
        /\ UNCHANGED <<total_success, total_failed, pos, panicked>>

\* The client leaves and the server drops the handler: with it a single task,
\* but not the handles' tasks of a batch.
Disconnect(r) ==
    LET dropped == {t \in TasksOf(r) : r \in Single /\ ~Settled(t)}
    IN  /\ req[r] \in {"resolving", "awaiting"}
        /\ Goto(r, "gone")
        /\ started' = started \ dropped
        /\ status' = [t \in Tasks |-> IF t \in dropped /\ status[t] = "pending"
                                      THEN "abandoned" ELSE status[t]]
        /\ UNCHANGED <<total_submitted, total_success, total_failed, pos, panicked>>

\* dispatch_task, as TaskService describes it.
Dispatched(t) ==
    /\ t \in started \ panicked
    /\ Submit(t) \/ Succeed(t) \/ Fail(t)
    /\ UNCHANGED <<req, pos, started, panicked>>

\* A spawned dispatch_task panics, before it has counted its submission or
\* after: no result is stored.  (A panic in a single request's handler takes
\* the connection along, as Disconnect does.)
Panic(t) ==
    /\ t \in started \ panicked
    /\ \A r \in Single : t \notin TasksOf(r)
    /\ \/ status[t] = "new" /\ UNCHANGED vars
       \/ Abandon(t)
    /\ panicked' = panicked \cup {t}
    /\ UNCHANGED <<req, pos, started>>

ApiNext ==
    \/ \E r \in Requests : \/ Arrive(r) \/ StartItem(r) \/ BadItem(r)
                           \/ Answer(r) \/ Disconnect(r)
    \/ \E t \in Tasks : Dispatched(t) \/ Panic(t)

\* Handlers run on.  Nothing is assumed of the tasks they started: one that
\* has to queue never returns (QueuedTaskSettles of Dispatch).
ApiFairness ==
    \A r \in Requests : WF_apiVars(StartItem(r) \/ BadItem(r)) /\ WF_apiVars(Answer(r))

ApiSpec == ApiInit /\ [][ApiNext]_apiVars /\ ApiFairness

-----------------------------------------------------------------------------
(* Properties *)

\* Type invariant.
ApiTypeOK ==
    /\ TypeOK
    /\ req \in [Requests -> Places]
    /\ pos \in [Requests -> Nat \ {0}]
    /\ \A r \in Requests : pos[r] <= Len(Items[r]) + 1
    /\ started \subseteq Tasks
    /\ panicked \subseteq started

\* A request that ended in an error or lost its client has started exactly
\* the items before the one it was at (none, if it was refused for its
\* length), and they are still accounted for; no later item ever starts.
\* Only the task of a single request whose client left and a spawned task
\* that panicked are abandoned.
EndedRequests ==
    \A r \in Requests : \A i \in DOMAIN Items[r] :
        LET t == Items[r][i]
        IN  /\ status[t] # "new" => i < pos[r]
            /\ i < pos[r] /\ ~(r \in Single /\ req[r] = "gone") => t \in started
            /\ status[t] = "abandoned" => (r \in Single /\ req[r] = "gone") \/ t \in panicked

\* A handler waits for its tasks and for nothing else.  If each of them, once
\* started, ends in some way (none has to queue, which is for ever), every
\* request comes to an end: an item that failed, one that panicked and the
\* loss of another request's client hold up no answer.
RequestsEnd ==
    \A r \in Requests :
        (\A t \in TasksOf(r) : []<>(t \in started => Ended(t)))
        => (req[r] = "resolving" ~> req[r] \in {"ok", "error", "gone"})
=============================================================================
