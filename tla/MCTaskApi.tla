------------------------------ MODULE MCTaskApi ------------------------------
(* Requests for TaskApi: a single task, a batch of three, a batch that is   *)
(* too long and an empty one.                                               *)
EXTENDS TaskApi

CONSTANTS t1, t2, t3, t4, t5, t6, t7, t8, r1, r2, r3, r4

MCTasks == {t1, t2, t3, t4, t5, t6, t7, t8}

MCItems == [r \in Requests |-> CASE r = r1 -> <<t1>>
                                 [] r = r2 -> <<t2, t3, t4>>
                                 [] r = r3 -> <<t5, t6, t7, t8>>
                                 [] r = r4 -> <<>>]
=============================================================================
