--------------------------- MODULE MCFiberQueues ---------------------------
(* The run queue of v1, or the local queue of v2: `which` tells which of   *)
(* the two a behaviour is about; the other one stays in its initial state. *)
EXTENDS RunQueue, LocalQueue, TLC
CONSTANTS a1, a2, a3, a4, e1, e2, e3, t1, t2
VARIABLE which

MCLoad == (a1 :> <<e1>> @@ a2 :> <<e2, e3>>)

allVars == <<which, vars, localVars>>
RunQueueStep(A) == which = "run_queue" /\ A /\ UNCHANGED <<which, localVars>>

MCInit == which \in {"run_queue", "local_queue"} /\ RunQueueInit /\ LocalQueueInit
MCNext ==
    \/ RunQueueStep(RunQueueNext)
    \/ which = "local_queue" /\ LocalQueueNext /\ UNCHANGED <<which, vars>>
MCSpec ==
    /\ MCInit /\ [][MCNext]_allVars
    /\ \A a \in Agents : WF_allVars(RunQueueStep(PushStep(a) \/ PopStep(a)))
=============================================================================
