-------------------------- MODULE DynamicNodesProps --------------------------
(* What Context::run_node, the scheduler behind it and NodeRunner's        *)
(* attempts promise.                                                       *)
EXTENDS DynamicNodes

Frames == UNION {Range(stack[t]) : t \in Tasks}
Dispatched == UNION {{stack[t][d] : d \in 2 .. Len(stack[t])} : t \in Tasks}
Settled == \A t \in Tasks : stack[t] = <<>>

(* The shape of the state of workflow_dynamic_node_scheduler.rs, and the   *)
(* one lock: a call holds it exactly while its run is on the stack,        *)
(* through timeouts, failures and cancelled turns.                         *)
SchedulerTypeOK ==
    /\ turn \in 0 .. MaxTurn /\ running \in BOOLEAN
    /\ \A p \in DOMAIN runs :
          runs[p].status \in {"INACTIVE", "RUNNING", "COMPLETED", "WAITING", "FAILED"}
    /\ lock # NoOwner <=> Dispatched # {}
    /\ \A f \in Frames : f.attempt \in 1 .. MaxAttempts[f.node] /\ f.at \in {"body", "done", "failed"}

(* Within a turn a call that gave its output is not executed again: an     *)
(* attempt that is retried after an error or a timeout counts its calls    *)
(* from the start, finds the runs of the attempt before and is handed      *)
(* their outputs (workflow_replay_interceptor.rs, case 1).                 *)
CompletedNotRerun ==
    \A t \in Tasks : \A d \in 2 .. Len(stack[t]) :
        <<stack[t][d - 1].path, stack[t][d - 1].next>> \notin completed

(* A task that is run again holds, in every attempt, each answer that the  *)
(* user gave to a request it reported, one of a run it had dispatched too  *)
(* (check_interception, resume_inputs; NodeRunner::run passes them on).    *)
AnswerReachesTask ==
    \A t \in Tasks : stack[t] # <<>> =>
        {id \in Answered : id[1][1] = <<t, "1">>} \subseteq stack[t][1].answers

(* Of a turn that is over: the requests a task waits for.                  *)
OpenIn(t) ==
    {e.id : e \in {f \in Range(log \o events) : f.kind = "int" /\ IsPrefix(TaskPath(t), f.path)}}
        \ Answered
Stuck == {t \in Tasks : running /\ Settled /\ verdict[t] = "waiting" /\ OpenIn(t) = {}}

(* A task whose body folds the events of its calls and that has a single   *)
(* attempt never waits for an answer that cannot be given: the request is  *)
(* among the events the turn stores, and is not answered yet (context.rs,  *)
(* run_node).  A second attempt is handed the ids of the first one's       *)
(* requests without their events, which the first one dropped.             *)
WaitingCanBeAnswered ==
    \A t \in Stuck : t \notin folding \/ MaxAttempts[t] > 1

(* The ids that Workflow::finalize adds from the scheduler belong to       *)
(* static nodes that wait: no attempt that failed leaves one behind.       *)
PendingHasWaiter ==
    running /\ Settled /\ (\A t \in Tasks : verdict[t] # "failed")
        => \A id \in pendingIds : verdict[id[1][1][1]] = "waiting"

-----------------------------------------------------------------------------
(* What the code does not do.                                              *)

(* Every node that runs comes to an end: a call that waits for the         *)
(* scheduler is served, or its node times out.                             *)
TasksSettle == \A t \in Tasks : (stack[t] # <<>>) ~> (stack[t] = <<>>)
=============================================================================
