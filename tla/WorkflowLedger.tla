---------------------------- MODULE WorkflowLedger ----------------------------
(***************************************************************************)
(* What a resumable workflow promises, whatever crashes, resumes and       *)
(* replays happened: the execution recorded in the session is one dataflow *)
(* run of the graph, in which a run, once recorded, keeps its input and    *)
(* its output; its input was produced by recorded runs of its senders; and *)
(* no output is consumed by two runs of the same node.                     *)
(* Module WorkflowLoop implements this (WorkflowLoopProps).                *)
(***************************************************************************)
CONSTANTS
    Keys,      \* the runs <<node, number>>
    START,     \* the sender of the workflow's own input
    NoValue    \* what a sender without output delivers

VARIABLE done  \* what is recorded of each run

Unknown == [known |-> FALSE]
Known(in, out) == [known |-> TRUE, in |-> in, out |-> out]

Init == done = [k \in Keys |-> Unknown]

Delivered(d, s, v) ==
    v # NoValue => \E l \in Keys : l[1] = s /\ d[l].known /\ d[l].out = v

ConsumedOnce(d) ==
    \A k, l \in Keys :
        k # l /\ k[1] = l[1] /\ d[k].known /\ d[l].known => d[k].in # d[l].in

Dataflow(d) ==
    /\ \A k \in Keys : d[k].known =>
           \A s \in DOMAIN d[k].in \ {START} : Delivered(d, s, d[k].in[s])
    /\ ConsumedOnce(d)

(* New runs are recorded together; recorded ones never change.             *)
Record ==
    /\ \A k \in Keys : done[k].known => done'[k] = done[k]
    /\ Dataflow(done')

Spec == Init /\ [][Record]_done
=============================================================================
