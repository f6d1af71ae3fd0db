--------------------------- MODULE MCWorkflowLoop ---------------------------
(* Instances of the workflow engine for TLC.                               *)
EXTENDS WorkflowLoopProps

E(from, to, tags) == [from |-> from, to |-> to, tags |-> tags]

(* Outcomes of a run.                                                      *)
O == [out |-> FALSE, routes |-> {}, ints |-> 0, err |-> FALSE, delta |-> FALSE]
Output == [O EXCEPT !.out = TRUE]
Ask(i) == [O EXCEPT !.ints = i]
Fail == [O EXCEPT !.err = TRUE]
Silent == [O EXCEPT !.delta = TRUE]
Route(t) == [O EXCEPT !.out = TRUE, !.routes = {t}]

Runs(f(_)) == [k \in Keys |-> f(k[1])]

(* Two branches that meet in a join.                                       *)
JoinGraph == <<E("START", "a", {}), E("START", "b", {}), E("a", "j", {}), E("b", "j", {})>>
AskOften ==
    Runs(LAMBDA n : IF n = "a" THEN {Output, Ask(1), Ask(2)}
                    ELSE IF n = "b" THEN {Output, Ask(1)} ELSE {Output})

(* Three branches, the first of which also triggers the third.             *)
ForkGraph == <<E("START", "a", {}), E("START", "b", {}), E("START", "c", {}), E("a", "c", {})>>
ForkFails ==
    Runs(LAMBDA n : IF n = "a" THEN {Output, Silent, Ask(1)}
                    ELSE IF n = "b" THEN {Output, Ask(1), Fail} ELSE {Output})

(* A join of a plain branch and one that loops before it goes on.          *)
LoopJoinGraph ==
    <<E("START", "a", {}), E("START", "b", {}), E("b", "b", {"again"}),
      E("b", "c", {"DEFAULT"}), E("a", "j", {}), E("c", "j", {})>>
LoopOutcomes ==
    [k \in Keys |-> IF k[1] = "b" /\ k[2] < MaxRun THEN {Output, Route("again"), Ask(1)}
                    ELSE IF k[1] = "a" THEN {Output, Ask(1)} ELSE {Output}]
=============================================================================
