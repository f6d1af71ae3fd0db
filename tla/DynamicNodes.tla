----------------------------- MODULE DynamicNodes -----------------------------
(***************************************************************************)
(* Nodes whose bodies run other nodes, and the attempts of every node:     *)
(*   crates/adk-agents/src/workflow_dynamic_node_scheduler.rs              *)
(*   crates/adk-agents/src/workflow_node_runner.rs                         *)
(*   crates/adk-agents/src/context.rs                  run_node            *)
(*   crates/adk-agents/src/workflow_parallel_worker.rs                     *)
(*   crates/adk-agents/src/workflow_replay_interceptor.rs, _manager.rs     *)
(*                                                                         *)
(* The static nodes of a workflow run as concurrent tasks.  A body calls   *)
(* run_node once after the other; a call holds the workflow's one          *)
(* scheduler lock until the run it starts is over.  A task is a stack of   *)
(* frames, one per NodeRunner::run that is under way.                      *)
(*                                                                         *)
(* A body gets the events of the runs it started and folds them into its   *)
(* own yields, as run_node's doc asks, or drops them, as ParallelWorker    *)
(* and NodeTool do.  A folded event gets the path of the node that yields  *)
(* it: no event in the session has the path of a dynamic run.  The barrier *)
(* of recorded calls is thus always empty, and so is what is recovered of  *)
(* a call; wait_sequence and advance_sequence have no effect.              *)
(*                                                                         *)
(* Data: a path is the sequence of <<node, run id>> segments, an interrupt *)
(* id is <<path, turn, attempt>>, an output is a flag.  Agent transfers    *)
(* inside run_node, routes, branches and isolation scopes are left out.  A *)
(* call that run_node refuses for what the program says (a caller without  *)
(* rerun_on_resume, a numeric id) is an error of the body.                 *)
(***************************************************************************)
EXTENDS Integers, Sequences, FiniteSets, SequencesExt, FiniteSetsExt

CONSTANTS
    Tasks,            \* static nodes that dispatch dynamic ones
    Dynamic,          \* nodes dispatched by run_node
    Calls,            \* Calls[n]: the run_node calls of n's body, in order
    Outcomes,         \* Outcomes[n]: how an attempt of n may end
    Rerun,            \* nodes with rerun_on_resume
    WaitForOutput,    \* nodes with wait_for_output
    GoOn,             \* nodes whose body may go on after an interrupted call
    Timed,            \* nodes with a timeout
    MaxAttempts,      \* RetryConfig::max_attempts, 1 when there is no config
    RetryOn,          \* RetryConfig::exceptions, as error type names
    Folds,            \* nodes whose body may fold the events of its calls
    MaxTurn           \* bound: turns of the invocation

DynNodes == Tasks \cup Dynamic
AutoId == "auto"
Numeric == <<"1", "2", "3", "4">>
NoOwner == <<>>

ASSUME DynConstants ==
    /\ Tasks \cap Dynamic = {} /\ Rerun \subseteq DynNodes /\ WaitForOutput \subseteq DynNodes
    /\ GoOn \subseteq DynNodes /\ Timed \subseteq DynNodes
    /\ MaxAttempts \in [DynNodes -> Nat \ {0}]
    /\ RetryOn \in [DynNodes -> SUBSET {"NodeError", "NodeTimeoutError"}]
    /\ Calls \in [DynNodes -> Seq([node : Dynamic, id : STRING])]
    /\ \A n \in DynNodes : Calls[n] # <<>> => n \in Rerun
    /\ \A n \in DynNodes : \A i \in DOMAIN Calls[n] : Calls[n][i].id \notin Range(Numeric)
    /\ Folds \subseteq DynNodes /\ MaxTurn \in Nat

VARIABLES
    stopping,   \* nodes that yield nothing once a call was interrupted
    folding,    \* nodes that fold the events of their calls; the others drop them
    log,        \* session events of this invocation, oldest first
    turn, running, \* turns started; whether one is under way
    stack,      \* stack[t]: frames of the task's nested runs, outermost first
    lock,       \* <<task, depth>> of the call holding the scheduler, or NoOwner
    runs,       \* DynamicNodeScheduler::runs, by path
    pendingIds, \* DynamicNodeScheduler::interrupt_ids
    events,     \* events of this turn
    verdict,    \* what became of each task in this turn
    completed   \* history: <<caller's path, position>> of the calls that gave
                \* their output in this turn

inTurn == <<stack, lock, runs, pendingIds, events>>
vars == <<stopping, folding, log, turn, running, inTurn, verdict, completed>>

TaskPath(t) == <<<<t, "1">>>>

-----------------------------------------------------------------------------
(* The session log, and what reconstruct_node_states recovers for a path.  *)

Entry(kind, path, id) == [kind |-> kind, path |-> path, id |-> id]
Positions(path, kind) ==
    {i \in DOMAIN log : log[i].kind = kind /\ log[i].path = path}

Raised(path) ==
    {log[i].id : i \in {j \in DOMAIN log : log[j].kind = "int" /\ IsPrefix(path, log[j].path)}}
Answered == {log[i].id : i \in {j \in DOMAIN log : log[j].kind = "answer"}}

Recovered(path) ==
    [seen |-> \E i \in DOMAIN log : log[i].kind # "answer" /\ IsPrefix(path, log[i].path),
     out |-> Positions(path, "out") # {},
     open |-> Raised(path) \ Answered,
     answers |-> Raised(path) \cap Answered]

-----------------------------------------------------------------------------
(* check_interception.  current is the run of this turn, if there is one.  *)

NotRun == [status |-> "INACTIVE", ints |-> {}, out |-> FALSE]
RunOf(path) == IF path \in DOMAIN runs THEN runs[path] ELSE NotRun

(* Mutation of Replayed: the interrupts do not reach the caller.           *)
ReplayedQuietly(out, ints) == [run |-> FALSE, out |-> out, ints |-> {}]

Replayed(out, ints) == [run |-> FALSE, out |-> out, ints |-> ints]
Native == [run |-> TRUE, out |-> FALSE, ints |-> {}]

Intercept(n, rec, current, dynamic) ==
    IF current.status = "COMPLETED" THEN Replayed(current.out, {})
    ELSE IF current.status = "WAITING" /\ current.ints # {} THEN Replayed(FALSE, current.ints)
    ELSE IF ~rec.seen THEN Native
    ELSE IF rec.open # {} THEN
        IF n \in Rerun /\ rec.answers # {} THEN Native ELSE Replayed(FALSE, rec.open)
    ELSE IF rec.out THEN Replayed(TRUE, {})
    ELSE IF rec.answers # {} THEN
        IF n \in Rerun THEN Native ELSE Replayed(TRUE, {})
    ELSE IF dynamic \/ n \in Rerun \cup WaitForOutput THEN Native
    ELSE Replayed(FALSE, {})

-----------------------------------------------------------------------------
(* A frame: one NodeRunner::run.  got is what the attempt's context holds. *)

Frame(n, path, answers) ==
    [node |-> n, path |-> path, attempt |-> 1, next |-> 1, ints |-> {}, out |-> FALSE,
     events |-> <<>>, fold |-> <<>>, answers |-> answers, at |-> "body"]

Top(t) == Last(stack[t])
SetTop(t, f) == stack' = [stack EXCEPT ![t] = Append(Front(@), f)]

ShouldRetry(n, attempt, error) == attempt < MaxAttempts[n] /\ error \in RetryOn[n]

(* Mutation of Errored: the next attempt is not given the answers.         *)
ErroredAlone(f, error) ==
    LET noted == [f EXCEPT !.events = Append(@, Entry("err", f.path, <<>>))]
    IN  IF ShouldRetry(f.node, f.attempt, error)
        THEN [noted EXCEPT !.attempt = @ + 1, !.next = 1, !.ints = {}, !.out = FALSE,
                           !.fold = <<>>, !.at = "body", !.answers = {}]
        ELSE [noted EXCEPT !.at = "failed"]

(* NodeRunner::run after a failed attempt: the error event joins those of  *)
(* the attempts before, and the next attempt gets a context of its own.    *)
Errored(f, error) ==
    LET noted == [f EXCEPT !.events = Append(@, Entry("err", f.path, <<>>))]
    IN  IF ShouldRetry(f.node, f.attempt, error)
        THEN [noted EXCEPT !.attempt = @ + 1, !.next = 1, !.ints = {}, !.out = FALSE,
                           !.fold = <<>>, !.at = "body"]
        ELSE [noted EXCEPT !.at = "failed"]

(* Context::run_node: the run id of the call about to be made.             *)
CallOf(f) == Calls[f.node][f.next]
(* Mutation of RunId: the counters of an attempt go on in the next one.    *)
RunIdCountedOn(f) ==
    IF CallOf(f).id # AutoId THEN CallOf(f).id
    ELSE Numeric[Cardinality({i \in 1 .. f.next : Calls[f.node][i] = CallOf(f)}) + f.attempt - 1]

RunId(f) ==
    IF CallOf(f).id # AutoId THEN CallOf(f).id
    ELSE Numeric[Cardinality({i \in 1 .. f.next : Calls[f.node][i] = CallOf(f)})]
ChildPath(f) == Append(f.path, <<CallOf(f).node, RunId(f)>>)

Calling(t) ==
    /\ stack[t] # <<>> /\ Top(t).at = "body" /\ Top(t).next <= Len(Calls[Top(t).node])
    /\ ~(Top(t).node \in stopping /\ Top(t).ints # {})

Update(path, r) == [p \in DOMAIN runs \cup {path} |-> IF p = path THEN r ELSE runs[p]]

(* scheduler.lock().await.call: the run is not known, or has to run again. *)
Dispatch(t) ==
    /\ Calling(t) /\ lock = NoOwner
    /\ LET f == Top(t)
           n == CallOf(f).node
           path == ChildPath(f)
           rec == Recovered(path)
       IN  /\ Intercept(n, rec, RunOf(path), TRUE).run
           /\ runs' = Update(path, [RunOf(path) EXCEPT !.status = "RUNNING"])
           /\ stack' = [stack EXCEPT ![t] = Append(@, Frame(n, path, rec.answers))]
           /\ lock' = <<t, Len(stack[t])>>
    /\ UNCHANGED <<stopping, folding, log, turn, running, pendingIds, events, verdict, completed>>

(* ... or is answered from this turn's runs or from the session.           *)
FastForward(t) ==
    /\ Calling(t) /\ lock = NoOwner
    /\ LET f == Top(t)
           path == ChildPath(f)
           hit == Intercept(CallOf(f).node, Recovered(path), RunOf(path), TRUE)
       IN  /\ ~hit.run
           /\ runs' = Update(path, IF hit.ints # {} THEN RunOf(path)
                                   ELSE [RunOf(path) EXCEPT !.out = hit.out])
           /\ pendingIds' = pendingIds \cup hit.ints
           /\ SetTop(t, [f EXCEPT !.next = @ + 1, !.ints = @ \cup hit.ints])
    /\ UNCHANGED <<stopping, folding, log, turn, running, lock, events, verdict, completed>>

-----------------------------------------------------------------------------
(* The end of an attempt: the body returns its yields, which are tracked   *)
(* one by one until a second output is refused.                            *)

Own(f, kinds) ==
    [i \in DOMAIN kinds |->
        Entry(kinds[i], f.path, IF kinds[i] = "int" THEN <<f.path, turn, f.attempt>> ELSE <<>>)]

Outputs(ys) == {i \in DOMAIN ys : ys[i].kind = "out"}
Tracked(ys) ==
    IF Cardinality(Outputs(ys)) < 2 THEN ys
    ELSE SubSeq(ys, 1, Min(Outputs(ys) \ {Min(Outputs(ys))}) - 1)

(* Mutation of Yields: an interrupt is noted but its event is not kept.    *)
YieldsUnsaved(f, kinds) ==
    LET ys == Own(f, kinds)
        says(k) == \E i \in DOMAIN ys : ys[i].kind = k
    IN  [f EXCEPT !.events = @ \o SelectSeq(ys, LAMBDA e : e.kind = "out"), !.at = "done",
                  !.out = says("out"), !.ints = @ \cup {ys[i].id : i \in {j \in DOMAIN ys : ys[j].kind = "int"}}]

Yields(f, kinds) ==
    LET ys == [i \in DOMAIN f.fold |-> [f.fold[i] EXCEPT !.path = f.path]] \o Own(f, kinds)
        kept == Tracked(ys)
        g == [f EXCEPT !.events = @ \o kept, !.out = @ \/ Outputs(kept) # {},
                       !.ints = @ \cup {kept[i].id : i \in {j \in DOMAIN kept : kept[j].kind = "int"}}]
    IN  IF kept = ys THEN [g EXCEPT !.at = "done"] ELSE Errored(g, "NodeError")

(* What a body yields for each outcome; an error drops what it holds.      *)
KindsOf == [none |-> <<>>, out |-> <<"out">>, int |-> <<"int">>, intOutTwice |-> <<"int", "out", "out">>]

EndAttempt(t, o) ==
    /\ stack[t] # <<>> /\ Top(t).at = "body" /\ ~Calling(t)
    /\ o \in IF Top(t).ints # {} /\ Top(t).node \in stopping THEN {"none"} ELSE Outcomes[Top(t).node]
    /\ SetTop(t, IF o = "err" THEN Errored(Top(t), "NodeError") ELSE Yields(Top(t), KindsOf[o]))
    /\ UNCHANGED <<stopping, folding, log, turn, running, lock, runs, pendingIds, events, verdict, completed>>

(* Mutation of Timeout: the dropped call leaves the scheduler locked.      *)
TimeoutLocked(t, d) ==
    /\ d \in DOMAIN stack[t] /\ stack[t][d].node \in Timed
    /\ d < Len(stack[t]) \/ stack[t][d].at = "body"
    /\ stack' = [stack EXCEPT ![t] =
          Append(SubSeq(@, 1, d - 1), Errored(@[d], "NodeTimeoutError"))]
    /\ UNCHANGED <<stopping, folding, log, turn, running, lock, runs, pendingIds, events, verdict, completed>>

(* execute_node's timeout drops the body, with the calls nested in it.     *)
Timeout(t, d) ==
    /\ d \in DOMAIN stack[t] /\ stack[t][d].node \in Timed
    /\ d < Len(stack[t]) \/ stack[t][d].at = "body"
    /\ stack' = [stack EXCEPT ![t] =
          Append(SubSeq(@, 1, d - 1), Errored(@[d], "NodeTimeoutError"))]
    /\ lock' = IF lock # NoOwner /\ lock[1] = t /\ lock[2] >= d THEN NoOwner ELSE lock
    /\ UNCHANGED <<stopping, folding, log, turn, running, runs, pendingIds, events, verdict, completed>>

-----------------------------------------------------------------------------
(* record_result.                                                          *)
Result(n, f, r) ==
    IF f.at = "failed" THEN [r EXCEPT !.status = "FAILED"]
    ELSE IF f.ints # {} THEN [r EXCEPT !.status = "WAITING", !.ints = f.ints]
    ELSE IF n \in WaitForOutput /\ ~f.out THEN [r EXCEPT !.status = "WAITING"]
    ELSE [r EXCEPT !.status = "COMPLETED", !.out = f.out]

(* A dispatched run is over: run_node returns to the body that called it,  *)
(* or fails it, and its events are dropped with the error.  A body that    *)
(* gets its events folds them into its own, or drops them too.             *)
Return(t) ==
    /\ Len(stack[t]) > 1 /\ Top(t).at \in {"done", "failed"}
    /\ LET f == Top(t)
           caller == stack[t][Len(stack[t]) - 1]
           back == IF f.at = "failed" THEN [caller EXCEPT !.at = "failed"]
                   ELSE [caller EXCEPT !.next = @ + 1, !.ints = @ \cup f.ints,
                             !.fold = IF caller.node \in folding THEN @ \o f.events ELSE @]
       IN  /\ runs' = Update(f.path, Result(f.node, f, RunOf(f.path)))
           /\ pendingIds' = IF f.at = "done" THEN pendingIds \cup f.ints ELSE pendingIds
           /\ stack' = [stack EXCEPT ![t] = Append(SubSeq(@, 1, Len(@) - 2), back)]
           /\ completed' = IF f.at = "done" /\ f.out /\ f.ints = {}
                           THEN completed \cup {<<caller.path, caller.next>>} ELSE completed
    /\ lock' = NoOwner
    /\ UNCHANGED <<stopping, folding, log, turn, running, events, verdict>>

(* A static node is over: the engine keeps its events and its verdict.     *)
Settle(t) ==
    /\ Len(stack[t]) = 1 /\ Top(t).at \in {"done", "failed"}
    /\ LET f == Top(t)
       IN  /\ events' = events \o f.events
           /\ verdict' = [verdict EXCEPT ![t] =
                 IF f.at = "failed" THEN "failed"
                 ELSE IF f.ints # {} THEN "waiting" ELSE "completed"]
    /\ stack' = [stack EXCEPT ![t] = <<>>]
    /\ UNCHANGED <<stopping, folding, log, turn, running, lock, runs, pendingIds, completed>>

-----------------------------------------------------------------------------
(* Turns.                                                                  *)

StaticIntercept(t) == Intercept(t, Recovered(TaskPath(t)), NotRun, FALSE)

Init ==
    /\ \E S \in SUBSET GoOn : stopping = DynNodes \ S
    /\ folding \in SUBSET Folds
    /\ log = <<>> /\ turn = 0 /\ running = FALSE
    /\ stack = [t \in Tasks |-> <<>>] /\ lock = NoOwner /\ runs = <<>>
    /\ pendingIds = {} /\ events = <<>>
    /\ verdict = [t \in Tasks |-> "new"] /\ completed = {}

(* A turn starts with an empty scheduler; every task is run or replayed.   *)
StartTurn ==
    /\ ~running /\ turn < MaxTurn /\ \E t \in Tasks : verdict[t] # "completed"
    /\ running' = TRUE /\ turn' = turn + 1
    /\ stack' = [t \in Tasks |->
          IF StaticIntercept(t).run
          THEN <<Frame(t, TaskPath(t), Recovered(TaskPath(t)).answers)>> ELSE <<>>]
    /\ verdict' = [t \in Tasks |->
          IF StaticIntercept(t).run THEN "running"
          ELSE IF StaticIntercept(t).ints # {} THEN "waiting" ELSE "completed"]
    /\ lock' = NoOwner /\ runs' = <<>> /\ pendingIds' = {} /\ events' = <<>> /\ completed' = {}
    /\ UNCHANGED <<stopping, folding, log>>

(* The turn is over when every task is settled; a failed one cancels the   *)
(* rest.  The events go to the session, and the scheduler is dropped.      *)
EndTurn ==
    /\ running
    /\ \/ \A t \in Tasks : stack[t] = <<>>
       \/ \E t \in Tasks : verdict[t] = "failed"
    /\ running' = FALSE /\ log' = log \o events
    /\ verdict' = [t \in Tasks |-> IF stack[t] # <<>> THEN "cancelled" ELSE verdict[t]]
    /\ stack' = [t \in Tasks |-> <<>>] /\ lock' = NoOwner
    /\ runs' = <<>> /\ pendingIds' = {} /\ events' = <<>>
    /\ UNCHANGED <<stopping, folding, turn, completed>>

(* The user answers interrupts that the workflow reported.                 *)
Reported == UNION {Raised(TaskPath(t)) : t \in Tasks}
Answer(S) ==
    /\ ~running /\ S # {} /\ S \subseteq Reported \ Answered
    /\ log' = log \o SetToSeq({Entry("answer", <<>>, id) : id \in S})
    /\ UNCHANGED <<stopping, folding, turn, running, inTurn, verdict, completed>>

-----------------------------------------------------------------------------
TaskStep(t) ==
    \/ Dispatch(t) \/ FastForward(t)
    \/ \E o \in {"none", "out", "int", "err", "intOutTwice"} : EndAttempt(t, o)
    \/ Return(t) \/ Settle(t)

Next ==
    \/ StartTurn \/ EndTurn
    \/ \E t \in Tasks : TaskStep(t) \/ \E d \in 1 .. 3 : Timeout(t, d)
    \/ \E S \in SUBSET (Reported \ Answered) : Answer(S)

Spec == Init /\ [][Next]_vars

(* The tasks are polled by one executor; the lock is handed out in turn.   *)
FairSpec == Spec /\ WF_vars(EndTurn)
            /\ \A t \in Tasks : SF_vars(TaskStep(t)) /\ \A d \in 1 .. 3 : WF_vars(Timeout(t, d))
=============================================================================
