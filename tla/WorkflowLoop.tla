---------------------------- MODULE WorkflowLoop ----------------------------
(***************************************************************************)
(* The SETUP / LOOP / FINALIZE engine of a workflow with static nodes, and *)
(* its replay on resume:                                                   *)
(*   crates/adk-agents/src/workflow_workflow.rs           the engine       *)
(*   crates/adk-agents/src/workflow_replay_interceptor.rs whether to rerun *)
(*   crates/adk-agents/src/workflow_replay_manager.rs     the log scan     *)
(*   crates/adk-agents/src/workflow_rehydration_utils.rs  recovered states *)
(*   crates/adk-agents/src/workflow_replay_sequence_barrier.rs             *)
(*                                                                         *)
(* The engine is one task: everything between two awaits is atomic, and    *)
(* the only concurrency is that of the node futures it polls.  One turn    *)
(* runs setup, the loop and finalize; the events of a turn are collected   *)
(* in memory and appended to the session log when the turn is over.        *)
(*                                                                         *)
(* Data: a value is the pair <<run, turn>> of the execution that produced  *)
(* it, an input maps each sender to the value it sent, an interrupt id is  *)
(* <<node, run, turn, i>>.  Branches, isolation scopes, schemas and the    *)
(* transfer_to_agent field are left out; checkpoint events carry an empty  *)
(* path, which every scan of the log skips, and are left out too.          *)
(***************************************************************************)
EXTENDS WorkflowGraph, Integers, FiniteSetsExt

CONSTANTS
    Rerun,           \* nodes with rerun_on_resume
    WaitForOutput,   \* nodes with wait_for_output
    JoinNodes,       \* nodes with requires_all_predecessors
    MaxConcurrency,  \* max_concurrency, 0 when unset
    Resumable,       \* is_resumable(): replayed outputs are emitted again
    Behaviour,       \* Behaviour[n, r]: outcomes node n may have on its r-th run
    MaxRun,          \* bound: runs of one node in one turn
    MaxTurn,         \* bound: turns of the invocation
    SlowNodes,       \* TRUE: a node may outlast the barrier's timeout
    Crashes,         \* TRUE: the process may die in a turn
    BadAnswers       \* TRUE: an answer may fail its response schema

Keys == Nodes \X (1 .. MaxRun)
NoValue == <<>>
Value == {NoValue} \cup ((1 .. MaxRun) \X (0 .. MaxTurn))
Input == UNION {[S -> Value] : S \in SUBSET AllNodes}
Outcome == [out : BOOLEAN, routes : SUBSET RouteTags, ints : Nat,
            err : BOOLEAN, delta : BOOLEAN]

ASSUME LoopConstants ==
    /\ Rerun \subseteq Nodes /\ WaitForOutput \subseteq Nodes /\ JoinNodes \subseteq Nodes
    /\ MaxConcurrency \in Nat /\ MaxRun \in Nat /\ MaxTurn \in Nat
    /\ {Resumable, SlowNodes, Crashes, BadAnswers} \subseteq BOOLEAN
    /\ Behaviour \in [Keys -> SUBSET Outcome]

(* Workflow::new builds and validates the graph before anything runs.      *)
ASSUME WorkflowIsValid == ValidGraph

VARIABLES
    log,          \* session events of this invocation, oldest first
    turn, pc,     \* turns started; where the engine is
    nodes,        \* WorkflowLoopState::nodes (an absent entry is INACTIVE)
    queue,        \* trigger_buffer: the triggers of each node
    arrived,      \* trigger_buffer: position of a node's entry
    todo,         \* node names snapshotted by schedule_ready_nodes, not visited yet
    pending,      \* pending_tasks
    batch,        \* completions returned by wait_for_completions, not handled yet
    task,         \* the future of each node in pending or batch
    outputs,      \* node_outputs
    interruptIds, \* interrupt_ids
    error,        \* key of the first failed node of the batch, <<>> if none
    events,       \* events collected in this turn
    index,        \* ReplaySequenceBarrier: current_index
    late,         \* history: keys whose barrier wait timed out in this turn
    result        \* how the last turn ended

loop == <<nodes, queue, arrived, todo, pending, batch, task, outputs,
          interruptIds, error, events, index, late>>
vars == <<log, turn, pc, loop, result>>

-----------------------------------------------------------------------------
(* The session log: one record per completion of a node, holding what its  *)
(* events add up to, and one per user message answering interrupts.        *)

LogEvent(k, in, out, routes, ints, err) ==
    [key |-> k, in |-> in, out |-> out, routes |-> routes, ints |-> ints,
     err |-> err, answers |-> {}, bad |-> FALSE]

Answers(S, bad) ==
    [LogEvent(<<>>, <<>>, NoValue, {}, {}, FALSE) EXCEPT !.answers = S, !.bad = bad]

EventsOf(k) == {i \in DOMAIN log : log[i].key = k}

(* reconstruct_node_states fails as a whole on one invalid answer, and     *)
(* setup goes on with the empty result: no recovered run, no barrier.      *)
Scanned == \A i \in DOMAIN log : ~log[i].bad

(* ChildScanState of key k.                                                *)
Raised(k) == UNION {log[i].ints : i \in EventsOf(k)}
Answered == UNION {log[i].answers : i \in DOMAIN log}
Open(k) == Raised(k) \ Answered

OutputOf(k) ==
    LET I == {i \in EventsOf(k) : log[i].out # NoValue}
    IN  IF I = {} THEN NoValue ELSE log[Max(I)].out

RoutesOf(k) ==
    LET I == {i \in EventsOf(k) : log[i].routes # {}}
    IN  IF I = {} THEN {} ELSE log[Max(I)].routes

(* scan_sequence: the keys with a terminal event, ordered by the last one. *)
TerminalEvents(k) ==
    {i \in EventsOf(k) : \/ log[i].out # NoValue \/ log[i].routes # {}
                         \/ log[i].ints # {} \/ log[i].err}

SequenceKeys == IF Scanned THEN {k \in Keys : TerminalEvents(k) # {}} ELSE {}

Rank(k) ==
    Cardinality({l \in SequenceKeys : Max(TerminalEvents(l)) < Max(TerminalEvents(k))})

(* Mutation of Unblocked: the barrier lets the next key pass early.        *)
UnblockedEarly(k) == k \in SequenceKeys => Rank(k) <= index + 1

(* ReplaySequenceBarrier::wait does not block on k.                        *)
Unblocked(k) == k \in SequenceKeys => Rank(k) <= index

(* Mutation of Advance: the index is compared one place too far.           *)
AdvanceOffByOne(k) ==
    index' = IF k \in SequenceKeys /\ Rank(k) = index + 1 THEN index + 1 ELSE index

(* ReplaySequenceBarrier::check_and_advance.                               *)
Advance(k) ==
    index' = IF k \in SequenceKeys /\ Rank(k) = index THEN index + 1 ELSE index

-----------------------------------------------------------------------------
(* check_interception for a static node (no current run).                  *)

Replayed(out, routes, ints) ==
    [run |-> FALSE, out |-> out, routes |-> routes, ints |-> ints]
Native == [Replayed(NoValue, {}, {}) EXCEPT !.run = TRUE]

(* open: interrupts still to be answered; finished: output or route known. *)
Decide(k, open, finished) ==
    LET n == k[1]
        answered == Raised(k) \cap Answered
    IN  IF ~Scanned \/ EventsOf(k) = {} THEN Native
        ELSE IF open # {} THEN
            IF n \in Rerun /\ answered # {} THEN Native ELSE Replayed(NoValue, {}, open)
        ELSE IF finished THEN Replayed(OutputOf(k), RoutesOf(k), {})
        ELSE IF Raised(k) # {} THEN
            IF n \in Rerun THEN Native ELSE Replayed(<<k[2], 0>>, {}, {})
        ELSE IF n \in Rerun \cup WaitForOutput THEN Native
        ELSE Replayed(NoValue, {}, {})

Finished(k) == OutputOf(k) # NoValue \/ RoutesOf(k) # {}

(* Mutations of Intercept: answers are ignored; history is ignored; a run  *)
(* is taken for the one before it.                                         *)
InterceptUnanswered(k) == Decide(k, Raised(k), Finished(k))
InterceptNever(k) == Native
InterceptPrevious(k) ==
    LET l == <<k[1], IF k[2] = 1 THEN 1 ELSE k[2] - 1>>
    IN  Decide(l, Open(l), Finished(l))

Intercept(k) == Decide(k, Open(k), Finished(k))

-----------------------------------------------------------------------------
KeyOf(n) == <<n, nodes[n].counter>>

Idle == [replay |-> FALSE, done |-> FALSE, at |-> 0, in |-> <<>>, out |-> NoValue,
         routes |-> {}, ints |-> {}, err |-> FALSE, delta |-> FALSE]

NoNodes == [n \in Nodes |-> [status |-> "INACTIVE", interrupts |-> {}, counter |-> 0]]
NoTasks == [n \in Nodes |-> Idle]
NoTriggers == [n \in Nodes |-> <<>>]
NoArrivals == [n \in Nodes |-> 0]
NoOutputs == [n \in Nodes |-> NoValue]

Fresh ==
    /\ nodes = NoNodes /\ queue = NoTriggers /\ arrived = NoArrivals
    /\ todo = {} /\ pending = {} /\ batch = {} /\ task = NoTasks
    /\ outputs = NoOutputs /\ interruptIds = {} /\ error = <<>>
    /\ events = <<>> /\ index = 0 /\ late = {}

DropLoopState ==
    /\ nodes' = NoNodes /\ queue' = NoTriggers /\ arrived' = NoArrivals
    /\ todo' = {} /\ pending' = {} /\ batch' = {} /\ task' = NoTasks
    /\ outputs' = NoOutputs /\ interruptIds' = {} /\ error' = <<>>
    /\ events' = <<>> /\ index' = 0 /\ late' = {}

Init == log = <<>> /\ turn = 0 /\ pc = "idle" /\ result = "new" /\ Fresh

(* push_trigger for every node of targets, in order of place.              *)
PushTriggers(targets, place, input) ==
    LET last == Max({0} \cup {arrived[n] : n \in {m \in Nodes : queue[m] # <<>>}})
    IN  /\ queue' = [n \in Nodes |->
              IF n \in targets THEN Append(queue[n], input[n]) ELSE queue[n]]
        /\ arrived' = [n \in Nodes |->
              IF n \in targets /\ queue[n] = <<>> THEN last + place[n] ELSE arrived[n]]

(* setup: an empty loop state with a trigger for every successor of START. *)
Setup ==
    /\ pc = "idle" /\ turn < MaxTurn
    /\ result \in {"new", "answered", "failed", "crashed"}
    /\ pc' = "schedule" /\ turn' = turn + 1 /\ result' = "running"
    /\ LET first == {e.to : e \in OutEdges(START)}
       IN  /\ PushTriggers(first, [n \in first |-> Place(START, n)],
                           [n \in first |-> [s \in {START} |-> NoValue]])
           /\ todo' = first
    /\ UNCHANGED <<log, nodes, pending, batch, task, outputs, interruptIds, error,
                   events, index, late>>

-----------------------------------------------------------------------------
(* schedule_ready_nodes: one visit per name of the snapshot, in order of   *)
(* first arrival; it stops at the concurrency limit.                       *)

Visiting(n) == pc = "schedule" /\ n \in todo /\ \A m \in todo : arrived[n] <= arrived[m]

Busy(n) ==
    \/ n \in pending
    \/ nodes[n].status = "RUNNING"
    \/ nodes[n].status = "WAITING" /\ nodes[n].interrupts # {}

(* Mutation of AtConcurrencyLimit: one task too many.                      *)
OverConcurrencyLimit == MaxConcurrency # 0 /\ Cardinality(pending) > MaxConcurrency

AtConcurrencyLimit == MaxConcurrency # 0 /\ Cardinality(pending) >= MaxConcurrency

Skip(n) ==
    /\ Visiting(n) /\ Busy(n)
    /\ todo' = todo \ {n}
    /\ UNCHANGED <<log, turn, pc, nodes, queue, arrived, pending, batch, task, outputs,
                   interruptIds, error, events, index, late, result>>

StopAtLimit(n) ==
    /\ Visiting(n) /\ ~Busy(n) /\ AtConcurrencyLimit
    /\ todo' = {}
    /\ UNCHANGED <<log, turn, pc, nodes, queue, arrived, pending, batch, task, outputs,
                   interruptIds, error, events, index, late, result>>

(* pop_trigger, prepare_node_state_for_starting and start_node_task.       *)
Start(n) ==
    /\ Visiting(n) /\ ~Busy(n) /\ ~AtConcurrencyLimit
    /\ nodes[n].counter < MaxRun
    /\ LET k == <<n, nodes[n].counter + 1>>
           hit == Intercept(k)
       IN  /\ nodes' = [nodes EXCEPT ![n] =
                 [status |-> "RUNNING", interrupts |-> {}, counter |-> k[2]]]
           /\ task' = [task EXCEPT ![n] =
                 [Idle EXCEPT !.replay = ~hit.run, !.in = Head(queue[n]),
                              !.at = 1 + Max({0} \cup {task[m].at : m \in pending}),
                              !.out = hit.out, !.routes = hit.routes, !.ints = hit.ints]]
    /\ queue' = [queue EXCEPT ![n] = Tail(@)]
    /\ pending' = pending \cup {n}
    /\ todo' = todo \ {n}
    /\ UNCHANGED <<log, turn, pc, arrived, batch, outputs, interruptIds, error, events,
                   index, late, result>>

Scheduled ==
    /\ pc = "schedule" /\ todo = {}
    /\ pc' = IF pending = {} THEN "finalize" ELSE "poll"
    /\ UNCHANGED <<log, turn, loop, result>>

-----------------------------------------------------------------------------
(* The node futures.  A native one ends with an outcome of its node; a     *)
(* replayed one is done when the barrier lets its key through, or when its *)
(* wait times out: the error of the wait is dropped and the node completes.*)

Finish(n, o) ==
    /\ pc = "poll" /\ n \in pending /\ ~task[n].replay /\ ~task[n].done
    /\ task' = [task EXCEPT
          ![n].done = TRUE,
          ![n].out = IF o.out THEN <<nodes[n].counter, turn>> ELSE NoValue,
          ![n].routes = o.routes,
          ![n].ints = {<<n, nodes[n].counter, turn, i>> : i \in 1 .. o.ints},
          ![n].err = o.err, ![n].delta = o.delta]
    /\ UNCHANGED <<log, turn, pc, nodes, queue, arrived, todo, pending, batch, outputs,
                   interruptIds, error, events, index, late, result>>

Ready(n) == task[n].done \/ (task[n].replay /\ Unblocked(KeyOf(n)))

(* Mutation of WaitTimesOut: the barrier's wait has no timeout.            *)
WaitForever(n) == n \in {} /\ UNCHANGED vars

WaitTimesOut(n) ==
    /\ pc = "poll" /\ n \in pending /\ task[n].replay /\ ~Ready(n)
    /\ SlowNodes \/ \A m \in pending : task[m].replay /\ ~Ready(m)
    /\ task' = [task EXCEPT ![n].done = TRUE]
    /\ late' = late \cup {KeyOf(n)}
    /\ UNCHANGED <<log, turn, pc, nodes, queue, arrived, todo, pending, batch, outputs,
                   interruptIds, error, events, index, result>>

(* wait_for_completions takes every future that is ready in one pass.      *)
Poll ==
    /\ pc = "poll" /\ \E n \in pending : Ready(n)
    /\ batch' = {n \in pending : Ready(n)}
    /\ pending' = {n \in pending : ~Ready(n)}
    /\ pc' = "process"
    /\ UNCHANGED <<log, turn, nodes, queue, arrived, todo, task, outputs, interruptIds,
                   error, events, index, late, result>>

-----------------------------------------------------------------------------
(* run_loop handles the completions of a batch in recorded order, those    *)
(* without a recorded place last, in the order they were started.          *)

Order(n) == IF KeyOf(n) \in SequenceKeys THEN Rank(KeyOf(n)) ELSE Cardinality(SequenceKeys)

First(n) ==
    /\ pc = "process" /\ n \in batch
    /\ \A m \in batch \ {n} : \/ Order(n) < Order(m)
                              \/ Order(n) = Order(m) /\ task[n].at < task[m].at

(* What the run of n appends to the log; a replayed run has no events.     *)
ChildEvents(n) ==
    LET t == task[n]
    IN  IF t.replay \/ (t.out = NoValue /\ t.routes = {} /\ t.ints = {} /\ ~t.err /\ ~t.delta)
        THEN <<>>
        ELSE <<LogEvent(KeyOf(n), t.in, t.out, t.routes, t.ints, t.err)>>

(* maybe_reemit_replayed_output_event.                                     *)
Reemitted(n) ==
    LET t == task[n]
    IN  IF t.replay /\ Resumable /\ t.out # NoValue
        THEN <<LogEvent(KeyOf(n), t.in, t.out, {}, {}, FALSE)>>
        ELSE <<>>

Leave(n, status, ints) ==
    /\ nodes' = [nodes EXCEPT ![n].status = status, ![n].interrupts = ints]
    /\ batch' = batch \ {n}
    /\ Advance(KeyOf(n))

CompleteError(n) ==
    /\ First(n) /\ task[n].err
    /\ Leave(n, "FAILED", {})
    /\ events' = events \o ChildEvents(n)
    /\ error' = IF error = <<>> THEN KeyOf(n) ELSE error
    /\ UNCHANGED <<log, turn, pc, queue, arrived, todo, pending, task, outputs,
                   interruptIds, late, result>>

CompleteInterrupted(n) ==
    /\ First(n) /\ ~task[n].err /\ task[n].ints # {}
    /\ Leave(n, "WAITING", task[n].ints)
    /\ events' = events \o ChildEvents(n)
    /\ interruptIds' = interruptIds \cup task[n].ints
    /\ UNCHANGED <<log, turn, pc, queue, arrived, todo, pending, task, outputs, error,
                   late, result>>

NothingYet(n) == n \in WaitForOutput /\ task[n].out = NoValue /\ task[n].routes = {}

CompleteWaiting(n) ==
    /\ First(n) /\ ~task[n].err /\ task[n].ints = {} /\ NothingYet(n)
    /\ Leave(n, "WAITING", {})
    /\ events' = events \o ChildEvents(n)
    /\ UNCHANGED <<log, turn, pc, queue, arrived, todo, pending, task, outputs,
                   interruptIds, error, late, result>>

(* Mutations of Fired: the join is tested before the status of n is set;   *)
(* the join does not wait for all of its predecessors.                     *)
FiredOnOldStatus(n, routes) ==
    {m \in NextPendingNodes(n, routes) :
        m \in JoinNodes => \A p \in Predecessors(m) :
                               p \in Nodes /\ nodes[p].status = "COMPLETED"}
FiredByAny(n, routes) == NextPendingNodes(n, routes)

(* buffer_downstream_triggers: a join is triggered once all of its         *)
(* predecessors are COMPLETED, with the cached output of each of them.     *)
Fired(n, routes) ==
    {m \in NextPendingNodes(n, routes) :
        m \in JoinNodes => \A p \in Predecessors(m) :
                               p \in Nodes /\ nodes'[p].status = "COMPLETED"}

CompleteOk(n) ==
    LET t == task[n]
        targets == Fired(n, t.routes)
    IN  /\ First(n) /\ ~t.err /\ t.ints = {} /\ ~NothingYet(n)
        /\ Leave(n, "COMPLETED", {})
        /\ outputs' = IF t.out = NoValue THEN outputs ELSE [outputs EXCEPT ![n] = t.out]
        /\ events' = events \o ChildEvents(n) \o Reemitted(n)
        /\ PushTriggers(targets, [m \in targets |-> Place(n, m)],
              [m \in targets |-> IF m \in JoinNodes
                                  THEN [p \in Predecessors(m) |-> outputs'[p]]
                                  ELSE [p \in {n} |-> t.out]])
        /\ UNCHANGED <<log, turn, pc, todo, pending, task, interruptIds, error, late, result>>

Complete(n) ==
    CompleteError(n) \/ CompleteInterrupted(n) \/ CompleteWaiting(n) \/ CompleteOk(n)

(* Mutations of BatchDone: the buffer is not looked at again; the loop     *)
(* goes on after an error.                                                 *)
BatchDoneWithoutSnapshot ==
    /\ pc = "process" /\ batch = {} /\ error = <<>>
    /\ pc' = "schedule" /\ todo' = {}
    /\ UNCHANGED <<log, turn, nodes, queue, arrived, pending, batch, task, outputs,
                   interruptIds, error, events, index, late, result>>
BatchDoneDespiteError ==
    /\ pc = "process" /\ batch = {}
    /\ pc' = "schedule" /\ todo' = {n \in Nodes : queue[n] # <<>>}
    /\ UNCHANGED <<log, turn, nodes, queue, arrived, pending, batch, task, outputs,
                   interruptIds, error, events, index, late, result>>

BatchDone ==
    /\ pc = "process" /\ batch = {} /\ error = <<>>
    /\ pc' = "schedule" /\ todo' = {n \in Nodes : queue[n] # <<>>}
    /\ UNCHANGED <<log, turn, nodes, queue, arrived, pending, batch, task, outputs,
                   interruptIds, error, events, index, late, result>>

(* Mutation of Shutdown: dropped futures leave their nodes RUNNING.        *)
ShutdownWithoutCancel ==
    /\ pc = "process" /\ batch = {} /\ error # <<>>
    /\ pending' = {} /\ pc' = "finalize"
    /\ UNCHANGED <<log, turn, nodes, queue, arrived, todo, batch, task, outputs,
                   interruptIds, error, events, index, late, result>>

(* error_shut_down, then cleanup_all_tasks drops the futures still pending.*)
Shutdown ==
    /\ pc = "process" /\ batch = {} /\ error # <<>>
    /\ nodes' = [n \in Nodes |-> IF n \in pending
                                 THEN [nodes[n] EXCEPT !.status = "CANCELLED"] ELSE nodes[n]]
    /\ pending' = {} /\ pc' = "finalize"
    /\ UNCHANGED <<log, turn, queue, arrived, todo, batch, task, outputs, interruptIds,
                   error, events, index, late, result>>

-----------------------------------------------------------------------------
(* collect_remaining_interrupts and finalize; then the caller appends the  *)
(* events of the turn to the session and drops the loop state.             *)

RemainingInterrupts ==
    UNION {nodes[n].interrupts : n \in {m \in Nodes : nodes[m].status = "WAITING"}}

TerminalOutputs == {n \in TerminalNodes : outputs[n] # NoValue}

Finalize ==
    /\ pc = "finalize" /\ pc' = "idle"
    /\ result' = IF error # <<>> THEN "failed"
                 ELSE IF interruptIds \cup RemainingInterrupts # {} THEN "waiting"
                 ELSE IF Cardinality(TerminalOutputs) > 1 THEN "ambiguous" ELSE "completed"
    /\ log' = log \o events
    /\ DropLoopState
    /\ UNCHANGED turn

(* The process dies: the loop state is gone, with every event that is not  *)
(* in the session yet; appending the events of a turn may stop midway.     *)
Crash ==
    /\ Crashes /\ pc # "idle" /\ pc' = "idle" /\ result' = "crashed"
    /\ \E k \in 0 .. (IF pc = "finalize" THEN Len(events) ELSE 0) :
          log' = log \o SubSeq(events, 1, k)
    /\ DropLoopState
    /\ UNCHANGED turn

(* A user message answers interrupts that are in the session.              *)
Unanswered == (UNION {log[i].ints : i \in DOMAIN log}) \ Answered

Answer(S, bad) ==
    /\ pc = "idle" /\ result \in {"waiting", "failed", "crashed"}
    /\ S # {} /\ (bad => BadAnswers)
    /\ log' = Append(log, Answers(S, bad))
    /\ result' = "answered"
    /\ UNCHANGED <<turn, pc, loop>>

-----------------------------------------------------------------------------
Schedule == Scheduled \/ \E n \in Nodes : Skip(n) \/ StopAtLimit(n) \/ Start(n)

Future ==
    \E n \in Nodes :
        \/ WaitTimesOut(n)
        \/ nodes[n].counter \in 1 .. MaxRun /\ \E o \in Behaviour[KeyOf(n)] : Finish(n, o)

Turn == Schedule \/ Future \/ Poll \/ (\E n \in Nodes : Complete(n))
        \/ BatchDone \/ Shutdown \/ Finalize

Next == \/ Setup \/ Turn \/ Crash
        \/ \E S \in SUBSET Unanswered, bad \in BOOLEAN : Answer(S, bad)

Spec == Init /\ [][Next]_vars

(* A node that runs eventually ends and a ready future is polled: the      *)
(* executor keeps polling the one task the engine is.                      *)
FairSpec == Spec /\ WF_vars(Turn)
=============================================================================
