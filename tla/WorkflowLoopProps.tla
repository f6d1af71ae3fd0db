-------------------------- MODULE WorkflowLoopProps --------------------------
(***************************************************************************)
(* What the workflow engine of module WorkflowLoop promises.               *)
(***************************************************************************)
EXTENDS WorkflowLoop

Status == {"INACTIVE", "RUNNING", "COMPLETED", "WAITING", "FAILED", "CANCELLED"}
Id == Nodes \X (1 .. MaxRun) \X (1 .. MaxTurn) \X Nat
LogRecord == [key : Keys \cup {<<>>}, in : Input \cup {<<>>}, out : Value,
              routes : SUBSET RouteTags, ints : SUBSET Id, err : BOOLEAN,
              answers : SUBSET Id, bad : BOOLEAN]
Task == [replay : BOOLEAN, done : BOOLEAN, at : Nat, in : Input \cup {<<>>}, out : Value,
         routes : SUBSET RouteTags, ints : SUBSET Id, err : BOOLEAN, delta : BOOLEAN]

(* Every variable holds a value of its type.                               *)
TypeOK ==
    /\ log \in Seq(LogRecord) /\ events \in Seq(LogRecord)
    /\ turn \in 0 .. MaxTurn
    /\ pc \in {"idle", "schedule", "poll", "process", "finalize"}
    /\ result \in {"new", "running", "answered", "waiting", "failed", "ambiguous",
                   "completed", "crashed"}
    /\ nodes \in [Nodes -> [status : Status, interrupts : SUBSET Id, counter : 0 .. MaxRun]]
    /\ queue \in [Nodes -> Seq(Input)] /\ arrived \in [Nodes -> Nat]
    /\ todo \subseteq Nodes /\ pending \subseteq Nodes /\ batch \subseteq Nodes
    /\ task \in [Nodes -> Task]
    /\ outputs \in [Nodes -> Value]
    /\ interruptIds \subseteq Id /\ late \subseteq Keys
    /\ error \in Keys \cup {<<>>} /\ index \in Nat

(* What TypeOK and the safety properties below rest on: the variables of   *)
(* one phase are empty or meaningful in the others.                        *)
Phases ==
    /\ pc # "process" => batch = {}
    /\ pc # "idle" => turn >= 1
    /\ pc = "idle" => queue = NoTriggers
    /\ pc = "schedule" => \A n \in todo : queue[n] # <<>>
    /\ error # <<>> => pc \in {"process", "finalize"}
    /\ \A n \in pending \cup batch : nodes[n].counter >= 1

IInv == TypeOK /\ Phases

(* A node has at most one execution in flight, and it is RUNNING exactly   *)
(* while its future is pending or its completion is waiting to be handled: *)
(* what the "already RUNNING" test of schedule_ready_nodes relies on.      *)
SingleFlight ==
    /\ pending \cap batch = {}
    /\ \A n \in Nodes : nodes[n].status = "RUNNING" <=> n \in pending \cup batch

(* max_concurrency bounds the executions in flight, replayed ones included.*)
ConcurrencyLimit == MaxConcurrency # 0 => Cardinality(pending) <= MaxConcurrency

(* The loop ends only when every buffered trigger was consumed, except     *)
(* those of nodes that wait for an interrupt to be answered: no break or   *)
(* skip of schedule_ready_nodes loses a trigger.                           *)
TriggersDrained ==
    pc = "finalize" /\ error = <<>> =>
        \A n \in Nodes : queue[n] # <<>> =>
            nodes[n].status = "WAITING" /\ nodes[n].interrupts # {}

(* A join whose predecessors all ended COMPLETED, each having to follow    *)
(* its edge to the join, has been triggered when the loop ends.            *)
JoinFires ==
    pc = "finalize" /\ error = <<>> =>
        \A j \in JoinNodes :
            (\A e \in EdgeSet : e.to = j => /\ e.tags = {} /\ e.from \in Nodes
                                            /\ nodes[e.from].status = "COMPLETED")
            => nodes[j].counter > 0

(* The keys whose completion was handled in this turn.                     *)
Handled(k) ==
    \/ k[2] < nodes[k[1]].counter
    \/ k[2] = nodes[k[1]].counter /\ k[1] \notin pending \cup batch

EarlierHandled(k) == \A l \in SequenceKeys : Rank(l) < Rank(k) => Handled(l)

ReplayHandled(n) == n \in batch \ batch' /\ pc' = "process" /\ task[n].replay

(* A replayed completion is handled only after every key recorded before   *)
(* it, unless its wait on the barrier timed out.                           *)
ReplayInOrder ==
    [][\A n \in Nodes :
          ReplayHandled(n) /\ KeyOf(n) \in SequenceKeys /\ KeyOf(n) \notin late
          => EarlierHandled(KeyOf(n))]_vars

(* The run of k ended with an output in a turn whose events were saved.    *)
Settled(k) == \E i \in EventsOf(k) : log[i].out # NoValue /\ log[i].ints = {} /\ ~log[i].err

Executes(n) == n \in pending' \ pending /\ ~task'[n].replay

(* A run that settled in an earlier turn is fast-forwarded: it is executed *)
(* again only while an interrupt it raised is still open, or an invalid    *)
(* answer keeps the log from being read.                                   *)
SettledRunsOnce ==
    [][\A n \in Nodes :
          Executes(n) /\ Scanned' /\ Settled(KeyOf(n)') => Open(KeyOf(n)') # {}]_vars

(* A run that is repeated or fast-forwarded gets the input it was given    *)
(* when it first ran: run ids name the same trigger in every turn, unless  *)
(* an invalid answer keeps the log from being read.                        *)
SameInput ==
    Scanned => \A n \in pending \cup batch : \A i \in EventsOf(KeyOf(n)) : log[i].in = task[n].in

(* A workflow that ends a turn waiting has an interrupt the user can still *)
(* answer: what finalize reports is what the log leaves open.              *)
WaitingIsAnswerable == result = "waiting" => Unanswered # {}

(* While nodes are faster than the barrier's timeout no wait times out, so *)
(* a resume that repeats the recorded order is never reported as diverging.*)
NoDivergence == ~SlowNodes => late = {}

(* The first error of a batch ends the turn: nothing is scheduled after it.*)
NothingStartsAfterError ==
    [][error # <<>> => pending' \subseteq pending /\ pc' # "schedule"]_vars

(* What the log records of run k, the answer of an interrupt being the     *)
(* output of a node that is not rerun on resume.                           *)
Ledger == INSTANCE WorkflowLedger WITH done <- [k \in Keys |->
    LET in == log[Min(EventsOf(k))].in
        unknown == [known |-> FALSE]
        known(out) == [known |-> TRUE, in |-> in, out |-> out]
    IN  IF Settled(k) THEN known(OutputOf(k))
        ELSE IF Raised(k) # {} /\ Open(k) = {} /\ k[1] \notin Rerun THEN known(<<k[2], 0>>)
        ELSE unknown]

(* Through crashes, resumes and replays the log stays one dataflow run of  *)
(* the graph: the engine implements WorkflowLedger.                        *)
ImplementsLedger == Ledger!Spec

(* Every turn ends: no node starves and no replay waits forever.           *)
TurnEnds == pc = "schedule" ~> pc = "idle"
=============================================================================
