------------------------- MODULE WorkflowLoopProofs -------------------------
(***************************************************************************)
(* Theorems about the workflow engine, for every graph and every bound.    *)
(***************************************************************************)
EXTENDS WorkflowLoopProps, DataTheorems, SequenceTheorems

-----------------------------------------------------------------------------
(* The graph and the log: what the operators of the model return.          *)

LEMMA EdgeTyped ==
    ASSUME NEW e \in EdgeSet
    PROVE  /\ e \in Edge /\ e.from \in AllNodes /\ e.to \in Nodes
           /\ e.tags \subseteq RouteTags \cup {DEFAULT}
<1>1. e \in Edge
  BY GraphShape, ElementOfSeq DEF EdgeSet
<1>2. e.to # START
  BY WorkflowIsValid DEF ValidGraph, StartIsEntry
<1> QED  BY <1>1, <1>2 DEF Edge, AllNodes

LEMMA TargetTyped ==
    ASSUME NEW n, NEW m, NEW i \in DOMAIN Edges, Edges[i].from = n, Edges[i].to = m
    PROVE  m \in Nodes /\ Place(n, m) \in Nat
<1>1. DOMAIN Edges = 1 .. Len(Edges) /\ Len(Edges) \in Nat
  BY GraphShape, LenProperties
<1>2. m \in Nodes
  BY <1>1, EdgeTyped DEF EdgeSet
<1> DEFINE j == CHOOSE j \in DOMAIN Edges : Edges[j].from = n /\ Edges[j].to = m
<1>3. j \in DOMAIN Edges
  OBVIOUS
<1>4. j \in Nat
  BY <1>1, <1>3
<1> QED  BY <1>1, <1>2, <1>4 DEF Place

LEMMA FiredTyped ==
    ASSUME NEW n, NEW routes, NEW m \in Fired(n, routes)
    PROVE  m \in Nodes /\ Place(n, m) \in Nat
<1>1. m \in NextPendingNodes(n, routes)
  BY DEF Fired
<1>2. PICK i \in DOMAIN Edges : Edges[i].from = n /\ Edges[i].to = m
  BY <1>1 DEF NextPendingNodes, NextEdges
<1> QED  BY <1>2, TargetTyped

LEMMA InputTyped ==
    ASSUME NEW S \in SUBSET AllNodes, NEW f \in [S -> Value]
    PROVE  f \in Input
<1>1. [S -> Value] \in {[T -> Value] : T \in SUBSET AllNodes}
  OBVIOUS
<1> QED  BY <1>1 DEF Input

LEMMA EventTyped ==
    ASSUME NEW k \in Keys, NEW in \in Input \cup {<<>>}, NEW out \in Value,
           NEW routes \in SUBSET RouteTags, NEW ints \in SUBSET Id, NEW err \in BOOLEAN
    PROVE  LogEvent(k, in, out, routes, ints, err) \in LogRecord
BY DEF LogEvent, LogRecord

LEMMA EventsOfTyped ==
    ASSUME TypeOK, NEW k
    PROVE  /\ EventsOf(k) \subseteq DOMAIN log
           /\ EventsOf(k) \in SUBSET Nat
           /\ IsFiniteSet(EventsOf(k))
           /\ \A i \in DOMAIN log : log[i] \in LogRecord
<1>1. log \in Seq(LogRecord)
  BY DEF TypeOK
<1>2. DOMAIN log = 1 .. Len(log) /\ Len(log) \in Nat
  BY <1>1, LenProperties
<1>3. IsFiniteSet(1 .. Len(log))
  BY <1>2, FS_Interval
<1>4. EventsOf(k) \subseteq 1 .. Len(log)
  BY <1>2 DEF EventsOf
<1>5. IsFiniteSet(EventsOf(k))
  BY <1>3, <1>4, FS_Subset
<1>6. \A i \in DOMAIN log : log[i] \in LogRecord
  BY <1>1, <1>2, ElementOfSeq
<1> QED  BY <1>2, <1>4, <1>5, <1>6

LEMMA ScanTyped ==
    ASSUME TypeOK, NEW k
    PROVE  /\ Raised(k) \subseteq Id /\ Answered \subseteq Id /\ Open(k) \subseteq Id
           /\ OutputOf(k) \in Value /\ RoutesOf(k) \subseteq RouteTags
<1>1. Raised(k) \subseteq Id /\ Answered \subseteq Id
  BY EventsOfTyped DEF Raised, Answered, LogRecord
<1>2. OutputOf(k) \in Value
  <2> DEFINE I == {i \in EventsOf(k) : log[i].out # NoValue}
  <2>1. CASE I = {}
    BY <2>1 DEF OutputOf, Value
  <2>2. CASE I # {}
    <3>1. I \in SUBSET Nat /\ IsFiniteSet(I)
      BY EventsOfTyped, FS_Subset
    <3>2. Max(I) \in I
      BY <2>2, <3>1, MaxOfNaturals
    <3>3. log[Max(I)] \in LogRecord
      BY <3>2, EventsOfTyped
    <3> QED  BY <2>2, <3>3 DEF OutputOf, LogRecord
  <2> QED  BY <2>1, <2>2
<1>3. RoutesOf(k) \subseteq RouteTags
  <2> DEFINE I == {i \in EventsOf(k) : log[i].routes # {}}
  <2>1. CASE I = {}
    BY <2>1 DEF RoutesOf
  <2>2. CASE I # {}
    <3>1. I \in SUBSET Nat /\ IsFiniteSet(I)
      BY EventsOfTyped, FS_Subset
    <3>2. Max(I) \in I
      BY <2>2, <3>1, MaxOfNaturals
    <3>3. log[Max(I)] \in LogRecord
      BY <3>2, EventsOfTyped
    <3> QED  BY <2>2, <3>3 DEF RoutesOf, LogRecord
  <2> QED  BY <2>1, <2>2
<1> QED  BY <1>1, <1>2, <1>3 DEF Open

(* What a run decided on by check_interception starts with.                *)
LEMMA InterceptTyped ==
    ASSUME TypeOK, NEW k \in Keys
    PROVE  /\ Intercept(k).run \in BOOLEAN /\ Intercept(k).out \in Value
           /\ Intercept(k).routes \subseteq RouteTags /\ Intercept(k).ints \subseteq Id
<1> DEFINE Hit == [run : BOOLEAN, out : Value, routes : SUBSET RouteTags, ints : SUBSET Id]
<1>1. \A out \in Value, routes \in SUBSET RouteTags, ints \in SUBSET Id :
          Replayed(out, routes, ints) \in Hit
  BY DEF Replayed
<1>2. NoValue \in Value /\ <<k[2], 0>> \in Value
  BY LoopConstants DEF Value, Keys
<1>3. Native \in Hit
  BY <1>2 DEF Native, Replayed
<1>4. Intercept(k) \in Hit
  BY <1>1, <1>2, <1>3, ScanTyped DEF Intercept, Decide
<1> QED  BY <1>4

-----------------------------------------------------------------------------
(* push_trigger leaves well-formed buffers, and empties none.              *)
LEMMA PushTyped ==
    ASSUME TypeOK, NEW targets \in SUBSET Nodes, NEW place \in [targets -> Nat],
           NEW input \in [targets -> Input], PushTriggers(targets, place, input)
    PROVE  /\ queue' \in [Nodes -> Seq(Input)] /\ arrived' \in [Nodes -> Nat]
           /\ \A n \in targets : queue'[n] # <<>>
           /\ \A n \in Nodes : queue[n] # <<>> => queue'[n] # <<>>
<1> DEFINE M == {m \in Nodes : queue[m] # <<>>}
           S == {0} \cup {arrived[n] : n \in M}
<1>1. queue \in [Nodes -> Seq(Input)] /\ arrived \in [Nodes -> Nat]
  BY DEF TypeOK
<1>2. Max(S) \in Nat
  <2>1. IsFiniteSet(M)
    BY GraphShape, FS_Subset
  <2>2. IsFiniteSet({arrived[n] : n \in M})
    BY <2>1, FiniteRange
  <2>3. IsFiniteSet(S)
    BY <2>2, FS_Singleton, FS_Union
  <2>4. S \in SUBSET Nat /\ S # {}
    BY <1>1
  <2> HIDE DEF S
  <2> QED  BY <2>3, <2>4, MaxOfNaturals
<1>3. \A n \in targets :
          Append(queue[n], input[n]) \in Seq(Input) /\ Append(queue[n], input[n]) # <<>>
  <2> SUFFICES ASSUME NEW n \in targets
               PROVE  Append(queue[n], input[n]) \in Seq(Input) /\ Append(queue[n], input[n]) # <<>>
    OBVIOUS
  <2>1. queue[n] \in Seq(Input) /\ input[n] \in Input
    BY <1>1
  <2> QED  BY <2>1, AppendProperties
<1>4. /\ queue' = [n \in Nodes |->
              IF n \in targets THEN Append(queue[n], input[n]) ELSE queue[n]]
      /\ arrived' = [n \in Nodes |->
              IF n \in targets /\ queue[n] = <<>> THEN Max(S) + place[n] ELSE arrived[n]]
  BY DEF PushTriggers
<1> HIDE DEF S
<1>5. /\ queue' \in [Nodes -> Seq(Input)]
      /\ \A n \in targets : queue'[n] # <<>>
      /\ \A n \in Nodes : queue[n] # <<>> => queue'[n] # <<>>
  BY <1>1, <1>3, <1>4
<1>6. arrived' \in [Nodes -> Nat]
  BY <1>1, <1>2, <1>4
<1> QED  BY <1>5, <1>6

-----------------------------------------------------------------------------
(* IInv holds initially, and each action preserves it.                     *)

LEMMA IdleTyped == Idle \in Task
BY DEF Idle, Task, Value

LEMMA FreshTyped ==
    /\ NoNodes \in [Nodes -> [status : Status, interrupts : SUBSET Id, counter : 0 .. MaxRun]]
    /\ NoTriggers \in [Nodes -> Seq(Input)]
    /\ NoArrivals \in [Nodes -> Nat]
    /\ NoTasks \in [Nodes -> Task]
    /\ NoOutputs \in [Nodes -> Value]
    /\ <<>> \in Seq(LogRecord)
<1>1. 0 \in 0 .. MaxRun
  BY LoopConstants
<1>2. <<>> \in Seq(Input) /\ <<>> \in Seq(LogRecord)
  BY EmptySeq
<1> QED
  BY <1>1, <1>2, IdleTyped
  DEF NoNodes, NoTriggers, NoArrivals, NoTasks, NoOutputs, Status, Value

LEMMA InitTyped == Init => IInv
<1> SUFFICES ASSUME Init PROVE IInv
  OBVIOUS
<1>1. TypeOK
  BY FreshTyped, LoopConstants DEF Init, Fresh, TypeOK
<1>2. Phases
  BY DEF Init, Fresh, Phases
<1> QED  BY <1>1, <1>2 DEF IInv

LEMMA SetupTyped ==
    ASSUME IInv, Setup
    PROVE  IInv'
<1> DEFINE first == {e.to : e \in OutEdges(START)}
           place == [n \in first |-> Place(START, n)]
           input == [n \in first |-> [s \in {START} |-> NoValue]]
<1>1. TypeOK /\ Phases
  BY DEF IInv
<1>2. \A n \in first : n \in Nodes /\ Place(START, n) \in Nat
  <2> SUFFICES ASSUME NEW e \in OutEdges(START)
               PROVE  e.to \in Nodes /\ Place(START, e.to) \in Nat
    OBVIOUS
  <2>1. PICK i \in 1 .. Len(Edges) : Edges[i] = e /\ e.from = START
    BY DEF OutEdges, EdgeSet
  <2>2. i \in DOMAIN Edges
    BY GraphShape, LenProperties
  <2> QED  BY <2>1, <2>2, TargetTyped
<1>3. [s \in {START} |-> NoValue] \in Input
  <2>1. [s \in {START} |-> NoValue] \in [{START} -> Value]
    BY DEF Value
  <2> QED  BY <2>1, InputTyped DEF AllNodes
<1>4. /\ first \in SUBSET Nodes
      /\ place \in [first -> Nat]
      /\ input \in [first -> Input]
      /\ PushTriggers(first, place, input)
      /\ todo' = first
  BY <1>2, <1>3 DEF Setup
<1> HIDE DEF first, place, input
<1>5. /\ queue' \in [Nodes -> Seq(Input)] /\ arrived' \in [Nodes -> Nat]
      /\ \A n \in todo' : queue'[n] # <<>>
  BY <1>1, <1>4, PushTyped
<1>6. TypeOK'
  BY <1>1, <1>4, <1>5, LoopConstants DEF TypeOK, Setup
<1>7. Phases'
  BY <1>1, <1>4, <1>5 DEF TypeOK, Phases, Setup
<1> QED  BY <1>6, <1>7 DEF IInv

LEMMA SkipTyped ==
    ASSUME IInv, NEW n \in Nodes, Skip(n) \/ StopAtLimit(n)
    PROVE  IInv'
<1>1. TypeOK'
  BY DEF IInv, TypeOK, Skip, StopAtLimit, EventsOf
<1>2. Phases'
  BY DEF IInv, Phases, Skip, StopAtLimit, Visiting
<1> QED  BY <1>1, <1>2 DEF IInv

LEMMA StartTyped ==
    ASSUME IInv, NEW n \in Nodes, Start(n)
    PROVE  IInv'
<1> DEFINE k == <<n, nodes[n].counter + 1>>
           hit == Intercept(k)
           S == {0} \cup {task[m].at : m \in pending}
<1>1. TypeOK /\ Phases /\ pc = "schedule" /\ n \in todo
  BY DEF IInv, Start, Visiting
<1>2. k \in Keys /\ nodes[n].counter + 1 \in 0 .. MaxRun
  BY <1>1, LoopConstants DEF Start, TypeOK, Keys
<1>3. Max(S) \in Nat
  <2> DEFINE at == [m \in Nodes |-> task[m].at]
  <2>1. at \in [Nodes -> Nat] /\ pending \subseteq Nodes
    BY <1>1 DEF TypeOK, Task
  <2>2. S = {0} \cup {at[m] : m \in pending}
    BY <2>1
  <2>3. IsFiniteSet({at[m] : m \in pending})
    <3>1. IsFiniteSet(pending)
      BY <2>1, GraphShape, FS_Subset
    <3> HIDE DEF at
    <3> QED  BY <3>1, FiniteRange
  <2>4. IsFiniteSet(S)
    <3> HIDE DEF at
    <3>1. IsFiniteSet({0})
      BY FS_Singleton
    <3>2. IsFiniteSet({0} \cup {at[m] : m \in pending})
      BY <2>3, <3>1, FS_Union
    <3> HIDE DEF S
    <3> QED  BY <2>2, <3>2
  <2>5. S \in SUBSET Nat /\ S # {}
    BY <2>1, <2>2
  <2> HIDE DEF S
  <2> QED  BY <2>4, <2>5, MaxOfNaturals
<1>4. Head(queue[n]) \in Input /\ Tail(queue[n]) \in Seq(Input)
  BY <1>1, HeadTailProperties DEF TypeOK, Phases
<1>5. /\ hit.run \in BOOLEAN /\ hit.out \in Value
      /\ hit.routes \in SUBSET RouteTags /\ hit.ints \in SUBSET Id
  BY <1>1, <1>2, InterceptTyped
<1>6. /\ nodes' = [nodes EXCEPT ![n] =
              [status |-> "RUNNING", interrupts |-> {}, counter |-> nodes[n].counter + 1]]
      /\ task' = [task EXCEPT ![n] =
              [Idle EXCEPT !.replay = ~hit.run, !.in = Head(queue[n]), !.at = 1 + Max(S),
                           !.out = hit.out, !.routes = hit.routes, !.ints = hit.ints]]
  BY DEF Start
<1> HIDE DEF hit, S, k
<1>7. /\ nodes' \in [Nodes -> [status : Status, interrupts : SUBSET Id, counter : 0 .. MaxRun]]
      /\ nodes'[n].counter >= 1
      /\ \A m \in Nodes \ {n} : nodes'[m] = nodes[m]
  BY <1>1, <1>2, <1>6 DEF TypeOK, Status
<1>8. task' \in [Nodes -> Task]
  <2> DEFINE started == [Idle EXCEPT !.replay = ~hit.run, !.in = Head(queue[n]),
                 !.at = 1 + Max(S), !.out = hit.out, !.routes = hit.routes, !.ints = hit.ints]
  <2>1. started \in Task
    <3>1. (~hit.run) \in BOOLEAN /\ 1 + Max(S) \in Nat
      BY <1>3
    <3> QED  BY <3>1, <1>4, <1>5 DEF Task, Idle
  <2>2. task \in [Nodes -> Task] /\ task' = [task EXCEPT ![n] = started]
    BY <1>1, <1>6 DEF TypeOK
  <2> HIDE DEF started
  <2> QED  BY <2>1, <2>2
<1>9. queue' = [queue EXCEPT ![n] = Tail(queue[n])]
  BY DEF Start
<1>10. TypeOK'
  BY <1>1, <1>4, <1>7, <1>8, <1>9 DEF Start, TypeOK
<1>11. Phases'
  BY <1>1, <1>4, <1>7, <1>9 DEF Start, Phases, TypeOK
<1> QED  BY <1>10, <1>11 DEF IInv

LEMMA ScheduledTyped ==
    ASSUME IInv, Scheduled
    PROVE  IInv'
<1>1. TypeOK'
  BY DEF IInv, TypeOK, Scheduled, loop
<1>2. Phases'
  BY DEF IInv, Phases, Scheduled, loop
<1> QED  BY <1>1, <1>2 DEF IInv

LEMMA FinishTyped ==
    ASSUME IInv, NEW n \in Nodes, nodes[n].counter \in 1 .. MaxRun,
           NEW o \in Behaviour[KeyOf(n)], Finish(n, o)
    PROVE  IInv'
<1> DEFINE ended == [task[n] EXCEPT !.done = TRUE,
                        !.out = IF o.out THEN <<nodes[n].counter, turn>> ELSE NoValue,
                        !.routes = o.routes,
                        !.ints = {<<n, nodes[n].counter, turn, i>> : i \in 1 .. o.ints},
                        !.err = o.err, !.delta = o.delta]
<1>1. TypeOK /\ Phases /\ pc = "poll"
  BY DEF IInv, Finish
<1>2. turn \in 1 .. MaxTurn
  BY <1>1, LoopConstants DEF Phases, TypeOK
<1>3. o \in Outcome
  BY LoopConstants DEF Keys, KeyOf
<1>4. /\ (IF o.out THEN <<nodes[n].counter, turn>> ELSE NoValue) \in Value
      /\ {<<n, nodes[n].counter, turn, i>> : i \in 1 .. o.ints} \in SUBSET Id
  <2>1. <<nodes[n].counter, turn>> \in Value
    BY <1>2, LoopConstants DEF Value
  <2>2. \A i \in 1 .. o.ints : <<n, nodes[n].counter, turn, i>> \in Id
    BY <1>2, <1>3 DEF Id, Outcome
  <2> QED  BY <2>1, <2>2 DEF Value
<1>5. ended \in Task
  <2>1. task[n] \in Task
    BY <1>1 DEF TypeOK
  <2> QED  BY <1>3, <1>4, <2>1 DEF Task, Outcome
<1>6. task' = [task EXCEPT ![n] = ended]
  BY <1>1 DEF Finish, TypeOK
<1> HIDE DEF ended
<1>7. TypeOK'
  <2>1. task' \in [Nodes -> Task]
    BY <1>1, <1>5, <1>6 DEF TypeOK
  <2> QED  BY <1>1, <2>1 DEF TypeOK, Finish
<1>8. Phases'
  BY <1>1 DEF Phases, Finish
<1> QED  BY <1>7, <1>8 DEF IInv

LEMMA WaitTimesOutTyped ==
    ASSUME IInv, NEW n \in Nodes, WaitTimesOut(n)
    PROVE  IInv'
<1>1. TypeOK /\ Phases
  BY DEF IInv
<1>2. KeyOf(n) \in Keys
  BY <1>1, LoopConstants DEF TypeOK, Phases, WaitTimesOut, KeyOf, Keys
<1>3. task' \in [Nodes -> Task]
  <2>1. task[n] \in Task /\ [task[n] EXCEPT !.done = TRUE] \in Task
    BY <1>1, ZenonT(60) DEF TypeOK, Task
  <2>2. task' = [task EXCEPT ![n] = [task[n] EXCEPT !.done = TRUE]]
    BY <1>1 DEF WaitTimesOut, TypeOK
  <2> QED  BY <1>1, <2>1, <2>2 DEF TypeOK
<1>4. TypeOK'
  BY <1>1, <1>2, <1>3 DEF TypeOK, WaitTimesOut
<1>5. Phases'
  BY <1>1 DEF Phases, WaitTimesOut
<1> QED  BY <1>4, <1>5 DEF IInv

LEMMA PollTyped ==
    ASSUME IInv, Poll
    PROVE  IInv'
<1>1. TypeOK'
  BY DEF IInv, TypeOK, Poll
<1>2. Phases'
  BY DEF IInv, Phases, Poll
<1> QED  BY <1>1, <1>2 DEF IInv

-----------------------------------------------------------------------------
(* The handling of one completion.                                         *)

LEMMA FirstTyped ==
    ASSUME IInv, NEW n \in Nodes, First(n)
    PROVE  /\ TypeOK /\ Phases /\ pc = "process" /\ n \in batch
           /\ KeyOf(n) \in Keys /\ task[n] \in Task
           /\ events \o ChildEvents(n) \in Seq(LogRecord)
           /\ events \o (ChildEvents(n) \o Reemitted(n)) \in Seq(LogRecord)
           /\ events \o ChildEvents(n) \o Reemitted(n)
                  = events \o (ChildEvents(n) \o Reemitted(n))
<1>1. TypeOK /\ Phases /\ pc = "process" /\ n \in batch
  BY DEF IInv, First
<1>2. KeyOf(n) \in Keys
  BY <1>1, LoopConstants DEF TypeOK, Phases, KeyOf, Keys
<1>3. task[n] \in Task
  BY <1>1 DEF TypeOK
<1>4. ChildEvents(n) \in Seq(LogRecord)
  <2>1. LogEvent(KeyOf(n), task[n].in, task[n].out, task[n].routes, task[n].ints, task[n].err)
           \in LogRecord
    BY <1>2, <1>3, EventTyped DEF Task
  <2> QED  BY <2>1 DEF ChildEvents
<1>5. Reemitted(n) \in Seq(LogRecord)
  <2> DEFINE e == LogEvent(KeyOf(n), task[n].in, task[n].out, {}, {}, FALSE)
  <2>1. e \in LogRecord
    BY <1>2, <1>3, EventTyped DEF Task
  <2>2. Reemitted(n) = <<e>> \/ Reemitted(n) = <<>>
    BY DEF Reemitted
  <2> HIDE DEF e
  <2>3. <<e>> \in Seq(LogRecord) /\ <<>> \in Seq(LogRecord)
    BY <2>1, EmptySeq
  <2> QED  BY <2>2, <2>3
<1>6. events \in Seq(LogRecord)
  BY <1>1 DEF TypeOK
<1>7. /\ events \o ChildEvents(n) \in Seq(LogRecord)
      /\ events \o (ChildEvents(n) \o Reemitted(n)) \in Seq(LogRecord)
  BY <1>4, <1>5, <1>6, ConcatProperties
<1>8. events \o ChildEvents(n) \o Reemitted(n) = events \o (ChildEvents(n) \o Reemitted(n))
  BY <1>4, <1>5, <1>6, ConcatAssociative
<1> QED  BY <1>1, <1>2, <1>3, <1>7, <1>8

LEMMA LeaveTyped ==
    ASSUME TypeOK, Phases, NEW n \in batch, NEW status \in Status,
           NEW ints \in SUBSET Id, Leave(n, status, ints)
    PROVE  /\ nodes' \in [Nodes -> [status : Status, interrupts : SUBSET Id, counter : 0 .. MaxRun]]
           /\ \A m \in Nodes : nodes'[m].counter = nodes[m].counter
           /\ batch' \subseteq Nodes /\ batch' \subseteq batch
           /\ index' \in Nat
<1>1. n \in Nodes /\ nodes[n] \in [status : Status, interrupts : SUBSET Id, counter : 0 .. MaxRun]
  BY DEF TypeOK
<1>2. nodes' = [nodes EXCEPT ![n] = [nodes[n] EXCEPT !.status = status, !.interrupts = ints]]
  BY <1>1 DEF Leave, TypeOK
<1>3. index' \in Nat
  BY DEF Leave, Advance, TypeOK
<1>4. [nodes[n] EXCEPT !.status = status, !.interrupts = ints]
          \in [status : Status, interrupts : SUBSET Id, counter : 0 .. MaxRun]
  BY <1>1
<1>5. nodes' \in [Nodes -> [status : Status, interrupts : SUBSET Id, counter : 0 .. MaxRun]]
  BY <1>1, <1>2, <1>4 DEF TypeOK
<1>6. \A m \in Nodes : nodes'[m].counter = nodes[m].counter
  BY <1>1, <1>2 DEF TypeOK
<1>7. batch' \subseteq Nodes /\ batch' \subseteq batch
  BY DEF Leave, TypeOK
<1> QED  BY <1>3, <1>5, <1>6, <1>7

LEMMA CompleteErrorTyped ==
    ASSUME IInv, NEW n \in Nodes, CompleteError(n)
    PROVE  IInv'
<1>1. First(n) /\ Leave(n, "FAILED", {}) /\ "FAILED" \in Status /\ {} \in SUBSET Id
  BY DEF CompleteError, Status
<1>2. TypeOK'
  BY <1>1, FirstTyped, LeaveTyped DEF TypeOK, CompleteError
<1>3. Phases'
  BY <1>1, FirstTyped, LeaveTyped DEF Phases, CompleteError, TypeOK
<1> QED  BY <1>2, <1>3 DEF IInv

LEMMA CompleteInterruptedTyped ==
    ASSUME IInv, NEW n \in Nodes, CompleteInterrupted(n)
    PROVE  IInv'
<1>1. First(n) /\ Leave(n, "WAITING", task[n].ints) /\ "WAITING" \in Status
  BY DEF CompleteInterrupted, Status
<1>2. task[n].ints \in SUBSET Id
  BY <1>1, FirstTyped DEF Task
<1>3. TypeOK'
  BY <1>1, <1>2, FirstTyped, LeaveTyped DEF TypeOK, CompleteInterrupted
<1>4. Phases'
  BY <1>1, <1>2, FirstTyped, LeaveTyped DEF Phases, CompleteInterrupted, TypeOK
<1> QED  BY <1>3, <1>4 DEF IInv

LEMMA CompleteWaitingTyped ==
    ASSUME IInv, NEW n \in Nodes, CompleteWaiting(n)
    PROVE  IInv'
<1>1. First(n) /\ Leave(n, "WAITING", {}) /\ "WAITING" \in Status /\ {} \in SUBSET Id
  BY DEF CompleteWaiting, Status
<1>2. TypeOK'
  BY <1>1, FirstTyped, LeaveTyped DEF TypeOK, CompleteWaiting
<1>3. Phases'
  BY <1>1, FirstTyped, LeaveTyped DEF Phases, CompleteWaiting, TypeOK
<1> QED  BY <1>2, <1>3 DEF IInv

(* buffer_downstream_triggers pushes to the nodes it fired.                *)
LEMMA CompleteOkPushes ==
    ASSUME IInv, NEW n \in Nodes, CompleteOk(n)
    PROVE  /\ outputs' \in [Nodes -> Value]
           /\ queue' \in [Nodes -> Seq(Input)] /\ arrived' \in [Nodes -> Nat]
           /\ \A m \in Fired(n, task[n].routes) : queue'[m] # <<>>
           /\ \A m \in Nodes : queue[m] # <<>> => queue'[m] # <<>>
<1> DEFINE targets == Fired(n, task[n].routes)
           place == [m \in targets |-> Place(n, m)]
           input == [m \in targets |-> IF m \in JoinNodes
                                        THEN [p \in Predecessors(m) |-> outputs'[p]]
                                        ELSE [p \in {n} |-> task[n].out]]
<1>1. First(n) /\ Leave(n, "COMPLETED", {}) /\ "COMPLETED" \in Status /\ {} \in SUBSET Id
  BY DEF CompleteOk, Status
<1>2. TypeOK /\ Phases /\ pc = "process" /\ task[n] \in Task
  BY <1>1, FirstTyped
<1>3. outputs' \in [Nodes -> Value]
  BY <1>2 DEF CompleteOk, TypeOK, Task
<1>4. targets \in SUBSET Nodes /\ place \in [targets -> Nat]
  BY FiredTyped
<1>5. input \in [targets -> Input]
  <2> SUFFICES ASSUME NEW m \in targets PROVE input[m] \in Input
    OBVIOUS
  <2>1. CASE m \in JoinNodes
    <3>1. \A p \in Predecessors(m) : p \in Nodes
      BY <2>1 DEF Fired
    <3>2. [p \in Predecessors(m) |-> outputs'[p]] \in [Predecessors(m) -> Value]
      BY <1>3, <3>1
    <3> QED  BY <2>1, <3>1, <3>2, InputTyped DEF AllNodes
  <2>2. CASE m \notin JoinNodes
    <3>1. [p \in {n} |-> task[n].out] \in [{n} -> Value]
      BY <1>2 DEF Task
    <3> QED  BY <2>2, <3>1, InputTyped DEF AllNodes
  <2> QED  BY <2>1, <2>2
<1>6. PushTriggers(targets, place, input)
  BY DEF CompleteOk
<1> HIDE DEF place, input
<1> QED  BY <1>2, <1>3, <1>4, <1>5, <1>6, PushTyped

LEMMA CompleteOkTyped ==
    ASSUME IInv, NEW n \in Nodes, CompleteOk(n)
    PROVE  IInv'
<1>1. First(n) /\ Leave(n, "COMPLETED", {}) /\ "COMPLETED" \in Status /\ {} \in SUBSET Id
  BY DEF CompleteOk, Status
<1>2. TypeOK /\ Phases /\ pc = "process" /\ task[n] \in Task
  BY <1>1, FirstTyped
<1>3. /\ outputs' \in [Nodes -> Value]
      /\ queue' \in [Nodes -> Seq(Input)] /\ arrived' \in [Nodes -> Nat]
  BY CompleteOkPushes
<1>4. /\ events' = events \o ChildEvents(n) \o Reemitted(n)
      /\ UNCHANGED <<log, turn, pc, todo, pending, task, interruptIds, error, late, result>>
  BY DEF CompleteOk
<1>5. TypeOK'
  BY <1>1, <1>2, <1>3, <1>4, FirstTyped, LeaveTyped DEF TypeOK
<1>6. Phases'
  <2>1. n \in batch
    BY <1>1, FirstTyped
  <2>2. /\ \A m \in Nodes : nodes'[m].counter = nodes[m].counter
        /\ batch' \subseteq batch
    BY <1>1, <1>2, <2>1, LeaveTyped
  <2> QED  BY <1>2, <1>4, <2>2 DEF Phases, TypeOK
<1> QED  BY <1>5, <1>6 DEF IInv

-----------------------------------------------------------------------------
(* The end of a batch, of a turn, and what happens between turns.          *)

LEMMA BatchDoneTyped ==
    ASSUME IInv, BatchDone
    PROVE  IInv'
<1>1. TypeOK'
  BY DEF IInv, TypeOK, BatchDone
<1>2. Phases'
  BY DEF IInv, Phases, BatchDone
<1> QED  BY <1>1, <1>2 DEF IInv

LEMMA ShutdownTyped ==
    ASSUME IInv, Shutdown
    PROVE  IInv'
<1>1. TypeOK /\ Phases
  BY DEF IInv
<1>2. \A n \in Nodes :
          /\ [nodes[n] EXCEPT !.status = "CANCELLED"]
                 \in [status : Status, interrupts : SUBSET Id, counter : 0 .. MaxRun]
          /\ nodes[n] \in [status : Status, interrupts : SUBSET Id, counter : 0 .. MaxRun]
  BY <1>1 DEF TypeOK, Status
<1>3. nodes' \in [Nodes -> [status : Status, interrupts : SUBSET Id, counter : 0 .. MaxRun]]
  BY <1>2 DEF Shutdown
<1>4. TypeOK'
  BY <1>1, <1>3 DEF TypeOK, Shutdown
<1>5. Phases'
  BY <1>1 DEF Phases, Shutdown
<1> QED  BY <1>4, <1>5 DEF IInv

LEMMA DropTyped ==
    ASSUME IInv, DropLoopState, turn' = turn, pc' = "idle", log' \in Seq(LogRecord),
           result' \in {"failed", "waiting", "ambiguous", "completed", "crashed"}
    PROVE  IInv'
<1>1. TypeOK'
  BY FreshTyped DEF IInv, TypeOK, DropLoopState
<1>2. Phases'
  BY DEF Phases, DropLoopState
<1> QED  BY <1>1, <1>2 DEF IInv

LEMMA FinalizeTyped ==
    ASSUME IInv, Finalize
    PROVE  IInv'
<1>1. log' \in Seq(LogRecord)
  <2>1. log \in Seq(LogRecord) /\ events \in Seq(LogRecord)
    BY DEF IInv, TypeOK
  <2> QED  BY <2>1, ConcatProperties DEF Finalize
<1> QED  BY <1>1, DropTyped DEF Finalize

LEMMA CrashTyped ==
    ASSUME IInv, Crash
    PROVE  IInv'
<1>1. log \in Seq(LogRecord) /\ events \in Seq(LogRecord) /\ Len(events) \in Nat
  BY LenProperties DEF IInv, TypeOK
<1>2. PICK k \in 0 .. (IF pc = "finalize" THEN Len(events) ELSE 0) :
          log' = log \o SubSeq(events, 1, k)
  BY DEF Crash
<1>3. SubSeq(events, 1, k) \in Seq(LogRecord)
  <2>1. k \in Int /\ \A i \in 1 .. k : events[i] \in LogRecord
    BY <1>1, <1>2, ElementOfSeq
  <2> QED  BY <2>1, SubSeqProperties
<1>4. log' \in Seq(LogRecord)
  BY <1>1, <1>2, <1>3, ConcatProperties
<1> QED  BY <1>4, DropTyped DEF Crash

LEMMA AnswerTyped ==
    ASSUME IInv, NEW S \in SUBSET Unanswered, NEW bad \in BOOLEAN, Answer(S, bad)
    PROVE  IInv'
<1>1. TypeOK /\ Phases
  BY DEF IInv
<1>2. S \subseteq Id
  <2>1. \A i \in DOMAIN log : log[i].ints \subseteq Id
    BY <1>1, EventsOfTyped DEF LogRecord
  <2> QED  BY <2>1 DEF Unanswered
<1>3. Answers(S, bad) \in LogRecord
  BY <1>2 DEF Answers, LogEvent, LogRecord, Value
<1>4. log' \in Seq(LogRecord)
  <2>1. log \in Seq(LogRecord)
    BY <1>1 DEF TypeOK
  <2> QED  BY <1>3, <2>1, AppendProperties DEF Answer
<1>5. TypeOK'
  BY <1>1, <1>4 DEF TypeOK, Answer, loop
<1>6. Phases'
  BY <1>1 DEF Phases, Answer, loop
<1> QED  BY <1>5, <1>6 DEF IInv

(* No step in which nothing happens disturbs the invariant.                *)
LEMMA StutterTyped ==
    ASSUME IInv, UNCHANGED vars
    PROVE  IInv'
<1>1. TypeOK'
  BY DEF IInv, TypeOK, vars, loop
<1>2. Phases'
  BY DEF IInv, Phases, vars, loop
<1> QED  BY <1>1, <1>2 DEF IInv

LEMMA NextTyped ==
    ASSUME IInv, [Next]_vars
    PROVE  IInv'
<1>1. CASE Setup
  BY <1>1, SetupTyped
<1>2. CASE Schedule
  BY <1>2, ScheduledTyped, SkipTyped, StartTyped DEF Schedule
<1>3. CASE Future
  BY <1>3, WaitTimesOutTyped, FinishTyped DEF Future
<1>4. CASE Poll
  BY <1>4, PollTyped
<1>5. CASE \E n \in Nodes : Complete(n)
  BY <1>5, CompleteErrorTyped, CompleteInterruptedTyped, CompleteWaitingTyped,
     CompleteOkTyped DEF Complete
<1>6. CASE BatchDone
  BY <1>6, BatchDoneTyped
<1>7. CASE Shutdown
  BY <1>7, ShutdownTyped
<1>8. CASE Finalize
  BY <1>8, FinalizeTyped
<1>9. CASE Crash
  BY <1>9, CrashTyped
<1>10. CASE \E S \in SUBSET Unanswered, bad \in BOOLEAN : Answer(S, bad)
  BY <1>10, AnswerTyped
<1>11. CASE UNCHANGED vars
  BY <1>11, StutterTyped
<1> QED
  BY <1>1, <1>2, <1>3, <1>4, <1>5, <1>6, <1>7, <1>8, <1>9, <1>10, <1>11 DEF Next, Turn

(* Every variable keeps its type and the phases their invariants.          *)
THEOREM TypeCorrect == Spec => []IInv
<1>1. Init => IInv
  BY InitTyped
<1>2. IInv /\ [Next]_vars => IInv'
  BY NextTyped
<1> QED  BY <1>1, <1>2, PTL DEF Spec

-----------------------------------------------------------------------------
(* A future that ends, or times out, changes nothing of the loop state.    *)
LEMMA FutureFrame ==
    ASSUME Future
    PROVE  /\ pc = "poll" /\ pc' = pc /\ nodes' = nodes /\ queue' = queue /\ todo' = todo
           /\ pending' = pending /\ batch' = batch /\ error' = error
<1>1. CASE \E n \in Nodes : WaitTimesOut(n)
  BY <1>1, SMTT(60) DEF WaitTimesOut
<1>2. CASE \E n \in Nodes : \E o \in Behaviour[KeyOf(n)] : Finish(n, o)
  <2>1. PICK n \in Nodes : \E o \in Behaviour[KeyOf(n)] : Finish(n, o)
    BY <1>2
  <2>2. PICK o \in Behaviour[KeyOf(n)] : Finish(n, o)
    BY <2>1
  <2>3. /\ pc = "poll"
        /\ UNCHANGED <<log, turn, pc, nodes, queue, arrived, todo, pending, batch, outputs,
                       interruptIds, error, events, index, late, result>>
    BY <2>2 DEF Finish
  <2> QED  BY <2>3
<1> QED  BY <1>1, <1>2 DEF Future

(* A step other than the start of a node starts nothing.                   *)
LEMMA OnlyStartAdds ==
    ASSUME [Next]_vars, \A n \in Nodes : ~Start(n)
    PROVE  pending' \subseteq pending
<1>1. CASE Setup
  BY <1>1 DEF Setup
<1>2. CASE Schedule
  BY <1>2 DEF Schedule, Scheduled, Skip, StopAtLimit, loop
<1>3. CASE Future
  BY <1>3, FutureFrame
<1>4. CASE Poll
  BY <1>4 DEF Poll
<1>5. CASE \E n \in Nodes : Complete(n)
  BY <1>5 DEF Complete, CompleteError, CompleteInterrupted, CompleteWaiting, CompleteOk
<1>6. CASE BatchDone \/ Shutdown
  BY <1>6 DEF BatchDone, Shutdown
<1>7. CASE Finalize \/ Crash
  BY <1>7 DEF Finalize, Crash, DropLoopState
<1>8. CASE \E S \in SUBSET Unanswered, bad \in BOOLEAN : Answer(S, bad)
  BY <1>8 DEF Answer, loop
<1>9. CASE UNCHANGED vars
  BY <1>9 DEF vars, loop
<1> QED
  BY <1>1, <1>2, <1>3, <1>4, <1>5, <1>6, <1>7, <1>8, <1>9 DEF Next, Turn

(* max_concurrency: only Start adds to the executions in flight, and it is *)
(* refused at the limit.                                                   *)
THEOREM ConcurrencyBounded == Spec => []ConcurrencyLimit
<1>1. Init => ConcurrencyLimit
  BY LoopConstants, FS_EmptySet DEF Init, Fresh, ConcurrencyLimit
<1>2. IInv /\ ConcurrencyLimit /\ [Next]_vars => ConcurrencyLimit'
  <2> SUFFICES ASSUME IInv, ConcurrencyLimit, [Next]_vars, MaxConcurrency # 0
               PROVE  Cardinality(pending') <= MaxConcurrency
    BY DEF ConcurrencyLimit
  <2>1. IsFiniteSet(pending) /\ Cardinality(pending) <= MaxConcurrency
    BY GraphShape, FS_Subset DEF IInv, TypeOK, ConcurrencyLimit
  <2>2. ASSUME NEW n \in Nodes, Start(n)
        PROVE  Cardinality(pending') <= MaxConcurrency
    <3>1. Cardinality(pending) < MaxConcurrency /\ pending' = pending \cup {n}
      BY <2>1, <2>2, FS_CardinalityType, LoopConstants DEF Start, AtConcurrencyLimit
    <3>2. Cardinality(pending \cup {n}) =
              IF n \in pending THEN Cardinality(pending) ELSE Cardinality(pending) + 1
      BY <2>1, FS_AddElement
    <3>3. Cardinality(pending) \in Nat
      BY <2>1, FS_CardinalityType
    <3> QED  BY <3>1, <3>2, <3>3, LoopConstants
  <2>3. ASSUME \A n \in Nodes : ~Start(n)
        PROVE  Cardinality(pending') <= MaxConcurrency
    <3>1. pending' \in SUBSET pending
      BY <2>3, OnlyStartAdds
    <3>2. Cardinality(pending') <= Cardinality(pending) /\ Cardinality(pending') \in Nat
      BY <2>1, <3>1, FS_Subset, FS_CardinalityType
    <3> QED  BY <2>1, <3>2, FS_CardinalityType, LoopConstants
  <2> QED  BY <2>2, <2>3
<1> QED  BY <1>1, <1>2, TypeCorrect, PTL DEF Spec

-----------------------------------------------------------------------------
(* A node has at most one execution in flight, and is RUNNING meanwhile.   *)
LEMMA SingleFlightStep ==
    ASSUME IInv, SingleFlight, [Next]_vars
    PROVE  SingleFlight'
<1> USE DEF SingleFlight
<1>1. CASE Setup
  BY <1>1 DEF Setup
<1>2. CASE Schedule
  <2>1. CASE \E n \in Nodes : Start(n)
    <3>1. PICK n \in Nodes : Start(n)
      BY <2>1
    <3>2. n \notin pending /\ pending' = pending \cup {n} /\ batch = {} /\ batch' = {}
      BY <3>1 DEF Start, Busy, Visiting, IInv, Phases
    <3>3. nodes' = [nodes EXCEPT ![n] =
              [status |-> "RUNNING", interrupts |-> {}, counter |-> nodes[n].counter + 1]]
      BY <3>1 DEF Start
    <3>4. \A m \in Nodes : nodes'[m].status = IF m = n THEN "RUNNING" ELSE nodes[m].status
      BY <3>3 DEF IInv, TypeOK
    <3> QED  BY <3>2, <3>4
  <2>2. CASE ~\E n \in Nodes : Start(n)
    BY <1>2, <2>2 DEF Schedule, Scheduled, Skip, StopAtLimit, loop
  <2> QED  BY <2>1, <2>2
<1>3. CASE Future
  BY <1>3, FutureFrame
<1>4. CASE Poll
  BY <1>4 DEF Poll, IInv, Phases
<1>5. ASSUME NEW n \in Nodes, Complete(n)
      PROVE  SingleFlight'
  <2>1. PICK status \in Status \ {"RUNNING"} : \E ints : Leave(n, status, ints)
    BY <1>5 DEF Complete, CompleteError, CompleteInterrupted, CompleteWaiting, CompleteOk, Status
  <2>2. n \in batch /\ pending' = pending
    BY <1>5 DEF Complete, CompleteError, CompleteInterrupted, CompleteWaiting, CompleteOk, First
  <2>3. \A m \in Nodes : nodes'[m].status = IF m = n THEN status ELSE nodes[m].status
    BY <2>1 DEF Leave, IInv, TypeOK
  <2>4. batch' = batch \ {n}
    BY <2>1 DEF Leave
  <2> QED  BY <2>1, <2>2, <2>3, <2>4
<1>6. CASE BatchDone
  BY <1>6 DEF BatchDone
<1>7. CASE Shutdown
  <2>1. \A n \in Nodes : nodes'[n].status = IF n \in pending THEN "CANCELLED" ELSE nodes[n].status
    BY <1>7 DEF Shutdown, IInv, TypeOK
  <2> QED  BY <1>7, <2>1 DEF Shutdown
<1>8. CASE Finalize \/ Crash
  BY <1>8 DEF Finalize, Crash, DropLoopState, NoNodes
<1>9. CASE \E S \in SUBSET Unanswered, bad \in BOOLEAN : Answer(S, bad)
  BY <1>9 DEF Answer, loop
<1>10. CASE UNCHANGED vars
  BY <1>10 DEF vars, loop
<1> QED
  BY <1>1, <1>2, <1>3, <1>4, <1>5, <1>6, <1>7, <1>8, <1>9, <1>10 DEF Next, Turn

(* What the "already RUNNING" test of schedule_ready_nodes relies on.      *)
THEOREM SingleFlightHolds == Spec => []SingleFlight
<1>1. Init => SingleFlight
  BY DEF Init, Fresh, NoNodes, SingleFlight
<1>2. IInv /\ SingleFlight /\ [Next]_vars => SingleFlight'
  BY SingleFlightStep
<1> QED  BY <1>1, <1>2, TypeCorrect, PTL DEF Spec

-----------------------------------------------------------------------------
(* run_loop leaves the loop after a batch with an error: nothing starts,   *)
(* and nothing is scheduled, from then on in this turn.                    *)
THEOREM ErrorEndsTurn == Spec => NothingStartsAfterError
<1> DEFINE A == error # <<>> => pending' \subseteq pending /\ pc' # "schedule"
<1>1. IInv /\ [Next]_vars => A
  <2> SUFFICES ASSUME IInv, [Next]_vars, error # <<>>
               PROVE  pending' \subseteq pending /\ pc' # "schedule"
    OBVIOUS
  <2>1. pc \in {"process", "finalize"}
    BY DEF IInv, Phases
  <2>2. \A n \in Nodes : ~Start(n)
    BY <2>1 DEF Start, Visiting
  <2>3. /\ ~Setup /\ ~Poll /\ ~BatchDone /\ ~Scheduled
        /\ \A n \in Nodes : ~Skip(n) /\ ~StopAtLimit(n)
    BY <2>1 DEF Setup, Scheduled, Skip, StopAtLimit, Visiting, Poll, BatchDone
  <2>4. ~Schedule /\ ~Future
    BY <2>1, <2>2, <2>3, FutureFrame DEF Schedule
  <2>5. pending' \subseteq pending
    BY <2>2, OnlyStartAdds
  <2>6. CASE \E n \in Nodes : Complete(n)
    BY <2>1, <2>6, <2>5 DEF Complete, CompleteError, CompleteInterrupted, CompleteWaiting, CompleteOk
  <2>7. CASE Shutdown \/ Finalize \/ Crash \/ UNCHANGED vars
    BY <2>1, <2>7, <2>5 DEF Shutdown, Finalize, Crash, vars
  <2>8. CASE \E S \in SUBSET Unanswered, bad \in BOOLEAN : Answer(S, bad)
    BY <2>1, <2>8, <2>5 DEF Answer
  <2> QED  BY <2>3, <2>4, <2>6, <2>7, <2>8 DEF Next, Turn
<1> QED  BY <1>1, TypeCorrect, PTL DEF Spec, NothingStartsAfterError

-----------------------------------------------------------------------------
(* No trigger is lost.  While schedule_ready_nodes runs and nothing is in  *)
(* flight, a buffered trigger belongs to a node still to be visited or to  *)
(* one that was skipped as busy; with nothing in flight, busy means that   *)
(* the node waits for an interrupt.                                        *)
Pushed ==
    pc = "schedule" /\ pending = {} =>
        \A n \in Nodes : queue[n] # <<>> => n \in todo \/ Busy(n)

LEMMA PushedStep ==
    ASSUME IInv, Pushed, [Next]_vars
    PROVE  Pushed'
<1> SUFFICES ASSUME pc' = "schedule", pending' = {}, NEW n \in Nodes, queue'[n] # <<>>
             PROVE  n \in todo' \/ Busy(n)'
  BY DEF Pushed
<1>1. CASE Setup
  <2>1. queue = NoTriggers
    BY <1>1 DEF Setup, IInv, Phases
  <2>2. queue'[n] = IF n \in todo' THEN queue'[n] ELSE queue[n]
    BY <1>1 DEF Setup, PushTriggers
  <2> QED  BY <2>1, <2>2 DEF NoTriggers
<1>2. CASE Schedule
  <2>1. CASE \E m \in Nodes : Skip(m)
    BY <2>1 DEF Skip, Pushed, Visiting, Busy
  <2>2. CASE \E m \in Nodes : StopAtLimit(m)
    <3>1. pending = {} /\ Cardinality(pending) = 0
      BY <2>2, FS_EmptySet DEF StopAtLimit
    <3> QED  BY <2>2, <3>1, LoopConstants DEF StopAtLimit, AtConcurrencyLimit
  <2>3. CASE \E m \in Nodes : Start(m)
    BY <2>3 DEF Start
  <2>4. CASE Scheduled
    BY <2>4 DEF Scheduled
  <2> QED  BY <1>2, <2>1, <2>2, <2>3, <2>4 DEF Schedule
<1>3. CASE Future
  BY <1>3, FutureFrame
<1>4. CASE Poll
  BY <1>4 DEF Poll
<1>5. CASE \E m \in Nodes : Complete(m)
  BY <1>5 DEF Complete, CompleteError, CompleteInterrupted, CompleteWaiting, CompleteOk, First
<1>6. CASE BatchDone
  BY <1>6 DEF BatchDone
<1>7. CASE Shutdown
  BY <1>7 DEF Shutdown
<1>8. CASE Finalize \/ Crash
  BY <1>8 DEF Finalize, Crash
<1>9. CASE \E S \in SUBSET Unanswered, bad \in BOOLEAN : Answer(S, bad)
  BY <1>9 DEF Answer
<1>10. CASE UNCHANGED vars
  BY <1>10 DEF vars, loop, Pushed, Busy
<1> QED
  BY <1>1, <1>2, <1>3, <1>4, <1>5, <1>6, <1>7, <1>8, <1>9, <1>10 DEF Next, Turn

LEMMA DrainedStep ==
    ASSUME IInv, SingleFlight, Pushed, TriggersDrained, [Next]_vars
    PROVE  TriggersDrained'
<1> SUFFICES ASSUME pc' = "finalize", error' = <<>>, NEW n \in Nodes, queue'[n] # <<>>
             PROVE  nodes'[n].status = "WAITING" /\ nodes'[n].interrupts # {}
  BY DEF TriggersDrained
<1>1. CASE Setup
  BY <1>1 DEF Setup
<1>2. CASE Schedule
  <2>1. CASE \E m \in Nodes : Skip(m) \/ StopAtLimit(m) \/ Start(m)
    BY <2>1 DEF Skip, StopAtLimit, Start, Visiting
  <2>2. CASE Scheduled
    <3>1. /\ pc = "schedule" /\ todo = {} /\ pending = {}
          /\ queue' = queue /\ nodes' = nodes
      BY <2>2 DEF Scheduled, loop
    <3>2. Busy(n) /\ nodes[n].status # "RUNNING"
      BY <3>1 DEF Pushed, SingleFlight, IInv, Phases
    <3> QED  BY <3>1, <3>2 DEF Busy
  <2> QED  BY <1>2, <2>1, <2>2 DEF Schedule
<1>3. CASE Future
  BY <1>3, FutureFrame
<1>4. CASE Poll
  BY <1>4 DEF Poll
<1>5. CASE \E m \in Nodes : Complete(m)
  BY <1>5 DEF Complete, CompleteError, CompleteInterrupted, CompleteWaiting, CompleteOk, First
<1>6. CASE BatchDone \/ Shutdown
  BY <1>6 DEF BatchDone, Shutdown
<1>7. CASE Finalize \/ Crash
  BY <1>7 DEF Finalize, Crash
<1>8. CASE \E S \in SUBSET Unanswered, bad \in BOOLEAN : Answer(S, bad)
  BY <1>8 DEF Answer
<1>9. CASE UNCHANGED vars
  BY <1>9 DEF vars, loop, TriggersDrained
<1> QED
  BY <1>1, <1>2, <1>3, <1>4, <1>5, <1>6, <1>7, <1>8, <1>9 DEF Next, Turn

(* No break or skip of schedule_ready_nodes loses a trigger.               *)
THEOREM NoTriggerIsLost == Spec => []TriggersDrained
<1>1. Init => Pushed /\ TriggersDrained
  BY DEF Init, Pushed, TriggersDrained
<1>2. IInv /\ Pushed /\ [Next]_vars => Pushed'
  BY PushedStep
<1>3. IInv /\ SingleFlight /\ Pushed /\ TriggersDrained /\ [Next]_vars => TriggersDrained'
  BY DrainedStep
<1> QED  BY <1>1, <1>2, <1>3, TypeCorrect, SingleFlightHolds, PTL DEF Spec

-----------------------------------------------------------------------------
(* Every node is the target of an edge: validate_connectivity reaches it   *)
(* from START, and no round of the search adds a node in another way.      *)
LEMMA EveryNodeIsTarget ==
    ASSUME NEW n \in Nodes
    PROVE  \E e \in EdgeSet : e.to = n
<1> DEFINE F == [k \in Nat |-> [S \in SUBSET AllNodes |-> Step(S)]]
           Rounds(f) == f = [k \in Nat |-> IF k = 0 THEN {START} ELSE Step(f[k - 1])]
           reach == CHOOSE f : Rounds(f)
           last == Cardinality(Nodes)
<1>1. F \in [Nat -> [SUBSET AllNodes -> SUBSET AllNodes]] /\ {START} \in SUBSET AllNodes
  BY EdgeTyped DEF Step, AllNodes
<1>2. \E f : Rounds(f)
  <2> DEFINE T == SUBSET AllNodes
             a == {START}
  <2>1. PICK f \in [Nat -> T] : f[0] = a /\ \A k \in Nat : f[k + 1] = F[k + 1][f[k]]
    <3>1. F \in [Nat -> [T -> T]] /\ a \in T
      BY <1>1
    <3> HIDE DEF F, T, a
    <3>2. Recursive(T, a, F) # {}
      BY <3>1, Recursion
    <3> QED  BY <3>2 DEF Recursive
  <2>2. ASSUME NEW k \in Nat PROVE f[k] = IF k = 0 THEN {START} ELSE Step(f[k - 1])
    <3>1. CASE k = 0
      BY <2>1, <3>1
    <3>2. CASE k # 0
      <4>1. PICK m \in Nat : m = k - 1 /\ k = m + 1
        BY <3>2
      <4>2. f[m] \in T
        OBVIOUS
      <4>3. F[m + 1][f[m]] = Step(f[m])
        BY <4>2
      <4> HIDE DEF F
      <4>4. f[m + 1] = Step(f[m])
        BY <2>1, <4>3
      <4> QED  BY <3>2, <4>1, <4>4
    <3> QED  BY <3>1, <3>2
  <2>3. f = [k \in Nat |-> IF k = 0 THEN {START} ELSE Step(f[k - 1])]
    BY <2>2
  <2> QED  BY <2>3
<1>3. Rounds(reach)
  BY <1>2
<1>4. last \in Nat
  BY GraphShape, FS_CardinalityType
<1>5. Reachable = reach[last + 1]
  BY DEF Reachable
<1> HIDE DEF reach, last
<1> DEFINE S == {k \in Nat : \A m \in reach[k] : m = START \/ \E e \in EdgeSet : e.to = m}
<1>6. 0 \in S
  BY <1>3
<1>7. ASSUME NEW k \in Nat, k \in S PROVE k + 1 \in S
  <2>1. reach[k + 1] = Step(reach[k])
    BY <1>3
  <2> QED  BY <1>7, <2>1 DEF Step
<1>8. last + 1 \in S
  <2> HIDE DEF S
  <2>1. \A k \in Nat : k \in S
    BY <1>6, <1>7, Induction
  <2> QED  BY <1>4, <2>1
<1>9. n \in reach[last + 1] /\ n # START
  BY <1>5, GraphShape, WorkflowIsValid DEF ValidGraph, AllNodes
<1> QED  BY <1>8, <1>9

(* A node whose predecessors all ended COMPLETED, each having to follow    *)
(* its edge to it.                                                         *)
Awaited(j) ==
    \A e \in EdgeSet : e.to = j => /\ e.tags = {} /\ e.from \in Nodes
                                   /\ nodes[e.from].status = "COMPLETED"

(* Such a join has a trigger, or has started; and what has a status of its *)
(* own has started.                                                        *)
JoinTriggered ==
    /\ \A j \in JoinNodes : Awaited(j) => queue[j] # <<>> \/ nodes[j].counter > 0
    /\ \A n \in Nodes : nodes[n].status # "INACTIVE" => nodes[n].counter > 0

(* The completion that is the last one a join waits for triggers it.       *)
LEMMA LastOneTriggers ==
    ASSUME IInv, NEW n \in Nodes, CompleteOk(n), NEW j \in JoinNodes, Awaited(j)', ~Awaited(j)
    PROVE  queue'[j] # <<>>
<1> DEFINE routes == task[n].routes
<1>1. First(n) /\ Leave(n, "COMPLETED", {})
  BY DEF CompleteOk
<1>2. \A m \in Nodes \ {n} : nodes'[m].status = nodes[m].status
  BY <1>1 DEF Leave, IInv, TypeOK
<1>3. PICK e \in EdgeSet : e.to = j /\ e.tags = {} /\ e.from = n
  BY <1>2 DEF Awaited
<1>4. PICK i \in 1 .. Len(Edges) : Edges[i] = e
  BY DEF EdgeSet
<1>5. i \in NextEdges(n, routes)
  <2>1. DOMAIN Edges = 1 .. Len(Edges)
    BY GraphShape, LenProperties
  <2> QED  BY <1>3, <1>4, <2>1 DEF NextEdges, Follows
<1>6. j \in NextPendingNodes(n, routes)
  BY <1>3, <1>4, <1>5 DEF NextPendingNodes
<1>7. \A p \in Predecessors(j) : p \in Nodes /\ nodes'[p].status = "COMPLETED"
  BY DEF Awaited, Predecessors
<1>8. j \in Fired(n, routes)
  BY <1>6, <1>7 DEF Fired
<1> QED  BY <1>8, CompleteOkPushes

LEMMA JoinTriggeredStep ==
    ASSUME IInv, JoinTriggered, [Next]_vars
    PROVE  JoinTriggered'
<1> DEFINE Kept(n) == /\ nodes'[n].counter >= nodes[n].counter
                      /\ queue[n] # <<>> => queue'[n] # <<>> \/ nodes'[n].counter > 0
                      /\ nodes'[n].status = "COMPLETED" => nodes[n].status = "COMPLETED"
                      /\ nodes'[n].status # "INACTIVE" => nodes'[n].counter > 0
<1>1. \A n \in Nodes : nodes[n].counter \in Nat
  BY DEF IInv, TypeOK
<1>2. ASSUME \A n \in Nodes : Kept(n), \A n \in Nodes : nodes'[n].counter \in Nat
      PROVE  JoinTriggered'
  <2>1. \A j \in JoinNodes : Awaited(j)' => Awaited(j) /\ j \in Nodes
    BY <1>2, LoopConstants DEF Awaited
  <2> QED  BY <1>1, <1>2, <2>1 DEF JoinTriggered
<1>3. ASSUME nodes' = nodes, \A n \in Nodes : queue[n] # <<>> => queue'[n] # <<>>
      PROVE  JoinTriggered'
  BY <1>3, <1>1, <1>2 DEF JoinTriggered
<1>4. CASE Setup
  <2>1. queue = NoTriggers
    BY <1>4 DEF Setup, IInv, Phases
  <2> QED  BY <1>3, <1>4, <2>1 DEF Setup, NoTriggers
<1>5. CASE Schedule
  <2>1. ASSUME NEW n \in Nodes, Start(n)
        PROVE  JoinTriggered'
    <3>1. nodes' = [nodes EXCEPT ![n] =
              [status |-> "RUNNING", interrupts |-> {}, counter |-> nodes[n].counter + 1]]
      BY <2>1 DEF Start
    <3>2. \A m \in Nodes : nodes'[m] = IF m = n
              THEN [status |-> "RUNNING", interrupts |-> {}, counter |-> nodes[n].counter + 1]
              ELSE nodes[m]
      BY <3>1 DEF IInv, TypeOK
    <3>3. \A m \in Nodes \ {n} : queue'[m] = queue[m]
      BY <2>1 DEF Start, IInv, TypeOK
    <3> QED  BY <1>1, <1>2, <3>2, <3>3 DEF JoinTriggered
  <2>2. CASE ~\E n \in Nodes : Start(n)
    BY <1>3, <1>5, <2>2 DEF Schedule, Scheduled, Skip, StopAtLimit, loop
  <2> QED  BY <2>1, <2>2
<1>6. CASE Future
  BY <1>3, <1>6, FutureFrame
<1>7. CASE Poll
  BY <1>3, <1>7 DEF Poll
<1>8. ASSUME NEW n \in Nodes, Complete(n)
      PROVE  JoinTriggered'
  <2>1. PICK status \in Status : \E ints : Leave(n, status, ints)
    BY <1>8 DEF Complete, CompleteError, CompleteInterrupted, CompleteWaiting, CompleteOk, Status
  <2>2. \A m \in Nodes : /\ nodes'[m].status = IF m = n THEN status ELSE nodes[m].status
                         /\ nodes'[m].counter = nodes[m].counter
    BY <2>1 DEF Leave, IInv, TypeOK
  <2>3. nodes[n].counter > 0
    BY <1>1, <1>8 DEF Complete, CompleteError, CompleteInterrupted, CompleteWaiting, CompleteOk,
                      First, IInv, Phases
  <2>4. CASE CompleteOk(n)
    <3>1. \A j \in JoinNodes : Awaited(j)' /\ ~Awaited(j) => queue'[j] # <<>>
      BY <2>4, LastOneTriggers
    <3>2. \A m \in Nodes : queue[m] # <<>> => queue'[m] # <<>>
      BY <2>4, CompleteOkPushes
    <3> QED  BY <2>2, <2>3, <3>1, <3>2, LoopConstants DEF JoinTriggered
  <2>5. CASE ~CompleteOk(n)
    <3>1. status # "COMPLETED" /\ queue' = queue
      <4>1. CASE CompleteError(n)
        BY <2>2, <4>1 DEF CompleteError, Leave, IInv, TypeOK
      <4>2. CASE CompleteInterrupted(n)
        BY <2>2, <4>2 DEF CompleteInterrupted, Leave, IInv, TypeOK
      <4>3. CASE CompleteWaiting(n)
        BY <2>2, <4>3 DEF CompleteWaiting, Leave, IInv, TypeOK
      <4> QED  BY <1>8, <2>5, <4>1, <4>2, <4>3 DEF Complete
    <3> QED  BY <1>1, <1>2, <2>2, <2>3, <3>1 DEF JoinTriggered
  <2> QED  BY <2>4, <2>5
<1>9. CASE BatchDone
  BY <1>3, <1>9 DEF BatchDone
<1>10. CASE Shutdown
  <2>1. \A n \in Nodes : /\ nodes'[n].counter = nodes[n].counter
                         /\ nodes'[n].status =
                               IF n \in pending THEN "CANCELLED" ELSE nodes[n].status
    BY <1>10 DEF Shutdown, IInv, TypeOK
  <2>2. \A n \in pending : nodes[n].counter > 0
    BY <1>1 DEF IInv, TypeOK, Phases
  <2>3. queue' = queue
    BY <1>10 DEF Shutdown
  <2> QED  BY <1>1, <1>2, <2>1, <2>2, <2>3 DEF JoinTriggered
<1>11. CASE Finalize \/ Crash
  <2>1. nodes' = NoNodes
    BY <1>11 DEF Finalize, Crash, DropLoopState
  <2>2. \A j \in JoinNodes : ~Awaited(j)'
    <3> SUFFICES ASSUME NEW j \in JoinNodes, Awaited(j)' PROVE FALSE
      OBVIOUS
    <3>1. PICK e \in EdgeSet : e.to = j
      BY EveryNodeIsTarget, LoopConstants
    <3> QED  BY <2>1, <3>1 DEF Awaited, NoNodes
  <2> QED  BY <2>1, <2>2 DEF JoinTriggered, NoNodes
<1>12. CASE \E S \in SUBSET Unanswered, bad \in BOOLEAN : Answer(S, bad)
  BY <1>3, <1>12 DEF Answer, loop
<1>13. CASE UNCHANGED vars
  BY <1>3, <1>13 DEF vars, loop
<1> QED
  BY <1>4, <1>5, <1>6, <1>7, <1>8, <1>9, <1>10, <1>11, <1>12, <1>13 DEF Next, Turn

(* A join that all its predecessors reached has run when the loop ends:    *)
(* its trigger was buffered by the last of them and was not lost.          *)
THEOREM JoinsFire == Spec => []JoinFires
<1>1. Init => JoinTriggered
  <2> SUFFICES ASSUME Init PROVE JoinTriggered
    OBVIOUS
  <2>1. \A j \in JoinNodes : ~Awaited(j)
    <3> SUFFICES ASSUME NEW j \in JoinNodes, Awaited(j) PROVE FALSE
      OBVIOUS
    <3>1. PICK e \in EdgeSet : e.to = j
      BY EveryNodeIsTarget, LoopConstants
    <3> QED  BY <3>1 DEF Awaited, Init, Fresh, NoNodes
  <2> QED  BY <2>1 DEF JoinTriggered, Init, Fresh, NoNodes
<1>2. IInv /\ JoinTriggered /\ [Next]_vars => JoinTriggered'
  BY JoinTriggeredStep
<1>3. IInv /\ TriggersDrained /\ JoinTriggered => JoinFires
  <2> SUFFICES ASSUME TriggersDrained, JoinTriggered, pc = "finalize", error = <<>>,
                      NEW j \in JoinNodes, Awaited(j)
               PROVE  nodes[j].counter > 0
    BY DEF JoinFires, Awaited
  <2>1. queue[j] # <<>> \/ nodes[j].counter > 0
    BY DEF JoinTriggered
  <2>2. queue[j] # <<>> => nodes[j].status = "WAITING"
    BY LoopConstants DEF TriggersDrained
  <2> QED  BY <2>1, <2>2, LoopConstants DEF JoinTriggered
<1> QED  BY <1>1, <1>2, <1>3, TypeCorrect, NoTriggerIsLost, PTL DEF Spec
=============================================================================
