------------------------ MODULE WorkflowReplayProofs ------------------------
(***************************************************************************)
(* Theorems about what a later turn of a workflow makes of the log, for    *)
(* every graph and every bound.                                            *)
(***************************************************************************)
EXTENDS WorkflowLoopProofs

(* Only the start of n brings n into flight, with the run that follows.    *)
LEMMA EntersByStart ==
    ASSUME IInv, [Next]_vars, NEW n \in Nodes, n \in pending' \ pending
    PROVE  /\ Start(n) /\ KeyOf(n)' \in Keys
           /\ task'[n].replay = ~Intercept(KeyOf(n)').run
<1>1. PICK m \in Nodes : Start(m)
  BY OnlyStartAdds
<1>2. m = n
  BY <1>1 DEF Start
<1> DEFINE k == <<n, nodes[n].counter + 1>>
<1>3. nodes'[n].counter = nodes[n].counter + 1
  BY <1>1, <1>2 DEF Start, IInv, TypeOK
<1>4. KeyOf(n)' = k
  BY <1>3 DEF KeyOf
<1>5. k \in Keys
  BY <1>1, <1>2, LoopConstants DEF Start, IInv, TypeOK, Keys
<1>6. task'[n].replay = ~Intercept(k).run
  BY <1>1, <1>2 DEF Start, IInv, TypeOK, Task, Idle
<1> QED  BY <1>1, <1>2, <1>4, <1>5, <1>6

(* check_interception runs a settled key again only while one of its       *)
(* interrupts is open.                                                     *)
LEMMA SettledIsReplayed ==
    ASSUME TypeOK, NEW k, Scanned, Settled(k), Open(k) = {}
    PROVE  Intercept(k).run = FALSE
<1> DEFINE I == {i \in EventsOf(k) : log[i].out # NoValue}
<1>1. EventsOf(k) # {} /\ I # {}
  BY DEF Settled
<1>2. OutputOf(k) # NoValue
  <2>1. I \in SUBSET Nat /\ IsFiniteSet(I)
    BY EventsOfTyped, FS_Subset
  <2>2. Max(I) \in I
    BY <1>1, <2>1, MaxOfNaturals
  <2> QED  BY <1>1, <2>2 DEF OutputOf
<1>3. Finished(k)
  BY <1>2 DEF Finished
<1>4. Intercept(k) = Replayed(OutputOf(k), RoutesOf(k), {})
  BY <1>1, <1>3 DEF Intercept, Decide
<1> QED  BY <1>4 DEF Replayed

(* A run that settled in an earlier turn is fast-forwarded.                *)
THEOREM SettledAreNotRerun == Spec => SettledRunsOnce
<1> DEFINE A == \A n \in Nodes :
                    Executes(n) /\ Scanned' /\ Settled(KeyOf(n)') => Open(KeyOf(n)') # {}
<1>1. IInv /\ [Next]_vars => A
  <2> SUFFICES ASSUME IInv, [Next]_vars, NEW n \in Nodes,
                      Executes(n), Scanned', Settled(KeyOf(n)'), Open(KeyOf(n)') = {}
               PROVE  FALSE
    OBVIOUS
  <2>1. n \in pending' \ pending /\ ~task'[n].replay
    BY DEF Executes
  <2>2. Start(n) /\ task'[n].replay = ~Intercept(KeyOf(n)').run
    BY <2>1, EntersByStart
  <2>3. log' = log
    BY <2>2 DEF Start
  <2>4. Scanned
    BY <2>3 DEF Scanned
  <2>5. TypeOK
    BY DEF IInv
  <2>6. Intercept(KeyOf(n)').run = FALSE
    BY <2>4, <2>5, SettledIsReplayed
  <2> QED  BY <2>1, <2>2, <2>6
<1> QED  BY <1>1, TypeCorrect, PTL DEF Spec, SettledRunsOnce

-----------------------------------------------------------------------------
(* The recorded order: keys have different places in it.                   *)

LEMMA KeysFinite == IsFiniteSet(Keys)
<1>1. IsFiniteSet(Nodes)
  BY GraphShape
<1>2. IsFiniteSet(1 .. MaxRun)
  BY LoopConstants, FS_Interval
<1> QED  BY <1>1, <1>2, FS_Product DEF Keys

LEMMA RankTyped ==
    ASSUME NEW k
    PROVE  Rank(k) \in Nat /\ Rank(k)' \in Nat
<1>1. SequenceKeys \in SUBSET Keys /\ SequenceKeys' \in SUBSET Keys
  BY DEF SequenceKeys
<1>2. \A S \in SUBSET Keys : Cardinality(S) \in Nat
  BY KeysFinite, FS_Subset, FS_CardinalityType
<1> QED  BY <1>1, <1>2 DEF Rank

LEMMA LastEventOf ==
    ASSUME TypeOK, NEW k \in SequenceKeys
    PROVE  /\ Max(TerminalEvents(k)) \in Nat
           /\ log[Max(TerminalEvents(k))].key = k
<1>1. TerminalEvents(k) # {} /\ TerminalEvents(k) \subseteq EventsOf(k)
  BY DEF SequenceKeys, TerminalEvents
<1>2. TerminalEvents(k) \in SUBSET Nat /\ IsFiniteSet(TerminalEvents(k))
  BY <1>1, EventsOfTyped, FS_Subset
<1>3. Max(TerminalEvents(k)) \in TerminalEvents(k)
  BY <1>1, <1>2, MaxOfNaturals
<1> QED  BY <1>1, <1>2, <1>3 DEF EventsOf

LEMMA RankOrders ==
    ASSUME TypeOK, NEW k \in SequenceKeys, NEW l \in SequenceKeys,
           Max(TerminalEvents(k)) < Max(TerminalEvents(l))
    PROVE  Rank(k) < Rank(l)
<1> DEFINE Before(m) ==
        {h \in SequenceKeys : Max(TerminalEvents(h)) < Max(TerminalEvents(m))}
<1>1. Before(l) \in SUBSET Keys /\ IsFiniteSet(Before(l))
  BY KeysFinite, FS_Subset DEF SequenceKeys
<1>2. \A h \in SequenceKeys : Max(TerminalEvents(h)) \in Nat
  BY LastEventOf
<1>3. Before(k) \in SUBSET Before(l)
  BY <1>2
<1>4. k \in Before(l) /\ k \notin Before(k)
  BY <1>2
<1>5. Rank(k) = Cardinality(Before(k)) /\ Rank(l) = Cardinality(Before(l))
  BY DEF Rank
<1>6. Rank(k) \in Nat /\ Rank(l) \in Nat
  BY RankTyped
<1> HIDE DEF Before
<1>7. Rank(k) <= Rank(l) /\ Rank(k) # Rank(l)
  BY <1>1, <1>3, <1>4, <1>5, FS_Subset
<1> QED  BY <1>6, <1>7

LEMMA RankIsInjective ==
    ASSUME TypeOK, NEW k \in SequenceKeys, NEW l \in SequenceKeys, Rank(k) = Rank(l)
    PROVE  k = l
<1>1. SUFFICES ASSUME k # l PROVE FALSE
  OBVIOUS
<1> DEFINE a == Max(TerminalEvents(k))
           b == Max(TerminalEvents(l))
<1>2. a \in Nat /\ b \in Nat /\ log[a].key = k /\ log[b].key = l
  BY LastEventOf
<1>3. a < b \/ b < a
  BY <1>1, <1>2
<1>4. Rank(k) \in Nat /\ Rank(l) \in Nat
  BY RankTyped
<1> QED  BY <1>3, <1>4, RankOrders

-----------------------------------------------------------------------------
(* The barrier.  What it lets through was recorded next: the keys placed   *)
(* before the index were handled, and a replayed completion of the batch   *)
(* that did not time out has a place the index has reached.                *)
Barrier ==
    /\ pc = "idle" => index = 0
    /\ \A l \in SequenceKeys : Rank(l) < index => Handled(l)
    /\ \A n \in pending \cup batch : task[n].replay /\ task[n].done => KeyOf(n) \in late
    /\ \A n \in batch : task[n].replay => KeyOf(n) \in late \/ Unblocked(KeyOf(n))

(* What the order is read from, in a step that leaves the log alone.       *)
LEMMA SameOrder ==
    ASSUME log' = log
    PROVE  /\ SequenceKeys' = SequenceKeys
           /\ \A k \in Keys : Rank(k)' = Rank(k)
<1>1. \A k : EventsOf(k)' = EventsOf(k)
  BY DEF EventsOf
<1>2. \A k : TerminalEvents(k)' = TerminalEvents(k)
  BY <1>1 DEF TerminalEvents
<1>3. Scanned' = Scanned
  BY DEF Scanned
<1>4. SequenceKeys' = SequenceKeys
  BY <1>2, <1>3 DEF SequenceKeys
<1> QED  BY <1>2, <1>4 DEF Rank

(* A step that leaves the log and the index alone, and runs what is in     *)
(* flight no further than it was, keeps the barrier.                       *)
LEMMA BarrierFrame ==
    ASSUME IInv, Barrier, log' = log, index' = index, pc' = "idle" => index' = 0,
           task' = task, late' = late,
           \A n \in Nodes : nodes'[n].counter = nodes[n].counter,
           pending' \cup batch' \subseteq pending \cup batch, batch' \subseteq batch
    PROVE  Barrier'
<1>1. \A n \in Nodes : KeyOf(n)' = KeyOf(n)
  BY DEF KeyOf
<1>2. \A n \in pending \cup batch : n \in Nodes
  BY DEF IInv, TypeOK
<1>3. SequenceKeys' = SequenceKeys /\ \A k \in Keys : Rank(k)' = Rank(k)
  BY SameOrder
<1>4. \A l \in SequenceKeys : l \in Keys /\ l[1] \in Nodes
  BY DEF SequenceKeys, Keys
<1>5. \A l \in SequenceKeys : Handled(l) => Handled(l)'
  BY <1>4 DEF Handled
<1>6. \A n \in Nodes : Unblocked(KeyOf(n)) => Unblocked(KeyOf(n))'
  BY <1>1, <1>3, <1>4 DEF Unblocked
<1> QED  BY <1>1, <1>2, <1>3, <1>4, <1>5, <1>6 DEF Barrier

(* A completion that is handled hands its place to the next one.           *)
LEMMA BarrierComplete ==
    ASSUME IInv, SingleFlight, Barrier, NEW n \in Nodes, Complete(n)
    PROVE  Barrier'
<1>1. PICK status : \E ints : Leave(n, status, ints)
  BY DEF Complete, CompleteError, CompleteInterrupted, CompleteWaiting, CompleteOk
<1>2. /\ First(n) /\ log' = log /\ pc' = pc /\ task' = task /\ late' = late /\ pending' = pending
      /\ pc = "process" /\ n \in batch
  BY DEF Complete, CompleteError, CompleteInterrupted, CompleteWaiting, CompleteOk, First
<1>3. batch' = batch \ {n} /\ Advance(KeyOf(n))
  BY <1>1 DEF Leave
<1>4. \A m \in Nodes : nodes'[m].counter = nodes[m].counter
  BY <1>1 DEF Leave, IInv, TypeOK
<1>5. \A m \in Nodes : KeyOf(m)' = KeyOf(m)
  BY <1>4 DEF KeyOf
<1>6. SequenceKeys' = SequenceKeys /\ \A k \in Keys : Rank(k)' = Rank(k)
  BY <1>2, SameOrder
<1>7. \A l \in SequenceKeys : l \in Keys /\ l[1] \in Nodes
  BY DEF SequenceKeys, Keys
<1>8. index' \in Nat /\ index' >= index
  BY <1>3 DEF Advance, IInv, TypeOK
<1>9. ASSUME NEW l \in SequenceKeys, Rank(l) < index'
      PROVE  Handled(l)'
  <2>1. CASE Rank(l) < index
    <3>1. Handled(l)
      BY <2>1 DEF Barrier
    <3> QED  BY <1>2, <1>3, <1>4, <1>7, <3>1 DEF Handled
  <2>2. CASE ~(Rank(l) < index)
    <3>1. KeyOf(n) \in SequenceKeys /\ Rank(KeyOf(n)) = index /\ index' = index + 1
      BY <1>3, <1>9, <2>2 DEF Advance
    <3>2. Rank(l) = index
      BY <1>9, <2>2, <3>1, RankTyped DEF IInv, TypeOK
    <3>3. l = KeyOf(n)
      BY <3>1, <3>2, RankIsInjective DEF IInv
    <3>4. n \notin pending' \cup batch'
      BY <1>2, <1>3 DEF SingleFlight
    <3> QED  BY <1>4, <3>3, <3>4 DEF Handled, KeyOf
  <2> QED  BY <2>1, <2>2
<1>10. \A m \in batch : Unblocked(KeyOf(m)) => Unblocked(KeyOf(m))'
  <2> SUFFICES ASSUME NEW m \in batch, Unblocked(KeyOf(m)), KeyOf(m) \in SequenceKeys
               PROVE  Rank(KeyOf(m)) <= index'
    BY <1>5, <1>6, <1>7 DEF Unblocked, IInv, TypeOK
  <2> QED  BY <1>8, RankTyped DEF Unblocked, IInv, TypeOK
<1>11. \A m \in pending \cup batch : m \in Nodes
  BY DEF IInv, TypeOK
<1>12. \A m \in pending' \cup batch' : task'[m].replay /\ task'[m].done => KeyOf(m)' \in late'
  BY <1>2, <1>3, <1>5, <1>11 DEF Barrier
<1>13. \A m \in batch' : task'[m].replay => KeyOf(m)' \in late' \/ Unblocked(KeyOf(m))'
  BY <1>2, <1>3, <1>5, <1>10, <1>11 DEF Barrier
<1>14. \A l \in SequenceKeys' : Rank(l)' < index' => Handled(l)'
  BY <1>6, <1>7, <1>9
<1> QED  BY <1>2, <1>12, <1>13, <1>14 DEF Barrier

LEMMA BarrierStart ==
    ASSUME IInv, SingleFlight, Barrier, NEW n \in Nodes, Start(n)
    PROVE  Barrier'
<1>1. /\ log' = log /\ pc' = pc /\ pc = "schedule" /\ late' = late /\ index' = index
      /\ pending' = pending \cup {n} /\ batch' = {} /\ batch = {}
  BY DEF Start, Visiting, IInv, Phases
<1>2. n \notin pending
  BY DEF Start, Busy
<1>3. nodes'[n].counter = nodes[n].counter + 1 /\ nodes[n].counter \in Nat
  BY DEF Start, IInv, TypeOK
<1>4. \A m \in Nodes \ {n} : nodes'[m] = nodes[m] /\ task'[m] = task[m]
  BY DEF Start, IInv, TypeOK
<1>5. ~task'[n].done
  BY DEF Start, IInv, TypeOK, Idle
<1>6. SequenceKeys' = SequenceKeys /\ \A k \in Keys : Rank(k)' = Rank(k)
  BY <1>1, SameOrder
<1>7. \A l \in SequenceKeys : l \in Keys /\ l[1] \in Nodes /\ l[2] \in Nat
  BY DEF SequenceKeys, Keys
<1>8. \A l \in SequenceKeys : Handled(l) => Handled(l)'
  <2> SUFFICES ASSUME NEW l \in SequenceKeys, Handled(l) PROVE Handled(l)'
    OBVIOUS
  <2>1. CASE l[1] = n
    BY <1>3, <1>7, <2>1 DEF Handled
  <2>2. CASE l[1] # n
    BY <1>1, <1>4, <1>7, <2>2 DEF Handled
  <2> QED  BY <2>1, <2>2
<1>9. \A m \in pending' \cup batch' : task'[m].replay /\ task'[m].done => KeyOf(m)' \in late'
  <2> SUFFICES ASSUME NEW m \in pending', task'[m].replay, task'[m].done
               PROVE  KeyOf(m)' \in late'
    BY <1>1
  <2>1. m # n /\ m \in pending /\ m \in Nodes
    BY <1>1, <1>5 DEF IInv, TypeOK
  <2>2. KeyOf(m)' = KeyOf(m)
    BY <1>4, <2>1 DEF KeyOf
  <2> QED  BY <1>1, <1>4, <2>1, <2>2 DEF Barrier
<1> QED  BY <1>1, <1>6, <1>7, <1>8, <1>9 DEF Barrier

(* What a native node that ends leaves in its future.                      *)
LEMMA FinishedTask ==
    ASSUME IInv, NEW n \in Nodes, NEW o, Finish(n, o)
    PROVE  /\ task'[n].replay = task[n].replay
           /\ task'[n].ints = {<<n, nodes[n].counter, turn, i>> : i \in 1 .. o.ints}
           /\ \A m \in Nodes \ {n} : task'[m] = task[m]
<1> DEFINE ended == [task[n] EXCEPT !.done = TRUE,
                        !.out = IF o.out THEN <<nodes[n].counter, turn>> ELSE NoValue,
                        !.routes = o.routes,
                        !.ints = {<<n, nodes[n].counter, turn, i>> : i \in 1 .. o.ints},
                        !.err = o.err, !.delta = o.delta]
<1>1. task \in [Nodes -> Task] /\ task[n] \in Task
  BY DEF IInv, TypeOK
<1>2. task' = [task EXCEPT ![n] = ended]
  BY <1>1 DEF Finish
<1>3. /\ ended.replay = task[n].replay
      /\ ended.ints = {<<n, nodes[n].counter, turn, i>> : i \in 1 .. o.ints}
  BY <1>1 DEF Task
<1> HIDE DEF ended
<1> QED  BY <1>1, <1>2, <1>3

LEMMA FutureLeaves ==
    ASSUME Future
    PROVE  UNCHANGED <<log, turn, events, index, result, interruptIds>>
<1>1. ASSUME NEW n \in Nodes, WaitTimesOut(n)
      PROVE  UNCHANGED <<log, turn, events, index, result, interruptIds>>
  BY <1>1 DEF WaitTimesOut
<1>2. ASSUME NEW n \in Nodes, NEW o, Finish(n, o)
      PROVE  UNCHANGED <<log, turn, events, index, result, interruptIds>>
  BY <1>2 DEF Finish
<1> QED  BY <1>1, <1>2 DEF Future

LEMMA BarrierFuture ==
    ASSUME IInv, Barrier, Future
    PROVE  Barrier'
<1>1. /\ pc = "poll" /\ pc' = pc /\ nodes' = nodes /\ pending' = pending /\ batch' = batch
      /\ batch = {}
  BY FutureFrame DEF IInv, Phases
<1>2. log' = log /\ index' = index
  BY FutureLeaves
<1>3. \A n \in Nodes : KeyOf(n)' = KeyOf(n)
  BY <1>1 DEF KeyOf
<1>4. SequenceKeys' = SequenceKeys /\ \A k \in Keys : Rank(k)' = Rank(k)
  BY <1>2, SameOrder
<1>5. \A l \in SequenceKeys : l \in Keys /\ (Handled(l) => Handled(l)')
  BY <1>1 DEF Handled, SequenceKeys
<1>6. \A m \in pending : task'[m].replay /\ task'[m].done => KeyOf(m) \in late'
  <2>1. ASSUME NEW n \in Nodes, WaitTimesOut(n)
        PROVE  \A m \in pending : task'[m].replay /\ task'[m].done => KeyOf(m) \in late'
    <3>1. late' = late \cup {KeyOf(n)}
      BY <2>1 DEF WaitTimesOut
    <3>2. \A m \in Nodes \ {n} : task'[m] = task[m]
      BY <2>1 DEF WaitTimesOut, IInv, TypeOK
    <3> QED  BY <3>1, <3>2 DEF Barrier, IInv, TypeOK
  <2>2. ASSUME NEW n \in Nodes, NEW o \in Behaviour[KeyOf(n)], Finish(n, o)
        PROVE  \A m \in pending : task'[m].replay /\ task'[m].done => KeyOf(m) \in late'
    <3>1. late' = late /\ ~task[n].replay
      BY <2>2 DEF Finish
    <3> QED  BY <2>2, <3>1, FinishedTask DEF Barrier, IInv, TypeOK
  <2> QED  BY <2>1, <2>2 DEF Future
<1> QED  BY <1>1, <1>2, <1>3, <1>4, <1>5, <1>6 DEF Barrier, IInv, TypeOK

LEMMA BarrierPoll ==
    ASSUME IInv, Barrier, Poll
    PROVE  Barrier'
<1>1. /\ log' = log /\ index' = index /\ task' = task /\ nodes' = nodes /\ late' = late
      /\ pc' = "process" /\ batch = {}
      /\ batch' = {n \in pending : Ready(n)} /\ pending' = {n \in pending : ~Ready(n)}
  BY DEF Poll, IInv, Phases
<1>2. \A n : KeyOf(n)' = KeyOf(n)
  BY <1>1 DEF KeyOf
<1>3. SequenceKeys' = SequenceKeys /\ \A k \in Keys : Rank(k)' = Rank(k)
  BY <1>1, SameOrder
<1>4. \A l \in SequenceKeys : l \in Keys /\ (Handled(l) => Handled(l)')
  BY <1>1 DEF Handled, SequenceKeys
<1>5. \A n \in batch' : task[n].replay => KeyOf(n) \in late \/ Unblocked(KeyOf(n))
  BY <1>1 DEF Ready, Barrier
<1>6. \A n : Unblocked(KeyOf(n)) => Unblocked(KeyOf(n))'
  BY <1>1, <1>2, <1>3, <1>4 DEF Unblocked
<1> QED  BY <1>1, <1>2, <1>3, <1>4, <1>5, <1>6 DEF Barrier

(* With the index at its start and no batch there is nothing to keep in    *)
(* order.                                                                  *)
LEMMA BarrierEmpty ==
    ASSUME index' = 0, batch' = {},
           \A n \in pending' : task'[n].replay /\ task'[n].done => KeyOf(n)' \in late'
    PROVE  Barrier'
<1>1. \A l : Rank(l)' \in Nat
  BY RankTyped
<1>2. \A l : ~(Rank(l)' < 0)
  BY <1>1
<1> QED  BY <1>2 DEF Barrier

LEMMA BarrierStep ==
    ASSUME IInv, SingleFlight, Barrier, [Next]_vars
    PROVE  Barrier'
<1>1. CASE Setup
  BY <1>1, BarrierFrame DEF Setup
<1>2. CASE Schedule
  <2>1. CASE \E n \in Nodes : Start(n)
    BY <2>1, BarrierStart
  <2>2. CASE ~\E n \in Nodes : Start(n)
    BY <1>2, <2>2, BarrierFrame DEF Schedule, Scheduled, Skip, StopAtLimit, loop, Visiting
  <2> QED  BY <2>1, <2>2
<1>3. CASE Future
  BY <1>3, BarrierFuture
<1>4. CASE Poll
  BY <1>4, BarrierPoll
<1>5. CASE \E n \in Nodes : Complete(n)
  BY <1>5, BarrierComplete
<1>6. CASE BatchDone
  BY <1>6, BarrierFrame DEF BatchDone
<1>7. CASE Shutdown
  <2>1. \A n \in Nodes : nodes'[n].counter = nodes[n].counter
    BY <1>7 DEF Shutdown, IInv, TypeOK
  <2> QED  BY <1>7, <2>1, BarrierFrame DEF Shutdown
<1>8. CASE Finalize \/ Crash
  BY <1>8, BarrierEmpty DEF Finalize, Crash, DropLoopState
<1>9. CASE \E S \in SUBSET Unanswered, bad \in BOOLEAN : Answer(S, bad)
  <2>1. index' = 0 /\ batch' = {} /\ UNCHANGED <<nodes, pending, task, late>>
    BY <1>9 DEF Answer, Barrier, IInv, Phases, loop
  <2>2. \A n : KeyOf(n)' = KeyOf(n)
    BY <2>1 DEF KeyOf
  <2> QED  BY <2>1, <2>2, BarrierEmpty DEF Barrier
<1>10. CASE UNCHANGED vars
  <2>1. UNCHANGED <<log, index, pc, task, late, nodes, pending, batch>>
    BY <1>10 DEF vars, loop
  <2> QED  BY <2>1, BarrierFrame DEF Barrier
<1> QED
  BY <1>1, <1>2, <1>3, <1>4, <1>5, <1>6, <1>7, <1>8, <1>9, <1>10 DEF Next, Turn

(* A replayed completion is handled only after every key recorded before   *)
(* it, unless its wait on the barrier timed out.                           *)
THEOREM ReplayKeepsOrder == Spec => ReplayInOrder
<1> DEFINE A == \A n \in Nodes :
                    ReplayHandled(n) /\ KeyOf(n) \in SequenceKeys /\ KeyOf(n) \notin late
                    => EarlierHandled(KeyOf(n))
<1>1. Init => Barrier
  <2> SUFFICES ASSUME Init PROVE Barrier
    OBVIOUS
  <2>1. \A l : ~(Rank(l) < 0)
    <3>1. \A l : Rank(l) \in Nat
      BY RankTyped
    <3> QED  BY <3>1
  <2> QED  BY <2>1 DEF Init, Fresh, Barrier
<1>2. IInv /\ SingleFlight /\ Barrier /\ [Next]_vars => Barrier'
  BY BarrierStep
<1>3. IInv /\ Barrier => A
  <2> SUFFICES ASSUME IInv, Barrier, NEW n \in Nodes, ReplayHandled(n),
                      KeyOf(n) \in SequenceKeys, KeyOf(n) \notin late,
                      NEW l \in SequenceKeys, Rank(l) < Rank(KeyOf(n))
               PROVE  Handled(l)
    BY DEF EarlierHandled
  <2>1. Rank(KeyOf(n)) <= index
    BY DEF ReplayHandled, Barrier, Unblocked
  <2>2. Rank(l) < index
    BY <2>1, RankTyped DEF IInv, TypeOK
  <2> QED  BY <2>2 DEF Barrier
<1> QED  BY <1>1, <1>2, <1>3, TypeCorrect, SingleFlightHolds, PTL DEF Spec, ReplayInOrder

-----------------------------------------------------------------------------
(* The interrupts that a sequence of log records raises and answers.       *)
Ints(s) == UNION {e.ints : e \in Range(s)}
Given(s) == UNION {e.answers : e \in Range(s)}

LEMMA IntsOfLog ==
    /\ Ints(log) = UNION {log[i].ints : i \in DOMAIN log}
    /\ Given(log) = Answered
    /\ Unanswered = Ints(log) \ Given(log)
BY DEF Ints, Given, Range, Answered, Unanswered

LEMMA IntsOfConcat ==
    ASSUME NEW s \in Seq(LogRecord), NEW t \in Seq(LogRecord), NEW u, u = s \o t
    PROVE  /\ u \in Seq(LogRecord)
           /\ Ints(u) = Ints(s) \cup Ints(t) /\ Given(u) = Given(s) \cup Given(t)
<1>1. u \in Seq(LogRecord)
  BY ConcatProperties
<1>2. Range(u) = Range(s) \cup Range(t)
  BY RangeConcatenation
<1>3. Ints(u) = Ints(s) \cup Ints(t)
  BY <1>2 DEF Ints
<1>4. Given(u) = Given(s) \cup Given(t)
  BY <1>2 DEF Given
<1> QED  BY <1>1, <1>3, <1>4

LEMMA IntsOfPrefix ==
    ASSUME NEW s \in Seq(LogRecord), NEW k \in 0 .. Len(s)
    PROVE  /\ SubSeq(s, 1, k) \in Seq(LogRecord)
           /\ Ints(SubSeq(s, 1, k)) \subseteq Ints(s) /\ Given(SubSeq(s, 1, k)) \subseteq Given(s)
<1>1. Len(s) \in Nat /\ DOMAIN s = 1 .. Len(s)
  BY LenProperties
<1>2. \A i \in 1 .. k : i \in DOMAIN s /\ s[i] \in LogRecord
  BY <1>1, ElementOfSeq
<1>3. SubSeq(s, 1, k) \in Seq(LogRecord)
  BY <1>1, <1>2, SubSeqProperties
<1>4. Range(SubSeq(s, 1, k)) \subseteq Range(s)
  <2>1. SubSeq(s, 1, k) = [i \in 1 .. k |-> s[i]]
    BY <1>1
  <2> QED  BY <1>2, <2>1 DEF Range
<1> QED  BY <1>3, <1>4 DEF Ints, Given

LEMMA IntsOfOne ==
    /\ Ints(<<>>) = {} /\ Given(<<>>) = {}
    /\ \A e : Ints(<<e>>) = e.ints /\ Given(<<e>>) = e.answers
<1>1. Ints(<<>>) = {} /\ Given(<<>>) = {}
  BY DEF Ints, Given, Range
<1>2. ASSUME NEW e
      PROVE  Ints(<<e>>) = e.ints /\ Given(<<e>>) = e.answers
  <2>1. Range(<<e>>) = {e}
    BY DEF Range
  <2> QED  BY <2>1 DEF Ints, Given
<1> QED  BY <1>1, <1>2

(* What a completion adds to the events raises what its node asked for.    *)
LEMMA IntsOfCompletion ==
    ASSUME IInv, NEW n \in Nodes, Complete(n)
    PROVE  /\ Ints(events') = Ints(events) \cup (IF task[n].replay THEN {} ELSE task[n].ints)
           /\ Given(events') = Given(events)
<1>1. First(n)
  BY DEF Complete, CompleteError, CompleteInterrupted, CompleteWaiting, CompleteOk
<1>2. events \in Seq(LogRecord) /\ KeyOf(n) \in Keys /\ task[n] \in Task
  BY <1>1, FirstTyped DEF TypeOK
<1> DEFINE ints == IF task[n].replay THEN {} ELSE task[n].ints
           ran == LogEvent(KeyOf(n), task[n].in, task[n].out, task[n].routes,
                           task[n].ints, task[n].err)
           again == LogEvent(KeyOf(n), task[n].in, task[n].out, {}, {}, FALSE)
<1>3. ran \in LogRecord /\ ran.ints = task[n].ints /\ ran.answers = {}
  BY <1>2, EventTyped DEF LogEvent, Task
<1>4. again \in LogRecord /\ again.ints = {} /\ again.answers = {}
  BY <1>2, EventTyped DEF LogEvent, Task
<1>5. /\ \/ ChildEvents(n) = <<ran>> /\ ~task[n].replay
         \/ ChildEvents(n) = <<>> /\ ints = {}
      /\ Reemitted(n) = <<again>> \/ Reemitted(n) = <<>>
  BY DEF ChildEvents, Reemitted
<1> HIDE DEF ran, again
<1>6. /\ ChildEvents(n) \in Seq(LogRecord) /\ Ints(ChildEvents(n)) = ints
      /\ Given(ChildEvents(n)) = {}
  <2>1. CASE ChildEvents(n) = <<ran>> /\ ~task[n].replay
    BY <1>3, <2>1, IntsOfOne
  <2>2. CASE ChildEvents(n) = <<>> /\ ints = {}
    BY <2>2, IntsOfOne, FreshTyped
  <2> QED  BY <1>5, <2>1, <2>2
<1>7. /\ Reemitted(n) \in Seq(LogRecord) /\ Ints(Reemitted(n)) = {}
      /\ Given(Reemitted(n)) = {}
  <2>1. CASE Reemitted(n) = <<again>>
    BY <1>4, <2>1, IntsOfOne
  <2>2. CASE Reemitted(n) = <<>>
    BY <2>2, IntsOfOne, FreshTyped
  <2> QED  BY <1>5, <2>1, <2>2
<1>8. PICK first : first = events \o ChildEvents(n)
  OBVIOUS
<1>9. PICK both : both = first \o Reemitted(n)
  OBVIOUS
<1> HIDE DEF ints
<1>10. /\ first \in Seq(LogRecord)
       /\ Ints(first) = Ints(events) \cup ints /\ Given(first) = Given(events)
  <2>1. /\ first \in Seq(LogRecord)
        /\ Ints(first) = Ints(events) \cup Ints(ChildEvents(n))
        /\ Given(first) = Given(events) \cup Given(ChildEvents(n))
    BY <1>2, <1>6, <1>8, IntsOfConcat, ZenonT(60)
  <2> QED  BY <1>6, <2>1
<1>11. Ints(both) = Ints(events) \cup ints /\ Given(both) = Given(events)
  <2>1. /\ Ints(both) = Ints(first) \cup Ints(Reemitted(n))
        /\ Given(both) = Given(first) \cup Given(Reemitted(n))
    BY <1>7, <1>9, <1>10, IntsOfConcat
  <2> QED  BY <1>7, <1>10, <2>1
<1>12. events' = first \/ events' = both
  BY <1>8, <1>9 DEF Complete, CompleteError, CompleteInterrupted, CompleteWaiting, CompleteOk
<1> QED  BY <1>10, <1>11, <1>12 DEF ints

-----------------------------------------------------------------------------
(* Every interrupt that the engine holds is one the user can still answer: *)
(* it is open in the log, where the turns before this one raised it, or    *)
(* among the events of this turn, whose interrupts nobody has seen yet.    *)
Held == interruptIds \cup RemainingInterrupts

Reported ==
    /\ \A id \in Ints(log) : IF pc = "idle" THEN id[3] <= turn ELSE id[3] < turn
    /\ Given(log) \subseteq Ints(log)
    /\ \A id \in Ints(events) : id[3] = turn
    /\ Given(events) = {}
    /\ \A n \in pending \cup batch : \A id \in task[n].ints :
          IF task[n].replay THEN id \in Unanswered ELSE id[3] = turn
    /\ Held \subseteq Unanswered \cup Ints(events)
    /\ pc = "idle" => events = <<>> /\ pending \cup batch = {} /\ Held = {}
    /\ result = "waiting" => pc = "idle" /\ Unanswered # {}

LEMMA IdTurns ==
    ASSUME TypeOK
    PROVE  /\ turn \in Nat
           /\ \A id \in Ints(log) \cup Ints(events) : id[3] \in Nat
           /\ Given(log) \subseteq Id
<1>1. log \in Seq(LogRecord) /\ events \in Seq(LogRecord) /\ turn \in Nat
  BY LoopConstants DEF TypeOK
<1>2. Range(log) \subseteq LogRecord /\ Range(events) \subseteq LogRecord
  BY <1>1, RangeOfSeq
<1>3. \A e \in LogRecord : e.ints \subseteq Id /\ e.answers \subseteq Id
  BY DEF LogRecord
<1>4. Ints(log) \cup Ints(events) \subseteq Id /\ Given(log) \subseteq Id
  BY <1>2, <1>3 DEF Ints, Given
<1>5. \A id \in Id : id[3] \in Nat
  BY LoopConstants DEF Id
<1> QED  BY <1>1, <1>4, <1>5

(* A step that leaves the log, the events and the futures alone, and lets  *)
(* no interrupt into the loop state.                                       *)
LEMMA ReportedFrame ==
    ASSUME Reported, UNCHANGED <<log, turn, events, task>>, pc # "idle", pc' # "idle",
           result' = result, pending' \cup batch' \subseteq pending \cup batch, Held' \subseteq Held
    PROVE  Reported'
<1>1. Unanswered' = Unanswered
  BY DEF Unanswered, Answered
<1> QED  BY <1>1 DEF Reported

(* The interrupts of the waiting nodes, when those of one node change.     *)
LEMMA HeldBy ==
    ASSUME IInv, NEW n \in Nodes, NEW ints,
           \A m \in Nodes \ {n} : nodes'[m] = nodes[m],
           nodes'[n].status = "WAITING" => nodes'[n].interrupts = ints
    PROVE  RemainingInterrupts' \subseteq RemainingInterrupts \cup ints
BY DEF RemainingInterrupts

LEMMA ReportedStart ==
    ASSUME IInv, Reported, NEW n \in Nodes, Start(n)
    PROVE  Reported'
<1> DEFINE k == <<n, nodes[n].counter + 1>>
           hit == Intercept(k)
<1>1. /\ UNCHANGED <<log, turn, pc, events, result, interruptIds>>
      /\ pc = "schedule" /\ pending' = pending \cup {n} /\ batch' = {} /\ batch = {}
  BY DEF Start, Visiting, IInv, Phases
<1>2. /\ \A m \in Nodes \ {n} : nodes'[m] = nodes[m] /\ task'[m] = task[m]
      /\ nodes'[n].status = "RUNNING"
      /\ task'[n].replay = ~hit.run /\ task'[n].ints = hit.ints
  BY DEF Start, IInv, TypeOK, Idle
<1>3. IF hit.run THEN hit.ints = {} ELSE hit.ints \subseteq Open(k)
  BY DEF Intercept, Decide, Native, Replayed
<1>4. Open(k) \subseteq Unanswered
  BY DEF Open, Raised, Unanswered, EventsOf
<1>5. Unanswered' = Unanswered
  BY <1>1 DEF Unanswered, Answered
<1>6. Held' \subseteq Held
  <2>1. RemainingInterrupts' \subseteq RemainingInterrupts \cup {}
    BY <1>2, HeldBy
  <2> QED  BY <1>1, <2>1 DEF Held
<1> HIDE DEF hit, k
<1>7. \A m \in pending' \cup batch' : \A id \in task'[m].ints :
          IF task'[m].replay THEN id \in Unanswered' ELSE id[3] = turn'
  <2>1. \A id \in task'[n].ints : IF task'[n].replay THEN id \in Unanswered ELSE id[3] = turn
    BY <1>2, <1>3, <1>4
  <2>2. \A m \in pending' \ {n} : m \in pending /\ m \in Nodes \ {n}
    BY <1>1 DEF IInv, TypeOK
  <2> QED  BY <1>1, <1>2, <1>5, <2>1, <2>2 DEF Reported
<1> QED  BY <1>1, <1>5, <1>6, <1>7 DEF Reported

LEMMA ReportedFuture ==
    ASSUME IInv, Reported, Future
    PROVE  Reported'
<1>1. /\ UNCHANGED <<log, turn, pc, events, result, interruptIds, nodes, pending, batch>>
      /\ pc = "poll" /\ batch = {}
  <2>1. UNCHANGED <<log, turn, events, result, interruptIds>>
    BY FutureLeaves
  <2>2. UNCHANGED <<pc, nodes, pending, batch>> /\ pc = "poll" /\ batch = {}
    BY FutureFrame DEF IInv, Phases
  <2> QED  BY <2>1, <2>2
<1>2. Unanswered' = Unanswered /\ Held' = Held
  BY <1>1 DEF Unanswered, Answered, Held, RemainingInterrupts
<1>3. \A m \in pending : \A id \in task'[m].ints :
          IF task'[m].replay THEN id \in Unanswered ELSE id[3] = turn
  <2>1. ASSUME NEW n \in Nodes, WaitTimesOut(n)
        PROVE  \A m \in Nodes : task'[m].ints = task[m].ints /\ task'[m].replay = task[m].replay
    <3>1. task \in [Nodes -> Task] /\ task' = [task EXCEPT ![n] = [task[n] EXCEPT !.done = TRUE]]
      BY <2>1 DEF WaitTimesOut, IInv, TypeOK
    <3>2. /\ [task[n] EXCEPT !.done = TRUE].ints = task[n].ints
          /\ [task[n] EXCEPT !.done = TRUE].replay = task[n].replay
      BY <3>1 DEF Task
    <3> QED  BY <3>1, <3>2
  <2>2. ASSUME NEW n \in Nodes, NEW o, Finish(n, o)
        PROVE  /\ ~task'[n].replay /\ \A id \in task'[n].ints : id[3] = turn
               /\ \A m \in Nodes \ {n} : task'[m] = task[m]
    <3>1. ~task[n].replay
      BY <2>2 DEF Finish
    <3> QED  BY <2>2, <3>1, FinishedTask
  <2>3. pending \subseteq Nodes
    BY DEF IInv, TypeOK
  <2>4. CASE \E n \in Nodes : WaitTimesOut(n)
    BY <2>1, <2>3, <2>4 DEF Reported
  <2>5. CASE \E n \in Nodes : \E o : Finish(n, o)
    BY <2>2, <2>3, <2>5 DEF Reported
  <2> QED  BY <2>4, <2>5 DEF Future
<1> QED  BY <1>1, <1>2, <1>3 DEF Reported

LEMMA ReportedComplete ==
    ASSUME IInv, Reported, NEW n \in Nodes, Complete(n)
    PROVE  Reported'
<1>1. /\ UNCHANGED <<log, turn, pc, result, task, pending>> /\ pc = "process"
      /\ First(n) /\ n \in batch
  BY DEF Complete, CompleteError, CompleteInterrupted, CompleteWaiting, CompleteOk, First
<1>2. PICK status, ints : /\ Leave(n, status, ints)
                          /\ ints \subseteq task[n].ints
                          /\ interruptIds' \subseteq interruptIds \cup task[n].ints
  BY DEF Complete, CompleteError, CompleteInterrupted, CompleteWaiting, CompleteOk
<1>3. /\ Ints(events') = Ints(events) \cup (IF task[n].replay THEN {} ELSE task[n].ints)
      /\ Given(events') = Given(events)
  BY IntsOfCompletion
<1>4. Unanswered' = Unanswered
  BY <1>1 DEF Unanswered, Answered
<1>5. \A id \in task[n].ints : IF task[n].replay THEN id \in Unanswered ELSE id[3] = turn
  BY <1>1 DEF Reported
<1>6. Held' \subseteq Held \cup task[n].ints
  <2>1. \A m \in Nodes \ {n} : nodes'[m] = nodes[m]
    BY <1>2 DEF Leave, IInv, TypeOK
  <2>2. nodes'[n].interrupts = ints
    BY <1>2 DEF Leave, IInv, TypeOK
  <2>3. RemainingInterrupts' \subseteq RemainingInterrupts \cup ints
    BY <2>1, <2>2, HeldBy
  <2> QED  BY <1>2, <2>3 DEF Held
<1>7. Held' \subseteq Unanswered' \cup Ints(events')
  BY <1>3, <1>4, <1>5, <1>6 DEF Reported
<1>8. batch' \subseteq batch
  BY <1>2 DEF Leave
<1>9. \A id \in Ints(events') : id[3] = turn'
  BY <1>1, <1>3, <1>5 DEF Reported
<1> QED  BY <1>1, <1>3, <1>4, <1>7, <1>8, <1>9 DEF Reported, Ints, Given

(* The events of a turn, or the first of them, reach the log.              *)
LEMMA ReportedSaved ==
    ASSUME IInv, Reported, pc # "idle", NEW saved \in Seq(LogRecord),
           Ints(saved) \subseteq Ints(events), Given(saved) \subseteq Given(events),
           log' = log \o saved, DropLoopState, pc' = "idle", turn' = turn,
           result' = "waiting" => Held # {} /\ saved = events
    PROVE  Reported'
<1>1. log \in Seq(LogRecord)
  BY DEF IInv, TypeOK
<1>2. Ints(log') = Ints(log) \cup Ints(saved) /\ Given(log') = Given(log) \cup Given(saved)
  BY <1>1, IntsOfConcat, ZenonT(60)
<1>3. Given(log') = Given(log)
  BY <1>2 DEF Reported
<1>4. Ints(events) \cap Given(log) = {}
  BY IdTurns DEF Reported, IInv
<1>5. /\ Unanswered = Ints(log) \ Given(log)
      /\ Unanswered' = Ints(log') \ Given(log')
  BY DEF Unanswered, Answered, Ints, Given, Range
<1>6. events' = <<>> /\ pending' = {} /\ batch' = {} /\ interruptIds' = {} /\ nodes' = NoNodes
  BY DEF DropLoopState
<1>7. Held' = {}
  <2>1. \A m \in Nodes : nodes'[m].status # "WAITING"
    BY <1>6 DEF NoNodes
  <2>2. RemainingInterrupts' = {}
    BY <2>1 DEF RemainingInterrupts
  <2> QED  BY <1>6, <2>2 DEF Held
<1>8. \A id \in Ints(log') : id[3] <= turn
  BY <1>2, IdTurns DEF Reported, IInv
<1>9. Ints(events') = {} /\ Given(events') = {}
  BY <1>6, IntsOfOne
<1>10. result' = "waiting" => Unanswered' # {}
  BY <1>2, <1>3, <1>4, <1>5 DEF Reported
<1>11. Given(log') \subseteq Ints(log')
  BY <1>2, <1>3 DEF Reported
<1> QED  BY <1>3, <1>6, <1>7, <1>8, <1>9, <1>10, <1>11 DEF Reported, Ints, Given

LEMMA ReportedAnswer ==
    ASSUME IInv, Reported, NEW S \in SUBSET Unanswered, NEW bad \in BOOLEAN, Answer(S, bad)
    PROVE  Reported'
<1>1. /\ pc = "idle" /\ log' = Append(log, Answers(S, bad)) /\ result' = "answered"
      /\ UNCHANGED <<turn, pc, events, pending, batch, task, interruptIds, nodes>>
  BY DEF Answer, loop
<1>2. Answers(S, bad).ints = {} /\ Answers(S, bad).answers = S
  BY DEF Answers, LogEvent
<1>3. log \in Seq(LogRecord)
  BY DEF IInv, TypeOK
<1>4. Range(log') = Range(log) \cup {Answers(S, bad)}
  <2>1. DOMAIN log = 1 .. Len(log) /\ Len(log) \in Nat
    BY <1>3, LenProperties
  <2>2. /\ DOMAIN log' = 1 .. Len(log) + 1
        /\ \A i \in 1 .. Len(log) : log'[i] = log[i]
        /\ log'[Len(log) + 1] = Answers(S, bad)
    BY <1>1, <1>3
  <2> QED  BY <2>1, <2>2 DEF Range
<1>5. Ints(log') = Ints(log) /\ Given(log') = Given(log) \cup S
  BY <1>2, <1>4 DEF Ints, Given
<1>6. S \subseteq Ints(log)
  BY DEF Unanswered, Ints, Range
<1>7. Held' = Held /\ Held = {}
  BY <1>1 DEF Held, RemainingInterrupts, Reported
<1>8. pending \cup batch = {} /\ events' = <<>>
  BY <1>1 DEF Reported
<1> QED  BY <1>1, <1>5, <1>6, <1>7, <1>8 DEF Reported, Ints, Given

LEMMA ReportedStep ==
    ASSUME IInv, Reported, [Next]_vars
    PROVE  Reported'
<1>1. CASE Setup
  <2>1. /\ pc = "idle" /\ pc' = "schedule" /\ turn' = turn + 1 /\ result' = "running"
        /\ UNCHANGED <<log, nodes, pending, batch, task, interruptIds, events>>
    BY <1>1 DEF Setup
  <2>2. Unanswered' = Unanswered /\ Held' = Held /\ Ints(events) = {} /\ pending \cup batch = {}
    BY <2>1, IntsOfOne DEF Unanswered, Answered, Held, RemainingInterrupts, Reported
  <2> QED  BY <2>1, <2>2, IdTurns DEF Reported, IInv
<1>2. CASE Schedule
  <2>1. CASE \E n \in Nodes : Start(n)
    BY <2>1, ReportedStart
  <2>2. CASE ~\E n \in Nodes : Start(n)
    <3>1. /\ UNCHANGED <<log, turn, events, task, result, pending, batch, nodes, interruptIds>>
          /\ pc # "idle" /\ pc' # "idle"
      BY <1>2, <2>2 DEF Schedule, Scheduled, Skip, StopAtLimit, loop, Visiting
    <3> QED  BY <3>1, ReportedFrame DEF Held, RemainingInterrupts
  <2> QED  BY <2>1, <2>2
<1>3. CASE Future
  BY <1>3, ReportedFuture
<1>4. CASE Poll
  <2>1. /\ UNCHANGED <<log, turn, events, task, result, nodes, interruptIds>>
        /\ pc # "idle" /\ pc' # "idle" /\ pending' \cup batch' \subseteq pending
    BY <1>4 DEF Poll
  <2> QED  BY <2>1, ReportedFrame DEF Held, RemainingInterrupts
<1>5. CASE \E n \in Nodes : Complete(n)
  BY <1>5, ReportedComplete
<1>6. CASE BatchDone
  <2>1. /\ UNCHANGED <<log, turn, events, task, result, pending, batch, nodes, interruptIds>>
        /\ pc # "idle" /\ pc' # "idle"
    BY <1>6 DEF BatchDone
  <2> QED  BY <2>1, ReportedFrame DEF Held, RemainingInterrupts
<1>7. CASE Shutdown
  <2>1. /\ UNCHANGED <<log, turn, events, task, result, batch, interruptIds>>
        /\ pc # "idle" /\ pc' # "idle" /\ pending' = {}
    BY <1>7 DEF Shutdown
  <2>2. \A n \in Nodes : \/ nodes'[n] = nodes[n]
                         \/ nodes'[n].status = "CANCELLED"
    BY <1>7 DEF Shutdown, IInv, TypeOK
  <2>3. Held' \subseteq Held
    BY <2>1, <2>2 DEF Held, RemainingInterrupts
  <2> QED  BY <2>1, <2>3, ReportedFrame
<1>8. CASE Finalize
  <2>1. /\ pc # "idle" /\ log' = log \o events /\ DropLoopState /\ pc' = "idle" /\ turn' = turn
        /\ events \in Seq(LogRecord) /\ (result' = "waiting" => Held # {})
    BY <1>8 DEF Finalize, Held, IInv, TypeOK
  <2> QED  BY <2>1, ReportedSaved
<1>9. CASE Crash
  <2>1. PICK k \in 0 .. (IF pc = "finalize" THEN Len(events) ELSE 0) :
            log' = log \o SubSeq(events, 1, k)
    BY <1>9 DEF Crash
  <2>2. events \in Seq(LogRecord) /\ k \in 0 .. Len(events)
    BY LenProperties DEF IInv, TypeOK
  <2>3. /\ SubSeq(events, 1, k) \in Seq(LogRecord)
        /\ Ints(SubSeq(events, 1, k)) \subseteq Ints(events)
        /\ Given(SubSeq(events, 1, k)) \subseteq Given(events)
    BY <2>2, IntsOfPrefix
  <2>4. pc # "idle" /\ DropLoopState /\ pc' = "idle" /\ turn' = turn /\ result' = "crashed"
    BY <1>9 DEF Crash
  <2> QED  BY <2>1, <2>3, <2>4, ReportedSaved
<1>10. CASE \E S \in SUBSET Unanswered, bad \in BOOLEAN : Answer(S, bad)
  BY <1>10, ReportedAnswer
<1>11. CASE UNCHANGED vars
  <2>1. UNCHANGED <<log, turn, pc, events, task, result, pending, batch, nodes, interruptIds>>
    BY <1>11 DEF vars, loop
  <2>2. Unanswered' = Unanswered /\ Held' = Held
    BY <2>1 DEF Unanswered, Answered, Held, RemainingInterrupts
  <2> QED  BY <2>1, <2>2 DEF Reported
<1> QED
  BY <1>1, <1>2, <1>3, <1>4, <1>5, <1>6, <1>7, <1>8, <1>9, <1>10, <1>11 DEF Next, Turn

(* A workflow that ends a turn waiting has an interrupt the user can still *)
(* answer: an engine that reports what was answered long ago, or what      *)
(* never reached the log, would leave the user without a way to go on.     *)
THEOREM WaitingCanGoOn == Spec => []WaitingIsAnswerable
<1>1. Init => Reported
  <2> SUFFICES ASSUME Init PROVE Reported
    OBVIOUS
  <2>1. Ints(log) = {} /\ Given(log) = {} /\ Ints(events) = {} /\ Given(events) = {}
    BY IntsOfOne DEF Init, Fresh
  <2>2. Held = {}
    BY DEF Init, Fresh, Held, RemainingInterrupts, NoNodes
  <2> QED  BY <2>1, <2>2 DEF Init, Fresh, Reported
<1>2. IInv /\ Reported /\ [Next]_vars => Reported'
  BY ReportedStep
<1>3. Reported => WaitingIsAnswerable
  BY DEF Reported, WaitingIsAnswerable
<1> QED  BY <1>1, <1>2, <1>3, TypeCorrect, PTL DEF Spec
=============================================================================
