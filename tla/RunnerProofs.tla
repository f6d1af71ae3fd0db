----------------------------- MODULE RunnerProofs -----------------------------
(***************************************************************************)
(* Theorems about concurrent calls over one session service: the types     *)
(* that every step keeps (TypeOK) and the stages of a call (Staged), then  *)
(* what the writes to the shared scopes, the ids of the events and the     *)
(* copies of a session have in common, and last that a rewind leaves the   *)
(* state its live events lead to.                                          *)
(***************************************************************************)
EXTENDS RunnerProps, DataTheorems, SequenceTheorems

-----------------------------------------------------------------------------
(* Types.                                                                  *)

Ids == Nat \X Nat
Value == Ids \cup {Null}
Delta == UNION {[D -> Value] : D \in SUBSET Keys}
Event == [id : Ids, back : Nat, partial : BOOLEAN, version : Int, delta : Delta]
Session == [state : Delta, events : Seq(Event), born : Nat, initial : Delta]
View == [state : Delta, events : Seq(Event), born : Nat]
Call == [pc : {"idle", "read", "create", "run", "agent", "append", "rewind"},
         op : {"run", "rewind"}, sid : Sids \cup {Idle.sid}, inv : Nat, target : Nat,
         read : 0 .. 4, view : View, todo : Seq(Event), last : Event \cup {NoEvent}]

SessionsTyped == sessions = [s \in DOMAIN sessions |-> sessions[s]]
                 /\ DOMAIN sessions \subseteq Sids
                 /\ \A s \in DOMAIN sessions : sessions[s] \in Session

(* What an artifact's versions hold is not looked at: they are a sequence. *)
ArtifactsTyped == /\ artifacts = [s \in Sids |-> artifacts[s]]
                  /\ \A s \in Sids : artifacts[s] \in Seq(Range(artifacts[s]))

SharedTyped == shared \in [Shared -> Delta] /\ unwritten \in Delta /\ written \in Seq(Delta)

TypeOK == /\ SessionsTyped /\ SharedTyped /\ ArtifactsTyped
          /\ calls \in [Callers -> Call] /\ invs \in Nat

LEMMA DeltaIntro ==
    ASSUME NEW D \in SUBSET Keys, NEW f \in [D -> Value]
    PROVE  f \in Delta
BY DEF Delta

LEMMA DeltaElim ==
    ASSUME NEW d \in Delta
    PROVE  /\ DOMAIN d \in SUBSET Keys /\ d \in [DOMAIN d -> Value]
           /\ d = [k \in DOMAIN d |-> d[k]]
           /\ \A k \in DOMAIN d : d[k] \in Value
BY DEF Delta

LEMMA NoStateTyped == NoState \in Delta /\ DOMAIN NoState = {}
<1>1. NoState \in [{} -> Value] /\ DOMAIN NoState = {}
  BY DEF NoState
<1> QED  BY <1>1, DeltaIntro

LEMMA InScopeTyped ==
    ASSUME NEW d \in Delta, NEW S
    PROVE  /\ InScope(d, S) \in Delta
           /\ DOMAIN InScope(d, S) = {k \in DOMAIN d : Scope[k] \in S}
           /\ \A k \in DOMAIN InScope(d, S) : InScope(d, S)[k] = d[k]
<1> DEFINE D == {k \in DOMAIN d : Scope[k] \in S}
<1>1. D \in SUBSET Keys /\ InScope(d, S) = [k \in D |-> d[k]]
  BY DeltaElim DEF InScope, Restrict
<1>2. InScope(d, S) \in [D -> Value]
  BY <1>1, DeltaElim
<1> QED  BY <1>1, <1>2, DeltaIntro

LEMMA ExtendedTyped ==
    ASSUME NEW d \in Delta, NEW f \in Delta
    PROVE  /\ Extended(d, f) \in Delta
           /\ DOMAIN Extended(d, f) = DOMAIN d \cup DOMAIN f
           /\ \A k \in DOMAIN f : Extended(d, f)[k] = f[k]
           /\ \A k \in DOMAIN d \ DOMAIN f : Extended(d, f)[k] = d[k]
<1> DEFINE D == DOMAIN d \cup DOMAIN f
<1>1. D \in SUBSET Keys
  BY DeltaElim
<1>2. \A k \in D : IF k \in DOMAIN f THEN f[k] \in Value ELSE d[k] \in Value
  BY DeltaElim
<1>3. Extended(d, f) \in [D -> Value]
  BY <1>2 DEF Extended
<1>4. Extended(d, f) \in Delta
  BY <1>1, <1>3, DeltaIntro
<1> QED  BY <1>4 DEF Extended

LEMMA EmptyDelta ==
    ASSUME NEW d \in Delta
    PROVE  d = NoState <=> DOMAIN d = {}
<1>1. ASSUME DOMAIN d = {} PROVE d = NoState
  <2>1. d \in [{} -> Value]
    BY <1>1, DeltaElim
  <2> QED  BY <2>1 DEF NoState
<1> QED  BY <1>1, NoStateTyped

LEMMA TrimmedTyped ==
    ASSUME NEW e \in Event
    PROVE  /\ Trimmed(e) \in Event /\ Trimmed(e).id = e.id /\ Trimmed(e).back = e.back
           /\ Trimmed(e).delta = InScope(e.delta, Shared \cup {"session"})
<1>1. e.delta \in Delta
  BY DEF Event
<1>2. InScope(e.delta, Shared \cup {"session"}) \in Delta
  BY <1>1, InScopeTyped
<1> QED  BY <1>2 DEF Event, Trimmed

(* The keys an event of a shape writes, and those an event writes.         *)
Touched(shape) == shape.sets \cup shape.clears
Touches(e) == DOMAIN e.delta

LEMMA EventOfTyped ==
    ASSUME NEW inv \in Nat, NEW n \in Nat, NEW shape \in Shape, NEW version \in Int
    PROVE  /\ EventOf(inv, n, shape, version) \in Event
           /\ EventOf(inv, n, shape, version).id = <<inv, n>>
           /\ EventOf(inv, n, shape, version).back = NoInv
           /\ Touches(EventOf(inv, n, shape, version)) = Touched(shape)
<1> DEFINE D == Touched(shape)
           f == [k \in D |-> IF k \in shape.clears THEN Null ELSE <<inv, n>>]
<1>1. D \in SUBSET Keys /\ f \in [D -> Value]
  BY DEF Shape, Value, Ids, Touched
<1>2. f \in Delta
  BY <1>1, DeltaIntro
<1> HIDE DEF f
<1>3. EventOf(inv, n, shape, version) =
        [id |-> <<inv, n>>, back |-> NoInv, partial |-> shape.partial, version |-> version, delta |-> f]
  BY DEF EventOf, f, Touched
<1>4. DOMAIN f = D
  BY DEF f
<1> QED  BY <1>2, <1>3, <1>4 DEF Event, Ids, NoInv, Shape, Touches

LEMMA EventOfSaves ==
    ASSUME NEW inv, NEW n, NEW shape, NEW version
    PROVE  /\ EventOf(inv, n, shape, version).version = version
           /\ EventOf(inv, n, shape, version).partial = shape.partial
BY DEF EventOf

-----------------------------------------------------------------------------
(* Steps keep types.                                                       *)

LEMMA ApplySharedTyped ==
    ASSUME SharedTyped, NEW d \in Delta, ApplySharedDelta(d)
    PROVE  SharedTyped'
<1>1. InScope(d, {"app"}) \in Delta /\ InScope(d, {"user"}) \in Delta /\ InScope(d, Shared) \in Delta
  BY InScopeTyped
<1>2. shared["app"] \in Delta
  BY DEF SharedTyped, Shared
<1>3. Extended(shared["app"], InScope(d, {"app"})) \in Delta
  BY <1>1, <1>2, ExtendedTyped
<1>4. shared' \in [Shared -> Delta]
  BY <1>3 DEF SharedTyped, ApplySharedDelta
<1>5. unwritten' \in Delta /\ written' \in Seq(Delta)
  BY <1>1 DEF SharedTyped, ApplySharedDelta
<1> QED  BY <1>4, <1>5 DEF SharedTyped

(* append_event returns early, or it adds the trimmed event.               *)
Appended(s, e) ==
    /\ s \in DOMAIN sessions /\ ~e.partial /\ ~IsStored(s, e) /\ Unlocked
    /\ DOMAIN sessions' = DOMAIN sessions
    /\ \A t \in DOMAIN sessions \ {s} : sessions'[t] = sessions[t]
    /\ sessions'[s].events = Append(sessions[s].events, Trimmed(e))
    /\ sessions'[s].state = Extended(sessions[s].state, InScope(e.delta, {"session"}))
    /\ sessions'[s].born = sessions[s].born /\ sessions'[s].initial = sessions[s].initial
    /\ SessionsTyped'
    /\ ApplySharedDelta(e.delta)

LEMMA AppendCases ==
    ASSUME TypeOK, NEW s, NEW e \in Event, AppendEvent(s, e)
    PROVE  \/ AppendIgnored(s, e) /\ UNCHANGED <<sessions, shared, unwritten, written>>
           \/ ~AppendIgnored(s, e) /\ Appended(s, e)
<1>1. CASE AppendIgnored(s, e)
  BY <1>1 DEF AppendEvent
<1>2. CASE ~AppendIgnored(s, e)
  <2>1. s \in DOMAIN sessions /\ ~e.partial /\ ~IsStored(s, e) /\ Unlocked
    BY <1>2 DEF AppendIgnored, AppendEvent
  <2> DEFINE new == [sessions[s] EXCEPT !.events = Append(@, Trimmed(e)),
                                        !.state = Extended(@, InScope(e.delta, {"session"}))]
  <2>2. sessions' = [sessions EXCEPT ![s] = new] /\ ApplySharedDelta(e.delta)
    BY <1>2, <2>1 DEF AppendEvent
  <2>3. sessions[s] \in Session /\ Trimmed(e) \in Event /\ e.delta \in Delta
    BY <2>1, TrimmedTyped DEF TypeOK, SessionsTyped, Event
  <2>4. Extended(sessions[s].state, InScope(e.delta, {"session"})) \in Delta
    <3>1. sessions[s].state \in Delta /\ InScope(e.delta, {"session"}) \in Delta
      BY <2>3, InScopeTyped DEF Session
    <3> QED  BY <3>1, ExtendedTyped
  <2>5. Append(sessions[s].events, Trimmed(e)) \in Seq(Event)
    BY <2>3 DEF Session
  <2>6. /\ new \in Session
        /\ new.events = Append(sessions[s].events, Trimmed(e))
        /\ new.state = Extended(sessions[s].state, InScope(e.delta, {"session"}))
        /\ new.born = sessions[s].born /\ new.initial = sessions[s].initial
    BY <2>3, <2>4, <2>5 DEF Session
  <2> HIDE DEF new
  <2>7. /\ DOMAIN sessions' = DOMAIN sessions /\ sessions'[s] = new
        /\ \A t \in DOMAIN sessions \ {s} : sessions'[t] = sessions[t]
        /\ sessions' = [t \in DOMAIN sessions' |-> sessions'[t]]
    BY <2>1, <2>2 DEF TypeOK, SessionsTyped
  <2>8. SessionsTyped'
    BY <2>6, <2>7 DEF TypeOK, SessionsTyped
  <2> QED  BY <1>2, <2>1, <2>2, <2>6, <2>7, <2>8 DEF Appended
<1> QED  BY <1>1, <1>2

LEMMA AppendTyped ==
    ASSUME TypeOK, NEW s, NEW e \in Event, AppendEvent(s, e)
    PROVE  SessionsTyped' /\ SharedTyped'
<1>1. e.delta \in Delta
  BY DEF Event
<1>2. CASE UNCHANGED <<sessions, shared, unwritten, written>>
  BY <1>2 DEF TypeOK, SessionsTyped, SharedTyped
<1>3. CASE Appended(s, e)
  BY <1>1, <1>3, ApplySharedTyped DEF Appended, TypeOK
<1> QED  BY <1>2, <1>3, AppendCases

LEMMA ViewAfterTyped ==
    ASSUME NEW s, NEW view \in View, NEW e \in Event
    PROVE  /\ ViewAfter(s, view, e) \in View
           /\ AppendIgnored(s, e) => ViewAfter(s, view, e) = view
           /\ \A after : after = ViewAfter(s, view, e) =>
                 /\ after.born = view.born
                 /\ ~AppendIgnored(s, e) =>
                       /\ after.state = Extended(view.state, e.delta)
                       /\ after.events = Append(view.events, Trimmed(e))
<1>1. e.delta \in Delta /\ Trimmed(e) \in Event
  BY TrimmedTyped DEF Event
<1>2. Extended(view.state, e.delta) \in Delta
  BY <1>1, ExtendedTyped DEF View
<1>8. Append(view.events, Trimmed(e)) \in Seq(Event)
  <2>1. view.events \in Seq(Event)
    BY DEF View
  <2> QED  BY <1>1, <2>1
<1>3. PICK events \in Seq(Event) : events = Append(view.events, Trimmed(e))
  BY <1>8
<1>4. PICK state \in Delta : state = Extended(view.state, e.delta)
  BY <1>2
<1>5. AppliedTo(view, e) = [view EXCEPT !.state = state, !.events = events]
  BY <1>3, <1>4 DEF AppliedTo
<1>6. AppliedTo(view, e) = [state |-> state, events |-> events, born |-> view.born]
  BY <1>5 DEF View
<1>7. AppliedTo(view, e) \in View
  BY <1>6 DEF View
<1> QED  BY <1>3, <1>4, <1>6, <1>7 DEF ViewAfter

LEMMA CreateTyped ==
    ASSUME TypeOK, NEW s \in Sids, NEW d \in Delta, NEW born \in Nat, CreateSession(s, d, born)
    PROVE  /\ SessionsTyped' /\ SharedTyped'
           /\ s \notin DOMAIN sessions /\ DOMAIN sessions' = DOMAIN sessions \cup {s}
           /\ sessions'[s] = NewSession(d, born)
           /\ \A t \in DOMAIN sessions : sessions'[t] = sessions[t]
<1>1. InScope(d, {"session"}) \in Delta
  BY InScopeTyped
<1>2. NewSession(d, born) \in Session
  BY <1>1 DEF NewSession, Session
<1>3. /\ s \notin DOMAIN sessions /\ DOMAIN sessions' = DOMAIN sessions \cup {s}
      /\ sessions'[s] = NewSession(d, born)
      /\ \A t \in DOMAIN sessions : sessions'[t] = sessions[t]
      /\ sessions' = [t \in DOMAIN sessions' |-> sessions'[t]]
  BY DEF CreateSession
<1>4. SessionsTyped'
  BY <1>2, <1>3 DEF TypeOK, SessionsTyped
<1>5. SharedTyped'
  BY ApplySharedTyped DEF CreateSession, TypeOK
<1> QED  BY <1>3, <1>4, <1>5

(* The artifacts after more versions were saved.                           *)
LEMMA SaveTyped ==
    ASSUME ArtifactsTyped, NEW s \in Sids, NEW contents,
           contents \in Seq(Range(contents)), SaveArtifacts(s, contents)
    PROVE  ArtifactsTyped'
<1> DEFINE a == artifacts[s]
           S == Range(a) \cup Range(contents)
<1>1. a \in Seq(S) /\ contents \in Seq(S)
  <2>1. a \in Seq(Range(a))
    BY DEF ArtifactsTyped
  <2> QED  BY <2>1, SeqMonotonic
<1>2. a \o contents \in Seq(S)
  BY <1>1
<1>3. a \o contents \in Seq(Range(a \o contents))
  BY <1>2, SeqOfRange
<1>4. artifacts' = [artifacts EXCEPT ![s] = a \o contents]
  BY DEF SaveArtifacts
<1> QED  BY <1>3, <1>4 DEF ArtifactsTyped

LEMMA SavedTyped ==
    ASSUME NEW inv, NEW reply \in Seq(Shape)
    PROVE  Saved(inv, reply) \in Seq(Range(Saved(inv, reply)))
<1> DEFINE I == {i \in DOMAIN reply : reply[i].saves}
           n == Cardinality(I)
<1>1. IsFiniteSet(DOMAIN reply)
  BY FS_Interval, LenProperties
<1>2. n \in Nat
  BY <1>1, FS_Subset, FS_CardinalityType
<1> DEFINE f == [j \in 1 .. n |-> <<inv, (CHOOSE i \in I : Cardinality({h \in I : h <= i}) = j) + 1>>]
<1>3. Saved(inv, reply) = f
  BY DEF Saved
<1>4. f \in Seq(Range(f))
  <2> HIDE DEF n, I
  <2>1. f \in [1 .. n -> Range(f)]
    BY DEF Range
  <2> HIDE DEF f
  <2>2. Seq(Range(f)) = UNION {[1 .. m -> Range(f)] : m \in Nat}
    BY SeqDef
  <2> QED  BY <1>2, <2>1, <2>2
<1> QED  BY <1>3, <1>4

-----------------------------------------------------------------------------
(* Rewinds.                                                                *)

LEMMA LeastExists ==
    ASSUME NEW S \in SUBSET Nat, S # {}
    PROVE  \E m \in S : \A n \in S : ~(n < m)
<1>1. PICK m \in S : \A n \in S : ~(<<n, m>> \in OpToRel(<, Nat))
  BY NatLessThanWellFounded, WFMin
<1> QED  BY <1>1 DEF OpToRel

LEMMA RewindIndexTyped ==
    ASSUME NEW events \in Seq(Event), NEW inv, HasInvocation(events, inv)
    PROVE  RewindIndex(events, inv) \in DOMAIN events
<1> DEFINE S == {i \in DOMAIN events : Inv(events[i]) = inv}
<1>1. S \in SUBSET Nat /\ S # {}
  BY DEF HasInvocation, Range
<1>2. PICK m \in S : \A n \in S : ~(n < m)
  BY <1>1, LeastExists
<1>3. Inv(events[m]) = inv /\ \A j \in 1 .. m - 1 : Inv(events[j]) # inv
  BY <1>2
<1> QED  BY <1>3 DEF RewindIndex

(* The last of some events that satisfies a condition is one of them.      *)
LEMMA LastOf ==
    ASSUME NEW events \in Seq(Event), NEW I \in SUBSET DOMAIN events, NEW W \in SUBSET I, W # {}
    PROVE  Max(W) \in W /\ events[Max(W)] \in Event
<1>1. IsFiniteSet(DOMAIN events)
  BY FS_Interval, LenProperties
<1>2. IsFiniteSet(W) /\ W \in SUBSET Nat
  BY <1>1, FS_Subset
<1>3. Max(W) \in W
  BY <1>2, MaxOfNaturals
<1> QED  BY <1>3, ElementOfSeq

LEMMA ReplayTyped ==
    ASSUME NEW events \in Seq(Event), NEW I \in SUBSET DOMAIN events, NEW k
    PROVE  /\ Replay(NoState, events, I, k) \in Value
           /\ (\A i \in I : k \notin DOMAIN events[i].delta) => Replay(NoState, events, I, k) = Null
<1> DEFINE W == {i \in I : k \in DOMAIN events[i].delta}
<1>1. Null \in Value
  BY DEF Value
<1>2. CASE W = {}
  BY <1>1, <1>2, NoStateTyped DEF Replay
<1>3. CASE W # {}
  <2>1. Max(W) \in W /\ events[Max(W)] \in Event
    BY <1>3, LastOf
  <2>2. events[Max(W)].delta \in Delta /\ k \in DOMAIN events[Max(W)].delta
    BY <2>1 DEF Event
  <2>3. events[Max(W)].delta[k] \in Value
    BY <2>2, DeltaElim
  <2> QED  BY <1>3, <2>3 DEF Replay
<1> QED  BY <1>2, <1>3

LEMMA StateDeltaTyped ==
    ASSUME NEW view \in View, NEW index \in DOMAIN view.events
    PROVE  /\ StateDelta(view, index) \in Delta
           /\ \A k \in DOMAIN StateDelta(view, index) :
                 \/ k \in DOMAIN view.state
                 \/ \E e \in Range(view.events) : k \in DOMAIN e.delta
           /\ \A k \in DOMAIN StateDelta(view, index) : Scope[k] \notin Shared
<1> DEFINE D == {k \in Keys : Scope[k] \notin Shared}
           at == [k \in D |-> Replay(NoState, view.events, 1 .. index - 1, k)]
           R == {k \in DOMAIN at : at[k] # Null /\ (k \in DOMAIN view.state => view.state[k] # at[k])}
           C == {k \in DOMAIN at : at[k] = Null /\ k \in DOMAIN view.state}
<1>1. view.events \in Seq(Event) /\ 1 .. index - 1 \in SUBSET DOMAIN view.events
  BY DEF View
<1>2. \A k : Replay(NoState, view.events, 1 .. index - 1, k) \in Value
  BY <1>1, ReplayTyped
<1>3. DOMAIN at = D /\ at \in [D -> Value]
  BY <1>2
<1>4. \A k \in R : \E e \in Range(view.events) : k \in DOMAIN e.delta
  <2> SUFFICES ASSUME NEW k \in R PROVE \E e \in Range(view.events) : k \in DOMAIN e.delta
    OBVIOUS
  <2>1. Replay(NoState, view.events, 1 .. index - 1, k) # Null
    OBVIOUS
  <2>2. PICK i \in 1 .. index - 1 : k \in DOMAIN view.events[i].delta
    BY <1>1, <2>1, ReplayTyped
  <2> QED  BY <1>1, <2>2 DEF Range
<1>5. StateDelta(view, index) = [k \in R \cup C |-> at[k]]
  BY DEF StateDelta, Restrict
<1>6. R \cup C \in SUBSET D /\ C \subseteq DOMAIN view.state /\ D \subseteq Keys
  BY <1>3
<1> HIDE DEF at, R, C
<1>7. StateDelta(view, index) \in [R \cup C -> Value] /\ DOMAIN StateDelta(view, index) = R \cup C
  BY <1>3, <1>5, <1>6
<1>8. StateDelta(view, index) \in Delta
  BY <1>6, <1>7, DeltaIntro
<1> QED  BY <1>4, <1>6, <1>7, <1>8

LEMMA RecordedVersionTyped ==
    ASSUME NEW events \in Seq(Event), NEW I \in SUBSET DOMAIN events
    PROVE  RecordedVersion(events, I) \in Int
<1> DEFINE W == {i \in I : events[i].version # NoVersion}
<1>1. CASE W = {}
  BY <1>1 DEF RecordedVersion, NoVersion
<1>2. CASE W # {}
  <2>1. events[Max(W)] \in Event
    BY <1>2, LastOf
  <2> QED  BY <1>2, <2>1 DEF RecordedVersion, Event
<1> QED  BY <1>1, <1>2

-----------------------------------------------------------------------------
(* The type invariant.                                                     *)

LEMMA NoViewTyped == NoView \in View
<1>1. NoState \in Delta /\ <<>> \in Seq(Event) /\ NoInv \in Nat
  BY NoStateTyped DEF NoInv
<1> QED  BY <1>1 DEF NoView, View

LEMMA IdleTyped == Idle \in Call
<1> DEFINE sid == CHOOSE s \in Sids : TRUE
<1>1. Idle = [pc |-> "idle", op |-> "run", sid |-> sid, inv |-> NoInv,
              target |-> NoInv, read |-> 0, view |-> NoView, todo |-> <<>>, last |-> NoEvent]
  BY DEF Idle
<1> HIDE DEF sid
<1>2. Idle.sid = sid /\ NoView \in View
  BY <1>1, NoViewTyped
<1> QED  BY <1>1, <1>2 DEF Call, NoInv

LEMMA BecomeTyped ==
    ASSUME TypeOK, NEW c \in Callers, NEW call \in Call, Become(c, call)
    PROVE  /\ calls' \in [Callers -> Call] /\ calls'[c] = call
           /\ \A d \in Callers \ {c} : calls'[d] = calls[d]
BY DEF TypeOK, Become

(* What Append1 makes of a call.                                           *)
LEMMA Append1Typed ==
    ASSUME TypeOK, NEW c \in Callers, NEW e \in Event, NEW next \in Call, Append1(c, e, next)
    PROVE  /\ SessionsTyped' /\ SharedTyped' /\ calls' \in [Callers -> Call]
           /\ calls'[c] = [next EXCEPT !.view = ViewAfter(next.sid, next.view, e),
                                       !.last = IF Redeliveries THEN e ELSE NoEvent]
           /\ \A d \in Callers \ {c} : calls'[d] = calls[d]
           /\ AppendEvent(next.sid, e)
<1> DEFINE view == ViewAfter(next.sid, next.view, e)
           last == IF Redeliveries THEN e ELSE NoEvent
<1>1. view \in View /\ last \in Event \cup {NoEvent}
  BY ViewAfterTyped DEF Call
<1>2. SessionsTyped' /\ SharedTyped'
  BY AppendTyped DEF Append1
<1>3. Become(c, [next EXCEPT !.view = view, !.last = last]) /\ AppendEvent(next.sid, e)
  BY DEF Append1
<1> HIDE DEF view, last
<1>4. [next EXCEPT !.view = view, !.last = last] \in Call
  BY <1>1 DEF Call
<1>5. /\ calls' \in [Callers -> Call]
      /\ calls'[c] = [next EXCEPT !.view = view, !.last = last]
      /\ \A d \in Callers \ {c} : calls'[d] = calls[d]
  BY <1>3, <1>4, BecomeTyped
<1> QED  BY <1>2, <1>3, <1>5 DEF view, last

LEMMA AnswersTyped ==
    ASSUME ArtifactsTyped, NEW s \in Sids, NEW inv \in Nat, NEW reply \in Seq(Shape)
    PROVE  /\ Answers(s, inv, reply) \in Seq(Event)
           /\ DOMAIN Answers(s, inv, reply) = DOMAIN reply
           /\ \A i \in DOMAIN reply :
                 /\ Answers(s, inv, reply)[i].id = <<inv, i + 1>>
                 /\ Answers(s, inv, reply)[i].back = NoInv
                 /\ Touches(Answers(s, inv, reply)[i]) = Touched(reply[i])
<1> DEFINE version(i) == IF reply[i].saves
                         THEN NextVersion(s) + Cardinality({j \in 1 .. i - 1 : reply[j].saves})
                         ELSE NoVersion
<1>1. ASSUME NEW i \in DOMAIN reply PROVE version(i) \in Int
  <2>1. Len(artifacts[s]) \in Nat
    BY DEF ArtifactsTyped
  <2>2. IsFiniteSet(1 .. i - 1)
    BY FS_Interval
  <2>3. Cardinality({j \in 1 .. i - 1 : reply[j].saves}) \in Nat
    BY <2>2, FS_Subset, FS_CardinalityType
  <2> QED  BY <2>1, <2>3 DEF NextVersion, NoVersion
<1> HIDE DEF version
<1>2. Answers(s, inv, reply) = [i \in DOMAIN reply |-> EventOf(inv, i + 1, reply[i], version(i))]
  BY DEF Answers, version
<1>3. ASSUME NEW i \in DOMAIN reply
      PROVE  /\ EventOf(inv, i + 1, reply[i], version(i)) \in Event
             /\ EventOf(inv, i + 1, reply[i], version(i)).id = <<inv, i + 1>>
             /\ EventOf(inv, i + 1, reply[i], version(i)).back = NoInv
             /\ Touches(EventOf(inv, i + 1, reply[i], version(i))) = Touched(reply[i])
  <2>1. PICK n \in Nat, shape \in Shape : n = i + 1 /\ shape = reply[i]
    BY ElementOfSeq
  <2>2. PICK v \in Int : v = version(i)
    BY <1>1
  <2>3. /\ EventOf(inv, n, shape, v) \in Event /\ EventOf(inv, n, shape, v).id = <<inv, n>>
        /\ EventOf(inv, n, shape, v).back = NoInv
        /\ Touches(EventOf(inv, n, shape, v)) = Touched(shape)
    BY EventOfTyped
  <2> QED  BY <2>1, <2>2, <2>3
<1>4. DOMAIN reply = 1 .. Len(reply) /\ Len(reply) \in Nat
  OBVIOUS
<1>5. Answers(s, inv, reply) \in [1 .. Len(reply) -> Event]
  BY <1>2, <1>3, <1>4
<1>6. Seq(Event) = UNION {[1 .. n -> Event] : n \in Nat}
  BY SeqDef
<1>7. Answers(s, inv, reply) \in Seq(Event)
  BY <1>4, <1>5, <1>6
<1> QED  BY <1>2, <1>3, <1>7

(* What a rewind appends.                                                  *)
RewindEvent(call) ==
    LET index == RewindIndex(call.view.events, call.target)
    IN  [id |-> <<call.inv, 1>>, back |-> call.target, partial |-> FALSE,
         version |-> ArtifactDelta(call.view.events, index),
         delta |-> StateDelta(call.view, index)]

(* What it saves.                                                          *)
RewindContents(call) ==
    LET index == RewindIndex(call.view.events, call.target)
    IN  IF ArtifactDelta(call.view.events, index) = NoVersion THEN <<>>
        ELSE <<RestoredContent(call.sid, call.view.events, index)>>

LEMMA RewindEventTyped ==
    ASSUME NEW call \in Call, HasInvocation(call.view.events, call.target)
    PROVE  /\ RewindEvent(call) \in Event
           /\ RewindIndex(call.view.events, call.target) \in DOMAIN call.view.events
<1> DEFINE index == RewindIndex(call.view.events, call.target)
<1>1. call.view \in View /\ call.view.events \in Seq(Event)
  BY DEF Call, View
<1>2. index \in DOMAIN call.view.events
  BY <1>1, RewindIndexTyped
<1>3. StateDelta(call.view, index) \in Delta
  BY <1>1, <1>2, StateDeltaTyped
<1>4. ArtifactDelta(call.view.events, index) \in Int
  <2>1. 1 .. index - 1 \in SUBSET DOMAIN call.view.events
    BY <1>1, <1>2
  <2>2. RecordedVersion(call.view.events, DOMAIN call.view.events) \in Int
    BY <1>1, RecordedVersionTyped
  <2> QED  BY <2>2 DEF ArtifactDelta, NoVersion
<1> HIDE DEF index
<1>5. RewindEvent(call) = [id |-> <<call.inv, 1>>, back |-> call.target, partial |-> FALSE,
         version |-> ArtifactDelta(call.view.events, index), delta |-> StateDelta(call.view, index)]
  BY DEF RewindEvent, index
<1>6. call.inv \in Nat /\ call.target \in Nat
  BY DEF Call
<1>7. RewindEvent(call) \in Event
  BY <1>3, <1>4, <1>5, <1>6 DEF Event, Ids
<1> QED  BY <1>2, <1>7 DEF index

(* The three ways an event reaches append_event from a call.               *)
Appending(c, e) ==
    /\ e \in Event /\ calls[c].sid \in Sids /\ calls[c].pc # "idle"
    /\ AppendEvent(calls[c].sid, e)
    /\ calls'[c].view = ViewAfter(calls[c].sid, calls[c].view, e)
    /\ calls'[c].sid = calls[c].sid /\ calls'[c].inv = calls[c].inv
    /\ \A d \in Callers \ {c} : calls'[d] = calls[d]
    /\ UNCHANGED <<artifacts, invs>>
    /\ TypeOK'
    /\ \/ /\ calls[c].last # NoEvent /\ e = calls[c].last
          /\ calls'[c].last = NoEvent /\ UNCHANGED <<calls[c].pc, calls[c].todo, calls[c].read>>
       \/ /\ calls'[c].last = IF Redeliveries THEN e ELSE NoEvent
          /\ UNCHANGED calls[c].read
          /\ \/ /\ calls[c].pc = "run" /\ calls'[c].pc = "agent" /\ UNCHANGED calls[c].todo
                /\ e.id = <<calls[c].inv, 1>> /\ e.back = NoInv /\ e.version = NoVersion
                /\ \E shape \in Messages : Touches(e) = Touched(shape)
             \/ /\ calls[c].pc = "append" /\ calls'[c].pc = "append" /\ calls[c].todo # <<>>
                /\ e = Head(calls[c].todo) /\ calls'[c].todo = Tail(calls[c].todo)

(* What a call has at each stage.                                          *)
StageOf(call) ==
    \/ call = Idle
    \/ /\ call.pc # "idle" /\ call.sid \in Sids
       /\ call.pc \in {"read", "create", "run", "rewind"} => call.todo = <<>> /\ call.last = NoEvent
       /\ call.pc = "agent" => call.todo = <<>>
       /\ call.pc = "read" => call.read \in 1 .. 3
       /\ call.pc = "create" => call.read = 1
       /\ call.pc \in {"read", "create"} /\ call.read = 1 => call.view = NoView

Staged == \A c \in Callers : StageOf(calls[c])

LEMMA StageFacts ==
    ASSUME Staged, NEW c \in Callers, calls[c].pc # "idle"
    PROVE  /\ calls[c].sid \in Sids
           /\ calls[c].pc \in {"read", "create", "run", "rewind"} =>
                 calls[c].todo = <<>> /\ calls[c].last = NoEvent
           /\ calls[c].pc = "agent" => calls[c].todo = <<>>
           /\ calls[c].pc = "read" => calls[c].read \in 1 .. 3
           /\ calls[c].pc = "create" => calls[c].read = 1
           /\ calls[c].pc \in {"read", "create"} /\ calls[c].read = 1 => calls[c].view = NoView
<1>1. Idle.pc = "idle"
  BY DEF Idle
<1>2. StageOf(calls[c])
  BY DEF Staged
<1> QED  BY <1>1, <1>2 DEF StageOf

LEMMA IdleFacts ==
    ASSUME Staged, NEW c \in Callers, calls[c].pc = "idle"
    PROVE  calls[c] = Idle
BY DEF Staged, StageOf

LEMMA IdleFields ==
    /\ Idle.pc = "idle" /\ Idle.inv = NoInv /\ Idle.view = NoView /\ Idle.todo = <<>>
    /\ Idle.last = NoEvent /\ Idle.read = 0
    /\ NoView.events = <<>> /\ NoView.born = NoInv /\ NoView.state = NoState
BY DEF Idle, NoView

(* All calls but one keep their stage.                                     *)
LEMMA OthersStaged ==
    ASSUME Staged, NEW c \in Callers, \A d \in Callers \ {c} : calls'[d] = calls[d],
           StageOf(calls'[c])
    PROVE  Staged'
<1> SUFFICES ASSUME NEW d \in Callers PROVE StageOf(calls'[d])
  BY DEF Staged, StageOf
<1> QED  BY DEF Staged

LEMMA RedeliverAppends ==
    ASSUME TypeOK, Staged, NEW c \in Callers, Redeliver(c)
    PROVE  Appending(c, calls[c].last) /\ Redeliveries
<1> DEFINE call == calls[c]
           e == call.last
           view == ViewAfter(call.sid, call.view, e)
<1>1. call \in Call /\ e # NoEvent
  BY DEF TypeOK, Redeliver
<1>2. call.pc # "idle"
  BY <1>1, IdleFacts, IdleFields
<1>3. e \in Event /\ call.sid \in Sids /\ call.pc # "idle" /\ call.view \in View
  BY <1>1, <1>2, StageFacts DEF Call
<1>4. view \in View
  BY <1>3, ViewAfterTyped
<1>5. AppendEvent(call.sid, e) /\ UNCHANGED <<artifacts, invs>> /\ Redeliveries
      /\ Become(c, [call EXCEPT !.view = view, !.last = NoEvent])
  BY DEF Redeliver
<1> HIDE DEF view
<1>6. [call EXCEPT !.view = view, !.last = NoEvent] \in Call
  BY <1>1, <1>4 DEF Call
<1>7. calls' \in [Callers -> Call] /\ calls'[c] = [call EXCEPT !.view = view, !.last = NoEvent]
      /\ \A d \in Callers \ {c} : calls'[d] = calls[d]
  BY <1>5, <1>6, BecomeTyped
<1>8. SessionsTyped' /\ SharedTyped'
  BY <1>3, <1>5, AppendTyped
<1>9. TypeOK'
  BY <1>5, <1>7, <1>8 DEF TypeOK, ArtifactsTyped
<1> HIDE DEF call
<1>10. /\ calls'[c].view = view /\ calls'[c].last = NoEvent /\ calls'[c].sid = call.sid
       /\ calls'[c].inv = call.inv /\ calls'[c].pc = call.pc /\ calls'[c].todo = call.todo
       /\ calls'[c].read = call.read
  BY <1>1, <1>7 DEF Call
<1> QED  BY <1>1, <1>3, <1>5, <1>7, <1>9, <1>10 DEF Appending, call, view

LEMMA UserMessageAppends ==
    ASSUME TypeOK, Staged, NEW c \in Callers, NEW shape \in Messages, UserMessage(c, shape)
    PROVE  Appending(c, EventOf(calls[c].inv, 1, shape, NoVersion))
<1> DEFINE call == calls[c]
           e == EventOf(call.inv, 1, shape, NoVersion)
           next == [call EXCEPT !.pc = "agent"]
<1>1. call \in Call /\ call.pc = "run" /\ shape \in Shape
  BY RunnerConstants DEF TypeOK, UserMessage
<1>2. call.sid \in Sids /\ call.inv \in Nat
  BY <1>1, StageFacts DEF Call
<1>3. e \in Event /\ e.id = <<call.inv, 1>> /\ e.back = NoInv /\ e.version = NoVersion
      /\ Touches(e) = Touched(shape)
  <2>1. NoVersion \in Int /\ 1 \in Nat
    BY DEF NoVersion
  <2>2. e \in Event /\ e.id = <<call.inv, 1>> /\ e.back = NoInv /\ Touches(e) = Touched(shape)
    BY <1>1, <1>2, <2>1, EventOfTyped, SMTT(60)
  <2> QED  BY <2>2, EventOfSaves
<1>4. next \in Call /\ next.sid = call.sid /\ next.inv = call.inv /\ next.pc = "agent"
      /\ next.todo = call.todo /\ next.read = call.read /\ next.view = call.view
  BY <1>1 DEF Call
<1>5. Append1(c, e, next) /\ UNCHANGED <<artifacts, invs>>
  BY DEF UserMessage
<1> HIDE DEF next, e
<1>6. /\ SessionsTyped' /\ SharedTyped' /\ calls' \in [Callers -> Call]
      /\ calls'[c] = [next EXCEPT !.view = ViewAfter(next.sid, next.view, e),
                                  !.last = IF Redeliveries THEN e ELSE NoEvent]
      /\ \A d \in Callers \ {c} : calls'[d] = calls[d]
      /\ AppendEvent(next.sid, e)
  BY <1>3, <1>4, <1>5, Append1Typed
<1>7. TypeOK'
  BY <1>5, <1>6 DEF TypeOK, ArtifactsTyped
<1>8. /\ calls'[c].view = ViewAfter(next.sid, next.view, e)
      /\ calls'[c].last = IF Redeliveries THEN e ELSE NoEvent
      /\ calls'[c].sid = next.sid /\ calls'[c].inv = next.inv /\ calls'[c].pc = next.pc
      /\ calls'[c].todo = next.todo /\ calls'[c].read = next.read
  BY <1>4, <1>6 DEF Call
<1>9. Appending(c, e)
  <2> HIDE DEF call
  <2>1. calls[c] = call
    BY DEF call
  <2> QED  BY <2>1, <1>1, <1>2, <1>3, <1>4, <1>5, <1>6, <1>7, <1>8 DEF Appending
<1> QED  BY <1>9 DEF e

LEMMA AppendNextAppends ==
    ASSUME TypeOK, Staged, NEW c \in Callers, AppendNext(c)
    PROVE  Appending(c, Head(calls[c].todo))
<1> DEFINE call == calls[c]
           e == Head(call.todo)
           next == [call EXCEPT !.todo = Tail(@)]
<1>1. call \in Call /\ call.pc = "append" /\ call.todo # <<>>
  BY DEF TypeOK, AppendNext
<1>2. call.sid \in Sids /\ call.todo \in Seq(Event)
  BY <1>1, StageFacts DEF Call
<1>3. e \in Event /\ Tail(call.todo) \in Seq(Event)
  BY <1>1, <1>2
<1>4. next \in Call /\ next.sid = call.sid /\ next.inv = call.inv /\ next.pc = "append"
      /\ next.todo = Tail(call.todo) /\ next.read = call.read /\ next.view = call.view
  BY <1>1, <1>3 DEF Call
<1>5. Append1(c, e, next) /\ UNCHANGED <<artifacts, invs>>
  BY DEF AppendNext
<1> HIDE DEF next, e
<1>6. /\ SessionsTyped' /\ SharedTyped' /\ calls' \in [Callers -> Call]
      /\ calls'[c] = [next EXCEPT !.view = ViewAfter(next.sid, next.view, e),
                                  !.last = IF Redeliveries THEN e ELSE NoEvent]
      /\ \A d \in Callers \ {c} : calls'[d] = calls[d]
      /\ AppendEvent(next.sid, e)
  BY <1>3, <1>4, <1>5, Append1Typed
<1>7. TypeOK'
  BY <1>5, <1>6 DEF TypeOK, ArtifactsTyped
<1>8. /\ calls'[c].view = ViewAfter(next.sid, next.view, e)
      /\ calls'[c].last = IF Redeliveries THEN e ELSE NoEvent
      /\ calls'[c].sid = next.sid /\ calls'[c].inv = next.inv /\ calls'[c].pc = next.pc
      /\ calls'[c].todo = next.todo /\ calls'[c].read = next.read
  BY <1>4, <1>6 DEF Call
<1>9. Appending(c, e)
  <2>1. e = Head(calls[c].todo) /\ calls[c] = call
    BY DEF e, call
  <2> HIDE DEF call
  <2> QED  BY <2>1, <1>1, <1>2, <1>3, <1>4, <1>5, <1>6, <1>7, <1>8 DEF Appending
<1> QED  BY <1>9 DEF e

LEMMA AppendingStaged ==
    ASSUME TypeOK, Staged, NEW c \in Callers, NEW e, Appending(c, e)
    PROVE  TypeOK' /\ Staged'
<1>1. calls[c] \in Call /\ calls'[c] \in Call
  BY DEF TypeOK, Appending
<1>2. calls[c].pc # "idle"
  BY DEF Appending
<1>3. CASE calls[c].last # NoEvent /\ UNCHANGED <<calls[c].pc, calls[c].todo, calls[c].read>>
  <2>1. calls[c].pc \notin {"read", "create", "run", "rewind"}
    BY <1>2, <1>3, StageFacts
  <2>2. StageOf(calls'[c])
    BY <1>1, <1>2, <1>3, <2>1, StageFacts DEF Appending, StageOf
  <2> QED  BY <2>2, OthersStaged DEF Appending
<1>4. CASE /\ calls[c].pc = "run" /\ calls'[c].pc = "agent" /\ UNCHANGED calls[c].todo
  <2>1. calls'[c].todo = <<>>
    BY <1>2, <1>4, StageFacts
  <2>2. StageOf(calls'[c])
    BY <1>1, <1>4, <2>1 DEF Appending, StageOf
  <2> QED  BY <2>2, OthersStaged DEF Appending
<1>5. CASE calls[c].pc = "append" /\ calls'[c].pc = "append"
  <2>2. StageOf(calls'[c])
    BY <1>1, <1>5 DEF Appending, StageOf
  <2> QED  BY <2>2, OthersStaged DEF Appending
<1> QED  BY <1>3, <1>4, <1>5 DEF Appending

(* The other shapes a step may have.                                       *)
Deleting(s) == Deletions /\ DeleteSession(s) /\ UNCHANGED <<calls, invs>>

Opening(s, d) == /\ s \in Sids /\ d \in Delta /\ DOMAIN d \in InitialStates /\ invs' = invs + 1
                 /\ CreateSession(s, d, invs + 1) /\ UNCHANGED calls

Beginning(c) == /\ calls[c] = Idle /\ invs' = invs + 1 /\ UNCHANGED service
                /\ calls'[c].pc = "read" /\ calls'[c].read = 1 /\ calls'[c].inv = invs + 1
                /\ calls'[c].view = NoView /\ calls'[c].todo = <<>> /\ calls'[c].last = NoEvent

Reading(c) ==
    /\ calls[c].pc = "read" /\ UNCHANGED <<service, invs>>
    /\ UNCHANGED <<calls[c].sid, calls[c].inv, calls[c].todo, calls[c].last>>
    /\ \/ /\ calls[c].read = 1 /\ Unlocked /\ calls[c].sid \in DOMAIN sessions
          /\ calls'[c].pc = "read" /\ calls'[c].read = 2
          /\ calls'[c].view.state = sessions[calls[c].sid].state
          /\ calls'[c].view.events = sessions[calls[c].sid].events
          /\ calls'[c].view.born = sessions[calls[c].sid].born
       \/ /\ calls[c].read = 1 /\ calls'[c].pc = "create" /\ calls'[c].read = 1
          /\ calls'[c].view = calls[c].view
       \/ /\ calls[c].read = 2 /\ calls'[c].pc = "read" /\ calls'[c].read = 3
          /\ calls'[c].view.state = Extended(calls[c].view.state, shared["app"])
          /\ UNCHANGED <<calls[c].view.events, calls[c].view.born>>
       \/ /\ calls[c].read = 3 /\ calls'[c].pc \in {"run", "rewind"}
          /\ calls'[c].view.state = Extended(calls[c].view.state, shared["user"])
          /\ UNCHANGED <<calls[c].view.events, calls[c].view.born>>

Creating(c) ==
    /\ calls[c].pc = "create" /\ CreateSession(calls[c].sid, NoState, calls[c].inv)
    /\ calls'[c].pc = "read" /\ calls'[c].read = 2
    /\ calls'[c].view.state = NoState /\ calls'[c].view.events = <<>>
    /\ calls'[c].view.born = calls[c].inv
    /\ UNCHANGED <<calls[c].sid, calls[c].inv, calls[c].todo, calls[c].last, invs>>

Planning(c) ==
    /\ calls'[c].pc = "append" /\ UNCHANGED <<sessions, shared, unwritten, written, invs>>
    /\ UNCHANGED <<calls[c].sid, calls[c].inv, calls[c].last, calls[c].view>>
    /\ \/ \E reply \in Replies :
            /\ calls[c].pc = "agent"
            /\ SaveArtifacts(calls[c].sid, Saved(calls[c].inv, reply))
            /\ calls'[c].todo = Answers(calls[c].sid, calls[c].inv, reply)
            /\ DOMAIN calls'[c].todo = DOMAIN reply
            /\ \A i \in DOMAIN reply : /\ calls'[c].todo[i].id = <<calls[c].inv, i + 1>>
                                       /\ calls'[c].todo[i].back = NoInv
                                       /\ Touches(calls'[c].todo[i]) = Touched(reply[i])
       \/ /\ calls[c].pc = "rewind" /\ HasInvocation(calls[c].view.events, calls[c].target)
          /\ calls'[c].todo = <<RewindEvent(calls[c])>>
          /\ SaveArtifacts(calls[c].sid, RewindContents(calls[c]))

Returning(c) == /\ calls[c].todo = <<>> /\ calls'[c] = Idle
                /\ UNCHANGED <<sessions, shared, unwritten, written, invs>>
                /\ AgentFails \/ UNCHANGED artifacts

(* One call moves on, the others do not.                                   *)
Moving(c) ==
    /\ \/ Beginning(c) \/ Reading(c) \/ Creating(c) \/ Planning(c) \/ Returning(c)
       \/ \E e : Appending(c, e)
    /\ \A d \in Callers \ {c} : calls'[d] = calls[d]

LEMMA BeginMoves ==
    ASSUME TypeOK, Staged, NEW c \in Callers, NEW op \in {"run", "rewind"}, NEW s \in Sids,
           NEW target \in Nat, Begin(c, op, s, target)
    PROVE  Moving(c) /\ TypeOK' /\ Staged'
<1> DEFINE new == [pc |-> "read", op |-> op, sid |-> s, inv |-> invs + 1, target |-> target,
                   read |-> 1, view |-> NoView, todo |-> <<>>, last |-> NoEvent]
<1>1. calls[c] = Idle /\ invs' = invs + 1 /\ UNCHANGED service /\ Become(c, new)
  BY IdleFacts DEF Begin
<1>2. /\ new \in Call /\ new.pc = "read" /\ new.read = 1 /\ new.inv = invs + 1 /\ new.sid = s
      /\ new.view = NoView /\ new.todo = <<>> /\ new.last = NoEvent
  <2>1. invs + 1 \in Nat /\ NoView \in View
    BY NoViewTyped DEF TypeOK
  <2> QED  BY <2>1 DEF Call
<1> HIDE DEF new
<1>3. calls' \in [Callers -> Call] /\ calls'[c] = new /\ \A d \in Callers \ {c} : calls'[d] = calls[d]
  BY <1>1, <1>2, BecomeTyped
<1>4. Beginning(c)
  BY <1>1, <1>2, <1>3 DEF Beginning
<1>5. TypeOK'
  BY <1>1, <1>3 DEF TypeOK, SessionsTyped, SharedTyped, ArtifactsTyped, service
<1>6. StageOf(calls'[c])
  BY <1>2, <1>3, IdleFields DEF StageOf
<1> QED  BY <1>3, <1>4, <1>5, <1>6, OthersStaged DEF Moving

LEMMA ReturnMoves ==
    ASSUME TypeOK, Staged, NEW c \in Callers, Return(c), calls[c].todo = <<>>,
           ArtifactsTyped', AgentFails \/ UNCHANGED artifacts,
           UNCHANGED <<sessions, shared, unwritten, written, invs>>
    PROVE  Moving(c) /\ TypeOK' /\ Staged'
<1>1. calls' \in [Callers -> Call] /\ calls'[c] = Idle /\ \A d \in Callers \ {c} : calls'[d] = calls[d]
  BY IdleTyped, BecomeTyped DEF Return
<1>2. TypeOK'
  BY <1>1 DEF TypeOK, SessionsTyped, SharedTyped
<1>3. StageOf(calls'[c])
  BY <1>1 DEF StageOf
<1> QED  BY <1>1, <1>2, <1>3, OthersStaged DEF Moving, Returning

LEMMA ReadMoves ==
    ASSUME TypeOK, Staged, NEW c \in Callers, Read(c)
    PROVE  Moving(c) /\ TypeOK' /\ Staged'
<1> DEFINE call == calls[c]
           pc == IF call.read = Len(Reads) THEN call.op ELSE "read"
           next == [call EXCEPT !.read = @ + 1, !.pc = pc]
<1>1. call \in Call /\ call.pc = "read" /\ call.sid \in Sids /\ call.read \in 1 .. 3
      /\ UNCHANGED <<service, invs>> /\ call.view \in View
      /\ call.todo = <<>> /\ call.last = NoEvent /\ (call.read = 1 => call.view = NoView)
  BY StageFacts DEF Read, TypeOK, Call
<1>2. Len(Reads) = 3 /\ Reads[1] = "session" /\ Reads[2] = "app" /\ Reads[3] = "user"
      /\ "session" \notin Shared /\ "app" \in Shared /\ "user" \in Shared
  BY DEF Reads, Shared
<1>3. UNCHANGED <<sessions, shared, unwritten, written, artifacts>>
  BY <1>1 DEF service
<1>4. SessionsTyped' /\ SharedTyped' /\ ArtifactsTyped' /\ invs' \in Nat
  BY <1>1, <1>3 DEF TypeOK, SessionsTyped, SharedTyped, ArtifactsTyped
<1> HIDE DEF call
<1>13. pc \in {"read", "run", "rewind"} /\ call.read + 1 \in 0 .. 4
  BY <1>1, <1>2 DEF Call
<1> HIDE DEF pc
<1>5. next \in Call /\ next.sid = call.sid /\ next.inv = call.inv /\ next.todo = call.todo
      /\ next.last = call.last /\ next.view = call.view /\ next.read = call.read + 1 /\ next.pc = pc
  BY <1>1, <1>13 DEF Call
<1>6. Read(c) => /\ call.pc = "read" /\ (Reads[call.read] \in Shared \/ Unlocked)
                 /\ IF Reads[call.read] \in Shared THEN
                        Become(c, [next EXCEPT !.view.state = Extended(@, shared[Reads[call.read]])])
                    ELSE IF call.sid \in DOMAIN sessions THEN
                        Become(c, [next EXCEPT !.view = CopyOf(sessions[call.sid])])
                    ELSE IF AutoCreate THEN Become(c, [call EXCEPT !.pc = "create"])
                    ELSE Return(c)
  BY DEF Read, call, pc
<1> HIDE DEF next
(* The shared state x is merged into the copy.                             *)
<1>7. ASSUME NEW x \in Shared, x = Reads[call.read], call.read \in {2, 3}
      PROVE  /\ TypeOK' /\ \A d \in Callers \ {c} : calls'[d] = calls[d]
             /\ calls'[c].view.state = Extended(call.view.state, shared[x])
             /\ calls'[c].view.events = call.view.events /\ calls'[c].view.born = call.view.born
             /\ calls'[c].pc = pc /\ calls'[c].read = call.read + 1 /\ calls'[c].sid = call.sid
             /\ calls'[c].inv = call.inv /\ calls'[c].todo = call.todo /\ calls'[c].last = call.last
  <2>1. shared[x] \in Delta /\ call.view.state \in Delta
    BY <1>1 DEF TypeOK, SharedTyped, View
  <2>2. PICK state \in Delta : state = Extended(call.view.state, shared[x])
    BY <2>1, ExtendedTyped
  <2>3. PICK view : view = [call.view EXCEPT !.state = state]
    OBVIOUS
  <2>4. view \in View /\ view.state = state /\ view.events = call.view.events /\ view.born = call.view.born
    BY <1>1, <2>3 DEF View
  <2>5. Become(c, [next EXCEPT !.view = view])
    BY <1>5, <1>6, <1>7, <2>2, <2>3
  <2>6. /\ [next EXCEPT !.view = view] \in Call
        /\ [next EXCEPT !.view = view].view = view /\ [next EXCEPT !.view = view].pc = next.pc
        /\ [next EXCEPT !.view = view].read = next.read /\ [next EXCEPT !.view = view].sid = next.sid
        /\ [next EXCEPT !.view = view].inv = next.inv /\ [next EXCEPT !.view = view].todo = next.todo
        /\ [next EXCEPT !.view = view].last = next.last
    BY <1>5, <2>4 DEF Call
  <2>7. /\ calls' \in [Callers -> Call] /\ calls'[c] = [next EXCEPT !.view = view]
        /\ \A d \in Callers \ {c} : calls'[d] = calls[d]
    BY <2>5, <2>6, BecomeTyped
  <2>8. TypeOK'
    BY <1>4, <2>7 DEF TypeOK
  <2> QED  BY <1>5, <2>2, <2>4, <2>6, <2>7, <2>8
<1>8. CASE call.read = 2
  <2>1. pc = "read"
    BY <1>2, <1>8 DEF pc
  <2>2. Reading(c)
    BY <1>1, <1>2, <1>7, <1>8, <2>1 DEF Reading, call
  <2>3. StageOf(calls'[c])
    BY <1>1, <1>2, <1>7, <1>8, <2>1 DEF StageOf, call
  <2> QED  BY <1>2, <1>7, <1>8, <2>2, <2>3, OthersStaged DEF Moving
<1>9. CASE call.read = 3
  <2>1. pc = call.op /\ call.op \in {"run", "rewind"}
    BY <1>1, <1>2, <1>9 DEF pc, Call
  <2>2. Reading(c)
    BY <1>1, <1>2, <1>7, <1>9, <2>1 DEF Reading, call
  <2>3. StageOf(calls'[c])
    BY <1>1, <1>2, <1>7, <1>9, <2>1 DEF StageOf, call
  <2> QED  BY <1>2, <1>7, <1>9, <2>2, <2>3, OthersStaged DEF Moving
<1>10. CASE call.read = 1 /\ call.sid \in DOMAIN sessions
  <2> DEFINE stored == sessions[call.sid]
  <2>1. pc = "read" /\ Reads[call.read] \notin Shared
    BY <1>2, <1>10 DEF pc
  <2>2. stored \in Session /\ call.view = NoView /\ Unlocked
    BY <1>1, <1>6, <1>10, <2>1 DEF TypeOK, SessionsTyped
  <2>3. PICK view : view = CopyOf(stored)
    OBVIOUS
  <2>4. /\ view.state = stored.state /\ view.events = stored.events /\ view.born = stored.born
        /\ view \in View
    BY <2>2, <2>3 DEF View, Session, CopyOf
  <2>7. Become(c, [next EXCEPT !.view = view])
    BY <1>6, <1>10, <2>1, <2>3
  <2>8. /\ [next EXCEPT !.view = view] \in Call
        /\ [next EXCEPT !.view = view].view = view /\ [next EXCEPT !.view = view].pc = next.pc
        /\ [next EXCEPT !.view = view].read = next.read /\ [next EXCEPT !.view = view].sid = next.sid
        /\ [next EXCEPT !.view = view].inv = next.inv /\ [next EXCEPT !.view = view].todo = next.todo
        /\ [next EXCEPT !.view = view].last = next.last
    BY <1>5, <2>4 DEF Call
  <2>9. /\ calls' \in [Callers -> Call] /\ calls'[c] = [next EXCEPT !.view = view]
        /\ \A d \in Callers \ {c} : calls'[d] = calls[d]
    BY <2>7, <2>8, BecomeTyped
  <2>10. TypeOK'
    BY <1>4, <2>9 DEF TypeOK
  <2>11. Reading(c)
    BY <1>1, <1>5, <1>10, <2>1, <2>2, <2>4, <2>8, <2>9 DEF Reading, call
  <2>12. StageOf(calls'[c])
    BY <1>1, <1>5, <1>10, <2>1, <2>8, <2>9 DEF StageOf
  <2> QED  BY <2>9, <2>10, <2>11, <2>12, OthersStaged DEF Moving
<1>11. CASE call.read = 1 /\ call.sid \notin DOMAIN sessions /\ AutoCreate
  <2>1. Become(c, [call EXCEPT !.pc = "create"])
    BY <1>2, <1>6, <1>11
  <2>2. PICK new : new = [call EXCEPT !.pc = "create"]
    OBVIOUS
  <2>3. /\ new \in Call /\ new.pc = "create" /\ new.read = call.read /\ new.view = call.view
        /\ new.sid = call.sid /\ new.inv = call.inv /\ new.todo = call.todo /\ new.last = call.last
    BY <1>1, <2>2 DEF Call
  <2>4. calls' \in [Callers -> Call] /\ calls'[c] = new /\ \A d \in Callers \ {c} : calls'[d] = calls[d]
    BY <2>1, <2>2, <2>3, BecomeTyped
  <2>5. TypeOK'
    BY <1>4, <2>4 DEF TypeOK
  <2>6. Reading(c)
    BY <1>1, <1>11, <2>3, <2>4 DEF Reading, call
  <2>7. StageOf(calls'[c])
    BY <1>1, <1>11, <2>3, <2>4 DEF StageOf
  <2> QED  BY <2>4, <2>5, <2>6, <2>7, OthersStaged DEF Moving
<1>12. CASE call.read = 1 /\ call.sid \notin DOMAIN sessions /\ ~AutoCreate
  <2>1. Return(c)
    BY <1>2, <1>6, <1>12
  <2>2. calls[c].todo = <<>>
    BY <1>1 DEF call
  <2> QED  BY <1>1, <1>3, <1>4, <2>1, <2>2, ReturnMoves
<1> QED  BY <1>1, <1>8, <1>9, <1>10, <1>11, <1>12

LEMMA CreateMoves ==
    ASSUME TypeOK, Staged, NEW c \in Callers, Create(c)
    PROVE  Moving(c) /\ TypeOK' /\ Staged'
<1> DEFINE call == calls[c]
<1>1. call \in Call /\ call.pc = "create" /\ call.sid \in Sids /\ call.view = NoView
      /\ call.todo = <<>> /\ call.last = NoEvent /\ call.inv \in Nat /\ UNCHANGED <<invs, artifacts>>
      /\ CreateSession(call.sid, NoState, call.inv)
  BY StageFacts DEF Create, CreateSession, TypeOK, Call
<1>2. SessionsTyped' /\ SharedTyped'
  BY <1>1, NoStateTyped, CreateTyped
<1>3. Become(c, [call EXCEPT !.pc = "read", !.read = 2, !.view = [NoView EXCEPT !.born = call.inv]])
  <2>1. Become(c, [call EXCEPT !.pc = "read", !.read = 2, !.view.born = call.inv])
    BY DEF Create
  <2>2. [call EXCEPT !.pc = "read", !.read = 2, !.view.born = call.inv]
          = [call EXCEPT !.pc = "read", !.read = 2, !.view = [NoView EXCEPT !.born = call.inv]]
    BY <1>1 DEF Call
  <2> QED  BY <2>1, <2>2
<1>4. PICK view : view = [NoView EXCEPT !.born = call.inv]
  OBVIOUS
<1>5. view \in View /\ view.state = NoState /\ view.events = <<>> /\ view.born = call.inv
  <2>1. PICK v \in View : v = NoView
    BY NoViewTyped
  <2>2. view = [v EXCEPT !.born = call.inv]
    BY <1>4, <2>1
  <2>3. view \in View /\ view.state = v.state /\ view.events = v.events /\ view.born = call.inv
    BY <1>1, <2>2 DEF View
  <2> QED  BY <2>1, <2>3, IdleFields
<1> HIDE DEF call
<1>6. PICK new : new = [call EXCEPT !.pc = "read", !.read = 2, !.view = view]
  OBVIOUS
<1>7. /\ new \in Call /\ new.pc = "read" /\ new.read = 2 /\ new.view = view /\ new.sid = call.sid
      /\ new.inv = call.inv /\ new.todo = call.todo /\ new.last = call.last
  <2>1. call \in Call /\ view \in View /\ 2 \in 0 .. 4
    BY <1>1, <1>5
  <2> QED  BY <1>6, <2>1 DEF Call
<1>8. calls' \in [Callers -> Call] /\ calls'[c] = new /\ \A d \in Callers \ {c} : calls'[d] = calls[d]
  BY <1>3, <1>4, <1>6, <1>7, BecomeTyped
<1>9. TypeOK'
  BY <1>1, <1>2, <1>8 DEF TypeOK, ArtifactsTyped
<1>10. Creating(c)
  BY <1>1, <1>5, <1>7, <1>8 DEF Creating, call
<1>11. StageOf(calls'[c])
  BY <1>1, <1>7, <1>8 DEF StageOf
<1> QED  BY <1>8, <1>9, <1>10, <1>11, OthersStaged DEF Moving

(* The call that made a plan keeps all but its stage and its plan.         *)
LEMMA PlanTyped ==
    ASSUME TypeOK, Staged, NEW c \in Callers, calls[c].pc # "idle",
           NEW todo \in Seq(Event), Become(c, [calls[c] EXCEPT !.pc = "append", !.todo = todo]),
           ArtifactsTyped', UNCHANGED <<sessions, shared, unwritten, written, invs>>
    PROVE  /\ TypeOK' /\ Staged' /\ calls'[c].todo = todo /\ calls'[c].pc = "append"
           /\ UNCHANGED <<calls[c].sid, calls[c].inv, calls[c].last, calls[c].view>>
           /\ \A d \in Callers \ {c} : calls'[d] = calls[d]
<1>1. PICK call \in Call : call = calls[c]
  BY DEF TypeOK
<1>2. PICK new : new = [call EXCEPT !.pc = "append", !.todo = todo]
  OBVIOUS
<1>3. /\ new \in Call /\ new.pc = "append" /\ new.todo = todo /\ new.sid = call.sid
      /\ new.inv = call.inv /\ new.last = call.last /\ new.view = call.view
  BY <1>2 DEF Call
<1>4. calls' \in [Callers -> Call] /\ calls'[c] = new /\ \A d \in Callers \ {c} : calls'[d] = calls[d]
  BY <1>1, <1>2, <1>3, BecomeTyped
<1>5. TypeOK'
  BY <1>4 DEF TypeOK, SessionsTyped, SharedTyped
<1>6. StageOf(calls'[c])
  BY <1>1, <1>3, <1>4, StageFacts DEF StageOf
<1> QED  BY <1>1, <1>3, <1>4, <1>5, <1>6, OthersStaged

LEMMA AgentMoves ==
    ASSUME TypeOK, Staged, NEW c \in Callers, NEW reply \in Replies, Agent(c, reply)
    PROVE  Moving(c) /\ TypeOK' /\ Staged'
<1>1. /\ calls[c] \in Call /\ calls[c].pc = "agent" /\ calls[c].sid \in Sids /\ calls[c].inv \in Nat
      /\ reply \in Seq(Shape) /\ UNCHANGED <<sessions, shared, unwritten, written, invs>>
      /\ SaveArtifacts(calls[c].sid, Saved(calls[c].inv, reply))
  BY StageFacts, RunnerConstants DEF Agent, TypeOK, Call
<1>2. ArtifactsTyped'
  BY <1>1, SavedTyped, SaveTyped DEF TypeOK
<1>3. PICK todo : todo = Answers(calls[c].sid, calls[c].inv, reply)
  OBVIOUS
<1>4. /\ todo \in Seq(Event) /\ DOMAIN todo = DOMAIN reply
      /\ \A i \in DOMAIN reply : /\ todo[i].id = <<calls[c].inv, i + 1>>
                                 /\ todo[i].back = NoInv
                                 /\ Touches(todo[i]) = Touched(reply[i])
  BY <1>1, <1>3, AnswersTyped DEF TypeOK
<1>5. Become(c, [calls[c] EXCEPT !.pc = "append", !.todo = todo])
  BY <1>3 DEF Agent
<1>6. /\ TypeOK' /\ Staged' /\ calls'[c].todo = todo /\ calls'[c].pc = "append"
      /\ UNCHANGED <<calls[c].sid, calls[c].inv, calls[c].last, calls[c].view>>
      /\ \A d \in Callers \ {c} : calls'[d] = calls[d]
  BY <1>1, <1>2, <1>4, <1>5, PlanTyped
<1>7. Planning(c)
  BY <1>1, <1>3, <1>4, <1>6 DEF Planning
<1> QED  BY <1>6, <1>7 DEF Moving

LEMMA RewindMoves ==
    ASSUME TypeOK, Staged, NEW c \in Callers, PrepareRewind(c)
    PROVE  Moving(c) /\ TypeOK' /\ Staged'
<1> DEFINE call == calls[c]
           index == RewindIndex(call.view.events, call.target)
           version == ArtifactDelta(call.view.events, index)
           contents == RewindContents(call)
<1>1. /\ call \in Call /\ call.pc = "rewind" /\ call.sid \in Sids
      /\ HasInvocation(call.view.events, call.target)
      /\ UNCHANGED <<sessions, shared, unwritten, written, invs>>
      /\ SaveArtifacts(call.sid, contents)
  BY StageFacts DEF PrepareRewind, TypeOK, RewindContents
<1>2. ArtifactsTyped'
  <2>1. contents \in Seq(Range(contents))
    <3>1. \A x : <<x>> \in Seq({x})
      OBVIOUS
    <3>2. \A x : <<x>> \in Seq(Range(<<x>>))
      BY <3>1, SeqOfRange
    <3>3. <<>> \in Seq(Range(<<>>))
      OBVIOUS
    <3> QED  BY <3>2, <3>3 DEF RewindContents
  <2> HIDE DEF contents
  <2> QED  BY <1>1, <2>1, SaveTyped DEF TypeOK
<1>3. RewindEvent(call) \in Event
  BY <1>1, RewindEventTyped
<1>4. Become(c, [call EXCEPT !.pc = "append", !.todo = <<RewindEvent(call)>>])
  BY DEF PrepareRewind, RewindEvent
<1>5. /\ TypeOK' /\ Staged' /\ calls'[c].todo = <<RewindEvent(call)>> /\ calls'[c].pc = "append"
      /\ UNCHANGED <<calls[c].sid, calls[c].inv, calls[c].last, calls[c].view>>
      /\ \A d \in Callers \ {c} : calls'[d] = calls[d]
  <2>1. <<RewindEvent(call)>> \in Seq(Event)
    BY <1>3
  <2> QED  BY <1>1, <1>2, <1>4, <2>1, PlanTyped
<1>6. Planning(c)
  BY <1>1, <1>5 DEF Planning
<1> QED  BY <1>5, <1>6 DEF Moving

(* A step of the system is one of these.                                   *)
StepShape ==
    \/ UNCHANGED vars
    \/ WriteUserState /\ UNCHANGED <<calls, invs>>
    \/ \E s \in Sids : Deleting(s) \/ \E d \in Delta : Opening(s, d)
    \/ \E c \in Callers : Moving(c)

LEMMA NextShape ==
    ASSUME TypeOK, Staged, Next
    PROVE  StepShape /\ TypeOK' /\ Staged'
<1>1. CASE WriteUserState /\ UNCHANGED <<calls, invs>>
  <2>1. shared["user"] \in Delta /\ unwritten \in Delta /\ NoState \in Delta
    BY NoStateTyped DEF TypeOK, SharedTyped, Shared
  <2>2. Extended(shared["user"], unwritten) \in Delta
    BY <2>1, ExtendedTyped
  <2>3. shared' \in [Shared -> Delta] /\ unwritten' \in Delta
    BY <1>1, <2>1, <2>2 DEF WriteUserState, TypeOK, SharedTyped
  <2>4. UNCHANGED <<sessions, written, artifacts, calls, invs>>
    BY <1>1 DEF WriteUserState
  <2>5. TypeOK' /\ Staged'
    BY <2>3, <2>4 DEF TypeOK, SessionsTyped, SharedTyped, ArtifactsTyped, Staged
  <2> QED  BY <1>1, <2>5 DEF StepShape
<1>2. ASSUME NEW s \in Sids, Delete(s) PROVE StepShape /\ TypeOK' /\ Staged'
  <2>1. Deleting(s)
    BY <1>2 DEF Delete, Deleting
  <2>2. UNCHANGED <<shared, unwritten, written, artifacts, calls, invs>>
        /\ sessions' = Restrict(sessions, DOMAIN sessions \ {s})
    BY <1>2 DEF Delete, DeleteSession
  <2>3. SessionsTyped'
    BY <2>2 DEF TypeOK, SessionsTyped, Restrict
  <2>4. TypeOK' /\ Staged'
    BY <2>2, <2>3 DEF TypeOK, SharedTyped, ArtifactsTyped, Staged
  <2> QED  BY <2>1, <2>4 DEF StepShape
<1>3. ASSUME NEW s \in Sids, NEW keys \in InitialStates, Open(s, keys)
      PROVE  StepShape /\ TypeOK' /\ Staged'
  <2> DEFINE d == [k \in keys |-> <<invs + 1, 0>>]
  <2>1. invs \in Nat /\ keys \in SUBSET Keys
    BY RunnerConstants DEF TypeOK
  <2>2. d \in [keys -> Value]
    BY <2>1 DEF Value, Ids
  <2>3. d \in Delta
    BY <2>1, <2>2, DeltaIntro
  <2>4. CreateSession(s, d, invs + 1) /\ UNCHANGED <<calls, artifacts>> /\ invs' = invs + 1
        /\ DOMAIN d \in InitialStates
    BY <1>3 DEF Open, CreateSession
  <2> HIDE DEF d
  <2>5. Opening(s, d)
    BY <2>3, <2>4 DEF Opening
  <2>6. SessionsTyped' /\ SharedTyped'
    <3>1. PICK born \in Nat : born = invs + 1
      BY <2>1
    <3>2. CreateSession(s, d, born)
      BY <2>4, <3>1
    <3> QED  BY <2>3, <3>2, CreateTyped
  <2>7. TypeOK' /\ Staged'
    BY <2>1, <2>4, <2>6 DEF TypeOK, ArtifactsTyped, Staged
  <2> QED  BY <2>3, <2>5, <2>7 DEF StepShape
<1>4. ASSUME NEW c \in Callers, Moving(c), TypeOK', Staged' PROVE StepShape /\ TypeOK' /\ Staged'
  BY <1>4 DEF StepShape
<1>5. ASSUME NEW c \in Callers, NEW e, Appending(c, e) PROVE StepShape /\ TypeOK' /\ Staged'
  <2>1. Moving(c)
    BY <1>5 DEF Moving, Appending
  <2> QED  BY <1>5, <2>1, AppendingStaged DEF StepShape
<1>6. ASSUME NEW c \in Callers, Redeliver(c) PROVE StepShape /\ TypeOK' /\ Staged'
  BY <1>5, <1>6, RedeliverAppends
<1>7. ASSUME NEW c \in Callers, NEW op \in {"run", "rewind"}, NEW s \in Sids, NEW t \in Nat,
             Begin(c, op, s, t)
      PROVE  StepShape /\ TypeOK' /\ Staged'
  BY <1>4, <1>7, BeginMoves
<1>8. ASSUME NEW c \in Callers, Step(c) PROVE StepShape /\ TypeOK' /\ Staged'
  <2>1. CASE Read(c)
    BY <1>4, <2>1, ReadMoves
  <2>2. CASE Create(c)
    BY <1>4, <2>2, CreateMoves
  <2>3. ASSUME Return(c), UNCHANGED <<service, invs>>, calls[c].todo = <<>> PROVE StepShape /\ TypeOK' /\ Staged'
    <3>1. UNCHANGED <<sessions, shared, unwritten, written, invs, artifacts>> /\ ArtifactsTyped'
      BY <2>3 DEF service, TypeOK, ArtifactsTyped
    <3> QED  BY <1>4, <2>3, <3>1, ReturnMoves
  <2>4. CASE CreateFails(c)
    BY <2>3, <2>4, StageFacts DEF CreateFails
  <2>5. ASSUME NEW shape \in Messages, UserMessage(c, shape) PROVE StepShape /\ TypeOK' /\ Staged'
    BY <1>5, <2>5, UserMessageAppends
  <2>6. ASSUME NEW reply \in Replies, Agent(c, reply) PROVE StepShape /\ TypeOK' /\ Staged'
    BY <1>4, <2>6, AgentMoves
  <2>7. ASSUME NEW reply \in Replies, AgentError(c, reply) PROVE StepShape /\ TypeOK' /\ Staged'
    <3>1. Return(c) /\ UNCHANGED <<sessions, shared, unwritten, written, invs>>
          /\ calls[c].pc = "agent" /\ SaveArtifacts(calls[c].sid, Saved(calls[c].inv, reply)) /\ AgentFails
      BY <2>7 DEF AgentError
    <3>2. calls[c].sid \in Sids /\ reply \in Seq(Shape) /\ calls[c].todo = <<>>
      BY <3>1, StageFacts, RunnerConstants
    <3>3. ArtifactsTyped'
      BY <3>1, <3>2, SavedTyped, SaveTyped DEF TypeOK
    <3> QED  BY <1>4, <3>1, <3>2, <3>3, ReturnMoves
  <2>8. CASE AppendNext(c)
    BY <1>5, <2>8, AppendNextAppends
  <2>9. CASE End(c)
    BY <2>3, <2>9 DEF End
  <2>10. CASE PrepareRewind(c)
    BY <1>4, <2>10, RewindMoves
  <2>11. CASE InvocationNotFound(c)
    BY <2>3, <2>11, StageFacts DEF InvocationNotFound
  <2> QED  BY <1>8, <2>1, <2>2, <2>4, <2>5, <2>6, <2>7, <2>8, <2>9, <2>10, <2>11 DEF Step
<1>9. NoInv \in Nat /\ 1 .. invs \subseteq Nat
  BY DEF NoInv, TypeOK
<1> QED  BY <1>1, <1>2, <1>3, <1>6, <1>7, <1>8, <1>9 DEF Next

LEMMA InitTyped ==
    ASSUME Init
    PROVE  TypeOK /\ Staged
<1>1. Idle \in Call /\ NoState \in Delta /\ <<>> \in Seq(Delta) /\ <<>> \in Seq(Range(<<>>))
  BY IdleTyped, NoStateTyped
<1>2. calls \in [Callers -> Call] /\ invs = 0 /\ Staged
  BY <1>1 DEF Init, Staged, StageOf
<1>3. sessions = <<>> /\ artifacts = [s \in Sids |-> <<>>] /\ written = <<>>
      /\ unwritten = NoState /\ shared = [s \in Shared |-> NoState]
  BY DEF Init, InitService
<1>4. SessionsTyped
  BY <1>3 DEF SessionsTyped
<1>5. SharedTyped
  BY <1>1, <1>3 DEF SharedTyped
<1>6. ArtifactsTyped
  BY <1>1, <1>3 DEF ArtifactsTyped
<1> QED  BY <1>2, <1>4, <1>5, <1>6 DEF TypeOK

LEMMA Typed ==
    ASSUME TypeOK, Staged, [Next]_vars
    PROVE  StepShape /\ TypeOK' /\ Staged'
<1>1. CASE Next
  BY <1>1, NextShape
<1>2. CASE UNCHANGED vars
  BY <1>2 DEF vars, service, StepShape, TypeOK, SessionsTyped, SharedTyped, ArtifactsTyped, Staged
<1> QED  BY <1>1, <1>2

-----------------------------------------------------------------------------
(* Invocation ids.                                                         *)

(* What a step may do to the stored sessions.                              *)
StoredChange(t) ==
    \/ t \in DOMAIN sessions /\ sessions'[t] = sessions[t]
    \/ /\ t \notin DOMAIN sessions /\ sessions'[t].events = <<>>
       /\ \/ sessions'[t].born = invs + 1 /\ invs' = invs + 1
          \/ \E c \in Callers : Creating(c) /\ t = calls[c].sid /\ sessions'[t].born = calls[c].inv
                                /\ calls[c].pc # "idle" /\ UNCHANGED invs
    \/ \E c \in Callers : \E e \in Event :
          Appending(c, e) /\ t = calls[c].sid /\ Appended(t, e) /\ ~AppendIgnored(t, e)

LEMMA StoredChanges ==
    ASSUME TypeOK, Staged, StepShape, NEW t \in DOMAIN sessions'
    PROVE  StoredChange(t)
<1>1. CASE UNCHANGED sessions
  BY <1>1 DEF StoredChange
<1>2. ASSUME NEW s \in Sids, Deleting(s) PROVE StoredChange(t)
  BY <1>2 DEF Deleting, DeleteSession, Restrict, StoredChange
<1>3. ASSUME NEW s \in Sids, NEW d \in Delta, Opening(s, d) PROVE StoredChange(t)
  <2>1. PICK born \in Nat : born = invs + 1
    BY DEF TypeOK
  <2>2. /\ s \notin DOMAIN sessions /\ DOMAIN sessions' = DOMAIN sessions \cup {s}
        /\ sessions'[s] = NewSession(d, born)
        /\ \A u \in DOMAIN sessions : sessions'[u] = sessions[u]
    BY <1>3, <2>1, CreateTyped DEF Opening
  <2>3. NewSession(d, born).events = <<>> /\ NewSession(d, born).born = born
    BY DEF NewSession
  <2> QED  BY <1>3, <2>1, <2>2, <2>3 DEF StoredChange, Opening
<1>4. ASSUME NEW c \in Callers, Creating(c) PROVE StoredChange(t)
  <2>1. PICK s \in Sids, born \in Nat : s = calls[c].sid /\ born = calls[c].inv /\ calls[c].pc # "idle"
    BY <1>4, StageFacts DEF Creating, TypeOK, Call
  <2>2. /\ s \notin DOMAIN sessions /\ DOMAIN sessions' = DOMAIN sessions \cup {s}
        /\ sessions'[s] = NewSession(NoState, born)
        /\ \A u \in DOMAIN sessions : sessions'[u] = sessions[u]
    BY <1>4, <2>1, NoStateTyped, CreateTyped DEF Creating
  <2>3. NewSession(NoState, born).events = <<>> /\ NewSession(NoState, born).born = born
    BY DEF NewSession
  <2> QED  BY <1>4, <2>1, <2>2, <2>3 DEF StoredChange, Creating
<1>5. ASSUME NEW c \in Callers, NEW e, Appending(c, e) PROVE StoredChange(t)
  <2>1. e \in Event /\ AppendEvent(calls[c].sid, e)
    BY <1>5 DEF Appending
  <2>2. CASE UNCHANGED <<sessions, shared, unwritten, written>>
    BY <1>1, <2>2
  <2>3. CASE ~AppendIgnored(calls[c].sid, e) /\ Appended(calls[c].sid, e)
    <3>1. CASE t = calls[c].sid
      BY <1>5, <2>1, <2>3, <3>1 DEF StoredChange
    <3>2. CASE t # calls[c].sid
      BY <2>3, <3>2 DEF StoredChange, Appended
    <3> QED  BY <3>1, <3>2
  <2> QED  BY <2>1, <2>2, <2>3, AppendCases
<1>6. ASSUME NEW c \in Callers, Moving(c) PROVE StoredChange(t)
  <2>1. CASE Beginning(c) \/ Reading(c) \/ Planning(c) \/ Returning(c)
    <3>1. UNCHANGED sessions
      BY <2>1 DEF Beginning, Reading, Planning, Returning, service
    <3> QED  BY <1>1, <3>1
  <2> QED  BY <1>4, <1>5, <1>6, <2>1 DEF Moving
<1> QED  BY <1>1, <1>2, <1>3, <1>6 DEF StepShape, vars, service, WriteUserState

(* What a step may do to a call.                                           *)
LEMMA CallChanges ==
    ASSUME TypeOK, StepShape, NEW c \in Callers
    PROVE  UNCHANGED calls[c] \/ Moving(c)
<1>1. ASSUME NEW d \in Callers, Moving(d) PROVE UNCHANGED calls[c] \/ Moving(c)
  BY <1>1 DEF Moving
<1> QED  BY <1>1 DEF StepShape, vars, Deleting, Opening

LEMMA InvsGrow ==
    ASSUME TypeOK, Staged, StepShape
    PROVE  \/ UNCHANGED invs
           \/ /\ invs' = invs + 1
              /\ \/ \E c \in Callers : Beginning(c) /\ Moving(c)
                 \/ \E s \in Sids : \E d \in Delta : Opening(s, d)
<1>1. ASSUME NEW c \in Callers, Moving(c)
      PROVE  UNCHANGED invs \/ (Beginning(c) /\ invs' = invs + 1)
  BY <1>1 DEF Moving, Beginning, Reading, Creating, Planning, Returning, Appending
<1> QED  BY <1>1 DEF StepShape, vars, Deleting, Opening

(* A call that has no copy yet: no session and no copy bears its id.       *)
Fresh(n) == /\ \A s \in DOMAIN sessions : sessions[s].born # n
            /\ \A c \in Callers : calls[c].view.born # n

(* No stored event is of an invocation.                                    *)
Unheard(n) == \A s \in DOMAIN sessions : \A i \in DOMAIN sessions[s].events :
                  Inv(sessions[s].events[i]) # n

OwnIds(call) == /\ \A i \in DOMAIN call.todo : Inv(call.todo[i]) = call.inv
                /\ call.last # NoEvent => Inv(call.last) = call.inv

Issued ==
    /\ \A s \in DOMAIN sessions : sessions[s].born \in 1 .. invs
    /\ \A n \in Nat : n > invs => Unheard(n)
    /\ \A c \in Callers : calls[c].view.born <= invs
    /\ \A c \in Callers : calls[c].pc # "idle" => calls[c].inv \in 1 .. invs
    /\ \A c, d \in Callers : c # d /\ calls[c].pc # "idle" => calls[c].inv # calls[d].inv
    /\ \A c \in Callers : calls[c].pc # "idle" /\ calls[c].view.born = NoInv => Fresh(calls[c].inv)
    /\ \A c \in Callers : calls[c].pc \in {"read", "create", "run", "rewind"} => Unheard(calls[c].inv)
    /\ \A c \in Callers : OwnIds(calls[c])

(* How a call changes: its id and its copy.                                *)
LEMMA BornChanges ==
    ASSUME TypeOK, Staged, NEW c \in Callers, Moving(c)
    PROVE  \/ (Beginning(c) \/ Returning(c)) /\ calls'[c].view.born = NoInv
           \/ calls'[c].view.born = calls[c].view.born
           \/ Reading(c) /\ \E s \in DOMAIN sessions : calls'[c].view.born = sessions[s].born
           \/ Creating(c) /\ calls'[c].view.born = calls[c].inv
<1>1. ASSUME NEW e, Appending(c, e) PROVE calls'[c].view.born = calls[c].view.born
  <2>1. PICK s : s = calls[c].sid
    OBVIOUS
  <2>2. PICK view \in View : view = calls[c].view /\ e \in Event
    BY <1>1 DEF TypeOK, Call, Appending
  <2> DEFINE after == ViewAfter(s, view, e)
  <2>3. calls'[c].view = after /\ e \in Event
    BY <1>1, <2>1, <2>2 DEF Appending
  <2> HIDE DEF after
  <2>4. after.born = view.born
    BY <2>3, ViewAfterTyped DEF after
  <2> QED  BY <1>1, <2>1, <2>2, <2>3, <2>4 DEF Appending
<1>2. CASE Reading(c)
  BY <1>2 DEF Reading
<1> QED  BY <1>1, <1>2, IdleFields DEF Moving, Beginning, Creating, Planning, Returning

LEMMA InvChanges ==
    ASSUME TypeOK, Staged, NEW c \in Callers, Moving(c)
    PROVE  \/ Beginning(c) /\ calls'[c].inv = invs + 1 /\ calls[c].pc = "idle"
           \/ calls'[c] = Idle
           \/ calls'[c].inv = calls[c].inv /\ calls[c].pc # "idle"
<1>1. CASE Beginning(c)
  BY <1>1, IdleFields DEF Beginning
<1>2. ASSUME NEW e, Appending(c, e) PROVE calls'[c].inv = calls[c].inv /\ calls[c].pc # "idle"
  BY <1>2 DEF Appending
<1> QED  BY <1>1, <1>2 DEF Moving, Reading, Creating, Planning, Returning

(* A call appends events of its own invocation.                            *)
LEMMA AppendsOwn ==
    ASSUME TypeOK, NEW c \in Callers, OwnIds(calls[c]), NEW e, Appending(c, e)
    PROVE  Inv(e) = calls[c].inv /\ Inv(Trimmed(e)) = calls[c].inv
<1>1. e \in Event /\ calls[c].todo \in Seq(Event)
  BY DEF Appending, TypeOK, Call
<1>2. Inv(e) = calls[c].inv
  BY <1>1 DEF Appending, OwnIds, Inv
<1> QED  BY <1>1, <1>2, TrimmedTyped DEF Appending, Inv

LEMMA UnheardKept ==
    ASSUME TypeOK, Staged, Issued, StepShape, NEW n, Unheard(n),
           \A c \in Callers : \A e : Appending(c, e) => calls[c].inv # n
    PROVE  Unheard(n)'
<1> SUFFICES ASSUME NEW s \in DOMAIN sessions', NEW i \in DOMAIN sessions'[s].events
             PROVE  Inv(sessions'[s].events[i]) # n
  BY DEF Unheard
<1>1. CASE s \in DOMAIN sessions /\ sessions'[s] = sessions[s]
  BY <1>1 DEF Unheard
<1>2. CASE sessions'[s].events = <<>>
  BY <1>2
<1>3. ASSUME NEW c \in Callers, NEW e \in Event, Appending(c, e), Appended(s, e)
      PROVE  Inv(sessions'[s].events[i]) # n
  <2>1. sessions[s].events \in Seq(Event) /\ s \in DOMAIN sessions
        /\ sessions'[s].events = Append(sessions[s].events, Trimmed(e))
    BY <1>3 DEF Appended, TypeOK, SessionsTyped, Session
  <2>2. Inv(Trimmed(e)) # n
    BY <1>3, AppendsOwn DEF Issued
  <2> QED  BY <2>1, <2>2 DEF Unheard
<1> QED  BY <1>1, <1>2, <1>3, StoredChanges DEF StoredChange

LEMMA FreshKept ==
    ASSUME TypeOK, Staged, Issued, StepShape, NEW n, Fresh(n), n # NoInv, n # invs + 1,
           \A c \in Callers : Creating(c) => calls[c].inv # n
    PROVE  Fresh(n)'
<1>1. ASSUME NEW s \in DOMAIN sessions' PROVE sessions'[s].born # n
  BY StoredChanges DEF StoredChange, Fresh, Appended
<1>2. ASSUME NEW c \in Callers PROVE calls'[c].view.born # n
  BY CallChanges, BornChanges DEF Fresh
<1> QED  BY <1>1, <1>2 DEF Fresh

LEMMA BornsIssued ==
    ASSUME TypeOK, Staged, Issued, StepShape
    PROVE  /\ \A s \in DOMAIN sessions' : sessions'[s].born \in 1 .. invs'
           /\ \A c \in Callers : calls'[c].view.born <= invs'
<1>1. invs \in Nat /\ (invs' = invs \/ invs' = invs + 1)
  BY InvsGrow DEF TypeOK
<1>2. ASSUME NEW s \in DOMAIN sessions' PROVE sessions'[s].born \in 1 .. invs'
  BY <1>1, StoredChanges DEF StoredChange, Issued, Appended
<1>3. ASSUME NEW c \in Callers PROVE calls'[c].view.born <= invs'
  <2>1. CASE UNCHANGED calls[c]
    <3>1. calls[c].view.born \in Nat /\ calls[c].view.born <= invs
      BY DEF TypeOK, Call, View, Issued
    <3> QED  BY <1>1, <2>1, <3>1
  <2>2. CASE Moving(c)
    <3>1. CASE calls'[c].view.born = NoInv
      BY <1>1, <3>1 DEF NoInv
    <3>2. CASE calls'[c].view.born = calls[c].view.born
      <4>1. calls[c].view.born \in Nat /\ calls[c].view.born <= invs
        BY DEF TypeOK, Call, View, Issued
      <4> QED  BY <1>1, <3>2, <4>1
    <3>3. ASSUME NEW s \in DOMAIN sessions, calls'[c].view.born = sessions[s].born
          PROVE  calls'[c].view.born <= invs'
      BY <1>1, <3>3 DEF Issued
    <3>4. CASE Creating(c) /\ calls'[c].view.born = calls[c].inv
      BY <1>1, <3>4 DEF Creating, Issued
    <3> QED  BY <2>2, <3>1, <3>2, <3>3, <3>4, BornChanges
  <2> QED  BY <2>1, <2>2, CallChanges
<1> QED  BY <1>2, <1>3

LEMMA InvsIssued ==
    ASSUME TypeOK, Staged, Issued, StepShape, TypeOK', Staged'
    PROVE  /\ \A c \in Callers : calls'[c].pc # "idle" => calls'[c].inv \in 1 .. invs'
           /\ \A c, d \in Callers : c # d /\ calls'[c].pc # "idle" => calls'[c].inv # calls'[d].inv
<1>1. invs \in Nat /\ (invs' = invs \/ invs' = invs + 1)
  BY InvsGrow DEF TypeOK
<1>2. ASSUME NEW c \in Callers, calls'[c].pc # "idle"
      PROVE  \/ calls'[c].inv = calls[c].inv /\ calls[c].pc # "idle" /\ calls[c].inv \in 1 .. invs
             \/ Beginning(c) /\ Moving(c) /\ calls'[c].inv = invs + 1 /\ invs' = invs + 1
  BY <1>2, CallChanges, InvChanges, IdleFields DEF Issued, Beginning
<1>3. ASSUME NEW c \in Callers, NEW d \in Callers, c # d, calls'[c].pc # "idle"
      PROVE  calls'[c].inv # calls'[d].inv
  <2>1. CASE calls'[d].pc = "idle"
    <3>1. calls'[d].inv = NoInv
      BY <2>1, IdleFields DEF Staged, StageOf
    <3> QED  BY <1>1, <1>2, <1>3, <3>1 DEF NoInv
  <2>2. CASE calls'[d].pc # "idle"
    <3>1. CASE calls'[c].inv = calls[c].inv /\ calls[c].pc # "idle" /\ calls[c].inv \in 1 .. invs
      BY <1>1, <1>2, <1>3, <2>2, <3>1 DEF Issued
    <3>2. CASE Beginning(c) /\ Moving(c) /\ calls'[c].inv = invs + 1
      <4>1. calls'[d] = calls[d]
        BY <1>3, <3>2 DEF Moving
      <4> QED  BY <1>1, <2>2, <3>2, <4>1 DEF Issued
    <3> QED  BY <1>2, <1>3, <3>1, <3>2
  <2> QED  BY <2>1, <2>2
<1> QED  BY <1>1, <1>2, <1>3

LEMMA FreshIssued ==
    ASSUME TypeOK, Staged, Issued, StepShape, TypeOK', Staged', NEW c \in Callers,
           calls'[c].pc # "idle", calls'[c].view.born = NoInv
    PROVE  Fresh(calls[c].inv)'
<1>1. invs \in Nat
  BY DEF TypeOK
<1>2. CASE Beginning(c) /\ Moving(c)
  <2>1. calls'[c].inv = invs + 1 /\ UNCHANGED sessions /\ \A d \in Callers \ {c} : calls'[d] = calls[d]
    BY <1>2 DEF Beginning, Moving, service
  <2>2. \A d \in Callers : calls[d].view.born <= invs /\ calls[d].view.born \in Nat
    BY DEF Issued, TypeOK, Call, View
  <2>3. \A s \in DOMAIN sessions : sessions[s].born \in 1 .. invs
    BY DEF Issued
  <2>4. \A d \in Callers : calls'[d].view.born # invs + 1
    BY <1>1, <1>2, <2>1, <2>2, IdleFields DEF NoInv, Beginning
  <2>5. \A s \in DOMAIN sessions' : sessions'[s].born # invs + 1
    BY <1>1, <2>1, <2>3
  <2> QED  BY <2>1, <2>4, <2>5 DEF Fresh
<1>3. CASE calls'[c].inv = calls[c].inv /\ calls[c].pc # "idle" /\ calls[c].view.born = NoInv
  <2>1. Fresh(calls[c].inv) /\ calls[c].inv \in 1 .. invs
    BY <1>3 DEF Issued
  <2>2. ASSUME NEW d \in Callers, Creating(d) PROVE calls[d].inv # calls[c].inv
    <3>1. CASE d = c
      BY <2>1, <2>2, <3>1 DEF Creating, NoInv
    <3>2. CASE d # c
      BY <1>3, <3>2 DEF Issued
    <3> QED  BY <3>1, <3>2
  <2> HIDE DEF Fresh
  <2>3. PICK n : n = calls[c].inv
    OBVIOUS
  <2>4. Fresh(n) /\ n # NoInv /\ n # invs + 1
    BY <1>1, <2>1, <2>3 DEF NoInv
  <2>5. Fresh(n)'
    BY <2>2, <2>3, <2>4, FreshKept
  <2> QED  BY <1>3, <2>3, <2>5 DEF Fresh
<1>4. CASE Moving(c) /\ ~Beginning(c)
  <2>1. calls'[c].inv = calls[c].inv /\ calls[c].pc # "idle"
    BY <1>4, InvChanges, IdleFields
  <2>2. calls[c].view.born = NoInv
    BY <1>1, <1>4, <2>1, BornChanges, IdleFields DEF Issued, NoInv, Returning
  <2> QED  BY <1>3, <2>1, <2>2
<1>5. CASE UNCHANGED calls[c]
  BY <1>3, <1>5
<1> QED  BY <1>2, <1>4, <1>5, CallChanges

LEMMA UnheardIssued ==
    ASSUME TypeOK, Staged, Issued, StepShape, TypeOK', Staged'
    PROVE  /\ \A n \in Nat : n > invs' => Unheard(n)'
           /\ \A c \in Callers : calls'[c].pc \in {"read", "create", "run", "rewind"} =>
                 Unheard(calls[c].inv)'
<1>1. invs \in Nat /\ (invs' = invs \/ invs' = invs + 1)
  BY InvsGrow DEF TypeOK
<1>2. \A c \in Callers : \A e : Appending(c, e) => calls[c].inv \in 1 .. invs
  BY DEF Appending, Issued
<1>3. ASSUME NEW n \in Nat, n > invs PROVE Unheard(n)'
  <2>1. Unheard(n)
    BY <1>3 DEF Issued
  <2> QED  BY <1>1, <1>2, <1>3, <2>1, UnheardKept
<1>4. ASSUME NEW c \in Callers, calls'[c].pc \in {"read", "create", "run", "rewind"}
      PROVE  Unheard(calls[c].inv)'
  <2>1. CASE Beginning(c)
    <3>1. calls'[c].inv = invs + 1 /\ UNCHANGED sessions
      BY <2>1 DEF Beginning, service
    <3>2. Unheard(invs + 1)
      BY <1>1 DEF Issued
    <3> QED  BY <3>1, <3>2 DEF Unheard
  <2>2. CASE calls'[c].inv = calls[c].inv /\ calls[c].pc \in {"read", "create", "run", "rewind"}
    <3>1. PICK n : n = calls[c].inv
      OBVIOUS
    <3>2. Unheard(n)
      BY <2>2, <3>1 DEF Issued
    <3>3. ASSUME NEW d \in Callers, NEW e, Appending(d, e) PROVE calls[d].inv # n
      <4>1. CASE d = c
        <5>1. calls[c].last = NoEvent
          BY <2>2, StageFacts
        <5> QED  BY <1>4, <3>3, <4>1, <5>1 DEF Appending
      <4>2. CASE d # c
        BY <2>2, <3>1, <4>2 DEF Issued
      <4> QED  BY <4>1, <4>2
    <3>4. Unheard(n)'
      BY <3>2, <3>3, UnheardKept
    <3> QED  BY <2>2, <3>1, <3>4 DEF Unheard
  <2>3. CASE Moving(c) /\ ~Beginning(c)
    <3>1. calls'[c].inv = calls[c].inv /\ calls[c].pc # "idle"
      BY <1>4, <2>3, InvChanges, IdleFields
    <3>2. CASE \E e : Appending(c, e)
      BY <1>4, <3>2, StageFacts DEF Appending
    <3>3. CASE Reading(c) \/ Creating(c)
      BY <2>2, <3>1, <3>3 DEF Reading, Creating
    <3> QED  BY <1>4, <2>3, <3>2, <3>3, IdleFields DEF Moving, Planning, Returning
  <2>4. CASE UNCHANGED calls[c]
    BY <1>4, <2>2, <2>4
  <2> QED  BY <2>1, <2>3, <2>4, CallChanges
<1>5. \A n \in Nat : n > invs' => Unheard(n)'
  BY <1>1, <1>3
<1> QED  BY <1>4, <1>5

LEMMA OwnIdsKept ==
    ASSUME TypeOK, Staged, Issued, StepShape, TypeOK', Staged', NEW c \in Callers
    PROVE  OwnIds(calls'[c])
<1>1. calls[c] \in Call /\ OwnIds(calls[c])
  BY DEF TypeOK, Issued
<1>2. ASSUME NEW e, Appending(c, e) PROVE OwnIds(calls'[c])
  <2>1. Inv(e) = calls[c].inv /\ calls[c].todo \in Seq(Event)
    BY <1>1, <1>2, AppendsOwn DEF Call
  <2>2. calls'[c].last # NoEvent => Inv(calls'[c].last) = calls'[c].inv
    BY <1>2, <2>1 DEF Appending
  <2>3. CASE UNCHANGED calls[c].todo
    BY <1>1, <1>2, <2>2, <2>3 DEF OwnIds, Appending
  <2>4. CASE calls'[c].todo = Tail(calls[c].todo) /\ calls[c].todo # <<>>
    BY <1>1, <1>2, <2>1, <2>2, <2>4 DEF OwnIds, Appending
  <2> QED  BY <1>2, <2>3, <2>4 DEF Appending
<1>3. CASE Planning(c)
  <2>1. ASSUME NEW reply \in Replies, DOMAIN calls'[c].todo = DOMAIN reply,
               \A i \in DOMAIN reply : calls'[c].todo[i].id = <<calls[c].inv, i + 1>>
        PROVE  OwnIds(calls'[c])
    BY <1>1, <1>3, <2>1 DEF OwnIds, Planning, Inv
  <2>2. CASE calls'[c].todo = <<RewindEvent(calls[c])>>
    <3>1. RewindEvent(calls[c]).id = <<calls[c].inv, 1>>
      BY DEF RewindEvent
    <3> QED  BY <1>1, <1>3, <2>2, <3>1 DEF OwnIds, Planning, Inv
  <2> QED  BY <1>3, <2>1, <2>2 DEF Planning
<1>4. CASE Beginning(c) \/ Returning(c)
  BY <1>4, IdleFields DEF Beginning, Returning, OwnIds
<1>5. CASE Reading(c) \/ Creating(c)
  BY <1>1, <1>5 DEF Reading, Creating, OwnIds
<1> QED  BY <1>1, <1>2, <1>3, <1>4, <1>5, CallChanges DEF Moving

LEMMA IssuedKept ==
    ASSUME TypeOK, Staged, Issued, StepShape, TypeOK', Staged'
    PROVE  Issued'
<1> HIDE DEF StepShape
<1>1. /\ \A s \in DOMAIN sessions' : sessions'[s].born \in 1 .. invs'
      /\ \A c \in Callers : calls'[c].view.born <= invs'
  BY BornsIssued
<1>2. /\ \A c \in Callers : calls'[c].pc # "idle" => calls'[c].inv \in 1 .. invs'
      /\ \A c, d \in Callers : c # d /\ calls'[c].pc # "idle" => calls'[c].inv # calls'[d].inv
  BY InvsIssued
<1>3. \A c \in Callers : calls'[c].pc # "idle" /\ calls'[c].view.born = NoInv => Fresh(calls[c].inv)'
  BY FreshIssued
<1>4. /\ \A n \in Nat : n > invs' => Unheard(n)'
      /\ \A c \in Callers : calls'[c].pc \in {"read", "create", "run", "rewind"} =>
            Unheard(calls[c].inv)'
  BY UnheardIssued
<1>5. \A c \in Callers : OwnIds(calls'[c])
  BY OwnIdsKept
<1> QED  BY <1>1, <1>2, <1>3, <1>4, <1>5 DEF Issued, OwnIds

LEMMA InitIssued ==
    ASSUME Init
    PROVE  Issued
<1>1. sessions = <<>> /\ invs = 0 /\ \A c \in Callers : calls[c] = Idle
  BY DEF Init, InitService
<1> QED  BY <1>1, IdleFields DEF Issued, Unheard, Fresh, OwnIds, NoInv

-----------------------------------------------------------------------------
(* A call's copy and the stored session.                                   *)

InOrder(copy, stored) ==
    \A j \in DOMAIN copy : \E q \in DOMAIN stored :
        stored[q] = copy[j] /\ \A i \in 1 .. j - 1 : \E p \in 1 .. q - 1 : stored[p] = copy[i]

OwnIn(copy, stored, inv) == \A e \in Range(stored) : Inv(e) = inv => e \in Range(copy)

Follows(view, session, inv) ==
    view.born = session.born => InOrder(view.events, session.events)
                                /\ OwnIn(view.events, session.events, inv)

CopiesFollow ==
    \A c \in Callers : calls[c].view.born # NoInv /\ calls[c].sid \in DOMAIN sessions =>
        Follows(calls[c].view, sessions[calls[c].sid], calls[c].inv)

LEMMA FollowsItself ==
    ASSUME NEW events \in Seq(Event), NEW inv
    PROVE  InOrder(events, events) /\ OwnIn(events, events, inv)
<1>1. InOrder(events, events)
  <2> SUFFICES ASSUME NEW j \in DOMAIN events
               PROVE  \A i \in 1 .. j - 1 : \E p \in 1 .. j - 1 : events[p] = events[i]
    BY DEF InOrder
  <2> QED  OBVIOUS
<1> QED  BY <1>1 DEF OwnIn

LEMMA FollowsAppend ==
    ASSUME NEW copy \in Seq(Event), NEW stored \in Seq(Event), NEW inv, NEW e \in Event,
           InOrder(copy, stored), OwnIn(copy, stored, inv)
    PROVE  /\ InOrder(copy, Append(stored, e))
           /\ Inv(e) # inv => OwnIn(copy, Append(stored, e), inv)
           /\ InOrder(Append(copy, e), Append(stored, e))
           /\ OwnIn(Append(copy, e), Append(stored, e), inv)
<1> DEFINE more == Append(stored, e)
           longer == Append(copy, e)
<1>1. /\ DOMAIN more = 1 .. Len(stored) + 1 /\ DOMAIN stored = 1 .. Len(stored)
      /\ DOMAIN longer = 1 .. Len(copy) + 1 /\ DOMAIN copy = 1 .. Len(copy)
      /\ Len(stored) \in Nat /\ Len(copy) \in Nat
      /\ \A q \in DOMAIN stored : more[q] = stored[q]
      /\ \A j \in DOMAIN copy : longer[j] = copy[j]
      /\ more[Len(stored) + 1] = e /\ longer[Len(copy) + 1] = e
  OBVIOUS
<1> HIDE DEF more, longer
<1>2. ASSUME NEW j \in DOMAIN copy
      PROVE  \E q \in DOMAIN stored :
                more[q] = copy[j] /\ \A i \in 1 .. j - 1 : \E p \in 1 .. q - 1 : more[p] = copy[i]
  <2>1. PICK q \in DOMAIN stored :
           stored[q] = copy[j] /\ \A i \in 1 .. j - 1 : \E p \in 1 .. q - 1 : stored[p] = copy[i]
    BY DEF InOrder
  <2>2. ASSUME NEW i \in 1 .. j - 1 PROVE \E p \in 1 .. q - 1 : more[p] = copy[i]
    <3>1. PICK p \in 1 .. q - 1 : stored[p] = copy[i]
      BY <2>1
    <3>2. p \in DOMAIN stored
      BY <1>1
    <3> QED  BY <1>1, <3>1, <3>2
  <2> QED  BY <1>1, <2>1, <2>2
<1>3. InOrder(copy, more)
  BY <1>1, <1>2 DEF InOrder
<1>4. Range(more) = Range(stored) \cup {e} /\ Range(longer) = Range(copy) \cup {e}
  BY <1>1, SMTT(60) DEF Range
<1>5. (Inv(e) # inv => OwnIn(copy, more, inv)) /\ OwnIn(longer, more, inv)
  BY <1>4 DEF OwnIn
<1>6. ASSUME NEW j \in DOMAIN longer
      PROVE  \E q \in DOMAIN more :
                more[q] = longer[j] /\ \A i \in 1 .. j - 1 : \E p \in 1 .. q - 1 : more[p] = longer[i]
  <2>1. CASE j \in DOMAIN copy
    <3>1. PICK q \in DOMAIN stored :
             more[q] = copy[j] /\ \A i \in 1 .. j - 1 : \E p \in 1 .. q - 1 : more[p] = copy[i]
      BY <1>2, <2>1
    <3>2. q \in DOMAIN more /\ longer[j] = copy[j] /\ \A i \in 1 .. j - 1 : longer[i] = copy[i]
      BY <1>1, <2>1
    <3> QED  BY <3>1, <3>2
  <2>2. CASE j = Len(copy) + 1
    <3>1. ASSUME NEW i \in 1 .. j - 1 PROVE \E p \in 1 .. Len(stored) : more[p] = longer[i]
      <4>1. i \in DOMAIN copy
        BY <1>1, <2>2
      <4> QED  BY <1>1, <1>2, <4>1
    <3> QED  BY <1>1, <2>2, <3>1
  <2> QED  BY <1>1, <2>1, <2>2
<1>7. InOrder(longer, more)
  BY <1>6 DEF InOrder
<1> QED  BY <1>3, <1>5, <1>7 DEF more, longer

LEMMA CopyFollowsStep ==
    ASSUME TypeOK, Staged, Issued, CopiesFollow, StepShape, TypeOK', Staged', NEW c \in Callers,
           calls'[c].view.born # NoInv, calls'[c].sid \in DOMAIN sessions'
    PROVE  Follows(calls'[c].view, sessions'[calls'[c].sid], calls'[c].inv)
<1> HIDE DEF StepShape
<1>1. PICK call \in Call : call = calls[c]
  BY DEF TypeOK
<1>2. PICK s : s = calls'[c].sid
  OBVIOUS
<1> SUFFICES Follows(calls'[c].view, sessions'[s], calls'[c].inv)
  BY <1>2
<1>3. s \in DOMAIN sessions' /\ sessions'[s].events \in Seq(Event) /\ StoredChange(s)
  BY <1>2, StoredChanges DEF TypeOK, SessionsTyped, Session
<1>4. call.view.events \in Seq(Event) /\ (s \in DOMAIN sessions => sessions[s].events \in Seq(Event))
  BY DEF Call, View, TypeOK, SessionsTyped, Session
<1>5. ASSUME NEW e, Appending(c, e) PROVE Follows(calls'[c].view, sessions'[s], calls'[c].inv)
  <2>1. /\ calls'[c].view = ViewAfter(s, call.view, e) /\ e \in Event /\ s = call.sid /\ call.view \in View
        /\ calls'[c].inv = call.inv /\ AppendEvent(s, e) /\ Trimmed(e) \in Event
    BY <1>1, <1>2, <1>5, TrimmedTyped DEF Appending, Call
  <2>2. PICK before \in View : before = call.view
    BY <2>1
  <2> DEFINE view == ViewAfter(s, before, e)
  <2>6. calls'[c].view = view
    BY <2>1, <2>2
  <2> HIDE DEF view
  <2>3. view.born = before.born /\ (AppendIgnored(s, e) => view = before)
        /\ (~AppendIgnored(s, e) => view.events = Append(before.events, Trimmed(e)))
    BY <2>1, ViewAfterTyped DEF view
  <2>4. CASE AppendIgnored(s, e) /\ UNCHANGED <<sessions, shared, unwritten, written>>
    BY <1>1, <1>2, <1>3, <2>1, <2>2, <2>3, <2>4, <2>6 DEF CopiesFollow
  <2>5. CASE ~AppendIgnored(s, e) /\ Appended(s, e)
    <3>1. s \in DOMAIN sessions /\ sessions'[s].events = Append(sessions[s].events, Trimmed(e))
          /\ sessions'[s].born = sessions[s].born
      BY <2>5 DEF Appended
    <3>2. ASSUME view.born = sessions[s].born
          PROVE  /\ InOrder(view.events, sessions'[s].events)
                 /\ OwnIn(view.events, sessions'[s].events, call.inv)
      <4>1. /\ InOrder(call.view.events, sessions[s].events)
            /\ OwnIn(call.view.events, sessions[s].events, call.inv)
        BY <1>1, <2>1, <2>2, <2>3, <2>6, <3>1, <3>2 DEF CopiesFollow, Follows
      <4> QED  BY <1>4, <2>1, <2>2, <2>3, <2>5, <3>1, <4>1, FollowsAppend
    <3> QED  BY <2>1, <2>6, <3>1, <3>2 DEF Follows
  <2> QED  BY <2>1, <2>4, <2>5, AppendCases
<1>6. ASSUME UNCHANGED <<calls[c].sid, calls[c].inv, calls[c].view.events, calls[c].view.born>>,
             \A e : ~Appending(c, e), ~Creating(c)
      PROVE  Follows(calls'[c].view, sessions'[s], calls'[c].inv)
  <2>1. SUFFICES ASSUME call.view.born = sessions'[s].born
                 PROVE  /\ InOrder(call.view.events, sessions'[s].events)
                        /\ OwnIn(call.view.events, sessions'[s].events, call.inv)
    BY <1>1, <1>6 DEF Follows
  <2>2. s \in DOMAIN sessions /\ sessions[s].born = call.view.born =>
           /\ InOrder(call.view.events, sessions[s].events)
           /\ OwnIn(call.view.events, sessions[s].events, call.inv)
    BY <1>1, <1>2, <1>6 DEF CopiesFollow, Follows
  <2>3. CASE s \in DOMAIN sessions /\ sessions'[s] = sessions[s]
    BY <2>1, <2>2, <2>3
  <2>4. CASE sessions'[s].born = invs + 1
    <3>1. call.view.born <= invs /\ call.view.born \in Nat /\ invs \in Nat
      BY <1>1 DEF Issued, TypeOK, Call, View
    <3> QED  BY <2>1, <2>4, <3>1
  <2>5. ASSUME NEW d \in Callers, Creating(d), sessions'[s].born = calls[d].inv PROVE FALSE
    <3>1. calls[d].pc # "idle" /\ calls[d].view.born = NoInv
      BY <2>5, StageFacts, IdleFields DEF Creating
    <3>2. Fresh(calls[d].inv)
      BY <3>1 DEF Issued
    <3> QED  BY <1>1, <2>1, <2>5, <3>2 DEF Fresh
  <2>6. ASSUME NEW d \in Callers, NEW e \in Event, Appending(d, e), Appended(s, e)
        PROVE  /\ InOrder(call.view.events, sessions'[s].events)
               /\ OwnIn(call.view.events, sessions'[s].events, call.inv)
    <3>1. d # c /\ calls[d].pc # "idle"
      BY <1>6, <2>6 DEF Appending
    <3>2. calls[d].inv # call.inv /\ Inv(Trimmed(e)) = calls[d].inv /\ Trimmed(e) \in Event
      BY <1>1, <2>6, <3>1, AppendsOwn, TrimmedTyped DEF Issued
    <3>3. s \in DOMAIN sessions /\ sessions'[s].events = Append(sessions[s].events, Trimmed(e))
          /\ sessions'[s].born = sessions[s].born
      BY <2>6 DEF Appended
    <3> QED  BY <1>4, <2>1, <2>2, <3>2, <3>3, FollowsAppend
  <2> QED  BY <1>3, <2>3, <2>4, <2>5, <2>6 DEF StoredChange
<1>7. CASE Reading(c)
  <2>1. ~Creating(c) /\ (\A e : ~Appending(c, e)) /\ UNCHANGED sessions
    BY <1>7, StageFacts DEF Reading, Creating, Appending, service
  <2>2. CASE UNCHANGED <<calls[c].view.events, calls[c].view.born>>
    BY <1>6, <1>7, <2>1, <2>2 DEF Reading
  <2>3. CASE calls'[c].view.events = sessions[s].events
    BY <1>3, <2>1, <2>3, FollowsItself DEF Follows
  <2>4. UNCHANGED <<calls[c].view.events, calls[c].view.born>>
        \/ calls'[c].view.events = sessions[s].events
    BY <1>2, <1>7 DEF Reading
  <2> QED  BY <2>2, <2>3, <2>4
<1>8. CASE Creating(c)
  <2>1. PICK born \in Nat : born = calls[c].inv
    BY DEF TypeOK, Call
  <2>2. s = calls[c].sid /\ s \in Sids /\ CreateSession(s, NoState, born) /\ calls'[c].view.events = <<>>
    BY <1>2, <1>8, <2>1, StageFacts DEF Creating
  <2>3. sessions'[s] = NewSession(NoState, born)
    BY <2>2, NoStateTyped, CreateTyped
  <2>4. sessions'[s].events = <<>>
    BY <2>3 DEF NewSession
  <2> QED  BY <1>3, <2>2, <2>4, FollowsItself DEF Follows
<1>9. CASE Planning(c)
  <2>1. ~Creating(c) /\ (\A e : ~Appending(c, e))
    BY <1>9, StageFacts DEF Planning, Creating, Appending
  <2> QED  BY <1>6, <1>9, <2>1 DEF Planning
<1>10. CASE Beginning(c) \/ Returning(c)
  BY <1>10, IdleFields DEF Beginning, Returning
<1>11. CASE UNCHANGED calls[c]
  <2>1. ~Creating(c)
    BY <1>11, StageFacts DEF Creating
  <2> QED  BY <1>5, <1>6, <1>11, <2>1
<1> QED  BY <1>2, <1>5, <1>7, <1>8, <1>9, <1>10, <1>11, CallChanges DEF Moving

LEMMA CopiesFollowKept ==
    ASSUME TypeOK, Staged, Issued, CopiesFollow, StepShape, TypeOK', Staged'
    PROVE  CopiesFollow'
BY CopyFollowsStep DEF CopiesFollow, Follows

(* A call's copy follows the stored session: no event that the store       *)
(* dropped is in it, and none of the call's own that it kept is missing,   *)
(* whatever other calls append, delete and create meanwhile.               *)
THEOREM CopiesFollowStore == Spec => []CopyFollowsStore
<1>1. Init => TypeOK /\ Staged /\ Issued /\ CopiesFollow
  <2> SUFFICES ASSUME Init PROVE TypeOK /\ Staged /\ Issued /\ CopiesFollow
    OBVIOUS
  <2>1. \A c \in Callers : calls[c] = Idle
    BY DEF Init
  <2>2. CopiesFollow
    BY <2>1, IdleFields DEF CopiesFollow
  <2> QED  BY <2>2, InitTyped, InitIssued
<1>2. TypeOK /\ Staged /\ Issued /\ CopiesFollow /\ [Next]_vars
        => (TypeOK /\ Staged /\ Issued /\ CopiesFollow)'
  BY Typed, IssuedKept, CopiesFollowKept
<1>3. CopiesFollow => CopyFollowsStore
  BY DEF CopiesFollow, Follows, CopyFollowsStore, InOrder, OwnIn, HasView
<1> QED  BY <1>1, <1>2, <1>3, PTL DEF Spec

-----------------------------------------------------------------------------
(* Which keys are where.                                                   *)

ServiceScoped ==
    /\ \A s \in DOMAIN sessions :
          /\ \A k \in DOMAIN sessions[s].state : Scope[k] = "session"
          /\ \A i \in DOMAIN sessions[s].events : \A k \in Touches(sessions[s].events[i]) : Scope[k] # "temp"
    /\ \A x \in Shared : \A k \in DOMAIN shared[x] : Scope[k] = x
    /\ \A k \in DOMAIN unwritten : Scope[k] = "user"

LEMMA TrimmedTouches ==
    ASSUME NEW e \in Event
    PROVE  Touches(Trimmed(e)) = {k \in DOMAIN e.delta : Scope[k] \in Shared \cup {"session"}}
<1>1. PICK f \in Event : f = Trimmed(e)
  BY TrimmedTyped
<1>2. PICK d \in Delta : d = e.delta
  BY DEF Event
<1>3. f.delta = InScope(d, Shared \cup {"session"})
  BY <1>1, <1>2, TrimmedTyped
<1>4. DOMAIN InScope(d, Shared \cup {"session"}) = {k \in DOMAIN d : Scope[k] \in Shared \cup {"session"}}
  BY InScopeTyped
<1> QED  BY <1>1, <1>2, <1>3, <1>4 DEF Touches

(* What a step may do to the shared state.                                 *)
SharedChange ==
    \/ UNCHANGED <<shared, unwritten, written>>
    \/ WriteUserState /\ UNCHANGED calls
    \/ Unlocked /\ \E d \in Delta : ApplySharedDelta(d)

LEMMA SharedChanges ==
    ASSUME TypeOK, Staged, StepShape
    PROVE  SharedChange
<1>1. ASSUME NEW c \in Callers, NEW e, Appending(c, e) PROVE SharedChange
  <2>1. e \in Event /\ AppendEvent(calls[c].sid, e) /\ e.delta \in Delta
    BY <1>1 DEF Appending, Event
  <2>2. CASE UNCHANGED <<sessions, shared, unwritten, written>>
    BY <2>2 DEF SharedChange
  <2>3. CASE Appended(calls[c].sid, e)
    BY <2>1, <2>3 DEF SharedChange, Appended
  <2> QED  BY <2>1, <2>2, <2>3, AppendCases
<1>2. ASSUME NEW s, NEW d \in Delta, NEW born, CreateSession(s, d, born) PROVE SharedChange
  BY <1>2 DEF CreateSession, SharedChange
<1>3. ASSUME NEW c \in Callers, Moving(c) PROVE SharedChange
  <2>1. CASE Beginning(c) \/ Reading(c) \/ Planning(c) \/ Returning(c)
    BY <2>1 DEF SharedChange, Beginning, Reading, Planning, Returning, service
  <2>2. CASE Creating(c)
    BY <1>2, <2>2, NoStateTyped DEF Creating
  <2> QED  BY <1>1, <1>3, <2>1, <2>2 DEF Moving
<1>4. ASSUME NEW s \in Sids, Deleting(s) PROVE SharedChange
  BY <1>4 DEF Deleting, DeleteSession, SharedChange
<1>5. ASSUME NEW s \in Sids, NEW d \in Delta, Opening(s, d) PROVE SharedChange
  BY <1>2, <1>5 DEF Opening
<1>6. CASE UNCHANGED vars
  BY <1>6 DEF vars, service, SharedChange
<1>7. CASE WriteUserState /\ UNCHANGED <<calls, invs>>
  BY <1>7 DEF SharedChange
<1> QED  BY <1>3, <1>4, <1>5, <1>6, <1>7 DEF StepShape

LEMMA SharedScoped ==
    ASSUME TypeOK, Staged, ServiceScoped, StepShape
    PROVE  /\ \A x \in Shared : \A k \in DOMAIN shared'[x] : Scope[k] = x
           /\ \A k \in DOMAIN unwritten' : Scope[k] = "user"
<1>1. shared["app"] \in Delta /\ shared["user"] \in Delta /\ unwritten \in Delta
      /\ shared \in [Shared -> Delta] /\ {"app", "user"} = Shared
  BY DEF TypeOK, SharedTyped, Shared
<1>2. CASE UNCHANGED <<shared, unwritten, written>>
  BY <1>2 DEF ServiceScoped
<1>3. CASE WriteUserState
  <2>1. DOMAIN Extended(shared["user"], unwritten) = DOMAIN shared["user"] \cup DOMAIN unwritten
    BY <1>1, ExtendedTyped
  <2>2. \A k \in DOMAIN Extended(shared["user"], unwritten) : Scope[k] = "user"
    BY <1>1, <2>1 DEF ServiceScoped
  <2>3. shared' = [shared EXCEPT !["user"] = Extended(shared["user"], unwritten)] /\ unwritten' = NoState
    BY <1>3 DEF WriteUserState
  <2> QED  BY <1>1, <2>2, <2>3, NoStateTyped DEF ServiceScoped
<1>4. ASSUME NEW d \in Delta, ApplySharedDelta(d)
      PROVE  /\ \A x \in Shared : \A k \in DOMAIN shared'[x] : Scope[k] = x
             /\ \A k \in DOMAIN unwritten' : Scope[k] = "user"
  <2>1. /\ DOMAIN InScope(d, {"app"}) = {k \in DOMAIN d : Scope[k] \in {"app"}}
        /\ DOMAIN InScope(d, {"user"}) = {k \in DOMAIN d : Scope[k] \in {"user"}}
        /\ InScope(d, {"app"}) \in Delta
    BY InScopeTyped
  <2>2. DOMAIN Extended(shared["app"], InScope(d, {"app"})) = DOMAIN shared["app"] \cup DOMAIN InScope(d, {"app"})
    BY <1>1, <2>1, ExtendedTyped
  <2>3. \A k \in DOMAIN Extended(shared["app"], InScope(d, {"app"})) : Scope[k] = "app"
    BY <1>1, <2>1, <2>2 DEF ServiceScoped
  <2>4. shared' = [shared EXCEPT !["app"] = Extended(shared["app"], InScope(d, {"app"}))]
        /\ unwritten' = InScope(d, {"user"})
    BY <1>4 DEF ApplySharedDelta
  <2> QED  BY <1>1, <2>1, <2>3, <2>4 DEF ServiceScoped
<1> QED  BY <1>2, <1>3, <1>4, SharedChanges DEF SharedChange

LEMMA SessionScoped ==
    ASSUME TypeOK, Staged, ServiceScoped, StepShape, NEW t \in DOMAIN sessions'
    PROVE  /\ \A k \in DOMAIN sessions'[t].state : Scope[k] = "session"
           /\ \A i \in DOMAIN sessions'[t].events : \A k \in Touches(sessions'[t].events[i]) : Scope[k] # "temp"
<1> DEFINE Goal == /\ \A k \in DOMAIN sessions'[t].state : Scope[k] = "session"
                   /\ \A i \in DOMAIN sessions'[t].events :
                        \A k \in Touches(sessions'[t].events[i]) : Scope[k] # "temp"
<1>1. CASE t \in DOMAIN sessions /\ sessions'[t] = sessions[t]
  BY <1>1 DEF ServiceScoped
<1>2. ASSUME NEW d \in Delta, sessions'[t].events = <<>>, sessions'[t].state = InScope(d, {"session"}) PROVE Goal
  <2>1. DOMAIN InScope(d, {"session"}) = {k \in DOMAIN d : Scope[k] \in {"session"}}
    BY InScopeTyped
  <2> QED  BY <1>2, <2>1
<1>3. ASSUME NEW e \in Event, Appended(t, e) PROVE Goal
  <2>1. sessions[t].state \in Delta /\ sessions[t].events \in Seq(Event) /\ e.delta \in Delta /\ t \in DOMAIN sessions
    BY <1>3 DEF Appended, TypeOK, SessionsTyped, Session, Event
  <2>2. DOMAIN InScope(e.delta, {"session"}) = {k \in DOMAIN e.delta : Scope[k] \in {"session"}}
        /\ InScope(e.delta, {"session"}) \in Delta
    BY <2>1, InScopeTyped
  <2>3. DOMAIN Extended(sessions[t].state, InScope(e.delta, {"session"}))
          = DOMAIN sessions[t].state \cup DOMAIN InScope(e.delta, {"session"})
    BY <2>1, <2>2, ExtendedTyped
  <2>4. \A k \in DOMAIN sessions'[t].state : Scope[k] = "session"
    BY <1>3, <2>1, <2>2, <2>3 DEF Appended, ServiceScoped
  <2>5. Touches(Trimmed(e)) = {k \in DOMAIN e.delta : Scope[k] \in Shared \cup {"session"}}
    BY TrimmedTouches
  <2>6. \A k \in Touches(Trimmed(e)) : Scope[k] # "temp"
    BY <2>5 DEF Shared
  <2>7. sessions'[t].events = Append(sessions[t].events, Trimmed(e))
    BY <1>3 DEF Appended
  <2>8. \A i \in DOMAIN sessions'[t].events : \A k \in Touches(sessions'[t].events[i]) : Scope[k] # "temp"
    BY <2>1, <2>6, <2>7 DEF ServiceScoped
  <2> QED  BY <2>4, <2>8
<1>4. ASSUME NEW s, NEW d \in Delta, NEW born, CreateSession(s, d, born) PROVE Goal
  <2>1. CASE t = s
    <3>1. sessions'[t] = NewSession(d, born)
      BY <1>4, <2>1 DEF CreateSession
    <3>2. sessions'[t].events = <<>> /\ sessions'[t].state = InScope(d, {"session"})
      BY <3>1 DEF NewSession
    <3> QED  BY <1>2, <3>2
  <2>2. CASE t # s
    BY <1>1, <1>4, <2>2 DEF CreateSession
  <2> QED  BY <2>1, <2>2
<1>5. CASE \E c \in Callers : Creating(c)
  BY <1>4, <1>5, NoStateTyped DEF Creating
<1>6. CASE \E s \in Sids : \E d \in Delta : Opening(s, d)
  BY <1>4, <1>6 DEF Opening
<1>7. CASE UNCHANGED sessions
  BY <1>1, <1>7
<1>8. ASSUME NEW c \in Callers, Moving(c), ~Creating(c) PROVE Goal
  <2>1. CASE Beginning(c) \/ Reading(c) \/ Planning(c) \/ Returning(c)
    BY <1>7, <2>1 DEF Beginning, Reading, Planning, Returning, service
  <2>2. ASSUME NEW e, Appending(c, e) PROVE Goal
    <3>1. e \in Event
      BY <2>2 DEF Appending
    <3> QED  BY <1>1, <1>3, <1>8, <2>2, <3>1, StoredChanges, AppendCases DEF Appending, Appended
  <2> QED  BY <1>8, <2>1, <2>2 DEF Moving
<1>9. CASE \E s \in Sids : Deleting(s)
  BY <1>1, <1>9 DEF Deleting, DeleteSession, Restrict
<1> QED  BY <1>5, <1>6, <1>7, <1>8, <1>9 DEF StepShape, vars, service, WriteUserState

LEMMA ScopedKept ==
    ASSUME TypeOK, Staged, ServiceScoped, StepShape
    PROVE  ServiceScoped'
BY SharedScoped, SessionScoped DEF ServiceScoped, Touches

LEMMA InitScoped ==
    ASSUME Init
    PROVE  ServiceScoped
BY NoStateTyped DEF Init, InitService, ServiceScoped, Shared

-----------------------------------------------------------------------------
(* Events without temp: keys.                                              *)

NoTemp(e) == \A k \in Touches(e) : Scope[k] # "temp"

CleanCall(call) ==
    /\ \A k \in DOMAIN call.view.state : Scope[k] # "temp"
    /\ \A i \in DOMAIN call.view.events : NoTemp(call.view.events[i])
    /\ \A i \in DOMAIN call.todo : NoTemp(call.todo[i])
    /\ call.last # NoEvent => NoTemp(call.last)

Clean == \A c \in Callers : CleanCall(calls[c])

ShapesClean ==
    /\ \A shape \in Messages : \A k \in Touched(shape) : Scope[k] # "temp"
    /\ \A reply \in Replies : \A i \in DOMAIN reply : \A k \in Touched(reply[i]) : Scope[k] # "temp"

LEMMA CleanTrimmed ==
    ASSUME NEW e \in Event, NoTemp(e)
    PROVE  Trimmed(e) = e
<1>1. PICK d \in Delta : d = e.delta
  BY DEF Event
<1>2. \A k \in DOMAIN d : Scope[k] \in Shared \cup {"session"}
  <2>1. DOMAIN d \subseteq Keys
    BY DeltaElim
  <2> QED  BY <1>1, <2>1, ScopeIsTotal DEF NoTemp, Touches
<1>3. InScope(d, Shared \cup {"session"}) = [k \in DOMAIN d |-> d[k]]
  <2>1. {k \in DOMAIN d : Scope[k] \in Shared \cup {"session"}} = DOMAIN d
    BY <1>2
  <2> QED  BY <2>1 DEF InScope, Restrict
<1>4. InScope(d, Shared \cup {"session"}) = d
  BY <1>3, DeltaElim
<1>5. Trimmed(e) = [e EXCEPT !.delta = d]
  BY <1>1, <1>4 DEF Trimmed
<1> QED  BY <1>1, <1>5 DEF Event

LEMMA CleanRewind ==
    ASSUME NEW call \in Call, HasInvocation(call.view.events, call.target), CleanCall(call)
    PROVE  NoTemp(RewindEvent(call))
<1>0. PICK view \in View : view = call.view
  BY DEF Call
<1>1. PICK index \in DOMAIN view.events :
         view = call.view /\ index = RewindIndex(call.view.events, call.target)
  BY <1>0, RewindEventTyped
<1>2. PICK d \in Delta : d = StateDelta(view, index)
  BY StateDeltaTyped
<1>3. \A k \in DOMAIN d : k \in DOMAIN view.state \/ \E e \in Range(view.events) : k \in DOMAIN e.delta
  BY <1>2, StateDeltaTyped
<1>4. \A e \in Range(view.events) : NoTemp(e)
  BY <1>1 DEF CleanCall, Range
<1>5. \A k \in DOMAIN d : Scope[k] # "temp"
  BY <1>1, <1>3, <1>4 DEF CleanCall, NoTemp, Touches
<1>6. RewindEvent(call).delta = d
  BY <1>1, <1>2 DEF RewindEvent
<1> QED  BY <1>5, <1>6 DEF NoTemp, Touches

LEMMA CleanAppended ==
    ASSUME NEW s, NEW view \in View, NEW e \in Event, NoTemp(e),
           \A k \in DOMAIN view.state : Scope[k] # "temp",
           \A i \in DOMAIN view.events : NoTemp(view.events[i]),
           NEW after, after = ViewAfter(s, view, e)
    PROVE  /\ \A k \in DOMAIN after.state : Scope[k] # "temp"
           /\ \A i \in DOMAIN after.events : NoTemp(after.events[i])
<1>1. CASE AppendIgnored(s, e)
  BY <1>1, ViewAfterTyped
<1>2. CASE ~AppendIgnored(s, e)
  <2>1. after.state = Extended(view.state, e.delta) /\ after.events = Append(view.events, e)
    BY <1>2, ViewAfterTyped, CleanTrimmed
  <2>2. view.state \in Delta /\ e.delta \in Delta /\ view.events \in Seq(Event)
    BY DEF View, Event
  <2>3. DOMAIN Extended(view.state, e.delta) = DOMAIN view.state \cup DOMAIN e.delta
    BY <2>2, ExtendedTyped
  <2>4. \A k \in DOMAIN after.state : Scope[k] # "temp"
    BY <2>1, <2>3 DEF NoTemp, Touches
  <2> QED  BY <2>1, <2>2, <2>4
<1> QED  BY <1>1, <1>2

LEMMA CleanKept ==
    ASSUME TypeOK, Staged, ServiceScoped, ShapesClean, Clean, StepShape, TypeOK'
    PROVE  Clean'
<1> HIDE DEF StepShape
<1> SUFFICES ASSUME NEW c \in Callers PROVE CleanCall(calls'[c])
  BY DEF Clean, CleanCall
<1>1. PICK call \in Call : call = calls[c]
  BY DEF TypeOK
<1>2. CleanCall(call) /\ call.view \in View /\ call.todo \in Seq(Event)
  BY <1>1 DEF Clean, Call
<1>3. PICK new \in Call : new = calls'[c]
  BY DEF TypeOK
<1> SUFFICES CleanCall(new)
  BY <1>3
<1>4. CASE UNCHANGED calls[c]
  BY <1>1, <1>2, <1>3, <1>4
<1>5. CASE Beginning(c) \/ Returning(c)
  <2>1. new.view = NoView /\ new.todo = <<>> /\ new.last = NoEvent
    BY <1>3, <1>5, IdleFields DEF Beginning, Returning
  <2> QED  BY <2>1, IdleFields, NoStateTyped DEF CleanCall
<1>6. CASE Creating(c)
  <2>1. new.view.state = NoState /\ new.view.events = <<>> /\ new.todo = call.todo /\ new.last = call.last
    BY <1>1, <1>3, <1>6 DEF Creating
  <2> QED  BY <1>2, <2>1, NoStateTyped DEF CleanCall
<1>7. CASE Reading(c)
  <2>1. new.todo = call.todo /\ new.last = call.last
    BY <1>1, <1>3, <1>7 DEF Reading
  <2>2. ASSUME NEW x \in Shared, new.view.state = Extended(call.view.state, shared[x]),
               new.view.events = call.view.events
        PROVE  CleanCall(new)
    <3>1. call.view.state \in Delta /\ shared[x] \in Delta
      BY <1>2 DEF View, TypeOK, SharedTyped
    <3>2. DOMAIN Extended(call.view.state, shared[x]) = DOMAIN call.view.state \cup DOMAIN shared[x]
      BY <3>1, ExtendedTyped
    <3>3. \A k \in DOMAIN shared[x] : Scope[k] # "temp"
      BY DEF ServiceScoped, Shared
    <3> QED  BY <1>2, <2>1, <2>2, <3>2, <3>3 DEF CleanCall
  <2>3. CASE calls'[c].view = calls[c].view
    BY <1>1, <1>2, <1>3, <2>1, <2>3 DEF CleanCall
  <2>4. ASSUME NEW s \in DOMAIN sessions, new.view.state = sessions[s].state, new.view.events = sessions[s].events
        PROVE  CleanCall(new)
    BY <1>2, <2>1, <2>4 DEF CleanCall, ServiceScoped, NoTemp
  <2>5. "app" \in Shared /\ "user" \in Shared
    BY DEF Shared
  <2> QED  BY <1>1, <1>3, <1>7, <2>2, <2>3, <2>4, <2>5 DEF Reading
<1>8. CASE Planning(c)
  <2>1. new.last = call.last /\ new.view = call.view
    BY <1>1, <1>3, <1>8 DEF Planning
  <2>2. ASSUME NEW reply \in Replies, DOMAIN new.todo = DOMAIN reply,
               \A i \in DOMAIN reply : Touches(new.todo[i]) = Touched(reply[i])
        PROVE  CleanCall(new)
    BY <1>2, <2>1, <2>2 DEF CleanCall, NoTemp, ShapesClean
  <2>3. CASE HasInvocation(call.view.events, call.target) /\ new.todo = <<RewindEvent(call)>>
    BY <1>2, <2>1, <2>3, CleanRewind DEF CleanCall
  <2> QED  BY <1>1, <1>3, <1>8, <2>2, <2>3 DEF Planning
<1>9. ASSUME NEW e, Appending(c, e) PROVE CleanCall(new)
  <2>1. e \in Event /\ new.view = ViewAfter(call.sid, call.view, e)
    BY <1>1, <1>3, <1>9 DEF Appending
  <2>2. NoTemp(e)
    <3>1. CASE \E shape \in Messages : Touches(e) = Touched(shape)
      BY <3>1 DEF NoTemp, ShapesClean
    <3>2. CASE call.last # NoEvent /\ e = call.last
      BY <1>2, <3>2 DEF CleanCall
    <3>3. CASE call.todo # <<>> /\ e = Head(call.todo)
      BY <1>2, <3>3 DEF CleanCall
    <3> QED  BY <1>1, <1>9, <3>1, <3>2, <3>3 DEF Appending
  <2>3. PICK view \in View : view = call.view
    BY <1>2
  <2>4. /\ \A k \in DOMAIN new.view.state : Scope[k] # "temp"
        /\ \A i \in DOMAIN new.view.events : NoTemp(new.view.events[i])
    <3>1. PICK after : after = new.view
      OBVIOUS
    <3> QED  BY <1>2, <2>1, <2>2, <2>3, <3>1, CleanAppended DEF CleanCall
  <2>5. new.last = NoEvent \/ new.last = e
    BY <1>3, <1>9 DEF Appending
  <2>6. new.todo = call.todo \/ (call.todo # <<>> /\ new.todo = Tail(call.todo))
    BY <1>1, <1>3, <1>9 DEF Appending
  <2>7. \A i \in DOMAIN new.todo : NoTemp(new.todo[i])
    <3>1. CASE new.todo = call.todo
      BY <1>2, <3>1 DEF CleanCall
    <3>2. CASE call.todo # <<>> /\ new.todo = Tail(call.todo)
      <4>1. PICK todo \in Seq(Event) : todo = call.todo
        BY <1>2
      <4>2. \A i \in DOMAIN Tail(todo) : i + 1 \in DOMAIN todo /\ Tail(todo)[i] = todo[i + 1]
        BY <3>2, <4>1
      <4> QED  BY <1>2, <3>2, <4>1, <4>2 DEF CleanCall
    <3> QED  BY <2>6, <3>1, <3>2
  <2> QED  BY <2>2, <2>4, <2>5, <2>7 DEF CleanCall
<1> QED  BY <1>4, <1>5, <1>6, <1>7, <1>8, <1>9, CallChanges DEF Moving

-----------------------------------------------------------------------------
(* Ids of events.                                                          *)

NotStored(id) == \A s \in DOMAIN sessions : \A i \in DOMAIN sessions[s].events : sessions[s].events[i].id # id

(* What a call has still to append is not stored, and what it appended     *)
(* last is stored as it is, if at all and without temp: keys.              *)
NumberedCall(call) ==
    /\ \A i \in DOMAIN call.todo : NotStored(call.todo[i].id)
    /\ \A i, j \in DOMAIN call.todo : call.todo[i].id = call.todo[j].id => i = j
    /\ call.last # NoEvent =>
          /\ Redeliveries
          /\ \A i \in DOMAIN call.todo : call.todo[i].id # call.last.id
          /\ ShapesClean => \A s \in DOMAIN sessions : \A i \in DOMAIN sessions[s].events :
                sessions[s].events[i].id = call.last.id => sessions[s].events[i] = call.last
    /\ call.pc = "agent" =>
          /\ \A s \in DOMAIN sessions : \A i \in DOMAIN sessions[s].events :
                Inv(sessions[s].events[i]) = call.inv => sessions[s].events[i].id = <<call.inv, 1>>
          /\ call.last # NoEvent => call.last.id = <<call.inv, 1>>

Numbered == \A c \in Callers : NumberedCall(calls[c])

(* An event is in the store already or one call has just appended it.      *)
LEMMA StoredEventChanges ==
    ASSUME TypeOK, Staged, StepShape, NEW s \in DOMAIN sessions', NEW i \in DOMAIN sessions'[s].events
    PROVE  \/ s \in DOMAIN sessions /\ i \in DOMAIN sessions[s].events
              /\ sessions'[s].events[i] = sessions[s].events[i]
           \/ \E c \in Callers : \E e \in Event :
                /\ Appending(c, e) /\ Appended(s, e) /\ s = calls[c].sid
                /\ i = Len(sessions[s].events) + 1 /\ sessions'[s].events[i] = Trimmed(e)
<1>1. ASSUME NEW c \in Callers, NEW e \in Event, Appending(c, e), s = calls[c].sid, Appended(s, e)
      PROVE  \/ s \in DOMAIN sessions /\ i \in DOMAIN sessions[s].events
                /\ sessions'[s].events[i] = sessions[s].events[i]
             \/ i = Len(sessions[s].events) + 1 /\ sessions'[s].events[i] = Trimmed(e)
  <2>1. sessions[s].events \in Seq(Event) /\ s \in DOMAIN sessions
        /\ sessions'[s].events = Append(sessions[s].events, Trimmed(e))
    BY <1>1 DEF Appended, TypeOK, SessionsTyped, Session
  <2> QED  BY <2>1
<1> QED  BY <1>1, StoredChanges DEF StoredChange

LEMMA OthersStoreOthers ==
    ASSUME TypeOK, Staged, Issued, StepShape, NEW c \in Callers, calls[c].pc # "idle",
           \A e : ~Appending(c, e), NEW s \in DOMAIN sessions', NEW i \in DOMAIN sessions'[s].events,
           Inv(sessions'[s].events[i]) = calls[c].inv
    PROVE  s \in DOMAIN sessions /\ i \in DOMAIN sessions[s].events
           /\ sessions'[s].events[i] = sessions[s].events[i]
<1>1. ASSUME NEW d \in Callers, NEW e \in Event, Appending(d, e), sessions'[s].events[i] = Trimmed(e)
      PROVE  FALSE
  <2>1. Inv(Trimmed(e)) = calls[d].inv /\ calls[d].pc # "idle" /\ d # c
    BY <1>1, AppendsOwn DEF Issued, Appending
  <2> QED  BY <1>1, <2>1 DEF Issued
<1> QED  BY <1>1, StoredEventChanges

LEMMA IdsOfOwn ==
    ASSUME Issued, NEW c \in Callers
    PROVE  /\ \A i \in DOMAIN calls[c].todo : \A e : e.id = calls[c].todo[i].id => Inv(e) = calls[c].inv
           /\ calls[c].last # NoEvent => \A e : e.id = calls[c].last.id => Inv(e) = calls[c].inv
           /\ \A e, n : e.id = <<calls[c].inv, n>> => Inv(e) = calls[c].inv
BY DEF Issued, OwnIds, Inv

(* A step that is not an append of the call's own.                         *)
LEMMA NumberedByOthers ==
    ASSUME TypeOK, Staged, Issued, Numbered, StepShape, NEW c \in Callers, calls[c].pc # "idle",
           \A e : ~Appending(c, e),
           UNCHANGED <<calls[c].pc, calls[c].todo, calls[c].last, calls[c].inv>>
    PROVE  NumberedCall(calls[c])'
<1> HIDE DEF StepShape
<1>1. PICK call : call = calls[c]
  OBVIOUS
<1>2. ASSUME NEW s \in DOMAIN sessions', NEW i \in DOMAIN sessions'[s].events,
             Inv(sessions'[s].events[i]) = call.inv
      PROVE  s \in DOMAIN sessions /\ i \in DOMAIN sessions[s].events
             /\ sessions'[s].events[i] = sessions[s].events[i]
  BY <1>1, <1>2, OthersStoreOthers
<1>3. NumberedCall(call)
  BY <1>1 DEF Numbered
<1>4. /\ \A i \in DOMAIN call.todo : \A e : e.id = call.todo[i].id => Inv(e) = call.inv
      /\ call.last # NoEvent => \A e : e.id = call.last.id => Inv(e) = call.inv
  BY <1>1, IdsOfOwn
<1>5. \A i \in DOMAIN call.todo : NotStored(call.todo[i].id)'
  BY <1>2, <1>3, <1>4 DEF NumberedCall, NotStored
<1>6. ShapesClean /\ call.last # NoEvent => \A s \in DOMAIN sessions' : \A i \in DOMAIN sessions'[s].events :
          sessions'[s].events[i].id = call.last.id => sessions'[s].events[i] = call.last
  BY <1>2, <1>3, <1>4 DEF NumberedCall
<1>7. call.pc = "agent" => \A s \in DOMAIN sessions' : \A i \in DOMAIN sessions'[s].events :
          Inv(sessions'[s].events[i]) = call.inv => sessions'[s].events[i].id = <<call.inv, 1>>
  BY <1>2, <1>3 DEF NumberedCall
<1> QED  BY <1>1, <1>3, <1>5, <1>6, <1>7 DEF NumberedCall, NotStored

(* An event that is appended and kept was not stored in that session; but  *)
(* for a redelivered one, it was stored in none.                           *)
LEMMA NewId ==
    ASSUME TypeOK, Staged, Issued, Numbered, NEW c \in Callers, NEW e, Appending(c, e)
    PROVE  \/ NotStored(e.id) /\ calls[c].pc \in {"run", "append"}
              /\ (calls[c].last # NoEvent => e.id # calls[c].last.id)
           \/ calls[c].last # NoEvent /\ e = calls[c].last /\ UNCHANGED <<calls[c].pc, calls[c].todo>>
              /\ calls'[c].last = NoEvent
<1>1. CASE calls[c].pc = "run" /\ e.id = <<calls[c].inv, 1>>
  <2>1. Unheard(calls[c].inv) /\ calls[c].last = NoEvent
    BY <1>1, StageFacts DEF Issued
  <2>2. NotStored(e.id)
    BY <1>1, <2>1 DEF NotStored, Unheard, Inv
  <2> QED  BY <1>1, <2>1, <2>2
<1>2. CASE calls[c].pc = "append" /\ calls[c].todo # <<>> /\ e = Head(calls[c].todo)
  <2>1. PICK todo \in Seq(Event) : todo = calls[c].todo
    BY DEF TypeOK, Call
  <2>2. 1 \in DOMAIN todo /\ e = todo[1]
    BY <1>2, <2>1
  <2> QED  BY <1>2, <2>1, <2>2 DEF Numbered, NumberedCall
<1>3. CASE calls[c].last # NoEvent /\ e = calls[c].last /\ UNCHANGED <<calls[c].pc, calls[c].todo>>
           /\ calls'[c].last = NoEvent
  BY <1>3
<1> QED  BY <1>1, <1>2, <1>3 DEF Appending

LEMMA NumberedByOwn ==
    ASSUME TypeOK, Staged, Issued, Numbered, Redeliveries /\ ShapesClean => Clean, StepShape,
           NEW c \in Callers, NEW e, Appending(c, e), Redeliveries /\ ShapesClean => NoTemp(e)
    PROVE  NumberedCall(calls[c])'
<1> HIDE DEF StepShape
<1>1. PICK call \in Call : call = calls[c]
  BY DEF TypeOK
<1>2. call.todo \in Seq(Event) /\ e \in Event /\ NumberedCall(call) /\ call.pc # "idle"
  BY <1>1 DEF Call, Appending, Numbered
<1>3. PICK new \in Call : new = calls'[c]
  BY <1>1 DEF TypeOK, Appending
<1>4. ASSUME NEW s \in DOMAIN sessions', NEW i \in DOMAIN sessions'[s].events
      PROVE  \/ s \in DOMAIN sessions /\ i \in DOMAIN sessions[s].events
                /\ sessions'[s].events[i] = sessions[s].events[i]
             \/ sessions'[s].events[i] = Trimmed(e)
  <2>1. AppendEvent(call.sid, e)
    BY <1>1 DEF Appending
  <2>2. CASE UNCHANGED <<sessions, shared, unwritten, written>>
    BY <2>2
  <2>3. CASE Appended(call.sid, e)
    <3>1. /\ DOMAIN sessions' = DOMAIN sessions
          /\ \A t \in DOMAIN sessions \ {call.sid} : sessions'[t] = sessions[t]
          /\ sessions'[call.sid].events = Append(sessions[call.sid].events, Trimmed(e))
      BY <2>3 DEF Appended
    <3>2. sessions[s].events \in Seq(Event)
      BY <3>1 DEF TypeOK, SessionsTyped, Session
    <3>3. CASE s # call.sid
      BY <3>1, <3>3
    <3>4. CASE s = call.sid
      <4>1. PICK old \in Seq(Event) : old = sessions[s].events
        BY <3>2
      <4>2. PICK d, all : d = Trimmed(e) /\ all = Append(old, d) /\ sessions'[s].events = all
        BY <3>1, <3>4, <4>1
      <4>3. IsSeq(old) /\ Len(old) \in Nat /\ DOMAIN old = 1 .. Len(old)
        BY DEF IsSeq
      <4>4. DOMAIN all = DOMAIN old \cup {Len(old) + 1} /\ all[Len(old) + 1] = d
            /\ \A j \in DOMAIN old : all[j] = old[j]
        BY <4>2, <4>3, AppendFacts
      <4>5. CASE i \in DOMAIN old
        BY <3>1, <4>1, <4>2, <4>4, <4>5
      <4>6. CASE i \notin DOMAIN old
        BY <4>2, <4>4, <4>6
      <4> QED  BY <4>5, <4>6
    <3> QED  BY <3>3, <3>4
  <2> QED  BY <1>2, <2>1, <2>2, <2>3, AppendCases
<1>5. Trimmed(e).id = e.id /\ Inv(Trimmed(e)) = Inv(e) /\ (Redeliveries /\ ShapesClean => Trimmed(e) = e)
  BY <1>2, TrimmedTyped, CleanTrimmed DEF Inv
<1>6. Inv(e) = call.inv
  BY <1>1, AppendsOwn DEF Issued
<1>7. CASE /\ call.last # NoEvent /\ e = call.last /\ new.pc = call.pc /\ new.todo = call.todo
           /\ new.last = NoEvent /\ new.inv = call.inv
  <2>1. \A i \in DOMAIN new.todo : NotStored(new.todo[i].id)'
    BY <1>2, <1>4, <1>5, <1>7 DEF NumberedCall, NotStored
  <2>2. new.pc = "agent" => \A s \in DOMAIN sessions' : \A i \in DOMAIN sessions'[s].events :
            Inv(sessions'[s].events[i]) = new.inv => sessions'[s].events[i].id = <<new.inv, 1>>
    BY <1>2, <1>4, <1>5, <1>7 DEF NumberedCall
  <2> QED  BY <1>2, <1>3, <1>7, <2>1, <2>2 DEF NumberedCall, NotStored
<1>8. ASSUME NotStored(e.id), Redeliveries, ShapesClean
      PROVE  \A s \in DOMAIN sessions' : \A i \in DOMAIN sessions'[s].events :
                sessions'[s].events[i].id = e.id => sessions'[s].events[i] = e
  BY <1>4, <1>5, <1>8 DEF NotStored
<1>9. CASE /\ call.pc = "run" /\ new.pc = "agent" /\ new.todo = call.todo /\ new.inv = call.inv
           /\ e.id = <<call.inv, 1>> /\ new.last = IF Redeliveries THEN e ELSE NoEvent
  <2>1. Unheard(call.inv) /\ new.todo = <<>>
    BY <1>1, <1>9, StageFacts DEF Issued
  <2>2. NotStored(e.id)
    BY <1>9, <2>1 DEF NotStored, Unheard, Inv
  <2>3. \A s \in DOMAIN sessions' : \A i \in DOMAIN sessions'[s].events :
            Inv(sessions'[s].events[i]) = new.inv => sessions'[s].events[i].id = <<new.inv, 1>>
    BY <1>4, <1>5, <1>9, <2>1 DEF Unheard
  <2> QED  BY <1>3, <1>8, <1>9, <2>1, <2>2, <2>3 DEF NumberedCall, NotStored
<1>10. CASE /\ call.pc = "append" /\ new.pc = "append" /\ call.todo # <<>> /\ e = Head(call.todo)
            /\ new.todo = Tail(call.todo) /\ new.last = IF Redeliveries THEN e ELSE NoEvent
  <2>1. /\ 1 \in DOMAIN call.todo /\ e = call.todo[1]
        /\ \A i \in DOMAIN new.todo : i + 1 \in DOMAIN call.todo /\ new.todo[i] = call.todo[i + 1] /\ i + 1 # 1
    BY <1>2, <1>10
  <2>2. NotStored(e.id)
    BY <1>2, <2>1 DEF NumberedCall
  <2>3. ASSUME NEW i \in DOMAIN new.todo PROVE NotStored(new.todo[i].id)' /\ new.todo[i].id # e.id
    <3>1. NotStored(new.todo[i].id) /\ new.todo[i].id # e.id
      BY <1>2, <2>1 DEF NumberedCall
    <3> QED  BY <1>4, <1>5, <3>1 DEF NotStored
  <2>4. ASSUME NEW i \in DOMAIN new.todo, NEW j \in DOMAIN new.todo, new.todo[i].id = new.todo[j].id
        PROVE  i = j
    <3>1. i + 1 = j + 1
      BY <1>2, <2>1, <2>4 DEF NumberedCall
    <3>2. i \in Int /\ j \in Int
      BY <1>2, <1>10
    <3> QED  BY <3>1, <3>2
  <2> QED  BY <1>3, <1>8, <1>10, <2>2, <2>3, <2>4 DEF NumberedCall, NotStored
<1> QED  BY <1>1, <1>3, <1>7, <1>9, <1>10 DEF Appending

LEMMA NumberedByPlan ==
    ASSUME TypeOK, Staged, Issued, Numbered, NEW c \in Callers, Planning(c)
    PROVE  NumberedCall(calls[c])'
<1>1. PICK call \in Call : call = calls[c]
  BY DEF TypeOK
<1>2. PICK new : new = calls'[c]
  OBVIOUS
<1>3. /\ new.pc = "append" /\ new.inv = call.inv /\ new.last = call.last /\ UNCHANGED sessions
      /\ NumberedCall(call) /\ call.inv \in Nat
  BY <1>1, <1>2 DEF Planning, Numbered, Call
<1>4. ASSUME \A s \in DOMAIN sessions : \A i \in DOMAIN sessions[s].events :
                Inv(sessions[s].events[i]) = call.inv => sessions[s].events[i].id = <<call.inv, 1>>,
             call.last # NoEvent => call.last.id = <<call.inv, 1>>,
             \A i \in DOMAIN new.todo : i \in Nat /\ new.todo[i].id = <<call.inv, i + 1>> /\ i + 1 # 1
      PROVE  NumberedCall(calls[c])'
  <2>1. \A i \in DOMAIN new.todo : NotStored(new.todo[i].id)'
    BY <1>3, <1>4 DEF NotStored, Inv
  <2>2. \A i, j \in DOMAIN new.todo : new.todo[i].id = new.todo[j].id => i = j
    BY <1>4
  <2>3. call.last # NoEvent => \A i \in DOMAIN new.todo : new.todo[i].id # call.last.id
    BY <1>4
  <2> QED  BY <1>2, <1>3, <2>1, <2>2, <2>3 DEF NumberedCall, NotStored
<1>5. ASSUME NEW reply \in Replies, call.pc = "agent", DOMAIN new.todo = DOMAIN reply,
             \A i \in DOMAIN reply : new.todo[i].id = <<call.inv, i + 1>>
      PROVE  NumberedCall(calls[c])'
  <2>1. \A i \in DOMAIN reply : i \in Nat /\ i + 1 # 1
    <3>1. reply \in Seq(Shape)
      BY RunnerConstants
    <3> QED  BY <3>1
  <2> QED  BY <1>3, <1>4, <1>5, <2>1 DEF NumberedCall
<1>6. CASE call.pc = "rewind" /\ new.todo = <<RewindEvent(call)>>
  <2>1. Unheard(call.inv) /\ call.last = NoEvent
    BY <1>1, <1>6, StageFacts DEF Issued
  <2>2. RewindEvent(call).id = <<call.inv, 1>>
    BY DEF RewindEvent
  <2>3. \A i \in DOMAIN new.todo : NotStored(new.todo[i].id)'
    BY <1>3, <1>6, <2>1, <2>2 DEF NotStored, Unheard, Inv
  <2>4. \A i, j \in DOMAIN new.todo : i = j
    BY <1>6
  <2> QED  BY <1>2, <1>3, <2>1, <2>3, <2>4 DEF NumberedCall, NotStored
<1> QED  BY <1>1, <1>2, <1>5, <1>6 DEF Planning

LEMMA NumberedKept ==
    ASSUME TypeOK, Staged, Issued, Numbered, Redeliveries /\ ShapesClean => Clean, StepShape,
           TypeOK', Staged'
    PROVE  Numbered'
<1> HIDE DEF StepShape
<1> SUFFICES ASSUME NEW c \in Callers PROVE NumberedCall(calls[c])'
  BY DEF Numbered, NumberedCall, NotStored
<1>1. CASE calls'[c].todo = <<>> /\ calls'[c].last = NoEvent /\ calls'[c].pc # "agent"
  BY <1>1 DEF NumberedCall
<1>2. ASSUME NEW e, Appending(c, e) PROVE NumberedCall(calls[c])'
  <2>1. Redeliveries /\ ShapesClean => NoTemp(e)
    <3>1. CASE \E shape \in Messages : Touches(e) = Touched(shape)
      BY <3>1 DEF NoTemp, ShapesClean
    <3>2. CASE calls[c].last # NoEvent /\ e = calls[c].last
      BY <3>2 DEF Clean, CleanCall
    <3>3. CASE calls[c].todo # <<>> /\ e = Head(calls[c].todo)
      <4>1. calls[c].todo \in Seq(Event)
        BY DEF TypeOK, Call
      <4> QED  BY <3>3, <4>1 DEF Clean, CleanCall
    <3> QED  BY <1>2, <3>1, <3>2, <3>3 DEF Appending
  <2> QED  BY <1>2, <2>1, NumberedByOwn
<1>3. CASE Beginning(c) \/ Returning(c) \/ Reading(c) \/ Creating(c)
  <2>1. CASE Beginning(c) \/ Returning(c)
    BY <1>1, <2>1, IdleFields DEF Beginning, Returning
  <2>2. CASE Reading(c) \/ Creating(c)
    BY <1>1, <2>2, StageFacts DEF Reading, Creating
  <2> QED  BY <1>3, <2>1, <2>2
<1>4. CASE UNCHANGED calls[c]
  <2>1. CASE calls[c] = Idle
    BY <1>1, <1>4, <2>1, IdleFields
  <2>2. CASE calls[c].pc # "idle" /\ \A e : ~Appending(c, e)
    <3>1. NumberedCall(calls[c])'
      BY <1>4, <2>2, NumberedByOthers
    <3> QED  BY <3>1
  <2> QED  BY <1>2, <2>1, <2>2, IdleFacts
<1>5. CASE Planning(c)
  BY <1>5, NumberedByPlan
<1> QED  BY <1>2, <1>3, <1>4, <1>5, CallChanges DEF Moving

LEMMA StoredOnceKept ==
    ASSUME TypeOK, Staged, Issued, Numbered, Redeliveries => ShapesClean, StepShape, StoredOnce
    PROVE  StoredOnce'
<1> HIDE DEF StepShape
<1> SUFFICES ASSUME NEW s \in DOMAIN sessions',
                    NEW i \in DOMAIN sessions'[s].events, NEW j \in DOMAIN sessions'[s].events,
                    sessions'[s].events[i].id = sessions'[s].events[j].id
             PROVE  i = j
  BY DEF StoredOnce
<1> DEFINE Old(h) == s \in DOMAIN sessions /\ h \in DOMAIN sessions[s].events
                     /\ sessions'[s].events[h] = sessions[s].events[h]
           New(h) == \E c \in Callers : \E e \in Event :
                        /\ Appending(c, e) /\ Appended(s, e) /\ s = calls[c].sid
                        /\ h = Len(sessions[s].events) + 1 /\ sessions'[s].events[h] = Trimmed(e)
<1>1. (Old(i) \/ New(i)) /\ (Old(j) \/ New(j))
  BY StoredEventChanges
<1>2. ASSUME NEW h \in DOMAIN sessions'[s].events, NEW g \in DOMAIN sessions'[s].events, Old(h), New(g)
      PROVE  sessions'[s].events[h].id # sessions'[s].events[g].id
  <2>1. PICK c \in Callers, e \in Event :
           Appending(c, e) /\ Appended(s, e) /\ s = calls[c].sid /\ sessions'[s].events[g] = Trimmed(e)
    BY <1>2
  <2>2. Trimmed(e).id = e.id
    BY TrimmedTyped
  <2>3. CASE NotStored(e.id)
    BY <1>2, <2>1, <2>2, <2>3 DEF NotStored
  <2>4. CASE calls[c].last # NoEvent /\ e = calls[c].last
    <3>1. sessions[s].events[h].id = e.id => sessions[s].events[h] = e
      BY <1>2, <2>4 DEF Numbered, NumberedCall
    <3>2. e \notin Range(sessions[s].events)
      BY <2>1 DEF Appended, IsStored
    <3> QED  BY <1>2, <2>1, <2>2, <3>1, <3>2 DEF Range
  <2> QED  BY <2>1, <2>3, <2>4, NewId
<1>3. CASE Old(i) /\ Old(j)
  BY <1>3 DEF StoredOnce
<1> QED  BY <1>1, <1>2, <1>3

(* An event without temp: keys is stored once, however often it is         *)
(* delivered and whatever happens to its session in between; one with      *)
(* temp: keys if it is delivered once.  append_event compares the event    *)
(* with the stored copies, which have lost their temp: keys, so the        *)
(* premise is needed.                                                      *)
THEOREM DeliveredStoredOnce ==
    ASSUME Redeliveries => ShapesClean
    PROVE  Spec => []StoredOnce
<1> DEFINE Inv1 == /\ TypeOK /\ Staged /\ Issued /\ ServiceScoped /\ Numbered
                   /\ (Redeliveries => Clean) /\ StoredOnce
<1>1. Init => Inv1
  <2> SUFFICES ASSUME Init PROVE Inv1
    OBVIOUS
  <2>1. sessions = <<>> /\ \A c \in Callers : calls[c] = Idle
    BY DEF Init, InitService
  <2>2. Clean /\ StoredOnce /\ Numbered
    BY <2>1, IdleFields, NoStateTyped DEF Clean, CleanCall, StoredOnce, Numbered, NumberedCall, NotStored
  <2> QED  BY <2>2, InitTyped, InitIssued, InitScoped
<1>2. Inv1 /\ [Next]_vars => Inv1'
  <2> SUFFICES ASSUME Inv1, [Next]_vars PROVE Inv1'
    OBVIOUS
  <2>1. StepShape /\ TypeOK' /\ Staged'
    BY Typed
  <2>2. Issued' /\ ServiceScoped'
    BY <2>1, IssuedKept, ScopedKept
  <2>3. Redeliveries => Clean'
    BY <2>1, CleanKept
  <2>4. Numbered'
    BY <2>1, <2>3, NumberedKept
  <2>5. StoredOnce'
    BY <2>1, StoredOnceKept
  <2> QED  BY <2>1, <2>2, <2>3, <2>4, <2>5
<1>3. Inv1 => StoredOnce
  OBVIOUS
<1> HIDE DEF Inv1
<1> QED  BY <1>1, <1>2, <1>3, PTL DEF Spec

-----------------------------------------------------------------------------
(* Writes of the shared state.                                             *)

At(w, i, k, v) == i \in DOMAIN w /\ k \in DOMAIN w[i] /\ w[i][k] = v

(* Value v was written to k at p or later; at p or before; at some position*)
(* that is not before one of u.                                            *)
Since(w, k, v, p) == \E i \in DOMAIN w : At(w, i, k, v) /\ p <= i
Until(w, k, v, p) == \E j \in DOMAIN w : At(w, j, k, v) /\ j <= p
NotBefore(w, k, v, u) == \E i, j \in DOMAIN w : At(w, i, k, v) /\ At(w, j, k, u) /\ j <= i

LEMMA WrittenMore ==
    ASSUME NEW w \in Seq(Delta), NEW d \in Delta, NEW k, NEW v, NEW u, NEW p
    PROVE  /\ \A i : At(w, i, k, v) => At(Append(w, d), i, k, v)
           /\ Since(w, k, v, p) => Since(Append(w, d), k, v, p)
           /\ Until(w, k, v, p) => Until(Append(w, d), k, v, p)
           /\ NotBefore(w, k, v, u) => NotBefore(Append(w, d), k, v, u)
<1> DEFINE more == Append(w, d)
<1>1. \A i \in DOMAIN w : i \in DOMAIN more /\ more[i] = w[i]
  OBVIOUS
<1> HIDE DEF more
<1>2. \A x, i : At(w, i, k, x) => At(more, i, k, x)
  BY <1>1 DEF At
<1> QED  BY <1>1, <1>2 DEF Since, Until, NotBefore, more

LEMMA WrittenLast ==
    ASSUME NEW w \in Seq(Delta), NEW d \in Delta, NEW k \in DOMAIN d
    PROVE  /\ At(Append(w, d), Len(w) + 1, k, d[k])
           /\ \A p \in 1 .. Len(w) + 1 : Since(Append(w, d), k, d[k], p)
           /\ Until(Append(w, d), k, d[k], Len(w) + 1)
           /\ NotBefore(Append(w, d), k, d[k], d[k])
           /\ \A u : Until(w, k, u, Len(w)) => NotBefore(Append(w, d), k, d[k], u)
<1> DEFINE more == Append(w, d)
<1>1. /\ DOMAIN more = 1 .. Len(w) + 1 /\ DOMAIN w = 1 .. Len(w) /\ Len(w) \in Nat
      /\ more[Len(w) + 1] = d /\ \A i \in DOMAIN w : more[i] = w[i]
  OBVIOUS
<1> HIDE DEF more
<1>2. At(more, Len(w) + 1, k, d[k])
  BY <1>1 DEF At
<1>3. (\A p \in 1 .. Len(w) + 1 : Since(more, k, d[k], p)) /\ Until(more, k, d[k], Len(w) + 1)
  BY <1>1, <1>2 DEF Since, Until
<1>4. NotBefore(more, k, d[k], d[k])
  BY <1>1, <1>2 DEF NotBefore
<1>5. ASSUME NEW u, Until(w, k, u, Len(w)) PROVE NotBefore(more, k, d[k], u)
  <2>1. PICK j \in DOMAIN w : At(w, j, k, u)
    BY <1>5 DEF Until
  <2>2. At(more, j, k, u) /\ j \in DOMAIN more /\ j <= Len(w) + 1
    BY <1>1, <2>1 DEF At
  <2> QED  BY <1>1, <1>2, <2>2 DEF NotBefore
<1> QED  BY <1>2, <1>3, <1>4, <1>5 DEF more

(* The writes that have reached the map of a scope.                        *)
Covered(x) == IF x = "user" /\ ~Unlocked THEN Len(written) - 1 ELSE Len(written)

SharedHistory ==
    /\ \A k \in Keys : Scope[k] \in Shared =>
          \A p \in 1 .. Covered(Scope[k]) : k \in DOMAIN written[p] =>
              k \in DOMAIN shared[Scope[k]] /\ Since(written, k, shared[Scope[k]][k], p)
    /\ ~Unlocked =>
          /\ written # <<>>
          /\ \A k \in Keys : Scope[k] = "user" =>
                /\ k \in DOMAIN unwritten <=> k \in DOMAIN written[Len(written)]
                /\ k \in DOMAIN unwritten => unwritten[k] = written[Len(written)][k]

LEMMA WriteUserHistory ==
    ASSUME TypeOK, SharedHistory, ServiceScoped, WriteUserState
    PROVE  SharedHistory' /\ UNCHANGED written /\ \A x \in Shared : Covered(x) <= Covered(x)'
<1>1. /\ shared["user"] \in Delta /\ unwritten \in Delta /\ written \in Seq(Delta)
      /\ shared \in [Shared -> Delta] /\ "user" \in Shared /\ "app" \in Shared
      /\ \A x \in Shared : x = "app" \/ x = "user"
  BY DEF TypeOK, SharedTyped, Shared
<1>2. ~Unlocked /\ Unlocked' /\ written' = written
      /\ shared' = [shared EXCEPT !["user"] = Extended(shared["user"], unwritten)]
  BY DEF WriteUserState, Unlocked
<1>3. LET f == Extended(shared["user"], unwritten)
      IN  /\ f \in Delta
          /\ DOMAIN f = DOMAIN shared["user"] \cup DOMAIN unwritten
          /\ \A k \in DOMAIN unwritten : f[k] = unwritten[k]
          /\ \A k \in DOMAIN shared["user"] \ DOMAIN unwritten : f[k] = shared["user"][k]
  BY <1>1, ExtendedTyped
<1>4. PICK after \in Delta :
         /\ after = Extended(shared["user"], unwritten)
         /\ DOMAIN after = DOMAIN shared["user"] \cup DOMAIN unwritten
         /\ \A k \in DOMAIN unwritten : after[k] = unwritten[k]
         /\ \A k \in DOMAIN shared["user"] \ DOMAIN unwritten : after[k] = shared["user"][k]
  BY <1>3
<1>5. shared'["user"] = after /\ shared'["app"] = shared["app"]
  BY <1>1, <1>2, <1>4
<1>6. Len(written) \in Nat /\ Len(written) >= 1 /\ DOMAIN written = 1 .. Len(written)
      /\ Covered("user") = Len(written) - 1 /\ Covered("app") = Len(written)
      /\ Covered("user")' = Len(written) /\ Covered("app")' = Len(written)
  BY <1>1, <1>2 DEF SharedHistory, Covered
<1>7. ASSUME NEW k \in Keys, Scope[k] = "user", NEW p \in 1 .. Len(written), k \in DOMAIN written[p]
      PROVE  k \in DOMAIN after /\ Since(written, k, after[k], p)
  <2>1. CASE k \in DOMAIN unwritten
    <3>1. At(written, Len(written), k, after[k])
      BY <1>2, <1>4, <1>6, <1>7, <2>1 DEF SharedHistory, At
    <3> QED  BY <1>4, <1>6, <2>1, <3>1 DEF Since
  <2>2. CASE k \notin DOMAIN unwritten
    <3>1. p # Len(written)
      BY <1>2, <1>7, <2>2 DEF SharedHistory
    <3>2. p \in 1 .. Covered(Scope[k])
      BY <1>6, <1>7, <3>1
    <3>3. k \in DOMAIN shared[Scope[k]] /\ Since(written, k, shared[Scope[k]][k], p)
      BY <1>1, <1>7, <3>2 DEF SharedHistory
    <3> QED  BY <1>4, <1>7, <2>2, <3>3
  <2> QED  BY <2>1, <2>2
<1>8. ASSUME NEW k \in Keys, Scope[k] = "app", NEW p \in 1 .. Len(written), k \in DOMAIN written[p]
      PROVE  k \in DOMAIN shared["app"] /\ Since(written, k, shared["app"][k], p)
  BY <1>1, <1>6, <1>8 DEF SharedHistory
<1>9. ASSUME NEW k \in Keys, Scope[k] \in Shared, NEW p \in 1 .. Len(written), k \in DOMAIN written[p]
      PROVE  k \in DOMAIN shared'[Scope[k]] /\ Since(written', k, shared'[Scope[k]][k], p)
  BY <1>1, <1>2, <1>5, <1>7, <1>8, <1>9
<1>10. \A k \in Keys : Scope[k] \in Shared =>
          \A p \in 1 .. Covered(Scope[k])' : k \in DOMAIN written'[p] =>
              k \in DOMAIN shared'[Scope[k]] /\ Since(written', k, shared'[Scope[k]][k], p)
  BY <1>1, <1>2, <1>6, <1>9
<1>11. SharedHistory'
  BY <1>2, <1>10 DEF SharedHistory, Since, At
<1> QED  BY <1>1, <1>2, <1>6, <1>11

LEMMA ApplySharedHistory ==
    ASSUME TypeOK, SharedHistory, ServiceScoped, Unlocked, NEW d \in Delta, ApplySharedDelta(d)
    PROVE  SharedHistory' /\ \A x \in Shared : Covered(x) <= Covered(x)'
<1>1. /\ shared["app"] \in Delta /\ written \in Seq(Delta)
      /\ shared \in [Shared -> Delta] /\ "user" \in Shared /\ "app" \in Shared
      /\ \A x \in Shared : x = "app" \/ x = "user"
  BY DEF TypeOK, SharedTyped, Shared
<1>2. PICK app \in Delta, user \in Delta, both \in Delta :
         app = InScope(d, {"app"}) /\ user = InScope(d, {"user"}) /\ both = InScope(d, Shared)
  BY InScopeTyped
<1>3. /\ DOMAIN app = {k \in DOMAIN d : Scope[k] \in {"app"}} /\ \A k \in DOMAIN app : app[k] = d[k]
      /\ DOMAIN user = {k \in DOMAIN d : Scope[k] \in {"user"}} /\ \A k \in DOMAIN user : user[k] = d[k]
      /\ DOMAIN both = {k \in DOMAIN d : Scope[k] \in Shared} /\ \A k \in DOMAIN both : both[k] = d[k]
  BY <1>2, InScopeTyped, ZenonT(60)
<1>4. LET f == Extended(shared["app"], app)
      IN  /\ f \in Delta
          /\ DOMAIN f = DOMAIN shared["app"] \cup DOMAIN app
          /\ \A k \in DOMAIN app : f[k] = app[k]
          /\ \A k \in DOMAIN shared["app"] \ DOMAIN app : f[k] = shared["app"][k]
  BY <1>1, ExtendedTyped
<1>5. PICK after \in Delta :
         /\ after = Extended(shared["app"], app)
         /\ DOMAIN after = DOMAIN shared["app"] \cup DOMAIN app
         /\ \A k \in DOMAIN app : after[k] = app[k]
         /\ \A k \in DOMAIN shared["app"] \ DOMAIN app : after[k] = shared["app"][k]
  BY <1>4
<1>6. shared' = [shared EXCEPT !["app"] = after] /\ unwritten' = user /\ written' = Append(written, both)
  BY <1>2, <1>5 DEF ApplySharedDelta
<1>7. shared'["app"] = after /\ shared'["user"] = shared["user"]
  BY <1>1, <1>6
<1>8. PICK w \in Seq(Delta) : w = Append(written, both)
  <2>1. Append(written, both) \in Seq(Delta)
    BY <1>1
  <2> QED  BY <2>1
<1>9. /\ written' = w /\ Len(written) \in Nat /\ Len(w) = Len(written) + 1
      /\ w[Len(written) + 1] = both /\ \A p \in 1 .. Len(written) : w[p] = written[p]
      /\ w # <<>>
  BY <1>1, <1>6, <1>8
<1>10. /\ Covered("app") = Len(written) /\ Covered("user") = Len(written)
       /\ Covered("app")' = Len(written) + 1
       /\ Covered("user")' = IF user = NoState THEN Len(written) + 1 ELSE Len(written)
  BY <1>6, <1>9 DEF Covered, Unlocked
<1>11. \A k, v, p : Since(written, k, v, p) => Since(w, k, v, p)
  BY <1>1, <1>8, WrittenMore
<1>12. ASSUME NEW k \in Keys, Scope[k] = "app", NEW p \in 1 .. Len(written) + 1, k \in DOMAIN w[p]
       PROVE  k \in DOMAIN after /\ Since(w, k, after[k], p)
  <2>1. CASE k \in DOMAIN app
    <3>1. k \in DOMAIN both /\ after[k] = both[k]
      BY <1>1, <1>3, <1>5, <1>12, <2>1
    <3> QED  BY <1>1, <1>5, <1>8, <2>1, <3>1, WrittenLast
  <2>2. CASE k \notin DOMAIN app
    <3>1. p \in 1 .. Len(written) /\ k \in DOMAIN written[p]
      BY <1>3, <1>9, <1>12, <2>2
    <3>2. k \in DOMAIN shared["app"] /\ Since(written, k, shared["app"][k], p)
      BY <1>1, <1>10, <1>12, <3>1 DEF SharedHistory
    <3> QED  BY <1>5, <1>11, <2>2, <3>2
  <2> QED  BY <2>1, <2>2
<1>13. ASSUME NEW k \in Keys, Scope[k] = "user", NEW p \in 1 .. Covered("user")', k \in DOMAIN w[p]
       PROVE  k \in DOMAIN shared["user"] /\ Since(w, k, shared["user"][k], p)
  <2>1. p \in 1 .. Len(written)
    <3>1. CASE p = Len(written) + 1
      <4>1. user = NoState /\ k \in DOMAIN d
        BY <1>3, <1>9, <1>10, <1>13, <3>1
      <4>2. k \in DOMAIN user
        BY <1>3, <1>13, <4>1
      <4> QED  BY <4>1, <4>2, NoStateTyped
    <3> QED  BY <1>9, <1>10, <1>13, <3>1
  <2>2. k \in DOMAIN shared["user"] /\ Since(written, k, shared["user"][k], p)
    BY <1>1, <1>9, <1>10, <1>13, <2>1 DEF SharedHistory
  <2> QED  BY <1>11, <2>2
<1>14. \A k \in Keys : Scope[k] \in Shared =>
          \A p \in 1 .. Covered(Scope[k])' : k \in DOMAIN written'[p] =>
              k \in DOMAIN shared'[Scope[k]] /\ Since(written', k, shared'[Scope[k]][k], p)
  BY <1>1, <1>7, <1>9, <1>10, <1>12, <1>13
<1>15. \A k \in Keys : Scope[k] = "user" =>
            /\ k \in DOMAIN unwritten' <=> k \in DOMAIN written'[Len(written')]
            /\ k \in DOMAIN unwritten' => unwritten'[k] = written'[Len(written')][k]
  BY <1>1, <1>3, <1>6, <1>9
<1>16. SharedHistory'
  BY <1>9, <1>14, <1>15 DEF SharedHistory
<1> QED  BY <1>1, <1>9, <1>10, <1>16

LEMMA HistoryKept ==
    ASSUME TypeOK, Staged, SharedHistory, ServiceScoped, StepShape
    PROVE  /\ SharedHistory' /\ \A x \in Shared : Covered(x) <= Covered(x)'
           /\ written' = written \/ \E d \in Delta : written' = Append(written, d)
<1>1. CASE UNCHANGED <<shared, unwritten, written>>
  <2>1. \A x \in Shared : Covered(x) \in Int
    BY DEF Covered, TypeOK, SharedTyped
  <2>2. \A x \in Shared : Covered(x)' = Covered(x)
    BY <1>1 DEF Covered, Unlocked
  <2>3. SharedHistory'
    BY <1>1 DEF SharedHistory, Covered, Unlocked
  <2> QED  BY <1>1, <2>1, <2>2, <2>3
<1>2. CASE WriteUserState
  BY <1>2, WriteUserHistory
<1>3. ASSUME NEW d \in Delta, ApplySharedDelta(d), Unlocked
      PROVE  /\ SharedHistory' /\ \A x \in Shared : Covered(x) <= Covered(x)'
             /\ \E f \in Delta : written' = Append(written, f)
  <2>1. InScope(d, Shared) \in Delta /\ written' = Append(written, InScope(d, Shared))
    BY <1>3, InScopeTyped DEF ApplySharedDelta
  <2> QED  BY <1>3, <2>1, ApplySharedHistory
<1> QED  BY <1>1, <1>2, <1>3, SharedChanges DEF SharedChange

(* The shared writes of the stored events are in the history ...           *)
EventWritten(e) == \A k \in Touches(e) : Scope[k] \in Shared => Until(written, k, e.delta[k], Len(written))

StoredWritten == \A s \in DOMAIN sessions : \A i \in DOMAIN sessions[s].events :
                     EventWritten(sessions[s].events[i])

(* ... and a copy has read what its events wrote, or has still to read it. *)
Pending(call, x) == call.pc = "read" /\ (x = "user" \/ call.read <= 2)

ShownIn(call, k, v) ==
    IF Pending(call, Scope[k]) THEN Until(written, k, v, Covered(Scope[k]))
    ELSE k \in DOMAIN call.view.state /\ NotBefore(written, k, call.view.state[k], v)

CallShows(call) ==
    \A i \in DOMAIN call.view.events : \A k \in Touches(call.view.events[i]) :
        Scope[k] \in Shared => ShownIn(call, k, call.view.events[i].delta[k])

Shown == \A c \in Callers : CallShows(calls[c])

LEMMA LenGrows ==
    ASSUME TypeOK, TypeOK', written' = written \/ \E d \in Delta : written' = Append(written, d)
    PROVE  /\ Len(written) \in Nat /\ Len(written') \in Nat /\ Len(written) <= Len(written')
           /\ \A k, v, p, q : Until(written, k, v, p) /\ p \in Int /\ q \in Int /\ p <= q
                                 => Until(written', k, v, q)
           /\ \A k, v, u : NotBefore(written, k, v, u) => NotBefore(written', k, v, u)
<1>1. written \in Seq(Delta)
  BY DEF TypeOK, SharedTyped
<1>2. ASSUME NEW k, NEW v, NEW p \in Int, NEW q \in Int, Until(written, k, v, p), p <= q
      PROVE  Until(written', k, v, q)
  <2>1. Until(written, k, v, q)
    <3>1. DOMAIN written \subseteq Int
      BY <1>1
    <3> QED  BY <1>2, <3>1 DEF Until
  <2>2. CASE written' = written
    BY <2>1, <2>2
  <2>3. ASSUME NEW d \in Delta, written' = Append(written, d) PROVE Until(written', k, v, q)
    <3>1. PICK w \in Seq(Delta) : w = written
      BY <1>1
    <3> QED  BY <2>1, <2>3, <3>1, WrittenMore
  <2> QED  BY <2>2, <2>3
<1>3. ASSUME NEW k, NEW v, NEW u, NotBefore(written, k, v, u) PROVE NotBefore(written', k, v, u)
  <2>1. PICK w \in Seq(Delta) : w = written
    BY <1>1
  <2> QED  BY <1>3, <2>1, WrittenMore
<1>4. Len(written) \in Nat /\ Len(written') \in Nat /\ Len(written) <= Len(written')
  BY <1>1
<1> QED  BY <1>2, <1>3, <1>4

(* What append_event writes for an event it keeps.                         *)
LEMMA AppendedWritten ==
    ASSUME TypeOK, NEW s, NEW e \in Event, Appended(s, e), NEW k \in Touches(e), Scope[k] \in Shared
    PROVE  /\ Until(written', k, e.delta[k], Len(written'))
           /\ NotBefore(written', k, e.delta[k], e.delta[k])
           /\ \A u : Until(written, k, u, Len(written)) => NotBefore(written', k, e.delta[k], u)
<1>1. PICK w \in Seq(Delta) : w = written
  BY DEF TypeOK, SharedTyped
<1>2. PICK d \in Delta : d = e.delta
  BY DEF Event
<1>3. InScope(d, Shared) \in Delta /\ k \in DOMAIN InScope(d, Shared) /\ InScope(d, Shared)[k] = d[k]
  <2>1. /\ InScope(d, Shared) \in Delta /\ DOMAIN InScope(d, Shared) = {h \in DOMAIN d : Scope[h] \in Shared}
        /\ \A h \in DOMAIN InScope(d, Shared) : InScope(d, Shared)[h] = d[h]
    BY InScopeTyped
  <2> QED  BY <1>2, <2>1 DEF Touches
<1>4. PICK both \in Delta : both = InScope(d, Shared) /\ k \in DOMAIN both /\ both[k] = d[k]
  BY <1>3
<1>5. written' = Append(w, both) /\ Len(written') = Len(w) + 1
  BY <1>1, <1>2, <1>4 DEF Appended, ApplySharedDelta
<1> QED  BY <1>1, <1>2, <1>4, <1>5, WrittenLast

LEMMA TrimmedKeeps ==
    ASSUME NEW e \in Event, NEW k \in Touches(Trimmed(e))
    PROVE  k \in Touches(e) /\ Trimmed(e).delta[k] = e.delta[k]
<1>1. PICK f \in Event : f = Trimmed(e)
  BY TrimmedTyped
<1>2. PICK d \in Delta : d = e.delta
  BY DEF Event
<1>3. f.delta = InScope(d, Shared \cup {"session"})
  BY <1>1, <1>2, TrimmedTyped
<1>4. k \in DOMAIN InScope(d, Shared \cup {"session"})
  BY <1>1, <1>3 DEF Touches
<1>5. k \in DOMAIN d /\ InScope(d, Shared \cup {"session"})[k] = d[k]
  <2>1. /\ DOMAIN InScope(d, Shared \cup {"session"}) = {h \in DOMAIN d : Scope[h] \in Shared \cup {"session"}}
        /\ \A h \in DOMAIN InScope(d, Shared \cup {"session"}) : InScope(d, Shared \cup {"session"})[h] = d[h]
    BY InScopeTyped
  <2> QED  BY <1>4, <2>1
<1> QED  BY <1>1, <1>2, <1>3, <1>5 DEF Touches

LEMMA StoredWrittenKept ==
    ASSUME TypeOK, Staged, SharedHistory, ServiceScoped, StoredWritten, StepShape, TypeOK'
    PROVE  StoredWritten'
<1>1. written' = written \/ \E d \in Delta : written' = Append(written, d)
  BY HistoryKept
<1> HIDE DEF StepShape
<1> SUFFICES ASSUME NEW s \in DOMAIN sessions', NEW i \in DOMAIN sessions'[s].events,
                    NEW k \in Touches(sessions'[s].events[i]), Scope[k] \in Shared
             PROVE  Until(written', k, sessions'[s].events[i].delta[k], Len(written'))
  BY DEF StoredWritten, EventWritten, Touches, Until, At
<1>2. CASE /\ s \in DOMAIN sessions /\ i \in DOMAIN sessions[s].events
           /\ sessions'[s].events[i] = sessions[s].events[i]
  <2>1. Until(written, k, sessions[s].events[i].delta[k], Len(written))
    BY <1>2 DEF StoredWritten, EventWritten
  <2> QED  BY <1>1, <1>2, <2>1, LenGrows
<1>3. ASSUME NEW e \in Event, Appended(s, e), sessions'[s].events[i] = Trimmed(e)
      PROVE  Until(written', k, sessions'[s].events[i].delta[k], Len(written'))
  <2>1. k \in Touches(e) /\ Trimmed(e).delta[k] = e.delta[k]
    BY <1>3, TrimmedKeeps
  <2>2. Until(written', k, e.delta[k], Len(written'))
    BY <1>3, <2>1, AppendedWritten
  <2> QED  BY <1>3, <2>1, <2>2
<1> QED  BY <1>2, <1>3, StoredEventChanges

(* A call's copy after an append of its own.                               *)
LEMMA ShownAppended ==
    ASSUME TypeOK, Staged, Shown, StepShape, SharedHistory, ServiceScoped, TypeOK',
           NEW c \in Callers, NEW e, Appending(c, e)
    PROVE  CallShows(calls[c])'
<1>1. written' = written \/ \E d \in Delta : written' = Append(written, d)
  BY HistoryKept
<1> HIDE DEF StepShape
<1>2. PICK call \in Call : call = calls[c]
  BY DEF TypeOK
<1>3. PICK new \in Call : new = calls'[c]
  BY DEF TypeOK
<1>4. /\ e \in Event /\ call.view \in View /\ AppendEvent(call.sid, e) /\ call.pc # "read" /\ new.pc # "read"
      /\ new.view = ViewAfter(call.sid, call.view, e)
  BY <1>2, <1>3, StageFacts DEF Appending, Call
<1> SUFFICES ASSUME NEW i \in DOMAIN new.view.events, NEW k \in Touches(new.view.events[i]), Scope[k] \in Shared
             PROVE  k \in DOMAIN new.view.state
                    /\ NotBefore(written', k, new.view.state[k], new.view.events[i].delta[k])
  BY <1>3, <1>4 DEF CallShows, ShownIn, Pending, NotBefore, At
<1>5. PICK view \in View, after \in View : view = call.view /\ after = new.view
  <2>1. new.view \in View
    BY DEF Call
  <2> QED  BY <1>4, <2>1
<1>6. \A j \in DOMAIN view.events : k \in Touches(view.events[j]) =>
         /\ k \in DOMAIN view.state /\ NotBefore(written, k, view.state[k], view.events[j].delta[k])
         /\ Until(written, k, view.events[j].delta[k], Len(written))
  <2> SUFFICES ASSUME NEW j \in DOMAIN view.events, k \in Touches(view.events[j])
               PROVE  /\ k \in DOMAIN view.state /\ NotBefore(written, k, view.state[k], view.events[j].delta[k])
                      /\ Until(written, k, view.events[j].delta[k], Len(written))
    OBVIOUS
  <2>1. k \in DOMAIN view.state /\ NotBefore(written, k, view.state[k], view.events[j].delta[k])
    BY <1>2, <1>4, <1>5 DEF Shown, CallShows, ShownIn, Pending
  <2>2. Until(written, k, view.events[j].delta[k], Len(written))
    <3>1. written \in Seq(Delta)
      BY DEF TypeOK, SharedTyped
    <3>2. \A q \in DOMAIN written : q <= Len(written)
      BY <3>1
    <3> QED  BY <2>1, <3>2 DEF NotBefore, Until
  <2> QED  BY <2>1, <2>2
<1>7. CASE AppendIgnored(call.sid, e) /\ UNCHANGED <<sessions, shared, unwritten, written>>
  <2>1. after = view
    BY <1>4, <1>5, <1>7, ViewAfterTyped
  <2> QED  BY <1>5, <1>6, <1>7, <2>1
<1>8. CASE ~AppendIgnored(call.sid, e) /\ Appended(call.sid, e)
  <2>1. PICK s : s = call.sid
    OBVIOUS
  <2>2. after.state = Extended(view.state, e.delta) /\ after.events = Append(view.events, Trimmed(e))
    BY <1>4, <1>5, <1>8, <2>1, ViewAfterTyped
  <2>3. view.state \in Delta /\ e.delta \in Delta /\ view.events \in Seq(Event) /\ Trimmed(e) \in Event
    BY <1>4, TrimmedTyped DEF View, Event
  <2>4. /\ DOMAIN after.state = DOMAIN view.state \cup DOMAIN e.delta
        /\ k \in DOMAIN e.delta => after.state[k] = e.delta[k]
        /\ k \in DOMAIN view.state /\ k \notin DOMAIN e.delta => after.state[k] = view.state[k]
    <3>1. PICK state \in Delta, d \in Delta : state = view.state /\ d = e.delta
      BY <2>3
    <3>2. /\ DOMAIN Extended(state, d) = DOMAIN state \cup DOMAIN d
          /\ \A h \in DOMAIN d : Extended(state, d)[h] = d[h]
          /\ \A h \in DOMAIN state \ DOMAIN d : Extended(state, d)[h] = state[h]
      BY ExtendedTyped
    <3> QED  BY <2>2, <3>1, <3>2
  <2>5. \/ i \in DOMAIN view.events /\ after.events[i] = view.events[i]
        \/ after.events[i] = Trimmed(e)
    BY <1>5, <2>2, <2>3
  <2>6. CASE k \in DOMAIN e.delta
    <3>1. /\ NotBefore(written', k, e.delta[k], e.delta[k])
          /\ \A u : Until(written, k, u, Len(written)) => NotBefore(written', k, e.delta[k], u)
      BY <1>4, <1>8, <2>6, AppendedWritten DEF Touches
    <3>2. CASE after.events[i] = Trimmed(e)
      <4>1. Trimmed(e).delta[k] = e.delta[k]
        BY <1>4, <1>5, <3>2, TrimmedKeeps
      <4> QED  BY <1>5, <2>4, <2>6, <3>1, <3>2, <4>1
    <3>3. CASE i \in DOMAIN view.events /\ after.events[i] = view.events[i]
      BY <1>5, <1>6, <2>4, <2>6, <3>1, <3>3
    <3> QED  BY <2>5, <3>2, <3>3
  <2>7. CASE k \notin DOMAIN e.delta
    <3>1. after.events[i] # Trimmed(e)
      BY <1>4, <1>5, <2>7, TrimmedKeeps DEF Touches
    <3>2. i \in DOMAIN view.events /\ after.events[i] = view.events[i]
      BY <2>5, <3>1
    <3>3. k \in DOMAIN view.state /\ NotBefore(written, k, view.state[k], view.events[i].delta[k])
      BY <1>5, <1>6, <3>2
    <3>4. NotBefore(written', k, view.state[k], view.events[i].delta[k])
      BY <1>1, <3>3, LenGrows
    <3> QED  BY <1>5, <2>4, <2>7, <3>2, <3>3, <3>4
  <2> QED  BY <2>6, <2>7
<1> QED  BY <1>4, <1>7, <1>8, AppendCases

LEMMA ExtendedAt ==
    ASSUME NEW d \in Delta, NEW f \in Delta, NEW k, NEW after, after = Extended(d, f)
    PROVE  /\ k \in DOMAIN f => k \in DOMAIN after /\ after[k] = f[k]
           /\ k \in DOMAIN d /\ k \notin DOMAIN f => k \in DOMAIN after /\ after[k] = d[k]
<1>1. /\ DOMAIN Extended(d, f) = DOMAIN d \cup DOMAIN f
      /\ \A h \in DOMAIN f : Extended(d, f)[h] = f[h]
      /\ \A h \in DOMAIN d \ DOMAIN f : Extended(d, f)[h] = d[h]
  BY ExtendedTyped
<1> QED  BY <1>1

LEMMA CoveredNat ==
    ASSUME TypeOK, SharedHistory, NEW x
    PROVE  Covered(x) \in Nat /\ Covered(x) <= Len(written) /\ (Unlocked => Covered(x) = Len(written))
<1>1. written \in Seq(Delta)
  BY DEF TypeOK, SharedTyped
<1>2. Len(written) \in Nat /\ (~Unlocked => Len(written) >= 1)
  BY <1>1 DEF SharedHistory
<1> QED  BY <1>2 DEF Covered

(* What a map holds is not older than a write that has reached it.         *)
LEMMA MapShows ==
    ASSUME TypeOK, SharedHistory, NEW k \in Keys, Scope[k] \in Shared, NEW v,
           Until(written, k, v, Covered(Scope[k]))
    PROVE  k \in DOMAIN shared[Scope[k]] /\ NotBefore(written, k, shared[Scope[k]][k], v)
<1>1. PICK j \in DOMAIN written : At(written, j, k, v) /\ j <= Covered(Scope[k])
  BY DEF Until
<1>2. j \in 1 .. Covered(Scope[k]) /\ k \in DOMAIN written[j]
  <2>1. written \in Seq(Delta)
    BY DEF TypeOK, SharedTyped
  <2> QED  BY <1>1, <2>1, CoveredNat DEF At
<1>3. k \in DOMAIN shared[Scope[k]] /\ Since(written, k, shared[Scope[k]][k], j)
  BY <1>2 DEF SharedHistory
<1> QED  BY <1>1, <1>3 DEF Since, NotBefore

LEMMA ShownByOthers ==
    ASSUME TypeOK, Staged, Shown, StepShape, SharedHistory, ServiceScoped, TypeOK', NEW c \in Callers,
           UNCHANGED calls[c].view, \A x : Pending(calls[c], x)' <=> Pending(calls[c], x)
    PROVE  CallShows(calls[c])'
<1>1. /\ written' = written \/ \E d \in Delta : written' = Append(written, d)
      /\ SharedHistory' /\ \A x \in Shared : Covered(x) <= Covered(x)'
  BY HistoryKept
<1> HIDE DEF StepShape
<1>2. PICK view : view = calls[c].view /\ view = calls'[c].view
  OBVIOUS
<1>3. ASSUME NEW i \in DOMAIN view.events, NEW k \in Touches(view.events[i]), Scope[k] \in Shared
      PROVE  IF Pending(calls[c], Scope[k])' THEN Until(written', k, view.events[i].delta[k], Covered(Scope[k])')
             ELSE k \in DOMAIN view.state /\ NotBefore(written', k, view.state[k], view.events[i].delta[k])
  <2>1. ShownIn(calls[c], k, view.events[i].delta[k])
    BY <1>2, <1>3 DEF Shown, CallShows
  <2>2. CASE Pending(calls[c], Scope[k])
    <3>1. Until(written, k, view.events[i].delta[k], Covered(Scope[k]))
      BY <2>1, <2>2 DEF ShownIn
    <3>2. Covered(Scope[k]) \in Int /\ Covered(Scope[k])' \in Int /\ Covered(Scope[k]) <= Covered(Scope[k])'
      BY <1>1, <1>3, LenGrows DEF Covered
    <3>3. Until(written', k, view.events[i].delta[k], Covered(Scope[k])')
      BY <1>1, <3>1, <3>2, LenGrows
    <3> QED  BY <2>2, <3>3
  <2>3. CASE ~Pending(calls[c], Scope[k])
    <3>1. k \in DOMAIN view.state /\ NotBefore(written, k, view.state[k], view.events[i].delta[k])
      BY <1>2, <2>1, <2>3 DEF ShownIn
    <3> QED  BY <1>1, <2>3, <3>1, LenGrows
  <2> QED  BY <2>2, <2>3
<1> QED  BY <1>2, <1>3 DEF CallShows, ShownIn

LEMMA ShownByReading ==
    ASSUME TypeOK, Staged, Shown, SharedHistory, ServiceScoped, StoredWritten, TypeOK', NEW c \in Callers,
           Reading(c)
    PROVE  CallShows(calls[c])'
<1>1. PICK call \in Call : call = calls[c]
  BY DEF TypeOK
<1>2. PICK new \in Call : new = calls'[c]
  BY DEF TypeOK
<1>3. UNCHANGED <<written, shared, unwritten, sessions>> /\ call.pc = "read" /\ call.read \in 1 .. 3
  BY <1>1, StageFacts DEF Reading, service
<1>4. \A x : Covered(x)' = Covered(x)
  BY <1>3 DEF Covered, Unlocked
<1>5. new.view.events \in Seq(Event) /\ new.view.state \in Delta /\ call.view.state \in Delta
  BY DEF Call, View
<1> SUFFICES ASSUME NEW i \in DOMAIN new.view.events, NEW k \in Keys, k \in Touches(new.view.events[i]),
                    Scope[k] \in Shared
             PROVE  ShownIn(new, k, new.view.events[i].delta[k])
  <2>1. \A i \in DOMAIN new.view.events : new.view.events[i].delta \in Delta
    <3>1. PICK events \in Seq(Event) : events = new.view.events
      BY <1>5
    <3>2. \A i \in DOMAIN events : events[i] \in Event
      OBVIOUS
    <3> QED  BY <3>1, <3>2 DEF Event
  <2>2. \A i \in DOMAIN new.view.events : Touches(new.view.events[i]) \subseteq Keys
    BY <2>1, DeltaElim DEF Touches
  <2>3. \A k \in Keys : \A v : ShownIn(calls[c], k, v)' <=> ShownIn(new, k, v)
    BY <1>2, <1>3, <1>4 DEF ShownIn, Pending
  <2> QED  BY <1>2, <2>2, <2>3 DEF CallShows
<1>6. shared["app"] \in Delta /\ shared["user"] \in Delta /\ (Scope[k] = "app" \/ Scope[k] = "user")
  BY DEF TypeOK, SharedTyped, Shared
<1>7. ASSUME NEW x \in Shared, new.view.state = Extended(call.view.state, shared[x])
      PROVE  /\ k \in DOMAIN shared[x] => k \in DOMAIN new.view.state /\ new.view.state[k] = shared[x][k]
             /\ k \in DOMAIN call.view.state /\ k \notin DOMAIN shared[x] =>
                   k \in DOMAIN new.view.state /\ new.view.state[k] = call.view.state[k]
  <2>1. PICK d \in Delta, f \in Delta, after \in Delta :
           d = call.view.state /\ f = shared[x] /\ after = new.view.state
    BY <1>5, <1>6 DEF Shared
  <2>2. after = Extended(d, f)
    BY <1>7, <2>1
  <2>3. /\ k \in DOMAIN f => k \in DOMAIN after /\ after[k] = f[k]
        /\ k \in DOMAIN d /\ k \notin DOMAIN f => k \in DOMAIN after /\ after[k] = d[k]
    BY <2>2, ExtendedAt
  <2> QED  BY <2>1, <2>3
<1>8. ASSUME call.read = 1, Unlocked, call.sid \in DOMAIN sessions, new.pc = "read", new.read = 2,
             new.view.events = sessions[call.sid].events
      PROVE  ShownIn(new, k, new.view.events[i].delta[k])
  <2>1. Until(written, k, new.view.events[i].delta[k], Len(written))
    BY <1>8 DEF StoredWritten, EventWritten
  <2>2. Covered(Scope[k]) = Len(written)
    BY <1>8, CoveredNat
  <2>3. Pending(new, Scope[k])
    BY <1>8 DEF Pending
  <2> QED  BY <2>1, <2>2, <2>3 DEF ShownIn
<1>9. CASE call.read = 1 /\ new.view = call.view
  <2>1. call.view = NoView
    BY <1>1, <1>3, <1>9, StageFacts
  <2> QED  BY <1>9, <2>1, IdleFields
<1>10. ASSUME call.read = 2, new.pc = "read", new.read = 3, new.view.events = call.view.events,
              new.view.state = Extended(call.view.state, shared["app"])
       PROVE  ShownIn(new, k, new.view.events[i].delta[k])
  <2>1. ShownIn(call, k, new.view.events[i].delta[k]) /\ Pending(call, Scope[k])
    BY <1>1, <1>3, <1>10 DEF Shown, CallShows, Pending
  <2>2. Until(written, k, new.view.events[i].delta[k], Covered(Scope[k]))
    BY <2>1 DEF ShownIn
  <2>3. CASE Scope[k] = "user"
    BY <1>10, <2>2, <2>3 DEF ShownIn, Pending
  <2>4. CASE Scope[k] = "app"
    <3>1. k \in DOMAIN shared["app"] /\ NotBefore(written, k, shared["app"][k], new.view.events[i].delta[k])
      BY <2>2, <2>4, MapShows
    <3>2. ~Pending(new, Scope[k])
      BY <1>10, <2>4 DEF Pending
    <3>3. k \in DOMAIN new.view.state /\ new.view.state[k] = shared["app"][k]
      BY <1>7, <1>10, <3>1 DEF Shared
    <3> QED  BY <2>4, <3>1, <3>2, <3>3 DEF ShownIn
  <2> QED  BY <1>6, <2>3, <2>4
<1>11. ASSUME call.read = 3, new.pc # "read", new.view.events = call.view.events,
              new.view.state = Extended(call.view.state, shared["user"])
       PROVE  ShownIn(new, k, new.view.events[i].delta[k])
  <2>1. ShownIn(call, k, new.view.events[i].delta[k]) /\ ~Pending(new, Scope[k])
    BY <1>1, <1>11 DEF Shown, CallShows, Pending
  <2>2. CASE Scope[k] = "user"
    <3>1. Until(written, k, new.view.events[i].delta[k], Covered(Scope[k]))
      BY <1>3, <2>1, <2>2 DEF ShownIn, Pending
    <3>2. k \in DOMAIN shared["user"] /\ NotBefore(written, k, shared["user"][k], new.view.events[i].delta[k])
      BY <2>2, <3>1, MapShows
    <3>3. k \in DOMAIN new.view.state /\ new.view.state[k] = shared["user"][k]
      BY <1>7, <1>11, <3>2 DEF Shared
    <3> QED  BY <2>1, <2>2, <3>2, <3>3 DEF ShownIn
  <2>3. CASE Scope[k] = "app"
    <3>1. k \in DOMAIN call.view.state /\ NotBefore(written, k, call.view.state[k], new.view.events[i].delta[k])
      BY <1>11, <2>1, <2>3 DEF ShownIn, Pending
    <3>2. k \notin DOMAIN shared["user"]
      BY <2>3 DEF ServiceScoped, Shared
    <3>3. k \in DOMAIN new.view.state /\ new.view.state[k] = call.view.state[k]
      BY <1>7, <1>11, <3>1, <3>2 DEF Shared
    <3> QED  BY <2>1, <3>1, <3>3 DEF ShownIn
  <2> QED  BY <1>6, <2>2, <2>3
<1> QED  BY <1>1, <1>2, <1>8, <1>9, <1>10, <1>11 DEF Reading

LEMMA ShownKept ==
    ASSUME TypeOK, Staged, Shown, StepShape, SharedHistory, ServiceScoped, StoredWritten, TypeOK', Staged'
    PROVE  Shown'
<1> SUFFICES ASSUME NEW c \in Callers PROVE CallShows(calls[c])'
  BY DEF Shown
<1> HIDE DEF StepShape
<1>1. CASE calls'[c].view.events = <<>>
  BY <1>1 DEF CallShows
<1>2. CASE UNCHANGED calls[c]
  <2>1. \A x : Pending(calls[c], x)' <=> Pending(calls[c], x)
    BY <1>2 DEF Pending
  <2> QED  BY <1>2, <2>1, ShownByOthers
<1>3. CASE Planning(c)
  <2>1. \A x : Pending(calls[c], x)' <=> Pending(calls[c], x)
    BY <1>3 DEF Pending, Planning
  <2>2. UNCHANGED calls[c].view
    BY <1>3 DEF Planning
  <2> QED  BY <2>1, <2>2, ShownByOthers
<1>4. CASE Beginning(c) \/ Returning(c) \/ Creating(c)
  BY <1>1, <1>4, IdleFields DEF Beginning, Returning, Creating
<1>5. CASE Reading(c)
  BY <1>5, ShownByReading
<1>6. ASSUME NEW e, Appending(c, e) PROVE CallShows(calls[c])'
  BY <1>6, ShownAppended
<1> QED  BY <1>2, <1>3, <1>4, <1>5, <1>6, CallChanges DEF Moving

LEMMA ShownIsNew ==
    ASSUME TypeOK, Shown
    PROVE  SharedAsNewAsEvents
<1> SUFFICES ASSUME NEW c \in Callers, HasView(c), NEW e \in Range(calls[c].view.events),
                    NEW k \in DOMAIN InScope(e.delta, Shared)
             PROVE  /\ k \in DOMAIN calls[c].view.state
                    /\ \E i \in Writes(k, calls[c].view.state[k]), j \in Writes(k, e.delta[k]) : i >= j
  BY DEF SharedAsNewAsEvents
<1>1. PICK view \in View : view = calls[c].view
  BY DEF TypeOK, Call
<1>2. PICK n \in DOMAIN view.events : e = view.events[n]
  BY <1>1 DEF Range
<1>3. e \in Event /\ view.events \in Seq(Event)
  BY <1>1, <1>2 DEF View
<1>4. PICK d \in Delta : d = e.delta
  BY <1>3 DEF Event
<1>5. DOMAIN InScope(d, Shared) = {h \in DOMAIN d : Scope[h] \in Shared}
  BY InScopeTyped
<1>6. k \in Touches(e) /\ Scope[k] \in Shared
  BY <1>4, <1>5 DEF Touches
<1>7. k \in DOMAIN view.state /\ NotBefore(written, k, view.state[k], e.delta[k])
  BY <1>1, <1>2, <1>6 DEF Shown, CallShows, ShownIn, Pending, HasView
<1>8. written \in Seq(Delta)
  BY DEF TypeOK, SharedTyped
<1>9. PICK i \in DOMAIN written, j \in DOMAIN written :
         At(written, i, k, view.state[k]) /\ At(written, j, k, e.delta[k]) /\ j <= i
  BY <1>7 DEF NotBefore
<1>10. i \in Writes(k, view.state[k]) /\ j \in Writes(k, e.delta[k]) /\ i >= j
  BY <1>8, <1>9 DEF Writes, At
<1> QED  BY <1>1, <1>7, <1>10

(* A copy of a session never shows a shared value older than one that an   *)
(* event of the copy wrote, though the session and the two shared maps are *)
(* read under three locks and written under two.                           *)
THEOREM SharedIsAsNew == Spec => []SharedAsNewAsEvents
<1> DEFINE Inv2 == TypeOK /\ Staged /\ ServiceScoped /\ SharedHistory /\ StoredWritten /\ Shown
<1>1. Init => Inv2
  <2> SUFFICES ASSUME Init PROVE Inv2
    OBVIOUS
  <2>1. sessions = <<>> /\ written = <<>> /\ Unlocked /\ \A c \in Callers : calls[c] = Idle
    BY DEF Init, InitService, Unlocked
  <2>2. SharedHistory
    BY <2>1 DEF SharedHistory, Covered
  <2>3. StoredWritten /\ Shown
    BY <2>1, IdleFields DEF StoredWritten, Shown, CallShows
  <2> QED  BY <2>2, <2>3, InitTyped, InitScoped
<1>2. Inv2 /\ [Next]_vars => Inv2'
  <2> SUFFICES ASSUME Inv2, [Next]_vars PROVE Inv2'
    OBVIOUS
  <2>1. StepShape /\ TypeOK' /\ Staged'
    BY Typed
  <2> QED  BY <2>1, ScopedKept, HistoryKept, StoredWrittenKept, ShownKept
<1>3. Inv2 => SharedAsNewAsEvents
  BY ShownIsNew
<1> HIDE DEF Inv2
<1> QED  BY <1>1, <1>2, <1>3, PTL DEF Spec

-----------------------------------------------------------------------------
(* Which events are live.                                                  *)

(* One step of ApplyRewinds: the events that are live after i of them.     *)
LiveAt(events, live, i) ==
    IF i = 0 THEN {}
    ELSE IF events[i].back = NoInv THEN live[i - 1] \cup {i}
    ELSE LET J == {j \in 1 .. i - 1 : Inv(events[j]) = events[i].back}
         IN  IF J = {} THEN {} ELSE live[BlockStart(events, Max(J)) - 1]

Live(events) == CHOOSE live : live = [i \in 0 .. Len(events) |-> LiveAt(events, live, i)]

LEMMA LiveIs ==
    ASSUME NEW events
    PROVE  ApplyRewinds(events) = Live(events)[Len(events)]
BY DEF ApplyRewinds, Live, LiveAt

(* The greatest number of a set.                                           *)
LEMMA MaxUpTo ==
    ASSUME NEW n \in Nat, NEW V \in SUBSET (1 .. n)
    PROVE  V # {} => /\ Max(V) \in V /\ Max(V) \in 1 .. n
                     /\ \A y \in V : Max(V) >= y
<1>1. IsFiniteSet(1 .. n)
  BY FS_Interval
<1>2. IsFiniteSet(V)
  BY <1>1, FS_Subset
<1>3. V \in SUBSET Nat
  OBVIOUS
<1>4. V # {} => Max(V) \in V /\ \A y \in V : Max(V) >= y
  BY <1>2, <1>3, MaxOfNaturals
<1> QED  BY <1>4

(* The run of events of one invocation starts somewhere.                   *)
LEMMA BlockStartIn ==
    ASSUME NEW events, NEW j \in Nat \ {0}
    PROVE  /\ BlockStart(events, j) \in 1 .. j
           /\ \A h \in BlockStart(events, j) .. j : Inv(events[h]) = Inv(events[j])
           /\ \/ BlockStart(events, j) = 1
              \/ Inv(events[BlockStart(events, j) - 1]) # Inv(events[j])
<1> DEFINE S == {i \in 1 .. j : \A h \in i .. j : Inv(events[h]) = Inv(events[j])}
           B == {i \in 1 .. j : \A h \in i .. j : Inv(events[h]) = Inv(events[j])
                        /\ (i = 1 \/ Inv(events[i - 1]) # Inv(events[j]))}
<1>1. S \in SUBSET Nat /\ j \in S
  OBVIOUS
<1>2. PICK m \in S : \A n \in S : ~(n < m)
  BY <1>1, LeastExists
<1>3. m = 1 \/ Inv(events[m - 1]) # Inv(events[j])
  <2> SUFFICES ASSUME m # 1, Inv(events[m - 1]) = Inv(events[j]) PROVE FALSE
    OBVIOUS
  <2>1. m - 1 \in 1 .. j /\ m \in 1 .. j
    OBVIOUS
  <2>2. \A h \in m - 1 .. j : h = m - 1 \/ h \in m .. j
    BY <2>1
  <2>3. m - 1 \in S
    BY <2>1, <2>2
  <2> QED  BY <1>2, <2>1, <2>3
<1>4. m \in B
  BY <1>2, <1>3
<1>5. B \in SUBSET (1 .. j)
  OBVIOUS
<1>6. BlockStart(events, j) = Max(B)
  BY DEF BlockStart
<1>7. PICK b : b = Max(B)
  OBVIOUS
<1>8. b \in B
  <2> HIDE DEF B
  <2> QED  BY <1>4, <1>5, <1>7, MaxUpTo
<1>9. b \in 1 .. j /\ b \in b .. j
  BY <1>8
<1> QED  BY <1>6, <1>7, <1>8, <1>9

LEMMA BlockStartSame ==
    ASSUME NEW events, NEW more, NEW j \in Nat, \A h \in 1 .. j : events[h] = more[h]
    PROVE  BlockStart(events, j) = BlockStart(more, j)
<1> DEFINE B(s) == {i \in 1 .. j : \A h \in i .. j : Inv(s[h]) = Inv(s[j])
                        /\ (i = 1 \/ Inv(s[i - 1]) # Inv(s[j]))}
<1>1. \A h \in 1 .. j : Inv(events[h]) = Inv(more[h])
  BY DEF Inv
<1>2. B(events) = B(more)
  <2>1. \A i \in 1 .. j : (i = 1 \/ i - 1 \in 1 .. j) /\ i .. j \subseteq 1 .. j /\ j \in 1 .. j
    OBVIOUS
  <2> QED  BY <1>1, <2>1
<1> QED  BY <1>2 DEF BlockStart

(* What is live after i events rests on the first i of them alone.         *)
LEMMA LiveAtSame ==
    ASSUME NEW events, NEW more, NEW f, NEW g, NEW i \in Nat,
           \A j \in 1 .. i : events[j] = more[j], \A j \in 0 .. i - 1 : f[j] = g[j]
    PROVE  LiveAt(events, f, i) = LiveAt(more, g, i)
<1> DEFINE J(s) == {j \in 1 .. i - 1 : Inv(s[j]) = s[i].back}
<1>1. CASE i = 0
  BY <1>1 DEF LiveAt
<1>2. CASE i # 0
  <2>1. events[i] = more[i] /\ i - 1 \in 0 .. i - 1 /\ f[i - 1] = g[i - 1]
    BY <1>2
  <2>2. J(events) = J(more)
    BY <2>1
  <2>3. ASSUME J(more) # {} PROVE f[BlockStart(events, Max(J(more))) - 1] = g[BlockStart(more, Max(J(more))) - 1]
    <3>1. J(more) \in SUBSET (1 .. i - 1) /\ i - 1 \in Nat
      BY <1>2
    <3> HIDE DEF J
    <3>2. PICK m : m = Max(J(more))
      OBVIOUS
    <3>3. m \in 1 .. i - 1
      BY <2>3, <3>1, <3>2, MaxUpTo
    <3>4. m \in Nat \ {0} /\ m \in Nat /\ \A h \in 1 .. m : events[h] = more[h]
      BY <3>3
    <3>5. BlockStart(events, m) = BlockStart(more, m)
      BY <3>4, BlockStartSame
    <3>6. BlockStart(more, m) \in 1 .. m
      BY <3>4, BlockStartIn
    <3>7. BlockStart(more, m) - 1 \in 0 .. i - 1
      BY <3>3, <3>6
    <3> QED  BY <3>2, <3>5, <3>7
  <2>4. \A s, live : LiveAt(s, live, i) =
           IF s[i].back = NoInv THEN live[i - 1] \cup {i}
           ELSE IF J(s) = {} THEN {} ELSE live[BlockStart(s, Max(J(s))) - 1]
    BY <1>2 DEF LiveAt
  <2> HIDE DEF J
  <2>5. CASE events[i].back = NoInv
    <3>1. LiveAt(events, f, i) = f[i - 1] \cup {i}
      BY <2>4, <2>5
    <3>2. LiveAt(more, g, i) = g[i - 1] \cup {i}
      BY <2>1, <2>4, <2>5
    <3> QED  BY <2>1, <3>1, <3>2
  <2>6. CASE events[i].back # NoInv /\ J(more) = {}
    <3>1. LiveAt(events, f, i) = {}
      BY <2>2, <2>4, <2>6
    <3>2. LiveAt(more, g, i) = {}
      BY <2>1, <2>4, <2>6
    <3> QED  BY <3>1, <3>2
  <2>7. CASE events[i].back # NoInv /\ J(more) # {}
    <3>1. LiveAt(events, f, i) = f[BlockStart(events, Max(J(more))) - 1]
      BY <2>2, <2>4, <2>7
    <3>2. LiveAt(more, g, i) = g[BlockStart(more, Max(J(more))) - 1]
      BY <2>1, <2>4, <2>7
    <3> QED  BY <2>3, <2>7, <3>1, <3>2
  <2> QED  BY <2>5, <2>6, <2>7
<1> QED  BY <1>1, <1>2

(* ApplyRewinds computes what it says: the recursion is well founded.      *)
LEMMA LiveSteps ==
    ASSUME NEW events, Len(events) \in Nat
    PROVE  Live(events) = [i \in 0 .. Len(events) |-> LiveAt(events, Live(events), i)]
<1> DEFINE Part(n) == \E g : g = [i \in 0 .. n |-> LiveAt(events, g, i)]
           S == {n \in Nat : Part(n)}
<1>1. 0 \in S
  <2> DEFINE g == [i \in 0 .. 0 |-> {}]
  <2>1. g = [i \in 0 .. 0 |-> LiveAt(events, g, i)]
    BY DEF LiveAt
  <2> QED  BY <2>1
<1>2. ASSUME NEW n \in Nat, n \in S PROVE n + 1 \in S
  <2>1. PICK g : g = [i \in 0 .. n |-> LiveAt(events, g, i)]
    BY <1>2
  <2> DEFINE h == [i \in 0 .. n + 1 |-> LiveAt(events, g, i)]
  <2>2. \A i \in 0 .. n : g[i] = LiveAt(events, g, i)
    BY <2>1
  <2>3. \A i \in 0 .. n : h[i] = g[i]
    BY <2>2
  <2> HIDE DEF h
  <2>4. ASSUME NEW i \in 0 .. n + 1 PROVE LiveAt(events, g, i) = LiveAt(events, h, i)
    <3>1. i \in Nat /\ \A j \in 0 .. i - 1 : g[j] = h[j]
      BY <2>3
    <3> QED  BY <3>1, LiveAtSame
  <2>5. h = [i \in 0 .. n + 1 |-> LiveAt(events, h, i)]
    BY <2>4 DEF h
  <2> QED  BY <2>5
<1> HIDE DEF S
<1>3. \A n \in Nat : n \in S
  BY <1>1, <1>2, Induction
<1>4. Part(Len(events))
  BY <1>3 DEF S
<1> QED  BY <1>4 DEF Live

LEMMA LiveValue ==
    ASSUME NEW events, Len(events) \in Nat, NEW i \in 0 .. Len(events)
    PROVE  Live(events)[i] = LiveAt(events, Live(events), i)
<1> DEFINE live == Live(events)
<1>1. live = [j \in 0 .. Len(events) |-> LiveAt(events, live, j)]
  BY LiveSteps
<1> HIDE DEF live
<1>2. live[i] = LiveAt(events, live, i)
  BY <1>1
<1> QED  BY <1>2 DEF live

(* The live events are among those that there are.                         *)
LEMMA LiveAmong ==
    ASSUME NEW events, Len(events) \in Nat, NEW i \in 0 .. Len(events)
    PROVE  Live(events)[i] \subseteq 1 .. i
<1> DEFINE live == Live(events)
           S == {n \in Nat : \A m \in 0 .. n : m <= Len(events) => live[m] \subseteq 1 .. m}
<1>1. ASSUME NEW n \in 0 .. Len(events), \A m \in 0 .. n - 1 : live[m] \subseteq 1 .. m
      PROVE  live[n] \subseteq 1 .. n
  <2> DEFINE J == {j \in 1 .. n - 1 : Inv(events[j]) = events[n].back}
  <2>1. live[n] = LiveAt(events, live, n)
    BY LiveValue
  <2> HIDE DEF live
  <2>2. CASE n = 0
    BY <2>1, <2>2 DEF LiveAt
  <2>3. CASE n # 0 /\ events[n].back = NoInv
    <3>1. live[n] = live[n - 1] \cup {n}
      BY <2>1, <2>3 DEF LiveAt
    <3>2. live[n - 1] \subseteq 1 .. n - 1
      BY <1>1, <2>3
    <3> QED  BY <2>3, <3>1, <3>2
  <2>4. CASE n # 0 /\ events[n].back # NoInv /\ J = {}
    <3>1. live[n] = {}
      BY <2>1, <2>4 DEF LiveAt
    <3> QED  BY <3>1
  <2>5. CASE n # 0 /\ events[n].back # NoInv /\ J # {}
    <3>1. live[n] = live[BlockStart(events, Max(J)) - 1]
      BY <2>1, <2>5 DEF LiveAt
    <3>2. J \in SUBSET (1 .. n - 1) /\ n - 1 \in Nat
      BY <2>5
    <3> HIDE DEF J
    <3>3. PICK m : m = Max(J)
      OBVIOUS
    <3>4. m \in 1 .. n - 1
      BY <2>5, <3>2, <3>3, MaxUpTo
    <3>5. m \in Nat \ {0}
      BY <3>4
    <3>6. BlockStart(events, m) \in 1 .. m
      BY <3>5, BlockStartIn
    <3>7. PICK p : p = BlockStart(events, m) - 1 /\ p \in 0 .. n - 1
      BY <3>4, <3>6
    <3>8. live[p] \subseteq 1 .. p /\ 1 .. p \subseteq 1 .. n
      BY <1>1, <3>7
    <3> QED  BY <3>1, <3>3, <3>7, <3>8
  <2> QED  BY <2>2, <2>3, <2>4, <2>5
<1> HIDE DEF live
<1>2. 0 \in S
  BY <1>1
<1>3. ASSUME NEW n \in Nat, n \in S PROVE n + 1 \in S
  <2>1. n + 1 <= Len(events) => live[n + 1] \subseteq 1 .. n + 1
    BY <1>1, <1>3
  <2>2. \A m \in 0 .. n + 1 : m \in 0 .. n \/ m = n + 1
    OBVIOUS
  <2> QED  BY <1>3, <2>1, <2>2
<1> HIDE DEF S
<1>4. \A n \in Nat : n \in S
  BY <1>2, <1>3, Induction
<1>5. live[i] \subseteq 1 .. i
  BY <1>4 DEF S
<1> QED  BY <1>5 DEF live

(* One event more does not change what was live before it.                 *)
LEMMA LivePrefix ==
    ASSUME NEW events, NEW more, Len(events) \in Nat, Len(more) = Len(events) + 1,
           \A j \in 1 .. Len(events) : more[j] = events[j], NEW i \in 0 .. Len(events)
    PROVE  Live(more)[i] = Live(events)[i]
<1> DEFINE live == Live(events)
           then == Live(more)
           S == {n \in Nat : \A m \in 0 .. n : m <= Len(events) => then[m] = live[m]}
<1>1. ASSUME NEW n \in 0 .. Len(events), \A m \in 0 .. n - 1 : then[m] = live[m]
      PROVE  then[n] = live[n]
  <2>1. n \in 0 .. Len(more) /\ Len(more) \in Nat
    OBVIOUS
  <2>2. live[n] = LiveAt(events, live, n) /\ then[n] = LiveAt(more, then, n)
    BY <2>1, LiveValue
  <2> HIDE DEF live, then
  <2>3. n \in Nat /\ \A j \in 1 .. n : more[j] = events[j]
    OBVIOUS
  <2>4. LiveAt(more, then, n) = LiveAt(events, live, n)
    BY <1>1, <2>3, LiveAtSame
  <2> QED  BY <2>2, <2>4
<1> HIDE DEF live, then
<1>2. 0 \in S
  BY <1>1
<1>3. ASSUME NEW n \in Nat, n \in S PROVE n + 1 \in S
  <2>1. ASSUME n + 1 <= Len(events) PROVE then[n + 1] = live[n + 1]
    <3>1. n + 1 \in 0 .. Len(events) /\ \A m \in 0 .. (n + 1) - 1 : m \in 0 .. n /\ m <= Len(events)
      BY <2>1
    <3>2. \A m \in 0 .. (n + 1) - 1 : then[m] = live[m]
      BY <1>3, <3>1
    <3> QED  BY <1>1, <3>1, <3>2
  <2>2. \A m \in 0 .. n + 1 : m \in 0 .. n \/ m = n + 1
    OBVIOUS
  <2> QED  BY <1>3, <2>1, <2>2
<1> HIDE DEF S
<1>4. \A n \in Nat : n \in S
  BY <1>2, <1>3, Induction
<1>5. then[i] = live[i]
  BY <1>4 DEF S
<1> QED  BY <1>5 DEF live, then

(* Nobody else has appended to the session during an invocation: its       *)
(* events follow one another, and ids only grow.                           *)
Ordered(events) == \A i, j \in DOMAIN events : i <= j => Inv(events[i]) <= Inv(events[j])

LEMMA RewindIndexFirst ==
    ASSUME NEW events \in Seq(Event), NEW inv, HasInvocation(events, inv)
    PROVE  LET index == RewindIndex(events, inv)
           IN  /\ index \in 1 .. Len(events) /\ Inv(events[index]) = inv
               /\ \A j \in 1 .. index - 1 : Inv(events[j]) # inv
<1> DEFINE S == {i \in DOMAIN events : Inv(events[i]) = inv}
<1>1. S \in SUBSET Nat /\ S # {}
  BY DEF HasInvocation, Range
<1>2. PICK m \in S : \A n \in S : ~(n < m)
  BY <1>1, LeastExists
<1>3. Inv(events[m]) = inv /\ \A j \in 1 .. m - 1 : Inv(events[j]) # inv
  BY <1>2
<1>4. DOMAIN events = 1 .. Len(events)
  OBVIOUS
<1> QED  BY <1>3, <1>4 DEF RewindIndex

(* So the run of events a rewind drops starts with the target's first one, *)
(* the one its delta goes before.                                          *)
LEMMA BlockIsFirst ==
    ASSUME NEW events \in Seq(Event), Ordered(events), NEW inv, HasInvocation(events, inv)
    PROVE  LET J == {j \in 1 .. Len(events) : Inv(events[j]) = inv}
           IN  /\ J # {} /\ Max(J) \in 1 .. Len(events)
               /\ BlockStart(events, Max(J)) = RewindIndex(events, inv)
<1> DEFINE J == {j \in 1 .. Len(events) : Inv(events[j]) = inv}
<1>1. PICK p \in 1 .. Len(events) :
         p = RewindIndex(events, inv) /\ Inv(events[p]) = inv /\ \A j \in 1 .. p - 1 : Inv(events[j]) # inv
  BY RewindIndexFirst
<1>2. p \in J
  BY <1>1
<1>3. J \in SUBSET (1 .. Len(events)) /\ Len(events) \in Nat
  OBVIOUS
<1>4. PICK m : m = Max(J)
  OBVIOUS
<1>5. m \in J
  <2> HIDE DEF J
  <2> QED  BY <1>2, <1>3, <1>4, MaxUpTo
<1>6. m \in 1 .. Len(events) /\ Inv(events[m]) = inv /\ m \in Nat \ {0} /\ p <= m
  BY <1>1, <1>5
<1>7. PICK b \in 1 .. m : /\ b = BlockStart(events, m)
                          /\ \A h \in b .. m : Inv(events[h]) = inv
                          /\ b = 1 \/ Inv(events[b - 1]) # inv
  BY <1>6, BlockStartIn
<1>8. p <= b
  <2>1. Inv(events[b]) = inv
    BY <1>7
  <2> QED  BY <1>1, <1>6, <1>7, <2>1
<1>9. ASSUME p < b PROVE FALSE
  <2>1. /\ b - 1 \in DOMAIN events /\ p \in DOMAIN events /\ m \in DOMAIN events
        /\ p <= b - 1 /\ b - 1 <= m /\ b # 1
    BY <1>1, <1>6, <1>7, <1>9
  <2>2. Inv(events[p]) <= Inv(events[b - 1]) /\ Inv(events[b - 1]) <= Inv(events[m])
    BY <2>1 DEF Ordered
  <2>3. Inv(events[p]) \in Nat /\ Inv(events[b - 1]) \in Nat
    <3>1. events[p] \in Event /\ events[b - 1] \in Event
      BY <2>1, ElementOfSeq
    <3> QED  BY <3>1 DEF Event, Ids, Inv
  <2> QED  BY <1>1, <1>6, <1>7, <2>1, <2>2, <2>3
<1>10. b = p
  BY <1>1, <1>7, <1>8, <1>9
<1> QED  BY <1>1, <1>2, <1>4, <1>6, <1>7, <1>10

(* What one event more leaves live.                                        *)
Continues(more, events, n) ==
    /\ n = Len(events) /\ n \in Nat /\ Len(more) = n + 1
    /\ \A j \in 1 .. n : more[j] = events[j]

LEMMA LiveBefore ==
    ASSUME NEW events, NEW more, NEW n, Continues(more, events, n), NEW i \in 0 .. n
    PROVE  Live(more)[i] = Live(events)[i]
BY LivePrefix DEF Continues

LEMMA LiveNext ==
    ASSUME NEW events, NEW more, NEW n, Continues(more, events, n), more[n + 1].back = NoInv
    PROVE  Live(more)[n + 1] = Live(events)[n] \cup {n + 1}
<1>1. Len(more) \in Nat /\ n + 1 \in 0 .. Len(more) /\ n + 1 # 0 /\ (n + 1) - 1 = n /\ n \in 0 .. n
  BY DEF Continues
<1>2. Live(more)[n + 1] = LiveAt(more, Live(more), n + 1)
  BY <1>1, LiveValue
<1>3. LiveAt(more, Live(more), n + 1) = Live(more)[n] \cup {n + 1}
  BY <1>1 DEF LiveAt
<1>4. Live(more)[n] = Live(events)[n]
  BY <1>1, LiveBefore
<1> QED  BY <1>2, <1>3, <1>4

LEMMA LiveRewound ==
    ASSUME NEW events \in Seq(Event), Ordered(events), NEW more, NEW n, Continues(more, events, n),
           NEW inv, more[n + 1].back = inv, inv # NoInv, HasInvocation(events, inv)
    PROVE  Live(more)[n + 1] = Live(events)[RewindIndex(events, inv) - 1]
<1> DEFINE J(s) == {j \in 1 .. n : Inv(s[j]) = inv}
<1>1. /\ Len(more) \in Nat /\ n + 1 \in 0 .. Len(more) /\ n + 1 # 0 /\ (n + 1) - 1 = n
      /\ n \in Nat /\ n = Len(events) /\ \A j \in 1 .. n : more[j] = events[j]
  BY DEF Continues
<1>2. Live(more)[n + 1] = LiveAt(more, Live(more), n + 1)
  BY <1>1, LiveValue
<1>3. J(more) = J(events)
  BY <1>1
<1>4. PICK m \in 1 .. n : m = Max(J(events)) /\ BlockStart(events, m) = RewindIndex(events, inv)
                          /\ J(events) # {}
  BY <1>1, BlockIsFirst
<1>5. m \in Nat /\ \A h \in 1 .. m : more[h] = events[h]
  <2>1. m \in Nat /\ 1 .. m \subseteq 1 .. n
    BY <1>1
  <2> QED  BY <1>1, <2>1
<1>6. BlockStart(more, m) = BlockStart(events, m)
  BY <1>5, BlockStartSame
<1>7. LiveAt(more, Live(more), n + 1) =
         IF J(more) = {} THEN {} ELSE Live(more)[BlockStart(more, Max(J(more))) - 1]
  BY <1>1 DEF LiveAt
<1>8. PICK p \in 0 .. n : p = RewindIndex(events, inv) - 1
  BY <1>1, RewindIndexFirst
<1>9. Live(more)[p] = Live(events)[p]
  BY LiveBefore
<1> HIDE DEF J
<1> QED  BY <1>2, <1>3, <1>4, <1>6, <1>7, <1>8, <1>9

(* No event is of an invocation later than inv.                            *)
Preceding(events, inv) == \A i \in DOMAIN events : Inv(events[i]) <= inv

(* e is the event that more has after those of events.                     *)
NextIs(more, events, n, e) ==
    Continues(more, events, n) /\ e = more[n + 1] /\ Preceding(events, Inv(e))

LEMMA OrderedNext ==
    ASSUME NEW events \in Seq(Event), NEW more \in Seq(Event), NEW n \in Nat, NEW e \in Event,
           NextIs(more, events, n, e), Ordered(events)
    PROVE  Ordered(more)
<1>1. /\ n = Len(events) /\ Len(more) = n + 1 /\ more[n + 1] = e
      /\ \A j \in 1 .. n : more[j] = events[j]
      /\ DOMAIN events = 1 .. n /\ DOMAIN more = 1 .. n + 1
  BY DEF Continues, NextIs
<1> SUFFICES ASSUME NEW i \in 1 .. n + 1, NEW j \in 1 .. n + 1, i <= j
             PROVE  Inv(more[i]) <= Inv(more[j])
  BY <1>1 DEF Ordered
<1>2. CASE j \in 1 .. n
  <2>1. i \in 1 .. n
    BY <1>2
  <2> QED  BY <1>1, <1>2, <2>1 DEF Ordered
<1>3. CASE j = n + 1 /\ i \in 1 .. n
  BY <1>1, <1>3 DEF Preceding, NextIs
<1>4. CASE i = n + 1 /\ j = n + 1
  <2>1. Inv(e) \in Nat
    BY DEF Event, Ids, Inv
  <2> QED  BY <1>1, <1>4, <2>1
<1>5. (i \in 1 .. n \/ i = n + 1) /\ (j \in 1 .. n \/ j = n + 1)
  OBVIOUS
<1> QED  BY <1>2, <1>3, <1>4, <1>5

(* f tells what sets of the events lead to, a state or an artifact: each   *)
(* prefix leads where its live events lead, so that a rewind to before any *)
(* event has something to go back to.                                      *)
Led(f, events) == \A i \in 0 .. Len(events) : f[1 .. i] = f[Live(events)[i]]

(* One event more, behind the others, decides or makes no difference.      *)
LedOn(g, f, n) ==
    /\ \A I \in SUBSET (1 .. n) : g[I] = f[I]
    /\ \/ \A I, K \in SUBSET (1 .. n) : g[I \cup {n + 1}] = g[K \cup {n + 1}]
       \/ \A I \in SUBSET (1 .. n) : g[I \cup {n + 1}] = f[I]

(* With e, the events lead where they led before its target.               *)
LedBack(g, f, events, n, e) ==
    HasInvocation(events, e.back) /\ g[1 .. n + 1] = f[1 .. RewindIndex(events, e.back) - 1]

LEMMA LedNext ==
    ASSUME NEW events \in Seq(Event), NEW more \in Seq(Event), NEW n \in Nat, NEW e \in Event,
           NextIs(more, events, n, e), Ordered(events),
           NEW f, NEW g, Led(f, events), LedOn(g, f, n),
           e.back = NoInv \/ LedBack(g, f, events, n, e)
    PROVE  Led(g, more)
<1>1. /\ n = Len(events) /\ Len(more) = n + 1 /\ more[n + 1] = e /\ Continues(more, events, n)
  BY DEF Continues, NextIs
<1>2. \A i \in 0 .. n : /\ Live(events)[i] \in SUBSET (1 .. n) /\ 1 .. i \in SUBSET (1 .. n)
                        /\ g[Live(events)[i]] = f[Live(events)[i]] /\ g[1 .. i] = f[1 .. i]
                        /\ f[1 .. i] = f[Live(events)[i]]
  <2> SUFFICES ASSUME NEW i \in 0 .. n
               PROVE  /\ Live(events)[i] \in SUBSET (1 .. n) /\ 1 .. i \in SUBSET (1 .. n)
                      /\ g[Live(events)[i]] = f[Live(events)[i]] /\ g[1 .. i] = f[1 .. i]
                      /\ f[1 .. i] = f[Live(events)[i]]
    OBVIOUS
  <2>1. Live(events)[i] \subseteq 1 .. i
    BY <1>1, LiveAmong
  <2>2. 1 .. i \subseteq 1 .. n
    OBVIOUS
  <2>3. f[1 .. i] = f[Live(events)[i]]
    BY <1>1 DEF Led
  <2>4. Live(events)[i] \in SUBSET (1 .. n) /\ 1 .. i \in SUBSET (1 .. n)
    BY <2>1, <2>2
  <2> QED  BY <2>3, <2>4 DEF LedOn
<1>3. g[1 .. n + 1] = g[Live(more)[n + 1]]
  <2>1. CASE e.back = NoInv
    <3>1. n \in 0 .. n /\ 1 .. n + 1 = 1 .. n \cup {n + 1}
      OBVIOUS
    <3>2. Live(more)[n + 1] = Live(events)[n] \cup {n + 1}
      <4>1. more[n + 1].back = NoInv
        BY <1>1, <2>1
      <4> QED  BY <1>1, <4>1, LiveNext
    <3>3. g[1 .. n \cup {n + 1}] = g[Live(events)[n] \cup {n + 1}]
      BY <1>2, <3>1 DEF LedOn
    <3> QED  BY <3>1, <3>2, <3>3
  <2>2. CASE e.back # NoInv
    <3>1. LedBack(g, f, events, n, e)
      BY <2>2
    <3>2. PICK inv : inv = e.back /\ more[n + 1].back = inv /\ inv # NoInv /\ HasInvocation(events, inv)
      BY <1>1, <2>2, <3>1 DEF LedBack
    <3>3. PICK p \in 1 .. n : p = RewindIndex(events, inv)
      BY <1>1, <3>2, RewindIndexFirst
    <3>4. Live(more)[n + 1] = Live(events)[p - 1]
      <4>1. Live(more)[n + 1] = Live(events)[RewindIndex(events, inv) - 1]
        BY <1>1, <3>2, LiveRewound
      <4> QED  BY <3>3, <4>1
    <3>5. p - 1 \in 0 .. n
      OBVIOUS
    <3>6. g[1 .. n + 1] = f[1 .. p - 1]
      BY <3>1, <3>2, <3>3 DEF LedBack
    <3> QED  BY <1>2, <3>4, <3>5, <3>6
  <2> QED  BY <2>1, <2>2
<1>4. ASSUME NEW i \in 0 .. n PROVE g[1 .. i] = g[Live(more)[i]]
  <2>1. Live(more)[i] = Live(events)[i]
    BY <1>1, LiveBefore
  <2> QED  BY <1>2, <2>1
<1>5. \A i \in 0 .. n + 1 : i \in 0 .. n \/ i = n + 1
  OBVIOUS
<1> QED  BY <1>1, <1>3, <1>4, <1>5 DEF Led

LEMMA LedNothing ==
    ASSUME NEW f
    PROVE  Led(f, <<>>)
<1>1. Len(<<>>) \in Nat /\ Len(<<>>) = 0 /\ 1 .. 0 = {}
  OBVIOUS
<1>2. Live(<<>>)[0] = {}
  <2>1. 0 \in 0 .. Len(<<>>)
    OBVIOUS
  <2>2. Live(<<>>)[0] = LiveAt(<<>>, Live(<<>>), 0)
    BY <1>1, <2>1, LiveValue
  <2> QED  BY <2>2 DEF LiveAt
<1>3. \A i \in 0 .. Len(<<>>) : i = 0
  BY <1>1
<1> QED  BY <1>1, <1>2, <1>3 DEF Led

LEMMA SameIndex ==
    ASSUME NEW events \in Seq(Event), NEW more \in Seq(Event), NEW n, Continues(more, events, n),
           NEW inv, HasInvocation(events, inv)
    PROVE  HasInvocation(more, inv) /\ RewindIndex(more, inv) = RewindIndex(events, inv)
<1>1. /\ Len(more) = Len(events) + 1 /\ Len(events) \in Nat
      /\ \A j \in 1 .. Len(events) : more[j] = events[j]
  BY DEF Continues
<1>2. PICK p \in 1 .. Len(events) : /\ p = RewindIndex(events, inv) /\ Inv(events[p]) = inv
                                    /\ \A j \in 1 .. p - 1 : Inv(events[j]) # inv
  BY RewindIndexFirst
<1>3. Inv(more[p]) = inv /\ \A j \in 1 .. p - 1 : Inv(more[j]) # inv
  BY <1>1, <1>2
<1>4. p \in DOMAIN more
  BY <1>1
<1>5. HasInvocation(more, inv)
  BY <1>3, <1>4 DEF HasInvocation, Range
<1>6. PICK q \in 1 .. Len(more) : /\ q = RewindIndex(more, inv) /\ Inv(more[q]) = inv
                                  /\ \A j \in 1 .. q - 1 : Inv(more[j]) # inv
  BY <1>1, <1>5, RewindIndexFirst
<1>7. p = q
  <2>1. ~(p < q)
    BY <1>1, <1>3, <1>6
  <2>2. ~(q < p)
    BY <1>1, <1>3, <1>6
  <2> QED  BY <1>1, <2>1, <2>2
<1> QED  BY <1>2, <1>5, <1>6, <1>7

-----------------------------------------------------------------------------
(* Rewinds restore the state.                                              *)

(* What the deltas of some events come to rests on those events alone, and *)
(* the last one decides.                                                   *)
LEMMA ReplaySame ==
    ASSUME NEW base, NEW events, NEW more, NEW n \in Nat, Continues(more, events, n),
           NEW I \in SUBSET (1 .. n), NEW k
    PROVE  Replay(base, more, I, k) = Replay(base, events, I, k)
<1> DEFINE W(s) == {i \in I : k \in DOMAIN s[i].delta}
<1>1. W(more) = W(events)
  BY DEF Continues
<1>2. W(events) \in SUBSET (1 .. n)
  OBVIOUS
<1>3. \A s : Replay(base, s, I, k) = IF W(s) # {} THEN s[Max(W(s))].delta[k]
                                     ELSE IF k \in DOMAIN base THEN base[k] ELSE Null
  BY DEF Replay
<1> HIDE DEF W
<1>4. ASSUME W(events) # {} PROVE more[Max(W(events))] = events[Max(W(events))]
  <2>1. Max(W(events)) \in 1 .. n
    BY <1>2, <1>4, MaxUpTo
  <2> QED  BY <2>1 DEF Continues
<1> QED  BY <1>1, <1>3, <1>4

Sets(events, m, k) == k \in DOMAIN events[m].delta
Given(events, m, k) == events[m].delta[k]

LEMMA ReplayLast ==
    ASSUME NEW base, NEW events, NEW m \in Nat, NEW X \in SUBSET (1 .. m), m \in X, NEW k
    PROVE  Replay(base, events, X, k) = IF Sets(events, m, k) THEN Given(events, m, k)
                                        ELSE Replay(base, events, X \ {m}, k)
<1> DEFINE W(Y) == {i \in Y : k \in DOMAIN events[i].delta}
<1>1. \A Y : Replay(base, events, Y, k) = IF W(Y) # {} THEN events[Max(W(Y))].delta[k]
                                          ELSE IF k \in DOMAIN base THEN base[k] ELSE Null
  BY DEF Replay
<1>2. CASE ~Sets(events, m, k)
  <2>1. W(X) = W(X \ {m})
    BY <1>2 DEF Sets
  <2> HIDE DEF W
  <2> QED  BY <1>1, <1>2, <2>1
<1>3. CASE Sets(events, m, k)
  <2>1. PICK V : V = W(X)
    OBVIOUS
  <2>2. m \in V
    BY <1>3, <2>1 DEF Sets
  <2>3. V \in SUBSET (1 .. m)
    BY <2>1
  <2>4. Max(V) \in 1 .. m /\ Max(V) >= m
    BY <2>2, <2>3, MaxUpTo
  <2>5. Max(V) = m
    BY <2>4
  <2> HIDE DEF W
  <2> QED  BY <1>1, <1>3, <2>1, <2>2, <2>5 DEF Given
<1> QED  BY <1>2, <1>3

LEMMA ReplayNone ==
    ASSUME NEW base, NEW events, NEW k, k \notin DOMAIN base
    PROVE  Replay(base, events, {}, k) = Null
BY DEF Replay

(* The keys that a session keeps for itself.                               *)
Own == {k \in Keys : Scope[k] = "session"}

ValueIn(state, k) == IF k \in DOMAIN state THEN state[k] ELSE Null

(* What sets of the events lead to.                                        *)
Replayed(events, k) == [I \in SUBSET DOMAIN events |-> Replay(NoState, events, I, k)]

LEMMA ReplayedOn ==
    ASSUME NEW events \in Seq(Event), NEW more \in Seq(Event), NEW n \in Nat, NEW k,
           Continues(more, events, n)
    PROVE  LedOn(Replayed(more, k), Replayed(events, k), n)
<1>1. PICK m \in Nat : m = n + 1
  OBVIOUS
<1>2. DOMAIN events = 1 .. n /\ DOMAIN more = 1 .. m
  BY <1>1 DEF Continues
<1>3. ASSUME NEW I \in SUBSET (1 .. n)
      PROVE  /\ Replay(NoState, more, I, k) = Replay(NoState, events, I, k)
             /\ Replayed(more, k)[I] = Replay(NoState, more, I, k)
             /\ Replayed(events, k)[I] = Replay(NoState, events, I, k)
             /\ Replayed(more, k)[I \cup {m}] = IF Sets(more, m, k) THEN Given(more, m, k)
                                                ELSE Replay(NoState, more, I, k)
  <2>1. I \in SUBSET (1 .. m) /\ m \notin I
    BY <1>1
  <2>2. PICK X \in SUBSET (1 .. m) : X = I \cup {m} /\ m \in X /\ X \ {m} = I
    <3>1. I \cup {m} \in SUBSET (1 .. m) /\ (I \cup {m}) \ {m} = I
      BY <1>1, <2>1
    <3> QED  BY <3>1
  <2>3. Replay(NoState, more, X, k) = IF Sets(more, m, k) THEN Given(more, m, k)
                                      ELSE Replay(NoState, more, X \ {m}, k)
    <3>1. m \in X
      BY <2>2
    <3> QED  BY <3>1, ReplayLast
  <2>4. Replay(NoState, more, I, k) = Replay(NoState, events, I, k)
    BY ReplaySame
  <2> QED  BY <1>2, <2>1, <2>2, <2>3, <2>4 DEF Replayed
<1> QED  BY <1>1, <1>3, ZenonT(60) DEF LedOn

(* What is stored is what the events lead to.                              *)
Restored(state, events) ==
    \A k \in Own : /\ ValueIn(state, k) = Replay(NoState, events, 1 .. Len(events), k)
                   /\ Led(Replayed(events, k), events)

(* What event e would leave of the state is what there was before its      *)
(* target; it still is once e is applied.                                  *)
Restores(e, state, events) ==
    /\ HasInvocation(events, e.back)
    /\ \A k \in Own : (IF k \in DOMAIN e.delta THEN e.delta[k] ELSE ValueIn(state, k))
                          = Replay(NoState, events, 1 .. RewindIndex(events, e.back) - 1, k)

Applies(e, state, next) ==
    \A k \in Own : ValueIn(next, k) = IF k \in DOMAIN e.delta THEN e.delta[k] ELSE ValueIn(state, k)

(* To append e is safe.                                                    *)
Sound(e, state, events) == e.back = NoInv \/ Restores(e, state, events)

LEMMA RestoredNothing ==
    ASSUME NEW state, DOMAIN state = {}
    PROVE  Restored(state, <<>>)
<1>1. Len(<<>>) = 0 /\ 1 .. 0 = {}
  OBVIOUS
<1>2. \A k : Replay(NoState, <<>>, {}, k) = Null
  BY NoStateTyped, ReplayNone
<1> QED  BY <1>1, <1>2, LedNothing DEF Restored, ValueIn

(* What an event restores it restores again.                               *)
LEMMA SoundAppended ==
    ASSUME NEW events \in Seq(Event), NEW more \in Seq(Event), NEW n \in Nat,
           NEW e \in Event, NextIs(more, events, n, e),
           NEW state, NEW next, Applies(e, state, next), Sound(e, state, events)
    PROVE  Sound(e, next, more)
<1>1. n = Len(events) /\ DOMAIN events = 1 .. n /\ Continues(more, events, n)
  BY DEF Continues, NextIs
<1>2. ASSUME e.back # NoInv PROVE Restores(e, next, more)
  <2>1. Restores(e, state, events)
    BY <1>2 DEF Sound
  <2>2. PICK inv : inv = e.back /\ HasInvocation(events, inv)
    BY <2>1 DEF Restores
  <2>3. HasInvocation(more, inv) /\ RewindIndex(more, inv) = RewindIndex(events, inv)
    BY <1>1, <2>2, SameIndex
  <2>4. PICK p \in 1 .. n : p = RewindIndex(events, inv)
    BY <1>1, <2>2, RewindIndexFirst
  <2>5. \A k : Replay(NoState, more, 1 .. p - 1, k) = Replay(NoState, events, 1 .. p - 1, k)
    <3>1. 1 .. p - 1 \in SUBSET (1 .. n)
      OBVIOUS
    <3> QED  BY <1>1, <3>1, ReplaySame
  <2> QED  BY <2>1, <2>2, <2>3, <2>4, <2>5 DEF Restores, Applies
<1> QED  BY <1>2 DEF Sound

(* An event that is no rewind, or one that restores what was before its    *)
(* target, keeps the state and the events of a session in step.            *)
LEMMA RestoredAppended ==
    ASSUME NEW events \in Seq(Event), NEW more \in Seq(Event), NEW n \in Nat,
           NEW e \in Event, NextIs(more, events, n, e), Ordered(events),
           NEW state, NEW next, Restored(state, events), Applies(e, state, next),
           Sound(e, state, events)
    PROVE  Restored(next, more)
<1>1. /\ n = Len(events) /\ Len(more) = n + 1 /\ more[n + 1] = e
      /\ DOMAIN events = 1 .. n /\ DOMAIN more = 1 .. n + 1 /\ Continues(more, events, n)
  BY DEF Continues, NextIs
<1>2. \A I \in SUBSET (1 .. n) : \A k :
         /\ Replayed(events, k)[I] = Replay(NoState, events, I, k)
         /\ Replay(NoState, more, I, k) = Replay(NoState, events, I, k)
  BY <1>1, ReplaySame DEF Replayed
<1>3. \A p \in 0 .. n : 1 .. p \in SUBSET (1 .. n)
  OBVIOUS
<1>4. ASSUME NEW k \in Own PROVE ValueIn(next, k) = Replay(NoState, more, 1 .. n + 1, k)
  <2>0. PICK m \in Nat : m = n + 1
    OBVIOUS
  <2>1. PICK X \in SUBSET (1 .. m) : X = 1 .. m /\ m \in X /\ X \ {m} = 1 .. n
    <3>1. m \in 1 .. m /\ (1 .. m) \ {m} = 1 .. n
      BY <2>0
    <3> QED  BY <3>1
  <2>2. Replay(NoState, more, X, k) = IF Sets(more, m, k) THEN Given(more, m, k)
                                      ELSE Replay(NoState, more, X \ {m}, k)
    <3>1. m \in X
      BY <2>1
    <3> QED  BY <3>1, ReplayLast
  <2>3. Replay(NoState, more, 1 .. n, k) = ValueIn(state, k)
    <3>1. 1 .. n \in SUBSET (1 .. n)
      OBVIOUS
    <3> QED  BY <1>1, <1>2, <3>1 DEF Restored
  <2>4. Sets(more, m, k) <=> k \in DOMAIN e.delta
    BY <1>1, <2>0 DEF Sets
  <2>5. Given(more, m, k) = e.delta[k]
    BY <1>1, <2>0 DEF Given
  <2> QED  BY <2>0, <2>1, <2>2, <2>3, <2>4, <2>5 DEF Applies
<1>5. ASSUME NEW k \in Own PROVE Led(Replayed(more, k), more)
  <2>1. PICK f, g : f = Replayed(events, k) /\ g = Replayed(more, k)
    OBVIOUS
  <2>2. LedOn(g, f, n)
    BY <1>1, <2>1, ReplayedOn
  <2>3. ASSUME e.back # NoInv PROVE LedBack(g, f, events, n, e)
    <3>1. Restores(e, state, events)
      BY <2>3 DEF Sound
    <3>2. PICK p \in 1 .. n : p = RewindIndex(events, e.back)
      BY <1>1, <3>1, RewindIndexFirst DEF Restores
    <3>3. ValueIn(next, k) = Replay(NoState, events, 1 .. p - 1, k)
      BY <3>1, <3>2 DEF Restores, Applies
    <3>4. f[1 .. p - 1] = Replay(NoState, events, 1 .. p - 1, k)
      <4>1. 1 .. p - 1 \in SUBSET (1 .. n)
        BY <1>3
      <4> QED  BY <1>2, <2>1, <4>1
    <3>5. g[1 .. n + 1] = Replay(NoState, more, 1 .. n + 1, k)
      BY <1>1, <2>1 DEF Replayed
    <3> QED  BY <1>4, <3>1, <3>2, <3>3, <3>4, <3>5 DEF LedBack, Restores
  <2>4. Led(f, events)
    BY <2>1 DEF Restored
  <2>5. Led(g, more)
    BY <2>2, <2>3, <2>4, LedNext
  <2> QED  BY <2>1, <2>5
<1> QED  BY <1>1, <1>4, <1>5 DEF Restored

(* The store keeps an event without its temp: keys: what it does to the    *)
(* session is the same.                                                    *)
LEMMA TrimmedOwn ==
    ASSUME NEW e \in Event, NEW k \in Own
    PROVE  /\ k \in DOMAIN Trimmed(e).delta <=> k \in DOMAIN e.delta
           /\ k \in DOMAIN e.delta => Trimmed(e).delta[k] = e.delta[k]
<1>1. PICK d \in Delta : d = e.delta
  BY DEF Event
<1>2. PICK S : S = Shared \cup {"session"}
  OBVIOUS
<1>3. Trimmed(e).delta = InScope(d, S)
  BY <1>1, <1>2, TrimmedTyped
<1>4. DOMAIN InScope(d, S) = {j \in DOMAIN d : Scope[j] \in S}
  BY InScopeTyped
<1>5. \A j \in DOMAIN InScope(d, S) : InScope(d, S)[j] = d[j]
  BY InScopeTyped
<1> QED  BY <1>1, <1>2, <1>3, <1>4, <1>5 DEF Own

LEMMA TrimmedRestores ==
    ASSUME NEW e \in Event, NEW state, NEW events, Restores(e, state, events)
    PROVE  Restores(Trimmed(e), state, events)
<1>1. Trimmed(e).back = e.back
  BY TrimmedTyped
<1> QED  BY <1>1, TrimmedOwn DEF Restores

LEMMA RestoresTrimmed ==
    ASSUME NEW e \in Event, NEW state, NEW events, Restores(Trimmed(e), state, events)
    PROVE  Restores(e, state, events)
<1>1. Trimmed(e).back = e.back
  BY TrimmedTyped
<1> QED  BY <1>1, TrimmedOwn DEF Restores

LEMMA TrimmedApplies ==
    ASSUME NEW e \in Event, NEW state \in Delta
    PROVE  Applies(Trimmed(e), state, Extended(state, InScope(e.delta, {"session"})))
<1>1. PICK d \in Delta : d = e.delta
  BY DEF Event
<1>2. PICK f \in Delta : /\ f = InScope(d, {"session"})
                         /\ DOMAIN f = {k \in DOMAIN d : Scope[k] \in {"session"}}
                         /\ \A k \in DOMAIN f : f[k] = d[k]
  BY InScopeTyped
<1>3. PICK next : next = Extended(state, f)
  OBVIOUS
<1>4. /\ DOMAIN next = DOMAIN state \cup DOMAIN f
      /\ \A k \in DOMAIN f : next[k] = f[k]
      /\ \A k \in DOMAIN state \ DOMAIN f : next[k] = state[k]
  <2>1. DOMAIN Extended(state, f) = DOMAIN state \cup DOMAIN f
    BY ExtendedTyped
  <2>2. \A k \in DOMAIN f : Extended(state, f)[k] = f[k]
    BY ExtendedTyped
  <2>3. \A k \in DOMAIN state \ DOMAIN f : Extended(state, f)[k] = state[k]
    BY ExtendedTyped
  <2> QED  BY <1>3, <2>1, <2>2, <2>3
<1>5. ASSUME NEW k \in Own
      PROVE  ValueIn(next, k) = IF k \in DOMAIN Trimmed(e).delta THEN Trimmed(e).delta[k] ELSE ValueIn(state, k)
  <2>1. k \in DOMAIN f <=> k \in DOMAIN d
    BY <1>2 DEF Own
  <2>2. CASE k \in DOMAIN d
    <3>1. ValueIn(next, k) = d[k]
      BY <1>2, <1>4, <2>1, <2>2 DEF ValueIn
    <3> QED  BY <1>1, <2>2, <3>1, TrimmedOwn
  <2>3. CASE k \notin DOMAIN d
    <3>1. ValueIn(next, k) = ValueIn(state, k)
      BY <1>4, <2>1, <2>3 DEF ValueIn
    <3> QED  BY <1>1, <2>3, <3>1, TrimmedOwn
  <2> QED  BY <2>2, <2>3
<1> QED  BY <1>1, <1>2, <1>3, <1>5 DEF Applies

(* What a session becomes when it stores an event.                         *)
LEMMA SessionNext ==
    ASSUME TypeOK, NEW s \in DOMAIN sessions, NEW e \in Event, Appended(s, e),
           Preceding(sessions[s].events, Inv(e))
    PROVE  \E events, more \in Seq(Event) : \E n \in Nat : \E f \in Event :
              /\ events = sessions[s].events /\ more = sessions'[s].events /\ f = Trimmed(e)
              /\ f.back = e.back /\ f.version = e.version
              /\ NextIs(more, events, n, f)
<1>1. PICK events \in Seq(Event) : events = sessions[s].events
  BY DEF TypeOK, SessionsTyped, Session
<1>2. PICK f \in Event : f = Trimmed(e) /\ f.id = e.id /\ f.back = e.back
  BY TrimmedTyped
<1>3. f.version = e.version
  BY <1>2 DEF Trimmed, Event
<1>4. PICK n \in Nat : n = Len(events)
  BY <1>1
<1>5. PICK more : more = Append(events, f)
  OBVIOUS
<1>6. /\ more \in Seq(Event) /\ Len(more) = n + 1 /\ more[n + 1] = f
      /\ \A j \in 1 .. n : more[j] = events[j]
  BY <1>4, <1>5
<1>7. more = sessions'[s].events
  BY <1>1, <1>2, <1>5 DEF Appended
<1>8. NextIs(more, events, n, f)
  BY <1>1, <1>2, <1>4, <1>6 DEF NextIs, Continues, Inv
<1> QED  BY <1>1, <1>2, <1>3, <1>6, <1>7, <1>8

LEMMA SessionRestored ==
    ASSUME TypeOK, NEW s \in DOMAIN sessions, NEW e \in Event, Appended(s, e),
           Ordered(sessions[s].events), Preceding(sessions[s].events, Inv(e)),
           Sound(e, sessions[s].state, sessions[s].events)
    PROVE  /\ Ordered(sessions'[s].events)
           /\ Sound(e, sessions'[s].state, sessions'[s].events)
           /\ Restored(sessions[s].state, sessions[s].events) => Restored(sessions'[s].state, sessions'[s].events)
<1>1. PICK state \in Delta : state = sessions[s].state
  BY DEF TypeOK, SessionsTyped, Session
<1>2. PICK events \in Seq(Event), more \in Seq(Event), n \in Nat, f \in Event :
         /\ events = sessions[s].events /\ more = sessions'[s].events /\ f = Trimmed(e)
         /\ f.back = e.back /\ NextIs(more, events, n, f)
  BY SessionNext
<1>3. PICK next : next = sessions'[s].state
  OBVIOUS
<1>4. Applies(f, state, next)
  BY <1>1, <1>2, <1>3, TrimmedApplies DEF Appended
<1>5. Sound(f, state, events)
  BY <1>1, <1>2, TrimmedRestores DEF Sound
<1>6. Ordered(events)
  BY <1>2
<1>7. Ordered(more)
  BY <1>2, <1>6, OrderedNext
<1>8. Sound(f, next, more)
  BY <1>2, <1>4, <1>5, SoundAppended
<1>9. Sound(e, next, more)
  BY <1>2, <1>8, RestoresTrimmed DEF Sound
<1>10. ASSUME Restored(state, events) PROVE Restored(next, more)
  BY <1>2, <1>4, <1>5, <1>6, <1>10, RestoredAppended
<1> QED  BY <1>1, <1>2, <1>3, <1>7, <1>9, <1>10

(* The delta that a rewind computes on an exact copy.                      *)
LEMMA RewindRestores ==
    ASSUME NEW call \in Call, HasInvocation(call.view.events, call.target)
    PROVE  Restores(RewindEvent(call), call.view.state, call.view.events)
<1>1. PICK view \in View : view = call.view
  BY DEF Call
<1>2. PICK index : index = RewindIndex(view.events, call.target)
  OBVIOUS
<1> DEFINE D == {k \in Keys : Scope[k] \notin Shared}
           at == [k \in D |-> Replay(NoState, view.events, 1 .. index - 1, k)]
           R == {k \in DOMAIN at : at[k] # Null /\ (k \in DOMAIN view.state => view.state[k] # at[k])}
           C == {k \in DOMAIN at : at[k] = Null /\ k \in DOMAIN view.state}
<1>3. PICK delta : delta = StateDelta(view, index)
  OBVIOUS
<1>4. delta = [k \in R \cup C |-> at[k]]
  BY <1>3 DEF StateDelta, Restrict
<1>5. ASSUME NEW k \in Own
      PROVE  (IF k \in DOMAIN delta THEN delta[k] ELSE ValueIn(view.state, k))
                = Replay(NoState, view.events, 1 .. index - 1, k)
  <2>1. k \in D
    BY DEF Own, Shared
  <2>2. k \in DOMAIN at /\ at[k] = Replay(NoState, view.events, 1 .. index - 1, k)
    BY <2>1
  <2> HIDE DEF at
  <2>3. CASE k \in R \cup C
    BY <1>4, <2>2, <2>3
  <2>4. CASE k \notin R \cup C
    <3>1. k \notin DOMAIN delta
      BY <1>4, <2>4
    <3>2. ValueIn(view.state, k) = at[k]
      BY <2>2, <2>4 DEF ValueIn
    <3> QED  BY <2>2, <3>1, <3>2
  <2> QED  BY <2>3, <2>4
<1>6. PICK e : e = RewindEvent(call)
  OBVIOUS
<1>7. e.back = call.target /\ e.delta = delta
  BY <1>1, <1>2, <1>3, <1>6 DEF RewindEvent
<1> QED  BY <1>1, <1>2, <1>5, <1>6, <1>7 DEF Restores

LEMMA RestoresSame ==
    ASSUME NEW e, NEW state, NEW other, NEW events, Restores(e, state, events),
           \A k \in Own : ValueIn(other, k) = ValueIn(state, k)
    PROVE  Restores(e, other, events)
BY DEF Restores

(* One caller and no deletion.                                             *)
Alone == ~Deletions /\ \A c, d \in Callers : c = d

(* No session is created with keys of its own.                             *)
BeginEmpty == \A keys \in InitialStates : \A k \in keys : Scope[k] # "session"

(* The call's events are no rewinds, or it has one, to store or stored,    *)
(* that restores what it should.                                           *)
Plain(call) == /\ \A i \in DOMAIN call.todo : call.todo[i].back = NoInv
               /\ call.last # NoEvent => call.last.back = NoInv

Undoes(call, e) ==
    /\ call.pc = "append" /\ e \in Event
    /\ Restores(e, sessions[call.sid].state, sessions[call.sid].events)
    /\ \/ call.todo = <<e>> /\ call.last = NoEvent
       \/ call.todo = <<>> /\ call.last = e

SoundCall(call) == Plain(call) \/ \E e : Undoes(call, e)

(* A call that may rewind sees the session as it is stored.                *)
Exact(call) ==
    call.pc = "rewind" \/ (call.pc = "read" /\ call.read > 1) =>
        /\ call.view.events = sessions[call.sid].events
        /\ \A k \in Own : ValueIn(call.view.state, k) = ValueIn(sessions[call.sid].state, k)

(* Once it is read, the session is there.                                  *)
Found(call) ==
    call.pc \in {"run", "rewind", "agent", "append"} \/ (call.pc = "read" /\ call.read > 1) =>
        call.sid \in DOMAIN sessions

(* Nobody else has appended to the sessions since the call began.          *)
Latest(call) == call.pc # "idle" => \A s \in DOMAIN sessions : Preceding(sessions[s].events, call.inv)

RestoredSession(s) ==
    /\ Ordered(sessions[s].events)
    /\ BeginEmpty => DOMAIN sessions[s].initial = {} /\ Restored(sessions[s].state, sessions[s].events)

InStepCall(call) == SoundCall(call) /\ Exact(call) /\ Found(call) /\ Latest(call)

InStep ==
    /\ \A s \in DOMAIN sessions : RestoredSession(s)
    /\ \A c \in Callers : InStepCall(calls[c])

LEMMA InitInStep ==
    ASSUME Init
    PROVE  InStep
<1>1. sessions = <<>> /\ \A c \in Callers : calls[c] = Idle
  BY DEF Init, InitService
<1>2. Plain(Idle) /\ Exact(Idle) /\ Found(Idle) /\ Latest(Idle)
  BY IdleFields DEF Plain, Exact, Found, Latest
<1> QED  BY <1>1, <1>2 DEF InStep, InStepCall, SoundCall

(* Sessions that were there stay; only calls that append change them.      *)
LEMMA SoundKept ==
    ASSUME NEW call, SoundCall(call), Exact(call), Found(call),
           DOMAIN sessions \subseteq DOMAIN sessions',
           \A t \in DOMAIN sessions : sessions'[t] = sessions[t]
    PROVE  SoundCall(call)' /\ Exact(call)' /\ Found(call)'
<1>1. ASSUME NEW e, Undoes(call, e) PROVE Undoes(call, e)'
  BY <1>1 DEF Undoes, Found
<1> QED  BY <1>1 DEF SoundCall, Plain, Exact, Found

(* A session is created with nothing of its own.                           *)
LEMMA NewRestored ==
    ASSUME TypeOK, NEW s \in Sids, NEW d \in Delta, NEW born \in Nat, CreateSession(s, d, born),
           BeginEmpty => \A k \in DOMAIN d : Scope[k] # "session"
    PROVE  /\ DOMAIN sessions' = DOMAIN sessions \cup {s}
           /\ \A t \in DOMAIN sessions : sessions'[t] = sessions[t]
           /\ sessions'[s].events = <<>> /\ sessions'[s].state = InScope(d, {"session"})
           /\ RestoredSession(s)'
<1>1. /\ DOMAIN sessions' = DOMAIN sessions \cup {s}
      /\ \A t \in DOMAIN sessions : sessions'[t] = sessions[t]
      /\ sessions'[s] = NewSession(d, born)
  BY CreateTyped
<1>2. PICK kept : kept = InScope(d, {"session"}) /\ (BeginEmpty => DOMAIN kept = {})
  <2>1. DOMAIN InScope(d, {"session"}) = {k \in DOMAIN d : Scope[k] \in {"session"}}
    BY InScopeTyped
  <2> QED  BY <2>1
<1>3. sessions'[s].events = <<>> /\ sessions'[s].state = kept /\ sessions'[s].initial = kept
  BY <1>1, <1>2 DEF NewSession
<1>4. RestoredSession(s)'
  <2>1. Ordered(<<>>)
    BY DEF Ordered
  <2>2. BeginEmpty => Restored(kept, <<>>)
    BY <1>2, RestoredNothing
  <2> QED  BY <1>2, <1>3, <2>1, <2>2 DEF RestoredSession, BeginEmpty
<1> QED  BY <1>1, <1>2, <1>3, <1>4

LEMMA OpeningInStep ==
    ASSUME TypeOK, Alone, InStep, NEW s \in Sids, NEW d \in Delta, Opening(s, d)
    PROVE  InStep'
<1>1. PICK born \in Nat : born = invs + 1
  BY DEF TypeOK
<1>2. CreateSession(s, d, born) /\ UNCHANGED calls
  BY <1>1 DEF Opening
<1>3. BeginEmpty => \A k \in DOMAIN d : Scope[k] # "session"
  BY DEF Opening, BeginEmpty
<1>4. /\ DOMAIN sessions' = DOMAIN sessions \cup {s}
      /\ \A t \in DOMAIN sessions : sessions'[t] = sessions[t]
      /\ sessions'[s].events = <<>> /\ RestoredSession(s)'
  BY <1>2, <1>3, NewRestored
<1>5. ASSUME NEW t \in DOMAIN sessions' PROVE RestoredSession(t)'
  BY <1>4 DEF InStep, RestoredSession
<1>6. ASSUME NEW c \in Callers PROVE InStepCall(calls[c])'
  <2>1. PICK call : call = calls[c] /\ call = calls'[c]
    BY <1>2
  <2>2. SoundCall(call)' /\ Exact(call)' /\ Found(call)'
    BY <1>4, <2>1, SoundKept DEF InStep, InStepCall
  <2>3. Latest(call)'
    <3>1. Latest(call)
      BY <2>1 DEF InStep, InStepCall
    <3>2. \A t \in DOMAIN sessions' : t \in DOMAIN sessions \/ sessions'[t].events = <<>>
      BY <1>4
    <3>3. \A inv : Preceding(<<>>, inv)
      BY DEF Preceding
    <3> QED  BY <1>4, <3>1, <3>2, <3>3 DEF Latest
  <2> QED  BY <2>1, <2>2, <2>3 DEF InStepCall
<1> QED  BY <1>5, <1>6 DEF InStep

(* With one caller, its call is all there is to look at.                   *)
LEMMA AloneInStep ==
    ASSUME Alone, NEW c \in Callers, \A s \in DOMAIN sessions' : RestoredSession(s)',
           SoundCall(calls[c])', Exact(calls[c])', Found(calls[c])', Latest(calls[c])'
    PROVE  InStep'
BY DEF Alone, InStep, InStepCall

LEMMA SessionsStay ==
    ASSUME InStep, UNCHANGED sessions
    PROVE  /\ \A s \in DOMAIN sessions' : RestoredSession(s)'
           /\ \A c \in Callers : calls'[c].inv = calls[c].inv /\ calls[c].pc # "idle" => Latest(calls[c])'
BY DEF InStep, InStepCall, RestoredSession, BeginEmpty, Latest

LEMMA BeginningInStep ==
    ASSUME TypeOK, Issued, Alone, InStep, NEW c \in Callers, Beginning(c)
    PROVE  InStep'
<1>1. UNCHANGED sessions /\ calls'[c].pc = "read" /\ calls'[c].read = 1 /\ calls'[c].inv = invs + 1
      /\ calls'[c].todo = <<>> /\ calls'[c].last = NoEvent
  BY DEF Beginning, service
<1>2. Plain(calls[c])' /\ Exact(calls[c])' /\ Found(calls[c])'
  BY <1>1 DEF Plain, Exact, Found
<1>3. Latest(calls[c])'
  <2>1. ASSUME NEW s \in DOMAIN sessions, NEW i \in DOMAIN sessions[s].events
        PROVE  Inv(sessions[s].events[i]) <= invs + 1
    <3>1. PICK n : n = Inv(sessions[s].events[i])
      OBVIOUS
    <3>2. sessions[s].events[i] \in Event
      <4>1. sessions[s].events \in Seq(Event)
        BY DEF TypeOK, SessionsTyped, Session
      <4> QED  BY <4>1, ElementOfSeq
    <3>3. n \in Nat
      BY <3>1, <3>2 DEF Event, Ids, Inv
    <3>4. ~(n > invs)
      BY <3>1, <3>3 DEF Issued, Unheard
    <3> QED  BY <3>1, <3>3, <3>4 DEF TypeOK
  <2> QED  BY <1>1, <2>1 DEF Latest, Preceding
<1>4. \A s \in DOMAIN sessions' : RestoredSession(s)'
  BY <1>1, SessionsStay
<1> QED  BY <1>2, <1>3, <1>4, AloneInStep DEF SoundCall

LEMMA ReadingInStep ==
    ASSUME TypeOK, Staged, ServiceScoped, Alone, InStep, NEW c \in Callers, Reading(c)
    PROVE  InStep'
<1>1. /\ calls[c].pc = "read" /\ UNCHANGED <<sessions, shared>>
      /\ UNCHANGED <<calls[c].sid, calls[c].inv, calls[c].todo, calls[c].last>>
  BY DEF Reading, service
<1>2. calls[c].todo = <<>> /\ calls[c].last = NoEvent
  BY <1>1, StageFacts
<1>3. Plain(calls[c])'
  BY <1>1, <1>2 DEF Plain
<1>4. /\ \A s \in DOMAIN sessions' : RestoredSession(s)'
      /\ Latest(calls[c])'
  BY <1>1, SessionsStay
<1>5. calls[c].view.state \in Delta /\ shared["app"] \in Delta /\ shared["user"] \in Delta
  BY DEF TypeOK, Call, View, SharedTyped, Shared
<1>6. ASSUME NEW x \in Shared, NEW k \in Own
      PROVE  ValueIn(Extended(calls[c].view.state, shared[x]), k) = ValueIn(calls[c].view.state, k)
  <2>1. PICK state \in Delta, f \in Delta : state = calls[c].view.state /\ f = shared[x]
    BY <1>5 DEF Shared
  <2>2. k \notin DOMAIN f
    BY <2>1 DEF ServiceScoped, Own, Shared
  <2>3. PICK next : next = Extended(state, f)
    OBVIOUS
  <2>4. DOMAIN next = DOMAIN state \cup DOMAIN f
    BY <2>3, ExtendedTyped
  <2>5. \A j \in DOMAIN state \ DOMAIN f : Extended(state, f)[j] = state[j]
    BY ExtendedTyped
  <2> QED  BY <2>1, <2>2, <2>3, <2>4, <2>5 DEF ValueIn
<1>7. "app" \in Shared /\ "user" \in Shared
  BY DEF Shared
<1>8. Exact(calls[c]) /\ Found(calls[c])
  BY DEF InStep, InStepCall
<1>9. CASE /\ calls[c].read = 1 /\ Unlocked /\ calls[c].sid \in DOMAIN sessions
           /\ calls'[c].pc = "read" /\ calls'[c].read = 2
           /\ calls'[c].view.state = sessions[calls[c].sid].state
           /\ calls'[c].view.events = sessions[calls[c].sid].events
  <2>1. Exact(calls[c])' /\ Found(calls[c])'
    BY <1>1, <1>9 DEF Exact, Found
  <2> QED  BY <1>3, <1>4, <2>1, AloneInStep DEF SoundCall
<1>10. CASE calls'[c].pc = "create"
  <2>1. Exact(calls[c])' /\ Found(calls[c])'
    BY <1>10 DEF Exact, Found
  <2> QED  BY <1>3, <1>4, <2>1, AloneInStep DEF SoundCall
<1>11. ASSUME NEW x \in Shared, calls[c].read > 1,
              calls'[c].view.state = Extended(calls[c].view.state, shared[x]),
              UNCHANGED calls[c].view.events
       PROVE  InStep'
  <2>1. Exact(calls[c])' /\ Found(calls[c])'
    BY <1>1, <1>6, <1>8, <1>11 DEF Exact, Found
  <2> QED  BY <1>3, <1>4, <2>1, AloneInStep DEF SoundCall
<1> QED  BY <1>7, <1>9, <1>10, <1>11 DEF Reading

LEMMA CreatingInStep ==
    ASSUME TypeOK, Staged, Alone, InStep, NEW c \in Callers, Creating(c)
    PROVE  InStep'
<1>1. PICK s \in Sids, born \in Nat : s = calls[c].sid /\ born = calls[c].inv /\ calls[c].pc # "idle"
  BY StageFacts DEF Creating, TypeOK, Call
<1>2. CreateSession(s, NoState, born)
  BY <1>1 DEF Creating
<1>3. NoState \in Delta /\ (BeginEmpty => \A k \in DOMAIN NoState : Scope[k] # "session")
  BY NoStateTyped
<1>4. /\ DOMAIN sessions' = DOMAIN sessions \cup {s}
      /\ \A t \in DOMAIN sessions : sessions'[t] = sessions[t]
      /\ sessions'[s].events = <<>> /\ sessions'[s].state = InScope(NoState, {"session"})
      /\ RestoredSession(s)'
  BY <1>2, <1>3, NewRestored
<1>5. ASSUME NEW t \in DOMAIN sessions' PROVE RestoredSession(t)'
  BY <1>4 DEF InStep, RestoredSession
<1>6. calls'[c].pc = "read" /\ calls'[c].read = 2 /\ calls'[c].sid = s
      /\ calls'[c].view.state = NoState /\ calls'[c].view.events = <<>>
      /\ calls'[c].inv = calls[c].inv /\ calls'[c].todo = <<>> /\ calls'[c].last = NoEvent
  BY <1>1, StageFacts DEF Creating
<1>7. Plain(calls[c])'
  BY <1>6 DEF Plain
<1>8. Exact(calls[c])' /\ Found(calls[c])'
  <2>1. PICK kept : kept = InScope(NoState, {"session"}) /\ DOMAIN kept = {}
    <3>1. NoState \in Delta /\ DOMAIN NoState = {}
      BY NoStateTyped
    <3>2. DOMAIN InScope(NoState, {"session"}) = {k \in DOMAIN NoState : Scope[k] \in {"session"}}
      BY <3>1, InScopeTyped
    <3> QED  BY <3>1, <3>2
  <2>2. \A k : ValueIn(NoState, k) = ValueIn(kept, k)
    BY <2>1, NoStateTyped DEF ValueIn
  <2> QED  BY <1>4, <1>6, <2>1, <2>2 DEF Exact, Found
<1>9. Latest(calls[c])'
  <2>1. Latest(calls[c])
    BY DEF InStep, InStepCall
  <2>2. \A t \in DOMAIN sessions' : t \in DOMAIN sessions \/ sessions'[t].events = <<>>
    BY <1>4
  <2>3. \A inv : Preceding(<<>>, inv)
    BY DEF Preceding
  <2> QED  BY <1>1, <1>4, <1>6, <2>1, <2>2, <2>3 DEF Latest
<1> QED  BY <1>5, <1>7, <1>8, <1>9, AloneInStep DEF SoundCall

LEMMA PlanningInStep ==
    ASSUME TypeOK, Staged, Alone, InStep, NEW c \in Callers, Planning(c)
    PROVE  InStep'
<1>1. /\ calls'[c].pc = "append" /\ UNCHANGED sessions
      /\ UNCHANGED <<calls[c].sid, calls[c].inv, calls[c].last, calls[c].view>>
      /\ calls[c].pc \in {"agent", "rewind"}
  BY DEF Planning
<1>2. /\ \A s \in DOMAIN sessions' : RestoredSession(s)'
      /\ Latest(calls[c])' /\ Exact(calls[c])' /\ Found(calls[c])'
  BY <1>1, SessionsStay DEF Exact, Found, InStep, InStepCall
<1>3. ASSUME NEW reply \in Replies, calls[c].pc = "agent", DOMAIN calls'[c].todo = DOMAIN reply,
             \A i \in DOMAIN reply : calls'[c].todo[i].back = NoInv
      PROVE  SoundCall(calls[c])'
  <2>1. Plain(calls[c])
    BY <1>3 DEF InStep, InStepCall, SoundCall, Undoes
  <2>2. Plain(calls[c])'
    BY <1>1, <1>3, <2>1 DEF Plain
  <2> QED  BY <2>2 DEF SoundCall
<1>4. ASSUME calls[c].pc = "rewind", HasInvocation(calls[c].view.events, calls[c].target),
             calls'[c].todo = <<RewindEvent(calls[c])>>
      PROVE  SoundCall(calls[c])'
  <2>1. PICK call \in Call : call = calls[c]
    BY DEF TypeOK
  <2>2. PICK e \in Event : e = RewindEvent(call) /\ Restores(e, call.view.state, call.view.events)
    BY <1>4, <2>1, RewindEventTyped, RewindRestores
  <2>3. /\ call.sid \in DOMAIN sessions /\ call.view.events = sessions[call.sid].events
        /\ \A k \in Own : ValueIn(sessions[call.sid].state, k) = ValueIn(call.view.state, k)
    BY <1>4, <2>1 DEF InStep, InStepCall, Exact, Found
  <2>4. Restores(e, sessions[call.sid].state, sessions[call.sid].events)
    BY <2>2, <2>3, RestoresSame
  <2>5. calls'[c].last = NoEvent
    BY <1>1, <1>4, StageFacts
  <2>6. Undoes(calls[c], e)'
    BY <1>1, <1>4, <2>1, <2>2, <2>3, <2>4, <2>5 DEF Undoes
  <2> QED  BY <2>6 DEF SoundCall
<1>5. SoundCall(calls[c])'
  BY <1>3, <1>4 DEF Planning
<1> QED  BY <1>2, <1>5, AloneInStep

LEMMA ReturningInStep ==
    ASSUME Alone, InStep, NEW c \in Callers, Returning(c)
    PROVE  InStep'
<1>1. calls'[c] = Idle /\ UNCHANGED sessions
  BY DEF Returning
<1>2. Plain(calls[c])' /\ Exact(calls[c])' /\ Found(calls[c])' /\ Latest(calls[c])'
  BY <1>1, IdleFields DEF Plain, Exact, Found, Latest
<1>3. \A s \in DOMAIN sessions' : RestoredSession(s)'
  BY <1>1, SessionsStay
<1> QED  BY <1>2, <1>3, AloneInStep DEF SoundCall

(* What a call that rewinds appends is its rewind.                         *)
LEMMA AppendsRewind ==
    ASSUME TypeOK, Staged, NEW c \in Callers, NEW e, Appending(c, e), NEW f, Undoes(calls[c], f)
    PROVE  /\ e = f /\ calls'[c].pc = "append" /\ calls'[c].todo = <<>>
           /\ calls'[c].last = e \/ calls'[c].last = NoEvent
<1>1. calls[c].pc = "append" /\ <<f>> # <<>>
  BY DEF Undoes
<1>2. CASE calls[c].last # NoEvent /\ e = calls[c].last
           /\ calls'[c].last = NoEvent /\ UNCHANGED <<calls[c].pc, calls[c].todo, calls[c].read>>
  BY <1>1, <1>2 DEF Undoes
<1>3. CASE /\ calls'[c].last = IF Redeliveries THEN e ELSE NoEvent
           /\ calls[c].pc = "append" /\ calls'[c].pc = "append" /\ calls[c].todo # <<>>
           /\ e = Head(calls[c].todo) /\ calls'[c].todo = Tail(calls[c].todo)
  <2>1. calls[c].todo = <<f>>
    BY <1>3 DEF Undoes
  <2>2. Head(<<f>>) = f /\ Tail(<<f>>) = <<>>
    OBVIOUS
  <2> QED  BY <1>3, <2>1, <2>2
<1> QED  BY <1>1, <1>2, <1>3 DEF Appending

LEMMA AppendsPlain ==
    ASSUME TypeOK, Staged, NEW c \in Callers, NEW e, Appending(c, e), Plain(calls[c])
    PROVE  e.back = NoInv /\ Plain(calls[c])'
<1>1. CASE calls[c].last # NoEvent /\ e = calls[c].last
           /\ calls'[c].last = NoEvent /\ UNCHANGED <<calls[c].pc, calls[c].todo, calls[c].read>>
  BY <1>1 DEF Plain
<1>2. CASE /\ calls'[c].last = IF Redeliveries THEN e ELSE NoEvent
           /\ UNCHANGED calls[c].todo /\ e.back = NoInv
  BY <1>2 DEF Plain
<1>3. CASE /\ calls'[c].last = IF Redeliveries THEN e ELSE NoEvent
           /\ calls[c].todo # <<>>
           /\ e = Head(calls[c].todo) /\ calls'[c].todo = Tail(calls[c].todo)
  <2>1. PICK todo \in Seq(Event) : todo = calls[c].todo
    BY DEF TypeOK, Call
  <2>2. PICK rest : rest = Tail(todo)
    OBVIOUS
  <2>3. 1 \in DOMAIN todo /\ e = todo[1] /\ \A i \in DOMAIN rest : i + 1 \in DOMAIN todo /\ rest[i] = todo[i + 1]
    BY <1>3, <2>1, <2>2
  <2>4. \A i \in DOMAIN todo : todo[i].back = NoInv
    BY <2>1 DEF Plain
  <2>5. e.back = NoInv /\ \A i \in DOMAIN rest : rest[i].back = NoInv
    BY <2>3, <2>4
  <2> QED  BY <1>3, <2>1, <2>2, <2>5 DEF Plain
<1> QED  BY <1>1, <1>2, <1>3 DEF Appending

LEMMA AppendingInStep ==
    ASSUME TypeOK, Staged, Issued, Alone, InStep, NEW c \in Callers, NEW e, Appending(c, e)
    PROVE  InStep'
<1>1. PICK s \in Sids : s = calls[c].sid
  BY DEF Appending
<1>2. /\ e \in Event /\ AppendEvent(s, e) /\ calls[c].pc # "idle"
      /\ calls'[c].sid = s /\ calls'[c].inv = calls[c].inv
  BY <1>1 DEF Appending
<1>3. Exact(calls[c])'
  <2>1. calls[c].pc \notin {"rewind", "read"} \/ calls[c].last = NoEvent
    BY <1>2, StageFacts
  <2> QED  BY <2>1 DEF Appending, Exact
<1>4. Inv(e) = calls[c].inv /\ Inv(Trimmed(e)) = calls[c].inv
  BY AppendsOwn DEF Issued
<1>5. /\ Latest(calls[c]) /\ SoundCall(calls[c]) /\ Found(calls[c])
      /\ \A t \in DOMAIN sessions : RestoredSession(t)
  BY DEF InStep, InStepCall
<1>6. CASE UNCHANGED sessions
  <2>1. ASSUME Plain(calls[c]) PROVE SoundCall(calls[c])'
    BY <2>1, AppendsPlain DEF SoundCall
  <2>2. ASSUME NEW f, Undoes(calls[c], f) PROVE SoundCall(calls[c])'
    <3>1. /\ e = f /\ calls'[c].pc = "append" /\ calls'[c].todo = <<>>
          /\ calls'[c].last = e \/ calls'[c].last = NoEvent
      BY <2>2, AppendsRewind
    <3>2. CASE calls'[c].last = NoEvent
      BY <3>1, <3>2 DEF SoundCall, Plain
    <3>3. CASE calls'[c].last = e
      <4>1. Undoes(calls[c], e)'
        BY <1>1, <1>2, <1>6, <2>2, <3>1, <3>3 DEF Undoes
      <4> QED  BY <4>1 DEF SoundCall
    <3> QED  BY <3>1, <3>2, <3>3
  <2>3. SoundCall(calls[c])'
    BY <1>5, <2>1, <2>2 DEF SoundCall
  <2>4. Found(calls[c])'
    BY <1>1, <1>2, <1>5, <1>6 DEF Found, Appending
  <2> QED  BY <1>2, <1>3, <1>6, <2>3, <2>4, SessionsStay, AloneInStep
<1>7. CASE Appended(s, e)
  <2>1. /\ s \in DOMAIN sessions /\ DOMAIN sessions' = DOMAIN sessions
        /\ \A t \in DOMAIN sessions \ {s} : sessions'[t] = sessions[t]
        /\ sessions'[s].initial = sessions[s].initial
    BY <1>7 DEF Appended
  <2>2. Ordered(sessions[s].events) /\ Preceding(sessions[s].events, Inv(e))
    BY <1>2, <1>4, <1>5, <2>1 DEF RestoredSession, Latest
  <2>3. Sound(e, sessions[s].state, sessions[s].events)
    <3>1. ASSUME Plain(calls[c]) PROVE e.back = NoInv
      BY <3>1, AppendsPlain
    <3>2. ASSUME NEW f, Undoes(calls[c], f) PROVE Restores(e, sessions[s].state, sessions[s].events)
      BY <1>1, <3>2, AppendsRewind DEF Undoes
    <3> QED  BY <1>5, <3>1, <3>2 DEF Sound, SoundCall
  <2>4. /\ Ordered(sessions'[s].events) /\ Sound(e, sessions'[s].state, sessions'[s].events)
        /\ Restored(sessions[s].state, sessions[s].events) => Restored(sessions'[s].state, sessions'[s].events)
    BY <1>2, <1>7, <2>1, <2>2, <2>3, SessionRestored
  <2>5. ASSUME NEW t \in DOMAIN sessions' PROVE RestoredSession(t)'
    <3>1. CASE t = s
      <4>1. RestoredSession(s)
        BY <1>5, <2>1
      <4>2. BeginEmpty => DOMAIN sessions'[s].initial = {}
        BY <2>1, <4>1 DEF RestoredSession
      <4> QED  BY <2>4, <3>1, <4>1, <4>2 DEF RestoredSession, BeginEmpty
    <3>2. CASE t # s
      <4>1. t \in DOMAIN sessions /\ sessions'[t] = sessions[t]
        BY <2>1, <3>2
      <4> QED  BY <1>5, <4>1 DEF RestoredSession, BeginEmpty
    <3> QED  BY <3>1, <3>2
  <2>6. ASSUME Plain(calls[c]) PROVE SoundCall(calls[c])'
    BY <2>6, AppendsPlain DEF SoundCall
  <2>7. ASSUME NEW f, Undoes(calls[c], f) PROVE SoundCall(calls[c])'
    <3>1. /\ e = f /\ calls'[c].pc = "append" /\ calls'[c].todo = <<>>
          /\ calls'[c].last = e \/ calls'[c].last = NoEvent
      BY <2>7, AppendsRewind
    <3>2. CASE calls'[c].last = NoEvent \/ e.back = NoInv
      BY <3>1, <3>2 DEF SoundCall, Plain
    <3>3. CASE calls'[c].last = e /\ e.back # NoInv
      <4>1. Restores(e, sessions'[s].state, sessions'[s].events)
        BY <2>4, <3>3 DEF Sound
      <4>2. Undoes(calls[c], e)'
        BY <1>2, <2>1, <2>7, <3>1, <3>3, <4>1 DEF Undoes
      <4> QED  BY <4>2 DEF SoundCall
    <3> QED  BY <3>1, <3>2, <3>3
  <2>8. SoundCall(calls[c])'
    BY <1>5, <2>6, <2>7 DEF SoundCall
  <2>9. Latest(calls[c])'
    <3>1. ASSUME NEW t \in DOMAIN sessions' PROVE Preceding(sessions'[t].events, calls[c].inv)
      <4>1. CASE t # s
        BY <1>2, <1>5, <2>1, <4>1 DEF Latest
      <4>2. CASE t = s
        <5>1. PICK events \in Seq(Event), more \in Seq(Event), n \in Nat, f \in Event :
                 /\ events = sessions[s].events /\ more = sessions'[s].events /\ f = Trimmed(e)
                 /\ NextIs(more, events, n, f)
          BY <1>2, <1>7, <2>1, <2>2, SessionNext
        <5>2. Inv(f) = calls[c].inv /\ Inv(f) \in Nat
          BY <1>4, <5>1 DEF TypeOK, Call
        <5>3. \A i \in DOMAIN more : i \in DOMAIN events \/ i = n + 1
          BY <5>1 DEF NextIs, Continues
        <5>4. \A i \in DOMAIN events : more[i] = events[i] /\ Inv(events[i]) <= Inv(f)
          BY <5>1 DEF NextIs, Continues, Preceding
        <5>5. more[n + 1] = f
          BY <5>1 DEF NextIs
        <5>6. Preceding(more, Inv(f))
          BY <5>2, <5>3, <5>4, <5>5 DEF Preceding
        <5> QED  BY <4>2, <5>1, <5>2, <5>6
      <4> QED  BY <4>1, <4>2
    <3> QED  BY <1>2, <3>1 DEF Latest
  <2>10. Found(calls[c])'
    BY <1>2, <2>1 DEF Found
  <2> QED  BY <1>3, <2>5, <2>8, <2>9, <2>10, AloneInStep
<1> QED  BY <1>2, <1>6, <1>7, AppendCases

LEMMA InStepKept ==
    ASSUME TypeOK, Staged, Issued, ServiceScoped, Alone, InStep, StepShape
    PROVE  InStep'
<1>1. CASE UNCHANGED <<sessions, calls>>
  BY <1>1 DEF InStep, InStepCall, RestoredSession, BeginEmpty, SoundCall, Plain, Undoes, Exact, Found, Latest
<1>2. ASSUME NEW c \in Callers, Moving(c) PROVE InStep'
  BY <1>2, BeginningInStep, ReadingInStep, CreatingInStep, PlanningInStep, ReturningInStep,
     AppendingInStep DEF Moving
<1>3. ASSUME NEW s \in Sids, NEW d \in Delta, Opening(s, d) PROVE InStep'
  BY <1>3, OpeningInStep
<1>4. ASSUME NEW s \in Sids, Deleting(s) PROVE FALSE
  BY <1>4 DEF Deleting, Alone
<1>5. CASE WriteUserState /\ UNCHANGED <<calls, invs>>
  BY <1>1, <1>5 DEF WriteUserState
<1>6. CASE UNCHANGED vars
  BY <1>1, <1>6 DEF vars, service
<1> QED  BY <1>2, <1>3, <1>4, <1>5, <1>6 DEF StepShape

LEMMA InStepRestores ==
    ASSUME TypeOK, BeginEmpty, InStep
    PROVE  RewindRestoresState
<1> SUFFICES ASSUME NEW s \in DOMAIN sessions, NEW k \in Own
             PROVE  ValueIn(sessions[s].state, k)
                       = Replay(sessions[s].initial, sessions[s].events, ApplyRewinds(sessions[s].events), k)
  BY DEF RewindRestoresState, Own, ValueIn
<1>1. PICK events \in Seq(Event) : events = sessions[s].events
  BY DEF TypeOK, SessionsTyped, Session
<1>2. PICK state, initial : /\ state = sessions[s].state /\ initial = sessions[s].initial
                            /\ DOMAIN initial = {} /\ Restored(state, events)
  BY <1>1 DEF InStep, RestoredSession
<1>3. PICK n \in Nat : n = Len(events)
  OBVIOUS
<1>4. ApplyRewinds(events) = Live(events)[n]
  BY <1>3, LiveIs
<1>5. n \in 0 .. n
  OBVIOUS
<1>6. ValueIn(state, k) = Replay(NoState, events, Live(events)[n], k)
  <2>1. DOMAIN events = 1 .. n /\ 1 .. n \in SUBSET (1 .. n)
    BY <1>3
  <2>2. Live(events)[n] \subseteq 1 .. n
    BY <1>3, <1>5, LiveAmong
  <2>3. Replayed(events, k)[1 .. n] = Replayed(events, k)[Live(events)[n]]
    BY <1>2, <1>3, <1>5 DEF Restored, Led
  <2> QED  BY <1>2, <1>3, <2>1, <2>2, <2>3 DEF Restored, Replayed
<1>7. \A I : Replay(initial, events, I, k) = Replay(NoState, events, I, k)
  BY <1>2, NoStateTyped DEF Replay
<1> QED  BY <1>1, <1>2, <1>4, <1>6, <1>7

(* RewindRestoresState: with one call at a time over sessions that are not *)
(* deleted and start without keys of their own, the stored state is always *)
(* the one that the live events lead to.                                   *)
THEOREM RewindsRestoreState ==
    ASSUME Alone, BeginEmpty
    PROVE  Spec => []RewindRestoresState
<1> DEFINE IInv == TypeOK /\ Staged /\ Issued /\ ServiceScoped /\ InStep
<1>1. Init => IInv
  BY InitTyped, InitIssued, InitScoped, InitInStep
<1>2. IInv /\ [Next]_vars => IInv'
  <2> SUFFICES ASSUME IInv, [Next]_vars PROVE IInv'
    OBVIOUS
  <2>1. StepShape /\ TypeOK' /\ Staged'
    BY Typed
  <2>2. Issued'
    BY <2>1, IssuedKept
  <2>3. ServiceScoped'
    BY <2>1, ScopedKept
  <2>4. InStep'
    BY <2>1, InStepKept
  <2> QED  BY <2>1, <2>2, <2>3, <2>4
<1>3. IInv => RewindRestoresState
  BY InStepRestores
<1> QED  BY <1>1, <1>2, <1>3, PTL DEF Spec

-----------------------------------------------------------------------------
(* Rewinds restore the artifact.                                           *)

(* What some events record rests on those events alone, and the last one   *)
(* that saved decides.                                                     *)
LEMMA RecordedSame ==
    ASSUME NEW events, NEW more, NEW n \in Nat, Continues(more, events, n), NEW I \in SUBSET (1 .. n)
    PROVE  RecordedVersion(more, I) = RecordedVersion(events, I)
<1> DEFINE W(s) == {i \in I : s[i].version # NoVersion}
<1>1. W(more) = W(events)
  BY DEF Continues
<1>2. W(events) \in SUBSET (1 .. n)
  OBVIOUS
<1>3. \A s : RecordedVersion(s, I) = IF W(s) = {} THEN NoVersion ELSE s[Max(W(s))].version
  BY DEF RecordedVersion
<1> HIDE DEF W
<1>4. ASSUME W(events) # {} PROVE more[Max(W(events))] = events[Max(W(events))]
  <2>1. Max(W(events)) \in 1 .. n
    BY <1>2, <1>4, MaxUpTo
  <2> QED  BY <2>1 DEF Continues
<1> QED  BY <1>1, <1>3, <1>4

VersionAt(events, m) == events[m].version

LEMMA RecordedLast ==
    ASSUME NEW events, NEW m \in Nat, NEW X \in SUBSET (1 .. m), m \in X
    PROVE  RecordedVersion(events, X) = IF VersionAt(events, m) # NoVersion THEN VersionAt(events, m)
                                        ELSE RecordedVersion(events, X \ {m})
<1> DEFINE W(Y) == {i \in Y : events[i].version # NoVersion}
<1>1. \A Y : RecordedVersion(events, Y) = IF W(Y) = {} THEN NoVersion ELSE events[Max(W(Y))].version
  BY DEF RecordedVersion
<1>2. CASE VersionAt(events, m) = NoVersion
  <2>1. W(X) = W(X \ {m})
    BY <1>2 DEF VersionAt
  <2> HIDE DEF W
  <2> QED  BY <1>1, <1>2, <2>1
<1>3. CASE VersionAt(events, m) # NoVersion
  <2>1. PICK V : V = W(X)
    OBVIOUS
  <2>2. m \in V
    BY <1>3, <2>1 DEF VersionAt
  <2>3. V \in SUBSET (1 .. m)
    BY <2>1
  <2>4. Max(V) \in 1 .. m /\ Max(V) >= m
    BY <2>2, <2>3, MaxUpTo
  <2>5. Max(V) = m
    BY <2>4
  <2> HIDE DEF W
  <2> QED  BY <1>1, <1>3, <2>1, <2>2, <2>5 DEF VersionAt
<1> QED  BY <1>2, <1>3

(* The version recorded last.                                              *)
Newest(events) == RecordedVersion(events, DOMAIN events)

LEMMA NewestNone == Newest(<<>>) = NoVersion
BY DEF Newest, RecordedVersion

LEMMA NewestNext ==
    ASSUME NEW events \in Seq(Event), NEW more \in Seq(Event), NEW n \in Nat, Continues(more, events, n)
    PROVE  Newest(more) = IF VersionAt(more, n + 1) # NoVersion THEN VersionAt(more, n + 1)
                          ELSE Newest(events)
<1>1. PICK m \in Nat : m = n + 1
  OBVIOUS
<1>2. DOMAIN events = 1 .. n /\ DOMAIN more = 1 .. m
  BY <1>1 DEF Continues
<1>3. PICK X \in SUBSET (1 .. m) : X = 1 .. m /\ m \in X /\ X \ {m} = 1 .. n
  <2>1. m \in 1 .. m /\ (1 .. m) \ {m} = 1 .. n
    BY <1>1
  <2> QED  BY <2>1
<1>4. RecordedVersion(more, X) = IF VersionAt(more, m) # NoVersion THEN VersionAt(more, m)
                                 ELSE RecordedVersion(more, X \ {m})
  <2>1. m \in X
    BY <1>3
  <2> QED  BY <2>1, RecordedLast
<1>5. RecordedVersion(more, 1 .. n) = RecordedVersion(events, 1 .. n)
  BY RecordedSame
<1> QED  BY <1>1, <1>2, <1>3, <1>4, <1>5 DEF Newest

(* The version recorded first counts if there is no other.                 *)
LEMMA NewestTail ==
    ASSUME NEW todo \in Seq(Event), todo # <<>>, NEW rest, rest = Tail(todo)
    PROVE  Newest(todo) = IF Newest(rest) # NoVersion THEN Newest(rest) ELSE VersionAt(todo, 1)
<1> DEFINE W == {i \in DOMAIN todo : todo[i].version # NoVersion}
           V == {i \in DOMAIN rest : rest[i].version # NoVersion}
<1>1. PICK n \in Nat : n = Len(rest)
  OBVIOUS
<1>2. DOMAIN rest = 1 .. n /\ DOMAIN todo = 1 .. n + 1 /\ \A i \in 1 .. n : rest[i] = todo[i + 1]
  BY <1>1
<1>3. /\ \A i \in V : i \in 1 .. n /\ i + 1 \in W
      /\ \A i \in W : i \in 1 .. n + 1 /\ (i = 1 \/ i - 1 \in V)
      /\ 1 \in W <=> VersionAt(todo, 1) # NoVersion
  <2>1. \A i \in V : i \in 1 .. n /\ i + 1 \in W
    BY <1>2
  <2>2. ASSUME NEW i \in W PROVE i \in 1 .. n + 1 /\ (i = 1 \/ i - 1 \in V)
    <3>1. i \in 1 .. n + 1 /\ (i = 1 \/ i - 1 \in 1 .. n) /\ todo[i].version # NoVersion
      BY <1>2
    <3>2. i - 1 \in 1 .. n => rest[i - 1] = todo[i]
      BY <1>2, <3>1
    <3> QED  BY <1>2, <3>1, <3>2
  <2>3. 1 \in W <=> VersionAt(todo, 1) # NoVersion
    BY <1>2 DEF VersionAt
  <2> QED  BY <2>1, <2>2, <2>3
<1>4. /\ Newest(todo) = IF W = {} THEN NoVersion ELSE todo[Max(W)].version
      /\ Newest(rest) = IF V = {} THEN NoVersion ELSE rest[Max(V)].version
  BY DEF Newest, RecordedVersion
<1>5. CASE V = {}
  <2>1. \A i \in W : i = 1
    BY <1>3, <1>5
  <2>2. CASE VersionAt(todo, 1) = NoVersion
    <3>1. W = {}
      BY <1>3, <2>1, <2>2
    <3> QED  BY <1>4, <1>5, <2>2, <3>1
  <2>3. CASE VersionAt(todo, 1) # NoVersion
    <3>1. W # {} /\ W \in SUBSET (1 .. 1)
      BY <1>3, <2>1, <2>3
    <3> HIDE DEF W
    <3>2. Max(W) = 1
      <4>1. Max(W) \in W
        BY <3>1, MaxUpTo
      <4> QED  BY <2>1, <4>1
    <3> QED  BY <1>4, <1>5, <3>1, <3>2 DEF VersionAt
  <2> QED  BY <2>2, <2>3
<1>6. CASE V # {}
  <2>1. V \in SUBSET (1 .. n) /\ W \in SUBSET (1 .. n + 1) /\ n + 1 \in Nat
    BY <1>2
  <2>2. \A i \in V : rest[i].version # NoVersion
    OBVIOUS
  <2> HIDE DEF V, W
  <2>3. PICK v \in 1 .. n : v = Max(V) /\ v \in V /\ \A y \in V : v >= y
    BY <1>6, <2>1, MaxUpTo
  <2>4. v + 1 \in W
    BY <1>3, <2>3
  <2>5. PICK w \in 1 .. n + 1 : w = Max(W) /\ w \in W /\ \A y \in W : w >= y
    BY <2>1, <2>4, MaxUpTo
  <2>6. w >= v + 1
    BY <2>4, <2>5
  <2>7. w = 1 \/ v >= w - 1
    BY <1>3, <2>3, <2>5
  <2>8. w = v + 1
    BY <2>6, <2>7
  <2>9. todo[w] = rest[v] /\ rest[v].version # NoVersion
    BY <1>2, <2>2, <2>3, <2>8
  <2> QED  BY <1>4, <1>6, <2>3, <2>4, <2>5, <2>9
<1> QED  BY <1>5, <1>6

(* The store of an artifact and the versions that it has.                  *)
Load(store, v) == IF v + 1 \in DOMAIN store THEN store[v + 1] ELSE Placeholder

Known(store, v) == v = NoVersion \/ v + 1 \in DOMAIN store

VersionsIn(store, events) == \A i \in DOMAIN events : Known(store, events[i].version)

(* More versions do not change those there are.                            *)
Grown(store, more) ==
    /\ 0 \notin DOMAIN more /\ DOMAIN store \subseteq DOMAIN more
    /\ \A i \in DOMAIN store : more[i] = store[i]

LEMMA LoadGrown ==
    ASSUME NEW store, NEW more, Grown(store, more), NEW v, Known(store, v)
    PROVE  Load(more, v) = Load(store, v) /\ Known(more, v)
<1>1. NoVersion + 1 = 0
  BY DEF NoVersion
<1> QED  BY <1>1 DEF Grown, Known, Load

LEMMA RecordedIn ==
    ASSUME NEW store, NEW events \in Seq(Event), VersionsIn(store, events), NEW I \in SUBSET DOMAIN events
    PROVE  Known(store, RecordedVersion(events, I))
<1> DEFINE W == {i \in I : events[i].version # NoVersion}
<1>1. CASE W = {}
  BY <1>1 DEF RecordedVersion, Known
<1>2. CASE W # {}
  <2>1. Max(W) \in W
    BY <1>2, LastOf
  <2>2. RecordedVersion(events, I) = events[Max(W)].version
    BY <1>2 DEF RecordedVersion
  <2>3. Max(W) \in DOMAIN events
    BY <2>1
  <2> QED  BY <2>2, <2>3 DEF VersionsIn
<1> QED  BY <1>1, <1>2

(* What sets of the events lead to.                                        *)
Content(store, events) == [I \in SUBSET DOMAIN events |-> Load(store, RecordedVersion(events, I))]

Held(store, events) == VersionsIn(store, events) /\ Led(Content(store, events), events)

LEMMA HeldNothing ==
    ASSUME NEW store
    PROVE  Held(store, <<>>)
BY LedNothing DEF Held, VersionsIn

LEMMA HeldGrown ==
    ASSUME NEW store, NEW more, Grown(store, more), NEW events \in Seq(Event), Held(store, events)
    PROVE  Held(more, events)
<1>1. \A i \in DOMAIN events : Known(more, events[i].version)
  BY LoadGrown DEF Held, VersionsIn
<1>2. ASSUME NEW I \in SUBSET DOMAIN events
      PROVE  Load(more, RecordedVersion(events, I)) = Load(store, RecordedVersion(events, I))
  BY RecordedIn, LoadGrown DEF Held
<1>3. Content(more, events) = Content(store, events)
  BY <1>2 DEF Content
<1> QED  BY <1>1, <1>3 DEF Held, VersionsIn

LEMMA ContentOn ==
    ASSUME NEW events \in Seq(Event), NEW more \in Seq(Event), NEW n \in Nat, NEW store,
           Continues(more, events, n)
    PROVE  LedOn(Content(store, more), Content(store, events), n)
<1>1. PICK m \in Nat : m = n + 1
  OBVIOUS
<1>2. DOMAIN events = 1 .. n /\ DOMAIN more = 1 .. m
  BY <1>1 DEF Continues
<1>3. ASSUME NEW I \in SUBSET (1 .. n)
      PROVE  /\ Content(store, more)[I] = Content(store, events)[I]
             /\ Content(store, more)[I \cup {m}] =
                   IF VersionAt(more, m) # NoVersion THEN Load(store, VersionAt(more, m))
                   ELSE Content(store, events)[I]
  <2>1. I \in SUBSET (1 .. m) /\ m \notin I
    BY <1>1
  <2>2. PICK X \in SUBSET (1 .. m) : X = I \cup {m} /\ m \in X /\ X \ {m} = I
    <3>1. I \cup {m} \in SUBSET (1 .. m) /\ (I \cup {m}) \ {m} = I
      BY <1>1, <2>1
    <3> QED  BY <3>1
  <2>3. RecordedVersion(more, X) = IF VersionAt(more, m) # NoVersion THEN VersionAt(more, m)
                                   ELSE RecordedVersion(more, X \ {m})
    <3>1. m \in X
      BY <2>2
    <3> QED  BY <3>1, RecordedLast
  <2>4. RecordedVersion(more, I) = RecordedVersion(events, I)
    BY RecordedSame
  <2> QED  BY <1>2, <2>1, <2>2, <2>3, <2>4 DEF Content
<1> QED  BY <1>1, <1>3 DEF LedOn

(* The version a rewind leaves behind holds what there was before its      *)
(* target.                                                                 *)
After(e, events) == IF e.version # NoVersion THEN e.version ELSE Newest(events)

Returns(e, store, events) ==
    /\ HasInvocation(events, e.back)
    /\ Load(store, After(e, events))
          = Load(store, RecordedVersion(events, 1 .. RewindIndex(events, e.back) - 1))

LEMMA HeldNext ==
    ASSUME NEW events \in Seq(Event), NEW more \in Seq(Event), NEW n \in Nat, NEW e \in Event,
           NextIs(more, events, n, e), Ordered(events),
           NEW store, Held(store, events), Known(store, e.version),
           e.back = NoInv \/ Returns(e, store, events)
    PROVE  Held(store, more)
<1>1. /\ n = Len(events) /\ Len(more) = n + 1 /\ more[n + 1] = e /\ Continues(more, events, n)
      /\ \A j \in 1 .. n : more[j] = events[j]
      /\ DOMAIN events = 1 .. n /\ DOMAIN more = 1 .. n + 1
  BY DEF Continues, NextIs
<1>2. VersionsIn(store, more)
  <2>1. \A i \in 1 .. n + 1 : i \in 1 .. n \/ i = n + 1
    OBVIOUS
  <2> QED  BY <1>1, <2>1 DEF Held, VersionsIn
<1>3. PICK f, g : f = Content(store, events) /\ g = Content(store, more)
  OBVIOUS
<1>4. LedOn(g, f, n) /\ Led(f, events)
  BY <1>1, <1>3, ContentOn DEF Held
<1>5. ASSUME e.back # NoInv PROVE LedBack(g, f, events, n, e)
  <2>1. Returns(e, store, events)
    BY <1>5
  <2>2. PICK p \in 1 .. n : p = RewindIndex(events, e.back)
    BY <1>1, <2>1, RewindIndexFirst DEF Returns
  <2>3. 1 .. p - 1 \in SUBSET (1 .. n) /\ 1 .. n + 1 \in SUBSET (1 .. n + 1)
    OBVIOUS
  <2>4. f[1 .. p - 1] = Load(store, RecordedVersion(events, 1 .. p - 1))
    BY <1>1, <1>3, <2>3 DEF Content
  <2>5. g[1 .. n + 1] = Load(store, Newest(more))
    BY <1>1, <1>3, <2>3 DEF Content, Newest
  <2>6. Newest(more) = After(e, events)
    BY <1>1, NewestNext DEF After, VersionAt
  <2> QED  BY <2>1, <2>2, <2>4, <2>5, <2>6 DEF LedBack, Returns
<1>6. Led(g, more)
  BY <1>4, <1>5, LedNext
<1> QED  BY <1>2, <1>3, <1>6 DEF Held

LEMMA ReturnsAgain ==
    ASSUME NEW events \in Seq(Event), NEW more \in Seq(Event), NEW n \in Nat, NEW e \in Event,
           NextIs(more, events, n, e), NEW store, Returns(e, store, events)
    PROVE  Returns(e, store, more)
<1>1. n = Len(events) /\ DOMAIN events = 1 .. n /\ Continues(more, events, n) /\ more[n + 1] = e
  BY DEF Continues, NextIs
<1>2. PICK inv : inv = e.back /\ HasInvocation(events, inv)
  BY DEF Returns
<1>3. HasInvocation(more, inv) /\ RewindIndex(more, inv) = RewindIndex(events, inv)
  BY <1>1, <1>2, SameIndex
<1>4. PICK p \in 1 .. n : p = RewindIndex(events, inv)
  BY <1>1, <1>2, RewindIndexFirst
<1>5. RecordedVersion(more, 1 .. p - 1) = RecordedVersion(events, 1 .. p - 1)
  <2>1. 1 .. p - 1 \in SUBSET (1 .. n)
    OBVIOUS
  <2> QED  BY <1>1, <2>1, RecordedSame
<1>6. After(e, more) = After(e, events)
  BY <1>1, NewestNext DEF After, VersionAt
<1> QED  BY <1>2, <1>3, <1>4, <1>5, <1>6 DEF Returns

(* What save_artifact does to the versions there are.                      *)
LEMMA Saves ==
    ASSUME ArtifactsTyped, NEW s \in Sids, NEW contents,
           contents \in Seq(Range(contents)), SaveArtifacts(s, contents)
    PROVE  /\ Grown(artifacts[s], artifacts'[s])
           /\ Len(artifacts[s]) \in Nat /\ Len(contents) \in Nat
           /\ Len(artifacts'[s]) = Len(artifacts[s]) + Len(contents)
           /\ DOMAIN artifacts[s] = 1 .. Len(artifacts[s])
           /\ DOMAIN artifacts'[s] = 1 .. Len(artifacts[s]) + Len(contents)
           /\ \A j \in 1 .. Len(contents) : artifacts'[s][Len(artifacts[s]) + j] = contents[j]
           /\ \A t \in Sids \ {s} : artifacts'[t] = artifacts[t]
<1>1. PICK store : store = artifacts[s] /\ store \in Seq(Range(store))
  BY DEF ArtifactsTyped
<1>2. PICK S : S = Range(store) \cup Range(contents)
  OBVIOUS
<1>3. store \in Seq(S) /\ contents \in Seq(S)
  BY <1>1, <1>2, SeqMonotonic
<1>4. PICK more : more = store \o contents
  OBVIOUS
<1>5. PICK n \in Nat, k \in Nat : n = Len(store) /\ k = Len(contents)
  BY <1>3
<1>6. /\ Len(more) = n + k /\ DOMAIN more = 1 .. n + k /\ DOMAIN store = 1 .. n
      /\ \A i \in 1 .. n : more[i] = store[i]
      /\ \A j \in 1 .. k : more[n + j] = contents[j]
  BY <1>3, <1>4, <1>5
<1>7. Grown(store, more)
  <2>1. 0 \notin 1 .. n + k /\ 1 .. n \subseteq 1 .. n + k
    OBVIOUS
  <2> QED  BY <1>6, <2>1 DEF Grown
<1>8. artifacts'[s] = more /\ \A t \in Sids \ {s} : artifacts'[t] = artifacts[t]
  BY <1>1, <1>4 DEF SaveArtifacts, ArtifactsTyped
<1> QED  BY <1>1, <1>5, <1>6, <1>7, <1>8

(* The versions the agent saved are numbered one after the other, behind   *)
(* those there were.                                                       *)
Savings(reply) == {i \in DOMAIN reply : reply[i].saves}

LEMMA SavedLen ==
    ASSUME NEW inv, NEW reply \in Seq(Shape)
    PROVE  /\ Len(Saved(inv, reply)) = Cardinality(Savings(reply)) /\ Cardinality(Savings(reply)) \in Nat
           /\ Saved(inv, reply) \in Seq(Range(Saved(inv, reply)))
<1>1. IsFiniteSet(DOMAIN reply)
  BY FS_Interval, LenProperties
<1>2. PICK n \in Nat : n = Cardinality(Savings(reply))
  BY <1>1, FS_Subset, FS_CardinalityType DEF Savings
<1> DEFINE nth(j) == CHOOSE i \in Savings(reply) : Cardinality({h \in Savings(reply) : h <= i}) = j
<1>3. Saved(inv, reply) = [j \in 1 .. n |-> <<inv, nth(j) + 1>>]
  BY <1>2 DEF Saved, Savings
<1> HIDE DEF nth
<1>4. PICK saved : saved = Saved(inv, reply)
  OBVIOUS
<1>5. DOMAIN saved = 1 .. n /\ saved \in Seq(Range(saved))
  BY <1>3, <1>4, SavedTyped
<1>6. Len(saved) = n
  BY <1>5
<1> QED  BY <1>2, <1>4, <1>5, <1>6

LEMMA AnswersCounted ==
    ASSUME ArtifactsTyped, NEW s \in Sids, NEW inv \in Nat, NEW reply \in Seq(Shape)
    PROVE  \E n, k \in Nat : \E todo :
              /\ n = Len(artifacts[s]) /\ k = Cardinality(Savings(reply)) /\ todo = Answers(s, inv, reply)
              /\ \A i \in DOMAIN reply :
                    /\ todo[i].partial = reply[i].partial
                    /\ ~reply[i].saves => todo[i].version = NoVersion
                    /\ reply[i].saves => todo[i].version \in 0 .. n + k - 1
              /\ Newest(todo) = IF k = 0 THEN NoVersion ELSE n + k - 1
<1>0. PICK n, k, todo : n = Len(artifacts[s]) /\ k = Cardinality(Savings(reply)) /\ todo = Answers(s, inv, reply)
  OBVIOUS
<1> DEFINE I == Savings(reply)
           Before(i) == {j \in 1 .. i - 1 : reply[j].saves}
           version(i) == IF reply[i].saves THEN NextVersion(s) + Cardinality(Before(i)) ELSE NoVersion
<1>1. IsFiniteSet(DOMAIN reply) /\ DOMAIN reply = 1 .. Len(reply) /\ Len(reply) \in Nat
  BY FS_Interval, LenProperties
<1>2. IsFiniteSet(I) /\ I \in SUBSET (1 .. Len(reply)) /\ \A i : i \in I <=> i \in DOMAIN reply /\ reply[i].saves
  BY <1>1, FS_Subset DEF Savings
<1>3. n \in Nat /\ k \in Nat
  BY <1>0, <1>2, FS_CardinalityType DEF ArtifactsTyped
<1>4. todo = [i \in DOMAIN reply |-> EventOf(inv, i + 1, reply[i], version(i))]
  BY <1>0 DEF Answers
<1>5. ASSUME NEW i \in DOMAIN reply
      PROVE  todo[i].partial = reply[i].partial /\ todo[i].version = version(i)
  <2> HIDE DEF version
  <2>1. todo[i] = EventOf(inv, i + 1, reply[i], version(i))
    BY <1>4
  <2> QED  BY <2>1, EventOfSaves
<1>6. ASSUME NEW i \in I
      PROVE  /\ Before(i) \subseteq I \ {i} /\ Cardinality(I \ {i}) = k - 1 /\ k > 0
             /\ Cardinality(Before(i)) \in 0 .. k - 1
  <2> DEFINE B == Before(i)
             R == I \ {i}
  <2>1. B \subseteq R
    BY <1>1, <1>2
  <2>2. IsFiniteSet(R) /\ Cardinality(R) = k - 1
    BY <1>0, <1>2, FS_RemoveElement
  <2> HIDE DEF B, R
  <2>3. IsFiniteSet(B) /\ Cardinality(B) <= Cardinality(R)
    BY <2>1, <2>2, FS_Subset
  <2>4. Cardinality(B) \in Nat /\ Cardinality(R) \in Nat
    BY <2>2, <2>3, FS_CardinalityType
  <2>5. Cardinality(B) \in 0 .. k - 1 /\ k > 0
    BY <1>3, <2>2, <2>3, <2>4
  <2> QED  BY <2>1, <2>2, <2>5 DEF B, R
<1> HIDE DEF Before, I
<1>7. \A i \in DOMAIN reply : /\ ~reply[i].saves => version(i) = NoVersion
                              /\ reply[i].saves => version(i) \in 0 .. n + k - 1
  <2>1. ASSUME NEW i \in DOMAIN reply, reply[i].saves PROVE version(i) \in 0 .. n + k - 1
    <3>1. i \in I
      BY <1>2, <2>1
    <3>2. PICK b \in 0 .. k - 1 : b = Cardinality(Before(i))
      BY <1>6, <3>1
    <3>3. version(i) = n + b
      BY <1>0, <2>1, <3>2 DEF NextVersion
    <3>4. n + b \in 0 .. n + k - 1
      BY <1>3
    <3> HIDE DEF version
    <3> QED  BY <3>3, <3>4
  <2> QED  BY <2>1
<1>8. Newest(todo) = IF k = 0 THEN NoVersion ELSE n + k - 1
  <2> DEFINE W == {i \in DOMAIN todo : todo[i].version # NoVersion}
  <2>1. DOMAIN todo = DOMAIN reply
    BY <1>4
  <2> HIDE DEF version
  <2>2. -1 \notin 0 .. n + k - 1
    BY <1>3
  <2>3. \A i \in DOMAIN reply : version(i) # NoVersion <=> reply[i].saves
    BY <1>7, <2>2 DEF NoVersion
  <2>4. W = I
    BY <1>2, <1>5, <2>1, <2>3
  <2>5. Newest(todo) = IF W = {} THEN NoVersion ELSE todo[Max(W)].version
    BY DEF Newest, RecordedVersion
  <2> HIDE DEF W
  <2>6. CASE I = {}
    <3>1. k = 0
      BY <1>0, <2>6, FS_EmptySet DEF I
    <3> QED  BY <2>4, <2>5, <2>6, <3>1
  <2>7. CASE I # {}
    <3>1. PICK m \in 1 .. Len(reply) : m = Max(I) /\ m \in I /\ \A y \in I : m >= y
      BY <1>1, <1>2, <2>7, MaxUpTo
    <3>2. Before(m) = I \ {m}
      <4>1. I \ {m} \subseteq Before(m)
        <5> SUFFICES ASSUME NEW j \in I, j # m PROVE j \in Before(m)
          OBVIOUS
        <5>1. j \in 1 .. Len(reply) /\ reply[j].saves /\ m >= j
          BY <1>2, <3>1
        <5>2. j \in 1 .. m - 1
          BY <5>1
        <5> QED  BY <5>1, <5>2 DEF Before
      <4> QED  BY <1>6, <3>1, <4>1
    <3>3. Cardinality(Before(m)) = k - 1 /\ k > 0
      BY <1>6, <3>1, <3>2
    <3>4. version(m) = n + (k - 1)
      BY <1>0, <1>2, <3>1, <3>3 DEF version, NextVersion
    <3>5. todo[m].version = n + k - 1
      BY <1>1, <1>3, <1>5, <3>1, <3>4
    <3> QED  BY <1>3, <2>4, <2>5, <2>7, <3>1, <3>3, <3>5
  <2> QED  BY <2>6, <2>7
<1> QED  BY <1>0, <1>3, <1>5, <1>7, <1>8, SMTT(60)

EventsOf(s) == IF s \in DOMAIN sessions THEN sessions[s].events ELSE <<>>

(* What a call has still to append to session s.                           *)
Ahead(call, s) == IF call.sid = s THEN call.todo ELSE <<>>

(* No version was saved that is not, or will not be, recorded last.        *)
Reached(events, todo) == IF Newest(todo) # NoVersion THEN Newest(todo) ELSE Newest(events)

Counted(call) == \A s \in Sids : Reached(EventsOf(s), Ahead(call, s)) + 1 = Len(artifacts[s])

(* The versions that the call's events record are there, and appending the *)
(* last one once more records the same.                                    *)
Recorded(call) ==
    /\ \A i \in DOMAIN call.todo :
          /\ Known(artifacts[call.sid], call.todo[i].version)
          /\ call.todo[i].partial => call.todo[i].version = NoVersion
    /\ call.last # NoEvent /\ call.last.version # NoVersion =>
          call.last.version = Newest(EventsOf(call.sid))

(* e is all that the call appends: it has still to, or it just did.        *)
Waits(call, e) ==
    /\ call.pc = "append" /\ e \in Event
    /\ \/ call.todo = <<e>> /\ call.last = NoEvent
       \/ call.todo = <<>> /\ call.last = e

BringsBack(call) == \A e : Waits(call, e) =>
    e.back = NoInv \/ Returns(e, artifacts[call.sid], EventsOf(call.sid))

KeptCall(call) == Counted(call) /\ Recorded(call) /\ BringsBack(call)

Kept == /\ \A s \in Sids : Held(artifacts[s], EventsOf(s))
        /\ \A c \in Callers : KeptCall(calls[c])

LEMMA EventIsEvent == \A e \in Event : e # NoEvent
<1> SUFFICES ASSUME NEW e \in Event PROVE e # NoEvent
  OBVIOUS
<1>1. "id" \in DOMAIN e
  BY DEF Event
<1>2. DOMAIN NoEvent = {}
  BY DEF NoEvent
<1> QED  BY <1>1, <1>2

LEMMA EventsOfTyped ==
    ASSUME TypeOK, NEW s \in Sids
    PROVE  EventsOf(s) \in Seq(Event) /\ Len(artifacts[s]) \in Nat
           /\ DOMAIN artifacts[s] = 1 .. Len(artifacts[s])
<1>1. EventsOf(s) \in Seq(Event)
  BY DEF EventsOf, TypeOK, SessionsTyped, Session
<1>2. artifacts[s] \in Seq(Range(artifacts[s]))
  BY DEF TypeOK, ArtifactsTyped
<1> QED  BY <1>1, <1>2

(* A call of events that are no rewinds waits for nothing to be undone.    *)
LEMMA PlainWaits ==
    ASSUME NEW call, Plain(call)
    PROVE  \A e : Waits(call, e) => e.back = NoInv
<1> SUFFICES ASSUME NEW e, Waits(call, e) PROVE e.back = NoInv
  OBVIOUS
<1>1. CASE call.todo = <<e>>
  <2>1. 1 \in DOMAIN <<e>> /\ <<e>>[1] = e
    OBVIOUS
  <2> QED  BY <1>1, <2>1 DEF Plain
<1>2. CASE call.last = e
  BY <1>2, EventIsEvent DEF Plain, Waits
<1> QED  BY <1>1, <1>2 DEF Waits

LEMMA InitKept ==
    ASSUME Init
    PROVE  Kept
<1>1. sessions = <<>> /\ artifacts = [s \in Sids |-> <<>>] /\ \A c \in Callers : calls[c] = Idle
  BY DEF Init, InitService
<1>2. ASSUME NEW s \in Sids PROVE EventsOf(s) = <<>> /\ Len(artifacts[s]) = 0
  <2>1. DOMAIN sessions = {}
    BY <1>1
  <2> QED  BY <1>1, <2>1 DEF EventsOf
<1>3. \A s \in Sids : Held(artifacts[s], EventsOf(s))
  BY <1>2, HeldNothing
<1>4. KeptCall(Idle)
  <2>1. \A s : Ahead(Idle, s) = <<>>
    BY IdleFields DEF Ahead
  <2>2. Counted(Idle)
    BY <1>2, <2>1, NewestNone DEF Counted, Reached, NoVersion
  <2>3. Recorded(Idle)
    BY IdleFields DEF Recorded
  <2>4. BringsBack(Idle)
    BY IdleFields DEF BringsBack, Waits
  <2> QED  BY <2>2, <2>3, <2>4 DEF KeptCall
<1> QED  BY <1>1, <1>3, <1>4 DEF Kept

(* With one caller, its call is all there is to look at.                   *)
LEMMA AloneKept ==
    ASSUME Alone, NEW c \in Callers, \A s \in Sids : Held(artifacts[s], EventsOf(s))',
           Counted(calls[c])', Recorded(calls[c])', BringsBack(calls[c])'
    PROVE  Kept'
BY DEF Alone, Kept, KeptCall

(* Nothing is appended or saved, and the call has nothing to append.       *)
LEMMA QuietKept ==
    ASSUME Alone, Kept, NEW c \in Callers, UNCHANGED artifacts, \A s \in Sids : UNCHANGED EventsOf(s),
           calls[c].todo = <<>>, calls'[c].todo = <<>>, calls'[c].last = NoEvent
    PROVE  Kept'
<1>1. \A s \in Sids : Held(artifacts[s], EventsOf(s))'
  BY DEF Kept
<1>2. \A s : Ahead(calls[c], s) = <<>> /\ Ahead(calls'[c], s) = <<>>
  BY DEF Ahead
<1>3. Counted(calls[c])'
  <2>1. Counted(calls[c])
    BY DEF Kept, KeptCall
  <2> QED  BY <1>2, <2>1 DEF Counted
<1>4. Recorded(calls[c])'
  BY DEF Recorded
<1>5. BringsBack(calls[c])'
  <2>1. \A e : e \in Event => e # NoEvent /\ <<e>> # <<>>
    BY EventIsEvent
  <2> QED  BY <2>1 DEF BringsBack, Waits
<1> QED  BY <1>1, <1>3, <1>4, <1>5, AloneKept

LEMMA SameKept ==
    ASSUME TypeOK, Kept, UNCHANGED <<calls, artifacts>>, \A s \in Sids : UNCHANGED EventsOf(s), Alone, Staged
    PROVE  Kept'
<1>1. \A s \in Sids : Held(artifacts[s], EventsOf(s))'
  BY DEF Kept
<1>2. ASSUME NEW c \in Callers PROVE KeptCall(calls[c])'
  <2>1. CASE calls[c] = Idle
    <3>1. Kept'
      BY <2>1, IdleFields, QuietKept
    <3> QED  BY <3>1 DEF Kept
  <2>2. CASE calls[c].pc # "idle"
    <3>1. calls[c].sid \in Sids
      BY <2>2, StageFacts
    <3>2. KeptCall(calls[c])
      BY DEF Kept
    <3> QED  BY <3>1, <3>2 DEF KeptCall, Counted, Recorded, BringsBack
  <2> QED  BY <2>1, <2>2, IdleFacts
<1> QED  BY <1>1, <1>2 DEF Kept

(* A new session has no events, as before it was there.                    *)
LEMMA CreatedEvents ==
    ASSUME TypeOK, NEW s \in Sids, NEW d \in Delta, NEW born \in Nat, CreateSession(s, d, born), NEW t \in Sids
    PROVE  UNCHANGED EventsOf(t)
<1>1. /\ s \notin DOMAIN sessions /\ DOMAIN sessions' = DOMAIN sessions \cup {s}
      /\ sessions'[s] = NewSession(d, born)
      /\ \A u \in DOMAIN sessions : sessions'[u] = sessions[u]
  BY CreateTyped
<1>2. NewSession(d, born).events = <<>>
  BY DEF NewSession
<1> QED  BY <1>1, <1>2 DEF EventsOf

(* No reply has a partial event for which an artifact was saved.           *)
ShapesWhole == \A reply \in Replies : \A i \in DOMAIN reply : reply[i].saves => ~reply[i].partial

(* The other sessions are left as they were.                               *)
LEMMA CountedOthers ==
    ASSUME Kept, NEW c \in Callers, UNCHANGED calls[c].sid, NEW s \in Sids, s # calls[c].sid,
           artifacts'[s] = artifacts[s], UNCHANGED EventsOf(s)
    PROVE  Reached(EventsOf(s), Ahead(calls[c], s))' + 1 = Len(artifacts[s])'
<1>1. Ahead(calls[c], s) = <<>> /\ Ahead(calls[c], s)' = <<>>
  BY DEF Ahead
<1>2. Reached(EventsOf(s), Ahead(calls[c], s)) + 1 = Len(artifacts[s])
  BY DEF Kept, KeptCall, Counted
<1> QED  BY <1>1, <1>2

LEMMA GrownKept ==
    ASSUME TypeOK, Kept, NEW s \in Sids, Grown(artifacts[s], artifacts'[s]),
           \A t \in Sids \ {s} : artifacts'[t] = artifacts[t], \A t \in Sids : UNCHANGED EventsOf(t)
    PROVE  \A t \in Sids : Held(artifacts[t], EventsOf(t))'
<1> SUFFICES ASSUME NEW t \in Sids PROVE Held(artifacts'[t], EventsOf(t))
  OBVIOUS
<1>1. Held(artifacts[t], EventsOf(t)) /\ EventsOf(t) \in Seq(Event)
  BY EventsOfTyped DEF Kept
<1>2. CASE t = s
  BY <1>1, <1>2, HeldGrown
<1>3. CASE t # s
  BY <1>1, <1>3
<1> QED  BY <1>2, <1>3

LEMMA AnswersKept ==
    ASSUME TypeOK, Staged, Alone, ShapesWhole, Kept, NEW c \in Callers, NEW reply \in Replies,
           calls[c].pc = "agent", UNCHANGED <<sessions, calls[c].sid, calls[c].last>>,
           SaveArtifacts(calls[c].sid, Saved(calls[c].inv, reply)),
           calls'[c].todo = Answers(calls[c].sid, calls[c].inv, reply),
           DOMAIN calls'[c].todo = DOMAIN reply, Plain(calls[c])'
    PROVE  Kept'
<1>1. PICK s \in Sids, inv \in Nat : s = calls[c].sid /\ inv = calls[c].inv
  BY StageFacts DEF TypeOK, Call
<1>2. reply \in Seq(Shape) /\ calls[c].todo = <<>>
  BY RunnerConstants, StageFacts
<1>2a. PICK n \in Nat, k \in Nat : \E todo :
         /\ n = Len(artifacts[s]) /\ k = Cardinality(Savings(reply)) /\ todo = Answers(s, inv, reply)
         /\ \A i \in DOMAIN reply :
               /\ todo[i].partial = reply[i].partial
               /\ ~reply[i].saves => todo[i].version = NoVersion
               /\ reply[i].saves => todo[i].version \in 0 .. n + k - 1
         /\ Newest(todo) = IF k = 0 THEN NoVersion ELSE n + k - 1
  <2>1. ArtifactsTyped
    BY DEF TypeOK
  <2> QED  BY <1>2, <2>1, AnswersCounted
<1>3. PICK todo :
         /\ n = Len(artifacts[s]) /\ k = Cardinality(Savings(reply)) /\ todo = Answers(s, inv, reply)
         /\ \A i \in DOMAIN reply :
               /\ todo[i].partial = reply[i].partial
               /\ ~reply[i].saves => todo[i].version = NoVersion
               /\ reply[i].saves => todo[i].version \in 0 .. n + k - 1
         /\ Newest(todo) = IF k = 0 THEN NoVersion ELSE n + k - 1
  BY <1>2a
<1>4. PICK saved : saved = Saved(inv, reply) /\ saved \in Seq(Range(saved)) /\ Len(saved) = k
  BY <1>2, <1>3, SavedLen
<1>5. /\ Grown(artifacts[s], artifacts'[s]) /\ Len(artifacts'[s]) = n + k
      /\ DOMAIN artifacts'[s] = 1 .. n + k
      /\ \A t \in Sids \ {s} : artifacts'[t] = artifacts[t]
  <2>1. SaveArtifacts(s, saved) /\ ArtifactsTyped
    BY <1>1, <1>4 DEF TypeOK
  <2> QED  BY <1>3, <1>4, <2>1, Saves, SMTT(60)
<1>6. todo = calls'[c].todo
  BY <1>1, <1>3
<1>7. /\ \A i \in DOMAIN reply :
            /\ todo[i].partial = reply[i].partial
            /\ ~reply[i].saves => todo[i].version = NoVersion
            /\ reply[i].saves => todo[i].version \in 0 .. n + k - 1
      /\ Newest(todo) = IF k = 0 THEN NoVersion ELSE n + k - 1
  BY <1>3
<1>8. \A t \in Sids : UNCHANGED EventsOf(t)
  BY DEF EventsOf
<1>9. \A t \in Sids : Held(artifacts[t], EventsOf(t))'
  BY <1>5, <1>8, GrownKept
<1>10. Counted(calls[c])'
  <2>1. Reached(EventsOf(s), Ahead(calls[c], s))' + 1 = Len(artifacts[s])'
    <3>1. Ahead(calls[c], s) = <<>> /\ Ahead(calls[c], s)' = todo
      BY <1>1, <1>2, <1>6 DEF Ahead
    <3>2. Newest(EventsOf(s)) + 1 = n
      BY <1>3, <3>1, NewestNone DEF Kept, KeptCall, Counted, Reached
    <3>3. CASE k = 0
      BY <1>5, <1>7, <1>8, <3>1, <3>2, <3>3 DEF Reached
    <3>4. CASE k # 0
      <4>1. Newest(todo) = n + k - 1 /\ n + k - 1 # -1
        BY <1>7, <3>4
      <4> QED  BY <1>5, <3>1, <4>1 DEF Reached, NoVersion
    <3> QED  BY <3>3, <3>4
  <2>2. ASSUME NEW t \in Sids, t # s PROVE Reached(EventsOf(t), Ahead(calls[c], t))' + 1 = Len(artifacts[t])'
    BY <1>1, <1>5, <1>8, <2>2, CountedOthers
  <2> QED  BY <2>1, <2>2 DEF Counted
<1>11. Recorded(calls[c])'
  <2>1. ASSUME NEW i \in DOMAIN reply
        PROVE  /\ Known(artifacts'[s], todo[i].version)
               /\ todo[i].partial => todo[i].version = NoVersion
    <3>1. CASE reply[i].saves
      <4>1. todo[i].version + 1 \in 1 .. n + k
        BY <1>7, <3>1
      <4>2. ~todo[i].partial
        BY <1>7, <3>1 DEF ShapesWhole
      <4> QED  BY <1>5, <4>1, <4>2 DEF Known
    <3>2. CASE ~reply[i].saves
      BY <1>7, <3>2 DEF Known
    <3> QED  BY <3>1, <3>2
  <2>2. Recorded(calls[c])
    BY DEF Kept, KeptCall
  <2>3. UNCHANGED EventsOf(s)
    BY <1>8
  <2> QED  BY <1>1, <1>6, <2>1, <2>2, <2>3 DEF Recorded
<1>12. BringsBack(calls[c])'
  <2>1. \A e : Waits(calls'[c], e) => e.back = NoInv
    BY PlainWaits
  <2> QED  BY <2>1 DEF BringsBack
<1> QED  BY <1>9, <1>10, <1>11, <1>12, AloneKept

LEMMA RewindKept ==
    ASSUME TypeOK, Staged, Alone, InStep, Kept, NEW c \in Callers,
           calls[c].pc = "rewind", UNCHANGED <<sessions, calls[c].sid, calls[c].last>>,
           HasInvocation(calls[c].view.events, calls[c].target),
           calls'[c].todo = <<RewindEvent(calls[c])>>,
           SaveArtifacts(calls[c].sid, RewindContents(calls[c]))
    PROVE  Kept'
<1>1. PICK s \in Sids, call \in Call : s = calls[c].sid /\ call = calls[c]
  BY StageFacts DEF TypeOK
<1>2. call.todo = <<>> /\ call.last = NoEvent /\ call.sid = s
  BY <1>1, StageFacts
<1>3. PICK n \in Nat : n = Len(artifacts[s])
  BY EventsOfTyped
<1>4. PICK events \in Seq(Event) : events = EventsOf(s) /\ events = call.view.events
  <2>1. s \in DOMAIN sessions /\ call.view.events = sessions[s].events
    BY <1>1 DEF InStep, InStepCall, Exact, Found
  <2> QED  BY <2>1, EventsOfTyped DEF EventsOf
<1>5. PICK target : target = call.target /\ HasInvocation(events, target)
  BY <1>1, <1>4
<1>6. PICK p \in 1 .. Len(events) : p = RewindIndex(events, target)
  BY <1>5, RewindIndexFirst
<1>7. PICK before : before = RecordedVersion(events, 1 .. p - 1)
  OBVIOUS
<1>8. PICK e \in Event : e = RewindEvent(call)
  BY <1>4, <1>5, RewindEventTyped
<1>9. /\ e.back = target /\ e.partial = FALSE
      /\ e.version = IF Newest(events) = before THEN NoVersion ELSE Newest(events) + 1
  BY <1>4, <1>5, <1>6, <1>7, <1>8 DEF RewindEvent, ArtifactDelta, Newest
<1>10. PICK contents : contents = RewindContents(call)
  OBVIOUS
<1>11. Newest(events) + 1 = n
  <2>1. Ahead(calls[c], s) = <<>>
    BY <1>1, <1>2 DEF Ahead
  <2> QED  BY <1>3, <1>4, <2>1, NewestNone DEF Kept, KeptCall, Counted, Reached
<1>12. contents = IF e.version = NoVersion THEN <<>> ELSE <<Load(artifacts[s], before)>>
  <2>1. e.version = ArtifactDelta(events, p)
    BY <1>4, <1>5, <1>6, <1>8 DEF RewindEvent
  <2> QED  BY <1>2, <1>4, <1>5, <1>6, <1>7, <1>10, <2>1
           DEF RewindContents, RestoredContent, LoadArtifact, Load
<1>13. PICK k \in Nat : /\ k = Len(contents) /\ contents \in Seq(Range(contents))
                        /\ k = IF e.version = NoVersion THEN 0 ELSE 1
  <2>1. \A x : <<x>> \in Seq({x}) /\ Len(<<x>>) = 1
    OBVIOUS
  <2>2. \A x : <<x>> \in Seq(Range(<<x>>))
    BY <2>1, SeqOfRange
  <2>3. <<>> \in Seq(Range(<<>>)) /\ Len(<<>>) = 0
    OBVIOUS
  <2>4. CASE e.version = NoVersion
    <3>1. contents = <<>>
      BY <1>12, <2>4
    <3> QED  BY <2>3, <2>4, <3>1
  <2>5. CASE e.version # NoVersion
    <3>1. PICK x : contents = <<x>>
      BY <1>12, <2>5
    <3> QED  BY <2>1, <2>2, <2>5, <3>1
  <2> QED  BY <2>4, <2>5
<1>14. /\ Grown(artifacts[s], artifacts'[s]) /\ Len(artifacts'[s]) = n + k
       /\ DOMAIN artifacts'[s] = 1 .. n + k
       /\ \A j \in 1 .. k : artifacts'[s][n + j] = contents[j]
       /\ \A t \in Sids \ {s} : artifacts'[t] = artifacts[t]
  <2>1. SaveArtifacts(s, contents) /\ ArtifactsTyped /\ contents \in Seq(Range(contents))
    BY <1>1, <1>10, <1>13 DEF TypeOK
  <2>2. /\ Grown(artifacts[s], artifacts'[s])
        /\ Len(artifacts'[s]) = Len(artifacts[s]) + Len(contents)
        /\ DOMAIN artifacts'[s] = 1 .. Len(artifacts[s]) + Len(contents)
        /\ \A j \in 1 .. Len(contents) : artifacts'[s][Len(artifacts[s]) + j] = contents[j]
        /\ \A t \in Sids \ {s} : artifacts'[t] = artifacts[t]
    BY <2>1, Saves
  <2>3. Len(artifacts[s]) = n /\ Len(contents) = k
    BY <1>3, <1>13
  <2> QED  BY <2>2, <2>3
<1>15. \A t \in Sids : UNCHANGED EventsOf(t)
  BY DEF EventsOf
<1>16. \A t \in Sids : Held(artifacts[t], EventsOf(t))'
  BY <1>14, <1>15, GrownKept
<1>17. PICK todo : todo = calls'[c].todo /\ todo = <<e>> /\ DOMAIN todo = {1} /\ todo[1] = e
  <2>1. \A x : DOMAIN <<x>> = {1} /\ <<x>>[1] = x
    OBVIOUS
  <2>2. calls'[c].todo = <<e>>
    BY <1>1, <1>8
  <2> QED  BY <2>1, <2>2
<1>18. Newest(todo) = e.version
  <2>1. <<e>> \in Seq(Event) /\ <<e>> # <<>> /\ Tail(<<e>>) = <<>>
    OBVIOUS
  <2>2. PICK rest : rest = Tail(todo) /\ rest = <<>>
    BY <1>17, <2>1
  <2> QED  BY <1>17, <2>1, <2>2, NewestTail, NewestNone DEF VersionAt
<1>19. e.version # NoVersion => k = 1 /\ e.version = n
  BY <1>9, <1>11, <1>13
<1>20. e.version = NoVersion => k = 0
  BY <1>13
<1>21. Counted(calls[c])'
  <2>1. Reached(EventsOf(s), Ahead(calls[c], s))' + 1 = Len(artifacts[s])'
    <3>1. Ahead(calls[c], s)' = todo
      BY <1>1, <1>17 DEF Ahead
    <3>2. UNCHANGED EventsOf(s)
      BY <1>15
    <3>3. Reached(events, todo) + 1 = n + k
      BY <1>11, <1>18, <1>19, <1>20 DEF Reached
    <3>4. Reached(EventsOf(s), Ahead(calls[c], s))' = Reached(events, todo)
      BY <1>4, <3>1, <3>2
    <3> QED  BY <1>14, <3>3, <3>4
  <2>2. ASSUME NEW t \in Sids, t # s PROVE Reached(EventsOf(t), Ahead(calls[c], t))' + 1 = Len(artifacts[t])'
    BY <1>1, <1>14, <1>15, <2>2, CountedOthers
  <2> QED  BY <2>1, <2>2 DEF Counted
<1>22. Recorded(calls[c])'
  <2>1. Known(artifacts'[s], e.version)
    BY <1>14, <1>19 DEF Known
  <2> QED  BY <1>1, <1>2, <1>9, <1>17, <2>1 DEF Recorded
<1>23. BringsBack(calls[c])'
  <2>1. Returns(e, artifacts'[s], events)
    <3>1. Known(artifacts[s], before)
      <4>1. VersionsIn(artifacts[s], events)
        BY <1>4 DEF Kept, Held
      <4>2. 1 .. p - 1 \in SUBSET DOMAIN events
        OBVIOUS
      <4> QED  BY <1>7, <4>1, <4>2, RecordedIn
    <3>2. Load(artifacts'[s], before) = Load(artifacts[s], before)
      BY <1>14, <3>1, LoadGrown
    <3>3. CASE e.version = NoVersion
      <4>1. Newest(events) = before
        BY <1>9, <1>11, <3>3 DEF NoVersion
      <4> QED  BY <1>5, <1>6, <1>7, <1>9, <3>3, <4>1 DEF Returns, After
    <3>4. CASE e.version # NoVersion
      <4>1. artifacts'[s][n + 1] = Load(artifacts[s], before)
        <5>1. 1 \in 1 .. k /\ <<Load(artifacts[s], before)>>[1] = Load(artifacts[s], before)
          BY <1>19, <3>4
        <5> QED  BY <1>12, <1>14, <3>4, <5>1
      <4>2. Load(artifacts'[s], e.version) = Load(artifacts[s], before)
        BY <1>14, <1>19, <3>4, <4>1 DEF Load
      <4> QED  BY <1>5, <1>6, <1>7, <1>9, <3>2, <3>4, <4>2 DEF Returns, After
    <3> QED  BY <3>3, <3>4
  <2>2. \A f : Waits(calls'[c], f) => f = e
    <3>1. \A f : f \in Event => f # NoEvent
      BY EventIsEvent
    <3>2. \A f : <<f>> = <<e>> => f = e
      OBVIOUS
    <3> QED  BY <1>1, <1>2, <1>17, <3>1, <3>2 DEF Waits
  <2>3. UNCHANGED EventsOf(s)
    BY <1>15
  <2> QED  BY <1>1, <1>4, <2>1, <2>2, <2>3 DEF BringsBack
<1> QED  BY <1>16, <1>21, <1>22, <1>23, AloneKept

(* What an appended event has recorded, and what is left to append.        *)
LEMMA AppendingLeaves ==
    ASSUME TypeOK, Staged, Numbered, InStep, Kept, NEW c \in Callers, NEW e, Appending(c, e)
    PROVE  \E s \in DOMAIN sessions \cap Sids : \E todo, rest \in Seq(Event) :
              /\ s = calls[c].sid /\ s = calls'[c].sid /\ todo = calls[c].todo /\ rest = calls'[c].todo
              /\ e \in Event /\ AppendEvent(s, e) /\ calls'[c].last \in {e, NoEvent}
              /\ Known(artifacts[s], e.version)
              /\ \A i \in DOMAIN rest : /\ Known(artifacts[s], rest[i].version)
                                        /\ rest[i].partial => rest[i].version = NoVersion
              /\ \/ /\ Newest(rest) = Newest(todo)
                    /\ \/ e.version = NoVersion
                       \/ e.version = Newest(EventsOf(s)) /\ calls'[c].last = NoEvent
                 \/ /\ Newest(todo) = IF Newest(rest) # NoVersion THEN Newest(rest) ELSE e.version
                    /\ AppendIgnored(s, e) => e.version = NoVersion
<1>1. PICK call \in Call, s \in Sids : call = calls[c] /\ s = call.sid
  BY DEF TypeOK, Appending
<1>2. PICK next \in Call : next = calls'[c] /\ next.sid = s
  BY <1>1 DEF TypeOK, Appending
<1>3. PICK todo \in Seq(Event), rest \in Seq(Event) : todo = call.todo /\ rest = next.todo
  BY DEF Call
<1>4. e \in Event /\ AppendEvent(s, e)
  BY <1>1 DEF Appending
<1>5. Recorded(call) /\ NumberedCall(call) /\ Found(call)
  BY <1>1 DEF Kept, KeptCall, Numbered, InStep, InStepCall
<1>6. PICK events \in Seq(Event) : events = EventsOf(s)
  BY EventsOfTyped
<1>7. VersionsIn(artifacts[s], events)
  BY <1>6 DEF Kept, Held
<1>8. Known(artifacts[s], Newest(events))
  BY <1>7, RecordedIn DEF Newest
<1>9. s \in DOMAIN sessions
  <2>1. call.pc \in {"run", "agent", "append"} \/ call.last # NoEvent
    BY <1>1 DEF Appending
  <2>2. call.pc \notin {"idle", "create", "read"}
    BY <1>1, <2>1, StageFacts DEF Appending
  <2>3. call.pc \in {"run", "rewind", "agent", "append"}
    BY <2>2 DEF Call
  <2> QED  BY <1>1, <1>5, <2>3 DEF Found
<1>10. \A i \in DOMAIN todo : /\ Known(artifacts[s], todo[i].version)
                              /\ todo[i].partial => todo[i].version = NoVersion
  BY <1>1, <1>3, <1>5 DEF Recorded
<1>11. CASE call.last # NoEvent /\ e = call.last /\ next.last = NoEvent /\ next.todo = call.todo
  <2>1. e.version = NoVersion \/ e.version = Newest(events)
    BY <1>1, <1>5, <1>6, <1>11 DEF Recorded
  <2>2. Known(artifacts[s], e.version)
    BY <1>8, <2>1 DEF Known
  <2> QED  BY <1>1, <1>2, <1>3, <1>4, <1>6, <1>9, <1>10, <1>11, <2>1, <2>2
<1>12. CASE next.last \in {e, NoEvent} /\ next.todo = call.todo /\ e.version = NoVersion
  <2>1. Known(artifacts[s], e.version)
    BY <1>12 DEF Known
  <2> QED  BY <1>1, <1>2, <1>3, <1>4, <1>9, <1>10, <1>12, <2>1
<1>13. CASE next.last \in {e, NoEvent} /\ todo # <<>> /\ e = Head(todo) /\ rest = Tail(todo)
  <2>1. 1 \in DOMAIN todo /\ e = todo[1] /\ \A i \in DOMAIN rest : i + 1 \in DOMAIN todo /\ rest[i] = todo[i + 1]
    BY <1>13
  <2>2. Known(artifacts[s], e.version) /\ (e.partial => e.version = NoVersion)
    BY <1>10, <2>1
  <2>3. \A i \in DOMAIN rest : /\ Known(artifacts[s], rest[i].version)
                               /\ rest[i].partial => rest[i].version = NoVersion
    BY <1>10, <2>1
  <2>4. Newest(todo) = IF Newest(rest) # NoVersion THEN Newest(rest) ELSE e.version
    <3>1. rest = Tail(todo) /\ todo # <<>> /\ VersionAt(todo, 1) = e.version
      BY <1>13, <2>1 DEF VersionAt
    <3> QED  BY <3>1, NewestTail
  <2>5. AppendIgnored(s, e) => e.partial
    <3>1. NotStored(e.id)
      BY <1>3, <1>5, <2>1 DEF NumberedCall
    <3>2. ~IsStored(s, e)
      BY <1>9, <3>1 DEF NotStored, IsStored, Range
    <3> QED  BY <1>9, <3>2 DEF AppendIgnored
  <2> QED  BY <1>1, <1>2, <1>3, <1>4, <1>9, <1>13, <2>2, <2>3, <2>4, <2>5
<1>14. \/ calls[c].last # NoEvent /\ e = calls[c].last /\ calls'[c].last = NoEvent /\ calls'[c].todo = calls[c].todo
       \/ calls'[c].last \in {e, NoEvent} /\ calls'[c].todo = calls[c].todo /\ e.version = NoVersion
       \/ /\ calls'[c].last \in {e, NoEvent} /\ calls[c].todo # <<>>
          /\ e = Head(calls[c].todo) /\ calls'[c].todo = Tail(calls[c].todo)
  BY DEF Appending
<1> QED  BY <1>1, <1>2, <1>3, <1>11, <1>12, <1>13, <1>14

(* What has to be undone stays undone when it is appended.                 *)
LEMMA BringsBackKept ==
    ASSUME TypeOK, Staged, InStep, Kept, NEW c \in Callers, NEW e, Appending(c, e),
           Returns(e, artifacts[calls[c].sid], EventsOf(calls[c].sid)) =>
              Returns(e, artifacts[calls[c].sid], EventsOf(calls[c].sid)')
    PROVE  /\ e.back = NoInv \/ Returns(e, artifacts[calls[c].sid], EventsOf(calls[c].sid))
           /\ BringsBack(calls[c])'
<1>1. SoundCall(calls[c]) /\ BringsBack(calls[c])
  BY DEF InStep, InStepCall, Kept, KeptCall
<1>2. CASE Plain(calls[c])
  <2>1. e.back = NoInv /\ Plain(calls[c])'
    BY <1>2, AppendsPlain
  <2>2. \A f : Waits(calls'[c], f) => f.back = NoInv
    BY <2>1, PlainWaits
  <2> QED  BY <2>1, <2>2 DEF BringsBack
<1>3. ASSUME NEW f, Undoes(calls[c], f)
      PROVE  /\ e.back = NoInv \/ Returns(e, artifacts[calls[c].sid], EventsOf(calls[c].sid))
             /\ BringsBack(calls[c])'
  <2>1. e = f /\ calls'[c].todo = <<>> /\ (calls'[c].last = e \/ calls'[c].last = NoEvent)
    BY <1>3, AppendsRewind
  <2>2. Waits(calls[c], e)
    BY <1>3, <2>1 DEF Undoes, Waits
  <2>3. e.back = NoInv \/ Returns(e, artifacts[calls[c].sid], EventsOf(calls[c].sid))
    BY <1>1, <2>2 DEF BringsBack
  <2>4. \A g : Waits(calls'[c], g) => g = e
    <3>1. \A g : g \in Event => g # NoEvent /\ <<g>> # <<>>
      BY EventIsEvent
    <3> QED  BY <2>1, <3>1 DEF Waits
  <2>5. UNCHANGED <<artifacts, calls[c].sid>>
    BY DEF Appending
  <2> QED  BY <2>3, <2>4, <2>5 DEF BringsBack
<1> QED  BY <1>1, <1>2, <1>3 DEF SoundCall

LEMMA IgnoredKept ==
    ASSUME TypeOK, Staged, Alone, Numbered, InStep, Kept, NEW c \in Callers, NEW e, Appending(c, e),
           AppendIgnored(calls[c].sid, e), UNCHANGED sessions
    PROVE  Kept'
<1>1. PICK s \in Sids, todo \in Seq(Event), rest \in Seq(Event) :
         /\ s \in DOMAIN sessions
         /\ s = calls[c].sid /\ s = calls'[c].sid /\ todo = calls[c].todo /\ rest = calls'[c].todo
         /\ calls'[c].last \in {e, NoEvent}
         /\ \A i \in DOMAIN rest : /\ Known(artifacts[s], rest[i].version)
                                   /\ rest[i].partial => rest[i].version = NoVersion
         /\ \/ /\ Newest(rest) = Newest(todo)
               /\ \/ e.version = NoVersion
                  \/ e.version = Newest(EventsOf(s)) /\ calls'[c].last = NoEvent
            \/ /\ Newest(todo) = IF Newest(rest) # NoVersion THEN Newest(rest) ELSE e.version
               /\ AppendIgnored(s, e) => e.version = NoVersion
  BY AppendingLeaves
<1>2. UNCHANGED artifacts /\ \A t \in Sids : UNCHANGED EventsOf(t)
  BY DEF Appending, EventsOf
<1>3. \A t \in Sids : Held(artifacts[t], EventsOf(t))'
  BY <1>2 DEF Kept
<1>4. Newest(rest) = Newest(todo)
  BY <1>1
<1>5. Counted(calls[c])'
  <2>1. Reached(EventsOf(s), Ahead(calls[c], s))' + 1 = Len(artifacts[s])'
    <3>1. Reached(EventsOf(s), todo) + 1 = Len(artifacts[s])
      BY <1>1 DEF Kept, KeptCall, Counted, Ahead
    <3>2. Reached(EventsOf(s), rest) = Reached(EventsOf(s), todo)
      BY <1>4 DEF Reached
    <3> QED  BY <1>1, <1>2, <3>1, <3>2 DEF Ahead
  <2>2. ASSUME NEW t \in Sids, t # s PROVE Reached(EventsOf(t), Ahead(calls[c], t))' + 1 = Len(artifacts[t])'
    BY <1>1, <1>2, <2>2, CountedOthers
  <2> QED  BY <2>1, <2>2 DEF Counted
<1>6. Recorded(calls[c])'
  <2>1. calls'[c].last # NoEvent => calls'[c].last.version = NoVersion
    BY <1>1
  <2> QED  BY <1>1, <1>2, <2>1 DEF Recorded
<1>7. BringsBack(calls[c])'
  <2>1. UNCHANGED EventsOf(calls[c].sid)
    BY <1>1, <1>2
  <2> QED  BY <2>1, BringsBackKept
<1> QED  BY <1>3, <1>5, <1>6, <1>7, AloneKept

LEMMA AppendedKept ==
    ASSUME TypeOK, Staged, Issued, Alone, Numbered, InStep, Kept, NEW c \in Callers, NEW e, Appending(c, e),
           Appended(calls[c].sid, e)
    PROVE  Kept'
<1>1. PICK s \in Sids, todo \in Seq(Event), rest \in Seq(Event) :
         /\ s \in DOMAIN sessions
         /\ s = calls[c].sid /\ s = calls'[c].sid /\ todo = calls[c].todo /\ rest = calls'[c].todo
         /\ e \in Event /\ calls'[c].last \in {e, NoEvent}
         /\ Known(artifacts[s], e.version)
         /\ \A i \in DOMAIN rest : /\ Known(artifacts[s], rest[i].version)
                                   /\ rest[i].partial => rest[i].version = NoVersion
         /\ \/ /\ Newest(rest) = Newest(todo)
               /\ \/ e.version = NoVersion
                  \/ e.version = Newest(EventsOf(s)) /\ calls'[c].last = NoEvent
            \/ Newest(todo) = IF Newest(rest) # NoVersion THEN Newest(rest) ELSE e.version
  BY AppendingLeaves
<1>2. /\ s \in DOMAIN sessions' /\ \A t \in DOMAIN sessions \ {s} : sessions'[t] = sessions[t]
      /\ DOMAIN sessions' = DOMAIN sessions
  BY <1>1 DEF Appended
<1>3. UNCHANGED artifacts /\ \A t \in Sids \ {s} : UNCHANGED EventsOf(t)
  BY <1>2 DEF Appending, EventsOf
<1>4. Ordered(sessions[s].events) /\ Preceding(sessions[s].events, Inv(e))
  <2>1. Inv(e) = calls[c].inv
    BY AppendsOwn DEF Issued
  <2>2. Latest(calls[c]) /\ calls[c].pc # "idle" /\ RestoredSession(s)
    BY <1>1 DEF InStep, InStepCall, Appending
  <2> QED  BY <1>1, <2>1, <2>2 DEF RestoredSession, Latest
<1>5. PICK events \in Seq(Event), more \in Seq(Event), n \in Nat, f \in Event :
         /\ events = sessions[s].events /\ more = sessions'[s].events /\ f = Trimmed(e)
         /\ f.back = e.back /\ f.version = e.version
         /\ NextIs(more, events, n, f)
  <2>1. s \in DOMAIN sessions /\ e \in Event /\ Appended(s, e) /\ Preceding(sessions[s].events, Inv(e))
    BY <1>1, <1>4
  <2> QED  BY <2>1, SessionNext
<1>6. EventsOf(s) = events /\ EventsOf(s)' = more
  BY <1>1, <1>2, <1>5 DEF EventsOf
<1>7. Newest(more) = IF e.version # NoVersion THEN e.version ELSE Newest(events)
  <2>1. Continues(more, events, n) /\ VersionAt(more, n + 1) = e.version
    BY <1>5 DEF NextIs, VersionAt
  <2> QED  BY <2>1, NewestNext
<1>8. Returns(f, artifacts[s], events) => Returns(f, artifacts[s], more)
  BY <1>5, ReturnsAgain
<1>9. \A h : Returns(e, artifacts[s], h) <=> Returns(f, artifacts[s], h)
  BY <1>5 DEF Returns, After
<1>10. /\ e.back = NoInv \/ Returns(e, artifacts[s], events)
       /\ BringsBack(calls[c])'
  <2>1. Returns(e, artifacts[s], events) => Returns(e, artifacts[s], more)
    BY <1>8, <1>9
  <2>2. EventsOf(calls[c].sid) = events /\ EventsOf(calls[c].sid)' = more
    BY <1>1, <1>6
  <2>3. Returns(e, artifacts[calls[c].sid], EventsOf(calls[c].sid)) =>
           Returns(e, artifacts[calls[c].sid], EventsOf(calls[c].sid)')
    BY <1>1, <2>1, <2>2
  <2> QED  BY <1>1, <1>6, <2>3, BringsBackKept
<1>11. \A t \in Sids : Held(artifacts[t], EventsOf(t))'
  <2>1. Held(artifacts[s], more)
    <3>1. PICK store : store = artifacts[s] /\ Held(store, events)
      BY <1>6 DEF Kept
    <3>2. Known(store, f.version) /\ (f.back = NoInv \/ Returns(f, store, events))
      BY <1>1, <1>5, <1>9, <1>10, <3>1
    <3>3. Ordered(events)
      BY <1>4, <1>5
    <3>4. Held(store, more)
      BY <1>5, <3>1, <3>2, <3>3, HeldNext
    <3> QED  BY <3>1, <3>4
  <2>2. ASSUME NEW t \in Sids \ {s} PROVE Held(artifacts[t], EventsOf(t))'
    BY <1>3 DEF Kept
  <2> QED  BY <1>3, <1>6, <2>1, <2>2
<1>12. Counted(calls[c])'
  <2>1. Reached(EventsOf(s), Ahead(calls[c], s))' + 1 = Len(artifacts[s])'
    <3>1. Reached(events, todo) + 1 = Len(artifacts[s])
      BY <1>1, <1>6 DEF Kept, KeptCall, Counted, Ahead
    <3>2. Reached(more, rest) = Reached(events, todo)
      BY <1>1, <1>6, <1>7 DEF Reached
    <3> QED  BY <1>1, <1>3, <1>6, <3>1, <3>2 DEF Ahead
  <2>2. ASSUME NEW t \in Sids, t # s PROVE Reached(EventsOf(t), Ahead(calls[c], t))' + 1 = Len(artifacts[t])'
    <3>1. UNCHANGED EventsOf(t) /\ UNCHANGED artifacts /\ calls'[c].sid = calls[c].sid /\ t # calls[c].sid
      BY <1>1, <1>3, <2>2
    <3> QED  BY <3>1, CountedOthers
  <2> QED  BY <2>1, <2>2 DEF Counted
<1>13. Recorded(calls[c])'
  <2>1. calls'[c].last # NoEvent /\ calls'[c].last.version # NoVersion => calls'[c].last.version = Newest(more)
    BY <1>1, <1>7
  <2> QED  BY <1>1, <1>3, <1>6, <2>1 DEF Recorded
<1> QED  BY <1>10, <1>11, <1>12, <1>13, AloneKept

LEMMA AppendingKept ==
    ASSUME TypeOK, Staged, Issued, Alone, Numbered, InStep, Kept, NEW c \in Callers, NEW e, Appending(c, e)
    PROVE  Kept'
<1>1. e \in Event /\ AppendEvent(calls[c].sid, e)
  BY DEF Appending
<1> QED  BY <1>1, AppendCases, IgnoredKept, AppendedKept

LEMMA PlanningKept ==
    ASSUME TypeOK, Staged, Alone, ShapesWhole, InStep, Kept, NEW c \in Callers, Planning(c)
    PROVE  Kept'
<1>1. UNCHANGED <<sessions, calls[c].sid, calls[c].last>>
  BY DEF Planning
<1>2. ASSUME NEW reply \in Replies, calls[c].pc = "agent",
             SaveArtifacts(calls[c].sid, Saved(calls[c].inv, reply)),
             calls'[c].todo = Answers(calls[c].sid, calls[c].inv, reply),
             DOMAIN calls'[c].todo = DOMAIN reply,
             \A i \in DOMAIN reply : calls'[c].todo[i].back = NoInv
      PROVE  Kept'
  <2>1. Plain(calls[c])
    BY <1>2 DEF InStep, InStepCall, SoundCall, Undoes
  <2>2. Plain(calls[c])'
    BY <1>1, <1>2, <2>1 DEF Plain
  <2> QED  BY <1>1, <1>2, <2>2, AnswersKept
<1>3. ASSUME calls[c].pc = "rewind", HasInvocation(calls[c].view.events, calls[c].target),
             calls'[c].todo = <<RewindEvent(calls[c])>>,
             SaveArtifacts(calls[c].sid, RewindContents(calls[c]))
      PROVE  Kept'
  BY <1>1, <1>3, RewindKept
<1> QED  BY <1>2, <1>3 DEF Planning

LEMMA KeptKept ==
    ASSUME TypeOK, Staged, Issued, Alone, ~AgentFails, ShapesWhole, Numbered, InStep, Kept, StepShape
    PROVE  Kept'
<1> HIDE DEF StepShape
<1>1. CASE UNCHANGED <<sessions, calls, artifacts>>
  <2>1. \A t \in Sids : UNCHANGED EventsOf(t)
    BY <1>1 DEF EventsOf
  <2> QED  BY <1>1, <2>1, SameKept
<1>2. ASSUME NEW s \in Sids, NEW d \in Delta, Opening(s, d) PROVE Kept'
  <2>1. PICK born \in Nat : born = invs + 1
    BY DEF TypeOK
  <2>2. CreateSession(s, d, born) /\ UNCHANGED calls
    BY <1>2, <2>1 DEF Opening
  <2>3. UNCHANGED artifacts
    BY <2>2 DEF CreateSession
  <2>4. \A t \in Sids : UNCHANGED EventsOf(t)
    BY <2>2, CreatedEvents
  <2> QED  BY <2>2, <2>3, <2>4, SameKept
<1>3. ASSUME NEW c \in Callers, Beginning(c) \/ Reading(c) \/ Returning(c) PROVE Kept'
  <2>1. UNCHANGED <<sessions, artifacts>>
    BY <1>3 DEF Beginning, Reading, Returning, service
  <2>2. calls[c].todo = <<>> /\ calls'[c].todo = <<>> /\ calls'[c].last = NoEvent
    <3>1. CASE Beginning(c)
      BY <3>1, IdleFields DEF Beginning
    <3>2. CASE Reading(c)
      BY <3>2, StageFacts DEF Reading
    <3>3. CASE Returning(c)
      BY <3>3, IdleFields DEF Returning
    <3> QED  BY <1>3, <3>1, <3>2, <3>3
  <2>3. \A t \in Sids : UNCHANGED EventsOf(t)
    BY <2>1 DEF EventsOf
  <2> QED  BY <2>1, <2>2, <2>3, QuietKept
<1>4. ASSUME NEW c \in Callers, Creating(c) PROVE Kept'
  <2>1. PICK s \in Sids, born \in Nat : s = calls[c].sid /\ born = calls[c].inv
    BY <1>4, StageFacts DEF Creating, TypeOK, Call
  <2>2. CreateSession(s, NoState, born) /\ NoState \in Delta
    BY <1>4, <2>1, NoStateTyped DEF Creating
  <2>3. UNCHANGED artifacts
    BY <2>2 DEF CreateSession
  <2>4. \A t \in Sids : UNCHANGED EventsOf(t)
    BY <2>2, CreatedEvents
  <2>5. calls[c].todo = <<>> /\ calls'[c].todo = <<>> /\ calls'[c].last = NoEvent
    BY <1>4, StageFacts DEF Creating
  <2> QED  BY <2>3, <2>4, <2>5, QuietKept
<1>5. ASSUME NEW c \in Callers, Moving(c) PROVE Kept'
  BY <1>3, <1>4, <1>5, PlanningKept, AppendingKept DEF Moving
<1>6. ASSUME NEW s \in Sids, Deleting(s) PROVE FALSE
  BY <1>6 DEF Deleting, Alone
<1>7. CASE WriteUserState /\ UNCHANGED <<calls, invs>>
  BY <1>1, <1>7 DEF WriteUserState
<1>8. CASE UNCHANGED vars
  BY <1>1, <1>8 DEF vars, service
<1> QED  BY <1>2, <1>5, <1>6, <1>7, <1>8 DEF StepShape

LEMMA KeptRestores ==
    ASSUME TypeOK, Kept
    PROVE  RewindRestoresArtifact
<1> SUFFICES ASSUME NEW s \in DOMAIN sessions
             PROVE  LoadArtifact(s, RecordedVersion(sessions[s].events, DOMAIN sessions[s].events))
                       = LoadArtifact(s, RecordedVersion(sessions[s].events, ApplyRewinds(sessions[s].events)))
  BY DEF RewindRestoresArtifact
<1>1. s \in Sids /\ sessions[s].events \in Seq(Event)
  BY DEF TypeOK, SessionsTyped, Session
<1>2. PICK events \in Seq(Event), n \in Nat : events = sessions[s].events /\ n = Len(events)
  BY <1>1
<1>3. PICK store : store = artifacts[s] /\ Held(store, events)
  BY <1>1, <1>2 DEF Kept, EventsOf
<1>4. \A v : LoadArtifact(s, v) = Load(store, v)
  BY <1>3 DEF LoadArtifact, Load
<1>5. ApplyRewinds(events) = Live(events)[n]
  BY <1>2, LiveIs
<1>6. n \in 0 .. n /\ 1 .. n \in SUBSET (1 .. n) /\ DOMAIN events = 1 .. n
  BY <1>2
<1>7. Live(events)[n] \in SUBSET (1 .. n)
  BY <1>2, <1>6, LiveAmong
<1>8. Content(store, events)[1 .. n] = Content(store, events)[Live(events)[n]]
  BY <1>2, <1>3, <1>6 DEF Held, Led
<1>9. Load(store, RecordedVersion(events, 1 .. n)) = Load(store, RecordedVersion(events, Live(events)[n]))
  BY <1>6, <1>7, <1>8 DEF Content
<1> QED  BY <1>2, <1>4, <1>5, <1>6, <1>9

(* RewindRestoresArtifact: with one call at a time over sessions that are  *)
(* not deleted, where no agent fails between what it saved and the events  *)
(* that record it and none records what it saved in a partial event, which *)
(* is not stored, the version recorded last holds what the live events     *)
(* lead to.                                                                *)
THEOREM RewindsRestoreArtifact ==
    ASSUME Alone, ~AgentFails, ShapesWhole
    PROVE  Spec => []RewindRestoresArtifact
<1> DEFINE IInv == /\ TypeOK /\ Staged /\ Issued /\ ServiceScoped /\ Numbered
                   /\ (Redeliveries /\ ShapesClean => Clean) /\ InStep /\ Kept
<1>1. Init => IInv
  <2> SUFFICES ASSUME Init PROVE IInv
    OBVIOUS
  <2>1. sessions = <<>> /\ \A c \in Callers : calls[c] = Idle
    BY DEF Init, InitService
  <2>2. Clean /\ Numbered
    BY <2>1, IdleFields, NoStateTyped DEF Clean, CleanCall, Numbered, NumberedCall, NotStored
  <2> QED  BY <2>2, InitTyped, InitIssued, InitScoped, InitInStep, InitKept
<1>2. IInv /\ [Next]_vars => IInv'
  <2> SUFFICES ASSUME IInv, [Next]_vars PROVE IInv'
    OBVIOUS
  <2>1. StepShape /\ TypeOK' /\ Staged'
    BY Typed
  <2>2. Issued' /\ ServiceScoped'
    BY <2>1, IssuedKept, ScopedKept
  <2>3. Redeliveries /\ ShapesClean => Clean'
    BY <2>1, CleanKept
  <2>4. Numbered'
    BY <2>1, <2>3, NumberedKept
  <2>5. InStep'
    BY <2>1, InStepKept
  <2>6. Kept'
    BY <2>1, KeptKept
  <2> QED  BY <2>1, <2>2, <2>3, <2>4, <2>5, <2>6 DEF ShapesClean
<1>3. IInv => RewindRestoresArtifact
  BY KeptRestores
<1> HIDE DEF IInv
<1> QED  BY <1>1, <1>2, <1>3, PTL DEF Spec
=============================================================================
