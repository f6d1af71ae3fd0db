---------------------------- MODULE LlmFlowProofs ----------------------------
(***************************************************************************)
(* Proofs about the turn loop, for all agents, tools, models and limits.   *)
(***************************************************************************)
EXTENDS LlmFlowProps, DataTheorems, SequenceTheorems

-----------------------------------------------------------------------------
(* Appending events.                                                       *)

(* w has what v has, and then some of S.                                   *)
Grown(v, w, S) ==
    /\ IsSeq(w) /\ Len(v) <= Len(w) /\ \A i \in DOMAIN v : w[i] = v[i]
    /\ \A i \in Len(v) + 1 .. Len(w) : w[i] \in S

LEMMA GrownByOne ==
    ASSUME NEW v, IsSeq(v), NEW w, NEW S, Grown(v, w, S), NEW e, NEW t, t = Append(w, e)
    PROVE  Grown(v, t, S \cup {e})
<1>1. IsSeq(t) /\ Len(t) = Len(w) + 1
  BY AppendFacts DEF Grown
<1>2. t[Len(w) + 1] = e
  BY AppendFacts DEF Grown
<1>3. \A i \in DOMAIN w : t[i] = w[i]
  BY AppendFacts DEF Grown
<1>4. Len(v) \in Nat /\ DOMAIN v = 1 .. Len(v) /\ Len(w) \in Nat /\ DOMAIN w = 1 .. Len(w)
  BY SeqFacts DEF Grown
<1>5. \A i \in DOMAIN v : t[i] = v[i]
  BY <1>3, <1>4 DEF Grown
<1>6. \A i \in Len(v) + 1 .. Len(t) : t[i] \in S \cup {e}
  BY <1>1, <1>2, <1>3, <1>4 DEF Grown
<1> QED  BY <1>1, <1>4, <1>5, <1>6 DEF Grown

LEMMA GrownLater ==
    ASSUME NEW v, IsSeq(v), NEW w, NEW S, Grown(v, w, S)
    PROVE  /\ Range(v) \subseteq Range(w) /\ Range(w) \subseteq Range(v) \cup S
           /\ \A T : S \subseteq T => Grown(v, w, T)
<1>1. Len(v) \in Nat /\ DOMAIN v = 1 .. Len(v) /\ Len(w) \in Nat /\ DOMAIN w = 1 .. Len(w)
  BY SeqFacts DEF Grown
<1>2. DOMAIN w = DOMAIN v \cup (Len(v) + 1 .. Len(w))
  BY <1>1 DEF Grown
<1>3. Range(v) \subseteq Range(w) /\ Range(w) \subseteq Range(v) \cup S
  BY <1>2 DEF Grown, Range
<1> QED  BY <1>3 DEF Grown

LEMMA GrownNot == ASSUME NEW v, IsSeq(v), NEW S PROVE Grown(v, v, S)
<1>1. Len(v) \in Nat
  BY SeqFacts
<1> QED  BY <1>1 DEF Grown

(* append_event one after the other.                                       *)
LEMMA AppendAllFacts ==
    ASSUME IsSeq(store), NEW view, IsSeq(view), NEW events, IsSeq(events),
           NEW s, s = AppendAll(view, events)
    PROVE  /\ IsSeq(s.store) /\ IsSeq(s.view)
           /\ Range(s.store) = Range(store) \cup Range(events)
           /\ NoRepeat(store) => NoRepeat(s.store)
           /\ Grown(view, s.view, Range(events))
           /\ events # <<>> /\ events[1] \notin Range(store) =>
                 Len(view) < Len(s.view) /\ s.view[Len(view) + 1] = events[1]
<1> DEFINE E == Range(store) \cup Range(view) \cup {events[n] : n \in Nat}
           T == [store : Seq(E), view : Seq(E)]
           a == [store |-> store, view |-> view]
           F == [n \in Nat |-> [x \in T |-> AppendOne(x, events[n])]]
           Is(f) == f = [n \in Nat |-> IF n = 0 THEN a ELSE AppendOne(f[n - 1], events[n])]
           after == CHOOSE f : Is(f)
<1>1. store \in Seq(E) /\ view \in Seq(E) /\ Len(events) \in Nat /\ DOMAIN events = 1 .. Len(events)
  BY SeqFacts
<1>2. a \in T
  BY <1>1
<1>3. ASSUME NEW n \in Nat, NEW x \in T PROVE AppendOne(x, events[n]) \in T
  BY DEF AppendOne
<1>4. F \in [Nat -> [T -> T]] /\ \A n \in Nat : \A x \in T : F[n][x] = AppendOne(x, events[n])
  BY <1>3
<1> HIDE DEF F, T, a
<1>5. PICK f \in [Nat -> T] : f[0] = a /\ \A n \in Nat : f[n + 1] = F[n + 1][f[n]]
  <2>1. Recursive(T, a, F) # {}
    BY <1>2, <1>4, Recursion
  <2> QED  BY <2>1 DEF Recursive
<1>6. ASSUME NEW n \in Nat PROVE f[n] = IF n = 0 THEN a ELSE AppendOne(f[n - 1], events[n])
  <2>1. CASE n = 0
    BY <1>5, <2>1
  <2>2. CASE n # 0
    <3>1. PICK m \in Nat : m = n - 1 /\ n = m + 1
      BY <2>2
    <3>2. F[m + 1][f[m]] = AppendOne(f[m], events[m + 1])
      BY <1>4
    <3> QED  BY <1>5, <2>2, <3>1, <3>2
  <2> QED  BY <2>1, <2>2
<1>7. Is(f)
  BY <1>6
<1>8. Is(after)
  BY <1>7
<1>9. s = after[Len(events)]
  BY DEF AppendAll, a
<1> HIDE DEF after
<1>10. \A n \in Nat : after[n] = IF n = 0 THEN a ELSE AppendOne(after[n - 1], events[n])
  BY <1>8
<1> DEFINE Good(n) ==
             /\ after[n] \in T
             /\ Range(after[n].store) = Range(store) \cup {events[i] : i \in 1 .. n}
             /\ NoRepeat(store) => NoRepeat(after[n].store)
             /\ Grown(view, after[n].view, {events[i] : i \in 1 .. n})
             /\ n > 0 /\ events[1] \notin Range(store) =>
                   Len(view) < Len(after[n].view) /\ after[n].view[Len(view) + 1] = events[1]
           S == {n \in Nat : Good(n)}
<1>11. Good(0)
  <2>1. after[0] = a /\ 1 .. 0 = {}
    BY <1>10
  <2>2. Grown(view, view, {})
    BY GrownNot
  <2>3. {events[i] : i \in 1 .. 0} = {}
    BY <2>1
  <2> QED  BY <1>2, <2>1, <2>2, <2>3 DEF a
<1>12. ASSUME NEW n \in Nat, Good(n) PROVE Good(n + 1)
  <2>1. PICK x \in T : x = after[n]
    BY <1>12
  <2>2. after[n + 1] = AppendOne(x, events[n + 1])
    <3>1. n + 1 \in Nat /\ n + 1 # 0 /\ (n + 1) - 1 = n
      OBVIOUS
    <3> QED  BY <1>10, <2>1, <3>1
  <2>3. AppendOne(x, events[n + 1]) \in T
    BY <1>3
  <2>4. {events[i] : i \in 1 .. n + 1} = {events[i] : i \in 1 .. n} \cup {events[n + 1]}
    <3>1. 1 .. n + 1 = 1 .. n \cup {n + 1}
      OBVIOUS
    <3> QED  BY <3>1
  <2>5. CASE events[n + 1] \in Range(x.store)
    <3>1. after[n + 1] = x
      BY <2>2, <2>5 DEF AppendOne
    <3>2. Grown(view, x.view, {events[i] : i \in 1 .. n + 1})
      <4>1. PICK v, A, B : v = x.view /\ A = {events[i] : i \in 1 .. n} /\ B = {events[i] : i \in 1 .. n + 1}
        OBVIOUS
      <4>2. Grown(view, v, A) /\ A \subseteq B
        BY <1>12, <2>1, <2>4, <4>1
      <4>3. Grown(view, v, B)
        BY <4>2, GrownLater
      <4> QED  BY <4>1, <4>3
    <3>3. events[1] \notin Range(store) => n > 0
      <4>1. n = 0 => x.store = store /\ n + 1 = 1
        BY <1>10, <2>1 DEF a
      <4> QED  BY <2>5, <4>1
    <3>4. \A n0 \in {n + 1} : n0 > 0 /\ events[1] \notin Range(store) =>
             Len(view) < Len(x.view) /\ x.view[Len(view) + 1] = events[1]
      BY <1>12, <2>1, <3>3
    <3> QED  BY <1>12, <2>1, <2>4, <2>5, <3>1, <3>2, <3>4
  <2>6. CASE events[n + 1] \notin Range(x.store)
    <3>1. after[n + 1].store = Append(x.store, events[n + 1])
      BY <2>2, <2>6 DEF AppendOne
    <3>2. IsSeq(x.store)
      BY DEF T, IsSeq
    <3>3. PICK y, e, t : y = x.store /\ e = events[n + 1] /\ t = Append(y, e)
      OBVIOUS
    <3>4. IsSeq(y) /\ e \notin Range(y)
      BY <2>6, <3>2, <3>3
    <3>5. t = Append(y, e)
      BY <3>3
    <3> HIDE DEF Good
    <3>6. Range(t) = Range(y) \cup {e} /\ (NoRepeat(y) => NoRepeat(t))
      BY <3>4, <3>5, AppendFacts
    <3>7. PICK v, A, B, z : /\ v = x.view /\ A = {events[i] : i \in 1 .. n} /\ z = Append(v, e)
                            /\ B = {events[i] : i \in 1 .. n + 1}
      OBVIOUS
    <3>8. after[n + 1].view = z
      BY <2>2, <2>6, <3>3, <3>7 DEF AppendOne
    <3>9. Grown(view, v, A) /\ B = A \cup {e}
      BY <1>12, <2>1, <2>4, <3>3, <3>7 DEF Good
    <3>10. Grown(view, z, B)
      <4>1. Grown(view, z, A \cup {e})
        BY <3>7, <3>9, GrownByOne
      <4> QED  BY <3>9, <4>1
    <3>11. IsSeq(v)
      BY <3>9 DEF Grown
    <3>12. z[Len(v) + 1] = e
      BY <3>7, <3>11, AppendFacts
    <3>13. Len(z) = Len(v) + 1 /\ \A i \in DOMAIN v : z[i] = v[i]
      BY <3>7, <3>11, AppendFacts
    <3>14. Len(v) \in Nat /\ DOMAIN v = 1 .. Len(v) /\ Len(view) \in Nat
      BY <3>11, SeqFacts
    <3>15. ASSUME events[1] \notin Range(store)
           PROVE  Len(view) < Len(z) /\ z[Len(view) + 1] = events[1]
      <4>1. CASE n = 0
        <5>1. v = view /\ n + 1 = 1
          BY <1>10, <2>1, <3>7, <4>1 DEF a
        <5> QED  BY <3>3, <3>12, <3>13, <3>14, <5>1
      <4>2. CASE n > 0
        <5>1. Len(view) < Len(v) /\ v[Len(view) + 1] = events[1]
          BY <1>12, <2>1, <3>7, <3>15, <4>2 DEF Good
        <5> QED  BY <3>13, <3>14, <5>1
      <4> QED  BY <4>1, <4>2
    <3>16. after[n + 1] \in T
      BY <2>2, <2>3
    <3>17. /\ Range(after[n + 1].store) = Range(store) \cup {events[i] : i \in 1 .. n + 1}
           /\ NoRepeat(store) => NoRepeat(after[n + 1].store)
      BY <1>12, <2>1, <2>4, <2>6, <3>1, <3>3, <3>6 DEF Good
    <3> QED  BY <3>7, <3>8, <3>10, <3>15, <3>16, <3>17 DEF Good
  <2> QED  BY <2>5, <2>6
<1> HIDE DEF Good
<1>13. \A n \in Nat : n \in S
  <2>1. 0 \in S /\ \A n \in Nat : n \in S => n + 1 \in S
    BY <1>11, <1>12
  <2> HIDE DEF S
  <2> QED  BY <2>1, Induction
<1>14. Good(Len(events))
  BY <1>1, <1>13 DEF Good
<1>15. {events[i] : i \in 1 .. Len(events)} = Range(events)
  BY <1>1 DEF Range
<1>16. s.store \in Seq(E) /\ s.view \in Seq(E)
  BY <1>9, <1>14 DEF T, Good
<1>17. events # <<>> => Len(events) > 0
  BY <1>1, SeqFacts
<1> QED  BY <1>9, <1>14, <1>15, <1>16, <1>17 DEF IsSeq, Good

LEMMA AppendAllRange ==
    ASSUME IsSeq(store), NEW view, IsSeq(view), NEW events, IsSeq(events),
           NEW s, s = AppendAll(view, events)
    PROVE  Range(s.store) = Range(store) \cup Range(events)
BY AppendAllFacts, ZenonT(60)

-----------------------------------------------------------------------------
(* The shape of the state.                                                 *)

IsFlow(f) ==
    f \in [agent : {f.agent}, view : {f.view}, creds : {f.creds}, ended : {f.ended}, pc : {f.pc},
           step : {f.step}, out : {f.out}, batch : {f.batch}, calls : {f.calls},
           results : {f.results}, then : {f.then}]

(* A flow that is not within a step holds no events of one, and what it    *)
(* hands on is stored.                                                     *)
FlowOK(f) ==
    /\ IsFlow(f) /\ IsSeq(f.view) /\ IsSeq(f.step) /\ IsSeq(f.out)
    /\ f.pc \in {"auth", "confirm", "model", "tools", "nested", "append", "done"}
    /\ f.pc = "tools" => f.then \in {"confirm", "model", "step"}
    /\ f.pc \in {"auth", "confirm", "model", "done"} \/ (f.pc = "tools" /\ f.then # "step")
          => f.step = <<>>

OutsStored == \A i \in DOMAIN flows : Range(flows[i].out) \subseteq Range(store)

Shape ==
    /\ clock \in Nat /\ turn \in Nat /\ llmCalls \in Nat
    /\ IsSeq(store) /\ NoRepeat(store)
    /\ IsSeq(flows) /\ \A i \in DOMAIN flows : FlowOK(flows[i])
    /\ OutsStored

IsEvent(e) ==
    e \in [id : {e.id}, by : {e.by}, turn : {e.turn}, calls : {e.calls}, answers : {e.answers},
           asks : {e.asks}, logins : {e.logins}, requests : {e.requests}, verdicts : {e.verdicts},
           skip : {e.skip}, meta : {e.meta}]

(* The form that the Runner gives an event: alike are those that it maps   *)
(* to the same.                                                            *)
Marked(e) == [e EXCEPT !.meta = TRUE]

Steps == UNION {Range(flows[i].step) : i \in DOMAIN flows}
Pool == Range(store) \cup Steps

(* The calls that are being run.                                           *)
Awaiting == IF Active("tools") THEN ById(Top.calls) ELSE {}
AnswersIn(events) == UNION {e.answers : e \in events}

(* Two events share an id only if the Runner changed one of them, and none *)
(* is from a turn to come.                                                 *)
Ids ==
    /\ \A e \in Pool : IsEvent(e) /\ e.id \in 1 .. clock /\ e.turn \in Nat /\ e.turn <= turn
    /\ \A e, f \in Pool : e.id = f.id => Marked(e) = Marked(f) /\ (e = f \/ e.by \in Rewritten)

(* The calls of the model in a turn under way are counted.                 *)
Called == {e.id : e \in {d \in Pool : d.turn = turn /\ d.calls # <<>>}}
Counted ==
    /\ IsFiniteSet(Called) /\ Cardinality(Called) <= MaxLlmCalls
    /\ flows # <<>> => Cardinality(Called) <= llmCalls

(* The calls that a turn's events hold are answered or being run.          *)
Owed ==
    flows # <<>> \/ outcome = "finished" =>
        \A e \in Pool : e.turn = turn => ById(e.calls) \subseteq AnswersIn(Pool) \cup Awaiting

(* Events that a step makes.                                               *)
Made(New) ==
    /\ \A e \in New : IsEvent(e) /\ e.id \in clock + 1 .. clock' /\ e.turn = turn'
    /\ \A e, f \in New : e.id = f.id => e = f

(* What any step does to the events that there are.                        *)
Effect(New) ==
    /\ Shape' /\ clock <= clock' /\ Made(New)
    /\ Range(store) \subseteq Range(store') /\ Pool' \subseteq Pool \cup New

Quiet(New) == \A e \in New : e.calls = <<>>

(* The steps: a new turn, a model's answer, an error, the Runner's end of  *)
(* the turn, and all others.                                               *)
Starts == \E e : /\ Effect({e}) /\ Quiet({e}) /\ turn' = turn + 1 /\ llmCalls' = 0
                 /\ flows = <<>> /\ outcome' = outcome

Asks == \E e : /\ Effect({e}) /\ turn' = turn /\ flows # <<>>
               /\ llmCalls < MaxLlmCalls /\ llmCalls' = llmCalls + 1
               /\ Pool \subseteq Pool' /\ Awaiting = {} /\ ById(e.calls) \subseteq Awaiting'

Fails == /\ Effect({}) /\ turn' = turn /\ llmCalls <= llmCalls'
         /\ flows' = <<>> /\ outcome' = "failed"

Ends == /\ Shape' /\ flows # <<>> /\ flows' = <<>> /\ UNCHANGED <<llmCalls, clock, turn>>
        /\ Pool \subseteq Pool' /\ Awaiting = {} /\ \A e \in Pool' : \E d \in Pool : e \in {d, Delivered(d)}

GoesOn == \E New : /\ Effect(New) /\ Quiet(New) /\ turn' = turn
                   /\ Pool \subseteq Pool' /\ Awaiting \subseteq Awaiting' \cup AnswersIn(Pool')
                   /\ IF flows = <<>> THEN flows' = <<>> /\ outcome' = outcome /\ llmCalls' = llmCalls
                      ELSE llmCalls' \in llmCalls .. MaxLlmCalls \/ llmCalls' = llmCalls

-----------------------------------------------------------------------------
(* The stack of flows.                                                     *)

LEMMA TopFacts ==
    ASSUME Shape, flows # <<>>
    PROVE  /\ Len(flows) \in Nat \ {0} /\ Len(flows) \in DOMAIN flows /\ DOMAIN flows = 1 .. Len(flows)
           /\ Top = flows[Len(flows)] /\ FlowOK(Top) /\ Range(Top.out) \subseteq Range(store)
           /\ Range(Top.step) \subseteq Pool
           /\ IsSeq(Under) /\ Len(Under) = Len(flows) - 1 /\ DOMAIN Under = 1 .. Len(flows) - 1
           /\ \A i \in 1 .. Len(flows) - 1 : Under[i] = flows[i]
<1>1. PICK X : flows \in Seq(X)
  BY DEF Shape, IsSeq
<1>2. Len(flows) \in Nat \ {0} /\ DOMAIN flows = 1 .. Len(flows) /\ Len(flows) \in DOMAIN flows
  BY <1>1
<1>3. Under = SubSeq(flows, 1, Len(flows) - 1) /\ Top = flows[Len(flows)]
  BY DEF Under, Front, Top, Last
<1>4. /\ Under \in Seq(X) /\ Len(Under) = Len(flows) - 1
      /\ \A i \in 1 .. Len(flows) - 1 : Under[i] = flows[i]
  BY <1>1, <1>2, <1>3
<1>5. IsSeq(Under) /\ DOMAIN Under = 1 .. Len(flows) - 1
  BY <1>4 DEF IsSeq
<1>6. Range(Top.step) \subseteq Pool
  BY <1>2, <1>3 DEF Pool, Steps
<1> QED  BY <1>2, <1>3, <1>4, <1>5, <1>6 DEF Shape, OutsStored

(* The flow on top becomes another.                                        *)
LEMMA BecomeFacts ==
    ASSUME Shape, flows # <<>>, NEW g, Become(g)
    PROVE  /\ flows' # <<>> /\ IsSeq(flows') /\ Len(flows') = Len(flows) /\ DOMAIN flows' = DOMAIN flows
           /\ Top' = g /\ flows'[Len(flows)] = g
           /\ \A i \in DOMAIN flows : i # Len(flows) => flows'[i] = flows[i]
<1>1. flows' = Append(Under, g)
  BY DEF Become
<1>2. PICK u, t : u = Under /\ t = flows'
  OBVIOUS
<1>3. /\ IsSeq(t) /\ t # <<>> /\ Len(t) = Len(u) + 1 /\ t[Len(u) + 1] = g
      /\ \A i \in DOMAIN u : t[i] = u[i]
      /\ DOMAIN t = DOMAIN u \cup {Len(u) + 1}
  <2>1. IsSeq(u)
    BY <1>2, TopFacts
  <2>2. t = Append(u, g)
    BY <1>1, <1>2
  <2>3. IsSeq(t) /\ t # <<>> /\ Range(t) = Range(u) \cup {g}
    BY <2>1, <2>2, AppendFacts
  <2>4. Len(t) = Len(u) + 1
    BY <2>1, <2>2, AppendFacts
  <2>5. t[Len(u) + 1] = g
    BY <2>1, <2>2, AppendFacts
  <2>6. \A i \in DOMAIN u : t[i] = u[i]
    BY <2>1, <2>2, AppendFacts
  <2>7. DOMAIN t = DOMAIN u \cup {Len(u) + 1}
    BY <2>1, <2>2, AppendFacts
  <2> QED  BY <2>3, <2>4, <2>5, <2>6, <2>7
<1>4. Len(flows) \in Nat \ {0} /\ Len(u) = Len(flows) - 1 /\ DOMAIN u = 1 .. Len(flows) - 1
      /\ DOMAIN flows = 1 .. Len(flows) /\ \A i \in 1 .. Len(flows) - 1 : u[i] = flows[i]
  BY <1>2, TopFacts
<1>5. Len(u) + 1 = Len(flows)
  BY <1>4
<1>6. Top' = flows'[Len(flows')]
  BY DEF Top, Last
<1>7. DOMAIN t = 1 .. Len(flows)
  BY <1>3, <1>4
<1> QED  BY <1>2, <1>3, <1>4, <1>5, <1>6, <1>7

LEMMA PushFacts ==
    ASSUME Shape, flows # <<>>, NEW g, NEW h, flows' = Under \o <<g, h>>
    PROVE  /\ IsSeq(flows') /\ flows' # <<>> /\ DOMAIN flows' = DOMAIN flows \cup {Len(flows) + 1}
           /\ flows'[Len(flows)] = g /\ flows'[Len(flows) + 1] = h
           /\ \A i \in DOMAIN flows : i # Len(flows) => flows'[i] = flows[i]
<1>1. PICK u, t, n : u = Under /\ t = flows' /\ n = Len(flows)
  OBVIOUS
<1>2. /\ n \in Nat \ {0} /\ IsSeq(u) /\ Len(u) = n - 1 /\ DOMAIN flows = 1 .. n
      /\ \A i \in 1 .. n - 1 : u[i] = flows[i]
  BY <1>1, TopFacts
<1>3. IsSeq(t) /\ Len(t) = Len(u) + 2 /\ t[Len(u) + 1] = g /\ t[Len(u) + 2] = h
      /\ \A i \in 1 .. Len(u) : t[i] = u[i]
  <2>1. t = u \o <<g, h>>
    BY <1>1
  <2>2. IsSeq(u)
    BY <1>2
  <2>3. IsSeq(t) /\ Len(t) = Len(u) + 2
    BY <2>1, <2>2, PairFacts
  <2>4. t[Len(u) + 1] = g /\ t[Len(u) + 2] = h
    BY <2>1, <2>2, PairFacts
  <2>5. \A i \in 1 .. Len(u) : t[i] = u[i]
    BY <2>1, <2>2, PairFacts
  <2> QED  BY <2>3, <2>4, <2>5
<1>4. DOMAIN t = 1 .. Len(t) /\ (t = <<>> <=> Len(t) = 0)
  BY <1>3, SeqFacts
<1>5. Len(t) = n + 1 /\ Len(u) + 1 = n /\ Len(u) + 2 = n + 1
  BY <1>2, <1>3
<1>6. DOMAIN t = 1 .. n \cup {n + 1} /\ t # <<>>
  BY <1>2, <1>4, <1>5
<1>7. t[n] = g /\ t[n + 1] = h
  BY <1>3, <1>5
<1>8. \A i \in 1 .. n : i # n => t[i] = flows[i]
  BY <1>2, <1>3, <1>5
<1> QED  BY <1>1, <1>2, <1>3, <1>6, <1>7, <1>8

(* ... and the store at most grows by what it or the step held.            *)
LEMMA BecomeEffect ==
    ASSUME Shape, flows # <<>>, NEW g, Become(g), FlowOK(g), NEW New, Made(New),
           Range(g.step) \subseteq Pool \cup New, Range(g.out) \subseteq Range(store'),
           clock' \in Nat, turn' \in Nat, llmCalls' \in Nat, clock <= clock',
           IsSeq(store'), NoRepeat(store'),
           Range(store) \subseteq Range(store'), Range(store') \subseteq Pool \cup New
    PROVE  /\ Effect(New)
           /\ Range(Top.step) \subseteq Pool' => Pool \subseteq Pool'
           /\ Range(g.step) \subseteq Pool' /\ flows' # <<>> /\ Top' = g
<1>1. /\ flows' # <<>> /\ IsSeq(flows') /\ DOMAIN flows' = DOMAIN flows
      /\ Top' = g /\ flows'[Len(flows)] = g
      /\ \A i \in DOMAIN flows : i # Len(flows) => flows'[i] = flows[i]
  BY BecomeFacts
<1>2. \A i \in DOMAIN flows' : FlowOK(flows'[i]) /\ Range(flows'[i].out) \subseteq Range(store')
  BY <1>1 DEF Shape, OutsStored
<1>3. Shape'
  BY <1>1, <1>2 DEF Shape, OutsStored
<1>4. Steps' \subseteq Pool \cup New
  BY <1>1 DEF Steps, Pool
<1>5. Pool' \subseteq Pool \cup New
  BY <1>4 DEF Pool
<1>6. Len(flows) \in DOMAIN flows /\ Top = flows[Len(flows)]
  BY TopFacts
<1>7. Range(g.step) \subseteq Pool'
  BY <1>1, <1>6 DEF Pool, Steps
<1>8. ASSUME Range(Top.step) \subseteq Pool' PROVE Pool \subseteq Pool'
  <2>1. Steps \subseteq Range(Top.step) \cup Steps'
    BY <1>1, <1>6 DEF Steps
  <2> QED  BY <1>8, <2>1 DEF Pool
<1> QED  BY <1>1, <1>3, <1>5, <1>7, <1>8 DEF Effect

-----------------------------------------------------------------------------
(* The actions.                                                            *)

LEMMA NothingMade == Made({}) /\ Quiet({})
BY DEF Made, Quiet

LEMMA ActiveFacts ==
    ASSUME Shape, NEW pc, Active(pc)
    PROVE  /\ flows # <<>> /\ Top.pc = pc
           /\ pc # "tools" => Awaiting = {}
           /\ pc \in {"auth", "confirm", "model", "done"} => Top.step = <<>>
<1>1. flows # <<>> /\ Top.pc = pc
  BY DEF Active
<1>2. FlowOK(Top)
  BY <1>1, TopFacts
<1> QED  BY <1>1, <1>2 DEF FlowOK, Awaiting, Active

(* A step that makes no event: calls are run, or none is found to run ...  *)
LEMMA QuietStep ==
    ASSUME Shape, flows # <<>>, Awaiting = {}, Top.step = <<>>,
           NEW g, FlowOK(g), g.step = <<>>, g.out = Top.out, Become(g),
           clock' \in {clock, clock + 1}, UNCHANGED <<store, turn, outcome>>,
           llmCalls' \in Nat, llmCalls' \in llmCalls .. MaxLlmCalls \/ llmCalls' = llmCalls
    PROVE  GoesOn
<1>2. Range(Top.out) \subseteq Range(store)
  BY TopFacts
<1>5. /\ clock' \in Nat /\ clock <= clock' /\ turn' \in Nat
      /\ IsSeq(store') /\ NoRepeat(store') /\ Range(store') = Range(store)
  <2>1. store' = store /\ turn' = turn /\ IsSeq(store) /\ NoRepeat(store)
    BY DEF Shape
  <2>2. clock \in Nat /\ turn \in Nat
    BY DEF Shape
  <2>3. clock' \in Nat /\ clock <= clock'
    BY <2>2
  <2> QED  BY <2>1, <2>2, <2>3
<1>6. Range(store') \subseteq Pool
  BY <1>5 DEF Pool
<1>7. Range(g.step) \subseteq Pool \cup {} /\ Range(g.out) \subseteq Range(store')
  BY <1>2, <1>5, SingleFacts
<1>8. Range(Top.step) \subseteq Pool'
  BY SingleFacts
<1>9. Effect({}) /\ Pool \subseteq Pool' /\ flows' # <<>>
  BY <1>5, <1>6, <1>7, <1>8, NothingMade, BecomeEffect
<1>11. Awaiting \subseteq Awaiting' \cup AnswersIn(Pool')
  OBVIOUS
<1> QED  BY <1>9, <1>11, NothingMade DEF GoesOn

(* ... as in the two processors and in an empty step.                      *)
LEMMA ExecuteGoesOn ==
    ASSUME Shape, flows # <<>>, Awaiting = {}, Top.step = <<>>,
           NEW flow, IsFlow(flow), flow.view = Top.view, flow.step = Top.step, flow.out = Top.out,
           NEW calls, NEW verdicts,
           NEW then \in {"confirm", "model"}, Execute(flow, calls, verdicts, then),
           UNCHANGED <<store, llmCalls, turn, outcome>>
    PROVE  GoesOn
<1>1. PICK f : f = Top
  OBVIOUS
<1>2. FlowOK(f) /\ IsFlow(f) /\ f.step = <<>>
  BY <1>1, TopFacts DEF FlowOK
<1>3. IsFlow(flow) /\ flow.view = f.view /\ flow.step = f.step /\ flow.out = f.out
  BY <1>1
<1>4. PICK g : g = [flow EXCEPT !.pc = "tools", !.batch = clock + 1, !.calls = calls,
                                !.results = <<>>, !.then = then]
  OBVIOUS
<1>5. IsFlow(g) /\ g.view = f.view /\ g.step = f.step /\ g.out = f.out /\ g.pc = "tools" /\ g.then = then
  BY <1>3, <1>4 DEF IsFlow
<1>6. FlowOK(g) /\ g.step = <<>> /\ g.out = f.out
  BY <1>2, <1>5 DEF FlowOK
<1>7. Become(g) /\ clock' = clock + 1
  BY <1>4 DEF Execute
<1>8. llmCalls' = llmCalls /\ llmCalls' \in Nat
  BY DEF Shape
<1> QED  BY <1>1, <1>6, <1>7, <1>8, QuietStep

LEMMA ProcessAuthGoesOn == ASSUME Shape, ProcessAuth PROVE GoesOn
<1>1. flows # <<>> /\ Awaiting = {} /\ Top.step = <<>>
  BY ActiveFacts DEF ProcessAuth
<1>2. PICK creds, calls :
        LET flow == [Top EXCEPT !.creds = creds]
        IN  \/ Become([flow EXCEPT !.pc = "confirm"]) /\ UNCHANGED clock
            \/ Execute(flow, calls, <<>>, "confirm")
  BY DEF ProcessAuth
<1>3. UNCHANGED <<store, llmCalls, turn, outcome>> /\ llmCalls \in Nat
  BY DEF ProcessAuth, Shape
<1>4. PICK f, flow : f = Top /\ flow = [f EXCEPT !.creds = creds]
  OBVIOUS
<1>5. FlowOK(f) /\ IsFlow(f) /\ f.step = <<>>
  BY <1>1, <1>4, TopFacts DEF FlowOK
<1>6. IsFlow(flow) /\ flow.view = f.view /\ flow.step = f.step /\ flow.out = f.out /\ flow.creds = creds
  BY <1>4, <1>5 DEF IsFlow
<1>7. CASE Become([flow EXCEPT !.pc = "confirm"]) /\ UNCHANGED clock
  <2>1. PICK g : g = [flow EXCEPT !.pc = "confirm"]
    OBVIOUS
  <2>2. IsFlow(g) /\ g.view = f.view /\ g.step = f.step /\ g.out = f.out /\ g.pc = "confirm"
    BY <1>6, <2>1 DEF IsFlow
  <2>3. FlowOK(g) /\ g.step = <<>> /\ g.out = Top.out
    BY <1>4, <1>5, <2>2 DEF FlowOK
  <2>4. Become(g) /\ clock' \in {clock, clock + 1} /\ llmCalls' = llmCalls /\ llmCalls' \in Nat
    BY <1>3, <1>7, <2>1
  <2> QED  BY <1>1, <1>3, <2>3, <2>4, QuietStep
<1>8. CASE Execute(flow, calls, <<>>, "confirm")
  BY <1>1, <1>3, <1>4, <1>6, <1>8, ExecuteGoesOn
<1> QED  BY <1>2, <1>4, <1>7, <1>8

LEMMA ProcessConfirmationsGoesOn == ASSUME Shape, ProcessConfirmations PROVE GoesOn
<1>1. flows # <<>> /\ Awaiting = {} /\ Top.step = <<>>
  BY ActiveFacts DEF ProcessConfirmations
<1>2. PICK calls, verdicts : \/ Become([Top EXCEPT !.pc = "model"]) /\ UNCHANGED clock
                             \/ Execute(Top, calls, verdicts, "model")
  BY DEF ProcessConfirmations
<1>3. UNCHANGED <<store, llmCalls, turn, outcome>> /\ llmCalls \in Nat
  BY DEF ProcessConfirmations, Shape
<1>4. PICK f : f = Top
  OBVIOUS
<1>5. FlowOK(f) /\ IsFlow(f) /\ f.step = <<>>
  BY <1>1, <1>4, TopFacts DEF FlowOK
<1>6. CASE Become([Top EXCEPT !.pc = "model"]) /\ UNCHANGED clock
  <2>1. PICK g : g = [f EXCEPT !.pc = "model"]
    OBVIOUS
  <2>2. IsFlow(g) /\ g.view = f.view /\ g.step = f.step /\ g.out = f.out /\ g.pc = "model"
    BY <1>5, <2>1 DEF IsFlow
  <2>3. FlowOK(g) /\ g.step = <<>> /\ g.out = Top.out
    BY <1>4, <1>5, <2>2 DEF FlowOK
  <2>4. Become(g) /\ clock' \in {clock, clock + 1} /\ llmCalls' = llmCalls /\ llmCalls' \in Nat
    BY <1>3, <1>4, <1>6, <2>1
  <2> QED  BY <1>1, <1>3, <2>3, <2>4, QuietStep
<1>7. CASE Execute(Top, calls, verdicts, "model")
  BY <1>1, <1>3, <1>4, <1>5, <1>7, ExecuteGoesOn
<1> QED  BY <1>2, <1>6, <1>7

LEMMA EmptyStepGoesOn == ASSUME Shape, EmptyStep PROVE GoesOn
<1>1. flows # <<>> /\ Awaiting = {} /\ Top.step = <<>>
  BY ActiveFacts DEF EmptyStep
<1>2. PICK f, g : f = Top /\ g = [f EXCEPT !.pc = "append", !.step = <<>>]
  OBVIOUS
<1>3. FlowOK(f) /\ IsFlow(f)
  BY <1>1, <1>2, TopFacts DEF FlowOK
<1>4. IsFlow(g) /\ g.view = f.view /\ g.step = <<>> /\ g.out = f.out /\ g.pc = "append"
  BY <1>2, <1>3 DEF IsFlow
<1>5. FlowOK(g) /\ g.step = <<>> /\ g.out = Top.out
  BY <1>2, <1>3, <1>4, SingleFacts DEF FlowOK
<1>6. Become(g) /\ UNCHANGED <<store, turn, outcome>> /\ clock' \in {clock, clock + 1}
  BY <1>2 DEF EmptyStep
<1>7. llmCalls' \in Nat /\ (llmCalls' \in llmCalls .. MaxLlmCalls \/ llmCalls' = llmCalls)
  <2>1. llmCalls \in Nat /\ MaxLlmCalls \in Nat
    BY FlowConstants DEF Shape
  <2>2. llmCalls' = llmCalls \/ (llmCalls' = llmCalls + 1 /\ llmCalls < MaxLlmCalls)
    BY DEF EmptyStep
  <2> QED  BY <2>1, <2>2
<1> QED  BY <1>1, <1>5, <1>6, <1>7, QuietStep

(* The model answers with a text or with calls, which are run.             *)
LEMMA CallModelAsks == ASSUME Shape, NEW reply, CallModel(reply) PROVE Asks
<1>1. flows # <<>> /\ Awaiting = {} /\ Top.step = <<>>
  BY ActiveFacts DEF CallModel
<1>2. PICK f : f = Top
  OBVIOUS
<1>3. FlowOK(f) /\ IsFlow(f)
  BY <1>1, <1>2, TopFacts DEF FlowOK
<1>4. PICK calls : calls = [i \in DOMAIN reply |-> [tool |-> reply[i], id |-> <<clock + 1, i>>]]
  OBVIOUS
<1>5. PICK e : e = [Blank EXCEPT !.id = clock + 1, !.by = f.agent, !.turn = turn, !.calls = calls]
  OBVIOUS
<1>6. e.id = clock + 1 /\ e.turn = turn /\ e.calls = calls /\ IsEvent(e)
  BY <1>5 DEF Blank, IsEvent
<1>7. PICK flow : flow = [f EXCEPT !.step = <<e>>, !.pc = "append"]
  OBVIOUS
<1>8. IsFlow(flow) /\ flow.view = f.view /\ flow.step = <<e>> /\ flow.out = f.out /\ flow.pc = "append"
  BY <1>3, <1>7 DEF IsFlow
<1>9. \/ reply = <<>> /\ Become(flow) /\ clock' = clock + 1
      \/ Execute(flow, calls, <<>>, "step")
  BY <1>2, <1>4, <1>5, <1>7 DEF CallModel
<1>10. clock' = clock + 1 /\ UNCHANGED <<store, turn, outcome>>
      /\ llmCalls < MaxLlmCalls /\ llmCalls' = llmCalls + 1
  BY <1>9 DEF CallModel, Execute
<1>11. Made({e}) /\ clock' \in Nat /\ clock <= clock' /\ turn' \in Nat /\ llmCalls' \in Nat
  BY <1>6, <1>10 DEF Made, Shape
<1>12. IsSeq(store') /\ NoRepeat(store') /\ Range(store') = Range(store) /\ Range(store') \subseteq Pool \cup {e}
  BY <1>10 DEF Shape, Pool
<1>13. PICK g : /\ Become(g) /\ FlowOK(g) /\ g.step = <<e>> /\ g.out = f.out
                /\ calls = <<>> \/ (g.pc = "tools" /\ g.calls = calls)
  <2>1. CASE reply = <<>> /\ Become(flow)
    <3>1. FlowOK(flow)
      BY <1>3, <1>8, SingleFacts DEF FlowOK
    <3>2. calls = <<>>
      BY <1>4, <2>1
    <3> QED  BY <1>8, <2>1, <3>1, <3>2
  <2>2. CASE Execute(flow, calls, <<>>, "step")
    <3>1. PICK g : g = [flow EXCEPT !.pc = "tools", !.batch = clock + 1, !.calls = calls,
                                    !.results = <<>>, !.then = "step"]
      OBVIOUS
    <3>2. IsFlow(g) /\ g.view = f.view /\ g.step = <<e>> /\ g.out = f.out /\ g.pc = "tools"
          /\ g.then = "step" /\ g.calls = calls
      BY <1>8, <3>1 DEF IsFlow
    <3>3. FlowOK(g)
      BY <1>3, <3>2, SingleFacts DEF FlowOK
    <3>4. Become(g)
      BY <2>2, <3>1 DEF Execute
    <3> QED  BY <3>2, <3>3, <3>4
  <2> QED  BY <1>9, <2>1, <2>2
<1>14. Range(g.step) \subseteq Pool \cup {e} /\ Range(g.out) \subseteq Range(store')
  BY <1>1, <1>2, <1>12, <1>13, TopFacts, SingleFacts
<1>15. Range(Top.step) \subseteq Pool'
  BY <1>1, SingleFacts
<1>16. Range(store) \subseteq Range(store')
  BY <1>12
<1>17. Effect({e}) /\ Pool \subseteq Pool' /\ flows' # <<>> /\ Top' = g
  BY <1>1, <1>11, <1>12, <1>13, <1>14, <1>15, <1>16, BecomeEffect
<1>18. ById(e.calls) \subseteq Awaiting'
  <2>1. CASE calls = <<>>
    BY <1>6, <2>1 DEF ById
  <2>2. CASE g.pc = "tools" /\ g.calls = calls
    BY <1>6, <1>17, <2>2 DEF Awaiting, Active
  <2> QED  BY <1>13, <2>1, <2>2
<1> QED  BY <1>1, <1>10, <1>17, <1>18 DEF Asks

(* An error ends the turn and drops the events of the steps.               *)
LEMMA FailFails ==
    ASSUME Shape, Fail, clock' = clock, llmCalls' \in {llmCalls, llmCalls + 1}
    PROVE  Fails
<1>1. flows' = <<>> /\ outcome' = "failed" /\ UNCHANGED <<store, turn>>
  BY DEF Fail
<1>2. IsSeq(flows') /\ DOMAIN flows' = {}
  BY <1>1, EmptyFacts
<1>3. llmCalls' \in Nat /\ llmCalls <= llmCalls' /\ clock <= clock'
  BY DEF Shape
<1>4. Shape'
  BY <1>1, <1>2, <1>3 DEF Shape, OutsStored
<1>5. Pool' \subseteq Pool /\ Range(store) \subseteq Range(store')
  BY <1>1, <1>2 DEF Pool, Steps
<1> QED  BY <1>1, <1>3, <1>4, <1>5, NothingMade DEF Effect, Fails

(* The flow on top becomes another within its step.                        *)
LEMMA MadeStep ==
    ASSUME Shape, flows # <<>>, NEW g, FlowOK(g), Become(g), g.out = Top.out, NEW New, Made(New), Quiet(New),
           Range(Top.step) \subseteq Range(g.step), Range(g.step) \subseteq Range(Top.step) \cup New,
           clock' \in Nat, clock <= clock', UNCHANGED <<store, llmCalls, turn>>,
           Awaiting \subseteq Awaiting' \cup AnswersIn(Range(g.step))
    PROVE  GoesOn
<1>1. /\ turn' \in Nat /\ llmCalls' \in Nat /\ llmCalls' = llmCalls /\ turn' = turn
      /\ IsSeq(store') /\ NoRepeat(store') /\ Range(store') = Range(store)
  BY DEF Shape
<1>2. Range(Top.out) \subseteq Range(store) /\ Range(Top.step) \subseteq Pool
  BY TopFacts
<1>3. Range(g.step) \subseteq Pool \cup New /\ Range(g.out) \subseteq Range(store')
      /\ Range(store) \subseteq Range(store') /\ Range(store') \subseteq Pool \cup New
  BY <1>1, <1>2 DEF Pool
<1>4. /\ Effect(New) /\ Range(g.step) \subseteq Pool' /\ flows' # <<>>
      /\ Range(Top.step) \subseteq Pool' => Pool \subseteq Pool'
  BY <1>1, <1>3, BecomeEffect
<1>5. Awaiting \subseteq Awaiting' \cup AnswersIn(Pool')
  BY <1>4 DEF AnswersIn
<1> QED  BY <1>1, <1>4, <1>5 DEF GoesOn

LEMMA RunToolGoesOn ==
    ASSUME Shape, NEW t, NEW ok, RunTool(t, ok)
    PROVE  GoesOn
<1>1. UNCHANGED <<store, llmCalls, clock, turn, outcome>> /\ clock \in Nat
  BY DEF RunTool, Shape
<1>2. CASE flows' = flows
  <2>1. Shape' /\ Pool' = Pool /\ Awaiting' = Awaiting /\ Range(store') = Range(store)
    BY <1>1, <1>2 DEF Shape, OutsStored, Pool, Steps, Awaiting, Active, Top
  <2>2. Effect({}) /\ turn' = turn /\ llmCalls' = llmCalls /\ outcome' = outcome
    BY <1>1, <2>1, NothingMade DEF Effect
  <2> QED  BY <1>2, <2>1, <2>2, NothingMade DEF GoesOn
<1>3. CASE Active("tools") /\ \E results : Become([Top EXCEPT !.results = results])
  <2>1. PICK f, g, results : f = Top /\ g = [f EXCEPT !.results = results] /\ Become(g)
    BY <1>3
  <2>2. flows # <<>> /\ f.pc = "tools" /\ FlowOK(f) /\ IsFlow(f)
    BY <1>3, <2>1, TopFacts DEF Active, FlowOK
  <2>3. IsFlow(g) /\ g.view = f.view /\ g.step = f.step /\ g.out = f.out /\ g.pc = f.pc
        /\ g.then = f.then /\ g.calls = f.calls
    BY <2>1, <2>2 DEF IsFlow
  <2>4. FlowOK(g)
    BY <2>2, <2>3 DEF FlowOK
  <2>5. flows' # <<>> /\ Top' = g
    BY <2>1, <2>2, BecomeFacts
  <2>6. Awaiting' = Awaiting
    BY <1>3, <2>1, <2>2, <2>3, <2>5 DEF Awaiting, Active
  <2>7. clock' \in Nat /\ clock <= clock'
    BY <1>1
  <2> QED  BY <1>1, <2>1, <2>2, <2>3, <2>4, <2>6, <2>7, NothingMade, MadeStep
<1> QED  BY <1>2, <1>3 DEF RunTool, Become

(* The tools have answered: a step's events are made, another agent's flow *)
(* is put on top, or the answer of a call that was resumed is stored.      *)
LEMMA ToolsReturnGoesOn == ASSUME Shape, ToolsReturn PROVE GoesOn
<1>1. flows # <<>> /\ Active("tools") /\ Top.pc = "tools"
  BY DEF ToolsReturn, Active
<1> DEFINE e == Merged(clock + 3)
           request(id, R) == IF R = {} THEN <<>>
               ELSE <<[Blank EXCEPT !.id = id, !.by = Top.agent, !.turn = turn, !.requests = R]>>
           login == request(clock + 1, LoginRequests(e, clock + 1))
           ask == request(clock + 2, AskRequests(e, clock + 2))
           text == [Blank EXCEPT !.id = clock + 4, !.by = Top.agent, !.turn = turn]
           final == IF \A c \in Range(Top.calls) : Kind[c.tool] # "answer" THEN <<>> ELSE <<text>>
           flow == [Top EXCEPT !.ended = @ \/ e.logins # {}, !.results = <<>>, !.calls = <<>>,
                !.step = @ \o login \o ask \o <<e>> \o final]
           s == AppendAll(Top.view, <<e>>)
<1>2. \/ Become([flow EXCEPT !.pc = "append"]) /\ UNCHANGED store
      \/ /\ flows' = Under \o <<[flow EXCEPT !.pc = "nested"],
                     Flow(Target[Last(Transfers).tool], Top.view, Top.creds)>>
         /\ UNCHANGED store
      \/ /\ Top.then # "step" /\ store' = s.store
         /\ Become([Top EXCEPT !.pc = Top.then, !.view = s.view, !.results = <<>>,
                               !.calls = <<>>, !.out = Append(@, e)])
  BY DEF ToolsReturn
<1>3. PICK f, a, b, m, d, x, y : /\ f = Top /\ a = login /\ b = ask /\ m = e /\ d = final
                                 /\ x = [Blank EXCEPT !.id = clock + 1, !.by = f.agent, !.turn = turn,
                                            !.requests = LoginRequests(e, clock + 1)]
                                 /\ y = [Blank EXCEPT !.id = clock + 2, !.by = f.agent, !.turn = turn,
                                            !.requests = AskRequests(e, clock + 2)]
  OBVIOUS
<1>4. PICK z : z = text
  OBVIOUS
<1>5. a \in {<<>>, <<x>>} /\ b \in {<<>>, <<y>>} /\ d \in {<<>>, <<z>>}
  BY <1>3, <1>4
<1>6. PICK New : New = {x, y, m, z}
  OBVIOUS
<1>7. /\ x.id = clock + 1 /\ x.turn = turn /\ x.calls = <<>> /\ IsEvent(x)
      /\ y.id = clock + 2 /\ y.turn = turn /\ y.calls = <<>> /\ IsEvent(y)
      /\ z.id = clock + 4 /\ z.turn = turn /\ z.calls = <<>> /\ IsEvent(z)
  <2>1. x.id = clock + 1 /\ x.turn = turn /\ x.calls = <<>> /\ IsEvent(x)
    BY <1>3 DEF Blank, IsEvent
  <2>2. y.id = clock + 2 /\ y.turn = turn /\ y.calls = <<>> /\ IsEvent(y)
    BY <1>3 DEF Blank, IsEvent
  <2>3. z.id = clock + 4 /\ z.turn = turn /\ z.calls = <<>> /\ IsEvent(z)
    BY <1>4 DEF Blank, IsEvent
  <2> QED  BY <2>1, <2>2, <2>3
<1>8. m.id = clock + 3 /\ m.turn = turn /\ m.calls = <<>> /\ m.answers = ById(f.calls) /\ IsEvent(m)
  BY <1>3 DEF Blank, Merged, IsEvent
<1>9. clock' = clock + 4 /\ UNCHANGED <<llmCalls, turn, outcome>> /\ clock \in Nat
  BY DEF ToolsReturn, Shape
<1>10. clock' \in Nat /\ clock <= clock' /\ Made(New) /\ Quiet(New)
  BY <1>6, <1>7, <1>8, <1>9 DEF Made, Quiet
<1>11. FlowOK(f) /\ IsFlow(f) /\ IsSeq(f.step) /\ f.pc = "tools"
  BY <1>1, <1>3, TopFacts DEF FlowOK
<1>12. PICK step : step = f.step \o a \o b \o <<m>> \o d
  OBVIOUS
<1>13. IsSeq(step) /\ Range(f.step) \cup {m} \subseteq Range(step) /\ Range(step) \subseteq Range(f.step) \cup New
  <2>1. IsSeq(a) /\ Range(a) \subseteq {x} /\ IsSeq(b) /\ Range(b) \subseteq {y} /\ IsSeq(d) /\ Range(d) \subseteq {z}
    BY <1>5, SingleFacts, EmptyFacts
  <2>2. PICK s1 : s1 = f.step \o a
    OBVIOUS
  <2>3. IsSeq(s1) /\ Range(s1) = Range(f.step) \cup Range(a)
    BY <1>11, <2>1, <2>2, ConcatFacts
  <2>4. PICK s2 : s2 = s1 \o b
    OBVIOUS
  <2>5. IsSeq(s2) /\ Range(s2) = Range(s1) \cup Range(b)
    BY <2>1, <2>3, <2>4, ConcatFacts
  <2>6. PICK s3 : s3 = s2 \o <<m>>
    OBVIOUS
  <2>7. IsSeq(s3) /\ Range(s3) = Range(s2) \cup {m}
    BY <2>5, <2>6, SingleFacts, ConcatFacts
  <2>8. step = s3 \o d
    BY <1>12, <2>2, <2>4, <2>6
  <2>9. IsSeq(step) /\ Range(step) = Range(s3) \cup Range(d)
    BY <2>1, <2>7, <2>8, ConcatFacts
  <2> QED  BY <1>6, <2>1, <2>3, <2>5, <2>7, <2>9
<1>14. PICK ended, w : w = [f EXCEPT !.ended = ended, !.results = <<>>, !.calls = <<>>, !.step = step]
                       /\ w = flow
  BY <1>3, <1>12, ZenonT(60)
<1>15. IsFlow(w) /\ w.view = f.view /\ w.step = step /\ w.out = f.out
  BY <1>11, <1>14 DEF IsFlow
<1>16. Awaiting = ById(f.calls)
  BY <1>1, <1>3 DEF Awaiting
<1>17. Awaiting \subseteq AnswersIn(Range(step))
  BY <1>8, <1>13, <1>16 DEF AnswersIn
<1> HIDE DEF e, request, login, ask, text, final, flow, s
<1>18. CASE Become([flow EXCEPT !.pc = "append"]) /\ UNCHANGED store
  <2>1. PICK g : g = [w EXCEPT !.pc = "append"] /\ Become(g)
    BY <1>14, <1>18
  <2>2. IsFlow(g) /\ g.view = f.view /\ g.step = step /\ g.out = f.out /\ g.pc = "append"
    BY <1>15, <2>1 DEF IsFlow
  <2>3. FlowOK(g)
    BY <1>11, <1>13, <2>2 DEF FlowOK
  <2> QED  BY <1>1, <1>3, <1>9, <1>10, <1>13, <1>17, <1>18, <2>1, <2>2, <2>3, MadeStep
<1>19. CASE /\ flows' = Under \o <<[flow EXCEPT !.pc = "nested"],
                   Flow(Target[Last(Transfers).tool], Top.view, Top.creds)>>
            /\ UNCHANGED store
  <2>1. PICK g, h : /\ g = [w EXCEPT !.pc = "nested"] /\ flows' = Under \o <<g, h>>
                    /\ h = Flow(Target[Last(Transfers).tool], f.view, Top.creds)
    BY <1>3, <1>14, <1>19
  <2>2. IsFlow(g) /\ g.view = f.view /\ g.step = step /\ g.out = f.out /\ g.pc = "nested"
    BY <1>15, <2>1 DEF IsFlow
  <2>3. FlowOK(g)
    BY <1>11, <1>13, <2>2 DEF FlowOK
  <2>4. IsFlow(h) /\ h.view = f.view /\ h.step = <<>> /\ h.out = <<>> /\ h.pc = "auth"
    BY <2>1 DEF Flow, IsFlow
  <2>5. FlowOK(h)
    BY <1>11, <2>4, EmptyFacts DEF FlowOK
  <2>6. /\ IsSeq(flows') /\ flows' # <<>> /\ DOMAIN flows' = DOMAIN flows \cup {Len(flows) + 1}
        /\ flows'[Len(flows)] = g /\ flows'[Len(flows) + 1] = h
        /\ \A i \in DOMAIN flows : i # Len(flows) => flows'[i] = flows[i]
    BY <1>1, <2>1, PushFacts
  <2>7. Shape'
    <3>1. \A i \in DOMAIN flows' : FlowOK(flows'[i]) /\ Range(flows'[i].out) \subseteq Range(store)
      <4>1. \A i \in DOMAIN flows : FlowOK(flows[i]) /\ Range(flows[i].out) \subseteq Range(store)
        BY DEF Shape, OutsStored
      <4>2. Range(g.out) \subseteq Range(store) /\ Range(h.out) \subseteq Range(store)
        BY <1>1, <1>3, <2>2, <2>4, TopFacts, EmptyFacts
      <4> QED  BY <2>3, <2>5, <2>6, <4>1, <4>2
    <3>2. IsSeq(store') /\ NoRepeat(store') /\ llmCalls' \in Nat /\ turn' \in Nat /\ store' = store
      BY <1>9, <1>19 DEF Shape
    <3> QED  BY <1>10, <2>6, <3>1, <3>2 DEF Shape, OutsStored
  <2>8. Len(flows) \in DOMAIN flows /\ f = flows[Len(flows)]
    BY <1>1, <1>3, TopFacts
  <2>9. Steps' \subseteq Steps \cup New
    <3>1. Range(g.step) \subseteq Steps \cup New
      BY <1>13, <2>2, <2>8 DEF Steps
    <3>2. Range(h.step) = {}
      BY <2>4, EmptyFacts
    <3> QED  BY <2>6, <3>1, <3>2 DEF Steps
  <2>10. Range(step) \subseteq Steps' /\ Steps \subseteq Steps'
    <3>1. Range(step) \subseteq Steps'
      BY <2>2, <2>6, <2>8 DEF Steps
    <3>2. Steps \subseteq Range(f.step) \cup Steps'
      BY <2>6, <2>8 DEF Steps
    <3> QED  BY <1>13, <3>1, <3>2
  <2>11. Effect(New)
    BY <1>9, <1>10, <1>19, <2>7, <2>9 DEF Effect, Pool
  <2>12. Pool \subseteq Pool' /\ Awaiting \subseteq AnswersIn(Pool')
    BY <1>17, <1>19, <2>10 DEF Pool, AnswersIn
  <2> QED  BY <1>1, <1>9, <1>10, <2>11, <2>12 DEF GoesOn
<1>20. CASE /\ Top.then # "step" /\ store' = s.store
            /\ Become([Top EXCEPT !.pc = Top.then, !.view = s.view, !.results = <<>>,
                                  !.calls = <<>>, !.out = Append(@, e)])
  <2>1. PICK r, g, out : /\ r = AppendAll(f.view, <<m>>) /\ store' = r.store /\ out = Append(f.out, m)
                         /\ g = [f EXCEPT !.pc = f.then, !.view = r.view, !.results = <<>>,
                                          !.calls = <<>>, !.out = out]
                         /\ Become(g)
    BY <1>3, <1>20 DEF s
  <2>2. IsSeq(store) /\ NoRepeat(store) /\ IsSeq(f.view) /\ IsSeq(f.out) /\ f.step = <<>>
        /\ f.then \in {"confirm", "model"}
    BY <1>3, <1>11, <1>20 DEF Shape, FlowOK
  <2>3. IsSeq(r.view) /\ IsSeq(store') /\ Range(store') = Range(store) \cup {m} /\ NoRepeat(store')
    <3>1. PICK v, events : v = f.view /\ events = <<m>>
      OBVIOUS
    <3>2. IsSeq(store) /\ IsSeq(v) /\ IsSeq(events) /\ Range(events) = {m}
      BY <2>2, <3>1, SingleFacts
    <3>3. r = AppendAll(v, events)
      BY <2>1, <3>1
    <3>4. /\ IsSeq(r.store) /\ IsSeq(r.view) /\ Range(r.store) = Range(store) \cup Range(events)
          /\ NoRepeat(store) => NoRepeat(r.store)
      BY <3>2, <3>3, AppendAllFacts
    <3> QED  BY <2>1, <2>2, <3>2, <3>4
  <2>4. IsSeq(out) /\ Range(out) = Range(f.out) \cup {m}
    <3>1. PICK o : o = f.out
      OBVIOUS
    <3>2. IsSeq(o)
      BY <2>2, <3>1
    <3>3. out = Append(o, m)
      BY <2>1, <3>1
    <3>4. IsSeq(out) /\ Range(out) = Range(o) \cup {m}
      BY <3>2, <3>3, AppendFacts
    <3> QED  BY <3>1, <3>4
  <2>5. IsFlow(g) /\ g.view = r.view /\ g.step = f.step /\ g.out = out /\ g.pc = f.then
    BY <1>11, <2>1 DEF IsFlow
  <2>6. FlowOK(g)
    BY <2>2, <2>3, <2>4, <2>5, EmptyFacts DEF FlowOK
  <2>7. Made({m}) /\ Quiet({m}) /\ clock' \in Nat /\ clock <= clock' /\ turn' \in Nat /\ llmCalls' \in Nat
    BY <1>8, <1>9 DEF Made, Quiet, Shape
  <2>8. Range(f.out) \subseteq Range(store) /\ Range(f.step) = {}
    BY <1>1, <1>3, <2>2, TopFacts, EmptyFacts
  <2>9. /\ Range(g.step) \subseteq Pool \cup {m} /\ Range(g.out) \subseteq Range(store')
        /\ Range(store) \subseteq Range(store') /\ Range(store') \subseteq Pool \cup {m}
        /\ Range(Top.step) \subseteq Pool'
    BY <1>3, <2>3, <2>4, <2>5, <2>8 DEF Pool
  <2>10. Effect({m}) /\ Pool \subseteq Pool' /\ flows' # <<>>
    BY <1>1, <2>1, <2>3, <2>6, <2>7, <2>9, BecomeEffect
  <2>11. Awaiting \subseteq AnswersIn(Pool')
    BY <1>8, <1>16, <2>3 DEF Pool, AnswersIn
  <2> QED  BY <1>1, <1>9, <2>7, <2>10, <2>11 DEF GoesOn
<1> QED  BY <1>2, <1>18, <1>19, <1>20

(* run_async appends a step's events.                                      *)
LEMMA AppendStepGoesOn == ASSUME Shape, AppendStep PROVE GoesOn
<1>1. flows # <<>> /\ Awaiting = {}
  BY ActiveFacts DEF AppendStep
<1>2. PICK f : f = Top
  OBVIOUS
<1>3. FlowOK(f) /\ IsFlow(f) /\ IsSeq(f.view) /\ IsSeq(f.step) /\ IsSeq(f.out)
      /\ Range(f.out) \subseteq Range(store) /\ Range(f.step) \subseteq Pool
  BY <1>1, <1>2, TopFacts DEF FlowOK
<1>4. PICK r, g, out, view, pc : /\ r = AppendAll(f.view, f.step) /\ store' = r.store /\ out = f.out \o f.step
                           /\ view = r.view /\ pc \in {"done", "auth"}
                           /\ g = [f EXCEPT !.view = view, !.out = out, !.step = <<>>, !.pc = pc]
                           /\ Become(g)
  BY <1>2 DEF AppendStep
<1>5. IsSeq(view) /\ IsSeq(store') /\ Range(store') = Range(store) \cup Range(f.step) /\ NoRepeat(store')
  <2>1. PICK v, events : v = f.view /\ events = f.step
    OBVIOUS
  <2>2. IsSeq(store) /\ IsSeq(v) /\ IsSeq(events) /\ NoRepeat(store)
    BY <1>3, <2>1 DEF Shape
  <2>3. r = AppendAll(v, events)
    BY <1>4, <2>1
  <2>4. /\ IsSeq(r.store) /\ IsSeq(r.view) /\ Range(r.store) = Range(store) \cup Range(events)
        /\ NoRepeat(store) => NoRepeat(r.store)
    BY <2>2, <2>3, AppendAllFacts
  <2> QED  BY <1>4, <2>1, <2>2, <2>4
<1>6. IsSeq(out) /\ Range(out) = Range(f.out) \cup Range(f.step)
  BY <1>3, <1>4, ConcatFacts
<1>7. IsFlow(g) /\ g.view = view /\ g.step = <<>> /\ g.out = out /\ g.pc = pc
  BY <1>3, <1>4 DEF IsFlow
<1>8. FlowOK(g)
  BY <1>4, <1>5, <1>6, <1>7, EmptyFacts DEF FlowOK
<1>9. clock' \in Nat /\ clock <= clock' /\ turn' = turn /\ turn' \in Nat /\ llmCalls' = llmCalls /\ llmCalls' \in Nat
  BY DEF AppendStep, Shape
<1>10. /\ Range(g.step) \subseteq Pool \cup {} /\ Range(g.out) \subseteq Range(store')
       /\ Range(store) \subseteq Range(store') /\ Range(store') \subseteq Pool \cup {}
  BY <1>3, <1>5, <1>6, <1>7, EmptyFacts DEF Pool
<1>11. Range(Top.step) \subseteq Pool'
  BY <1>2, <1>5 DEF Pool
<1>12. Effect({}) /\ Pool \subseteq Pool' /\ flows' # <<>>
  BY <1>1, <1>4, <1>5, <1>8, <1>9, <1>10, <1>11, NothingMade, BecomeEffect
<1> QED  BY <1>1, <1>9, <1>12, NothingMade DEF GoesOn

(* The flow on top is gone and the one below it goes on.                   *)
LEMMA PopFacts ==
    ASSUME Shape, ReturnNested, NEW n, n = Len(flows), NEW f, f = flows[n - 1]
    PROVE  /\ n \in Nat /\ n > 1 /\ DOMAIN flows = 1 .. n /\ Top = flows[n]
           /\ IsSeq(flows') /\ flows' # <<>> /\ DOMAIN flows' = 1 .. n - 1
           /\ flows'[n - 1] = [f EXCEPT !.step = f.step \o Top.out, !.pc = "append"]
           /\ \A i \in 1 .. n - 2 : flows'[i] = flows[i]
<1>1. flows # <<>>
  BY ActiveFacts DEF ReturnNested
<1>2. PICK u, v, t : u = Under /\ v = Front(u) /\ t = flows'
  OBVIOUS
<1>3. /\ n \in Nat \ {0} /\ DOMAIN flows = 1 .. n /\ Top = flows[n]
      /\ IsSeq(u) /\ Len(u) = n - 1 /\ \A i \in 1 .. n - 1 : u[i] = flows[i]
  BY <1>1, <1>2, TopFacts
<1>4. n # 1
  BY <1>2 DEF ReturnNested
<1>5. Last(u) = flows[n - 1]
  BY <1>3, <1>4 DEF Last
<1>6. IsSeq(v) /\ Len(v) = n - 2 /\ DOMAIN v = 1 .. n - 2 /\ \A i \in 1 .. n - 2 : v[i] = flows[i]
  <2>1. PICK X : u \in Seq(X)
    BY <1>3 DEF IsSeq
  <2>2. v = SubSeq(u, 1, Len(u) - 1)
    BY <1>2 DEF Front
  <2>3. v \in Seq(X) /\ Len(v) = Len(u) - 1 /\ \A i \in 1 .. Len(u) - 1 : v[i] = u[i]
    BY <1>3, <1>4, <2>1, <2>2
  <2>4. DOMAIN v = 1 .. Len(v)
    BY <2>3
  <2> QED  BY <1>3, <1>4, <2>3, <2>4 DEF IsSeq
<1>7. PICK g : g = [f EXCEPT !.step = f.step \o Top.out, !.pc = "append"] /\ t = Append(v, g)
  BY <1>2, <1>5 DEF ReturnNested
<1>8. IsSeq(t) /\ t # <<>>
  BY <1>6, <1>7, AppendFacts
<1>9. t[Len(v) + 1] = g
  BY <1>6, <1>7, AppendFacts
<1>10. \A i \in DOMAIN v : t[i] = v[i]
  BY <1>6, <1>7, AppendFacts
<1>11. DOMAIN t = DOMAIN v \cup {Len(v) + 1}
  BY <1>6, <1>7, AppendFacts
<1>12. Len(v) + 1 = n - 1 /\ 1 .. n - 1 = 1 .. n - 2 \cup {n - 1}
  BY <1>3, <1>4, <1>6
<1>13. n > 1
  BY <1>3, <1>4
<1> QED  BY <1>2, <1>3, <1>6, <1>7, <1>8, <1>9, <1>10, <1>11, <1>12, <1>13

(* The events of an agent transferred to end the step of the flow below.   *)
LEMMA ReturnNestedGoesOn == ASSUME Shape, ReturnNested PROVE GoesOn
<1>1. flows # <<>> /\ Awaiting = {} /\ Top.step = <<>>
  BY ActiveFacts DEF ReturnNested
<1>2. PICK t, n : t = flows' /\ n = Len(flows)
  OBVIOUS
<1>3. /\ n \in Nat \ {0} /\ DOMAIN flows = 1 .. n /\ Top = flows[n] /\ Range(Top.out) \subseteq Range(store)
  BY <1>1, <1>2, TopFacts
<1>4. n # 1
  BY <1>2 DEF ReturnNested
<1>5. PICK f, top : f = flows[n - 1] /\ top = Top /\ n - 1 \in DOMAIN flows
  BY <1>3, <1>4
<1>6. FlowOK(f) /\ IsFlow(f) /\ IsSeq(f.view) /\ IsSeq(f.step) /\ IsSeq(f.out) /\ Range(f.out) \subseteq Range(store)
  BY <1>5 DEF Shape, OutsStored, FlowOK
<1>7. IsSeq(top.out) /\ Range(top.out) \subseteq Range(store)
  BY <1>1, <1>5, TopFacts DEF FlowOK
<1>8. PICK step, g : step = f.step \o top.out /\ g = [f EXCEPT !.step = step, !.pc = "append"]
  OBVIOUS
<1>9. IsSeq(step) /\ Range(step) = Range(f.step) \cup Range(top.out)
  BY <1>6, <1>7, <1>8, ConcatFacts
<1>10. IsFlow(g) /\ g.view = f.view /\ g.step = step /\ g.out = f.out /\ g.pc = "append"
  BY <1>6, <1>8 DEF IsFlow
<1>11. FlowOK(g)
  BY <1>6, <1>9, <1>10 DEF FlowOK
<1>12. IsSeq(t) /\ t # <<>> /\ DOMAIN t = 1 .. n - 1 /\ t[n - 1] = g /\ \A i \in 1 .. n - 2 : t[i] = flows[i]
  BY <1>2, <1>5, <1>8, PopFacts
<1>13. UNCHANGED <<store, llmCalls, clock, turn, outcome>>
  BY DEF ReturnNested
<1>14. DOMAIN t \subseteq DOMAIN flows /\ \A i \in DOMAIN t : t[i] = g \/ t[i] = flows[i]
  BY <1>3, <1>4, <1>12
<1>15. Shape'
  <2>1. \A i \in DOMAIN t : FlowOK(t[i]) /\ Range(t[i].out) \subseteq Range(store)
    BY <1>6, <1>10, <1>11, <1>14 DEF Shape, OutsStored
  <2> QED  BY <1>2, <1>12, <1>13, <2>1 DEF Shape, OutsStored
<1>16. Steps' \subseteq Pool
  <2>1. Range(g.step) \subseteq Pool
    BY <1>5, <1>7, <1>9, <1>10 DEF Pool, Steps
  <2> QED  BY <1>2, <1>14, <2>1 DEF Pool, Steps
<1>17. Steps \subseteq Steps'
  <2>1. Range(g.step) \subseteq Steps'
    BY <1>2, <1>3, <1>4, <1>12 DEF Steps
  <2>2. ASSUME NEW i \in DOMAIN flows PROVE Range(flows[i].step) \subseteq Steps'
    <3>1. CASE i = n
      BY <1>1, <1>3, <3>1, EmptyFacts
    <3>2. CASE i = n - 1
      BY <1>5, <1>9, <1>10, <2>1, <3>2
    <3>3. CASE i \in 1 .. n - 2
      BY <1>2, <1>3, <1>4, <1>12, <3>3 DEF Steps
    <3> QED  BY <1>3, <1>4, <3>1, <3>2, <3>3
  <2> QED  BY <2>2 DEF Steps
<1>18. Effect({}) /\ Pool \subseteq Pool' /\ turn' = turn /\ llmCalls' = llmCalls
  BY <1>13, <1>15, <1>16, <1>17, NothingMade DEF Effect, Pool, Shape
<1> QED  BY <1>1, <1>18, NothingMade DEF GoesOn

(* What the Runner makes of an event.                                      *)
LEMMA MarkedFacts ==
    ASSUME NEW e, IsEvent(e), NEW m, m = Marked(e)
    PROVE  /\ IsEvent(m) /\ m.id = e.id /\ m.by = e.by /\ m.turn = e.turn /\ m.calls = e.calls
           /\ m.answers = e.answers /\ m.requests = e.requests /\ m.verdicts = e.verdicts
           /\ m.meta = TRUE /\ Marked(m) = m
<1>1. /\ IsEvent(m) /\ m.id = e.id /\ m.by = e.by /\ m.turn = e.turn /\ m.calls = e.calls
      /\ m.answers = e.answers /\ m.requests = e.requests /\ m.verdicts = e.verdicts /\ m.meta = TRUE
  BY DEF Marked, IsEvent
<1>2. Marked(m) = m
  BY <1>1 DEF Marked, IsEvent
<1> QED  BY <1>1, <1>2

LEMMA AlikeFacts ==
    ASSUME NEW e, IsEvent(e), NEW f, IsEvent(f), Marked(e) = Marked(f), e.meta = f.meta
    PROVE  e = f
<1>1. PICK m : m = Marked(e) /\ m = Marked(f)
  OBVIOUS
<1>2. \A k \in {"id", "by", "turn", "calls", "answers", "asks", "logins", "requests", "verdicts", "skip"} :
          m[k] = e[k] /\ m[k] = f[k]
  BY <1>1 DEF Marked, IsEvent
<1> QED  BY <1>2 DEF IsEvent

LEMMA DeliveredFacts ==
    ASSUME NEW d, IsEvent(d), NEW e, e \in {d, Delivered(d)}
    PROVE  /\ IsEvent(e) /\ e.id = d.id /\ e.by = d.by /\ e.turn = d.turn /\ e.calls = d.calls
           /\ e.answers = d.answers /\ e.requests = d.requests /\ e.verdicts = d.verdicts
           /\ Marked(e) = Marked(d) /\ (e = d \/ e.by \in Rewritten)
<1>1. CASE e = d
  BY <1>1
<1>2. CASE e # d
  <2>1. e = Marked(d) /\ d.by \in Rewritten
    BY <1>2 DEF Delivered, Marked
  <2>2. Marked(e) = e /\ IsEvent(e)
    BY <2>1, MarkedFacts
  <2>3. /\ e.id = d.id /\ e.by = d.by /\ e.turn = d.turn /\ e.calls = d.calls
        /\ e.answers = d.answers /\ e.requests = d.requests /\ e.verdicts = d.verdicts
    BY <2>1, MarkedFacts
  <2> QED  BY <2>1, <2>2, <2>3
<1> QED  BY <1>1, <1>2

LEMMA EachDelivered ==
    ASSUME NEW s, IsSeq(s), NEW t, t = [i \in DOMAIN s |-> Delivered(s[i])]
    PROVE  IsSeq(t) /\ Range(t) = {Delivered(e) : e \in Range(s)}
<1>1. PICK n \in Nat : DOMAIN s = 1 .. n
  BY SeqFacts
<1>2. PICK Y : Y = {Delivered(e) : e \in Range(s)}
  OBVIOUS
<1>3. DOMAIN t = 1 .. n /\ \A i \in 1 .. n : t[i] = Delivered(s[i]) /\ t[i] \in Y
  BY <1>1, <1>2 DEF Range
<1>4. t \in [1 .. n -> Y]
  BY <1>1, <1>3
<1>5. t \in Seq(Y)
  BY <1>4
<1>6. Range(t) = {t[i] : i \in 1 .. n} /\ Range(s) = {s[i] : i \in 1 .. n}
  BY <1>1, <1>3 DEF Range
<1>7. \A e \in Y : \E i \in 1 .. n : e = t[i]
  BY <1>2, <1>3, <1>6
<1>8. Range(t) \subseteq Y /\ Y \subseteq Range(t)
  BY <1>3, <1>6, <1>7
<1>9. Range(t) = Y
  BY <1>8
<1>10. IsSeq(t)
  BY <1>5 DEF IsSeq
<1> QED  BY <1>2, <1>9, <1>10

(* The Runner appends the events that the root's flow returned once more:  *)
(* those that it did not change are recognised.                            *)
LEMMA EndTurnStores ==
    ASSUME Shape, EndTurn
    PROVE  /\ flows # <<>> /\ Len(flows) = 1 /\ Top.pc = "done"
           /\ IsSeq(store') /\ NoRepeat(store') /\ Range(store) \subseteq Range(store')
           /\ \A e \in Range(store') : \E d \in Range(store) : e \in {d, Delivered(d)}
<1>1. flows # <<>> /\ Len(flows) = 1 /\ Top.pc = "done"
  BY DEF EndTurn, Active
<1>2. PICK f : f = Top
  OBVIOUS
<1>3. FlowOK(f) /\ IsSeq(f.view) /\ IsSeq(f.out) /\ Range(f.out) \subseteq Range(store)
  BY <1>1, <1>2, TopFacts DEF FlowOK
<1>4. PICK out, v, events, r : /\ out = f.out /\ v = f.view /\ r = AppendAll(v, events)
                               /\ events = [i \in DOMAIN out |-> Delivered(out[i])] /\ store' = r.store
  BY <1>2 DEF EndTurn
<1>5. IsSeq(events) /\ Range(events) = {Delivered(e) : e \in Range(out)}
  <2>1. IsSeq(out)
    BY <1>3, <1>4
  <2> QED  BY <1>4, <2>1, EachDelivered
<1>6. IsSeq(store) /\ IsSeq(v) /\ NoRepeat(store)
  BY <1>3, <1>4 DEF Shape
<1>7. r = AppendAll(v, events)
  BY <1>4
<1>8. /\ IsSeq(r.store) /\ Range(r.store) = Range(store) \cup Range(events)
      /\ NoRepeat(store) => NoRepeat(r.store)
  BY <1>5, <1>6, <1>7, AppendAllFacts
<1>9. Range(store') = Range(store) \cup Range(events) /\ IsSeq(store') /\ NoRepeat(store')
  BY <1>4, <1>6, <1>8
<1>10. \A e \in Range(events) : \E d \in Range(store) : e \in {d, Delivered(d)}
  BY <1>3, <1>4, <1>5
<1>11. \A e \in Range(store) : \E d \in Range(store) : e \in {d, Delivered(d)}
  OBVIOUS
<1> QED  BY <1>1, <1>9, <1>10, <1>11

LEMMA EndTurnEnds == ASSUME Shape, EndTurn PROVE Ends
<1>1. flows # <<>> /\ Awaiting = {} /\ Top.step = <<>>
  BY ActiveFacts DEF EndTurn
<1>2. /\ Len(flows) = 1 /\ IsSeq(store') /\ NoRepeat(store') /\ Range(store) \subseteq Range(store')
      /\ \A e \in Range(store') : \E d \in Range(store) : e \in {d, Delivered(d)}
  BY EndTurnStores
<1>3. flows' = <<>> /\ UNCHANGED <<llmCalls, clock, turn>>
  BY DEF EndTurn
<1>4. IsSeq(flows') /\ DOMAIN flows' = {}
  BY <1>3, EmptyFacts
<1>5. Shape'
  BY <1>2, <1>3, <1>4 DEF Shape, OutsStored
<1>6. Steps = {} /\ Steps' = {}
  <2>1. DOMAIN flows = {1} /\ Top = flows[1]
    BY <1>1, <1>2, TopFacts
  <2>2. Range(flows[1].step) = {}
    BY <1>1, <2>1, EmptyFacts
  <2> QED  BY <1>4, <2>1, <2>2 DEF Steps
<1>7. Pool = Range(store) /\ Pool' = Range(store')
  BY <1>6 DEF Pool
<1> QED  BY <1>1, <1>2, <1>3, <1>5, <1>7 DEF Ends

(* The user's message starts the turn.                                     *)
LEMMA StartTurnStarts == ASSUME Shape, Ids, NEW verdicts, StartTurn(verdicts) PROVE Starts
<1>1. PICK e, s, t, h : /\ e = [Blank EXCEPT !.id = clock + 1, !.turn = turn + 1, !.verdicts = verdicts]
                        /\ s = store /\ t = Append(s, e) /\ h = Flow(Root, t, {})
  OBVIOUS
<1>2. e.id = clock + 1 /\ e.turn = turn + 1 /\ e.calls = <<>> /\ IsEvent(e)
  BY <1>1 DEF Blank, IsEvent
<1>3. store' = t /\ flows' = <<h>> /\ flows = <<>> /\ turn' = turn + 1 /\ clock' = clock + 1
      /\ llmCalls' = 0 /\ outcome' = outcome
  BY <1>1 DEF StartTurn
<1>4. clock \in Nat /\ turn \in Nat /\ IsSeq(s) /\ NoRepeat(s)
  BY <1>1 DEF Shape
<1>5. PICK New : New = {e}
  OBVIOUS
<1>6. Made(New) /\ Quiet(New) /\ clock <= clock'
  BY <1>2, <1>3, <1>4, <1>5 DEF Made, Quiet
<1>7. ASSUME e \notin Range(s) PROVE Starts
  <2>1. IsSeq(t) /\ Range(t) = Range(s) \cup {e} /\ NoRepeat(t)
    <3>1. t = Append(s, e)
      BY <1>1
    <3>2. IsSeq(t) /\ Range(t) = Range(s) \cup {e}
      BY <1>4, <3>1, AppendFacts
    <3>3. NoRepeat(t)
      BY <1>4, <1>7, <3>1, AppendFacts
    <3> QED  BY <3>2, <3>3
  <2>2. IsFlow(h) /\ h.view = t /\ h.step = <<>> /\ h.out = <<>> /\ h.pc = "auth"
    BY <1>1 DEF Flow, IsFlow
  <2>3. FlowOK(h) /\ Range(h.step) = {} /\ Range(h.out) = {}
    BY <2>1, <2>2, EmptyFacts DEF FlowOK
  <2>4. IsSeq(flows') /\ DOMAIN flows' = {1} /\ flows'[1] = h
    BY <1>3, SingleFacts
  <2>5. turn' \in Nat /\ clock' \in Nat /\ llmCalls' \in Nat
    BY <1>3, <1>4
  <2>6. Shape'
    BY <1>3, <2>1, <2>3, <2>4, <2>5 DEF Shape, OutsStored
  <2>7. Pool' \subseteq Pool \cup New /\ Range(store) \subseteq Range(store')
    BY <1>1, <1>3, <1>5, <2>1, <2>3, <2>4 DEF Pool, Steps
  <2>8. Effect({e}) /\ Quiet({e})
    BY <1>5, <1>6, <2>6, <2>7 DEF Effect
  <2> QED  BY <1>3, <2>8 DEF Starts
<1>8. e \notin Range(s)
  <2>1. \A d \in Range(s) : d.id \in 1 .. clock
    BY <1>1 DEF Ids, Pool
  <2> QED  BY <1>2, <1>4, <2>1
<1> QED  BY <1>7, <1>8

-----------------------------------------------------------------------------
(* The invariant.                                                          *)

TurnInv == Shape /\ Ids /\ Counted /\ Owed

LEMMA EveryStep ==
    ASSUME Shape, Ids, [Next]_vars
    PROVE  Starts \/ Asks \/ Fails \/ Ends \/ GoesOn
<1>1. CASE UserSays
  BY <1>1, StartTurnStarts DEF UserSays
<1>2. CASE \E t \in tasks, ok \in BOOLEAN : RunTool(t, ok)
  BY <1>2, RunToolGoesOn
<1>3. CASE flows # <<>> /\ FlowStep
  <2>1. CASE ModelFails
    <3>1. Fail /\ clock' = clock /\ llmCalls' \in {llmCalls, llmCalls + 1}
      BY <2>1 DEF ModelFails
    <3> QED  BY <3>1, FailFails
  <2>2. CASE ToolsFail
    <3>1. Fail /\ clock' = clock /\ llmCalls' \in {llmCalls, llmCalls + 1}
      BY <2>2 DEF ToolsFail
    <3> QED  BY <3>1, FailFails
  <2>3. CASE \E reply \in Replies[Top.agent] : CallModel(reply)
    BY <2>3, CallModelAsks
  <2>4. CASE ProcessAuth \/ ProcessConfirmations \/ EmptyStep
    BY <2>4, ProcessAuthGoesOn, ProcessConfirmationsGoesOn, EmptyStepGoesOn
  <2>5. CASE ToolsReturn \/ AppendStep \/ ReturnNested
    BY <2>5, ToolsReturnGoesOn, AppendStepGoesOn, ReturnNestedGoesOn
  <2>6. CASE EndTurn
    BY <2>6, EndTurnEnds
  <2> QED  BY <1>3, <2>1, <2>2, <2>3, <2>4, <2>5, <2>6 DEF FlowStep
<1>4. CASE UNCHANGED vars
  <2>1. UNCHANGED <<store, flows, llmCalls, clock, turn, outcome>>
    BY <1>4 DEF vars
  <2>2. Shape' /\ Pool' = Pool /\ Awaiting' = Awaiting /\ Range(store') = Range(store)
    BY <2>1 DEF Shape, OutsStored, Pool, Steps, Awaiting, Active, Top
  <2>3. Effect({}) /\ turn' = turn /\ llmCalls' = llmCalls /\ outcome' = outcome
    BY <2>1, <2>2, NothingMade DEF Effect, Shape
  <2> QED  BY <2>1, <2>2, <2>3, NothingMade DEF GoesOn
<1> QED  BY <1>1, <1>2, <1>3, <1>4 DEF Next

LEMMA IdsStay ==
    ASSUME Shape, Ids, NEW New, Effect(New), turn' \in {turn, turn + 1}
    PROVE  Ids'
<1>1. clock \in Nat /\ clock' \in Nat /\ clock <= clock' /\ turn \in Nat /\ turn' \in Nat /\ turn <= turn'
  BY DEF Effect, Shape
<1>2. Pool' \subseteq Pool \cup New
  BY DEF Effect
<1>3. \A e \in New : IsEvent(e) /\ e.id \in clock + 1 .. clock' /\ e.turn = turn'
  BY DEF Effect, Made
<1>4. \A e \in Pool : IsEvent(e) /\ e.id \in 1 .. clock /\ e.turn \in Nat /\ e.turn <= turn
  BY DEF Ids
<1>5. \A e \in Pool' : IsEvent(e) /\ e.id \in 1 .. clock' /\ e.turn \in Nat /\ e.turn <= turn'
  BY <1>1, <1>2, <1>3, <1>4
<1>6. ASSUME NEW e \in Pool', NEW f \in Pool', e.id = f.id
      PROVE  Marked(e) = Marked(f) /\ (e = f \/ e.by \in Rewritten)
  <2>1. CASE e \in Pool /\ f \in Pool
    BY <1>6, <2>1 DEF Ids
  <2>2. CASE e \in New /\ f \in New
    BY <1>6, <2>2 DEF Effect, Made
  <2>3. CASE (e \in Pool /\ f \in New) \/ (e \in New /\ f \in Pool)
    BY <1>1, <1>3, <1>4, <1>6, <2>3
  <2> QED  BY <1>2, <2>1, <2>2, <2>3
<1> QED  BY <1>5, <1>6 DEF Ids

LEMMA IdsEnd == ASSUME Ids, Ends PROVE Ids'
<1>1. UNCHANGED <<clock, turn>> /\ \A e \in Pool' : \E d \in Pool : e \in {d, Delivered(d)}
  BY DEF Ends
<1>2. ASSUME NEW e \in Pool'
      PROVE  IsEvent(e) /\ \E d \in Pool : /\ e.id = d.id /\ e.by = d.by /\ e.turn = d.turn
                                           /\ Marked(e) = Marked(d) /\ (e = d \/ e.by \in Rewritten)
  <2>1. PICK d \in Pool : e \in {d, Delivered(d)}
    BY <1>1
  <2>2. IsEvent(d)
    BY DEF Ids
  <2> QED  BY <2>1, <2>2, DeliveredFacts
<1>3. \A e \in Pool' : IsEvent(e) /\ e.id \in 1 .. clock' /\ e.turn \in Nat /\ e.turn <= turn'
  BY <1>1, <1>2 DEF Ids
<1>4. ASSUME NEW e \in Pool', NEW f \in Pool', e.id = f.id
      PROVE  Marked(e) = Marked(f) /\ (e = f \/ e.by \in Rewritten)
  <2>1. PICK d \in Pool : /\ e.id = d.id /\ e.by = d.by /\ Marked(e) = Marked(d)
                          /\ e = d \/ e.by \in Rewritten
    BY <1>2
  <2>2. PICK c \in Pool : /\ f.id = c.id /\ f.by = c.by /\ Marked(f) = Marked(c)
                          /\ f = c \/ f.by \in Rewritten
    BY <1>2
  <2>3. Marked(d) = Marked(c) /\ (d = c \/ d.by \in Rewritten)
    BY <1>4, <2>1, <2>2 DEF Ids
  <2> QED  BY <2>1, <2>2, <2>3
<1> QED  BY <1>3, <1>4 DEF Ids

(* The Runner's forms of the events have their calls and answers.          *)
LEMMA EndsFacts ==
    ASSUME TurnInv, Ends, NEW e \in Pool'
    PROVE  \E d \in Pool : e.id = d.id /\ e.turn = d.turn /\ e.calls = d.calls
<1>1. PICK d \in Pool : e \in {d, Delivered(d)}
  BY DEF Ends
<1>2. IsEvent(d)
  BY DEF TurnInv, Ids
<1> QED  BY <1>1, <1>2, DeliveredFacts

LEMMA CalledStays ==
    ASSUME TurnInv, NEW New, Effect(New), Quiet(New), turn' = turn
    PROVE  IsFiniteSet(Called') /\ Cardinality(Called') <= Cardinality(Called) /\ Cardinality(Called) \in Nat
<1>1. Called' \subseteq Called
  BY DEF Called, Effect, Quiet
<1>2. IsFiniteSet(Called)
  BY DEF TurnInv, Counted
<1> QED  BY <1>1, <1>2, FS_Subset, FS_CardinalityType

LEMMA CountedStays ==
    ASSUME TurnInv, Starts \/ Asks \/ Fails \/ Ends \/ GoesOn
    PROVE  Counted'
<1>1. llmCalls \in Nat /\ MaxLlmCalls \in Nat /\ turn \in Nat
  BY FlowConstants DEF TurnInv, Shape
<1>2. IsFiniteSet(Called) /\ Cardinality(Called) <= MaxLlmCalls /\ (flows # <<>> => Cardinality(Called) <= llmCalls)
  BY DEF TurnInv, Counted
<1>3. CASE Starts
  <2>1. PICK e : Effect({e}) /\ Quiet({e}) /\ turn' = turn + 1 /\ llmCalls' = 0
    BY <1>3 DEF Starts
  <2>2. \A d \in Pool : d.turn \in Nat /\ d.turn <= turn
    BY DEF TurnInv, Ids
  <2>3. Pool' \subseteq Pool \cup {e} /\ e.calls = <<>>
    BY <2>1 DEF Effect, Quiet
  <2>4. Called' = {}
    BY <1>1, <2>1, <2>2, <2>3 DEF Called
  <2> QED  BY <1>1, <2>1, <2>4, FS_EmptySet DEF Counted
<1>4. CASE Asks
  <2>1. PICK e : /\ Effect({e}) /\ turn' = turn /\ flows # <<>>
                 /\ llmCalls < MaxLlmCalls /\ llmCalls' = llmCalls + 1
    BY <1>4 DEF Asks
  <2>2. Called' \subseteq Called \cup {e.id}
    BY <2>1 DEF Called, Effect
  <2>3. IsFiniteSet(Called \cup {e.id}) /\ Cardinality(Called \cup {e.id}) <= Cardinality(Called) + 1
        /\ Cardinality(Called) \in Nat
    BY <1>2, FS_AddElement, FS_CardinalityType
  <2>4. IsFiniteSet(Called') /\ Cardinality(Called') <= Cardinality(Called \cup {e.id})
        /\ Cardinality(Called') \in Nat /\ Cardinality(Called \cup {e.id}) \in Nat
    BY <2>2, <2>3, FS_Subset, FS_CardinalityType
  <2> QED  BY <1>1, <1>2, <2>1, <2>3, <2>4 DEF Counted
<1>5. CASE Fails
  <2>1. Effect({}) /\ turn' = turn /\ flows' = <<>>
    BY <1>5 DEF Fails
  <2>2. IsFiniteSet(Called') /\ Cardinality(Called') <= Cardinality(Called) /\ Cardinality(Called) \in Nat
    BY <2>1, NothingMade, CalledStays
  <2>3. Cardinality(Called') \in Nat
    BY <2>2, FS_CardinalityType
  <2> QED  BY <1>1, <1>2, <2>1, <2>2, <2>3 DEF Counted
<1>6. CASE GoesOn
  <2>1. PICK New : /\ Effect(New) /\ Quiet(New) /\ turn' = turn
                   /\ IF flows = <<>> THEN flows' = <<>>
                      ELSE llmCalls' \in llmCalls .. MaxLlmCalls \/ llmCalls' = llmCalls
    BY <1>6 DEF GoesOn
  <2>2. IsFiniteSet(Called') /\ Cardinality(Called') <= Cardinality(Called) /\ Cardinality(Called) \in Nat
    BY <2>1, CalledStays
  <2>3. Cardinality(Called') \in Nat
    BY <2>2, FS_CardinalityType
  <2>4. flows' # <<>> => flows # <<>> /\ llmCalls' \in Nat /\ llmCalls <= llmCalls'
    BY <1>1, <2>1
  <2> QED  BY <1>1, <1>2, <2>2, <2>3, <2>4 DEF Counted
<1>7. CASE Ends
  <2>1. turn' = turn /\ flows' = <<>>
    BY <1>7 DEF Ends
  <2>2. Called' \subseteq Called
    BY <1>7, <2>1, EndsFacts DEF Called
  <2>3. /\ IsFiniteSet(Called') /\ Cardinality(Called') <= Cardinality(Called)
        /\ Cardinality(Called) \in Nat /\ Cardinality(Called') \in Nat
    BY <1>2, <2>2, FS_Subset, FS_CardinalityType
  <2> QED  BY <1>1, <1>2, <2>1, <2>3 DEF Counted
<1> QED  BY <1>3, <1>4, <1>5, <1>6, <1>7

LEMMA OwedStays ==
    ASSUME TurnInv, Starts \/ Asks \/ Fails \/ Ends \/ GoesOn
    PROVE  Owed'
<1>1. ById(<<>>) = {}
  BY EmptyFacts DEF ById
<1>2. Owed
  BY DEF TurnInv
<1>3. CASE Starts
  <2>1. PICK e : Effect({e}) /\ Quiet({e}) /\ turn' = turn + 1
    BY <1>3 DEF Starts
  <2>2. (\A d \in Pool : d.turn \in Nat /\ d.turn <= turn) /\ turn \in Nat
    BY DEF TurnInv, Ids, Shape
  <2>3. Pool' \subseteq Pool \cup {e} /\ e.calls = <<>>
    BY <2>1 DEF Effect, Quiet
  <2>4. \A d \in Pool' : d.turn = turn' => d.calls = <<>>
    BY <2>1, <2>2, <2>3
  <2> QED  BY <1>1, <2>4 DEF Owed
<1>4. CASE Asks
  <2>1. PICK e : /\ Effect({e}) /\ turn' = turn /\ flows # <<>> /\ Pool \subseteq Pool'
                 /\ Awaiting = {} /\ ById(e.calls) \subseteq Awaiting'
    BY <1>4 DEF Asks
  <2>2. \A d \in Pool : d.turn = turn => ById(d.calls) \subseteq AnswersIn(Pool)
    BY <1>2, <2>1 DEF Owed
  <2>3. AnswersIn(Pool) \subseteq AnswersIn(Pool') /\ Pool' \subseteq Pool \cup {e}
    BY <2>1 DEF AnswersIn, Effect
  <2> QED  BY <2>1, <2>2, <2>3 DEF Owed
<1>5. CASE Fails
  BY <1>5 DEF Fails, Owed
<1>6. CASE GoesOn
  <2>1. PICK New : /\ Effect(New) /\ Quiet(New) /\ turn' = turn
                   /\ Pool \subseteq Pool' /\ Awaiting \subseteq Awaiting' \cup AnswersIn(Pool')
                   /\ flows = <<>> => flows' = <<>> /\ outcome' = outcome
    BY <1>6 DEF GoesOn
  <2>2. SUFFICES ASSUME flows' # <<>> \/ outcome' = "finished"
                 PROVE  \A d \in Pool' : d.turn = turn' => ById(d.calls) \subseteq AnswersIn(Pool') \cup Awaiting'
    BY DEF Owed
  <2>3. flows # <<>> \/ outcome = "finished"
    BY <2>1, <2>2
  <2>4. \A d \in Pool : d.turn = turn => ById(d.calls) \subseteq AnswersIn(Pool) \cup Awaiting
    BY <1>2, <2>3 DEF Owed
  <2>5. AnswersIn(Pool) \subseteq AnswersIn(Pool')
    BY <2>1 DEF AnswersIn
  <2>6. Pool' \subseteq Pool \cup New /\ \A d \in New : ById(d.calls) = {}
    BY <1>1, <2>1 DEF Effect, Quiet
  <2> QED  BY <2>1, <2>4, <2>5, <2>6
<1>7. CASE Ends
  <2>1. flows # <<>> /\ turn' = turn /\ Pool \subseteq Pool' /\ Awaiting = {}
    BY <1>7 DEF Ends
  <2>2. \A d \in Pool : d.turn = turn => ById(d.calls) \subseteq AnswersIn(Pool)
    BY <1>2, <2>1 DEF Owed
  <2>3. AnswersIn(Pool) \subseteq AnswersIn(Pool')
    BY <2>1 DEF AnswersIn
  <2>4. \A e \in Pool' : e.turn = turn' => ById(e.calls) \subseteq AnswersIn(Pool')
    BY <1>7, <2>1, <2>2, <2>3, EndsFacts
  <2> QED  BY <2>4 DEF Owed
<1> QED  BY <1>3, <1>4, <1>5, <1>6, <1>7

LEMMA TurnInvInit == Init => TurnInv
<1> SUFFICES ASSUME Init PROVE TurnInv
  OBVIOUS
<1>1. store = <<>> /\ flows = <<>> /\ llmCalls = 0 /\ clock = 0 /\ turn = 0 /\ outcome = "new"
  BY DEF Init
<1>2. IsSeq(store) /\ IsSeq(flows) /\ DOMAIN store = {} /\ DOMAIN flows = {} /\ Range(store) = {}
  BY <1>1, EmptyFacts
<1>3. Pool = {}
  BY <1>2 DEF Pool, Steps
<1>4. Called = {} /\ MaxLlmCalls \in Nat
  BY <1>3, FlowConstants DEF Called
<1>5. Shape
  BY <1>1, <1>2 DEF Shape, OutsStored, NoRepeat
<1>6. Counted
  BY <1>1, <1>4, FS_EmptySet DEF Counted
<1>7. Owed /\ Ids
  BY <1>3 DEF Owed, Ids
<1> QED  BY <1>5, <1>6, <1>7 DEF TurnInv

LEMMA TurnInvNext == TurnInv /\ [Next]_vars => TurnInv'
<1> SUFFICES ASSUME TurnInv, [Next]_vars PROVE TurnInv'
  OBVIOUS
<1>1. Starts \/ Asks \/ Fails \/ Ends \/ GoesOn
  BY EveryStep DEF TurnInv
<1>2. ASSUME Ends PROVE Shape' /\ Ids'
  <2>1. Shape'
    BY <1>2 DEF Ends
  <2>2. Ids'
    BY <1>2, IdsEnd DEF TurnInv
  <2> QED  BY <2>1, <2>2
<1>3. ASSUME ~Ends PROVE Shape' /\ Ids'
  <2>1. PICK New : Effect(New) /\ turn' \in {turn, turn + 1}
    BY <1>1, <1>3 DEF Starts, Asks, Fails, GoesOn
  <2> QED  BY <2>1, IdsStay DEF TurnInv, Effect
<1>4. Shape' /\ Ids'
  BY <1>2, <1>3
<1> QED  BY <1>1, <1>4, CountedStays, OwedStays DEF TurnInv

THEOREM TurnInvariant == Spec => []TurnInv
BY TurnInvInit, TurnInvNext, PTL DEF Spec

-----------------------------------------------------------------------------

(* However deep the transfers, and whatever the Runner changes: an event    *)
(* that each flow above the one that made it and the Runner append again is *)
(* stored once, and once more only in the form that the Runner gave it; no  *)
(* event is lost on the way up.                                             *)
THEOREM StoredOnce == Spec => []EventsStoredOnce
<1>1. TurnInv => EventsStoredOnce
  <2> SUFFICES ASSUME TurnInv PROVE EventsStoredOnce
    OBVIOUS
  <2>1. \A i \in DOMAIN store : store[i] \in Pool
    BY DEF Pool, Range
  <2>2. ASSUME NEW i \in DOMAIN store, NEW j \in DOMAIN store, i # j, store[i].id = store[j].id
        PROVE  store[i].by \in Rewritten /\ store[i].meta # store[j].meta
    <3>1. PICK e, f : e = store[i] /\ f = store[j]
      OBVIOUS
    <3>2. e # f
      BY <2>2, <3>1 DEF TurnInv, Shape, NoRepeat
    <3>3. IsEvent(e) /\ IsEvent(f) /\ Marked(e) = Marked(f) /\ e.by \in Rewritten
      BY <2>1, <2>2, <3>1, <3>2 DEF TurnInv, Ids
    <3>4. e.meta # f.meta
      BY <3>2, <3>3, AlikeFacts
    <3> QED  BY <3>1, <3>3, <3>4
  <2> QED  BY <2>2 DEF EventsStoredOnce, TurnInv, Shape, OutsStored
<1> QED  BY <1>1, TurnInvariant, PTL

(* Agents that transfer to one another call the model within one limit.     *)
THEOREM LimitKept == Spec => []CallsLimited
<1>1. TurnInv => CallsLimited
  BY DEF TurnInv, Counted, Called, Pool, Steps, CallsLimited
<1> QED  BY <1>1, TurnInvariant, PTL

(* When a turn is finished, each of its calls has a response, those that    *)
(* wait for an approval or for a credential and those of the agents         *)
(* transferred to included.                                                 *)
THEOREM NoCallLeft == Spec => []CallsAnswered
<1>1. TurnInv => CallsAnswered
  <2> SUFFICES ASSUME TurnInv, flows = <<>>, outcome = "finished"
               PROVE  \A e \in Range(store) : e.turn = turn =>
                          ById(e.calls) \subseteq UNION {d.answers : d \in Range(store)}
    BY DEF CallsAnswered
  <2>1. Steps = {} /\ Awaiting = {}
    BY EmptyFacts DEF Steps, Awaiting, Active
  <2> QED  BY <2>1 DEF TurnInv, Owed, Pool, AnswersIn
<1> QED  BY <1>1, TurnInvariant, PTL

-----------------------------------------------------------------------------
(* Approvals.                                                              *)

(* Only the root agent's model asks for tools that need approval.          *)
GuardedAtRoot ==
    \A a \in Agents : \A reply \in Replies[a] : \A t \in Range(reply) : Kind[t] = "guarded" => a = Root

(* What an event, a call and a flow look like.                             *)

(* The calls of an event bear its id, its requests speak of calls made     *)
(* before it, and the user answers requests that were made before.         *)
EventOK(e) ==
    /\ e.by \in Agents \cup {"user"} /\ IsSeq(e.calls)
    /\ \A c \in Range(e.calls) : /\ c.tool \in Tools /\ c.id \in {e.id} \X Nat
                                 /\ Kind[c.tool] = "guarded" => e.by = Root
    /\ \A r \in e.requests : r.for \in (1 .. e.id) \X Nat
    /\ e.by = "user" => \A r \in DOMAIN e.verdicts : r.for \in (1 .. e.id - 1) \X Nat

StoreOK == \A e \in Range(store) : EventOK(e)

CallOK(c) == c.tool \in Tools /\ c.id \in (1 .. clock) \X Nat

(* An agent's event that is newer than all the user said.                  *)
Newer(e) == e.by \in Agents /\ \A d \in Range(store) : d.by = "user" => d.id < e.id

HasUser(view) == \E i \in DOMAIN view : view[i].by = "user"
Spoken(view) == view[LastByUser(view)]

FlowFine(f) ==
    /\ f.agent \in Agents
    /\ HasUser(f.view) /\ Range(f.view) \subseteq Range(store)
    /\ DOMAIN Spoken(f.view).verdicts \subseteq RequestsOf(f.view)
    /\ IsSeq(f.calls) /\ \A c \in Range(f.calls) : CallOK(c)
    /\ \A e \in Range(f.step) \cup Range(f.out) : EventOK(e) /\ Newer(e)

(* The calls that a flow may still run because the user approved them.     *)
Approved(id, view) == \E r \in DOMAIN Verdicts(view) : r.for = id /\ Verdicts(view)[r] = "yes"
Wanting(c, view) == /\ Kind[c.tool] = "guarded" /\ c \in CallsOf(view)
                    /\ Approved(c.id, view) /\ c.id \notin Consumed(view)
Running(c, f) == f.pc = "tools" /\ f.then # "step" /\ c.id \in ById(f.calls)
Due(c, f) == Wanting(c, f.view) /\ ~Running(c, f)
NoneDue(f) == \A c : ~Due(c, f)

(* After the processor of approvals there is none, nor in a flow that was  *)
(* transferred to: it has the copy of a flow that is that far.             *)
Past(f) == ~(f.pc \in {"auth", "confirm"} \/ (f.pc = "tools" /\ f.then = "confirm"))
Placed(i, f) == (i = 1 => f.agent = Root) /\ (i > 1 \/ Past(f) => NoneDue(f))

FlowsOK ==
    /\ \A i \in DOMAIN flows : FlowFine(flows[i]) /\ Placed(i, flows[i])
    /\ \A i \in DOMAIN flows : i # Len(flows) => flows[i].pc = "nested"

(* A guarded function ran, or is about to, at most as often as approved;   *)
(* less often while its call is due.                                       *)
RunsOf(c) == {i \in DOMAIN bodies : bodies[i].call = c}
ToRun(c) == {t \in tasks : t.call = c /\ t.verdict = "yes"}
Approvals(c) == {e \in Range(store) : Approving(c.id, e)}
Begun(c) == Cardinality(RunsOf(c)) + Cardinality(ToRun(c))
DueInTurn(c) == flows # <<>> /\ Due(c, flows[1])
Within(c) ==
    /\ IsFiniteSet(RunsOf(c)) /\ IsFiniteSet(ToRun(c))
    /\ Begun(c) <= Cardinality(Approvals(c))
    /\ DueInTurn(c) => Begun(c) + 1 <= Cardinality(Approvals(c))
Bounded == IsSeq(bodies) /\ \A c : Kind[c.tool] = "guarded" => Within(c)

ApprovalInv == StoreOK /\ FlowsOK /\ Bounded

-----------------------------------------------------------------------------
(* The operators on sequences.                                             *)

LEMMA SetToSeqFacts ==
    ASSUME NEW S, IsFiniteSet(S), NEW q, q = SetToSeq(S)
    PROVE  IsSeq(q) /\ Range(q) = S
<1>1. PICK n \in Nat : n = Cardinality(S) /\ ExistsBijection(1 .. n, S)
  BY FS_CardinalityType
<1>2. \E b \in [1 .. n -> S] : IsInjective(b)
  BY <1>1 DEF ExistsBijection, Bijection, Injection
<1>3. q \in [1 .. n -> S] /\ IsInjective(q)
  BY <1>1, <1>2 DEF SetToSeq
<1>4. q \in Injection(1 .. n, S)
  BY <1>3 DEF Injection
<1>5. Cardinality(1 .. n) = n
  BY FS_Interval
<1>6. q \in Surjection(1 .. n, S)
  BY <1>1, <1>4, <1>5, FS_Injection
<1>7. q \in Seq(S)
  BY <1>3
<1>8. Range(q) = S
  BY <1>3, <1>6 DEF Range, Surjection
<1> QED  BY <1>7, <1>8 DEF IsSeq

LEMMA FiniteSequence == ASSUME NEW s, IsSeq(s) PROVE IsFiniteSet(Range(s))
<1>1. DOMAIN s = 1 .. Len(s) /\ Len(s) \in Nat
  BY SeqFacts
<1>2. IsFiniteSet(DOMAIN s)
  BY <1>1, FS_Interval
<1>3. IsFiniteSet({s[i] : i \in DOMAIN s})
  BY <1>2, FiniteRange
<1> QED  BY <1>3 DEF Range

LEMMA ChosenFacts ==
    ASSUME NEW calls, IsSeq(calls), NEW S, NEW s, s = Chosen(calls, S)
    PROVE  IsSeq(s) /\ Range(s) \subseteq Range(calls) \cap S
<1> DEFINE E == {calls[n] : n \in Nat}
           T == Seq(E)
           step(n, x) == IF calls[n] \in S THEN Append(x, calls[n]) ELSE x
           F == [n \in Nat |-> [x \in T |-> step(n, x)]]
           Is(f) == f = [n \in Nat |-> IF n = 0 THEN <<>> ELSE IF calls[n] \in S
                                       THEN Append(f[n - 1], calls[n]) ELSE f[n - 1]]
           upTo == CHOOSE f : Is(f)
<1>1. Len(calls) \in Nat /\ DOMAIN calls = 1 .. Len(calls)
  BY SeqFacts
<1>2. <<>> \in T
  OBVIOUS
<1>3. PICK a : a = <<>> /\ a \in T
  BY <1>2
<1>4. \A n \in Nat : \A x \in T : step(n, x) \in T
  OBVIOUS
<1>5. F \in [Nat -> [T -> T]] /\ \A n \in Nat : \A x \in T : F[n][x] = step(n, x)
  BY <1>4
<1> HIDE DEF F, T
<1>6. PICK f \in [Nat -> T] : f[0] = a /\ \A n \in Nat : f[n + 1] = F[n + 1][f[n]]
  <2>1. Recursive(T, a, F) # {}
    BY <1>3, <1>5, Recursion
  <2> QED  BY <2>1 DEF Recursive
<1>7. ASSUME NEW n \in Nat PROVE f[n] = IF n = 0 THEN a ELSE step(n, f[n - 1])
  <2>1. CASE n = 0
    BY <1>6, <2>1
  <2>2. CASE n # 0
    <3>1. PICK m \in Nat : m = n - 1 /\ n = m + 1
      BY <2>2
    <3>2. F[m + 1][f[m]] = step(m + 1, f[m])
      BY <1>5
    <3> QED  BY <1>6, <2>2, <3>1, <3>2
  <2> QED  BY <2>1, <2>2
<1>8. Is(f)
  BY <1>3, <1>7
<1>9. Is(upTo)
  BY <1>8
<1>10. s = upTo[Len(calls)]
  BY DEF Chosen
<1> HIDE DEF upTo
<1>11. \A n \in Nat : upTo[n] = IF n = 0 THEN a ELSE step(n, upTo[n - 1])
  BY <1>3, <1>9
<1> HIDE DEF Is
<1> DEFINE Good(n) == n <= Len(calls) => IsSeq(upTo[n]) /\ Range(upTo[n]) \subseteq Range(calls) \cap S
           G == {n \in Nat : Good(n)}
<1>12. Good(0)
  <2>1. upTo[0] = a
    BY <1>11
  <2>2. IsSeq(a) /\ Range(a) = {}
    BY <1>3, EmptyFacts
  <2> QED  BY <2>1, <2>2
<1>13. ASSUME NEW n \in Nat, Good(n), n + 1 <= Len(calls) PROVE Good(n + 1)
  <2>1. PICK x : x = upTo[n] /\ IsSeq(x) /\ Range(x) \subseteq Range(calls) \cap S
    BY <1>1, <1>13
  <2>2. upTo[n + 1] = step(n + 1, x)
    <3>1. n + 1 \in Nat /\ n + 1 # 0 /\ (n + 1) - 1 = n
      OBVIOUS
    <3> QED  BY <1>11, <2>1, <3>1
  <2>3. CASE calls[n + 1] \in S
    <3>1. PICK c, t : c = calls[n + 1] /\ t = Append(x, c)
      OBVIOUS
    <3>2. IsSeq(t) /\ Range(t) = Range(x) \cup {c}
      BY <2>1, <3>1, AppendFacts, ZenonT(60)
    <3>3. c \in Range(calls) \cap S
      BY <1>1, <1>13, <2>3, <3>1 DEF Range
    <3>4. upTo[n + 1] = t
      BY <2>2, <2>3, <3>1
    <3> QED  BY <2>1, <3>2, <3>3, <3>4
  <2>4. CASE calls[n + 1] \notin S
    BY <2>1, <2>2, <2>4
  <2> QED  BY <2>3, <2>4
<1>14. ASSUME NEW n \in Nat, Good(n) PROVE Good(n + 1)
  BY <1>13, <1>14
<1> HIDE DEF Good
<1>15. \A n \in Nat : n \in G
  <2>1. 0 \in G /\ \A n \in Nat : n \in G => n + 1 \in G
    BY <1>12, <1>14
  <2> HIDE DEF G
  <2> QED  BY <2>1, Induction
<1>16. Good(Len(calls))
  BY <1>1, <1>15
<1> QED  BY <1>1, <1>10, <1>16 DEF Good

-----------------------------------------------------------------------------
(* A copy of the session that grows.                                       *)

LEMMA UserPlace ==
    ASSUME NEW v, IsSeq(v), HasUser(v)
    PROVE  /\ LastByUser(v) \in DOMAIN v /\ v[LastByUser(v)].by = "user"
           /\ \A i \in DOMAIN v : v[i].by = "user" => i <= LastByUser(v)
           /\ DOMAIN v = 1 .. Len(v) /\ Len(v) \in Nat
<1>1. DOMAIN v = 1 .. Len(v) /\ Len(v) \in Nat
  BY SeqFacts
<1>2. PICK S : S = {i \in DOMAIN v : v[i].by = "user"}
  OBVIOUS
<1>3. S \in SUBSET Nat /\ S # {} /\ \A i \in S : i <= Len(v)
  BY <1>1, <1>2 DEF HasUser
<1>4. IsFiniteSet(S)
  BY <1>1, <1>3, FS_BoundedSetOfNaturals
<1>5. Max(S) \in S /\ \A y \in S : Max(S) >= y
  BY <1>3, <1>4, MaxOfNaturals
<1>6. LastByUser(v) = Max(S)
  BY <1>2 DEF LastByUser
<1> QED  BY <1>1, <1>2, <1>3, <1>5, <1>6

LEMMA UserKept ==
    ASSUME NEW v, IsSeq(v), HasUser(v), NEW w, NEW S, Grown(v, w, S), \A e \in S : e.by # "user"
    PROVE  /\ HasUser(w) /\ LastByUser(w) = LastByUser(v) /\ Spoken(w) = Spoken(v)
           /\ Verdicts(w) = Verdicts(v) /\ Consumed(v) \subseteq Consumed(w)
           /\ RequestsOf(v) \subseteq RequestsOf(w)
           /\ \A i \in Len(v) + 1 .. Len(w) : w[i].answers \subseteq Consumed(w)
<1>1. /\ LastByUser(v) \in DOMAIN v /\ v[LastByUser(v)].by = "user"
      /\ \A i \in DOMAIN v : v[i].by = "user" => i <= LastByUser(v)
      /\ DOMAIN v = 1 .. Len(v) /\ Len(v) \in Nat
  BY UserPlace
<1>2. /\ IsSeq(w) /\ Len(v) <= Len(w) /\ \A i \in DOMAIN v : w[i] = v[i]
      /\ \A i \in Len(v) + 1 .. Len(w) : w[i] \in S
  BY DEF Grown
<1>3. DOMAIN w = 1 .. Len(w) /\ Len(w) \in Nat
  BY <1>2, SeqFacts
<1>4. HasUser(w)
  BY <1>1, <1>2, <1>3 DEF HasUser
<1>5. {i \in DOMAIN w : w[i].by = "user"} = {i \in DOMAIN v : v[i].by = "user"}
  BY <1>1, <1>2, <1>3
<1>6. LastByUser(w) = LastByUser(v)
  BY <1>5 DEF LastByUser
<1>7. Spoken(w) = Spoken(v)
  BY <1>1, <1>2, <1>6 DEF Spoken
<1>8. Verdicts(w) = Verdicts(v)
  BY <1>7 DEF Verdicts, Spoken
<1>9. Consumed(v) \subseteq Consumed(w)
  <2>1. \A i \in LastByUser(v) + 1 .. Len(v) : i \in LastByUser(w) + 1 .. Len(w) /\ w[i] = v[i]
    BY <1>1, <1>2, <1>3, <1>6
  <2> QED  BY <2>1 DEF Consumed
<1>10. \A i \in Len(v) + 1 .. Len(w) : w[i].answers \subseteq Consumed(w)
  <2>1. \A i \in Len(v) + 1 .. Len(w) : i \in LastByUser(w) + 1 .. Len(w)
    BY <1>1, <1>3, <1>6
  <2> QED  BY <2>1 DEF Consumed
<1>11. Range(v) \subseteq Range(w)
  BY GrownLater
<1>12. RequestsOf(v) \subseteq RequestsOf(w)
  BY <1>11 DEF RequestsOf
<1> QED  BY <1>4, <1>6, <1>7, <1>8, <1>9, <1>10, <1>12

LEMMA NewerFacts ==
    ASSUME NEW e, Newer(e)
    PROVE  e.by \in Agents /\ e.by # "user"
BY FlowConstants DEF Newer

(* What is appended during a turn makes no call due.                       *)
LEMMA WantingKept ==
    ASSUME StoreOK, NEW f, FlowFine(f), IsSeq(f.view), NEW w, NEW S, Grown(f.view, w, S),
           \A e \in S : EventOK(e) /\ Newer(e), \A e \in Range(store) : e.id \in Nat,
           NEW c, Wanting(c, w)
    PROVE  Wanting(c, f.view)
<1>1. PICK v : v = f.view
  OBVIOUS
<1>2. IsSeq(v) /\ HasUser(v) /\ Grown(v, w, S) /\ \A e \in S : e.by # "user"
  BY <1>1, NewerFacts DEF FlowFine
<1>3. Spoken(w) = Spoken(v) /\ Verdicts(w) = Verdicts(v) /\ Consumed(v) \subseteq Consumed(w)
  BY <1>2, UserKept
<1>4. PICK u : u = Spoken(v)
  OBVIOUS
<1>5. u \in Range(v) /\ u.by = "user"
  BY <1>2, <1>4, UserPlace DEF Spoken, Range
<1>6. u \in Range(store)
  BY <1>1, <1>5 DEF FlowFine
<1>7. u.id \in Nat /\ \A r \in DOMAIN u.verdicts : r.for \in (1 .. u.id - 1) \X Nat
  BY <1>5, <1>6 DEF StoreOK, EventOK
<1>8. PICK r \in DOMAIN Verdicts(v) : r.for = c.id
  BY <1>3 DEF Wanting, Approved
<1>9. r \in DOMAIN u.verdicts
  BY <1>4, <1>8 DEF Verdicts, Spoken
<1>10. ASSUME NEW e \in S, c \in Range(e.calls) PROVE FALSE
  <2>1. c.id \in {e.id} \X Nat /\ u.id < e.id
    BY <1>5, <1>6, <1>10 DEF EventOK, Newer
  <2>2. c.id \in (1 .. u.id - 1) \X Nat
    BY <1>7, <1>8, <1>9
  <2>3. PICK a, b : c.id = <<a, b>> /\ a = e.id /\ a \in 1 .. u.id - 1
    BY <2>1, <2>2
  <2> QED  BY <1>7, <2>1, <2>3
<1>11. Range(w) \subseteq Range(v) \cup S
  BY <1>2, GrownLater
<1>12. c \in CallsOf(v)
  BY <1>10, <1>11 DEF Wanting, CallsOf
<1>13. Approved(c.id, v) /\ c.id \notin Consumed(v)
  BY <1>3 DEF Wanting, Approved
<1> QED  BY <1>1, <1>12, <1>13 DEF Wanting

(* The store grows by what agents make.                                    *)
LEMMA FineStays ==
    ASSUME NEW f, FlowFine(f), Range(store) \subseteq Range(store'),
           \A d \in Range(store') : d.by = "user" => d \in Range(store),
           clock \in Nat, clock' \in Nat, clock <= clock'
    PROVE  FlowFine(f)'
<1>1. \A c : CallOK(c) => CallOK(c)'
  BY DEF CallOK
<1>2. \A e : Newer(e) => Newer(e)'
  BY DEF Newer
<1> QED  BY <1>1, <1>2 DEF FlowFine

LEMMA MadeNewer ==
    ASSUME Ids, NEW e, e.by \in Agents, clock \in Nat, e.id \in Nat, clock < e.id
    PROVE  Newer(e)
<1>1. \A d \in Range(store) : d.id \in 1 .. clock
  BY DEF Ids, Pool
<1> QED  BY <1>1 DEF Newer

LEMMA StoredCalls ==
    ASSUME Ids, clock \in Nat, StoreOK, NEW e \in Range(store)
    PROVE  e.id \in 1 .. clock /\ IsSeq(e.calls) /\ \A c \in Range(e.calls) : CallOK(c)
<1>1. e.id \in 1 .. clock /\ EventOK(e)
  BY DEF Ids, Pool, StoreOK
<1>2. \A c \in Range(e.calls) : c.id \in (1 .. clock) \X Nat
  BY <1>1 DEF EventOK
<1> QED  BY <1>1, <1>2 DEF EventOK, CallOK

-----------------------------------------------------------------------------
(* Steps that make no call due.                                            *)

Carries ==
    /\ StoreOK' /\ FlowsOK' /\ Range(store) \subseteq Range(store')
    /\ \A c : DueInTurn(c)' => DueInTurn(c)

StoreGrows ==
    /\ Range(store) \subseteq Range(store')
    /\ \A d \in Range(store') : EventOK(d) /\ (d.by = "user" => d \in Range(store))
    /\ clock \in Nat /\ clock' \in Nat /\ clock <= clock'

LEMMA BecomeCarries ==
    ASSUME Shape, FlowsOK, StoreGrows, flows # <<>>, NEW f, f = Top, NEW g, Become(g),
           g.agent = f.agent, FlowFine(g)', \A c : Due(c, g) => Due(c, f), Past(g) => Past(f) \/ NoneDue(g)
    PROVE  Carries
<1>1. /\ flows' # <<>> /\ Len(flows') = Len(flows) /\ DOMAIN flows' = DOMAIN flows
      /\ flows'[Len(flows)] = g
      /\ \A i \in DOMAIN flows : i # Len(flows) => flows'[i] = flows[i]
  BY BecomeFacts
<1>2. Len(flows) \in Nat \ {0} /\ DOMAIN flows = 1 .. Len(flows) /\ f = flows[Len(flows)]
  BY TopFacts
<1>3. StoreOK'
  BY DEF StoreOK, StoreGrows
<1>4. \A h : FlowFine(h) => FlowFine(h)'
  BY FineStays DEF StoreGrows
<1>5. \A i \in DOMAIN flows : FlowFine(flows[i]) /\ Placed(i, flows[i]) /\ (i # Len(flows) => flows[i].pc = "nested")
  BY DEF FlowsOK
<1>6. Placed(Len(flows), g)
  <2>1. PICK n : n = Len(flows)
    OBVIOUS
  <2>2. Placed(n, f)
    BY <1>2, <1>5, <2>1
  <2> QED  BY <2>1, <2>2 DEF Placed, NoneDue
<1>7. ASSUME NEW i \in DOMAIN flows'
      PROVE  /\ FlowFine(flows[i])' /\ Placed(i, flows'[i])
             /\ i # Len(flows') => flows'[i].pc = "nested"
  <2>1. PICK h : h = flows'[i]
    OBVIOUS
  <2>2. FlowFine(h)' /\ Placed(i, h) /\ (i # Len(flows) => h.pc = "nested")
    <3>1. CASE i = Len(flows)
      BY <1>1, <1>6, <2>1, <3>1
    <3>2. CASE i # Len(flows)
      BY <1>1, <1>4, <1>5, <2>1, <3>2
    <3> QED  BY <3>1, <3>2
  <2> QED  BY <1>1, <2>1, <2>2
<1>8. FlowsOK'
  BY <1>7 DEF FlowsOK
<1>9. \A c : DueInTurn(c)' => DueInTurn(c)
  BY <1>1, <1>2 DEF DueInTurn
<1> QED  BY <1>3, <1>8, <1>9 DEF Carries, StoreGrows

LEMMA QuietCarries ==
    ASSUME Shape, StoreOK, FlowsOK, flows # <<>>, store' = store, clock' \in Nat, clock <= clock',
           NEW f, f = Top, NEW g, Become(g), g.agent = f.agent, g.view = f.view, g.out = f.out,
           IsSeq(g.calls), \A c \in Range(g.calls) : CallOK(c)',
           \A e \in Range(g.step) : e \in Range(f.step) \/ (EventOK(e) /\ Newer(e)),
           \A c : Running(c, f) => Running(c, g), Past(g) => Past(f) \/ NoneDue(g)
    PROVE  Carries
<1>1. StoreGrows
  BY DEF StoreGrows, StoreOK, Shape
<1>2. FlowFine(f)
  BY TopFacts DEF FlowsOK
<1>3. \A e : Newer(e)' = Newer(e)
  BY DEF Newer
<1>4. FlowFine(g)'
  BY <1>2, <1>3 DEF FlowFine
<1>5. \A c : Due(c, g) => Due(c, f)
  BY DEF Due
<1> QED  BY <1>1, <1>4, <1>5, BecomeCarries

LEMMA ToRunSame ==
    ASSUME NEW flow, NEW calls, NEW then, Execute(flow, calls, <<>>, then), bodies' = bodies
    PROVE  \A c : ToRun(c)' = ToRun(c) /\ RunsOf(c)' = RunsOf(c)
<1>1. PICK none : none = <<>>
  OBVIOUS
<1>2. DOMAIN none = {}
  BY <1>1
<1>3. \A t \in tasks' \ tasks : t.verdict = "none"
  BY <1>1, <1>2 DEF Execute
<1>4. tasks \subseteq tasks'
  BY DEF Execute
<1> QED  BY <1>3, <1>4 DEF ToRun, RunsOf

(* What a step leaves as it was, or better.                                *)
LEMMA BoundedStays ==
    ASSUME Bounded, Carries, IsSeq(bodies'), IsSeq(store'),
           \A c : Kind[c.tool] = "guarded" /\ Within(c) =>
               IsFiniteSet(RunsOf(c))' /\ IsFiniteSet(ToRun(c))' /\ Begun(c)' = Begun(c)
    PROVE  Bounded'
<1>1. ASSUME NEW c, Kind[c.tool] = "guarded" PROVE Within(c)'
  <2>1. Within(c)
    BY <1>1 DEF Bounded
  <2>2. PICK A, B : A = Approvals(c) /\ B = Approvals(c)'
    OBVIOUS
  <2>3. A \subseteq B
    BY <2>2 DEF Carries, Approvals
  <2>4. IsFiniteSet(Range(store'))
    <3>1. PICK s : s = store' /\ IsSeq(s)
      OBVIOUS
    <3>2. IsFiniteSet(Range(s))
      BY <3>1, FiniteSequence
    <3> QED  BY <3>1, <3>2
  <2>5. IsFiniteSet(B)
    BY <2>2, <2>4, FS_Subset DEF Approvals
  <2>6. Cardinality(A) <= Cardinality(B) /\ Cardinality(A) \in Nat /\ Cardinality(B) \in Nat
    BY <2>3, <2>5, FS_Subset, FS_CardinalityType
  <2>7. Cardinality(RunsOf(c)) \in Nat /\ Cardinality(ToRun(c)) \in Nat
    BY <2>1, FS_CardinalityType DEF Within
  <2>8. Begun(c)' = Begun(c) /\ Begun(c) \in Nat
    BY <1>1, <2>1, <2>7 DEF Begun
  <2>9. IsFiniteSet(RunsOf(c))' /\ IsFiniteSet(ToRun(c))'
    BY <1>1, <2>1
  <2>10. DueInTurn(c)' => DueInTurn(c)
    BY DEF Carries
  <2> QED  BY <2>1, <2>2, <2>6, <2>8, <2>9, <2>10 DEF Within
<1> QED  BY <1>1 DEF Bounded

-----------------------------------------------------------------------------
(* The actions, one by one.                                                *)

LEMMA CallLater ==
    ASSUME NEW c, CallOK(c), clock \in Nat, clock' \in Nat, clock <= clock'
    PROVE  CallOK(c)'
BY DEF CallOK

(* The invariant holds after a step that carries it and runs nothing.      *)
LEMMA CarriesEnough ==
    ASSUME Shape, Shape', ApprovalInv, Carries, bodies' = bodies,
           \A c : ToRun(c)' = ToRun(c) /\ RunsOf(c)' = RunsOf(c)
    PROVE  ApprovalInv'
<1>1. \A c : Kind[c.tool] = "guarded" /\ Within(c) =>
               IsFiniteSet(RunsOf(c))' /\ IsFiniteSet(ToRun(c))' /\ Begun(c)' = Begun(c)
  BY DEF Within, Begun
<1>2. IsSeq(bodies') /\ IsSeq(store') /\ Bounded
  BY DEF ApprovalInv, Bounded, Shape
<1>3. Bounded'
  BY <1>1, <1>2, BoundedStays
<1> QED  BY <1>3 DEF ApprovalInv, Carries

LEMMA SameTasks ==
    ASSUME UNCHANGED <<tasks, bodies>>
    PROVE  \A c : ToRun(c)' = ToRun(c) /\ RunsOf(c)' = RunsOf(c)
BY DEF ToRun, RunsOf

LEMMA ExecuteCarries ==
    ASSUME Shape, StoreOK, FlowsOK, flows # <<>>, store' = store, NEW f, f = Top, f.pc # "tools",
           NEW flow, IsFlow(flow), flow.agent = f.agent, flow.view = f.view, flow.out = f.out,
           \A e \in Range(flow.step) : e \in Range(f.step) \/ (EventOK(e) /\ Newer(e)),
           NEW calls, IsSeq(calls), \A c \in Range(calls) : CallOK(c)',
           NEW verdicts, NEW then, Execute(flow, calls, verdicts, then),
           \/ then = "confirm" \/ Past(f)
           \/ then # "step" /\ \A c : Wanting(c, f.view) => c.id \in ById(calls)
    PROVE  Carries
<1>1. PICK g : g = [flow EXCEPT !.pc = "tools", !.batch = clock + 1, !.calls = calls,
                                !.results = <<>>, !.then = then]
  OBVIOUS
<1>2. g.agent = f.agent /\ g.view = f.view /\ g.out = f.out /\ g.step = flow.step /\ g.pc = "tools"
      /\ g.calls = calls /\ g.then = then
  BY <1>1 DEF IsFlow
<1>3. Become(g) /\ clock \in Nat /\ clock' \in Nat /\ clock <= clock'
  BY <1>1 DEF Execute, Shape
<1>4. \A c : Running(c, f) => Running(c, g)
  BY DEF Running
<1>5. Past(g) => Past(f) \/ NoneDue(g)
  BY <1>2 DEF Past, NoneDue, Due, Running
<1> QED  BY <1>2, <1>3, <1>4, <1>5, QuietCarries

LEMMA TopFine ==
    ASSUME Shape, FlowsOK, flows # <<>>, NEW f, f = Top
    PROVE  /\ FlowFine(f) /\ Placed(Len(flows), f) /\ IsFlow(f)
           /\ IsSeq(f.view) /\ IsSeq(f.step) /\ IsSeq(f.out) /\ Range(f.out) \subseteq Range(store)
BY TopFacts DEF FlowsOK, FlowOK

LEMMA ResumedCalls ==
    ASSUME StoreOK, Ids, clock \in Nat, NEW f, FlowFine(f), IsSeq(f.view),
           NEW ids, NEW s, s = Only(ResumedEvent(f.view, ids).calls, ids)
    PROVE  IsSeq(s) /\ \A c \in Range(s) : CallOK(c)
<1>1. PICK v : v = f.view /\ IsSeq(v) /\ Range(v) \subseteq Range(store)
  BY DEF FlowFine
<1>2. PICK S : S = {i \in 1 .. Len(v) - 1 : ById(v[i].calls) \cap ids # {}}
  OBVIOUS
<1>3. PICK calls : calls = ResumedEvent(v, ids).calls
  OBVIOUS
<1>4. IsSeq(calls) /\ \A c \in Range(calls) : CallOK(c)
  <2>1. CASE S = {}
    <3>1. calls = <<>>
      BY <1>2, <1>3, <2>1 DEF ResumedEvent, Blank
    <3> QED  BY <3>1, EmptyFacts
  <2>2. CASE S # {}
    <3>1. Len(v) \in Nat /\ DOMAIN v = 1 .. Len(v)
      BY <1>1, SeqFacts
    <3>2. S \in SUBSET Nat /\ IsFiniteSet(S)
      <4>1. S \in SUBSET Nat /\ \A i \in S : i <= Len(v)
        BY <1>2, <3>1
      <4> QED  BY <3>1, <4>1, FS_BoundedSetOfNaturals
    <3>3. PICK m : m = Max(S) /\ m \in S
      BY <2>2, <3>2, MaxOfNaturals
    <3>4. calls = v[m].calls /\ m \in DOMAIN v
      <4>1. ResumedEvent(v, ids) = v[Max(S)]
        BY <1>2, <2>2 DEF ResumedEvent
      <4>2. m \in 1 .. Len(v) - 1
        BY <1>2, <3>3
      <4>3. m \in DOMAIN v
        BY <3>1, <4>2
      <4> QED  BY <1>3, <3>3, <4>1, <4>3
    <3>5. PICK e : e = v[m] /\ e \in Range(store)
      BY <1>1, <3>4 DEF Range
    <3> QED  BY <3>4, <3>5, StoredCalls
  <2> QED  BY <2>1, <2>2
<1>5. PICK W : W = {c \in Range(calls) : c.id \in ids}
  OBVIOUS
<1>6. s = Chosen(calls, W)
  BY <1>1, <1>3, <1>5 DEF Only
<1>7. IsSeq(s) /\ Range(s) \subseteq Range(calls) \cap W
  BY <1>4, <1>6, ChosenFacts
<1> QED  BY <1>4, <1>7

LEMMA ProcessAuthKeeps == ASSUME Shape, Shape', Ids, ApprovalInv, ProcessAuth PROVE ApprovalInv'
<1>1. flows # <<>> /\ Top.pc = "auth"
  BY DEF ProcessAuth, Active
<1>2. PICK creds, ids :
        LET flow == [Top EXCEPT !.creds = creds]
        IN  \/ Become([flow EXCEPT !.pc = "confirm"]) /\ UNCHANGED <<tasks, clock>>
            \/ Execute(flow, Only(ResumedEvent(Top.view, ids).calls, ids), <<>>, "confirm")
  BY DEF ProcessAuth
<1>3. UNCHANGED <<store, bodies>> /\ clock \in Nat /\ StoreOK /\ FlowsOK
  BY DEF ProcessAuth, Shape, ApprovalInv
<1>4. PICK f, flow, calls : /\ f = Top /\ flow = [f EXCEPT !.creds = creds]
                            /\ calls = Only(ResumedEvent(f.view, ids).calls, ids)
  OBVIOUS
<1>5. FlowFine(f) /\ IsFlow(f) /\ IsSeq(f.view)
  BY <1>1, <1>3, <1>4, TopFine
<1>6. IsFlow(flow) /\ flow.view = f.view /\ flow.step = f.step /\ flow.out = f.out /\ flow.agent = f.agent
      /\ flow.calls = f.calls
  BY <1>4, <1>5 DEF IsFlow
<1>7. IsSeq(calls) /\ \A c \in Range(calls) : CallOK(c)
  BY <1>3, <1>4, <1>5, ResumedCalls
<1>8. CASE Become([flow EXCEPT !.pc = "confirm"]) /\ UNCHANGED <<tasks, clock>>
  <2>1. PICK g : g = [flow EXCEPT !.pc = "confirm"]
    OBVIOUS
  <2>2. g.view = f.view /\ g.step = f.step /\ g.out = f.out /\ g.pc = "confirm" /\ g.agent = f.agent
        /\ g.calls = f.calls
    BY <1>6, <2>1 DEF IsFlow
  <2>3. Become(g) /\ clock' \in Nat /\ clock <= clock'
    BY <1>3, <1>8, <2>1
  <2>4. IsSeq(g.calls) /\ \A c \in Range(g.calls) : CallOK(c)'
    BY <1>3, <1>5, <2>2, <2>3, CallLater DEF FlowFine
  <2>5. \A c : Running(c, f) => Running(c, g)
    BY <1>1, <1>4 DEF Running
  <2>6. Past(g) => Past(f) \/ NoneDue(g)
    BY <2>2 DEF Past
  <2>7. Carries
    BY <1>1, <1>3, <1>4, <2>2, <2>3, <2>4, <2>5, <2>6, QuietCarries
  <2> QED  BY <1>3, <1>8, <2>7, SameTasks, CarriesEnough
<1>9. CASE Execute(flow, calls, <<>>, "confirm")
  <2>1. clock' \in Nat /\ clock <= clock'
    BY <1>3, <1>9 DEF Execute
  <2>2. \A c \in Range(calls) : CallOK(c)'
    BY <1>3, <1>7, <2>1, CallLater
  <2>3. f.pc # "tools"
    BY <1>1, <1>4
  <2>4. Carries
    BY <1>1, <1>3, <1>4, <1>6, <1>7, <1>9, <2>2, <2>3, ExecuteCarries
  <2>5. \A c : ToRun(c)' = ToRun(c) /\ RunsOf(c)' = RunsOf(c)
    BY <1>3, <1>9, ToRunSame
  <2> QED  BY <1>3, <2>4, <2>5, CarriesEnough
<1> QED  BY <1>2, <1>4, <1>8, <1>9

LEMMA EmptyStepKeeps == ASSUME Shape, Shape', ApprovalInv, EmptyStep PROVE ApprovalInv'
<1>1. flows # <<>> /\ Top.pc = "model"
  BY DEF EmptyStep, Active
<1>2. PICK f, g : f = Top /\ g = [f EXCEPT !.pc = "append", !.step = <<>>]
  OBVIOUS
<1>3. UNCHANGED <<store, tasks, bodies, clock>> /\ clock \in Nat /\ StoreOK /\ FlowsOK
  BY DEF EmptyStep, Shape, ApprovalInv
<1>4. FlowFine(f) /\ IsFlow(f)
  BY <1>1, <1>2, <1>3, TopFine
<1>5. g.view = f.view /\ g.step = <<>> /\ g.out = f.out /\ g.pc = "append" /\ g.agent = f.agent /\ g.calls = f.calls
  BY <1>2, <1>4 DEF IsFlow
<1>6. Become(g) /\ clock' \in Nat /\ clock <= clock'
  BY <1>2, <1>3 DEF EmptyStep
<1>7. IsSeq(g.calls) /\ \A c \in Range(g.calls) : CallOK(c)'
  BY <1>3, <1>4, <1>5, <1>6, CallLater DEF FlowFine
<1>8. \A c : Running(c, f) => Running(c, g)
  BY <1>1, <1>2 DEF Running
<1>9. Past(f) /\ Range(g.step) = {}
  BY <1>1, <1>2, <1>5, EmptyFacts DEF Past
<1>10. Carries
  BY <1>1, <1>2, <1>3, <1>5, <1>6, <1>7, <1>8, <1>9, QuietCarries
<1> QED  BY <1>3, <1>10, SameTasks, CarriesEnough

LEMMA CallModelKeeps ==
    ASSUME GuardedAtRoot, Shape, Shape', Ids, ApprovalInv, NEW reply, CallModel(reply)
    PROVE  ApprovalInv'
<1>1. flows # <<>> /\ Top.pc = "model"
  BY DEF CallModel, Active
<1>2. PICK f : f = Top
  OBVIOUS
<1>3. UNCHANGED <<store, bodies>> /\ clock \in Nat /\ StoreOK /\ FlowsOK
  BY DEF CallModel, Shape, ApprovalInv
<1>4. FlowFine(f) /\ IsFlow(f)
  BY <1>1, <1>2, <1>3, TopFine
<1>5. PICK calls : calls = [i \in DOMAIN reply |-> [tool |-> reply[i], id |-> <<clock + 1, i>>]]
  OBVIOUS
<1>6. PICK e : e = [Blank EXCEPT !.id = clock + 1, !.by = f.agent, !.turn = turn, !.calls = calls]
  OBVIOUS
<1>7. e.id = clock + 1 /\ e.by = f.agent /\ e.calls = calls /\ e.requests = {}
  BY <1>6 DEF Blank
<1>8. PICK flow : flow = [f EXCEPT !.step = <<e>>, !.pc = "append"]
  OBVIOUS
<1>9. IsFlow(flow) /\ flow.view = f.view /\ flow.step = <<e>> /\ flow.out = f.out /\ flow.pc = "append"
      /\ flow.agent = f.agent /\ flow.calls = f.calls
  BY <1>4, <1>8 DEF IsFlow
<1>10. \/ Become(flow) /\ clock' = clock + 1 /\ UNCHANGED tasks
       \/ Execute(flow, calls, <<>>, "step")
  BY <1>2, <1>5, <1>6, <1>8 DEF CallModel
<1>11. f.agent \in Agents /\ f.agent # "user"
  BY <1>4, FlowConstants DEF FlowFine
<1>12. reply \in Seq(Tools) /\ \A t \in Range(reply) : Kind[t] = "guarded" => f.agent = Root
  BY <1>2, <1>11, FlowConstants DEF CallModel, GuardedAtRoot
<1>13. DOMAIN calls = DOMAIN reply /\ DOMAIN reply = 1 .. Len(reply) /\ Len(reply) \in Nat
  BY <1>5, <1>12
<1>14. IsSeq(calls)
  <2>1. calls \in Seq({calls[i] : i \in DOMAIN reply})
    BY <1>5, <1>13
  <2> QED  BY <2>1 DEF IsSeq
<1>15. ASSUME NEW c \in Range(calls)
       PROVE  /\ c.tool \in Tools /\ c.id \in {clock + 1} \X Nat
              /\ Kind[c.tool] = "guarded" => f.agent = Root
  <2>1. PICK i \in DOMAIN calls : c = calls[i]
    BY DEF Range
  <2>2. c.tool = reply[i] /\ c.id = <<clock + 1, i>> /\ i \in Nat /\ i \in DOMAIN reply
    BY <1>5, <1>13, <2>1
  <2>3. reply[i] \in Tools /\ reply[i] \in Range(reply)
    BY <1>12, <2>2 DEF Range
  <2> QED  BY <1>12, <2>2, <2>3
<1>16. EventOK(e)
  BY <1>7, <1>11, <1>14, <1>15 DEF EventOK
<1>17. Newer(e)
  BY <1>3, <1>7, <1>11, MadeNewer
<1>18. \A d \in Range(flow.step) : EventOK(d) /\ Newer(d)
  BY <1>9, <1>16, <1>17, SingleFacts
<1>19. Past(f) /\ f.pc # "tools"
  BY <1>1, <1>2 DEF Past
<1>20. CASE Become(flow) /\ clock' = clock + 1 /\ UNCHANGED tasks
  <2>1. clock' \in Nat /\ clock <= clock'
    BY <1>3, <1>20
  <2>2. IsSeq(flow.calls) /\ \A c \in Range(flow.calls) : CallOK(c)'
    BY <1>3, <1>4, <1>9, <2>1, CallLater DEF FlowFine
  <2>3. \A c : Running(c, f) => Running(c, flow)
    BY <1>19 DEF Running
  <2>4. Carries
    BY <1>1, <1>2, <1>3, <1>9, <1>18, <1>19, <1>20, <2>1, <2>2, <2>3, QuietCarries
  <2> QED  BY <1>3, <1>20, <2>4, SameTasks, CarriesEnough
<1>21. CASE Execute(flow, calls, <<>>, "step")
  <2>1. clock' = clock + 1
    BY <1>21 DEF Execute
  <2>2. \A c \in Range(calls) : CallOK(c)'
    BY <1>3, <1>15, <2>1 DEF CallOK
  <2>3. Carries
    BY <1>1, <1>2, <1>3, <1>9, <1>14, <1>18, <1>19, <1>21, <2>2, ExecuteCarries
  <2>4. \A c : ToRun(c)' = ToRun(c) /\ RunsOf(c)' = RunsOf(c)
    BY <1>3, <1>21, ToRunSame
  <2> QED  BY <1>3, <2>3, <2>4, CarriesEnough
<1> QED  BY <1>10, <1>20, <1>21

(* The flows are gone.                                                     *)
LEMMA ClearKeeps ==
    ASSUME Shape, Shape', ApprovalInv, flows' = <<>>, Range(store) \subseteq Range(store'), StoreOK',
           UNCHANGED <<tasks, bodies>>
    PROVE  ApprovalInv'
<1>1. DOMAIN flows' = {}
  BY EmptyFacts
<1>2. Carries
  BY <1>1 DEF Carries, FlowsOK, DueInTurn
<1> QED  BY <1>2, SameTasks, CarriesEnough

LEMMA FailKeeps == ASSUME Shape, Shape', ApprovalInv, Fail PROVE ApprovalInv'
<1>1. UNCHANGED <<store, tasks, bodies>> /\ flows' = <<>> /\ StoreOK'
  BY DEF Fail, ApprovalInv, StoreOK
<1> QED  BY <1>1, ClearKeeps

LEMMA EndTurnKeeps == ASSUME Shape, Shape', Ids, ApprovalInv, EndTurn PROVE ApprovalInv'
<1>1. /\ Range(store) \subseteq Range(store')
      /\ \A e \in Range(store') : \E d \in Range(store) : e \in {d, Delivered(d)}
  BY EndTurnStores
<1>2. ASSUME NEW e \in Range(store') PROVE EventOK(e)
  <2>1. PICK d \in Range(store) : e \in {d, Delivered(d)}
    BY <1>1
  <2>2. IsEvent(d) /\ EventOK(d)
    BY DEF Ids, Pool, ApprovalInv, StoreOK
  <2>3. /\ e.id = d.id /\ e.by = d.by /\ e.calls = d.calls
        /\ e.requests = d.requests /\ e.verdicts = d.verdicts
    BY <2>1, <2>2, DeliveredFacts
  <2> QED  BY <2>2, <2>3 DEF EventOK
<1>3. StoreOK'
  BY <1>2 DEF StoreOK
<1> QED  BY <1>1, <1>3, ClearKeeps DEF EndTurn

(* run_async appends the events of a step: nothing becomes due.            *)
LEMMA AppendStepKeeps == ASSUME Shape, Shape', Ids, ApprovalInv, AppendStep PROVE ApprovalInv'
<1>1. flows # <<>> /\ Top.pc = "append"
  BY DEF AppendStep, Active
<1>2. PICK f : f = Top
  OBVIOUS
<1>3. UNCHANGED <<tasks, bodies, clock>> /\ clock \in Nat /\ StoreOK /\ FlowsOK /\ IsSeq(store)
  BY DEF AppendStep, Shape, ApprovalInv
<1>4. FlowFine(f) /\ IsFlow(f) /\ IsSeq(f.view) /\ IsSeq(f.step) /\ IsSeq(f.out)
  BY <1>1, <1>2, <1>3, TopFine
<1>5. PICK v, events, r, g, out, pc :
          /\ v = f.view /\ events = f.step /\ r = AppendAll(v, events) /\ store' = r.store
          /\ out = f.out \o events /\ pc \in {"done", "auth"}
          /\ g = [f EXCEPT !.view = r.view, !.out = out, !.step = <<>>, !.pc = pc]
          /\ Become(g)
  BY <1>2 DEF AppendStep
<1>6. IsSeq(v) /\ IsSeq(events)
  BY <1>4, <1>5
<1>7. Range(r.store) = Range(store) \cup Range(events) /\ Grown(v, r.view, Range(events))
  BY <1>3, <1>5, <1>6, AppendAllFacts, ZenonT(60)
<1>8. \A e \in Range(events) : EventOK(e) /\ Newer(e) /\ e.by # "user"
  BY <1>4, <1>5, NewerFacts DEF FlowFine
<1>9. StoreGrows
  BY <1>3, <1>5, <1>7, <1>8 DEF StoreGrows, StoreOK
<1>10. g.agent = f.agent /\ g.view = r.view /\ g.out = out /\ g.step = <<>> /\ g.pc = pc /\ g.calls = f.calls
  BY <1>4, <1>5 DEF IsFlow
<1>11. PICK w : w = r.view
  OBVIOUS
<1>12. HasUser(v) /\ \A e \in Range(events) : e.by # "user"
  BY <1>4, <1>5, <1>8 DEF FlowFine
<1>13. HasUser(w) /\ Spoken(w) = Spoken(v) /\ RequestsOf(v) \subseteq RequestsOf(w)
  BY <1>6, <1>7, <1>11, <1>12, UserKept
<1>14. Range(w) \subseteq Range(store')
  <2>1. Range(w) \subseteq Range(v) \cup Range(events)
    BY <1>6, <1>7, <1>11, GrownLater
  <2> QED  BY <1>4, <1>5, <1>7, <2>1 DEF FlowFine
<1>15. FlowFine(f)'
  BY <1>4, <1>9, FineStays DEF StoreGrows
<1>16. FlowFine(g)'
  <2>1. Range(out) = Range(f.out) \cup Range(events)
    BY <1>4, <1>5, <1>6, ConcatFacts
  <2>2. \A e \in Range(f.step) \cup Range(f.out) : EventOK(e) /\ Newer(e)'
    BY <1>15 DEF FlowFine
  <2>3. \A e \in Range(g.step) \cup Range(g.out) : EventOK(e) /\ Newer(e)'
    BY <1>5, <1>10, <2>1, <2>2, EmptyFacts
  <2>4. g.agent \in Agents /\ HasUser(g.view) /\ Range(g.view) \subseteq Range(store')
        /\ DOMAIN Spoken(g.view).verdicts \subseteq RequestsOf(g.view)
    BY <1>4, <1>5, <1>10, <1>11, <1>13, <1>14 DEF FlowFine
  <2>5. IsSeq(g.calls) /\ \A c \in Range(g.calls) : CallOK(c)'
    BY <1>10, <1>15 DEF FlowFine
  <2> QED  BY <2>3, <2>4, <2>5 DEF FlowFine
<1>17. \A c : Wanting(c, w) => Wanting(c, v)
  <2>1. \A e \in Range(store) : e.id \in Nat
    BY <1>3 DEF Ids, Pool
  <2>2. PICK S : S = Range(events)
    OBVIOUS
  <2> QED  BY <1>3, <1>4, <1>5, <1>7, <1>8, <1>11, <2>1, <2>2, WantingKept
<1>18. \A c : Due(c, g) => Due(c, f)
  BY <1>1, <1>2, <1>5, <1>10, <1>11, <1>17 DEF Due, Running
<1>19. Past(f)
  BY <1>1, <1>2 DEF Past
<1>20. Carries
  BY <1>1, <1>2, <1>3, <1>5, <1>9, <1>10, <1>16, <1>18, <1>19, BecomeCarries
<1> QED  BY <1>3, <1>20, SameTasks, CarriesEnough

(* The flow below goes on, with the events of the one above.               *)
LEMMA ReturnNestedKeeps == ASSUME Shape, Shape', ApprovalInv, ReturnNested PROVE ApprovalInv'
<1>1. PICK n : n = Len(flows)
  OBVIOUS
<1>2. PICK f, top : f = flows[n - 1] /\ top = Top
  OBVIOUS
<1>3. PICK step, g : step = f.step \o top.out /\ g = [f EXCEPT !.step = step, !.pc = "append"]
  OBVIOUS
<1>4. /\ n \in Nat /\ n > 1 /\ DOMAIN flows = 1 .. n /\ top = flows[n]
      /\ DOMAIN flows' = 1 .. n - 1 /\ flows'[n - 1] = g /\ \A i \in 1 .. n - 2 : flows'[i] = flows[i]
      /\ flows' # <<>> /\ IsSeq(flows')
  BY <1>1, <1>2, <1>3, PopFacts
<1>5. UNCHANGED <<store, tasks, bodies, clock>> /\ clock \in Nat /\ StoreOK /\ FlowsOK
  BY DEF ReturnNested, Shape, ApprovalInv
<1>6. n - 1 \in DOMAIN flows /\ n \in DOMAIN flows /\ n - 1 # n
  BY <1>4
<1>7. /\ FlowFine(f) /\ f.pc = "nested" /\ Placed(n - 1, f) /\ IsFlow(f) /\ IsSeq(f.step)
      /\ FlowFine(top) /\ IsSeq(top.out)
  BY <1>1, <1>2, <1>4, <1>5, <1>6 DEF FlowsOK, Shape, FlowOK
<1>8. g.agent = f.agent /\ g.view = f.view /\ g.out = f.out /\ g.calls = f.calls /\ g.step = step /\ g.pc = "append"
  BY <1>3, <1>7 DEF IsFlow
<1>9. Range(step) = Range(f.step) \cup Range(top.out)
  BY <1>3, <1>7, ConcatFacts
<1>10. \A e \in Range(step) \cup Range(f.out) : EventOK(e) /\ Newer(e)
  BY <1>7, <1>9 DEF FlowFine
<1>11. \A h : FlowFine(h) => FlowFine(h)'
  BY <1>5, FineStays
<1>12. FlowFine(g)
  BY <1>7, <1>8, <1>10 DEF FlowFine
<1>13. NoneDue(g)
  <2>1. NoneDue(f)
    BY <1>7 DEF Placed, Past
  <2> QED  BY <1>7, <1>8, <2>1 DEF NoneDue, Due, Running
<1>14. Placed(n - 1, g)
  BY <1>7, <1>8, <1>13 DEF Placed
<1>15. ASSUME NEW i \in DOMAIN flows'
       PROVE  /\ FlowFine(flows[i])' /\ Placed(i, flows'[i]) /\ (i # Len(flows') => flows'[i].pc = "nested")
  <2>1. PICK h : h = flows'[i]
    OBVIOUS
  <2>2. PICK t : t = flows'
    OBVIOUS
  <2>3. IsSeq(t) /\ DOMAIN t = 1 .. n - 1
    BY <1>4, <2>2
  <2>4. Len(t) = n - 1
    <3>1. DOMAIN t = 1 .. Len(t) /\ Len(t) \in Nat
      BY <2>3, SeqFacts
    <3> QED  BY <1>4, <2>3, <3>1
  <2>5. FlowFine(h)' /\ Placed(i, h) /\ (i # n - 1 => h.pc = "nested")
    <3>1. CASE i = n - 1
      BY <1>4, <1>11, <1>12, <1>14, <2>1, <3>1
    <3>2. CASE i # n - 1
      <4>1. i \in 1 .. n - 2 /\ i \in DOMAIN flows /\ i # Len(flows)
        BY <1>1, <1>4, <3>2
      <4> QED  BY <1>4, <1>5, <1>11, <2>1, <4>1 DEF FlowsOK
    <3> QED  BY <3>1, <3>2
  <2> QED  BY <2>1, <2>2, <2>4, <2>5
<1>16. FlowsOK'
  BY <1>15 DEF FlowsOK
<1>17. \A c : DueInTurn(c)' => DueInTurn(c)
  <2>1. PICK h : h = flows'[1] /\ (n = 2 => h = g) /\ (n # 2 => h = flows[1])
    <3>1. n # 2 => 1 \in 1 .. n - 2
      BY <1>4
    <3>2. n = 2 => 1 = n - 1
      OBVIOUS
    <3> QED  BY <1>4, <3>1, <3>2
  <2>2. flows # <<>>
    BY DEF ReturnNested, Active
  <2> QED  BY <1>13, <2>1, <2>2 DEF DueInTurn, NoneDue
<1>18. Carries
  BY <1>5, <1>16, <1>17 DEF Carries, StoreOK
<1> QED  BY <1>5, <1>18, SameTasks, CarriesEnough

(* A function runs for a task that was waiting to run it.                  *)
LEMMA RunToolKeeps ==
    ASSUME Shape, Shape', ApprovalInv, NEW t, NEW ok, RunTool(t, ok)
    PROVE  ApprovalInv'
<1>1. UNCHANGED <<store, clock>> /\ clock \in Nat /\ StoreOK /\ FlowsOK /\ Bounded /\ IsSeq(bodies)
  BY DEF RunTool, Shape, ApprovalInv, Bounded
<1>2. t \in tasks /\ tasks' = tasks \ {t}
  BY DEF RunTool
<1>3. Carries
  <2>1. CASE flows' = flows
    BY <1>1, <2>1 DEF Carries, StoreOK, FlowsOK, FlowFine, CallOK, Newer, DueInTurn
  <2>2. CASE Active("tools") /\ \E results : Become([Top EXCEPT !.results = results])
    <3>1. PICK f, g, results : f = Top /\ g = [f EXCEPT !.results = results] /\ Become(g)
      BY <2>2
    <3>2. flows # <<>> /\ FlowFine(f) /\ IsFlow(f)
      BY <1>1, <2>2, <3>1, TopFine DEF Active
    <3>3. g.agent = f.agent /\ g.view = f.view /\ g.out = f.out /\ g.calls = f.calls /\ g.step = f.step
          /\ g.pc = f.pc /\ g.then = f.then
      BY <3>1, <3>2 DEF IsFlow
    <3>4. IsSeq(g.calls) /\ \A c \in Range(g.calls) : CallOK(c)'
      BY <1>1, <3>2, <3>3 DEF FlowFine, CallOK
    <3>5. \A c : Running(c, f) => Running(c, g)
      BY <3>3 DEF Running
    <3>6. Past(g) => Past(f)
      BY <3>3 DEF Past
    <3>7. clock' \in Nat /\ clock <= clock' /\ store' = store
      BY <1>1
    <3> QED  BY <1>1, <3>1, <3>2, <3>3, <3>4, <3>5, <3>6, <3>7, QuietCarries
  <2> QED  BY <2>1, <2>2 DEF RunTool, Become
<1>4. PICK b, u, d : /\ b = bodies /\ u = bodies' /\ d = [call |-> t.call, turn |-> turn]
                     /\ IF Runs(t) THEN u = Append(b, d) ELSE u = b
  BY DEF RunTool
<1>5. IsSeq(b) /\ IsSeq(u)
  <2>1. IsSeq(b)
    BY <1>1, <1>4
  <2>2. CASE u = Append(b, d)
    <3>1. IsSeq(u)
      BY <2>1, <2>2, AppendFacts
    <3> QED  BY <2>1, <3>1
  <2> QED  BY <1>4, <2>1, <2>2
<1>6. ASSUME NEW c, Kind[c.tool] = "guarded", Within(c)
      PROVE  IsFiniteSet(RunsOf(c))' /\ IsFiniteSet(ToRun(c))' /\ Begun(c)' = Begun(c)
  <2>1. PICK R, S, Q, P : R = RunsOf(c) /\ S = RunsOf(c)' /\ Q = ToRun(c) /\ P = ToRun(c)'
    OBVIOUS
  <2>2. IsFiniteSet(R) /\ IsFiniteSet(Q) /\ Cardinality(R) \in Nat /\ Cardinality(Q) \in Nat
    BY <1>6, <2>1, FS_CardinalityType DEF Within
  <2>3. CASE t.call = c /\ t.verdict = "yes"
    <3>1. Runs(t)
      BY <1>6, <2>3 DEF Runs
    <3>2. Len(u) = Len(b) + 1
      BY <1>4, <1>5, <3>1, AppendFacts
    <3>3. u[Len(b) + 1] = d
      BY <1>4, <1>5, <3>1, AppendFacts
    <3>4. \A i \in DOMAIN b : u[i] = b[i]
      BY <1>4, <1>5, <3>1, AppendFacts
    <3>5. DOMAIN u = DOMAIN b \cup {Len(b) + 1}
      BY <1>4, <1>5, <3>1, AppendFacts
    <3>6. Len(b) \in Nat /\ DOMAIN b = 1 .. Len(b)
      BY <1>5, SeqFacts
    <3>7. S = R \cup {Len(b) + 1} /\ Len(b) + 1 \notin R
      BY <1>4, <2>1, <2>3, <3>3, <3>4, <3>5, <3>6 DEF RunsOf
    <3>8. P = Q \ {t} /\ t \in Q
      BY <1>2, <2>1, <2>3 DEF ToRun
    <3>9. IsFiniteSet(S) /\ Cardinality(S) = Cardinality(R) + 1
      BY <2>2, <3>7, FS_AddElement
    <3>10. IsFiniteSet(P) /\ Cardinality(P) = Cardinality(Q) - 1
      BY <2>2, <3>8, FS_RemoveElement
    <3>11. Begun(c)' = Cardinality(S) + Cardinality(P) /\ Begun(c) = Cardinality(R) + Cardinality(Q)
      BY <2>1 DEF Begun
    <3> QED  BY <2>1, <2>2, <3>9, <3>10, <3>11
  <2>4. CASE ~(t.call = c /\ t.verdict = "yes")
    <3>1. P = Q
      BY <1>2, <2>1, <2>4 DEF ToRun
    <3>2. S = R
      <4>1. CASE Runs(t)
        <5>1. t.call # c
          BY <1>6, <2>4, <4>1 DEF Runs
        <5>2. u[Len(b) + 1] = d
          BY <1>4, <1>5, <4>1, AppendFacts
        <5>3. \A i \in DOMAIN b : u[i] = b[i]
          BY <1>4, <1>5, <4>1, AppendFacts
        <5>4. DOMAIN u = DOMAIN b \cup {Len(b) + 1}
          BY <1>4, <1>5, <4>1, AppendFacts
        <5> QED  BY <1>4, <2>1, <5>1, <5>2, <5>3, <5>4 DEF RunsOf
      <4>2. CASE ~Runs(t)
        BY <1>4, <2>1, <4>2 DEF RunsOf
      <4> QED  BY <4>1, <4>2
    <3> QED  BY <2>1, <2>2, <3>1, <3>2 DEF Begun
  <2> QED  BY <2>3, <2>4
<1>7. IsSeq(store') /\ IsSeq(bodies')
  BY <1>4, <1>5 DEF Shape
<1>8. Bounded'
  BY <1>1, <1>3, <1>6, <1>7, BoundedStays
<1> QED  BY <1>3, <1>8 DEF ApprovalInv, Carries

(* An agent's event that holds no calls, made in a step.                   *)
LEMMA MadeOK ==
    ASSUME Ids, clock \in Nat, NEW f, FlowFine(f), NEW e, e.by = f.agent, e.id \in Nat, clock < e.id,
           e.calls = <<>>, \A r \in e.requests : r.for \in (1 .. clock) \X Nat
    PROVE  EventOK(e) /\ Newer(e)
<1>1. e.by \in Agents /\ e.by # "user"
  BY FlowConstants DEF FlowFine
<1>2. Newer(e)
  BY <1>1, MadeNewer
<1>3. IsSeq(e.calls) /\ Range(e.calls) = {}
  BY EmptyFacts
<1>4. \A r \in e.requests : r.for \in (1 .. e.id) \X Nat
  <2>1. 1 .. clock \subseteq 1 .. e.id
    OBVIOUS
  <2> QED  BY <2>1
<1> QED  BY <1>1, <1>2, <1>3, <1>4 DEF EventOK

(* A flow that is put on top of one past the processor of approvals.       *)
LEMMA PushCarries ==
    ASSUME Shape, Shape', StoreOK, FlowsOK, flows # <<>>, store' = store, clock' \in Nat, clock <= clock',
           NEW f, f = Top, f.pc = "tools", f.then = "step",
           NEW g, g.agent = f.agent, g.view = f.view, g.out = f.out, g.calls = <<>>, g.pc = "nested",
           \A e \in Range(g.step) : EventOK(e) /\ Newer(e),
           NEW h, h.agent \in Agents, h.view = f.view, h.out = <<>>, h.step = <<>>, h.calls = <<>>, h.pc = "auth",
           flows' = Under \o <<g, h>>
    PROVE  Carries
<1>1. PICK n : n = Len(flows)
  OBVIOUS
<1>2. n \in Nat \ {0} /\ DOMAIN flows = 1 .. n /\ f = flows[n]
  BY <1>1, TopFacts
<1>3. FlowFine(f) /\ Placed(n, f) /\ clock \in Nat
  BY <1>1, TopFine DEF Shape
<1>4. IsSeq(flows') /\ flows' # <<>> /\ DOMAIN flows' = DOMAIN flows \cup {n + 1}
  BY <1>1, PushFacts
<1>5. flows'[n] = g /\ flows'[n + 1] = h /\ \A i \in DOMAIN flows : i # n => flows'[i] = flows[i]
  BY <1>1, PushFacts
<1>6. NoneDue(f)
  BY <1>3 DEF Placed, Past
<1>7. NoneDue(g) /\ NoneDue(h)
  BY <1>6 DEF NoneDue, Due, Running
<1>8. \A k : FlowFine(k) => FlowFine(k)'
  BY <1>3, FineStays
<1>9. FlowFine(g) /\ FlowFine(h)
  BY <1>3, EmptyFacts DEF FlowFine
<1>10. Placed(n, g) /\ Placed(n + 1, h)
  BY <1>2, <1>3, <1>7 DEF Placed
<1>11. Len(flows') = n + 1
  <2>1. PICK t : t = flows'
    OBVIOUS
  <2>2. DOMAIN t = 1 .. Len(t) /\ Len(t) \in Nat
    BY <1>4, <2>1, SeqFacts
  <2>3. 1 .. Len(t) = 1 .. n + 1
    <3>1. 1 .. n + 1 = 1 .. n \cup {n + 1}
      BY <1>2
    <3>2. DOMAIN t = 1 .. n \cup {n + 1}
      BY <1>2, <1>4, <2>1
    <3> QED  BY <2>2, <3>1, <3>2
  <2> QED  BY <1>2, <2>1, <2>2, <2>3
<1>12. ASSUME NEW i \in DOMAIN flows'
       PROVE  /\ FlowFine(flows[i])' /\ Placed(i, flows'[i]) /\ (i # Len(flows') => flows'[i].pc = "nested")
  <2>1. PICK k : k = flows'[i]
    OBVIOUS
  <2>2. FlowFine(k)' /\ Placed(i, k) /\ (i # n + 1 => k.pc = "nested")
    <3>1. CASE i = n + 1
      BY <1>5, <1>8, <1>9, <1>10, <2>1, <3>1
    <3>2. CASE i = n
      BY <1>5, <1>8, <1>9, <1>10, <2>1, <3>2
    <3>3. CASE i # n /\ i # n + 1
      <4>1. i \in DOMAIN flows /\ i # Len(flows)
        BY <1>1, <1>4, <3>3
      <4> QED  BY <1>1, <1>5, <1>8, <2>1, <4>1 DEF FlowsOK
    <3> QED  BY <3>1, <3>2, <3>3
  <2> QED  BY <1>11, <2>1, <2>2
<1>13. FlowsOK'
  BY <1>12 DEF FlowsOK
<1>14. \A c : DueInTurn(c)' => DueInTurn(c)
  <2>1. PICK k : k = flows'[1] /\ (k = g \/ k = flows[1])
    BY <1>2, <1>5
  <2> QED  BY <1>7, <2>1 DEF DueInTurn, NoneDue
<1> QED  BY <1>13, <1>14 DEF Carries, StoreOK

(* The answer of a call that was resumed: it is due no longer.             *)
LEMMA ResumedCarries ==
    ASSUME Shape, Ids, StoreOK, FlowsOK, flows # <<>>, clock' \in Nat, clock <= clock',
           NEW f, f = Top, f.pc = "tools", f.then # "step",
           NEW m, EventOK(m), Newer(m), m.answers = ById(f.calls),
           NEW v, v = f.view, NEW w, Grown(v, w, {m}), Len(v) < Len(w), w[Len(v) + 1] = m,
           Range(store') = Range(store) \cup {m}, NEW out, Range(out) = Range(f.out) \cup {m},
           NEW g, Become(g), g.agent = f.agent, g.view = w, g.out = out, g.step = f.step,
           g.calls = <<>>, g.pc = f.then
    PROVE  Carries
<1>1. FlowFine(f) /\ IsFlow(f) /\ IsSeq(v) /\ clock \in Nat /\ FlowOK(f) /\ HasUser(v)
  BY TopFine, TopFacts DEF Shape, FlowFine
<1>2. \A e \in Range(store) : e.id \in Nat
  BY <1>1 DEF Ids, Pool
<1>3. PICK S : S = {m}
  OBVIOUS
<1>4. Grown(v, w, S) /\ \A e \in S : EventOK(e) /\ Newer(e) /\ e.by # "user"
  BY <1>3, NewerFacts
<1>5. StoreGrows
  BY <1>1, <1>3, <1>4 DEF StoreGrows, StoreOK
<1>6. HasUser(w) /\ Spoken(w) = Spoken(v) /\ RequestsOf(v) \subseteq RequestsOf(w)
      /\ \A i \in Len(v) + 1 .. Len(w) : w[i].answers \subseteq Consumed(w)
  BY <1>1, <1>4, UserKept
<1>7. m.answers \subseteq Consumed(w)
  <2>1. IsSeq(w)
    BY <1>4 DEF Grown
  <2>2. Len(v) \in Nat /\ Len(w) \in Nat
    BY <1>1, <2>1, SeqFacts
  <2>3. PICK k : k = Len(v) + 1 /\ w[k] = m
    OBVIOUS
  <2>4. k \in Len(v) + 1 .. Len(w)
    BY <2>2, <2>3
  <2> QED  BY <1>6, <2>3, <2>4
<1>8. \A c : Wanting(c, w) => Wanting(c, v)
  BY <1>1, <1>2, <1>4, WantingKept
<1>9. \A c : Due(c, g) => Due(c, f)
  <2>1. \A c : Due(c, g) => Wanting(c, v) /\ c.id \notin ById(f.calls)
    BY <1>7, <1>8 DEF Due, Wanting
  <2> QED  BY <2>1 DEF Due, Running
<1>10. Range(w) \subseteq Range(store')
  <2>1. Range(w) \subseteq Range(v) \cup S
    BY <1>1, <1>4, GrownLater
  <2> QED  BY <1>1, <1>3, <2>1 DEF FlowFine
<1>11. FlowFine(f)'
  BY <1>1, <1>5, FineStays DEF StoreGrows
<1>12. FlowFine(g)'
  <2>1. Newer(m)'
    BY <1>4, <1>5 DEF Newer, StoreGrows
  <2>2. \A e \in Range(g.step) \cup Range(g.out) : EventOK(e) /\ Newer(e)'
    BY <1>11, <2>1 DEF FlowFine
  <2>3. g.agent \in Agents /\ HasUser(g.view) /\ Range(g.view) \subseteq Range(store')
        /\ DOMAIN Spoken(g.view).verdicts \subseteq RequestsOf(g.view)
    BY <1>1, <1>6, <1>10 DEF FlowFine
  <2>4. IsSeq(g.calls) /\ Range(g.calls) = {}
    BY EmptyFacts
  <2> QED  BY <2>2, <2>3, <2>4 DEF FlowFine
<1>13. Past(g) => Past(f)
  BY <1>1 DEF Past, FlowOK
<1> QED  BY <1>5, <1>9, <1>12, <1>13, BecomeCarries

LEMMA RequestsMade ==
    ASSUME Shape, FlowsOK, flows # <<>>, NEW e, NEW id, NEW r \in LoginRequests(e, id) \cup AskRequests(e, id)
    PROVE  r.for \in (1 .. clock) \X Nat
<1>1. \A c \in Range(Top.calls) : c.id \in (1 .. clock) \X Nat
  BY TopFine DEF FlowFine, CallOK
<1>2. PICK c \in Range(Top.calls) : r.for = c.id
  BY DEF LoginRequests, AskRequests
<1> QED  BY <1>1, <1>2

LEMMA TransferTarget ==
    ASSUME Shape, FlowsOK, flows # <<>>, Transfers # <<>>
    PROVE  Target[Last(Transfers).tool] \in Agents
<1>1. PICK calls, S, s : /\ calls = Top.calls /\ S = {c \in Range(calls) : Kind[c.tool] = "transfer"}
                         /\ s = Transfers
  OBVIOUS
<1>2. IsSeq(calls) /\ \A c \in Range(calls) : c.tool \in Tools
  BY <1>1, TopFine DEF FlowFine, CallOK
<1>3. s = Chosen(calls, S)
  BY <1>1 DEF Transfers
<1>4. IsSeq(s) /\ Range(s) \subseteq Range(calls) \cap S
  BY <1>2, <1>3, ChosenFacts
<1>5. Len(s) \in Nat /\ DOMAIN s = 1 .. Len(s) /\ (s = <<>> <=> Len(s) = 0)
  BY <1>4, SeqFacts
<1>6. PICK c : c = Last(s) /\ c \in Range(s)
  BY <1>1, <1>5 DEF Last, Range
<1>7. c.tool \in Tools /\ Kind[c.tool] = "transfer"
  BY <1>1, <1>2, <1>4, <1>6
<1> QED  BY <1>1, <1>6, <1>7, FlowConstants

(* The tools' answers make no call due, wherever they go.                  *)
LEMMA ToolsReturnKeeps == ASSUME Shape, Shape', Ids, ApprovalInv, ToolsReturn PROVE ApprovalInv'
<1>1. flows # <<>> /\ Top.pc = "tools"
  BY DEF ToolsReturn, Active
<1> DEFINE e == Merged(clock + 3)
           request(id, R) == IF R = {} THEN <<>>
               ELSE <<[Blank EXCEPT !.id = id, !.by = Top.agent, !.turn = turn, !.requests = R]>>
           login == request(clock + 1, LoginRequests(e, clock + 1))
           ask == request(clock + 2, AskRequests(e, clock + 2))
           text == [Blank EXCEPT !.id = clock + 4, !.by = Top.agent, !.turn = turn]
           final == IF \A c \in Range(Top.calls) : Kind[c.tool] # "answer" THEN <<>> ELSE <<text>>
           flow == [Top EXCEPT !.ended = @ \/ e.logins # {}, !.results = <<>>, !.calls = <<>>,
                !.step = @ \o login \o ask \o <<e>> \o final]
           s == AppendAll(Top.view, <<e>>)
<1>2. \/ Top.then = "step" /\ Become([flow EXCEPT !.pc = "append"]) /\ UNCHANGED store
      \/ /\ Top.then = "step" /\ Transfers # <<>>
         /\ flows' = Under \o <<[flow EXCEPT !.pc = "nested"],
                     Flow(Target[Last(Transfers).tool], Top.view, Top.creds)>>
         /\ UNCHANGED store
      \/ /\ Top.then # "step" /\ store' = s.store
         /\ Become([Top EXCEPT !.pc = Top.then, !.view = s.view, !.results = <<>>,
                               !.calls = <<>>, !.out = Append(@, e)])
  BY DEF ToolsReturn
<1>3. PICK f, a, b, m, d, x, y : /\ f = Top /\ a = login /\ b = ask /\ m = e /\ d = final
                                 /\ x = [Blank EXCEPT !.id = clock + 1, !.by = f.agent, !.turn = turn,
                                            !.requests = LoginRequests(e, clock + 1)]
                                 /\ y = [Blank EXCEPT !.id = clock + 2, !.by = f.agent, !.turn = turn,
                                            !.requests = AskRequests(e, clock + 2)]
  OBVIOUS
<1>4. PICK z : z = text
  OBVIOUS
<1>5. a \in {<<>>, <<x>>} /\ b \in {<<>>, <<y>>} /\ d \in {<<>>, <<z>>}
  BY <1>3, <1>4
<1>6. /\ x.id = clock + 1 /\ x.by = f.agent /\ x.calls = <<>> /\ x.requests = LoginRequests(e, clock + 1)
      /\ y.id = clock + 2 /\ y.by = f.agent /\ y.calls = <<>> /\ y.requests = AskRequests(e, clock + 2)
      /\ z.id = clock + 4 /\ z.by = f.agent /\ z.calls = <<>> /\ z.requests = {}
  BY <1>3, <1>4 DEF Blank
<1>7. m.id = clock + 3 /\ m.by = f.agent /\ m.calls = <<>> /\ m.requests = {} /\ m.answers = ById(f.calls)
  BY <1>3 DEF Blank, Merged
<1>8. /\ clock' = clock + 4 /\ UNCHANGED <<tasks, bodies>> /\ clock \in Nat /\ clock' \in Nat /\ clock <= clock'
      /\ StoreOK /\ FlowsOK /\ IsSeq(store)
  <2>1. clock' = clock + 4 /\ UNCHANGED <<tasks, bodies>>
    BY DEF ToolsReturn
  <2>2. clock \in Nat /\ StoreOK /\ FlowsOK /\ IsSeq(store)
    BY DEF Shape, ApprovalInv
  <2> QED  BY <2>1, <2>2
<1>9. FlowFine(f) /\ IsFlow(f) /\ IsSeq(f.view) /\ IsSeq(f.step) /\ IsSeq(f.out)
  BY <1>1, <1>3, <1>8, TopFine
<1>10. PICK New : New = {x, y, m, z}
  OBVIOUS
<1>11. \A q \in New : EventOK(q) /\ Newer(q)
  <2>1. \A r \in x.requests \cup y.requests : r.for \in (1 .. clock) \X Nat
    BY <1>1, <1>6, <1>8, RequestsMade
  <2>2. EventOK(x) /\ Newer(x)
    BY <1>6, <1>8, <1>9, <2>1, MadeOK
  <2>3. EventOK(y) /\ Newer(y)
    BY <1>6, <1>8, <1>9, <2>1, MadeOK
  <2>4. EventOK(z) /\ Newer(z)
    BY <1>6, <1>8, <1>9, MadeOK
  <2>5. EventOK(m) /\ Newer(m)
    BY <1>7, <1>8, <1>9, MadeOK
  <2> QED  BY <1>10, <2>2, <2>3, <2>4, <2>5
<1>12. PICK step : step = f.step \o a \o b \o <<m>> \o d
  OBVIOUS
<1>13. Range(step) \subseteq Range(f.step) \cup New
  <2>1. IsSeq(a) /\ Range(a) \subseteq {x} /\ IsSeq(b) /\ Range(b) \subseteq {y} /\ IsSeq(d) /\ Range(d) \subseteq {z}
    BY <1>5, SingleFacts, EmptyFacts
  <2>2. PICK s1 : s1 = f.step \o a
    OBVIOUS
  <2>3. IsSeq(s1) /\ Range(s1) = Range(f.step) \cup Range(a)
    BY <1>9, <2>1, <2>2, ConcatFacts
  <2>4. PICK s2 : s2 = s1 \o b
    OBVIOUS
  <2>5. IsSeq(s2) /\ Range(s2) = Range(s1) \cup Range(b)
    BY <2>1, <2>3, <2>4, ConcatFacts
  <2>6. PICK s3 : s3 = s2 \o <<m>>
    OBVIOUS
  <2>7. IsSeq(s3) /\ Range(s3) = Range(s2) \cup {m}
    BY <2>5, <2>6, SingleFacts, ConcatFacts
  <2>8. step = s3 \o d
    BY <1>12, <2>2, <2>4, <2>6
  <2>9. Range(step) = Range(s3) \cup Range(d)
    BY <2>1, <2>7, <2>8, ConcatFacts
  <2> QED  BY <1>10, <2>1, <2>3, <2>5, <2>7, <2>9
<1>14. \A q \in Range(step) : EventOK(q) /\ Newer(q)
  BY <1>9, <1>11, <1>13 DEF FlowFine
<1>15. PICK ended, none, w : /\ w = [f EXCEPT !.ended = ended, !.results = <<>>, !.calls = none, !.step = step]
                             /\ w = flow /\ none = <<>>
  BY <1>3, <1>12, ZenonT(60)
<1>16. IsFlow(w) /\ w.view = f.view /\ w.step = step /\ w.out = f.out /\ w.agent = f.agent /\ w.calls = none
  BY <1>9, <1>15, ZenonT(60) DEF IsFlow
<1>17. IsSeq(none) /\ Range(none) = {}
  BY <1>15, EmptyFacts
<1> HIDE DEF e, request, login, ask, text, final, flow, s
<1>18. CASE Top.then = "step" /\ Become([flow EXCEPT !.pc = "append"]) /\ UNCHANGED store
  <2>1. PICK g : g = [w EXCEPT !.pc = "append"] /\ Become(g)
    BY <1>15, <1>18
  <2>2. g.view = f.view /\ g.step = step /\ g.out = f.out /\ g.agent = f.agent /\ g.calls = none
    BY <1>16, <2>1 DEF IsFlow
  <2>3. Past(f) /\ \A c : ~Running(c, f)
    BY <1>1, <1>3, <1>18 DEF Past, Running
  <2>4. IsSeq(g.calls) /\ \A c \in Range(g.calls) : CallOK(c)'
    BY <1>17, <2>2
  <2>5. \A q \in Range(g.step) : EventOK(q) /\ Newer(q)
    BY <1>14, <2>2
  <2>6. Carries
    BY <1>1, <1>3, <1>8, <1>18, <2>1, <2>2, <2>3, <2>4, <2>5, QuietCarries
  <2> QED  BY <1>8, <2>6, SameTasks, CarriesEnough
<1>19. CASE /\ Top.then = "step" /\ Transfers # <<>>
            /\ flows' = Under \o <<[flow EXCEPT !.pc = "nested"],
                   Flow(Target[Last(Transfers).tool], Top.view, Top.creds)>>
            /\ UNCHANGED store
  <2>1. PICK g, h, agent : /\ g = [w EXCEPT !.pc = "nested"] /\ flows' = Under \o <<g, h>>
                           /\ h = Flow(agent, f.view, Top.creds) /\ agent = Target[Last(Transfers).tool]
    BY <1>3, <1>15, <1>19
  <2>2. /\ g.view = f.view /\ g.step = step /\ g.out = f.out /\ g.agent = f.agent /\ g.calls = <<>>
        /\ g.pc = "nested"
    BY <1>15, <1>16, <2>1 DEF IsFlow
  <2>3. h.agent \in Agents
    BY <1>1, <1>8, <1>19, <2>1, TransferTarget DEF Flow
  <2>4. h.view = f.view /\ h.out = <<>> /\ h.step = <<>> /\ h.calls = <<>> /\ h.pc = "auth"
    BY <2>1 DEF Flow
  <2>5. \A q \in Range(g.step) : EventOK(q) /\ Newer(q)
    BY <1>14, <2>2
  <2>6. f = Top /\ f.pc = "tools" /\ f.then = "step" /\ store' = store /\ flows' = Under \o <<g, h>>
    BY <1>1, <1>3, <1>19, <2>1
  <2>7. Carries
    BY <1>1, <1>8, <2>2, <2>3, <2>4, <2>5, <2>6, PushCarries
  <2> QED  BY <1>8, <2>7, SameTasks, CarriesEnough
<1>20. CASE /\ Top.then # "step" /\ store' = s.store
            /\ Become([Top EXCEPT !.pc = Top.then, !.view = s.view, !.results = <<>>,
                                  !.calls = <<>>, !.out = Append(@, e)])
  <2>1. PICK v, events, r, g, o, out, k :
            /\ v = f.view /\ events = <<m>> /\ r = AppendAll(v, events) /\ store' = r.store
            /\ o = f.out /\ out = Append(o, m) /\ k = r.view
            /\ g = [f EXCEPT !.pc = f.then, !.view = k, !.results = <<>>, !.calls = none, !.out = out]
            /\ Become(g)
    BY <1>3, <1>15, <1>20 DEF s
  <2>2. g.view = k /\ g.step = f.step /\ g.out = out /\ g.agent = f.agent /\ g.calls = none /\ g.pc = f.then
    BY <1>9, <2>1 DEF IsFlow
  <2>3. IsSeq(v) /\ IsSeq(events) /\ Range(events) = {m}
    BY <1>9, <2>1, SingleFacts
  <2>4. Range(r.store) = Range(store) \cup Range(events) /\ Grown(v, r.view, Range(events))
    BY <1>8, <2>1, <2>3, AppendAllFacts, ZenonT(60)
  <2>5. Len(v) < Len(r.view) /\ r.view[Len(v) + 1] = m
    <3>1. events # <<>> /\ events[1] = m
      BY <2>1
    <3>2. events[1] \notin Range(store)
      <4>1. \A q \in Range(store) : q.id \in 1 .. clock
        BY DEF Ids, Pool
      <4> QED  BY <1>7, <1>8, <3>1, <4>1
    <3>3. Len(v) < Len(r.view) /\ r.view[Len(v) + 1] = events[1]
      BY <1>8, <2>1, <2>3, <3>1, <3>2, AppendAllFacts, ZenonT(60)
    <3> QED  BY <3>1, <3>3
  <2>6. Range(out) = Range(o) \cup {m}
    <3>1. IsSeq(o)
      BY <1>9, <2>1
    <3>2. out = Append(o, m)
      BY <2>1
    <3> QED  BY <3>1, <3>2, AppendFacts
  <2>7. /\ Grown(v, k, {m}) /\ Len(v) < Len(k) /\ k[Len(v) + 1] = m
        /\ Range(store') = Range(store) \cup {m} /\ Range(out) = Range(f.out) \cup {m}
    BY <2>1, <2>3, <2>4, <2>5, <2>6
  <2>8. EventOK(m) /\ Newer(m) /\ m.answers = ById(f.calls)
    BY <1>7, <1>10, <1>11
  <2>9. v = f.view /\ Become(g) /\ g.calls = <<>>
    BY <1>15, <2>1, <2>2
  <2>10. f.then # "step" /\ f.pc = "tools"
    BY <1>1, <1>3, <1>20
  <2>11. Carries
    BY <1>1, <1>3, <1>8, <2>2, <2>7, <2>8, <2>9, <2>10, ResumedCarries
  <2> QED  BY <1>8, <2>11, SameTasks, CarriesEnough
<1> QED  BY <1>2, <1>18, <1>19, <1>20

LEMMA FiniteCalls ==
    ASSUME NEW v, IsSeq(v), \A e \in Range(v) : IsSeq(e.calls)
    PROVE  IsFiniteSet(CallsOf(v))
<1> DEFINE calls == [e \in Range(v) |-> Range(e.calls)]
           S == {calls[e] : e \in Range(v)}
<1>1. IsFiniteSet(S)
  <2>1. IsFiniteSet(Range(v))
    BY FiniteSequence
  <2> HIDE DEF calls
  <2> QED  BY <2>1, FiniteRange
<1>2. \A T \in S : IsFiniteSet(T)
  BY FiniteSequence
<1>3. IsFiniteSet(UNION S)
  <2> HIDE DEF S
  <2> QED  BY <1>1, <1>2, FS_UNION
<1>4. CallsOf(v) = UNION S
  BY DEF CallsOf
<1> QED  BY <1>3, <1>4

(* What the processor of approvals finds.                                  *)
LEMMA ConfirmedFacts ==
    ASSUME NEW f, NEW x \in Confirmed(f)
    PROVE  /\ x.call \in CallsOf(f.view) /\ x.call.id \notin Consumed(f.view)
           /\ \E r \in DOMAIN Verdicts(f.view) : r.for = x.call.id /\ Verdicts(f.view)[r] = x.verdict
<1>1. PICK V, R : V = Verdicts(f.view) /\ R = RequestsOf(f.view)
  OBVIOUS
<1>2. PICK c, r : /\ \E e \in Range(f.view) : c \in Range(e.calls)
                  /\ c.id \notin Consumed(f.view) /\ r \in DOMAIN V /\ r.for = c.id
                  /\ x = [call |-> c, verdict |-> V[r]]
  BY <1>1 DEF Confirmed
<1>3. x.call = c /\ x.verdict = V[r]
  BY <1>2
<1>4. c \in CallsOf(f.view)
  BY <1>2 DEF CallsOf
<1> QED  BY <1>1, <1>2, <1>3, <1>4

LEMMA WantedFound ==
    ASSUME StoreOK, NEW f, FlowFine(f), f.agent = Root, NEW c, Wanting(c, f.view)
    PROVE  \E x \in Confirmed(f) : x.call = c
<1>1. PICK e \in Range(f.view) : c \in Range(e.calls)
  BY DEF Wanting, CallsOf
<1>2. e.by = f.agent
  BY <1>1 DEF Wanting, FlowFine, StoreOK, EventOK
<1>3. PICK V, r : V = Verdicts(f.view) /\ r \in DOMAIN V /\ r.for = c.id
  BY DEF Wanting, Approved
<1>4. r \in RequestsOf(f.view)
  BY <1>3 DEF Verdicts, FlowFine, Spoken
<1>5. PICK x : x = [call |-> c, verdict |-> V[r]]
  OBVIOUS
<1>6. Kind[c.tool] = "guarded" /\ c.id \notin Consumed(f.view)
  BY DEF Wanting
<1>7. x \in Confirmed(f)
  BY <1>1, <1>2, <1>3, <1>4, <1>5, <1>6 DEF Confirmed
<1>8. x.call = c
  BY <1>5
<1> QED  BY <1>7, <1>8

(* One more task of a call that was due, or none.                          *)
LEMMA OneBegun ==
    ASSUME NEW c, Within(c), RunsOf(c)' = RunsOf(c), Approvals(c)' = Approvals(c),
           IsFiniteSet(Approvals(c)), NEW t,
           \/ ToRun(c)' = ToRun(c) /\ (DueInTurn(c)' => DueInTurn(c))
           \/ ToRun(c)' = ToRun(c) \cup {t} /\ DueInTurn(c) /\ ~DueInTurn(c)'
    PROVE  Within(c)'
<1>1. PICK R, Q, P, A : R = RunsOf(c) /\ Q = ToRun(c) /\ P = ToRun(c)' /\ A = Approvals(c)
  OBVIOUS
<1>2. IsFiniteSet(R) /\ IsFiniteSet(Q) /\ IsFiniteSet(A) /\ Cardinality(R) + Cardinality(Q) <= Cardinality(A)
  BY <1>1 DEF Within, Begun
<1>3. Cardinality(R) \in Nat /\ Cardinality(Q) \in Nat /\ Cardinality(A) \in Nat
  BY <1>2, FS_CardinalityType
<1>4. CASE ToRun(c)' = ToRun(c) /\ (DueInTurn(c)' => DueInTurn(c))
  BY <1>4 DEF Within, Begun
<1>5. CASE ToRun(c)' = ToRun(c) \cup {t} /\ DueInTurn(c) /\ ~DueInTurn(c)'
  <2>1. P = Q \cup {t}
    BY <1>1, <1>5
  <2>2. IsFiniteSet(P) /\ Cardinality(P) <= Cardinality(Q) + 1
    <3>1. IsFiniteSet(Q \cup {t})
          /\ (Cardinality(Q \cup {t}) = Cardinality(Q) \/ Cardinality(Q \cup {t}) = Cardinality(Q) + 1)
      BY <1>2, FS_AddElement
    <3> QED  BY <1>3, <2>1, <3>1
  <2>3. Cardinality(P) \in Nat
    BY <2>2, FS_CardinalityType
  <2>4. Cardinality(R) + Cardinality(Q) + 1 <= Cardinality(A)
    BY <1>1, <1>5 DEF Within, Begun
  <2>5. Cardinality(R) + Cardinality(P) <= Cardinality(A)
    BY <1>3, <2>2, <2>3, <2>4
  <2> QED  BY <1>1, <1>2, <1>5, <2>2, <2>5 DEF Within, Begun
<1> QED  BY <1>4, <1>5

LEMMA ProcessConfirmationsKeeps ==
    ASSUME Shape, Shape', Ids, ApprovalInv, ProcessConfirmations
    PROVE  ApprovalInv'
<1>1. flows # <<>> /\ Top.pc = "confirm"
  BY DEF ProcessConfirmations, Active
<1>2. PICK f, found, C, calls, ids : f = Top /\ found = Confirmed(f) /\ C = {x.call : x \in found}
                                /\ calls = SetToSeq(C) /\ ids = ById(calls)
  OBVIOUS
<1>3. PICK verdicts : verdicts = [i \in ids |-> (CHOOSE x \in found : x.call.id = i).verdict]
  OBVIOUS
<1>4. /\ UNCHANGED <<store, bodies>>
      /\ IF found = {} THEN Become([f EXCEPT !.pc = "model"]) /\ UNCHANGED <<tasks, clock>>
         ELSE Execute(f, calls, verdicts, "model")
  BY <1>2, <1>3 DEF ProcessConfirmations
<1>5. clock \in Nat /\ StoreOK /\ FlowsOK /\ Bounded /\ IsSeq(store)
  BY DEF Shape, ApprovalInv
<1>6. FlowFine(f) /\ Placed(Len(flows), f) /\ IsFlow(f) /\ IsSeq(f.view)
  BY <1>1, <1>2, <1>5, TopFine
<1>7. \A c : ~Running(c, f)
  BY <1>1, <1>2 DEF Running
<1>8. ASSUME NEW c, Wanting(c, f.view) PROVE c \in C /\ Len(flows) = 1
  <2>1. Due(c, f)
    BY <1>7, <1>8 DEF Due
  <2>2. Len(flows) = 1 /\ f.agent = Root
    <3>1. PICK n : n = Len(flows)
      OBVIOUS
    <3>2. n \in Nat \ {0} /\ Placed(n, f)
      BY <1>1, <1>6, <3>1, TopFacts
    <3>3. n = 1
      BY <2>1, <3>2 DEF Placed, NoneDue
    <3> QED  BY <3>1, <3>2, <3>3 DEF Placed
  <2>3. \E x \in Confirmed(f) : x.call = c
    BY <1>5, <1>6, <1>8, <2>2, WantedFound
  <2> QED  BY <1>2, <2>2, <2>3
<1>9. CASE found = {}
  <2>1. PICK g : g = [f EXCEPT !.pc = "model"] /\ Become(g) /\ UNCHANGED <<tasks, clock>>
    BY <1>4, <1>9
  <2>2. /\ g.agent = f.agent /\ g.view = f.view /\ g.out = f.out /\ g.calls = f.calls /\ g.step = f.step
        /\ g.pc = "model"
    BY <1>6, <2>1 DEF IsFlow
  <2>3. NoneDue(g)
    BY <1>2, <1>8, <1>9, <2>2 DEF NoneDue, Due
  <2>4. IsSeq(g.calls) /\ \A c \in Range(g.calls) : CallOK(c)'
    BY <1>6, <2>1, <2>2 DEF FlowFine, CallOK
  <2>5. clock' \in Nat /\ clock <= clock' /\ store' = store
    BY <1>4, <1>5, <2>1
  <2>6. Carries
    BY <1>1, <1>2, <1>5, <1>7, <2>1, <2>2, <2>3, <2>4, <2>5, QuietCarries
  <2> QED  BY <1>4, <2>1, <2>6, SameTasks, CarriesEnough
<1>10. CASE found # {}
  <2>1. Execute(f, calls, verdicts, "model") /\ store' = store /\ bodies' = bodies
    BY <1>4, <1>10
  <2>2. \A e \in Range(f.view) : IsSeq(e.calls) /\ \A c \in Range(e.calls) : CallOK(c)
    BY <1>5, <1>6, StoredCalls DEF FlowFine
  <2>3. C \subseteq CallsOf(f.view)
    BY <1>2, ConfirmedFacts
  <2>4. IsSeq(calls) /\ Range(calls) = C
    <3>1. PICK v : v = f.view
      OBVIOUS
    <3>2. IsFiniteSet(CallsOf(v))
      BY <1>6, <2>2, <3>1, FiniteCalls
    <3>3. IsFiniteSet(C)
      BY <2>3, <3>1, <3>2, FS_Subset
    <3> QED  BY <1>2, <3>3, SetToSeqFacts
  <2>5. clock' = clock + 1 /\ clock' \in Nat /\ clock <= clock'
    BY <1>5, <2>1 DEF Execute
  <2>6. \A c \in Range(calls) : CallOK(c)'
    <3>1. \A c \in C : CallOK(c)
      BY <2>2, <2>3 DEF CallsOf
    <3> QED  BY <1>5, <2>4, <2>5, <3>1, CallLater
  <2>7. \A c : Wanting(c, f.view) => c.id \in ById(calls)
    <3>1. \A c \in Range(calls) : c.id \in ById(calls)
      BY DEF ById, Range
    <3> QED  BY <1>8, <2>4, <3>1
  <2>8. f.pc # "tools" /\ \A e \in Range(f.step) : e \in Range(f.step) \/ (EventOK(e) /\ Newer(e))
    BY <1>1, <1>2
  <2>9. Carries
    BY <1>1, <1>2, <1>5, <1>6, <2>1, <2>4, <2>6, <2>7, <2>8, ExecuteCarries
  <2>10. PICK g : /\ g = [f EXCEPT !.pc = "tools", !.batch = clock + 1, !.calls = calls,
                                   !.results = <<>>, !.then = "model"]
                  /\ Become(g)
    BY <2>1 DEF Execute
  <2>11. g.view = f.view /\ g.pc = "tools" /\ g.calls = calls /\ g.then = "model"
    BY <1>6, <2>10 DEF IsFlow
  <2>12. ASSUME NEW c, Kind[c.tool] = "guarded", Within(c) PROVE Within(c)'
    <3>1. PICK t : t = [batch |-> clock + 1, call |-> c, login |-> c.tool \in f.creds,
                        verdict |-> IF c.id \in DOMAIN verdicts THEN verdicts[c.id] ELSE "none"]
      OBVIOUS
    <3>2. \A u \in tasks' : u \in tasks \/ (u.call = c => u = t /\ c \in C)
      BY <2>1, <2>4, <3>1 DEF Execute
    <3>3. tasks \subseteq tasks'
      BY <2>1 DEF Execute
    <3>4. t.call = c
      BY <3>1
    <3>5. RunsOf(c)' = RunsOf(c) /\ Approvals(c)' = Approvals(c)
      BY <2>1 DEF RunsOf, Approvals
    <3>6. IsFiniteSet(Approvals(c))
      <4>1. IsFiniteSet(Range(store))
        BY <1>5, FiniteSequence
      <4> QED  BY <4>1, FS_Subset DEF Approvals
    <3>7. CASE ToRun(c)' = ToRun(c)
      <4>1. DueInTurn(c)' => DueInTurn(c)
        BY <2>9 DEF Carries
      <4> QED  BY <2>12, <3>5, <3>6, <3>7, <4>1, OneBegun
    <3>8. CASE ToRun(c)' # ToRun(c)
      <4>1. t.verdict = "yes" /\ c \in C /\ ToRun(c)' = ToRun(c) \cup {t}
        BY <3>2, <3>3, <3>4, <3>8 DEF ToRun
      <4>2. c.id \in ids
        BY <1>2, <2>4, <4>1 DEF ById, Range
      <4>3. verdicts[c.id] = "yes"
        BY <1>3, <3>1, <4>1, <4>2
      <4>4. PICK id : id = c.id
        OBVIOUS
      <4>5. PICK x : x = (CHOOSE y \in found : y.call.id = id) /\ x.verdict = "yes"
        BY <1>3, <4>2, <4>3, <4>4
      <4>6. \E y \in found : y.call.id = id
        BY <1>2, <4>1, <4>4
      <4>7. x \in found /\ x.call.id = id
        BY <4>5, <4>6
      <4>8. Approved(id, f.view)
        BY <1>2, <4>5, <4>7, ConfirmedFacts DEF Approved
      <4>9. c \in CallsOf(f.view) /\ c.id \notin Consumed(f.view)
        BY <1>2, <4>1, ConfirmedFacts
      <4>10. Wanting(c, f.view)
        BY <2>12, <4>4, <4>8, <4>9 DEF Wanting
      <4>11. f = flows[1] /\ flows'[1] = g /\ flows' # <<>>
        BY <1>1, <1>2, <1>8, <2>10, <4>10, TopFacts, BecomeFacts
      <4>12. DueInTurn(c)
        BY <1>1, <1>7, <4>10, <4>11 DEF DueInTurn, Due
      <4>13. ~Due(c, g)
        BY <2>7, <2>11, <4>10 DEF Due, Running
      <4>14. ~DueInTurn(c)'
        BY <4>11, <4>13 DEF DueInTurn
      <4> QED  BY <2>12, <3>5, <3>6, <4>1, <4>12, <4>14, OneBegun
    <3> QED  BY <3>7, <3>8
  <2>13. Bounded'
    BY <1>5, <2>1, <2>12 DEF Bounded
  <2> QED  BY <2>9, <2>13 DEF ApprovalInv, Carries
<1> QED  BY <1>9, <1>10

(* The user's approval makes a call due, and counts one more.              *)
LEMMA StartTurnKeeps ==
    ASSUME Shape, Shape', Ids, ApprovalInv, NEW R \in SUBSET RequestsOf(store),
           NEW v \in [R -> {"yes", "no"}], StartTurn(v)
    PROVE  ApprovalInv'
<1>1. PICK e, s, t, h : /\ e = [Blank EXCEPT !.id = clock + 1, !.turn = turn + 1, !.verdicts = v]
                        /\ s = store /\ t = Append(s, e) /\ h = Flow(Root, t, {})
  OBVIOUS
<1>2. e.id = clock + 1 /\ e.by = "user" /\ e.calls = <<>> /\ e.requests = {} /\ e.verdicts = v
  BY <1>1 DEF Blank
<1>3. store' = t /\ flows' = <<h>> /\ flows = <<>> /\ UNCHANGED <<tasks, bodies>>
  BY <1>1 DEF StartTurn
<1>4. clock \in Nat /\ IsSeq(s) /\ StoreOK /\ Bounded
  BY <1>1 DEF Shape, ApprovalInv
<1>5. \A d \in Range(s) : d.id \in 1 .. clock /\ EventOK(d)
  BY <1>1, <1>4 DEF Ids, Pool, StoreOK
<1>6. e \notin Range(s)
  BY <1>2, <1>4, <1>5
<1>7. IsSeq(t) /\ Range(t) = Range(s) \cup {e}
  BY <1>1, <1>4, AppendFacts, ZenonT(60)
<1>8. Len(t) = Len(s) + 1
  BY <1>1, <1>4, AppendFacts
<1>9. t[Len(s) + 1] = e
  BY <1>1, <1>4, AppendFacts
<1>10. ASSUME NEW r \in R PROVE r.for \in (1 .. clock) \X Nat
  <2>1. PICK d \in Range(s) : r \in d.requests
    BY <1>1 DEF RequestsOf
  <2>2. r.for \in (1 .. d.id) \X Nat /\ d.id \in 1 .. clock
    BY <1>5, <2>1 DEF EventOK
  <2>3. 1 .. d.id \subseteq 1 .. clock
    BY <1>4, <2>2
  <2> QED  BY <2>2, <2>3
<1>11. EventOK(e)
  <2>1. IsSeq(e.calls) /\ Range(e.calls) = {}
    BY <1>2, EmptyFacts
  <2>2. DOMAIN e.verdicts = R /\ e.id - 1 = clock
    BY <1>2, <1>4
  <2> QED  BY <1>2, <1>10, <2>1, <2>2 DEF EventOK
<1>12. StoreOK'
  BY <1>3, <1>5, <1>7, <1>11 DEF StoreOK
<1>13. HasUser(t) /\ Spoken(t) = e
  <2>1. Len(s) \in Nat /\ DOMAIN t = 1 .. Len(t)
    BY <1>4, <1>7, SeqFacts
  <2>2. Len(s) + 1 \in DOMAIN t
    BY <1>8, <2>1
  <2>3. HasUser(t)
    BY <1>2, <1>9, <2>2 DEF HasUser
  <2>4. LastByUser(t) \in DOMAIN t /\ \A i \in DOMAIN t : t[i].by = "user" => i <= LastByUser(t)
    BY <1>7, <2>3, UserPlace
  <2>5. LastByUser(t) = Len(s) + 1
    BY <1>2, <1>8, <1>9, <2>1, <2>2, <2>4
  <2> QED  BY <1>9, <2>3, <2>5 DEF Spoken
<1>14. h.agent = Root /\ h.view = t /\ h.pc = "auth" /\ h.step = <<>> /\ h.out = <<>> /\ h.calls = <<>>
  BY <1>1 DEF Flow
<1>15. FlowFine(h)'
  <2>1. DOMAIN Spoken(t).verdicts \subseteq RequestsOf(t)
    <3>1. DOMAIN Spoken(t).verdicts = R
      BY <1>2, <1>13
    <3>2. RequestsOf(store) \subseteq RequestsOf(t)
      BY <1>1, <1>7 DEF RequestsOf
    <3> QED  BY <3>1, <3>2
  <2> QED  BY <1>3, <1>7, <1>13, <1>14, <2>1, EmptyFacts, FlowConstants DEF FlowFine
<1>16. Placed(1, h)
  BY <1>14 DEF Placed, Past
<1>17. DOMAIN flows' = {1} /\ flows'[1] = h /\ Len(flows') = 1 /\ flows' # <<>>
  BY <1>3, SingleFacts
<1>18. FlowsOK'
  <2>1. PICK k : k = flows'[1] /\ FlowFine(k)' /\ Placed(1, k)
    BY <1>15, <1>16, <1>17
  <2> QED  BY <1>17, <2>1 DEF FlowsOK
<1>19. ASSUME NEW c, Kind[c.tool] = "guarded" PROVE Within(c)'
  <2>1. Within(c) /\ RunsOf(c)' = RunsOf(c) /\ ToRun(c)' = ToRun(c)
    BY <1>3, <1>4, <1>19 DEF Bounded, RunsOf, ToRun
  <2>2. PICK A, B : A = Approvals(c) /\ B = Approvals(c)'
    OBVIOUS
  <2>3. IsFiniteSet(A) /\ Cardinality(A) \in Nat
    <3>1. IsFiniteSet(Range(s))
      BY <1>4, FiniteSequence
    <3>2. IsFiniteSet(A)
      BY <1>1, <2>2, <3>1, FS_Subset DEF Approvals
    <3> QED  BY <3>2, FS_CardinalityType
  <2>4. Begun(c) \in Nat /\ Begun(c)' = Begun(c) /\ Begun(c) <= Cardinality(A)
    <3>1. Cardinality(RunsOf(c)) \in Nat /\ Cardinality(ToRun(c)) \in Nat
      BY <2>1, FS_CardinalityType DEF Within
    <3> QED  BY <2>1, <2>2, <3>1 DEF Begun, Within
  <2>5. CASE Approving(c.id, e)
    <3>1. B = A \cup {e} /\ e \notin A
      BY <1>1, <1>3, <1>6, <1>7, <2>2, <2>5 DEF Approvals
    <3>2. Cardinality(B) = Cardinality(A) + 1
      BY <2>3, <3>1, FS_AddElement
    <3>3. Begun(c) <= Cardinality(B) /\ Begun(c) + 1 <= Cardinality(B)
      BY <2>3, <2>4, <3>2
    <3> QED  BY <2>1, <2>2, <2>4, <3>3 DEF Within
  <2>6. CASE ~Approving(c.id, e)
    <3>1. B = A
      BY <1>1, <1>3, <1>7, <2>2, <2>6 DEF Approvals
    <3>2. ~Due(c, h)
      <4>1. ASSUME NEW r \in DOMAIN Verdicts(t), r.for = c.id, Verdicts(t)[r] = "yes" PROVE FALSE
        <5>1. r \in DOMAIN e.verdicts /\ Verdicts(t)[r] = e.verdicts[r]
          BY <1>13, <4>1 DEF Verdicts, Spoken
        <5> QED  BY <2>6, <4>1, <5>1 DEF Approving
      <4> QED  BY <1>14, <4>1 DEF Due, Wanting, Approved
    <3>3. ~DueInTurn(c)'
      BY <1>17, <3>2 DEF DueInTurn
    <3> QED  BY <2>1, <2>2, <2>4, <3>1, <3>3 DEF Within
  <2> QED  BY <2>5, <2>6
<1>20. Bounded'
  BY <1>3, <1>4, <1>19 DEF Bounded
<1> QED  BY <1>12, <1>18, <1>20 DEF ApprovalInv

-----------------------------------------------------------------------------
(* The invariant of approvals.                                             *)

LEMMA ApprovalInvInit == Init => ApprovalInv
<1> SUFFICES ASSUME Init PROVE ApprovalInv
  OBVIOUS
<1>1. store = <<>> /\ flows = <<>> /\ tasks = {} /\ bodies = <<>>
  BY DEF Init
<1>2. Range(store) = {} /\ DOMAIN flows = {} /\ DOMAIN bodies = {} /\ IsSeq(bodies)
  BY <1>1, EmptyFacts
<1>3. StoreOK /\ FlowsOK
  BY <1>2 DEF StoreOK, FlowsOK
<1>4. ASSUME NEW c PROVE Within(c)
  <2>1. RunsOf(c) = {} /\ ToRun(c) = {} /\ Approvals(c) = {} /\ ~DueInTurn(c)
    BY <1>1, <1>2 DEF RunsOf, ToRun, Approvals, DueInTurn
  <2>2. IsFiniteSet({}) /\ Cardinality({}) = 0
    BY FS_EmptySet
  <2> QED  BY <2>1, <2>2 DEF Within, Begun
<1> QED  BY <1>2, <1>3, <1>4 DEF ApprovalInv, Bounded

LEMMA ApprovalInvNext ==
    ASSUME GuardedAtRoot, TurnInv, TurnInv', ApprovalInv, [Next]_vars
    PROVE  ApprovalInv'
<1>1. Shape /\ Shape' /\ Ids
  BY DEF TurnInv
<1>2. CASE UserSays
  <2>1. PICK R \in SUBSET RequestsOf(store) : \E v \in [R -> {"yes", "no"}] : StartTurn(v)
    BY <1>2 DEF UserSays
  <2>2. PICK v \in [R -> {"yes", "no"}] : StartTurn(v)
    BY <2>1
  <2> QED  BY <1>1, <2>2, StartTurnKeeps
<1>3. CASE \E t \in tasks, ok \in BOOLEAN : RunTool(t, ok)
  BY <1>1, <1>3, RunToolKeeps
<1>4. CASE flows # <<>> /\ FlowStep
  <2>1. CASE ModelFails \/ ToolsFail
    <3>1. Fail
      BY <2>1 DEF ModelFails, ToolsFail
    <3> QED  BY <1>1, <3>1, FailKeeps
  <2>2. CASE \E reply \in Replies[Top.agent] : CallModel(reply)
    BY <1>1, <2>2, CallModelKeeps
  <2>3. CASE ProcessAuth
    BY <1>1, <2>3, ProcessAuthKeeps
  <2>4. CASE ProcessConfirmations
    BY <1>1, <2>4, ProcessConfirmationsKeeps
  <2>5. CASE EmptyStep
    BY <1>1, <2>5, EmptyStepKeeps
  <2>6. CASE ToolsReturn
    BY <1>1, <2>6, ToolsReturnKeeps
  <2>7. CASE AppendStep
    BY <1>1, <2>7, AppendStepKeeps
  <2>8. CASE ReturnNested
    BY <1>1, <2>8, ReturnNestedKeeps
  <2>9. CASE EndTurn
    BY <1>1, <2>9, EndTurnKeeps
  <2> QED  BY <1>4, <2>1, <2>2, <2>3, <2>4, <2>5, <2>6, <2>7, <2>8, <2>9 DEF FlowStep
<1>5. CASE UNCHANGED vars
  <2>1. UNCHANGED <<store, flows, tasks, clock, bodies>>
    BY <1>5 DEF vars
  <2>2. Carries
    BY <2>1 DEF Carries, StoreOK, FlowsOK, FlowFine, CallOK, Newer, DueInTurn, ApprovalInv
  <2> QED  BY <1>1, <2>1, <2>2, SameTasks, CarriesEnough
<1> QED  BY <1>2, <1>3, <1>4, <1>5 DEF Next

(* No guarded function ran, or is about to run, more often than approved.  *)
THEOREM ApprovalInvariant == ASSUME GuardedAtRoot PROVE Spec => []ApprovalInv
<1>1. TurnInv /\ TurnInv' /\ ApprovalInv /\ [Next]_vars => ApprovalInv'
  BY ApprovalInvNext
<1> QED  BY <1>1, ApprovalInvInit, TurnInvariant, PTL DEF Spec

-----------------------------------------------------------------------------

(* Where only the root agent asks for tools that need approval, their       *)
(* functions run for a call at most once for each time the user approved    *)
(* it, never unapproved, whatever is resumed, transferred, failed or asked  *)
(* again on the way: the answer of the call that ran is in the flow's copy  *)
(* before the processor of approvals looks again, and every flow that is    *)
(* transferred to starts from a copy that has it (request_confirmation.rs,  *)
(* function_tool.rs).  Without the hypothesis the property does not hold.   *)
THEOREM ApprovedOnce == ASSUME GuardedAtRoot PROVE Spec => []OncePerApproval
<1>1. ApprovalInv /\ TurnInv => OncePerApproval
  <2> SUFFICES ASSUME ApprovalInv, TurnInv, NEW c \in CallsOf(store), Kind[c.tool] = "guarded"
               PROVE  Cardinality({i \in DOMAIN bodies : Body(i) = c})
                          <= Cardinality({e \in Range(store) : Approving(c.id, e)})
    BY DEF OncePerApproval
  <2>1. Within(c)
    BY DEF ApprovalInv, Bounded
  <2>2. Cardinality(RunsOf(c)) \in Nat /\ Cardinality(ToRun(c)) \in Nat
    BY <2>1, FS_CardinalityType DEF Within
  <2>3. IsFiniteSet(Approvals(c))
    <3>1. IsFiniteSet(Range(store))
      BY FiniteSequence DEF TurnInv, Shape
    <3> QED  BY <3>1, FS_Subset DEF Approvals
  <2>4. Cardinality(Approvals(c)) \in Nat
    BY <2>3, FS_CardinalityType
  <2>5. Cardinality(RunsOf(c)) <= Cardinality(Approvals(c))
    BY <2>1, <2>2, <2>4 DEF Within, Begun
  <2>6. {i \in DOMAIN bodies : Body(i) = c} = RunsOf(c)
    BY DEF RunsOf, Body
  <2> QED  BY <2>5, <2>6 DEF Approvals
<1>2. Spec => []ApprovalInv
  BY ApprovalInvariant
<1> QED  BY <1>1, <1>2, TurnInvariant, PTL
=============================================================================
