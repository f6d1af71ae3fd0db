----------------------------- MODULE AgentsProofs -----------------------------
(***************************************************************************)
(* Proofs about the composite agents (sequential_agent.rs, loop_agent.rs,  *)
(* parallel_agent.rs): which frames are under way and what each holds      *)
(* (Inductive), that an end marker tells the truth, that an agent sees the *)
(* state every agent before it has left, what the log and a resumption say *)
(* of every agent (Lasts), that nothing settled is repeated, and that no   *)
(* loop makes more passes than it may (Counts).  For every tree of agents, *)
(* whatever its depth, and any number of turns.                            *)
(***************************************************************************)
EXTENDS AgentsProps, DataTheorems

-----------------------------------------------------------------------------
(* The tree.  Descendants(a) is the least set that has the sub-agents of a *)
(* and of its own members.                                                 *)

SubTree(a) == {a} \cup Descendants(a)

LEMMA SubAgentFacts ==
    ASSUME NEW c \in Composites
    PROVE  /\ IsSeq(SubAgents[c]) /\ SubAgents[c] # <<>> /\ Len(SubAgents[c]) \in Nat \ {0}
           /\ DOMAIN SubAgents[c] = 1 .. Len(SubAgents[c])
           /\ Range(SubAgents[c]) \subseteq AgentNames
           /\ \A i \in DOMAIN SubAgents[c] : SubAgents[c][i] \in Range(SubAgents[c])
           /\ \A i, j \in DOMAIN SubAgents[c] : SubAgents[c][i] = SubAgents[c][j] => i = j
<1>1. SubAgents[c] \in Seq(AgentNames) /\ SubAgents[c] # <<>> /\ IsInjective(SubAgents[c])
  BY AgentTree
<1>2. IsSeq(SubAgents[c])
  BY <1>1 DEF IsSeq
<1>3. Len(SubAgents[c]) \in Nat \ {0} /\ DOMAIN SubAgents[c] = 1 .. Len(SubAgents[c])
  BY <1>1, <1>2, SeqFacts
<1>4. Range(SubAgents[c]) \subseteq AgentNames
  BY <1>1, <1>3 DEF Range
<1> QED  BY <1>1, <1>2, <1>3, <1>4 DEF Range, IsInjective

LEMMA Children ==
    ASSUME NEW c \in Composites, NEW x \in Range(SubAgents[c])
    PROVE  x \in AgentNames /\ x \in Descendants(c)
<1>1. x \in AgentNames /\ c \in AgentNames
  BY SubAgentFacts DEF AgentNames
<1>2. ASSUME NEW S \in SUBSET AgentNames, Below({c} \cup S) \subseteq S PROVE x \in S
  BY <1>2 DEF Below
<1> QED  BY <1>1, <1>2 DEF Descendants, DescendantsOf

LEMMA Deeper ==
    ASSUME NEW a \in AgentNames, NEW d \in Descendants(a) \cap Composites, NEW x \in Range(SubAgents[d])
    PROVE  x \in Descendants(a)
<1>1. x \in AgentNames
  BY SubAgentFacts
<1>2. ASSUME NEW S \in SUBSET AgentNames, Below({a} \cup S) \subseteq S PROVE x \in S
  <2>1. d \in S
    BY <1>2 DEF Descendants, DescendantsOf
  <2> QED  BY <1>2, <2>1 DEF Below
<1> QED  BY <1>1, <1>2 DEF Descendants, DescendantsOf

LEMMA LeastBelow ==
    ASSUME NEW a \in AgentNames, NEW S \in SUBSET AgentNames, Below({a} \cup S) \subseteq S
    PROVE  Descendants(a) \subseteq S
BY DEF Descendants, DescendantsOf

LEMMA DescendantsAreAgents ==
    ASSUME NEW a \in AgentNames
    PROVE  Descendants(a) \subseteq AgentNames /\ SubTree(a) \subseteq AgentNames /\ a \in SubTree(a)
BY DEF Descendants, DescendantsOf, SubTree

LEMMA BelowIs ==
    ASSUME NEW T, NEW S, \A c \in T \cap Composites : Range(SubAgents[c]) \subseteq S
    PROVE  Below(T) \subseteq S
BY DEF Below

LEMMA DescendantsOfDescendants ==
    ASSUME NEW a \in AgentNames, NEW d \in Descendants(a)
    PROVE  Descendants(d) \subseteq Descendants(a)
<1>1. d \in AgentNames /\ Descendants(a) \in SUBSET AgentNames
  BY DescendantsAreAgents
<1>2. \A c \in ({d} \cup Descendants(a)) \cap Composites : Range(SubAgents[c]) \subseteq Descendants(a)
  BY Deeper
<1>3. Below({d} \cup Descendants(a)) \subseteq Descendants(a)
  BY <1>2, BelowIs
<1> QED  BY <1>1, <1>3, LeastBelow

LEMMA LeavesHaveNone ==
    ASSUME NEW l \in Leaves
    PROVE  Descendants(l) = {} /\ SubTree(l) = {l}
<1>1. l \notin Composites /\ l \in AgentNames
  BY AgentTree DEF AgentNames
<1>2. Below({l} \cup {}) \subseteq {}
  BY <1>1 DEF Below
<1>3. Descendants(l) \subseteq {}
  BY <1>1, <1>2, LeastBelow
<1> QED  BY <1>3 DEF SubTree

LEMMA DescendantsByChild ==
    ASSUME NEW c \in Composites, NEW x
    PROVE  x \in Descendants(c) <=> \E y \in Range(SubAgents[c]) : x \in SubTree(y)
<1> DEFINE S == {z \in AgentNames : \E y \in Range(SubAgents[c]) : z \in SubTree(y)}
<1>1. c \in AgentNames /\ \A y \in Range(SubAgents[c]) : y \in AgentNames /\ y \in Descendants(c)
  BY Children DEF AgentNames
<1>2. ASSUME NEW d \in ({c} \cup S) \cap Composites, NEW z \in Range(SubAgents[d]) PROVE z \in S
  <2>1. z \in AgentNames
    BY SubAgentFacts
  <2>2. CASE d = c
    BY <2>1, <2>2 DEF SubTree
  <2>3. CASE d \in S
    <3>1. PICK y \in Range(SubAgents[c]) : d \in SubTree(y)
      BY <2>3
    <3>2. z \in Descendants(y)
      <4>1. CASE d = y
        BY <4>1, Children
      <4>2. CASE d \in Descendants(y)
        BY <4>2, <1>1, Deeper
      <4> QED  BY <3>1, <4>1, <4>2 DEF SubTree
    <3> QED  BY <2>1, <3>2 DEF SubTree
  <2> QED  BY <2>2, <2>3
<1>3. Below({c} \cup S) \subseteq S
  BY <1>2, BelowIs
<1>4. Descendants(c) \subseteq S
  BY <1>1, <1>3, LeastBelow
<1>5. ASSUME NEW y \in Range(SubAgents[c]), x \in SubTree(y) PROVE x \in Descendants(c)
  BY <1>1, <1>5, DescendantsOfDescendants DEF SubTree
<1> QED  BY <1>4, <1>5

LEMMA NoneBelowItself ==
    ASSUME NEW a \in AgentNames
    PROVE  a \notin Descendants(a)
<1> DEFINE S == {c \in Composites : c \in Descendants(c)}
<1>1. SUFFICES ASSUME a \in Descendants(a) PROVE FALSE
  OBVIOUS
<1>2. a \in S
  BY <1>1, LeavesHaveNone DEF AgentNames
<1>3. PICK c \in S : Range(SubAgents[c]) \cap S = {}
  BY <1>2, AgentTree
<1>4. PICK y \in Range(SubAgents[c]) : c \in SubTree(y)
  BY DescendantsByChild
<1>5. y \in AgentNames /\ y \in Descendants(c)
  BY Children
<1>6. y # c
  BY <1>3
<1>7. y \in Descendants(y)
  <2>1. c \in Descendants(y)
    BY <1>4, <1>6 DEF SubTree
  <2> QED  BY <1>5, <2>1, DescendantsOfDescendants
<1>8. y \in Composites
  BY <1>5, <1>7, LeavesHaveNone DEF AgentNames
<1> QED  BY <1>3, <1>7, <1>8

LEMMA OneParent ==
    ASSUME NEW c \in Composites, NEW d \in Composites, NEW x \in Range(SubAgents[c]), x \in Range(SubAgents[d])
    PROVE  c = d
BY AgentTree

LEMMA ParentBetween ==
    ASSUME NEW c \in Composites, NEW x \in Range(SubAgents[c]), NEW a \in AgentNames, x \in Descendants(a)
    PROVE  a = c \/ c \in Descendants(a)
<1> DEFINE S == Below({a} \cup Descendants(a))
<1>1. \A y \in S : y \in AgentNames /\ y \in Descendants(a)
  <2>1. ASSUME NEW d \in ({a} \cup Descendants(a)) \cap Composites, NEW y \in Range(SubAgents[d])
        PROVE  y \in AgentNames /\ y \in Descendants(a)
    BY Children, Deeper
  <2> QED  BY <2>1 DEF Below
<1>2. Below({a} \cup S) \subseteq S
  BY <1>1 DEF Below
<1>3. Descendants(a) \subseteq S
  <2> HIDE DEF S
  <2> QED  BY <1>1, <1>2, LeastBelow
<1>4. PICK d \in ({a} \cup Descendants(a)) \cap Composites : x \in Range(SubAgents[d])
  BY <1>3 DEF Below
<1>5. c = d
  BY <1>4, OneParent
<1> QED  BY <1>4, <1>5

LEMMA AboveAChild ==
    ASSUME NEW c \in Composites, NEW x \in Range(SubAgents[c])
    PROVE  Above(x) = {c} \cup Above(c)
<1>1. x \in Descendants(c) /\ c \in AgentNames
  BY Children DEF AgentNames
<1>2. \A d \in Composites : x \in Descendants(d) => d = c \/ c \in Descendants(d)
  BY ParentBetween DEF AgentNames
<1>3. \A d \in Composites : c \in Descendants(d) => x \in Descendants(d)
  BY Deeper DEF AgentNames
<1> QED  BY <1>1, <1>2, <1>3 DEF Above

LEMMA Siblings ==
    ASSUME NEW c \in Composites, NEW y \in Range(SubAgents[c]), NEW z \in Range(SubAgents[c]), y # z
    PROVE  SubTree(y) \cap SubTree(z) = {}
<1>1. c \in AgentNames /\ c \notin Descendants(c)
  BY NoneBelowItself DEF AgentNames
<1>2. \A v \in Range(SubAgents[c]) : v \in AgentNames /\ v \in Descendants(c) /\ v # c /\ c \notin Descendants(v)
  <2> TAKE v \in Range(SubAgents[c])
  <2>1. v \in AgentNames /\ v \in Descendants(c)
    BY Children
  <2>2. Descendants(v) \subseteq Descendants(c)
    BY <1>1, <2>1, DescendantsOfDescendants
  <2> QED  BY <1>1, <2>1, <2>2
<1>3. \A v, w \in Range(SubAgents[c]) : v \notin Descendants(w)
  BY <1>2, ParentBetween
<1> DEFINE U == {w \in Descendants(y) : w \notin SubTree(z)}
<1>4. U \in SUBSET AgentNames
  BY <1>2, DescendantsAreAgents
<1>5. ASSUME NEW e \in ({y} \cup U) \cap Composites, NEW w \in Range(SubAgents[e]) PROVE w \in U
  <2>1. w \in Descendants(y)
    BY <1>2, Children, Deeper
  <2>2. w # z
    <3>1. SUFFICES ASSUME w = z PROVE FALSE
      OBVIOUS
    <3>2. e = c
      BY <3>1, OneParent
    <3> QED  BY <3>2, <1>2
  <2>3. w \notin Descendants(z)
    <3>1. SUFFICES ASSUME w \in Descendants(z) PROVE FALSE
      OBVIOUS
    <3>2. e \in SubTree(z)
      BY <3>1, <1>2, ParentBetween DEF SubTree
    <3>3. y \notin SubTree(z)
      BY <1>3 DEF SubTree
    <3> QED  BY <3>2, <3>3
  <2> QED  BY <2>1, <2>2, <2>3 DEF SubTree
<1>6. Below({y} \cup U) \subseteq U
  BY <1>5, BelowIs
<1>7. Descendants(y) \subseteq U
  <2> HIDE DEF U
  <2> QED  BY <1>2, <1>4, <1>6, LeastBelow
<1> QED  BY <1>3, <1>7 DEF SubTree

LEMMA ParentNotBelow ==
    ASSUME NEW c \in Composites, NEW x \in Range(SubAgents[c])
    PROVE  /\ c \notin SubTree(x) /\ x # c
           /\ SubTree(x) \subseteq Descendants(c) /\ SubTree(x) \subseteq SubTree(c)
<1>1. c \in AgentNames /\ c \notin Descendants(c)
  BY NoneBelowItself DEF AgentNames
<1>2. SubTree(x) \subseteq Descendants(c)
  BY DescendantsByChild
<1> QED  BY <1>1, <1>2 DEF SubTree

-----------------------------------------------------------------------------
(* Events, and what a list of them says.                                   *)

AgentState == [sub : AgentNames \cup {Nobody}, looped : Nat]
Events == [by : AgentNames, kind : Kinds, at : AgentState]

LEMMA IndexFacts ==
    ASSUME NEW a \in Composites
    PROVE  /\ \A x \in Range(SubAgents[a]) :
                 Index(a, x) \in DOMAIN SubAgents[a] /\ SubAgents[a][Index(a, x)] = x
           /\ \A i \in DOMAIN SubAgents[a] : Index(a, SubAgents[a][i]) = i
           /\ \A x : Index(a, x) \in DOMAIN SubAgents[a]
<1>1. \A x \in Range(SubAgents[a]) : \E i \in DOMAIN SubAgents[a] : SubAgents[a][i] = x
  BY DEF Range
<1>2. \A x \in Range(SubAgents[a]) :
         Index(a, x) \in DOMAIN SubAgents[a] /\ SubAgents[a][Index(a, x)] = x
  BY <1>1 DEF Index
<1>3. \A i \in DOMAIN SubAgents[a] : Index(a, SubAgents[a][i]) = i
  BY <1>2, SubAgentFacts
<1>4. \A x : x \notin Range(SubAgents[a]) => Index(a, x) = 1
  BY DEF Index
<1>5. 1 \in DOMAIN SubAgents[a]
  BY SubAgentFacts
<1> QED  BY <1>2, <1>3, <1>4, <1>5

LEMMA EmptyIsState == Empty \in AgentState /\ Empty.sub = Nobody /\ Empty.looped = 0
BY DEF Empty, State, AgentState

LEMMA EventIsTyped ==
    ASSUME NEW a \in AgentNames, NEW k \in Kinds, NEW at \in AgentState
    PROVE  Event(a, k, at) \in Events
BY DEF Event, Events

Over(S, x) == \E e \in S : e.by = x /\ e.kind \in Answer(x)
Untouched(S, x) == \A e \in S : e.by \notin SubTree(x)
Seen(S, x) == \E e \in S : e.by = x
Kin(S, c) == (\E e \in S : e.by \in Descendants(c)) => Seen(S, c)

(* What an event tells is so, given the events S up to it.                 *)
GroundedEvent(S, e) ==
    /\ e.kind = "end" =>
          e.at = Empty /\ (e.by \in Sequentials => \A x \in Range(SubAgents[e.by]) : Over(S, x))
    /\ e.kind = "state" /\ e.by \in Sequentials \cup Loops => e.at.sub \in Range(SubAgents[e.by])
    /\ e.kind = "state" /\ e.by \in Sequentials =>
          \A j \in DOMAIN SubAgents[e.by] :
              j < Index(e.by, e.at.sub) => Over(S, SubAgents[e.by][j])
    /\ e.kind = "state" /\ e.by \in Loops => e.at.looped < MaxIterations[e.by]
    /\ e.kind \in Marks => e.by \notin Leaves
    /\ e.by \in Composites /\ e.kind \notin Marks =>
          e.kind = "say" /\ e.by \in After /\ \E d \in S : d.by = e.by /\ d.kind \in Marks

Prefix(es, i) == {es[j] : j \in 1 .. i}
Grounded(B, es) == \A i \in DOMAIN es : GroundedEvent(B \cup Prefix(es, i), es[i])

LEMMA OverMore ==
    ASSUME NEW S, NEW T, S \subseteq T, NEW x
    PROVE  (Over(S, x) => Over(T, x)) /\ (Seen(S, x) => Seen(T, x))
BY DEF Over, Seen

LEMMA GroundedEventMore ==
    ASSUME NEW S, NEW T, S \subseteq T, NEW e, GroundedEvent(S, e)
    PROVE  GroundedEvent(T, e)
<1>1. \A x : Over(S, x) => Over(T, x)
  BY OverMore
<1> QED  BY <1>1 DEF GroundedEvent

LEMMA GroundedMore ==
    ASSUME NEW S, NEW T, S \subseteq T, NEW es, Grounded(S, es)
    PROVE  Grounded(T, es)
<1>1. ASSUME NEW i \in DOMAIN es PROVE GroundedEvent(T \cup Prefix(es, i), es[i])
  <2>1. GroundedEvent(S \cup Prefix(es, i), es[i])
    BY DEF Grounded
  <2>2. S \cup Prefix(es, i) \subseteq T \cup Prefix(es, i)
    OBVIOUS
  <2> QED  BY <2>1, <2>2, GroundedEventMore
<1> QED  BY <1>1 DEF Grounded

LEMMA ConcatIs ==
    ASSUME NEW s \in Seq(Events), NEW t \in Seq(Events), NEW u, u = s \o t
    PROVE  /\ u \in Seq(Events) /\ Len(u) = Len(s) + Len(t)
           /\ Len(s) \in Nat /\ Len(t) \in Nat /\ Len(u) \in Nat
           /\ DOMAIN s = 1 .. Len(s) /\ DOMAIN t = 1 .. Len(t) /\ DOMAIN u = 1 .. Len(u)
           /\ \A i \in 1 .. Len(s) : u[i] = s[i]
           /\ \A i \in 1 .. Len(t) : u[Len(s) + i] = t[i]
           /\ \A i \in DOMAIN u : i \notin DOMAIN s => i - Len(s) \in DOMAIN t /\ u[i] = t[i - Len(s)]
           /\ Range(u) = Range(s) \cup Range(t)
<1>1. IsSeq(s) /\ IsSeq(t)
  BY DEF IsSeq
<1>2. Range(u) = Range(s) \cup Range(t)
  BY <1>1, ConcatFacts
<1>3. u \in Seq(Events) /\ Len(u) = Len(s) + Len(t) /\ Len(s) \in Nat /\ Len(t) \in Nat /\ Len(u) \in Nat
      /\ DOMAIN s = 1 .. Len(s) /\ DOMAIN t = 1 .. Len(t) /\ DOMAIN u = 1 .. Len(u)
  OBVIOUS
<1>4. \A i \in 1 .. Len(s) + Len(t) : u[i] = IF i <= Len(s) THEN s[i] ELSE t[i - Len(s)]
  OBVIOUS
<1>5. \A i \in 1 .. Len(s) : u[i] = s[i]
  BY <1>3, <1>4
<1>6. ASSUME NEW i \in 1 .. Len(t) PROVE u[Len(s) + i] = t[i]
  <2>1. Len(s) + i \in 1 .. Len(s) + Len(t) /\ ~(Len(s) + i <= Len(s)) /\ (Len(s) + i) - Len(s) = i
    BY <1>3
  <2> QED  BY <1>4, <2>1
<1>7. \A i \in DOMAIN u : i \notin DOMAIN s => i - Len(s) \in DOMAIN t /\ u[i] = t[i - Len(s)]
  BY <1>3, <1>4
<1> QED  BY <1>2, <1>3, <1>5, <1>6, <1>7

LEMMA ConcatRange ==
    ASSUME NEW s \in Seq(Events), NEW t \in Seq(Events), NEW u, u = s \o t
    PROVE  Range(u) = Range(s) \cup Range(t)
BY ConcatIs

LEMMA RangeIs ==
    ASSUME NEW s \in Seq(Events)
    PROVE  /\ \A i \in DOMAIN s : s[i] \in Range(s)
           /\ \A e \in Range(s) : e \in Events /\ \E i \in DOMAIN s : s[i] = e
           /\ DOMAIN s \in SUBSET Nat /\ IsFiniteSet(DOMAIN s)
           /\ \A i \in DOMAIN s : Prefix(s, i) \subseteq Range(s) /\ i \in Nat /\ i >= 1
<1>1. DOMAIN s = 1 .. Len(s) /\ Len(s) \in Nat
  OBVIOUS
<1>2. IsFiniteSet(DOMAIN s)
  BY <1>1, FS_Interval
<1> QED  BY <1>1, <1>2 DEF Range, Prefix

LEMMA GroundedConcat ==
    ASSUME NEW s \in Seq(Events), NEW t \in Seq(Events), NEW B,
           Grounded(B, s), Grounded(B \cup Range(s), t)
    PROVE  Grounded(B, s \o t)
<1>1. PICK u : u = s \o t
  OBVIOUS
<1>2. ASSUME NEW i \in DOMAIN u PROVE GroundedEvent(B \cup Prefix(u, i), u[i])
  <2>1. CASE i \in DOMAIN s
    <3>1. u[i] = s[i]
      BY <1>1, <2>1, ConcatIs
    <3>2. Prefix(s, i) \subseteq Prefix(u, i)
      BY <1>1, <2>1, ConcatIs DEF Prefix
    <3>3. GroundedEvent(B \cup Prefix(s, i), s[i])
      BY <2>1 DEF Grounded
    <3>4. B \cup Prefix(s, i) \subseteq B \cup Prefix(u, i)
      BY <3>2
    <3> QED  BY <3>1, <3>3, <3>4, GroundedEventMore
  <2>2. CASE i \notin DOMAIN s
    <3>1. PICK k \in DOMAIN t : k = i - Len(s) /\ u[i] = t[k]
      BY <1>1, <2>2, ConcatIs
    <3>2. GroundedEvent((B \cup Range(s)) \cup Prefix(t, k), t[k])
      BY DEF Grounded
    <3>3. Range(s) \subseteq Prefix(u, i)
      <4>1. ASSUME NEW j \in DOMAIN s PROVE s[j] \in Prefix(u, i)
        <5>1. j \in 1 .. i /\ u[j] = s[j]
          BY <1>1, <2>2, ConcatIs
        <5> QED  BY <5>1 DEF Prefix
      <4> QED  BY <4>1 DEF Range
    <3>4. Prefix(t, k) \subseteq Prefix(u, i)
      <4>1. ASSUME NEW j \in 1 .. k PROVE t[j] \in Prefix(u, i)
        <5>1. Len(s) + j \in 1 .. i /\ j \in 1 .. Len(t)
          BY <1>1, <3>1, ConcatIs
        <5>2. u[Len(s) + j] = t[j]
          BY <1>1, <5>1, ConcatIs
        <5> QED  BY <5>1, <5>2 DEF Prefix
      <4> QED  BY <4>1 DEF Prefix
    <3>5. (B \cup Range(s)) \cup Prefix(t, k) \subseteq B \cup Prefix(u, i)
      BY <3>3, <3>4
    <3> QED  BY <3>1, <3>2, <3>5, GroundedEventMore
  <2> QED  BY <2>1, <2>2
<1> QED  BY <1>1, <1>2 DEF Grounded

LEMMA GroundedInRange ==
    ASSUME NEW s \in Seq(Events), NEW B, Grounded(B, s), NEW e \in Range(s)
    PROVE  GroundedEvent(B \cup Range(s), e)
<1>1. PICK i \in DOMAIN s : s[i] = e
  BY RangeIs
<1>2. GroundedEvent(B \cup Prefix(s, i), e)
  BY <1>1 DEF Grounded
<1>3. B \cup Prefix(s, i) \subseteq B \cup Range(s)
  BY RangeIs
<1> QED  BY <1>2, <1>3, GroundedEventMore

LEMMA OneEvent ==
    ASSUME NEW e \in Events
    PROVE  <<e>> \in Seq(Events) /\ Range(<<e>>) = {e} /\ Len(<<e>>) = 1 /\ <<e>>[1] = e /\ DOMAIN <<e>> = {1}
<1>1. <<e>> \in Seq(Events) /\ Len(<<e>>) = 1 /\ <<e>>[1] = e /\ DOMAIN <<e>> = {1}
  OBVIOUS
<1> QED  BY <1>1, SingleFacts

LEMMA NoEvents == <<>> \in Seq(Events) /\ Range(<<>>) = {} /\ DOMAIN <<>> = {} /\ Len(<<>>) = 0
BY EmptyFacts

LEMMA GroundedOne ==
    ASSUME NEW e \in Events, NEW B, NEW C, C = B \cup {e}, GroundedEvent(C, e)
    PROVE  Grounded(B, <<e>>)
<1>1. PICK s : s = <<e>>
  OBVIOUS
<1>2. DOMAIN s = {1} /\ s[1] = e
  BY <1>1, OneEvent
<1>3. Prefix(s, 1) = {e}
  BY <1>2 DEF Prefix
<1> QED  BY <1>1, <1>2, <1>3 DEF Grounded

-----------------------------------------------------------------------------
(* The latest event of an agent.                                           *)

LEMMA LatestIs ==
    ASSUME NEW s \in Seq(Events), NEW a, NEW K, NEW i \in DOMAIN s, s[i].by = a, s[i].kind \in K,
           \A j \in DOMAIN s : j > i => ~(s[j].by = a /\ s[j].kind \in K)
    PROVE  Latest(s, a, K) = s[i]
<1> DEFINE own == {j \in DOMAIN s : s[j].by = a /\ s[j].kind \in K}
<1>1. own \in SUBSET Nat /\ IsFiniteSet(own) /\ own # {} /\ i \in own
  BY RangeIs, FS_Subset
<1>2. Max(own) \in own /\ Max(own) >= i
  <2> HIDE DEF own
  <2> QED  BY <1>1, MaxOfNaturals
<1>3. Max(own) = i
  <2>1. Max(own) \in Nat /\ i \in Nat
    BY <1>1, <1>2
  <2>2. ~(Max(own) > i)
    BY <1>2
  <2> HIDE DEF own
  <2> QED  BY <1>2, <2>1, <2>2
<1>4. Latest(s, a, K) = IF own = {} THEN NoEvent ELSE s[Max(own)]
  BY DEF Latest
<1> HIDE DEF own
<1> QED  BY <1>1, <1>3, <1>4

LEMMA LatestExists ==
    ASSUME NEW s \in Seq(Events), NEW a, NEW K, NEW e \in Range(s), e.by = a, e.kind \in K
    PROVE  \E i \in DOMAIN s : /\ s[i].by = a /\ s[i].kind \in K /\ Latest(s, a, K) = s[i]
                               /\ \A j \in DOMAIN s : j > i => ~(s[j].by = a /\ s[j].kind \in K)
<1> DEFINE own == {j \in DOMAIN s : s[j].by = a /\ s[j].kind \in K}
<1>1. own \in SUBSET Nat /\ IsFiniteSet(own) /\ own # {}
  BY RangeIs, FS_Subset
<1>2. Max(own) \in own /\ \A j \in own : Max(own) >= j
  <2> HIDE DEF own
  <2> QED  BY <1>1, MaxOfNaturals
<1>3. PICK i \in own : i = Max(own)
  BY <1>2
<1>4. \A j \in DOMAIN s : j > i => j \notin own
  <2>1. \A j \in own : i >= j /\ j \in Nat /\ i \in Nat
    BY <1>1, <1>2, <1>3
  <2> HIDE DEF own
  <2> QED  BY <2>1
<1>5. i \in DOMAIN s /\ s[i].by = a /\ s[i].kind \in K
  OBVIOUS
<1>6. \A j \in DOMAIN s : j > i => ~(s[j].by = a /\ s[j].kind \in K)
  BY <1>4
<1> HIDE DEF own
<1>7. Latest(s, a, K) = s[i]
  BY <1>5, <1>6, LatestIs
<1> QED  BY <1>5, <1>6, <1>7

LEMMA LatestNone ==
    ASSUME NEW s \in Seq(Events), NEW a, NEW K, \A e \in Range(s) : ~(e.by = a /\ e.kind \in K)
    PROVE  Latest(s, a, K) = NoEvent
<1>1. {j \in DOMAIN s : s[j].by = a /\ s[j].kind \in K} = {}
  BY RangeIs
<1> QED  BY <1>1 DEF Latest

LEMMA NoEventIs == NoEvent.by = Nobody /\ NoEvent.kind = "none" /\ NoEvent.at = Empty
BY DEF NoEvent, Event

LEMMA LatestCases ==
    ASSUME NEW s \in Seq(Events), NEW a, NEW K, NEW m, m = Latest(s, a, K)
    PROVE  \/ m = NoEvent /\ \A e \in Range(s) : ~(e.by = a /\ e.kind \in K)
           \/ m \in Range(s) /\ m \in Events /\ m.by = a /\ m.kind \in K
<1>1. CASE \E e \in Range(s) : e.by = a /\ e.kind \in K
  BY <1>1, LatestExists, RangeIs
<1>2. CASE \A e \in Range(s) : ~(e.by = a /\ e.kind \in K)
  BY <1>2, LatestNone
<1> QED  BY <1>1, <1>2

LEMMA LatestOne ==
    ASSUME NEW e \in Events, NEW K, e.kind \in K, NEW t \in Seq(Events), DOMAIN t = {1}, t[1] = e,
           NEW a, e.by = a
    PROVE  Latest(t, a, K) = e
<1>1. PICK i \in DOMAIN t : i = 1
  OBVIOUS
<1>2. t[i] = e /\ \A j \in DOMAIN t : ~(j > i)
  BY <1>1
<1>3. Latest(t, a, K) = t[i]
  BY <1>2, LatestIs
<1> QED  BY <1>2, <1>3

LEMMA LatestConcatNew ==
    ASSUME NEW s \in Seq(Events), NEW t \in Seq(Events), NEW a, NEW K,
           NEW e \in Range(t), e.by = a, e.kind \in K
    PROVE  Latest(s \o t, a, K) = Latest(t, a, K)
<1>1. PICK u : u = s \o t
  OBVIOUS
<1>2. PICK i \in DOMAIN t : /\ t[i].by = a /\ t[i].kind \in K /\ Latest(t, a, K) = t[i]
                            /\ \A j \in DOMAIN t : j > i => ~(t[j].by = a /\ t[j].kind \in K)
  BY LatestExists
<1>3. PICK k \in DOMAIN u : k = Len(s) + i /\ u[k] = t[i]
  BY <1>1, ConcatIs
<1>4. ASSUME NEW j \in DOMAIN u, j > k PROVE ~(u[j].by = a /\ u[j].kind \in K)
  <2>1. j \notin DOMAIN s
    BY <1>1, <1>3, <1>4, ConcatIs
  <2>2. j - Len(s) \in DOMAIN t /\ u[j] = t[j - Len(s)]
    BY <1>1, <2>1, ConcatIs
  <2>3. j - Len(s) > i
    BY <1>1, <1>3, <1>4, ConcatIs
  <2> QED  BY <1>2, <2>2, <2>3
<1>5. u \in Seq(Events)
  BY <1>1, ConcatIs
<1>6. Latest(u, a, K) = u[k]
  BY <1>2, <1>3, <1>4, <1>5, LatestIs
<1> QED  BY <1>1, <1>2, <1>3, <1>6

LEMMA LatestConcatOld ==
    ASSUME NEW s \in Seq(Events), NEW t \in Seq(Events), NEW a, NEW K,
           \A e \in Range(t) : ~(e.by = a /\ e.kind \in K)
    PROVE  Latest(s \o t, a, K) = Latest(s, a, K)
<1>1. PICK u : u = s \o t
  OBVIOUS
<1>2. u \in Seq(Events) /\ Range(u) = Range(s) \cup Range(t)
  BY <1>1, ConcatIs
<1>3. CASE \A e \in Range(s) : ~(e.by = a /\ e.kind \in K)
  <2>1. \A e \in Range(u) : ~(e.by = a /\ e.kind \in K)
    BY <1>2, <1>3
  <2>2. Latest(u, a, K) = NoEvent
    BY <1>2, <2>1, LatestNone
  <2>3. Latest(s, a, K) = NoEvent
    BY <1>3, LatestNone
  <2> QED  BY <1>1, <2>2, <2>3
<1>4. CASE \E e \in Range(s) : e.by = a /\ e.kind \in K
  <2>1. PICK i \in DOMAIN s : /\ s[i].by = a /\ s[i].kind \in K /\ Latest(s, a, K) = s[i]
                              /\ \A j \in DOMAIN s : j > i => ~(s[j].by = a /\ s[j].kind \in K)
    BY <1>4, LatestExists
  <2>2. i \in DOMAIN u /\ u[i] = s[i]
    BY <1>1, ConcatIs
  <2>3. ASSUME NEW j \in DOMAIN u, j > i PROVE ~(u[j].by = a /\ u[j].kind \in K)
    <3>1. CASE j \in DOMAIN s
      BY <1>1, <2>1, <2>3, <3>1, ConcatIs
    <3>2. CASE j \notin DOMAIN s
      BY <1>1, <3>2, ConcatIs, RangeIs
    <3> QED  BY <3>1, <3>2
  <2>4. Latest(u, a, K) = u[i]
    BY <1>2, <2>1, <2>2, <2>3, LatestIs
  <2> QED  BY <1>1, <2>1, <2>2, <2>4
<1> QED  BY <1>3, <1>4

-----------------------------------------------------------------------------
(* What populate_invocation_agent_states makes of the log.                 *)

LEMMA PopulatedIs ==
    ASSUME NEW L, NEW P, P = Populated(L)
    PROVE  /\ \A x : x \in DOMAIN P.states <=> x \in AgentNames /\ LatestKind(L, x) \notin {"none", "end"}
           /\ \A x \in DOMAIN P.states : P.states[x] = Latest(L, x, Marks).at
           /\ \A x : x \in P.ended <=> x \in AgentNames /\ LatestKind(L, x) = "end"
BY DEF Populated

LEMMA LatestTyped ==
    ASSUME NEW s \in Seq(Events), NEW a, NEW K
    PROVE  Latest(s, a, K).at \in AgentState
<1>1. PICK m : m = Latest(s, a, K)
  OBVIOUS
<1>2. CASE m = NoEvent
  BY <1>1, <1>2, NoEventIs, EmptyIsState
<1>3. CASE m \in Events
  BY <1>1, <1>3 DEF Events
<1> QED  BY <1>1, <1>2, <1>3, LatestCases

(* The state that is recovered for an agent is grounded in the log.        *)
LEMMA Remembered ==
    ASSUME NEW L \in Seq(Events), Grounded({}, L), NEW P, P = Populated(L),
           NEW x \in DOMAIN P.states
    PROVE  /\ P.states[x] \in AgentState /\ x \in AgentNames
           /\ Seen(Range(L), x)
           /\ x \in Sequentials /\ P.states[x].sub = Nobody =>
                 \A y \in Range(SubAgents[x]) : Over(Range(L), y)
           /\ x \in Sequentials /\ P.states[x].sub # Nobody =>
                 /\ P.states[x].sub \in Range(SubAgents[x])
                 /\ \A j \in DOMAIN SubAgents[x] :
                       j < Index(x, P.states[x].sub) => Over(Range(L), SubAgents[x][j])
           /\ x \in Loops => P.states[x].looped < MaxIterations[x]
<1>1. /\ x \in AgentNames /\ LatestKind(L, x) # "none" /\ LatestKind(L, x) # "end"
      /\ P.states[x] = Latest(L, x, Marks).at
  BY PopulatedIs
<1>2. PICK e \in Range(L) : e.by = x /\ e.kind # "end" /\ e \in Events
  <2>1. PICK m : m = Latest(L, x, Kinds)
    OBVIOUS
  <2>2. m.kind # "none" /\ m.kind # "end"
    BY <1>1, <2>1 DEF LatestKind
  <2> QED  BY <2>1, <2>2, LatestCases, NoEventIs
<1>3. Seen(Range(L), x)
  BY <1>2 DEF Seen
<1>4. P.states[x] \in AgentState
  BY <1>1, LatestTyped
<1>5. ASSUME NEW d \in Range(L) PROVE GroundedEvent(Range(L), d)
  <2>1. GroundedEvent({} \cup Range(L), d)
    BY GroundedInRange
  <2> QED  BY <2>1
<1>6. ASSUME x \in Composites PROVE \E d \in Range(L) : d.by = x /\ d.kind \in Marks
  <2>1. CASE e.kind \in Marks
    BY <1>2, <2>1
  <2>2. CASE e.kind \notin Marks
    BY <1>2, <1>5, <1>6, <2>2 DEF GroundedEvent
  <2> QED  BY <2>1, <2>2
<1>7. ASSUME x \in Composites
      PROVE  \E m \in Range(L) : /\ m.by = x /\ m.kind \in Marks /\ P.states[x] = m.at
                                   /\ GroundedEvent(Range(L), m)
  <2>1. PICK m : m = Latest(L, x, Marks)
    OBVIOUS
  <2>2. m \in Range(L) /\ m.by = x /\ m.kind \in Marks
    BY <1>6, <1>7, <2>1, LatestCases
  <2> QED  BY <1>1, <1>5, <2>1, <2>2
<1>8. ASSUME x \in Sequentials
      PROVE  /\ P.states[x].sub = Nobody => \A y \in Range(SubAgents[x]) : Over(Range(L), y)
             /\ P.states[x].sub # Nobody =>
                 /\ P.states[x].sub \in Range(SubAgents[x])
                 /\ \A j \in DOMAIN SubAgents[x] :
                       j < Index(x, P.states[x].sub) => Over(Range(L), SubAgents[x][j])
  <2>1. x \in Composites
    BY <1>8 DEF Composites
  <2>2. PICK m \in Range(L) : /\ m.by = x /\ m.kind \in Marks /\ P.states[x] = m.at
                                /\ GroundedEvent(Range(L), m)
    BY <1>7, <2>1
  <2>3. CASE m.kind = "end"
    BY <1>8, <2>2, <2>3, EmptyIsState DEF GroundedEvent
  <2>4. CASE m.kind = "state"
    <3>1. m.at.sub \in Range(SubAgents[x])
      BY <1>8, <2>2, <2>4 DEF GroundedEvent
    <3>2. m.at.sub # Nobody
      BY <2>1, <3>1, SubAgentFacts, AgentTree
    <3> QED  BY <1>8, <2>2, <2>4, <3>1, <3>2 DEF GroundedEvent
  <2> QED  BY <2>2, <2>3, <2>4 DEF Marks
<1>9. ASSUME x \in Loops PROVE P.states[x].looped < MaxIterations[x]
  <2>1. x \in Composites
    BY <1>9 DEF Composites
  <2>2. PICK m \in Range(L) : /\ m.by = x /\ m.kind \in Marks /\ P.states[x] = m.at
                                /\ GroundedEvent(Range(L), m)
    BY <1>7, <2>1
  <2>3. CASE m.kind = "end"
    <3>1. P.states[x].looped = 0
      BY <2>2, <2>3, EmptyIsState DEF GroundedEvent
    <3>2. MaxIterations[x] \in Nat \ {0}
      BY <1>9, AgentTree
    <3> QED  BY <3>1, <3>2
  <2>4. CASE m.kind = "state"
    BY <1>9, <2>2, <2>4 DEF GroundedEvent
  <2> QED  BY <2>2, <2>3, <2>4 DEF Marks
<1> QED  BY <1>1, <1>3, <1>4, <1>8, <1>9

-----------------------------------------------------------------------------
(* Frames, and the few things a step makes of one.                         *)

Fields == {"states", "ended", "writer", "events", "at", "resuming", "looped", "next", "exit"}
Places(a) == IF a \in Leaves THEN {"run", "done", "failed"}
             ELSE IF a \in Parallels THEN {"run", "join", "joined", "done", "failed"}
             ELSE {"run", "wait", "done", "failed"}
IsStateMap(s) == DOMAIN s \subseteq AgentNames /\ \A x \in DOMAIN s : s[x] \in AgentState
IsContext(f) ==
    IsStateMap(f.states) /\ f.ended \subseteq AgentNames /\ f.writer \in AgentNames \cup {Nobody}
IsFrame(a, f) ==
    /\ DOMAIN f = Fields /\ IsContext(f) /\ f.events \in Seq(Events) /\ f.at \in Places(a)
    /\ f.resuming \in BOOLEAN /\ f.looped \in Nat /\ f.next \in Nat \ {0} /\ f.exit \in BOOLEAN

SameContext(f, g) == g.states = f.states /\ g.ended = f.ended
Narrower(f, g) == \A x \in DOMAIN g.states : x \in DOMAIN f.states /\ g.states[x] = f.states[x]
AfterSaid(a) == IF a \in After THEN <<Event(a, "say", Empty)>> ELSE <<>>

Calls(a, f, g) ==
    /\ a \in Composites /\ f.at = "run" /\ g.at = IF a \in Parallels THEN "join" ELSE "wait"
    /\ a \notin Parallels => f.next <= Len(SubAgents[a]) /\ ~f.exit
    /\ g.next = f.next /\ g.looped = f.looped /\ g.exit = f.exit /\ g.writer = f.writer
    /\ g.resuming = f.resuming
    /\ f.resuming => SameContext(f, g) /\ g.events = f.events
    /\ ~f.resuming =>
          \E at \in AgentState :
              /\ at = IF a \in Parallels THEN Empty ELSE State(SubAgents[a][f.next], f.looped)
              /\ g.events = f.events \o <<Marker(a, at)>>
              /\ g.states = With(f.states, a, at) /\ g.ended = f.ended \ {a}

Takes(a, f, h, g) ==
    /\ a \in Composites /\ h.at = "done" /\ g.events = f.events \o h.events
    /\ SameContext(f, g) /\ g.writer = Applied(f.writer, h.events) /\ g.looped = f.looped
    /\ a \notin Parallels => /\ f.at = "wait" /\ ~Pauses(h.events)
                             /\ g.at = "run" /\ g.next = f.next + 1 /\ g.resuming = FALSE
    /\ a \in Parallels => f.at = "join" /\ g.at \in {"join", "joined"} /\ g.resuming = f.resuming

Stops(a, f, h, g) ==
    /\ a \in Composites \ Parallels /\ h.at = "done" /\ f.at = "wait" /\ g.at = "done"
    /\ Pauses(h.events) /\ g.events = (f.events \o h.events) \o AfterSaid(a) /\ SameContext(f, g)
    /\ g.next = f.next /\ g.looped = f.looped

Ends(a, f, g) ==
    /\ a \in Composites /\ g.at = "done" /\ g.events = (f.events \o <<EndMarker(a)>>) \o AfterSaid(a)
    /\ a \in Parallels => f.at \in {"join", "joined"} /\ ~Pauses(f.events)
    /\ a \notin Parallels => f.at = "run"
    /\ a \in Sequentials => f.next > Len(SubAgents[a])
    /\ Narrower(f, g)

PassesOn(a, f, g) ==
    /\ a \in Loops /\ f.at = "run" /\ g.at = "run" /\ f.next > Len(SubAgents[a]) /\ ~f.exit
    /\ g.events = f.events /\ g.writer = f.writer /\ g.resuming = f.resuming
    /\ g.looped = f.looped + 1 /\ g.looped < MaxIterations[a] /\ g.next = 1 /\ g.exit = FALSE
    /\ g.states = [x \in DOMAIN f.states \ Descendants(a) |-> f.states[x]]
    /\ g.ended = f.ended \ Descendants(a)

Finishes(a, f, g) ==
    /\ a \in Parallels /\ f.at \in {"join", "joined"} /\ g.at = "done" /\ Pauses(f.events)
    /\ g.events = f.events \o AfterSaid(a) /\ SameContext(f, g)

Replies(a, f, g) ==
    /\ a \in Leaves /\ f.at = "run" /\ g.at = "done" /\ SameContext(f, g)
    /\ \E k \in {"say", "write", "ask", "escalate"} :
          g.events = (f.events \o <<Event(a, k, Empty)>>) \o AfterSaid(a)

Fails(a, f, g) == g.at = "failed" /\ g.events = f.events /\ SameContext(f, g)

(* Of the frames, that of a becomes g, those of D end, and sub-agents E of *)
(* a are entered.                                                          *)
Changes(a, g, D, E) ==
    /\ a \in DOMAIN frames /\ DOMAIN frames' = ((DOMAIN frames \ D) \cup {a}) \cup E
    /\ frames'[a] = g
    /\ \A x \in E : frames'[x] = Entered(x, g)
    /\ \A x \in DOMAIN frames' : x # a /\ x \notin E => x \in DOMAIN frames /\ frames'[x] = frames[x]
    /\ UNCHANGED <<log, turn, outcome>>

NoneLeft(a, f) == f.at = "join" => Range(SubAgents[a]) \cap DOMAIN frames = {}
Step(a, f, g, D, E) ==
    \/ Calls(a, f, g) /\ D = {}
         /\ E = IF a \in Parallels THEN Range(SubAgents[a]) \ g.ended ELSE {SubAgents[a][f.next]}
    \/ \E x \in Range(SubAgents[a]) \cap DOMAIN frames :
         /\ Takes(a, f, frames[x], g) /\ E = {}
         /\ D = IF g.at = "join" THEN {x} ELSE Descendants(a)
    \/ \E x \in Range(SubAgents[a]) \cap DOMAIN frames :
         Stops(a, f, frames[x], g) /\ E = {} /\ D = Descendants(a)
    \/ Ends(a, f, g) /\ D = {} /\ E = {} /\ NoneLeft(a, f)
    \/ PassesOn(a, f, g) /\ D = {} /\ E = {}
    \/ Finishes(a, f, g) /\ D = {} /\ E = {} /\ NoneLeft(a, f)
    \/ Replies(a, f, g) /\ D = {} /\ E = {}
    \/ Fails(a, f, g) /\ D = Descendants(a) /\ E = {}

LEMMA AppendIsConcat ==
    ASSUME NEW s \in Seq(Events), NEW e \in Events
    PROVE  Append(s, e) = s \o <<e>> /\ s \o <<>> = s
<1>1. PICK t : t = Append(s, e)
  OBVIOUS
<1>2. PICK u : u = s \o <<e>>
  OBVIOUS
<1>3. t \in Seq(Events) /\ u \in Seq(Events)
  BY <1>1, <1>2
<1>4. Len(t) = Len(s) + 1 /\ Len(u) = Len(s) + 1
  BY <1>1, <1>2
<1>5. \A i \in 1 .. Len(s) + 1 : t[i] = u[i]
  <2>1. \A i \in 1 .. Len(s) : t[i] = s[i] /\ u[i] = s[i]
    BY <1>1, <1>2
  <2>2. t[Len(s) + 1] = e /\ u[Len(s) + 1] = e
    BY <1>1, <1>2
  <2> QED  BY <2>1, <2>2
<1>6. t = u
  BY <1>3, <1>4, <1>5
<1> QED  BY <1>1, <1>2, <1>6

LEMMA AfterSaidIs ==
    ASSUME NEW a \in AgentNames
    PROVE  /\ AfterSaid(a) \in Seq(Events)
           /\ \A e \in Range(AfterSaid(a)) : e.by = a /\ e.kind = "say" /\ a \in After
           /\ a \notin After => AfterSaid(a) = <<>>
<1>1. Event(a, "say", Empty) \in Events
  BY EmptyIsState, EventIsTyped DEF Kinds
<1>2. Event(a, "say", Empty).by = a /\ Event(a, "say", Empty).kind = "say"
  BY DEF Event
<1>3. CASE a \in After
  BY <1>1, <1>2, <1>3, OneEvent DEF AfterSaid
<1>4. CASE a \notin After
  BY <1>4, NoEvents DEF AfterSaid
<1> QED  BY <1>3, <1>4

LEMMA ReturnedIs ==
    ASSUME NEW a \in AgentNames, NEW h, DOMAIN h = Fields, h.events \in Seq(Events),
           NEW g, g = Returned(a, h)
    PROVE  /\ DOMAIN g = Fields /\ g.at = "done" /\ g.events = h.events \o AfterSaid(a)
           /\ g.states = h.states /\ g.ended = h.ended /\ g.writer = h.writer
           /\ g.resuming = h.resuming /\ g.looped = h.looped /\ g.next = h.next /\ g.exit = h.exit
<1>1. PICK e : e = Event(a, "say", Empty)
  OBVIOUS
<1>2. e \in Events
  BY <1>1, EmptyIsState, EventIsTyped DEF Kinds
<1>3. PICK es : es = IF a \in After THEN Append(h.events, e) ELSE h.events
  OBVIOUS
<1>4. g = [h EXCEPT !.at = "done", !.events = es]
  BY <1>1, <1>3 DEF Returned
<1>5. es = h.events \o AfterSaid(a)
  <2>1. CASE a \in After
    BY <1>1, <1>2, <1>3, <2>1, AppendIsConcat DEF AfterSaid
  <2>2. CASE a \notin After
    BY <1>2, <1>3, <2>2, AppendIsConcat DEF AfterSaid
  <2> QED  BY <2>1, <2>2
<1>6. DOMAIN g = Fields /\ g.at = "done" /\ g.events = es
  BY <1>4 DEF Fields
<1>7. /\ g.states = h.states /\ g.ended = h.ended /\ g.writer = h.writer
      /\ g.resuming = h.resuming /\ g.looped = h.looped /\ g.next = h.next /\ g.exit = h.exit
  BY <1>4 DEF Fields
<1> QED  BY <1>5, <1>6, <1>7

LEMMA EnteredSame ==
    ASSUME NEW x, NEW c, NEW d, c.states = d.states, c.ended = d.ended, c.writer = d.writer
    PROVE  Entered(x, c) = Entered(x, d)
BY DEF Entered

LEMMA AppliedIs ==
    ASSUME NEW w \in AgentNames \cup {Nobody}, NEW s \in Seq(Events)
    PROVE  Applied(w, s) \in AgentNames \cup {Nobody}
<1> DEFINE W == {i \in DOMAIN s : s[i].kind = "write"}
<1>1. W \in SUBSET Nat /\ IsFiniteSet(W)
  BY RangeIs, FS_Subset
<1>2. W # {} => Max(W) \in W
  <2> HIDE DEF W
  <2> QED  BY <1>1, MaxOfNaturals
<1>3. \A i \in W : s[i] \in Events
  BY RangeIs
<1>4. \A i \in W : s[i].by \in AgentNames
  BY <1>3 DEF Events
<1>5. Applied(w, s) = IF W = {} THEN w ELSE s[Max(W)].by
  BY DEF Applied
<1> HIDE DEF W
<1> QED  BY <1>2, <1>4, <1>5

LEMMA EnteredTyped ==
    ASSUME NEW x \in AgentNames, NEW c, IsContext(c), NEW g, g = Entered(x, c)
    PROVE  IsFrame(x, g)
<1>1. PICK at : at = IF x \in DOMAIN c.states THEN c.states[x] ELSE Empty
  OBVIOUS
<1>2. at \in AgentState
  BY <1>1, EmptyIsState DEF IsContext, IsStateMap
<1>3. at.looped \in Nat
  BY <1>2 DEF AgentState
<1>4. /\ DOMAIN g = Fields /\ g.states = c.states /\ g.ended = c.ended /\ g.writer = c.writer
      /\ g.events = <<>> /\ g.at = "run" /\ g.resuming = (x \in DOMAIN c.states)
      /\ g.looped = at.looped /\ g.exit = FALSE
      /\ g.next = IF x \in DOMAIN c.states /\ x \in Sequentials \cup Loops THEN StartIndex(x, at) ELSE 1
  BY <1>1 DEF Entered, Fields
<1>5. g.next \in Nat \ {0}
  <2>1. CASE ~(x \in DOMAIN c.states /\ x \in Sequentials \cup Loops)
    BY <1>4, <2>1
  <2>2. CASE x \in DOMAIN c.states /\ x \in Sequentials \cup Loops
    <3>1. x \in Composites
      BY <2>2 DEF Composites
    <3>2. \A y : Index(x, y) \in Nat \ {0}
      BY <3>1, IndexFacts, SubAgentFacts
    <3>3. Len(SubAgents[x]) + 1 \in Nat \ {0}
      BY <3>1, SubAgentFacts
    <3>4. StartIndex(x, at) \in Nat \ {0}
      BY <3>2, <3>3 DEF StartIndex
    <3> QED  BY <1>4, <2>2, <3>4
  <2> QED  BY <2>1, <2>2
<1>6. IsContext(g)
  BY <1>4 DEF IsContext
<1>7. g.events \in Seq(Events)
  BY <1>4, NoEvents
<1>8. g.at \in Places(x)
  BY <1>4 DEF Places
<1>9. g.resuming \in BOOLEAN
  BY <1>4
<1> QED  BY <1>3, <1>4, <1>5, <1>6, <1>7, <1>8, <1>9 DEF IsFrame

LEMMA MarkedIs ==
    ASSUME NEW a \in AgentNames, NEW f, IsFrame(a, f), NEW at \in AgentState, NEW g, g = Marked(a, f, at)
    PROVE  /\ DOMAIN g = Fields /\ g.at = f.at /\ g.events = f.events \o <<Marker(a, at)>>
           /\ g.states = With(f.states, a, at) /\ g.ended = f.ended \ {a} /\ g.writer = f.writer
           /\ g.resuming = f.resuming /\ g.looped = f.looped /\ g.next = f.next /\ g.exit = f.exit
           /\ IsContext(g) /\ g.events \in Seq(Events)
<1>1. Marker(a, at) \in Events
  BY EventIsTyped DEF Marker, Kinds
<1>2. PICK es : es = Append(f.events, Marker(a, at))
  OBVIOUS
<1>3. es = f.events \o <<Marker(a, at)>> /\ es \in Seq(Events)
  BY <1>1, <1>2, AppendIsConcat DEF IsFrame
<1>4. PICK st : st = With(f.states, a, at)
  OBVIOUS
<1>5. IsStateMap(st)
  BY <1>4 DEF With, IsFrame, IsContext, IsStateMap
<1>6. DOMAIN f = Fields
  BY DEF IsFrame
<1>7. g = [f EXCEPT !.states = st, !.ended = f.ended \ {a}, !.events = es]
  BY <1>2, <1>4, <1>6 DEF Marked, Fields
<1>8. /\ DOMAIN g = Fields /\ g.at = f.at /\ g.events = es /\ g.states = st /\ g.ended = f.ended \ {a}
      /\ g.writer = f.writer /\ g.resuming = f.resuming /\ g.looped = f.looped /\ g.next = f.next
      /\ g.exit = f.exit
  BY <1>6, <1>7 DEF Fields
<1>9. IsContext(g)
  BY <1>5, <1>8 DEF IsContext, IsFrame
<1> QED  BY <1>3, <1>4, <1>8, <1>9

-----------------------------------------------------------------------------
(* Every step of an agent is one of these.                                 *)

AllFrames == DOMAIN frames \subseteq AgentNames /\ \A x \in DOMAIN frames : IsFrame(x, frames[x])
Shape(a) == \E g, D, E : Changes(a, g, D, E) /\ Step(a, frames[a], g, D, E) /\ IsFrame(a, g)

LEMMA OnlyOne ==
    ASSUME NEW a \in DOMAIN frames, NEW g, NEW D, frames' = With([x \in DOMAIN frames \ D |-> frames[x]], a, g),
           UNCHANGED <<log, turn, outcome>>
    PROVE  Changes(a, g, D, {})
BY DEF Changes, With

LEMMA OnlyOneHere ==
    ASSUME NEW a \in DOMAIN frames, NEW g, frames' = With(frames, a, g), UNCHANGED <<log, turn, outcome>>
    PROVE  Changes(a, g, {}, {})
BY DEF Changes, With

LEMMA CompositeKinds ==
    /\ Composites \subseteq AgentNames /\ Leaves \subseteq AgentNames /\ AgentNames = Leaves \cup Composites
    /\ \A a \in Leaves : a \notin Composites /\ a \notin Sequentials /\ a \notin Loops /\ a \notin Parallels
    /\ \A a \in Sequentials : a \in Composites /\ a \notin Loops /\ a \notin Parallels
    /\ \A a \in Loops : a \in Composites /\ a \notin Sequentials /\ a \notin Parallels
    /\ \A a \in Parallels : a \in Composites /\ a \notin Sequentials /\ a \notin Loops
    /\ \A a \in Composites : a \in Sequentials \/ a \in Loops \/ a \in Parallels
BY AgentTree DEF Composites, AgentNames

LEMMA ShapeOfRunSub ==
    ASSUME NEW a \in AgentNames, AllFrames, RunSub(a)
    PROVE  Shape(a)
<1>1. PICK f : f = frames[a]
  OBVIOUS
<1>2. a \in DOMAIN frames /\ f.at = "run" /\ f.next <= Len(SubAgents[a]) /\ ~f.exit /\ IsFrame(a, f)
  BY <1>1 DEF RunSub, At, AllFrames
<1>3. a \in Sequentials \cup Loops /\ a \in Composites /\ a \notin Parallels /\ a \notin Leaves
  BY CompositeKinds DEF RunSub
<1>4. PICK sub : sub = SubAgents[a][f.next]
  OBVIOUS
<1>5. f.next \in DOMAIN SubAgents[a] /\ sub \in Range(SubAgents[a]) /\ sub \in AgentNames
  <2>1. f.next \in Nat \ {0}
    BY <1>2 DEF IsFrame
  <2>2. f.next \in DOMAIN SubAgents[a]
    BY <1>2, <1>3, <2>1, SubAgentFacts
  <2> QED  BY <1>3, <1>4, <2>2, SubAgentFacts
<1>6. PICK at : at = State(sub, f.looped)
  OBVIOUS
<1>7. at \in AgentState
  BY <1>2, <1>5, <1>6 DEF State, AgentState, IsFrame
<1>8. PICK h : h = IF f.resuming THEN f ELSE Marked(a, f, at)
  OBVIOUS
<1>9. /\ DOMAIN h = Fields /\ h.writer = f.writer /\ h.resuming = f.resuming /\ h.looped = f.looped
      /\ h.next = f.next /\ h.exit = f.exit /\ IsContext(h) /\ h.events \in Seq(Events)
      /\ f.resuming => SameContext(f, h) /\ h.events = f.events
      /\ ~f.resuming => /\ h.events = f.events \o <<Marker(a, at)>>
                        /\ h.states = With(f.states, a, at) /\ h.ended = f.ended \ {a}
  <2>1. CASE f.resuming
    BY <1>2, <1>8, <2>1 DEF IsFrame, SameContext
  <2>2. CASE ~f.resuming
    <3>1. h = Marked(a, f, at)
      BY <1>8, <2>2
    <3> QED  BY <1>2, <1>7, <2>2, <3>1, MarkedIs
  <2> QED  BY <2>1, <2>2
<1>10. PICK g : g = [h EXCEPT !.at = "wait"]
  OBVIOUS
<1>11. /\ DOMAIN g = Fields /\ g.writer = f.writer /\ g.resuming = f.resuming /\ g.looped = f.looped
       /\ g.next = f.next /\ g.exit = f.exit /\ g.at = "wait" /\ g.states = h.states
       /\ g.ended = h.ended /\ g.events = h.events
  BY <1>9, <1>10 DEF Fields
<1>12. IsFrame(a, g)
  <2>1. IsContext(g)
    BY <1>9, <1>11 DEF IsContext
  <2>2. g.at \in Places(a)
    BY <1>3, <1>11 DEF Places
  <2>3. /\ f.resuming \in BOOLEAN /\ f.looped \in Nat /\ f.next \in Nat \ {0} /\ f.exit \in BOOLEAN
    BY <1>2 DEF IsFrame
  <2> QED  BY <1>9, <1>11, <2>1, <2>2, <2>3 DEF IsFrame
<1>13. Entered(sub, h) = Entered(sub, g)
  BY <1>9, <1>11, EnteredSame
<1>14. frames' = With(With(frames, a, g), sub, Entered(sub, g))
  BY <1>1, <1>4, <1>6, <1>8, <1>10, <1>13 DEF RunSub
<1>15. sub # a
  BY <1>3, <1>5, ParentNotBelow
<1>16. Changes(a, g, {}, {sub})
  <2>1. PICK w : w = With(frames, a, g)
    OBVIOUS
  <2>2. DOMAIN w = DOMAIN frames \cup {a} /\ w[a] = g /\ \A x \in DOMAIN frames : x # a => w[x] = frames[x]
    BY <2>1 DEF With
  <2>3. PICK e : e = Entered(sub, g)
    OBVIOUS
  <2>4. frames' = With(w, sub, e)
    BY <1>14, <2>1, <2>3
  <2>5. DOMAIN frames' = DOMAIN w \cup {sub} /\ frames'[sub] = e /\ \A x \in DOMAIN w : x # sub => frames'[x] = w[x]
    BY <2>4 DEF With
  <2>6. UNCHANGED <<log, turn, outcome>>
    BY DEF RunSub
  <2> QED  BY <1>2, <1>15, <2>2, <2>3, <2>5, <2>6 DEF Changes
<1>17. Calls(a, f, g)
  <2>1. f.resuming => SameContext(f, g) /\ g.events = f.events
    BY <1>9, <1>11 DEF SameContext
  <2>2. ~f.resuming => /\ g.events = f.events \o <<Marker(a, at)>>
                       /\ g.states = With(f.states, a, at) /\ g.ended = f.ended \ {a}
    BY <1>9, <1>11
  <2> QED  BY <1>2, <1>3, <1>4, <1>6, <1>7, <1>11, <2>1, <2>2 DEF Calls
<1>18. Step(a, f, g, {}, {sub})
  BY <1>3, <1>4, <1>17 DEF Step
<1> QED  BY <1>1, <1>12, <1>16, <1>18 DEF Shape

LEMMA ShapeOfJoin ==
    ASSUME NEW a \in AgentNames, NEW sub, AllFrames, Join(a, sub)
    PROVE  Shape(a)
<1>1. PICK f : f = frames[a]
  OBVIOUS
<1>2. PICK h : h = frames[sub]
  OBVIOUS
<1>3. /\ a \in DOMAIN frames /\ f.at = "wait" /\ IsFrame(a, f)
      /\ sub \in DOMAIN frames /\ h.at = "done" /\ IsFrame(sub, h) /\ sub \in Range(SubAgents[a])
  BY <1>1, <1>2 DEF Join, At, AllFrames
<1>4. a \in Sequentials \cup Loops /\ a \in Composites /\ a \notin Parallels /\ a \notin Leaves
  BY CompositeKinds DEF Join
<1>5. PICK es : es = f.events \o h.events
  OBVIOUS
<1>6. PICK w : w = Applied(f.writer, h.events)
  OBVIOUS
<1>7. es \in Seq(Events) /\ w \in AgentNames \cup {Nobody} /\ DOMAIN f = Fields
  <2>1. f.events \in Seq(Events) /\ h.events \in Seq(Events) /\ f.writer \in AgentNames \cup {Nobody}
    BY <1>3 DEF IsFrame, IsContext
  <2> QED  BY <1>3, <1>5, <1>6, <2>1, AppliedIs, ConcatIs DEF IsFrame
<1>8. PICK ex \in BOOLEAN : ex = (a \in Loops /\ Escalates(h.events))
  OBVIOUS
<1>9. PICK k : k = [f EXCEPT !.events = es, !.writer = w, !.resuming = FALSE, !.exit = ex]
  OBVIOUS
<1>10. /\ DOMAIN k = Fields /\ k.events = es /\ k.writer = w /\ k.resuming = FALSE /\ k.exit = ex
       /\ k.states = f.states /\ k.ended = f.ended /\ k.at = f.at /\ k.looped = f.looped /\ k.next = f.next
  BY <1>7, <1>9 DEF Fields
<1>11. /\ frames' = With(Dropped(a), a,
              IF Pauses(h.events) THEN Returned(a, k) ELSE [k EXCEPT !.at = "run", !.next = k.next + 1])
       /\ UNCHANGED <<log, turn, outcome>>
  BY <1>1, <1>2, <1>5, <1>6, <1>7, <1>8, <1>9, <1>10 DEF Join, Fields
<1>12. /\ f.resuming \in BOOLEAN /\ f.looped \in Nat /\ f.next \in Nat \ {0} /\ f.exit \in BOOLEAN
       /\ IsContext(f)
  BY <1>3 DEF IsFrame
<1>13. IsContext(k)
  BY <1>7, <1>10, <1>12 DEF IsContext
<1>14. CASE Pauses(h.events)
  <2>1. PICK g : g = Returned(a, k)
    OBVIOUS
  <2>2. /\ DOMAIN g = Fields /\ g.at = "done" /\ g.events = es \o AfterSaid(a)
        /\ g.states = f.states /\ g.ended = f.ended /\ g.writer = w
        /\ g.resuming = FALSE /\ g.looped = f.looped /\ g.next = f.next /\ g.exit = ex
    <3>1. k.events \in Seq(Events) /\ DOMAIN k = Fields
      BY <1>7, <1>10
    <3>2. /\ DOMAIN g = Fields /\ g.at = "done" /\ g.events = k.events \o AfterSaid(a)
          /\ g.states = k.states /\ g.ended = k.ended /\ g.writer = k.writer
          /\ g.resuming = k.resuming /\ g.looped = k.looped /\ g.next = k.next /\ g.exit = k.exit
      BY <2>1, <3>1, ReturnedIs
    <3> QED  BY <1>10, <3>2
  <2>3. IsFrame(a, g)
    <3>1. IsContext(g)
      BY <1>7, <1>12, <2>2 DEF IsContext
    <3>2. g.at \in Places(a)
      BY <1>4, <2>2 DEF Places
    <3>3. g.events \in Seq(Events)
      BY <1>7, <2>2, AfterSaidIs, ConcatIs
    <3> QED  BY <1>8, <1>12, <2>2, <3>1, <3>2, <3>3 DEF IsFrame
  <2>4. Changes(a, g, Descendants(a), {})
    BY <1>3, <1>11, <1>14, <2>1, OnlyOne DEF Dropped
  <2>5. Stops(a, f, h, g)
    BY <1>3, <1>4, <1>5, <1>14, <2>2 DEF Stops, SameContext
  <2>6. Step(a, f, g, Descendants(a), {})
    BY <1>2, <1>3, <2>5 DEF Step
  <2> QED  BY <1>1, <2>3, <2>4, <2>6 DEF Shape
<1>15. CASE ~Pauses(h.events)
  <2>1. PICK g : g = [k EXCEPT !.at = "run", !.next = k.next + 1]
    OBVIOUS
  <2>2. /\ DOMAIN g = Fields /\ g.at = "run" /\ g.events = es
        /\ g.states = f.states /\ g.ended = f.ended /\ g.writer = w
        /\ g.resuming = FALSE /\ g.looped = f.looped /\ g.next = f.next + 1 /\ g.exit = ex
    BY <1>10, <2>1 DEF Fields
  <2>3. IsFrame(a, g)
    <3>1. IsContext(g)
      BY <1>7, <1>12, <2>2 DEF IsContext
    <3>2. g.at \in Places(a)
      BY <1>4, <2>2 DEF Places
    <3>3. g.next \in Nat \ {0}
      BY <1>12, <2>2
    <3> QED  BY <1>7, <1>8, <1>12, <2>2, <3>1, <3>2, <3>3 DEF IsFrame
  <2>4. Changes(a, g, Descendants(a), {})
    BY <1>3, <1>11, <1>15, <2>1, OnlyOne DEF Dropped
  <2>5. Takes(a, f, h, g)
    BY <1>3, <1>4, <1>5, <1>6, <1>15, <2>2 DEF Takes, SameContext
  <2>6. Step(a, f, g, Descendants(a), {})
    <3>1. g.at # "join" /\ sub \in Range(SubAgents[a]) \cap DOMAIN frames /\ Takes(a, f, frames[sub], g)
      BY <1>2, <1>3, <2>2, <2>5
    <3> QED  BY <3>1 DEF Step
  <2> QED  BY <1>1, <2>3, <2>4, <2>6 DEF Shape
<1> QED  BY <1>14, <1>15

LEMMA EndedIs ==
    ASSUME NEW a \in AgentNames, NEW h, IsFrame(a, h), NEW g, g = Ended(a, h)
    PROVE  /\ IsFrame(a, g) /\ g.at = "done" /\ g.events = (h.events \o <<EndMarker(a)>>) \o AfterSaid(a)
           /\ SameContext(h, g)
<1>1. EndMarker(a) \in Events
  BY EmptyIsState, EventIsTyped DEF EndMarker, Kinds
<1>2. PICK es : es = Append(h.events, EndMarker(a))
  OBVIOUS
<1>3. es = h.events \o <<EndMarker(a)>> /\ es \in Seq(Events) /\ DOMAIN h = Fields
  BY <1>1, <1>2, AppendIsConcat DEF IsFrame
<1>4. PICK k : k = [h EXCEPT !.events = es]
  OBVIOUS
<1>5. /\ DOMAIN k = Fields /\ k.events = es /\ k.writer = h.writer /\ k.resuming = h.resuming
      /\ k.exit = h.exit /\ k.states = h.states /\ k.ended = h.ended /\ k.at = h.at
      /\ k.looped = h.looped /\ k.next = h.next
  BY <1>3, <1>4 DEF Fields
<1>6. g = Returned(a, k)
  BY <1>2, <1>3, <1>4 DEF Ended, Fields
<1>7. /\ DOMAIN g = Fields /\ g.at = "done" /\ g.events = es \o AfterSaid(a)
      /\ g.states = h.states /\ g.ended = h.ended /\ g.writer = h.writer
      /\ g.resuming = h.resuming /\ g.looped = h.looped /\ g.next = h.next /\ g.exit = h.exit
  <2>1. k.events \in Seq(Events) /\ DOMAIN k = Fields
    BY <1>3, <1>5
  <2>2. /\ DOMAIN g = Fields /\ g.at = "done" /\ g.events = k.events \o AfterSaid(a)
        /\ g.states = k.states /\ g.ended = k.ended /\ g.writer = k.writer
        /\ g.resuming = k.resuming /\ g.looped = k.looped /\ g.next = k.next /\ g.exit = k.exit
    BY <1>6, <2>1, ReturnedIs
  <2> QED  BY <1>5, <2>2
<1>8. /\ h.resuming \in BOOLEAN /\ h.looped \in Nat /\ h.next \in Nat \ {0} /\ h.exit \in BOOLEAN
      /\ IsContext(h)
  BY DEF IsFrame
<1>9. IsContext(g)
  BY <1>7, <1>8 DEF IsContext
<1>10. g.events \in Seq(Events)
  BY <1>3, <1>7, AfterSaidIs, ConcatIs
<1>11. g.at \in Places(a)
  BY <1>7 DEF Places
<1> QED  BY <1>3, <1>7, <1>8, <1>9, <1>10, <1>11 DEF IsFrame, SameContext

LEMMA ShapeOfEndSequence ==
    ASSUME NEW a \in AgentNames, AllFrames, EndSequence(a)
    PROVE  Shape(a)
<1>1. PICK f : f = frames[a]
  OBVIOUS
<1>2. a \in DOMAIN frames /\ f.at = "run" /\ f.next > Len(SubAgents[a]) /\ IsFrame(a, f) /\ a \in Sequentials
  BY <1>1 DEF EndSequence, At, AllFrames
<1>3. PICK g : g = Ended(a, f)
  OBVIOUS
<1>4. frames' = With(frames, a, g) /\ UNCHANGED <<log, turn, outcome>>
  BY <1>1, <1>3 DEF EndSequence
<1>5. Changes(a, g, {}, {})
  BY <1>2, <1>4, OnlyOneHere
<1>6. IsFrame(a, g) /\ Ends(a, f, g)
  BY <1>2, <1>3, EndedIs, CompositeKinds DEF Ends, SameContext, Narrower
<1>7. NoneLeft(a, f)
  BY <1>2 DEF NoneLeft
<1> QED  BY <1>1, <1>5, <1>6, <1>7 DEF Shape, Step

LEMMA ShapeOfEndPass ==
    ASSUME NEW a \in AgentNames, AllFrames, EndPass(a)
    PROVE  Shape(a)
<1>1. PICK f : f = frames[a]
  OBVIOUS
<1>2. /\ a \in DOMAIN frames /\ f.at = "run"
      /\ f.exit \/ f.next > Len(SubAgents[a])
      /\ IsFrame(a, f) /\ a \in Loops
  BY <1>1 DEF EndPass, At, AllFrames
<1>3. PICK h : h = [f EXCEPT !.looped = f.looped + 1, !.next = 1]
  OBVIOUS
<1>4. DOMAIN f = Fields /\ f.looped \in Nat
  BY <1>2 DEF IsFrame
<1>5. /\ DOMAIN h = Fields /\ h.events = f.events /\ h.writer = f.writer /\ h.resuming = f.resuming
      /\ h.exit = f.exit /\ h.states = f.states /\ h.ended = f.ended /\ h.at = f.at
      /\ h.looped = f.looped + 1 /\ h.next = 1
  BY <1>3, <1>4 DEF Fields
<1>6. PICK st : st = [x \in DOMAIN f.states \ Descendants(a) |-> f.states[x]]
  OBVIOUS
<1>7. PICK k : k = [h EXCEPT !.states = st, !.ended = f.ended \ Descendants(a)]
  OBVIOUS
<1>8. /\ DOMAIN k = Fields /\ k.events = f.events /\ k.writer = f.writer /\ k.resuming = f.resuming
      /\ k.exit = f.exit /\ k.states = st /\ k.ended = f.ended \ Descendants(a) /\ k.at = "run"
      /\ k.looped = f.looped + 1 /\ k.next = 1
  BY <1>2, <1>5, <1>7 DEF Fields
<1>9. k = Reset(a, h)
  BY <1>5, <1>6, <1>7 DEF Reset, Fields
<1>10. h = [frames[a] EXCEPT !.looped = @ + 1, !.next = 1]
  BY <1>1, <1>3, <1>4 DEF Fields
<1>11. /\ frames' = With(frames, a, IF k.exit \/ k.looped >= MaxIterations[a] THEN Ended(a, k) ELSE k)
       /\ UNCHANGED <<log, turn, outcome>>
  BY <1>9, <1>10 DEF EndPass
<1>12. IsFrame(a, k)
  <2>1. IsStateMap(st)
    BY <1>2, <1>6 DEF IsFrame, IsContext, IsStateMap
  <2>2. IsContext(k)
    BY <1>2, <1>8, <2>1 DEF IsFrame, IsContext
  <2>3. k.at \in Places(a)
    BY <1>8 DEF Places
  <2>4. /\ f.resuming \in BOOLEAN /\ f.exit \in BOOLEAN /\ f.events \in Seq(Events)
    BY <1>2 DEF IsFrame
  <2>5. k.looped \in Nat /\ k.next \in Nat \ {0}
    BY <1>4, <1>8
  <2> QED  BY <1>8, <2>2, <2>3, <2>4, <2>5 DEF IsFrame
<1>13. CASE k.exit \/ k.looped >= MaxIterations[a]
  <2>1. PICK g : g = Ended(a, k)
    OBVIOUS
  <2>2. Changes(a, g, {}, {})
    BY <1>2, <1>11, <1>13, <2>1, OnlyOneHere
  <2>3. /\ IsFrame(a, g) /\ g.at = "done" /\ g.events = (f.events \o <<EndMarker(a)>>) \o AfterSaid(a)
        /\ SameContext(k, g)
    BY <1>8, <1>12, <2>1, EndedIs
  <2>4. Ends(a, f, g)
    BY <1>2, <1>6, <1>8, <2>3, CompositeKinds DEF Ends, SameContext, Narrower
  <2>5. NoneLeft(a, f)
    BY <1>2 DEF NoneLeft
  <2> QED  BY <1>1, <2>2, <2>3, <2>4, <2>5 DEF Shape, Step
<1>14. CASE ~(k.exit \/ k.looped >= MaxIterations[a])
  <2>1. Changes(a, k, {}, {})
    BY <1>2, <1>11, <1>14, OnlyOneHere
  <2>2. k.looped < MaxIterations[a] /\ ~f.exit /\ k.exit = FALSE
    <3>1. MaxIterations[a] \in Nat /\ k.looped \in Nat /\ k.exit \in BOOLEAN
      BY <1>2, <1>4, <1>8, AgentTree DEF IsFrame
    <3> QED  BY <1>8, <1>14, <3>1
  <2>3. PassesOn(a, f, k)
    BY <1>2, <1>6, <1>8, <2>2 DEF PassesOn
  <2> QED  BY <1>1, <1>12, <2>1, <2>3 DEF Shape, Step
<1> QED  BY <1>13, <1>14

LEMMA ShapeOfSpawn ==
    ASSUME NEW a \in AgentNames, AllFrames, Spawn(a)
    PROVE  Shape(a)
<1>1. PICK f : f = frames[a]
  OBVIOUS
<1>2. a \in DOMAIN frames /\ f.at = "run" /\ IsFrame(a, f) /\ a \in Parallels
  BY <1>1 DEF Spawn, At, AllFrames
<1>3. a \in Composites /\ a \notin Sequentials /\ a \notin Loops /\ a \notin Leaves
  BY <1>2, CompositeKinds
<1>4. PICK h : h = IF f.resuming THEN f ELSE Marked(a, f, Empty)
  OBVIOUS
<1>5. /\ DOMAIN h = Fields /\ h.writer = f.writer /\ h.resuming = f.resuming /\ h.looped = f.looped
      /\ h.next = f.next /\ h.exit = f.exit /\ IsContext(h) /\ h.events \in Seq(Events)
      /\ f.resuming => SameContext(f, h) /\ h.events = f.events
      /\ ~f.resuming => /\ h.events = f.events \o <<Marker(a, Empty)>>
                        /\ h.states = With(f.states, a, Empty) /\ h.ended = f.ended \ {a}
  <2>1. CASE f.resuming
    BY <1>2, <1>4, <2>1 DEF IsFrame, SameContext
  <2>2. CASE ~f.resuming
    <3>1. PICK at \in AgentState : at = Empty
      BY EmptyIsState
    <3>2. h = Marked(a, f, at)
      BY <1>4, <2>2, <3>1
    <3>3. /\ DOMAIN h = Fields /\ h.events = f.events \o <<Marker(a, at)>>
          /\ h.states = With(f.states, a, at) /\ h.ended = f.ended \ {a} /\ h.writer = f.writer
          /\ h.resuming = f.resuming /\ h.looped = f.looped /\ h.next = f.next /\ h.exit = f.exit
          /\ IsContext(h) /\ h.events \in Seq(Events)
      BY <1>2, <3>2, MarkedIs
    <3> QED  BY <2>2, <3>1, <3>3
  <2> QED  BY <2>1, <2>2
<1>6. PICK g : g = [h EXCEPT !.at = "join"]
  OBVIOUS
<1>7. /\ DOMAIN g = Fields /\ g.writer = f.writer /\ g.resuming = f.resuming /\ g.looped = f.looped
      /\ g.next = f.next /\ g.exit = f.exit /\ g.at = "join" /\ g.states = h.states
      /\ g.ended = h.ended /\ g.events = h.events
  BY <1>5, <1>6 DEF Fields
<1>8. IsFrame(a, g)
  <2>1. IsContext(g)
    BY <1>5, <1>7 DEF IsContext
  <2>2. g.at \in Places(a)
    BY <1>2, <1>3, <1>7 DEF Places
  <2>3. /\ f.resuming \in BOOLEAN /\ f.looped \in Nat /\ f.next \in Nat \ {0} /\ f.exit \in BOOLEAN
    BY <1>2 DEF IsFrame
  <2> QED  BY <1>5, <1>7, <2>1, <2>2, <2>3 DEF IsFrame
<1>9. \A x : Entered(x, h) = Entered(x, g)
  BY <1>5, <1>7, EnteredSame
<1>10. PICK E : E = Range(SubAgents[a]) \ g.ended
  OBVIOUS
<1>11. /\ frames' = [x \in DOMAIN frames \cup E |->
                       IF x = a THEN g ELSE IF x \in E THEN Entered(x, g) ELSE frames[x]]
       /\ UNCHANGED <<log, turn, outcome>>
  BY <1>1, <1>4, <1>6, <1>7, <1>9, <1>10 DEF Spawn
<1>12. a \notin E
  BY <1>3, <1>10, ParentNotBelow
<1>13. Changes(a, g, {}, E)
  BY <1>2, <1>11, <1>12 DEF Changes
<1>14. Calls(a, f, g)
  <2>1. f.resuming => SameContext(f, g) /\ g.events = f.events
    BY <1>5, <1>7 DEF SameContext
  <2>2. ~f.resuming => /\ g.events = f.events \o <<Marker(a, Empty)>>
                       /\ g.states = With(f.states, a, Empty) /\ g.ended = f.ended \ {a}
    BY <1>5, <1>7
  <2> QED  BY <1>2, <1>3, <1>7, <2>1, <2>2, EmptyIsState DEF Calls
<1>15. Step(a, f, g, {}, E)
  BY <1>2, <1>10, <1>14 DEF Step
<1> QED  BY <1>1, <1>8, <1>13, <1>15 DEF Shape

LEMMA ShapeOfJoinNext ==
    ASSUME NEW a \in AgentNames, NEW sub, AllFrames, JoinNext(a, sub)
    PROVE  Shape(a)
<1>1. PICK f : f = frames[a]
  OBVIOUS
<1>2. PICK h : h = frames[sub]
  OBVIOUS
<1>3. /\ a \in DOMAIN frames /\ f.at = "join" /\ IsFrame(a, f) /\ a \in Parallels
      /\ sub \in DOMAIN frames /\ h.at = "done" /\ IsFrame(sub, h) /\ sub \in Range(SubAgents[a])
  BY <1>1, <1>2 DEF JoinNext, At, AllFrames
<1>4. a \in Composites /\ a \notin Sequentials /\ a \notin Loops /\ a \notin Leaves
  BY <1>3, CompositeKinds
<1>5. PICK es : es = f.events \o h.events
  OBVIOUS
<1>6. PICK w : w = Applied(f.writer, h.events)
  OBVIOUS
<1>7. es \in Seq(Events) /\ w \in AgentNames \cup {Nobody} /\ DOMAIN f = Fields
  <2>1. f.events \in Seq(Events) /\ h.events \in Seq(Events) /\ f.writer \in AgentNames \cup {Nobody}
    BY <1>3 DEF IsFrame, IsContext
  <2> QED  BY <1>3, <1>5, <1>6, <2>1, AppliedIs, ConcatIs DEF IsFrame
<1>8. PICK k : k = [f EXCEPT !.events = es, !.writer = w]
  OBVIOUS
<1>9. PICK g : g = IF Escalates(h.events) THEN [k EXCEPT !.at = "joined"] ELSE k
  OBVIOUS
<1>10. /\ DOMAIN g = Fields /\ g.events = es /\ g.writer = w /\ g.resuming = f.resuming /\ g.exit = f.exit
       /\ g.states = f.states /\ g.ended = f.ended /\ g.looped = f.looped /\ g.next = f.next
       /\ g.at = IF Escalates(h.events) THEN "joined" ELSE "join"
  BY <1>3, <1>7, <1>8, <1>9 DEF Fields
<1>11. /\ frames' = IF Escalates(h.events) THEN With(Dropped(a), a, g) ELSE With(Without(frames, sub), a, g)
       /\ UNCHANGED <<log, turn, outcome>>
  <2>1. k = [frames[a] EXCEPT !.events = @ \o h.events, !.writer = Applied(@, h.events)]
    BY <1>1, <1>5, <1>6, <1>7, <1>8 DEF Fields
  <2> QED  BY <1>2, <1>9, <2>1 DEF JoinNext
<1>12. IsFrame(a, g)
  <2>1. /\ f.resuming \in BOOLEAN /\ f.looped \in Nat /\ f.next \in Nat \ {0} /\ f.exit \in BOOLEAN
        /\ IsContext(f)
    BY <1>3 DEF IsFrame
  <2>2. IsContext(g)
    BY <1>7, <1>10, <2>1 DEF IsContext
  <2>3. g.at \in Places(a)
    BY <1>3, <1>4, <1>10 DEF Places
  <2> QED  BY <1>7, <1>10, <2>1, <2>2, <2>3 DEF IsFrame
<1>13. Takes(a, f, h, g)
  BY <1>3, <1>4, <1>5, <1>6, <1>10 DEF Takes, SameContext
<1>14. PICK D : D = IF g.at = "join" THEN {sub} ELSE Descendants(a)
  OBVIOUS
<1>15. Changes(a, g, D, {})
  <2>1. frames' = With([x \in DOMAIN frames \ D |-> frames[x]], a, g)
    BY <1>10, <1>11, <1>14 DEF Dropped, Without
  <2> QED  BY <1>3, <1>11, <2>1, OnlyOne
<1>16. Step(a, f, g, D, {})
  <2>1. sub \in Range(SubAgents[a]) \cap DOMAIN frames /\ Takes(a, f, frames[sub], g)
    BY <1>2, <1>3, <1>13
  <2> QED  BY <1>14, <2>1 DEF Step
<1> QED  BY <1>1, <1>12, <1>15, <1>16 DEF Shape

LEMMA ShapeOfEndParallel ==
    ASSUME NEW a \in AgentNames, AllFrames, EndParallel(a)
    PROVE  Shape(a)
<1>1. PICK f : f = frames[a]
  OBVIOUS
<1>2. /\ a \in DOMAIN frames /\ f.at \in {"join", "joined"} /\ IsFrame(a, f) /\ a \in Parallels
      /\ NoneLeft(a, f)
  BY <1>1 DEF EndParallel, At, AllFrames, NoneLeft
<1>3. a \in Composites /\ a \notin Sequentials /\ a \notin Loops /\ a \notin Leaves
  BY <1>2, CompositeKinds
<1>4. CASE Pauses(f.events)
  <2>1. PICK g : g = Returned(a, f)
    OBVIOUS
  <2>2. frames' = With(frames, a, g) /\ UNCHANGED <<log, turn, outcome>>
    BY <1>1, <1>4, <2>1 DEF EndParallel
  <2>3. Changes(a, g, {}, {})
    BY <1>2, <2>2, OnlyOneHere
  <2>4. DOMAIN f = Fields /\ f.events \in Seq(Events) /\ IsContext(f)
        /\ f.resuming \in BOOLEAN /\ f.looped \in Nat /\ f.next \in Nat \ {0} /\ f.exit \in BOOLEAN
    BY <1>2 DEF IsFrame
  <2>5. /\ DOMAIN g = Fields /\ g.at = "done" /\ g.events = f.events \o AfterSaid(a)
        /\ g.states = f.states /\ g.ended = f.ended /\ g.writer = f.writer
        /\ g.resuming = f.resuming /\ g.looped = f.looped /\ g.next = f.next /\ g.exit = f.exit
    BY <2>1, <2>4, ReturnedIs, SMTT(60)
  <2>6. g.events \in Seq(Events)
    BY <2>4, <2>5, AfterSaidIs, ConcatIs
  <2>7. IsContext(g) /\ g.at \in Places(a)
    BY <2>4, <2>5 DEF IsContext, Places
  <2>8. IsFrame(a, g)
    BY <2>4, <2>5, <2>6, <2>7 DEF IsFrame
  <2>9. Finishes(a, f, g)
    BY <1>2, <1>4, <2>5 DEF Finishes, SameContext
  <2> QED  BY <1>1, <1>2, <2>3, <2>8, <2>9 DEF Shape, Step
<1>5. CASE ~Pauses(f.events)
  <2>1. PICK g : g = Ended(a, f)
    OBVIOUS
  <2>2. frames' = With(frames, a, g) /\ UNCHANGED <<log, turn, outcome>>
    BY <1>1, <1>5, <2>1 DEF EndParallel
  <2>3. Changes(a, g, {}, {})
    BY <1>2, <2>2, OnlyOneHere
  <2>4. /\ IsFrame(a, g) /\ g.at = "done" /\ g.events = (f.events \o <<EndMarker(a)>>) \o AfterSaid(a)
        /\ SameContext(f, g)
    BY <1>2, <2>1, EndedIs
  <2>5. Ends(a, f, g)
    BY <1>2, <1>3, <1>5, <2>4 DEF Ends, SameContext, Narrower
  <2> QED  BY <1>1, <1>2, <2>3, <2>4, <2>5 DEF Shape, Step
<1> QED  BY <1>4, <1>5

LEMMA FailedIs ==
    ASSUME NEW a \in AgentNames, NEW f, IsFrame(a, f), NEW g, g = [f EXCEPT !.at = "failed"]
    PROVE  IsFrame(a, g) /\ Fails(a, f, g)
<1>1. /\ DOMAIN f = Fields /\ f.events \in Seq(Events) /\ IsContext(f)
      /\ f.resuming \in BOOLEAN /\ f.looped \in Nat /\ f.next \in Nat \ {0} /\ f.exit \in BOOLEAN
  BY DEF IsFrame
<1>2. /\ DOMAIN g = Fields /\ g.at = "failed" /\ g.events = f.events
      /\ g.states = f.states /\ g.ended = f.ended /\ g.writer = f.writer
      /\ g.resuming = f.resuming /\ g.looped = f.looped /\ g.next = f.next /\ g.exit = f.exit
  BY <1>1 DEF Fields
<1>3. IsContext(g) /\ g.at \in Places(a)
  BY <1>1, <1>2 DEF IsContext, Places
<1> QED  BY <1>1, <1>2, <1>3 DEF IsFrame, Fails, SameContext

LEMMA ShapeOfRunLeaf ==
    ASSUME NEW a \in AgentNames, NEW answer, AllFrames, RunLeaf(a, answer)
    PROVE  Shape(a)
<1>1. PICK f : f = frames[a]
  OBVIOUS
<1>2. a \in DOMAIN frames /\ f.at = "run" /\ IsFrame(a, f) /\ a \in Leaves /\ answer \in Answers[a]
  BY <1>1 DEF RunLeaf, At, AllFrames
<1>3. answer \in {"say", "write", "ask", "escalate", "fail"}
  BY <1>2, AgentTree
<1>4. CASE answer = "fail"
  <2>1. PICK g : g = [f EXCEPT !.at = "failed"]
    OBVIOUS
  <2>2. frames' = With(frames, a, g) /\ UNCHANGED <<log, turn, outcome>>
    BY <1>1, <1>4, <2>1 DEF RunLeaf
  <2>3. Changes(a, g, {}, {})
    BY <1>2, <2>2, OnlyOneHere
  <2>4. Descendants(a) = {}
    BY <1>2, LeavesHaveNone
  <2>5. IsFrame(a, g) /\ Fails(a, f, g)
    BY <1>2, <2>1, FailedIs
  <2> QED  BY <1>1, <2>3, <2>4, <2>5 DEF Shape, Step
<1>5. CASE answer # "fail"
  <2>1. PICK e : e = Event(a, answer, Empty)
    OBVIOUS
  <2>2. e \in Events
    BY <1>3, <1>5, <2>1, EmptyIsState, EventIsTyped DEF Kinds
  <2>3. PICK es : es = Append(f.events, e)
    OBVIOUS
  <2>4. DOMAIN f = Fields /\ f.events \in Seq(Events) /\ IsContext(f)
        /\ f.resuming \in BOOLEAN /\ f.looped \in Nat /\ f.next \in Nat \ {0} /\ f.exit \in BOOLEAN
    BY <1>2 DEF IsFrame
  <2>5. es \in Seq(Events) /\ es = f.events \o <<e>>
    BY <2>2, <2>3, <2>4, AppendIsConcat
  <2>6. PICK k : k = [f EXCEPT !.events = es]
    OBVIOUS
  <2>7. /\ DOMAIN k = Fields /\ k.events = es /\ k.writer = f.writer /\ k.resuming = f.resuming
        /\ k.exit = f.exit /\ k.states = f.states /\ k.ended = f.ended /\ k.at = f.at
        /\ k.looped = f.looped /\ k.next = f.next
    BY <2>4, <2>6 DEF Fields
  <2>8. PICK g : g = Returned(a, k)
    OBVIOUS
  <2>9. k = [frames[a] EXCEPT !.events = Append(@, Event(a, answer, Empty))]
    BY <1>1, <2>1, <2>3, <2>4, <2>6 DEF Fields
  <2>10. frames' = With(frames, a, g) /\ UNCHANGED <<log, turn, outcome>>
    BY <1>1, <1>5, <2>8, <2>9 DEF RunLeaf
  <2>11. Changes(a, g, {}, {})
    BY <1>2, <2>10, OnlyOneHere
  <2>12. /\ DOMAIN g = Fields /\ g.at = "done" /\ g.events = es \o AfterSaid(a)
         /\ g.states = f.states /\ g.ended = f.ended /\ g.writer = f.writer
         /\ g.resuming = f.resuming /\ g.looped = f.looped /\ g.next = f.next /\ g.exit = f.exit
    <3>1. k.events \in Seq(Events) /\ DOMAIN k = Fields
      BY <2>5, <2>7
    <3>2. /\ DOMAIN g = Fields /\ g.at = "done" /\ g.events = k.events \o AfterSaid(a)
          /\ g.states = k.states /\ g.ended = k.ended /\ g.writer = k.writer
          /\ g.resuming = k.resuming /\ g.looped = k.looped /\ g.next = k.next /\ g.exit = k.exit
      BY <2>8, <3>1, ReturnedIs
    <3> QED  BY <2>7, <3>2
  <2>13. g.events \in Seq(Events)
    BY <2>5, <2>12, AfterSaidIs, ConcatIs
  <2>14. IsContext(g) /\ g.at \in Places(a)
    BY <2>4, <2>12 DEF IsContext, Places
  <2>15. IsFrame(a, g)
    BY <2>4, <2>12, <2>13, <2>14 DEF IsFrame
  <2>16. Replies(a, f, g)
    BY <1>2, <1>3, <1>5, <2>1, <2>5, <2>12 DEF Replies, SameContext
  <2> QED  BY <1>1, <2>11, <2>15, <2>16 DEF Shape, Step
<1> QED  BY <1>4, <1>5

LEMMA ShapeOfFail ==
    ASSUME NEW a \in AgentNames, AllFrames, Fail(a)
    PROVE  Shape(a)
<1>1. PICK f : f = frames[a]
  OBVIOUS
<1>2. a \in DOMAIN frames /\ IsFrame(a, f)
  BY <1>1 DEF Fail, At, AllFrames
<1>3. PICK g : g = [f EXCEPT !.at = "failed"]
  OBVIOUS
<1>4. frames' = With(Dropped(a), a, g) /\ UNCHANGED <<log, turn, outcome>>
  BY <1>1, <1>3 DEF Fail
<1>5. Changes(a, g, Descendants(a), {})
  BY <1>2, <1>4, OnlyOne DEF Dropped
<1>6. IsFrame(a, g) /\ Fails(a, f, g)
  BY <1>2, <1>3, FailedIs
<1> QED  BY <1>1, <1>5, <1>6 DEF Shape, Step

LEMMA ShapeOfStep ==
    ASSUME NEW a \in AgentNames, AllFrames, AgentStep(a)
    PROVE  Shape(a)
<1>1. CASE RunSub(a) \/ EndSequence(a) \/ EndPass(a) \/ Spawn(a) \/ EndParallel(a) \/ Fail(a)
  BY <1>1, ShapeOfRunSub, ShapeOfEndSequence, ShapeOfEndPass, ShapeOfSpawn, ShapeOfEndParallel, ShapeOfFail
<1>2. CASE \E sub \in AgentNames : Join(a, sub) \/ JoinNext(a, sub)
  BY <1>2, ShapeOfJoin, ShapeOfJoinNext
<1>3. CASE \E answer \in {"say", "write", "ask", "escalate", "fail"} : RunLeaf(a, answer)
  BY <1>3, ShapeOfRunLeaf
<1> QED  BY <1>1, <1>2, <1>3 DEF AgentStep

-----------------------------------------------------------------------------
(* What holds of every frame; L is the log.                                *)

Ordered(s) ==
    \A i, j \in DOMAIN s :
        i < j /\ s[i].kind = "ask" /\ s[j].kind = "end" => s[j].by \notin Above(s[i].by)
Told(L, f) == Range(L) \cup Range(f.events)

Within(S, a) == \A e \in S : e.by \in SubTree(a)
Mine(a, f) == Within(Range(f.events), a)
Idle(a, f) == f.at = "run" /\ a \notin Sequentials \cup Loops => f.events = <<>>
Going(f) == f.at \in {"run", "wait"} => ~Pauses(f.events)
Counting(a, f) == a \in Loops /\ f.at \in {"run", "wait"} => f.looped < MaxIterations[a]
Noted(L, a, f) ==
    a \in Composites /\ (f.at \in {"wait", "join", "joined"} \/ (f.at = "run" /\ f.resuming))
        => Seen(Told(L, f), a)
DoneOK(a, f) == f.at = "done" => Over(Range(f.events), a) \/ Pauses(f.events)
Progress(L, a, f) ==
    a \in Sequentials /\ f.at \in {"run", "wait"} =>
        \A j \in DOMAIN SubAgents[a] : j < f.next => Over(Told(L, f), SubAgents[a][j])
Carried(L, A, f) ==
    \A x \in DOMAIN f.states \ A :
        x \in DOMAIN Populated(L).states /\ f.states[x] = Populated(L).states[x]

Good(L, a, f) ==
    /\ Mine(a, f) /\ Idle(a, f) /\ Going(f) /\ Counting(a, f) /\ Noted(L, a, f) /\ DoneOK(a, f)
    /\ Progress(L, a, f) /\ Carried(L, {a} \cup Above(a), f)
    /\ Ordered(f.events) /\ Grounded(Range(L), f.events)

LEMMA PausesIs ==
    ASSUME NEW s \in Seq(Events)
    PROVE  Pauses(s) <=> \E e \in Range(s) : e.kind = "ask"
BY RangeIs DEF Pauses

LEMMA OrderedConcat ==
    ASSUME NEW s \in Seq(Events), NEW t \in Seq(Events), NEW u, u = s \o t, Ordered(s), Ordered(t),
           \A d \in Range(s), e \in Range(t) : d.kind = "ask" /\ e.kind = "end" => e.by \notin Above(d.by)
    PROVE  Ordered(u)
<1>1. SUFFICES ASSUME NEW i \in DOMAIN u, NEW j \in DOMAIN u, i < j, u[i].kind = "ask", u[j].kind = "end"
               PROVE  u[j].by \notin Above(u[i].by)
  BY DEF Ordered
<1>2. i \in Nat /\ j \in Nat /\ Len(s) \in Nat /\ DOMAIN s = 1 .. Len(s) /\ i >= 1
  BY ConcatIs
<1>3. CASE j \in DOMAIN s
  <2>1. i \in DOMAIN s
    BY <1>1, <1>2, <1>3
  <2>2. u[i] = s[i] /\ u[j] = s[j]
    BY <1>2, <1>3, <2>1, ConcatIs
  <2> QED  BY <1>1, <1>3, <2>1, <2>2 DEF Ordered
<1>4. CASE j \notin DOMAIN s /\ i \in DOMAIN s
  <2>1. j - Len(s) \in DOMAIN t /\ u[j] = t[j - Len(s)] /\ u[i] = s[i]
    BY <1>2, <1>4, ConcatIs
  <2>2. u[j] \in Range(t) /\ u[i] \in Range(s)
    BY <1>4, <2>1, RangeIs
  <2> QED  BY <1>1, <2>2
<1>5. CASE j \notin DOMAIN s /\ i \notin DOMAIN s
  <2>1. PICK k \in DOMAIN t : k = j - Len(s) /\ u[j] = t[k]
    BY <1>5, ConcatIs
  <2>2. PICK m \in DOMAIN t : m = i - Len(s) /\ u[i] = t[m]
    BY <1>5, ConcatIs
  <2>3. m < k
    BY <1>1, <1>2, <2>1, <2>2
  <2> QED  BY <1>1, <2>1, <2>2, <2>3 DEF Ordered
<1> QED  BY <1>3, <1>4, <1>5

LEMMA OrderedShort ==
    ASSUME NEW s \in Seq(Events), \A e \in Range(s) : e.kind # "ask"
    PROVE  Ordered(s)
BY RangeIs DEF Ordered

LEMMA AboveIs ==
    ASSUME NEW a \in AgentNames, NEW x
    PROVE  x \in Above(a) <=> x \in Composites /\ a \in Descendants(x)
BY DEF Above

HasMark(S, a) == \E d \in S : d.by = a /\ d.kind \in Marks

LEMMA GroundedSay ==
    ASSUME NEW a \in After, a \in Composites, NEW S, HasMark(S, a)
    PROVE  Grounded(S, AfterSaid(a))
<1>1. PICK e : e = Event(a, "say", Empty)
  OBVIOUS
<1>2. e \in Events /\ e.by = a /\ e.kind = "say"
  BY <1>1, EmptyIsState, EventIsTyped, AgentTree DEF Kinds, Event
<1>3. PICK C : C = S \cup {e}
  OBVIOUS
<1>4. GroundedEvent(C, e)
  BY <1>2, <1>3, CompositeKinds DEF GroundedEvent, Marks, HasMark
<1>5. Grounded(S, <<e>>)
  BY <1>2, <1>3, <1>4, GroundedOne
<1> QED  BY <1>1, <1>5 DEF AfterSaid

LEMMA SayIsGrounded ==
    ASSUME NEW a \in Composites, NEW S, HasMark(S, a)
    PROVE  Grounded(S, AfterSaid(a))
<1>1. CASE a \in After
  BY <1>1, GroundedSay
<1>2. CASE a \notin After
  BY <1>2, AfterSaidIs, NoEvents DEF Grounded, AfterSaid
<1> QED  BY <1>1, <1>2

(* An agent that is entered, with what its context remembers of it.        *)
LEMMA EnteredGood ==
    ASSUME NEW L \in Seq(Events), Grounded({}, L), NEW x \in AgentNames, NEW c, IsContext(c),
           Carried(L, Above(x), c), NEW g, g = Entered(x, c)
    PROVE  Good(L, x, g)
<1>1. PICK at : at = IF x \in DOMAIN c.states THEN c.states[x] ELSE Empty
  OBVIOUS
<1>2. /\ g.states = c.states /\ g.ended = c.ended /\ g.writer = c.writer
      /\ g.events = <<>> /\ g.at = "run" /\ g.resuming = (x \in DOMAIN c.states)
      /\ g.looped = at.looped /\ g.exit = FALSE
      /\ g.next = IF x \in DOMAIN c.states /\ x \in Sequentials \cup Loops THEN StartIndex(x, at) ELSE 1
  BY <1>1 DEF Entered
<1>3. PICK P : P = Populated(L)
  OBVIOUS
<1>4. ASSUME x \in DOMAIN c.states
      PROVE  /\ x \in DOMAIN P.states /\ at = P.states[x] /\ Seen(Range(L), x)
             /\ x \in Sequentials /\ at.sub = Nobody =>
                   \A y \in Range(SubAgents[x]) : Over(Range(L), y)
             /\ x \in Sequentials /\ at.sub # Nobody =>
                   /\ at.sub \in Range(SubAgents[x])
                   /\ \A j \in DOMAIN SubAgents[x] :
                         j < Index(x, at.sub) => Over(Range(L), SubAgents[x][j])
             /\ x \in Loops => at.looped < MaxIterations[x]
  <2>1. x \notin Above(x)
    BY NoneBelowItself DEF Above
  <2>2. x \in DOMAIN P.states /\ at = P.states[x]
    BY <1>1, <1>3, <1>4, <2>1 DEF Carried
  <2> QED  BY <1>3, <2>2, Remembered
<1>5. Range(g.events) = {} /\ Told(L, g) = Range(L) /\ DOMAIN g.events = {}
  BY <1>2, NoEvents DEF Told
<1>6. Mine(x, g) /\ DoneOK(x, g) /\ Ordered(g.events) /\ Grounded(Range(L), g.events) /\ Idle(x, g)
  BY <1>2, <1>5 DEF Mine, Within, DoneOK, Ordered, Grounded, Idle
<1>7. Going(g)
  BY <1>5 DEF Going, Pauses
<1>8. Counting(x, g)
  <2>1. SUFFICES ASSUME x \in Loops PROVE g.looped < MaxIterations[x]
    BY DEF Counting
  <2>2. MaxIterations[x] \in Nat \ {0}
    BY <2>1, AgentTree
  <2>3. CASE x \in DOMAIN c.states
    BY <1>2, <1>4, <2>1, <2>3
  <2>4. CASE x \notin DOMAIN c.states
    BY <1>1, <1>2, <2>2, <2>4, EmptyIsState
  <2> QED  BY <2>3, <2>4
<1>9. Noted(L, x, g)
  BY <1>2, <1>4, <1>5 DEF Noted
<1>10. Progress(L, x, g)
  <2>1. SUFFICES ASSUME x \in Sequentials, NEW j \in DOMAIN SubAgents[x], j < g.next
                 PROVE  Over(Range(L), SubAgents[x][j])
    BY <1>5 DEF Progress
  <2>2. x \in Composites /\ x \notin Loops
    BY <2>1, CompositeKinds
  <2>3. SubAgents[x][j] \in Range(SubAgents[x]) /\ j \in Nat /\ j >= 1
    BY <2>2, SubAgentFacts
  <2>4. x \in DOMAIN c.states
    BY <1>2, <2>1, <2>3
  <2>5. g.next = StartIndex(x, at)
    BY <1>2, <2>1, <2>4
  <2>6. CASE at.sub = Nobody
    BY <1>4, <2>1, <2>3, <2>4, <2>6
  <2>7. CASE at.sub # Nobody
    <3>1. g.next = Index(x, at.sub)
      BY <2>5, <2>7 DEF StartIndex
    <3> QED  BY <1>4, <2>1, <2>4, <2>7, <3>1
  <2> QED  BY <2>6, <2>7
<1>11. Carried(L, {x} \cup Above(x), g)
  BY <1>2 DEF Carried
<1> QED  BY <1>6, <1>7, <1>8, <1>9, <1>10, <1>11 DEF Good

LEMMA CallsGood ==
    ASSUME NEW L \in Seq(Events), NEW a \in AgentNames, NEW f, NEW g, IsFrame(a, f), IsFrame(a, g),
           Good(L, a, f), Calls(a, f, g)
    PROVE  Good(L, a, g)
<1>1. /\ a \in Composites /\ f.at = "run" /\ g.at \in {"wait", "join"}
      /\ a \in Parallels => g.at = "join"
      /\ a \notin Parallels => f.next <= Len(SubAgents[a]) /\ g.at = "wait"
      /\ g.next = f.next /\ g.looped = f.looped /\ g.resuming = f.resuming
      /\ f.next \in Nat \ {0} /\ f.looped \in Nat /\ f.events \in Seq(Events) /\ g.events \in Seq(Events)
  BY DEF Calls, IsFrame
<1>2. CASE f.resuming
  <2>1. g.events = f.events /\ g.states = f.states /\ Told(L, g) = Told(L, f)
    BY <1>2 DEF Calls, SameContext, Told
  <2>2. Noted(L, a, g)
    BY <1>1, <1>2, <2>1 DEF Good, Noted
  <2> QED  BY <1>1, <1>2, <2>1, <2>2 DEF Good, Mine, Idle, Going, Counting, DoneOK, Progress, Carried
<1>3. CASE ~f.resuming
  <2>1. PICK at \in AgentState :
              /\ at = IF a \in Parallels THEN Empty ELSE State(SubAgents[a][f.next], f.looped)
              /\ g.events = f.events \o <<Marker(a, at)>>
              /\ g.states = With(f.states, a, at)
    BY <1>3 DEF Calls
  <2>2. PICK e \in Events : e = Marker(a, at) /\ e.by = a /\ e.kind = "state" /\ e.at = at
    BY <2>1, EventIsTyped DEF Marker, Event, Kinds
  <2>3. PICK t : t = <<e>>
    OBVIOUS
  <2>4. t \in Seq(Events) /\ Range(t) = {e} /\ g.events = f.events \o t
    BY <2>1, <2>2, <2>3, OneEvent
  <2>5. Range(g.events) = Range(f.events) \cup {e} /\ Told(L, g) = Told(L, f) \cup {e}
    <3>1. PICK s \in Seq(Events) : s = f.events
      BY <1>1
    <3>2. PICK u : u = g.events
      OBVIOUS
    <3>3. u = s \o t
      BY <2>4, <3>1, <3>2
    <3>4. Range(u) = Range(s) \cup Range(t)
      BY <2>4, <3>3, ConcatIs
    <3> QED  BY <2>4, <3>1, <3>2, <3>4 DEF Told
  <2>6. Told(L, g) = Told(L, f) \cup {e}
    BY <2>5
  <2>7. Mine(a, g)
    BY <2>2, <2>5 DEF Good, Mine, Within, SubTree
  <2>8. Idle(a, g) /\ DoneOK(a, g)
    BY <1>1 DEF Idle, DoneOK
  <2>9. Going(g)
    <3>1. ~Pauses(f.events)
      BY <1>1 DEF Good, Going
    <3> QED  BY <1>1, <2>2, <2>5, <3>1, PausesIs DEF Going
  <2>10. Counting(a, g)
    BY <1>1 DEF Good, Counting
  <2>11. Noted(L, a, g)
    BY <2>2, <2>6 DEF Noted, Seen
  <2>12. Progress(L, a, g)
    BY <1>1, <2>6, OverMore DEF Good, Progress
  <2>13. Carried(L, {a} \cup Above(a), g)
    BY <2>1 DEF Good, Carried, With
  <2>14. Ordered(g.events)
    <3>1. Ordered(t)
      BY <2>2, <2>4, OrderedShort
    <3>2. Ordered(f.events)
      BY DEF Good
    <3> QED  BY <1>1, <2>2, <2>4, <3>1, <3>2, OrderedConcat
  <2>15. Grounded(Range(L), g.events)
    <3>1. PICK S : S = Told(L, f)
      OBVIOUS
    <3>2. PICK C : C = S \cup {e}
      OBVIOUS
    <3>3. ASSUME a \notin Parallels
          PROVE  at.sub = SubAgents[a][f.next] /\ at.looped = f.looped /\ at.sub \in Range(SubAgents[a])
                 /\ Index(a, at.sub) = f.next
      <4>1. at.sub = SubAgents[a][f.next] /\ at.looped = f.looped
        BY <2>1, <3>3 DEF State
      <4>2. f.next \in DOMAIN SubAgents[a]
        BY <1>1, <3>3, SubAgentFacts
      <4> QED  BY <1>1, <4>1, <4>2, SubAgentFacts, IndexFacts
    <3>4. ASSUME a \in Loops PROVE f.looped < MaxIterations[a]
      BY <1>1, <3>4 DEF Good, Counting
    <3>5. ASSUME a \in Sequentials, NEW j \in DOMAIN SubAgents[a], j < f.next
          PROVE  Over(C, SubAgents[a][j])
      <4>1. Over(S, SubAgents[a][j])
        BY <1>1, <3>1, <3>5 DEF Good, Progress
      <4> QED  BY <3>2, <4>1, OverMore
    <3>6. GroundedEvent(C, e)
      BY <1>1, <2>2, <3>3, <3>4, <3>5, CompositeKinds DEF GroundedEvent, Marks
    <3>7. Grounded(S, t)
      BY <2>3, <3>2, <3>6, GroundedOne
    <3>8. Grounded(Range(L), f.events)
      BY DEF Good
    <3> QED  BY <1>1, <2>4, <3>1, <3>7, <3>8, GroundedConcat DEF Told
  <2> QED  BY <2>7, <2>8, <2>9, <2>10, <2>11, <2>12, <2>13, <2>14, <2>15 DEF Good
<1> QED  BY <1>2, <1>3

(* The agent that a sequence or a loop has called.                         *)
Called(a, f, x) ==
    IF a \in Parallels THEN Untouched(Range(f.events), x)
    ELSE f.next \in DOMAIN SubAgents[a] /\ x = SubAgents[a][f.next]

(* What is so of the events of an agent once it has joined a sub-agent.    *)
IsJoined(L, a, f, h, u) ==
    /\ u \in Seq(Events) /\ u = f.events \o h.events
    /\ Range(u) = Range(f.events) \cup Range(h.events)
    /\ Within(Range(u), a) /\ Ordered(u) /\ Grounded(Range(L), u)

LEMMA JoinedEvents ==
    ASSUME NEW L \in Seq(Events), NEW a \in Composites, NEW x \in Range(SubAgents[a]), NEW f, NEW h,
           IsFrame(a, f), IsFrame(x, h), Good(L, a, f), Good(L, x, h), Called(a, f, x),
           a \notin Parallels => f.at = "wait"
    PROVE  \E u : IsJoined(L, a, f, h, u)
<1>1. PICK s \in Seq(Events), t \in Seq(Events) : s = f.events /\ t = h.events
  BY DEF IsFrame
<1>2. PICK u : u = s \o t
  OBVIOUS
<1>3. PICK B : B = Range(L)
  OBVIOUS
<1>4. /\ Within(Range(s), a) /\ Within(Range(t), x)
      /\ Ordered(s) /\ Ordered(t) /\ Grounded(B, s) /\ Grounded(B, t)
  BY <1>1, <1>3 DEF Good, Mine
<1>5. Untouched(Range(s), x) \/ ~Pauses(s)
  BY <1>1 DEF Called, Good, Going
<1>6. u \in Seq(Events) /\ Range(u) = Range(s) \cup Range(t)
  BY <1>2, ConcatIs
<1>7. Within(Range(u), a)
  BY <1>4, <1>6, ParentNotBelow DEF Within
<1>8. Grounded(B, u)
  <2>1. PICK C : C = B \cup Range(s)
    OBVIOUS
  <2>2. Grounded(C, t)
    BY <1>4, <2>1, GroundedMore
  <2> QED  BY <1>2, <1>4, <2>1, <2>2, GroundedConcat
<1>9. ASSUME NEW d \in Range(s), NEW e \in Range(t), d.kind = "ask", e.kind = "end"
      PROVE  e.by \notin Above(d.by)
  <2>1. CASE Untouched(Range(s), x)
    <3>1. d.by \notin SubTree(x)
      BY <2>1 DEF Untouched
    <3>2. d \in Events /\ e \in Events
      BY RangeIs
    <3>3. d.by \in AgentNames /\ e.by \in AgentNames /\ e.by \in SubTree(x) /\ x \in AgentNames
      BY <1>4, <3>2, Children DEF Events, Within
    <3>4. Descendants(e.by) \subseteq SubTree(x)
      BY <3>3, DescendantsOfDescendants DEF SubTree
    <3> QED  BY <3>1, <3>3, <3>4, AboveIs
  <2>2. CASE ~Pauses(s)
    BY <1>9, <2>2, PausesIs
  <2> QED  BY <1>5, <2>1, <2>2
<1>10. Ordered(u)
  BY <1>2, <1>4, <1>9, OrderedConcat
<1> QED  BY <1>1, <1>2, <1>3, <1>6, <1>7, <1>8, <1>10 DEF IsJoined

LEMMA TakesGood ==
    ASSUME NEW L \in Seq(Events), NEW a \in AgentNames, NEW x \in Range(SubAgents[a]), NEW f, NEW h, NEW g,
           IsFrame(a, f), IsFrame(x, h), IsFrame(a, g), Good(L, a, f), Good(L, x, h), Called(a, f, x),
           Takes(a, f, h, g)
    PROVE  Good(L, a, g)
<1>1. /\ a \in Composites /\ h.at = "done" /\ g.events = f.events \o h.events
      /\ g.states = f.states /\ g.looped = f.looped
      /\ a \notin Parallels => /\ f.at = "wait" /\ ~Pauses(h.events)
                               /\ g.at = "run" /\ g.next = f.next + 1 /\ g.resuming = FALSE
      /\ a \in Parallels => f.at = "join" /\ g.at \in {"join", "joined"}
      /\ f.next \in Nat \ {0} /\ f.events \in Seq(Events) /\ h.events \in Seq(Events)
  BY DEF Takes, SameContext, IsFrame
<1>2. /\ Range(g.events) = Range(f.events) \cup Range(h.events)
      /\ Within(Range(g.events), a)
      /\ Ordered(g.events) /\ Grounded(Range(L), g.events)
  <2>1. a \notin Parallels => f.at = "wait"
    BY <1>1
  <2>2. PICK u : IsJoined(L, a, f, h, u)
    BY <1>1, <2>1, JoinedEvents
  <2> QED  BY <1>1, <2>2 DEF IsJoined
<1>3. Told(L, g) = Told(L, f) \cup Range(h.events)
  BY <1>2 DEF Told
<1>4. Idle(a, g) /\ DoneOK(a, g)
  BY <1>1, CompositeKinds DEF Idle, DoneOK
<1>5. Going(g)
  <2>1. CASE a \in Parallels
    BY <1>1, <2>1 DEF Going
  <2>2. CASE a \notin Parallels
    <3>1. ~Pauses(f.events) /\ ~Pauses(h.events)
      BY <1>1, <2>2 DEF Good, Going
    <3>2. PICK s \in Seq(Events), t \in Seq(Events), u \in Seq(Events) :
                s = f.events /\ t = h.events /\ u = g.events
      BY DEF IsFrame
    <3>3. \A e \in Range(u) : e.kind # "ask"
      BY <1>2, <3>1, <3>2, PausesIs
    <3>4. ~Pauses(u)
      BY <3>3, PausesIs
    <3> QED  BY <3>2, <3>4 DEF Going
  <2> QED  BY <2>1, <2>2
<1>6. Counting(a, g)
  BY <1>1, CompositeKinds DEF Good, Counting
<1>7. Noted(L, a, g)
  <2>1. CASE a \in Parallels
    <3>1. Seen(Told(L, f), a)
      BY <1>1, <2>1 DEF Good, Noted
    <3> QED  BY <1>3, <3>1 DEF Noted, Seen
  <2>2. CASE a \notin Parallels
    BY <1>1, <2>2 DEF Noted
  <2> QED  BY <2>1, <2>2
<1>8. Progress(L, a, g)
  <2>1. SUFFICES ASSUME a \in Sequentials, NEW j \in DOMAIN SubAgents[a], j < g.next
                 PROVE  Over(Told(L, g), SubAgents[a][j])
    BY DEF Progress
  <2>2. a \notin Parallels /\ DOMAIN SubAgents[a] \subseteq Nat
    BY <1>1, <2>1, CompositeKinds, SubAgentFacts
  <2>3. CASE j < f.next
    <3>1. Over(Told(L, f), SubAgents[a][j])
      BY <1>1, <2>1, <2>2, <2>3 DEF Good, Progress
    <3> QED  BY <1>3, <3>1, OverMore
  <2>4. CASE j = f.next
    <3>1. x = SubAgents[a][j] /\ ~Pauses(h.events)
      BY <1>1, <2>2, <2>4 DEF Called
    <3>2. Over(Range(h.events), x)
      BY <1>1, <3>1 DEF Good, DoneOK
    <3> QED  BY <1>3, <3>1, <3>2, OverMore
  <2> QED  BY <1>1, <2>1, <2>2, <2>3, <2>4
<1>9. Carried(L, {a} \cup Above(a), g)
  BY <1>1 DEF Good, Carried
<1> QED  BY <1>2, <1>4, <1>5, <1>6, <1>7, <1>8, <1>9 DEF Good, Mine

(* The events of an agent after its callback.                              *)
LEMMA SaidEvents ==
    ASSUME NEW B, NEW a \in AgentNames, NEW s \in Seq(Events), NEW u, u = s \o AfterSaid(a),
           Within(Range(s), a), Ordered(s), Grounded(B, s),
           a \in Composites => HasMark(B \cup Range(s), a)
    PROVE  /\ u \in Seq(Events) /\ Within(Range(u), a)
           /\ Ordered(u) /\ Grounded(B, u)
           /\ Range(s) \subseteq Range(u)
           /\ \A e \in Range(u) : e \in Range(s) \/ (e.by = a /\ e.kind = "say" /\ a \in After)
<1>1. PICK t : t = AfterSaid(a)
  OBVIOUS
<1>2. t \in Seq(Events) /\ \A e \in Range(t) : e.by = a /\ e.kind = "say" /\ a \in After
  BY <1>1, AfterSaidIs
<1>3. u = s \o t
  BY <1>1
<1>4. u \in Seq(Events) /\ Range(u) = Range(s) \cup Range(t)
  BY <1>2, <1>3, ConcatIs
<1>5. Ordered(u)
  <2>1. Ordered(t)
    BY <1>2, OrderedShort
  <2> QED  BY <1>2, <1>3, <2>1, OrderedConcat
<1>6. Grounded(B, u)
  <2>1. PICK C : C = B \cup Range(s)
    OBVIOUS
  <2>2. Grounded(C, t)
    <3>1. CASE a \in Composites
      BY <1>1, <2>1, <3>1, SayIsGrounded
    <3>2. CASE a \notin Composites
      <4>1. ASSUME NEW i \in DOMAIN t PROVE GroundedEvent(C \cup Prefix(t, i), t[i])
        <5>1. t[i] \in Range(t)
          BY <1>2, RangeIs
        <5>2. t[i].by = a /\ t[i].kind = "say" /\ a \notin Sequentials /\ a \notin Loops
          BY <1>2, <3>2, <5>1, CompositeKinds
        <5> QED  BY <3>2, <5>2 DEF GroundedEvent, Marks
      <4> QED  BY <4>1 DEF Grounded
    <3> QED  BY <3>1, <3>2
  <2> QED  BY <1>2, <1>3, <2>1, <2>2, GroundedConcat
<1> QED  BY <1>2, <1>4, <1>5, <1>6 DEF SubTree, Within

LEMMA SeenHasMark ==
    ASSUME NEW L \in Seq(Events), Grounded({}, L), NEW a \in Composites,
           NEW s \in Seq(Events), Grounded(Range(L), s), Seen(Range(L) \cup Range(s), a)
    PROVE  HasMark(Range(L) \cup Range(s), a)
<1>1. PICK S : S = Range(L) \cup Range(s)
  OBVIOUS
<1>2. PICK e \in S : e.by = a
  BY <1>1 DEF Seen
<1>3. GroundedEvent(S, e)
  <2>1. CASE e \in Range(s)
    BY <1>1, <2>1, GroundedInRange
  <2>2. CASE e \in Range(L)
    <3>1. PICK B : B = {} /\ Grounded(B, L)
      OBVIOUS
    <3>2. PICK C : C = B \cup Range(L)
      OBVIOUS
    <3>3. GroundedEvent(C, e)
      BY <2>2, <3>1, <3>2, GroundedInRange
    <3> QED  BY <1>1, <3>1, <3>2, <3>3, GroundedEventMore
  <2> QED  BY <1>1, <1>2, <2>1, <2>2
<1>4. CASE e.kind \in Marks
  BY <1>1, <1>2, <1>4 DEF HasMark
<1>5. CASE e.kind \notin Marks
  BY <1>1, <1>2, <1>3, <1>5 DEF HasMark, GroundedEvent
<1> QED  BY <1>4, <1>5

LEMMA DoneGood ==
    ASSUME NEW L \in Seq(Events), NEW a \in AgentNames, NEW f, NEW g, Good(L, a, f),
           g.at = "done", Narrower(f, g),
           Within(Range(g.events), a), Ordered(g.events), Grounded(Range(L), g.events),
           Over(Range(g.events), a) \/ Pauses(g.events)
    PROVE  Good(L, a, g)
BY DEF Good, Mine, Idle, Going, Counting, Noted, DoneOK, Progress, Carried, Narrower

LEMMA StopsGood ==
    ASSUME NEW L \in Seq(Events), Grounded({}, L), NEW a \in AgentNames, NEW x \in Range(SubAgents[a]),
           NEW f, NEW h, NEW g, IsFrame(a, f), IsFrame(x, h), Good(L, a, f), Good(L, x, h),
           Called(a, f, x), Stops(a, f, h, g)
    PROVE  Good(L, a, g)
<1>1. /\ a \in Composites /\ f.at = "wait" /\ g.at = "done" /\ Pauses(h.events)
      /\ g.events = (f.events \o h.events) \o AfterSaid(a) /\ g.states = f.states
  BY DEF Stops, SameContext
<1>2. PICK u : IsJoined(L, a, f, h, u)
  BY <1>1, JoinedEvents
<1>3. PICK s \in Seq(Events), t \in Seq(Events) : s = f.events /\ t = h.events
  BY DEF IsFrame
<1>4. /\ u \in Seq(Events) /\ Range(u) = Range(s) \cup Range(t) /\ Within(Range(u), a)
      /\ Ordered(u) /\ Grounded(Range(L), u)
  BY <1>2, <1>3 DEF IsJoined
<1>5. PICK v : v = u \o AfterSaid(a)
  OBVIOUS
<1>6. PICK B : B = Range(L)
  OBVIOUS
<1>7. HasMark(B \cup Range(u), a)
  <2>1. Seen(Told(L, f), a)
    BY <1>1 DEF Good, Noted
  <2>2. Seen(Range(L) \cup Range(u), a)
    BY <1>3, <1>4, <2>1 DEF Seen, Told
  <2> QED  BY <1>1, <1>4, <1>6, <2>2, SeenHasMark
<1>8. /\ v \in Seq(Events) /\ Within(Range(v), a) /\ Ordered(v) /\ Grounded(B, v)
      /\ Range(u) \subseteq Range(v)
  BY <1>4, <1>5, <1>6, <1>7, SaidEvents
<1>9. v = g.events
  BY <1>1, <1>2, <1>5 DEF IsJoined
<1>10. Pauses(v)
  <2>1. PICK e \in Range(t) : e.kind = "ask"
    BY <1>1, <1>3, PausesIs
  <2> QED  BY <1>4, <1>8, <2>1, PausesIs
<1>11. Narrower(f, g)
  BY <1>1 DEF Narrower
<1> QED  BY <1>1, <1>6, <1>8, <1>9, <1>10, <1>11, DoneGood

LEMMA EndsGood ==
    ASSUME NEW L \in Seq(Events), NEW a \in AgentNames, NEW f, NEW g, IsFrame(a, f), Good(L, a, f),
           Ends(a, f, g)
    PROVE  Good(L, a, g)
<1>1. /\ a \in Composites /\ g.at = "done"
      /\ g.events = (f.events \o <<EndMarker(a)>>) \o AfterSaid(a)
      /\ a \in Parallels => ~Pauses(f.events)
      /\ a \notin Parallels => f.at = "run"
      /\ a \in Sequentials => f.next > Len(SubAgents[a])
      /\ Narrower(f, g)
  BY DEF Ends
<1>2. PICK s \in Seq(Events) : s = f.events
  BY DEF IsFrame
<1>3. PICK e \in Events : e = EndMarker(a) /\ e.by = a /\ e.kind = "end" /\ e.at = Empty
  BY EmptyIsState, EventIsTyped DEF EndMarker, Event, Kinds
<1>4. PICK t : t = <<e>>
  OBVIOUS
<1>5. t \in Seq(Events) /\ Range(t) = {e}
  BY <1>4, OneEvent
<1>6. PICK u : u = s \o t
  OBVIOUS
<1>7. u \in Seq(Events) /\ Range(u) = Range(s) \cup {e}
  <2>1. u \in Seq(Events) /\ Range(u) = Range(s) \cup Range(t)
    BY <1>5, <1>6, ConcatIs
  <2> QED  BY <1>5, <2>1
<1>8. PICK v : v = u \o AfterSaid(a)
  OBVIOUS
<1>9. v = g.events
  BY <1>1, <1>2, <1>3, <1>4, <1>6, <1>8
<1>10. Within(Range(s), a) /\ Ordered(s) /\ Grounded(Range(L), s)
  BY <1>2 DEF Good, Mine
<1>11. Within(Range(u), a)
  BY <1>3, <1>7, <1>10 DEF Within, SubTree
<1>12. ~Pauses(s)
  BY <1>1, <1>2 DEF Good, Going
<1>13. Ordered(u)
  <2>1. Ordered(t)
    BY <1>3, <1>5, OrderedShort
  <2>2. \A d \in Range(s) : d.kind # "ask"
    BY <1>12, PausesIs
  <2> QED  BY <1>5, <1>6, <1>10, <2>1, <2>2, OrderedConcat
<1>14. PICK B : B = Range(L)
  OBVIOUS
<1>15. Grounded(B, u)
  <2>1. PICK S : S = B \cup Range(s)
    OBVIOUS
  <2>2. PICK C : C = S \cup {e}
    OBVIOUS
  <2>3. ASSUME a \in Sequentials, NEW y \in Range(SubAgents[a]) PROVE Over(C, y)
    <3>1. PICK j \in DOMAIN SubAgents[a] : y = SubAgents[a][j]
      BY DEF Range
    <3>2. j < f.next
      <4>1. j \in 1 .. Len(SubAgents[a]) /\ Len(SubAgents[a]) \in Nat /\ f.next \in Nat
        BY <1>1, <3>1, SubAgentFacts DEF IsFrame
      <4> QED  BY <1>1, <2>3, <4>1
    <3>3. a \notin Parallels
      BY <2>3, CompositeKinds
    <3>4. Over(Told(L, f), y)
      BY <1>1, <2>3, <3>1, <3>2, <3>3 DEF Good, Progress
    <3>5. Over(S, y)
      BY <1>2, <1>14, <2>1, <3>4 DEF Told
    <3> QED  BY <2>2, <3>5, OverMore
  <2>4. GroundedEvent(C, e)
    BY <1>1, <1>3, <2>3, CompositeKinds DEF GroundedEvent, Marks
  <2>5. Grounded(S, t)
    BY <1>4, <2>2, <2>4, GroundedOne
  <2> QED  BY <1>5, <1>6, <1>10, <1>14, <2>1, <2>5, GroundedConcat
<1>16. HasMark(B \cup Range(u), a)
  BY <1>3, <1>7 DEF HasMark, Marks
<1>17. /\ v \in Seq(Events) /\ Within(Range(v), a) /\ Ordered(v) /\ Grounded(B, v)
       /\ Range(u) \subseteq Range(v)
  BY <1>7, <1>8, <1>11, <1>13, <1>15, <1>16, SaidEvents
<1>18. Over(Range(v), a)
  BY <1>1, <1>3, <1>7, <1>17, CompositeKinds DEF Over, Answer
<1> QED  BY <1>1, <1>9, <1>14, <1>17, <1>18, DoneGood

LEMMA PassesOnGood ==
    ASSUME NEW L \in Seq(Events), NEW a \in AgentNames, NEW f, NEW g, IsFrame(a, f), Good(L, a, f),
           PassesOn(a, f, g)
    PROVE  Good(L, a, g)
<1>1. /\ a \in Loops /\ f.at = "run" /\ g.at = "run" /\ g.events = f.events
      /\ g.looped < MaxIterations[a] /\ g.resuming = f.resuming
      /\ g.states = [x \in DOMAIN f.states \ Descendants(a) |-> f.states[x]]
      /\ a \in Composites /\ a \notin Sequentials /\ a \notin Parallels
      /\ Told(L, g) = Told(L, f)
  BY CompositeKinds DEF PassesOn, Told
<1> QED  BY <1>1 DEF Good, Mine, Idle, Going, Counting, Noted, DoneOK, Progress, Carried

LEMMA FinishesGood ==
    ASSUME NEW L \in Seq(Events), Grounded({}, L), NEW a \in AgentNames, NEW f, NEW g, IsFrame(a, f),
           Good(L, a, f), Finishes(a, f, g)
    PROVE  Good(L, a, g)
<1>1. /\ a \in Parallels /\ f.at \in {"join", "joined"} /\ g.at = "done" /\ Pauses(f.events)
      /\ g.events = f.events \o AfterSaid(a) /\ g.states = f.states /\ a \in Composites
  BY CompositeKinds DEF Finishes, SameContext
<1>2. PICK s \in Seq(Events) : s = f.events
  BY DEF IsFrame
<1>3. PICK v : v = s \o AfterSaid(a)
  OBVIOUS
<1>4. PICK B : B = Range(L)
  OBVIOUS
<1>5. Within(Range(s), a) /\ Ordered(s) /\ Grounded(B, s)
  BY <1>2, <1>4 DEF Good, Mine
<1>6. HasMark(B \cup Range(s), a)
  <2>1. Seen(Range(L) \cup Range(s), a)
    BY <1>1, <1>2 DEF Good, Noted, Told
  <2> QED  BY <1>1, <1>4, <1>5, <2>1, SeenHasMark
<1>7. /\ v \in Seq(Events) /\ Within(Range(v), a) /\ Ordered(v) /\ Grounded(B, v)
      /\ Range(s) \subseteq Range(v)
  BY <1>3, <1>5, <1>6, SaidEvents
<1>8. Pauses(v)
  <2>1. PICK e \in Range(s) : e.kind = "ask"
    BY <1>1, <1>2, PausesIs
  <2> QED  BY <1>7, <2>1, PausesIs
<1>9. v = g.events
  BY <1>1, <1>2, <1>3
<1>10. Narrower(f, g)
  BY <1>1 DEF Narrower
<1> QED  BY <1>1, <1>4, <1>7, <1>8, <1>9, <1>10, DoneGood

LEMMA RepliesGood ==
    ASSUME NEW L \in Seq(Events), NEW a \in AgentNames, NEW f, NEW g, IsFrame(a, f), Good(L, a, f),
           Replies(a, f, g)
    PROVE  Good(L, a, g)
<1>1. a \in Leaves /\ f.at = "run" /\ g.at = "done" /\ g.states = f.states
  BY DEF Replies, SameContext
<1>2. a \notin Composites /\ a \notin Sequentials /\ a \notin Loops
  BY <1>1, CompositeKinds
<1>3. f.events = <<>>
  BY <1>1, <1>2 DEF Good, Idle
<1>4. PICK k \in {"say", "write", "ask", "escalate"} :
            g.events = (f.events \o <<Event(a, k, Empty)>>) \o AfterSaid(a)
  BY DEF Replies
<1>5. PICK e \in Events : e = Event(a, k, Empty) /\ e.by = a /\ e.kind = k
  BY EmptyIsState, EventIsTyped DEF Event, Kinds
<1>6. PICK s : s = <<e>>
  OBVIOUS
<1>7. s \in Seq(Events) /\ Range(s) = {e} /\ DOMAIN s = {1} /\ s[1] = e
  BY <1>6, OneEvent
<1>8. <<>> \o s = s
  BY <1>7
<1>9. PICK v : v = s \o AfterSaid(a)
  OBVIOUS
<1>10. v = g.events
  BY <1>3, <1>4, <1>5, <1>6, <1>8, <1>9
<1>11. PICK B : B = Range(L)
  OBVIOUS
<1>12. Within(Range(s), a)
  BY <1>5, <1>7 DEF Within, SubTree
<1>13. Ordered(s)
  BY <1>7 DEF Ordered
<1>14. Grounded(B, s)
  <2>1. PICK C : C = B \cup {e}
    OBVIOUS
  <2>2. GroundedEvent(C, e)
    BY <1>2, <1>5 DEF GroundedEvent, Marks
  <2> QED  BY <1>6, <2>1, <2>2, GroundedOne
<1>15. /\ v \in Seq(Events) /\ Within(Range(v), a) /\ Ordered(v) /\ Grounded(B, v)
       /\ Range(s) \subseteq Range(v)
  BY <1>2, <1>7, <1>9, <1>12, <1>13, <1>14, SaidEvents, ZenonT(60)
<1>16. Over(Range(v), a) \/ Pauses(v)
  <2>1. CASE k = "ask"
    BY <1>5, <1>7, <1>15, <2>1, PausesIs
  <2>2. CASE k # "ask"
    <3>1. e \in Range(v) /\ e.by = a /\ e.kind \in Answer(a)
      BY <1>1, <1>5, <1>7, <1>15, <2>2 DEF Answer
    <3> QED  BY <3>1 DEF Over
  <2> QED  BY <2>1, <2>2
<1>17. Narrower(f, g)
  BY <1>1 DEF Narrower
<1> QED  BY <1>1, <1>10, <1>11, <1>15, <1>16, <1>17, DoneGood

LEMMA FailsGood ==
    ASSUME NEW L \in Seq(Events), NEW a \in AgentNames, NEW f, NEW g, Good(L, a, f), Fails(a, f, g)
    PROVE  Good(L, a, g)
<1>1. g.at = "failed" /\ g.events = f.events /\ g.states = f.states
  BY DEF Fails, SameContext
<1> QED  BY <1>1 DEF Good, Mine, Idle, Going, Counting, Noted, DoneOK, Progress, Carried

-----------------------------------------------------------------------------
(* The frames together: each but the root's was called by its parent's,    *)
(* and a parallel agent holds no event of an agent that still runs.        *)

Runs(F, c, x) ==
    /\ x \in Range(SubAgents[c]) /\ c \in DOMAIN F
    /\ \/ c \notin Parallels /\ F[c].at = "wait" /\ F[c].next \in DOMAIN SubAgents[c]
            /\ x = SubAgents[c][F[c].next]
       \/ c \in Parallels /\ F[c].at = "join"
Tree(F) == \A x \in DOMAIN F : x # Root => \E c \in Composites : Runs(F, c, x)
TreeOK == Tree(frames)
LiveOK ==
    \A p \in DOMAIN frames : p \in Parallels =>
        \A x \in DOMAIN frames : x \in Range(SubAgents[p]) => Untouched(Range(frames[p].events), x)

LEMMA ParentRuns ==
    ASSUME TreeOK, NEW c \in Composites, NEW x \in Range(SubAgents[c]), x \in DOMAIN frames
    PROVE  Runs(frames, c, x)
<1>1. x # Root
  BY AgentTree
<1>2. PICK d \in Composites : Runs(frames, d, x)
  BY <1>1 DEF TreeOK, Tree
<1> QED  BY <1>2, OneParent DEF Runs

LEMMA StepEntering ==
    ASSUME NEW a, NEW f, NEW g, NEW D, NEW E, IsFrame(a, f), Step(a, f, g, D, E), NEW x \in E
    PROVE  /\ a \in Composites /\ f.at = "run" /\ D = {} /\ x \in Range(SubAgents[a]) /\ Calls(a, f, g)
           /\ a \in Parallels => g.at = "join" /\ x \notin g.ended
           /\ a \notin Parallels => /\ g.at = "wait" /\ g.next \in DOMAIN SubAgents[a]
                                    /\ x = SubAgents[a][g.next]
<1>1. /\ Calls(a, f, g) /\ D = {}
      /\ E = IF a \in Parallels THEN Range(SubAgents[a]) \ g.ended ELSE {SubAgents[a][f.next]}
  BY DEF Step
<1>2. /\ a \in Composites /\ f.at = "run" /\ g.next = f.next /\ f.next \in Nat \ {0}
      /\ g.at = IF a \in Parallels THEN "join" ELSE "wait"
      /\ a \notin Parallels => f.next <= Len(SubAgents[a])
  BY <1>1 DEF Calls, IsFrame
<1>3. a \notin Parallels => f.next \in DOMAIN SubAgents[a] /\ SubAgents[a][f.next] \in Range(SubAgents[a])
  BY <1>2, SubAgentFacts
<1> QED  BY <1>1, <1>2, <1>3

TakesOther(a, f, x, D, g) ==
    \E y \in Range(SubAgents[a]) \cap DOMAIN frames : y # x /\ D = {y} /\ Takes(a, f, frames[y], g)

(* A sub-agent that is under way before and after a step of its parent.    *)
LEMMA StepLeaving ==
    ASSUME TreeOK, NEW a \in Composites, NEW f, f = frames[a], NEW g, NEW D, NEW E,
           Step(a, f, g, D, E), NEW x \in Range(SubAgents[a]), x \in DOMAIN frames, x \notin D
    PROVE  /\ a \in Parallels /\ f.at = "join" /\ g.at = "join" /\ E = {}
           /\ TakesOther(a, f, x, D, g)
<1>1. f.at \in {"wait", "join"} /\ (a \in Parallels => f.at = "join") /\ (a \notin Parallels => f.at = "wait")
  BY ParentRuns DEF Runs
<1>2. x \in Descendants(a)
  BY Children
<1>3. ~Calls(a, f, g)
  BY <1>1 DEF Calls
<1>4. ~(Ends(a, f, g) /\ NoneLeft(a, f))
  BY <1>1 DEF Ends, NoneLeft
<1>5. ~PassesOn(a, f, g)
  BY <1>1 DEF PassesOn
<1>6. ~(Finishes(a, f, g) /\ NoneLeft(a, f))
  BY <1>1 DEF Finishes, NoneLeft
<1>7. ~Replies(a, f, g)
  BY <1>1 DEF Replies
<1>8. PICK y \in Range(SubAgents[a]) \cap DOMAIN frames :
            Takes(a, f, frames[y], g) /\ E = {} /\ D = IF g.at = "join" THEN {y} ELSE Descendants(a)
  BY <1>2, <1>3, <1>4, <1>5, <1>6, <1>7 DEF Step
<1>9. g.at = "join"
  BY <1>2, <1>8
<1>10. a \in Parallels
  BY <1>8, <1>9 DEF Takes
<1> QED  BY <1>1, <1>8, <1>9, <1>10 DEF TakesOther

LEMMA StepParents ==
    ASSUME AllFrames, TreeOK, NEW a \in AgentNames, NEW g, NEW D, NEW E, Changes(a, g, D, E),
           Step(a, frames[a], g, D, E), NEW c \in Composites, NEW x \in Range(SubAgents[c]),
           c # a, x \in DOMAIN frames', x \in DOMAIN frames, x \notin E
    PROVE  c \in DOMAIN frames' /\ frames'[c] = frames[c] /\ c \in DOMAIN frames
<1>1. PICK f : f = frames[a]
  OBVIOUS
<1>2. /\ a \in DOMAIN frames /\ DOMAIN frames' = ((DOMAIN frames \ D) \cup {a}) \cup E
      /\ \A y \in DOMAIN frames' : y # a /\ y \notin E => frames'[y] = frames[y]
      /\ Step(a, f, g, D, E) /\ IsFrame(a, f)
  BY <1>1 DEF Changes, AllFrames
<1>3. Runs(frames, c, x) /\ c \in DOMAIN frames /\ frames[c].at \in {"wait", "join"}
  BY ParentRuns DEF Runs
<1>4. x = a \/ x \notin D
  BY <1>2
<1>5. c \notin Descendants(a) \/ x \in D \/ D # Descendants(a)
  BY Deeper
<1>6. x = a => c \notin Descendants(a)
  <2>1. SUFFICES ASSUME x = a, c \in Descendants(a) PROVE FALSE
    OBVIOUS
  <2>2. a \in Descendants(a)
    BY <2>1, Deeper
  <2> QED  BY <2>2, NoneBelowItself
<1>7. c \notin D
  <2>1. CASE D = {}
    BY <2>1
  <2>2. CASE D = Descendants(a)
    BY <1>4, <1>5, <1>6, <2>2
  <2>3. CASE \E y \in DOMAIN frames : D = {y} /\ frames[y].at = "done"
    BY <1>3, <2>3
  <2>4. D = {} \/ D = Descendants(a) \/ \E y \in DOMAIN frames : D = {y} /\ frames[y].at = "done"
    BY <1>2 DEF Step, Takes
  <2> QED  BY <2>1, <2>2, <2>3, <2>4
<1>8. c \notin E
  <2>1. SUFFICES ASSUME c \in E PROVE FALSE
    OBVIOUS
  <2>2. a \in Composites /\ f.at = "run" /\ c \in Range(SubAgents[a])
    BY <1>2, <2>1, StepEntering
  <2>3. Runs(frames, a, c)
    BY <1>3, <2>2, ParentRuns
  <2> QED  BY <1>1, <2>2, <2>3 DEF Runs
<1> QED  BY <1>2, <1>3, <1>7, <1>8

LEMMA StepTree ==
    ASSUME AllFrames, TreeOK, NEW a \in AgentNames, Shape(a)
    PROVE  TreeOK'
<1>1. PICK g, D, E : Changes(a, g, D, E) /\ Step(a, frames[a], g, D, E) /\ IsFrame(a, g)
  BY DEF Shape
<1>2. PICK f : f = frames[a]
  OBVIOUS
<1>3. /\ a \in DOMAIN frames /\ DOMAIN frames' = ((DOMAIN frames \ D) \cup {a}) \cup E /\ frames'[a] = g
      /\ \A y \in DOMAIN frames' : y # a /\ y \notin E => y \in DOMAIN frames /\ frames'[y] = frames[y]
      /\ Step(a, f, g, D, E) /\ IsFrame(a, f)
  BY <1>1, <1>2 DEF Changes, AllFrames
<1>4. SUFFICES ASSUME NEW x \in DOMAIN frames', x # Root PROVE \E c \in Composites : Runs(frames', c, x)
  BY DEF TreeOK, Tree
<1>5. CASE x \in E
  <2>1. /\ a \in Composites /\ x \in Range(SubAgents[a])
        /\ a \in Parallels => g.at = "join"
        /\ a \notin Parallels => /\ g.at = "wait" /\ g.next \in DOMAIN SubAgents[a]
                                 /\ x = SubAgents[a][g.next]
    BY <1>3, <1>5, StepEntering
  <2> QED  BY <1>3, <2>1 DEF Runs
<1>6. CASE x \notin E
  <2>1. x \in DOMAIN frames
    BY <1>3, <1>6
  <2>2. PICK c \in Composites : Runs(frames, c, x)
    BY <1>4, <2>1 DEF TreeOK, Tree
  <2>3. x \in Range(SubAgents[c])
    BY <2>2 DEF Runs
  <2>4. CASE c = a
    <3>1. x \notin D
      BY <1>3, <1>6, <2>3, <2>4, ParentNotBelow
    <3>2. a \in Parallels /\ g.at = "join"
      BY <1>2, <1>3, <2>1, <2>3, <2>4, <3>1, StepLeaving
    <3> QED  BY <1>3, <2>3, <2>4, <3>2 DEF Runs
  <2>5. CASE c # a
    <3>1. c \in DOMAIN frames' /\ frames'[c] = frames[c]
      BY <1>1, <1>6, <2>1, <2>3, <2>5, StepParents
    <3> QED  BY <2>2, <3>1 DEF Runs
  <2> QED  BY <2>4, <2>5
<1> QED  BY <1>5, <1>6
FramesGood == \A x \in DOMAIN frames : Good(log, x, frames[x])

LEMMA StepLive ==
    ASSUME AllFrames, TreeOK, LiveOK, FramesGood, NEW a \in AgentNames, Shape(a)
    PROVE  LiveOK'
<1>1. PICK g, D, E : Changes(a, g, D, E) /\ Step(a, frames[a], g, D, E) /\ IsFrame(a, g)
  BY DEF Shape
<1>2. PICK f : f = frames[a]
  OBVIOUS
<1>3. /\ a \in DOMAIN frames /\ DOMAIN frames' = ((DOMAIN frames \ D) \cup {a}) \cup E /\ frames'[a] = g
      /\ \A y \in DOMAIN frames' : y # a /\ y \notin E => y \in DOMAIN frames /\ frames'[y] = frames[y]
      /\ \A y \in E : frames'[y] = Entered(y, g)
      /\ Step(a, f, g, D, E) /\ IsFrame(a, f) /\ Good(log, a, f)
  BY <1>1, <1>2 DEF Changes, AllFrames, FramesGood
<1>4. SUFFICES ASSUME NEW p \in DOMAIN frames', p \in Parallels, NEW x \in DOMAIN frames', x \in Range(SubAgents[p])
               PROVE  Untouched(Range(frames'[p].events), x)
  BY DEF LiveOK
<1>5. p \in Composites /\ p \notin Sequentials /\ p \notin Loops
  BY <1>4, CompositeKinds
<1>6. CASE p \in E
  <2>1. frames'[p].events = <<>>
    BY <1>3, <1>6 DEF Entered
  <2> QED  BY <2>1, NoEvents DEF Untouched
<1>7. CASE p \notin E /\ p # a
  <2>1. p \in DOMAIN frames /\ frames'[p] = frames[p]
    BY <1>3, <1>7
  <2>2. x \notin E
    BY <1>3, <1>4, <1>5, <1>7, StepEntering, OneParent
  <2>3. x \in DOMAIN frames
    BY <1>3, <2>2
  <2> QED  BY <1>4, <2>1, <2>3 DEF LiveOK
<1>8. CASE p = a /\ x \in E
  <2>1. Calls(a, f, g) /\ f.at = "run"
    BY <1>3, <1>8, StepEntering
  <2>2. f.events = <<>>
    BY <1>3, <1>5, <1>8, <2>1 DEF Good, Idle
  <2>3. CASE f.resuming
    <3>1. g.events = <<>>
      BY <2>1, <2>2, <2>3 DEF Calls
    <3> QED  BY <1>3, <1>8, <3>1, NoEvents DEF Untouched
  <2>4. CASE ~f.resuming
    <3>1. PICK at \in AgentState : g.events = f.events \o <<Marker(a, at)>>
      BY <2>1, <2>4 DEF Calls
    <3>2. PICK e \in Events : e = Marker(a, at) /\ e.by = a
      BY EventIsTyped DEF Marker, Event, Kinds
    <3>3. PICK t : t = <<e>>
      OBVIOUS
    <3>4. t \in Seq(Events) /\ Range(t) = {e}
      BY <3>3, OneEvent
    <3>5. <<>> \o t = t
      BY <3>4
    <3>6. Range(g.events) = {e}
      BY <2>2, <3>1, <3>2, <3>3, <3>4, <3>5
    <3>7. a \notin SubTree(x)
      BY <1>4, <1>5, <1>8, ParentNotBelow
    <3> QED  BY <1>3, <1>8, <3>2, <3>6, <3>7 DEF Untouched
  <2> QED  BY <2>3, <2>4
<1>9. CASE p = a /\ x \notin E
  <2>1. x # a
    BY <1>4, <1>5, <1>9, ParentNotBelow
  <2>2. x \in DOMAIN frames /\ x \notin D
    BY <1>3, <1>9, <2>1
  <2>3. PICK y \in Range(SubAgents[a]) \cap DOMAIN frames : y # x /\ Takes(a, f, frames[y], g)
    <3>1. a \in Composites /\ x \in Range(SubAgents[a]) /\ Step(a, f, g, D, E)
      BY <1>3, <1>4, <1>5, <1>9
    <3>2. TakesOther(a, f, x, D, g)
      BY <1>2, <2>2, <3>1, StepLeaving
    <3> QED  BY <3>2 DEF TakesOther
  <2>4. PICK h : h = frames[y] /\ IsFrame(y, h) /\ Good(log, y, h)
    BY <2>3 DEF AllFrames, FramesGood
  <2>5. PICK s \in Seq(Events), t \in Seq(Events), u \in Seq(Events) :
              s = f.events /\ t = h.events /\ u = g.events
    BY <1>1, <1>3, <2>4 DEF IsFrame
  <2>6. u = s \o t
    BY <2>3, <2>4, <2>5 DEF Takes
  <2>7. Range(u) = Range(s) \cup Range(t)
    BY <2>6, ConcatIs
  <2>8. Untouched(Range(s), x)
    BY <1>2, <1>3, <1>4, <1>9, <2>2, <2>5 DEF LiveOK
  <2>9. Within(Range(t), y)
    BY <2>4, <2>5 DEF Good, Mine
  <2>10. SubTree(x) \cap SubTree(y) = {}
    BY <1>4, <1>5, <1>9, <2>3, Siblings
  <2>11. Untouched(Range(u), x)
    BY <2>7, <2>8, <2>9, <2>10 DEF Untouched, Within
  <2> QED  BY <1>3, <1>9, <2>5, <2>11
<1> QED  BY <1>6, <1>7, <1>8, <1>9

LEMMA CalledIs ==
    ASSUME TreeOK, LiveOK, NEW a \in Composites, a \in DOMAIN frames, NEW f, f = frames[a],
           NEW x \in Range(SubAgents[a]), x \in DOMAIN frames
    PROVE  Called(a, f, x)
<1>1. Runs(frames, a, x)
  BY ParentRuns
<1> QED  BY <1>1 DEF Runs, Called, LiveOK

LEMMA StepGood ==
    ASSUME log \in Seq(Events), Grounded({}, log), AllFrames, TreeOK, LiveOK, FramesGood,
           NEW a \in AgentNames, NEW g, NEW D, NEW E, Changes(a, g, D, E),
           Step(a, frames[a], g, D, E), IsFrame(a, g)
    PROVE  Good(log, a, g)
<1>1. PICK f : f = frames[a]
  OBVIOUS
<1>2. a \in DOMAIN frames /\ Step(a, f, g, D, E) /\ IsFrame(a, f) /\ Good(log, a, f)
  BY <1>1 DEF Changes, AllFrames, FramesGood
<1>3. CASE Calls(a, f, g)
  BY <1>2, <1>3, CallsGood
<1>4. ASSUME NEW x \in Range(SubAgents[a]) \cap DOMAIN frames,
             Takes(a, f, frames[x], g) \/ Stops(a, f, frames[x], g)
      PROVE  Good(log, a, g)
  <2>1. PICK h : h = frames[x] /\ IsFrame(x, h) /\ Good(log, x, h)
    BY DEF AllFrames, FramesGood
  <2>2. a \in Composites
    BY <1>4 DEF Takes, Stops
  <2>3. Called(a, f, x)
    BY <1>1, <1>2, <2>2, CalledIs
  <2>4. CASE Takes(a, f, h, g)
    BY <1>2, <2>1, <2>3, <2>4, TakesGood
  <2>5. CASE Stops(a, f, h, g)
    BY <1>2, <2>1, <2>3, <2>5, StopsGood
  <2> QED  BY <1>4, <2>1, <2>4, <2>5
<1>5. CASE Ends(a, f, g)
  BY <1>2, <1>5, EndsGood
<1>6. CASE PassesOn(a, f, g)
  BY <1>2, <1>6, PassesOnGood
<1>7. CASE Finishes(a, f, g)
  BY <1>2, <1>7, FinishesGood
<1>8. CASE Replies(a, f, g)
  BY <1>2, <1>8, RepliesGood
<1>9. CASE Fails(a, f, g)
  BY <1>2, <1>9, FailsGood
<1> QED  BY <1>2, <1>3, <1>4, <1>5, <1>6, <1>7, <1>8, <1>9 DEF Step

LEMMA StepFrames ==
    ASSUME log \in Seq(Events), Grounded({}, log), AllFrames, TreeOK, LiveOK, FramesGood,
           NEW a \in AgentNames, Shape(a)
    PROVE  AllFrames' /\ FramesGood' /\ UNCHANGED <<log, turn, outcome>>
<1>1. PICK g, D, E : Changes(a, g, D, E) /\ Step(a, frames[a], g, D, E) /\ IsFrame(a, g)
  BY DEF Shape
<1>2. PICK f : f = frames[a]
  OBVIOUS
<1>3. /\ a \in DOMAIN frames /\ DOMAIN frames' = ((DOMAIN frames \ D) \cup {a}) \cup E /\ frames'[a] = g
      /\ \A y \in DOMAIN frames' : y # a /\ y \notin E => y \in DOMAIN frames /\ frames'[y] = frames[y]
      /\ \A y \in E : frames'[y] = Entered(y, g)
      /\ Step(a, f, g, D, E) /\ IsFrame(a, f) /\ UNCHANGED <<log, turn, outcome>>
  BY <1>1, <1>2 DEF Changes, AllFrames
<1>4. Good(log, a, g)
  BY <1>1, StepGood
<1>5. ASSUME NEW x \in DOMAIN frames'
      PROVE  x \in AgentNames /\ IsFrame(x, frames'[x]) /\ Good(log, x, frames'[x])
  <2>1. CASE x \in E
    <3>1. a \in Composites /\ x \in Range(SubAgents[a])
      BY <1>3, <2>1, StepEntering
    <3>2. x \in AgentNames /\ Above(x) = {a} \cup Above(a)
      BY <3>1, Children, AboveAChild
    <3>3. IsContext(g)
      BY <1>1 DEF IsFrame
    <3>4. Carried(log, Above(x), g)
      BY <1>4, <3>2 DEF Good
    <3>5. PICK k : k = Entered(x, g)
      OBVIOUS
    <3>6. IsFrame(x, k) /\ Good(log, x, k)
      BY <3>2, <3>3, <3>4, <3>5, EnteredTyped, EnteredGood
    <3> QED  BY <1>3, <2>1, <3>2, <3>5, <3>6
  <2>2. CASE x = a /\ x \notin E
    BY <1>1, <1>3, <1>4, <2>2
  <2>3. CASE x # a /\ x \notin E
    <3>1. x \in DOMAIN frames /\ frames'[x] = frames[x]
      BY <1>3, <2>3
    <3> QED  BY <3>1 DEF AllFrames, FramesGood
  <2> QED  BY <2>1, <2>2, <2>3
<1>6. AllFrames'
  BY <1>5 DEF AllFrames
<1>7. FramesGood'
  BY <1>3, <1>5 DEF FramesGood
<1> QED  BY <1>3, <1>6, <1>7

-----------------------------------------------------------------------------
(* The turns.                                                              *)

TypeInv == log \in Seq(Events) /\ AllFrames
Inductive == TypeInv /\ Grounded({}, log) /\ TreeOK /\ LiveOK /\ FramesGood

LEMMA NoFrames ==
    ASSUME frames = <<>>, log \in Seq(Events), Grounded({}, log)
    PROVE  Inductive
<1>1. DOMAIN frames = {}
  BY EmptyFacts
<1> QED  BY <1>1 DEF Inductive, TypeInv, AllFrames, TreeOK, Tree, LiveOK, FramesGood

LEMMA InductiveInit ==
    ASSUME Init
    PROVE  Inductive
<1>1. log \in Seq(Events) /\ frames = <<>> /\ DOMAIN log = {}
  BY NoEvents DEF Init
<1>2. Grounded({}, log)
  BY <1>1 DEF Grounded
<1> QED  BY <1>1, <1>2, NoFrames

LEMMA RootAlone ==
    Root \in AgentNames /\ Above(Root) = {}
<1>1. Root \in AgentNames
  BY AgentTree
<1>2. ASSUME NEW c \in Composites, Root \in Descendants(c) PROVE FALSE
  <2> DEFINE S == Descendants(c) \ {Root}
  <2>1. S \in SUBSET AgentNames /\ c \in AgentNames
    BY DescendantsAreAgents DEF AgentNames
  <2>2. \A d \in ({c} \cup S) \cap Composites : Range(SubAgents[d]) \subseteq S
    BY <2>1, Children, Deeper, AgentTree
  <2>3. Below({c} \cup S) \subseteq S
    BY <2>2, BelowIs
  <2>4. Descendants(c) \subseteq S
    <3> HIDE DEF S
    <3> QED  BY <2>1, <2>3, LeastBelow
  <2> QED  BY <1>2, <2>4
<1> QED  BY <1>1, <1>2 DEF Above

(* What the invocation recovers of its events is a context.                *)
LEMMA RecoveredIs ==
    ASSUME NEW L \in Seq(Events), NEW c,
           c = [states |-> Populated(L).states, ended |-> Populated(L).ended, writer |-> Applied(Nobody, L)]
    PROVE  /\ c.states = Populated(L).states /\ c.ended = Populated(L).ended /\ c.writer = Applied(Nobody, L)
           /\ IsContext(c) /\ \A A : Carried(L, A, c)
<1>1. PICK P : P = Populated(L)
  OBVIOUS
<1>2. c.states = P.states /\ c.ended = P.ended /\ c.writer = Applied(Nobody, L)
  BY <1>1
<1>3. IsStateMap(P.states)
  <2>1. \A x \in DOMAIN P.states : x \in AgentNames /\ P.states[x] = Latest(L, x, Marks).at
    BY <1>1, PopulatedIs
  <2>2. \A x \in DOMAIN P.states : P.states[x] \in AgentState
    BY <2>1, LatestTyped
  <2> QED  BY <2>1, <2>2 DEF IsStateMap
<1>4. P.ended \subseteq AgentNames
  BY <1>1, PopulatedIs
<1>5. Applied(Nobody, L) \in AgentNames \cup {Nobody}
  BY AppliedIs
<1>6. IsContext(c)
  BY <1>2, <1>3, <1>4, <1>5 DEF IsContext
<1>7. \A A : Carried(L, A, c)
  BY <1>1, <1>2 DEF Carried
<1> QED  BY <1>1, <1>2, <1>6, <1>7

LEMMA StartedIs ==
    ASSUME log \in Seq(Events), StartTurn
    PROVE  \E c, g : /\ c.states = Populated(log).states /\ c.ended = Populated(log).ended
                     /\ c.writer = Applied(Nobody, log) /\ IsContext(c) /\ \A A : Carried(log, A, c)
                     /\ g = Entered(Root, c) /\ DOMAIN frames' = {Root} /\ frames'[Root] = g
                     /\ UNCHANGED <<log, outcome>> /\ frames = <<>>
<1>1. PICK c : c = [states |-> Populated(log).states, ended |-> Populated(log).ended,
                    writer |-> Applied(Nobody, log)]
  OBVIOUS
<1>2. /\ c.states = Populated(log).states /\ c.ended = Populated(log).ended
      /\ c.writer = Applied(Nobody, log) /\ IsContext(c) /\ \A A : Carried(log, A, c)
  BY <1>1, RecoveredIs
<1>3. PICK g : g = Entered(Root, c)
  OBVIOUS
<1>4. frames' = With(<<>>, Root, g) /\ UNCHANGED <<log, outcome>> /\ frames = <<>>
  BY <1>1, <1>3 DEF StartTurn
<1>5. DOMAIN frames' = {Root} /\ frames'[Root] = g
  <2>1. PICK e : e = <<>> /\ DOMAIN e = {}
    BY EmptyFacts
  <2>2. frames' = With(e, Root, g)
    BY <1>4, <2>1
  <2> QED  BY <2>1, <2>2 DEF With
<1> QED  BY <1>2, <1>3, <1>4, <1>5

LEMMA InductiveStart ==
    ASSUME Inductive, StartTurn
    PROVE  Inductive'
<1>1. log \in Seq(Events) /\ Grounded({}, log)
  BY DEF Inductive, TypeInv
<1>2. PICK c, g : /\ IsContext(c) /\ \A A : Carried(log, A, c)
                  /\ g = Entered(Root, c) /\ DOMAIN frames' = {Root} /\ frames'[Root] = g
                  /\ UNCHANGED <<log, outcome>>
  BY <1>1, StartedIs
<1>3. Root \in AgentNames /\ Carried(log, Above(Root), c)
  BY <1>2, RootAlone
<1>4. IsFrame(Root, g) /\ Good(log, Root, g)
  BY <1>1, <1>2, <1>3, EnteredTyped, EnteredGood
<1>5. AllFrames' /\ FramesGood'
  BY <1>2, <1>3, <1>4 DEF AllFrames, FramesGood
<1>6. TreeOK'
  BY <1>2 DEF TreeOK, Tree
<1>7. LiveOK'
  BY <1>2, AgentTree, CompositeKinds DEF LiveOK
<1> QED  BY <1>1, <1>2, <1>5, <1>6, <1>7 DEF Inductive, TypeInv

(* The log after a turn.                                                   *)
LEMMA EndedLog ==
    ASSUME Inductive, EndTurn
    PROVE  /\ Root \in DOMAIN frames /\ IsFrame(Root, frames[Root]) /\ Good(log, Root, frames[Root])
           /\ frames' = <<>> /\ UNCHANGED turn
           /\ \/ frames[Root].at = "failed" /\ log' = log /\ outcome' = "failed"
              \/ /\ frames[Root].at = "done" /\ log' = log \o frames[Root].events
                 /\ outcome' = IF Pauses(frames[Root].events) THEN "paused" ELSE "finished"
<1>1. At(Root, "done") \/ At(Root, "failed")
  BY DEF EndTurn
<1>2. Root \in DOMAIN frames /\ frames[Root].at \in {"done", "failed"}
  BY <1>1 DEF At
<1>3. IsFrame(Root, frames[Root]) /\ Good(log, Root, frames[Root])
  BY <1>2 DEF Inductive, TypeInv, AllFrames, FramesGood
<1>4. /\ log' = IF frames[Root].at = "done" THEN log \o frames[Root].events ELSE log
      /\ outcome' = IF frames[Root].at = "failed" THEN "failed"
                    ELSE IF Pauses(frames[Root].events) THEN "paused" ELSE "finished"
      /\ frames' = <<>> /\ UNCHANGED turn
  BY DEF EndTurn
<1> QED  BY <1>2, <1>3, <1>4

LEMMA InductiveEnd ==
    ASSUME Inductive, EndTurn
    PROVE  Inductive'
<1>1. log \in Seq(Events) /\ Grounded({}, log)
  BY DEF Inductive, TypeInv
<1>2. PICK f : f = frames[Root]
  OBVIOUS
<1>3. PICK s \in Seq(Events) : s = f.events /\ Grounded(Range(log), s)
  BY <1>2, EndedLog DEF IsFrame, Good
<1>4. PICK L \in Seq(Events) : L = log
  BY <1>1
<1>5. frames' = <<>> /\ (log' = L \/ log' = L \o s)
  BY <1>2, <1>3, <1>4, EndedLog
<1>6. log' \in Seq(Events) /\ Grounded({}, log')
  <2>1. CASE log' = L
    BY <1>1, <1>4, <2>1
  <2>2. CASE log' = L \o s
    <3>1. PICK u : u = L \o s
      OBVIOUS
    <3>2. PICK B : B = {}
      OBVIOUS
    <3>3. PICK C : C = B \cup Range(L)
      OBVIOUS
    <3>4. Grounded(B, L) /\ Grounded(C, s)
      BY <1>1, <1>3, <1>4, <3>2, <3>3
    <3>5. u \in Seq(Events)
      BY <3>1, ConcatIs
    <3>6. Grounded(B, u)
      BY <3>1, <3>3, <3>4, GroundedConcat
    <3> QED  BY <2>2, <3>1, <3>2, <3>5, <3>6
  <2> QED  BY <1>5, <2>1, <2>2
<1>7. DOMAIN frames' = {}
  BY <1>5, EmptyFacts
<1> QED  BY <1>6, <1>7 DEF Inductive, TypeInv, AllFrames, TreeOK, Tree, LiveOK, FramesGood

LEMMA InductiveStep ==
    ASSUME Inductive, [Next]_vars
    PROVE  Inductive'
<1>1. CASE StartTurn
  BY <1>1, InductiveStart
<1>2. CASE EndTurn
  BY <1>2, InductiveEnd
<1>3. ASSUME NEW a \in AgentNames, AgentStep(a) PROVE Inductive'
  <2>1. log \in Seq(Events) /\ Grounded({}, log) /\ AllFrames /\ TreeOK /\ LiveOK /\ FramesGood
    BY DEF Inductive, TypeInv
  <2>2. Shape(a)
    BY <1>3, <2>1, ShapeOfStep
  <2>3. AllFrames' /\ FramesGood' /\ UNCHANGED <<log, turn, outcome>>
    BY <2>1, <2>2, StepFrames
  <2>4. TreeOK' /\ LiveOK'
    BY <2>1, <2>2, StepTree, StepLive
  <2> QED  BY <2>1, <2>3, <2>4 DEF Inductive, TypeInv
<1>4. CASE UNCHANGED vars
  BY <1>4 DEF vars, Inductive, TypeInv, AllFrames, TreeOK, Tree, LiveOK, FramesGood
<1> QED  BY <1>1, <1>2, <1>3, <1>4 DEF Next

THEOREM AlwaysInductive == Spec => []Inductive
<1>1. Init => Inductive
  BY InductiveInit
<1>2. Inductive /\ [Next]_vars => Inductive'
  BY InductiveStep
<1> QED  BY <1>1, <1>2, PTL DEF Spec

(* The end marker tells the truth: a sequence that is marked as ended had  *)
(* an answer of every sub-agent, and no agent above a pause is marked      *)
(* after it (start_index, should_pause_invocation).                        *)
THEOREM EndIsTrue == Spec => []EndMeansDone
<1>1. Inductive => EndMeansDone
  <2>1. SUFFICES ASSUME Inductive PROVE EndMeansDone
    OBVIOUS
  <2>2. ASSUME NEW i \in DOMAIN log, log[i].kind = "end", log[i].by \in Sequentials,
               NEW sub \in Range(SubAgents[log[i].by])
        PROVE  \E j \in 1 .. i : log[j].by = sub /\ log[j].kind \in Answer(sub)
    <3>1. GroundedEvent({} \cup Prefix(log, i), log[i])
      BY <2>1 DEF Inductive, Grounded
    <3>2. Over({} \cup Prefix(log, i), sub)
      BY <2>2, <3>1 DEF GroundedEvent
    <3> QED  BY <3>2 DEF Over, Prefix
  <2>3. ASSUME NEW a \in DOMAIN frames PROVE Ordered(frames[a].events)
    BY <2>1 DEF Inductive, FramesGood, Good
  <2> QED  BY <2>2, <2>3 DEF EndMeansDone, Ordered
<1> QED  BY <1>1, AlwaysInductive, PTL

-----------------------------------------------------------------------------
(* The state that an agent sees.                                           *)

LEMMA AncestorsRun ==
    ASSUME NEW F, DOMAIN F \subseteq AgentNames, Tree(F), NEW x \in DOMAIN F, NEW c \in Above(x)
    PROVE  c \in DOMAIN F /\ F[c].at \in {"wait", "join"} /\ (F[c].at = "join" => c \in Parallels)
<1>1. c \in Composites /\ x \in Descendants(c) /\ c \in AgentNames
  BY CompositeKinds DEF Above
<1> DEFINE OK == c \in DOMAIN F /\ F[c].at \in {"wait", "join"} /\ (F[c].at = "join" => c \in Parallels)
           S == {y \in AgentNames : y \in DOMAIN F => OK}
<1>2. ASSUME NEW d \in ({c} \cup S) \cap Composites, NEW y \in Range(SubAgents[d]) PROVE y \in S
  <2>1. y \in AgentNames
    BY SubAgentFacts
  <2>2. ASSUME y \in DOMAIN F PROVE OK
    <3>1. y # Root
      BY AgentTree
    <3>2. PICK e \in Composites : Runs(F, e, y)
      BY <2>2, <3>1 DEF Tree
    <3>3. e = d
      BY <3>2, OneParent DEF Runs
    <3> QED  BY <3>2, <3>3 DEF Runs
  <2> QED  BY <2>1, <2>2
<1>3. Below({c} \cup S) \subseteq S
  BY <1>2, BelowIs
<1>4. Descendants(c) \subseteq S
  <2> HIDE DEF S
  <2>1. S \in SUBSET AgentNames
    BY DEF S
  <2> QED  BY <1>1, <1>3, <2>1, LeastBelow
<1> QED  BY <1>1, <1>4

Writing(F, x) == {c \in {x} \cup Above(x) : Writes(F[c].events)}
Sees(F, L, x) ==
    IF Writing(F, x) = {} THEN F[x].writer = Applied(Nobody, L)
    ELSE \E c \in Writing(F, x) : /\ Writing(F, x) \cap Descendants(c) = {}
                                  /\ F[x].writer = Applied(Nobody, F[c].events)
SeesOK ==
    \A x \in DOMAIN frames :
        frames[x].at \in {"run", "wait"} /\ Above(x) \cap Parallels = {} => Sees(frames, log, x)

AppliesLike(s, t) == (Writes(s) <=> Writes(t)) /\ Applied(Nobody, s) = Applied(Nobody, t)

LEMMA SameSight ==
    ASSUME NEW F, NEW G, NEW L, NEW x, Sees(F, L, x), G[x].writer = F[x].writer,
           \A c \in {x} \cup Above(x) : AppliesLike(F[c].events, G[c].events)
    PROVE  Sees(G, L, x)
<1>1. Writing(G, x) = Writing(F, x)
  BY DEF Writing, AppliesLike
<1>2. \A c \in Writing(F, x) : Applied(Nobody, F[c].events) = Applied(Nobody, G[c].events)
  BY DEF Writing, AppliesLike
<1> QED  BY <1>1, <1>2 DEF Sees

LEMMA AppliedConcat ==
    ASSUME NEW s \in Seq(Events), NEW t \in Seq(Events), NEW w, NEW v
    PROVE  /\ Writes(s \o t) <=> Writes(s) \/ Writes(t)
           /\ Writes(t) => Applied(w, s \o t) = Applied(v, t)
           /\ ~Writes(t) => Applied(w, s \o t) = Applied(w, s) /\ Applied(w, t) = w
<1>1. PICK u : u = s \o t
  OBVIOUS
<1>2. u \in Seq(Events) /\ Range(u) = Range(s) \cup Range(t)
  BY <1>1, ConcatIs
<1>3. Writes(u) <=> Writes(s) \/ Writes(t)
  BY <1>2 DEF Writes
<1> DEFINE W(q) == {i \in DOMAIN q : q[i].kind = "write"}
<1>4. \A q \in Seq(Events) : W(q) \in SUBSET Nat /\ IsFiniteSet(W(q)) /\ (W(q) # {} <=> Writes(q))
  <2> TAKE q \in Seq(Events)
  <2>1. W(q) \in SUBSET Nat /\ IsFiniteSet(W(q))
    BY RangeIs, FS_Subset
  <2>2. W(q) # {} <=> Writes(q)
    BY RangeIs DEF Writes
  <2> QED  BY <2>1, <2>2
<1>5. \A q \in Seq(Events) : \A z : Applied(z, q) = IF W(q) = {} THEN z ELSE q[Max(W(q))].by
  BY DEF Applied
<1>6. ASSUME Writes(t) PROVE Applied(w, u) = Applied(v, t)
  <2>1. PICK m \in W(t) : m = Max(W(t)) /\ \A j \in W(t) : m >= j
    <3>1. PICK T : T = W(t)
      OBVIOUS
    <3>2. T \in SUBSET Nat /\ IsFiniteSet(T) /\ T # {}
      BY <1>4, <1>6, <3>1
    <3>3. Max(T) \in T /\ \A j \in T : Max(T) >= j
      BY <3>2, MaxOfNaturals
    <3> QED  BY <3>1, <3>3
  <2>2. PICK n \in W(u) : n = Max(W(u)) /\ \A j \in W(u) : n >= j
    <3>1. PICK T : T = W(u)
      OBVIOUS
    <3>2. T \in SUBSET Nat /\ IsFiniteSet(T) /\ T # {}
      BY <1>2, <1>3, <1>4, <1>6, <3>1
    <3>3. Max(T) \in T /\ \A j \in T : Max(T) >= j
      BY <3>2, MaxOfNaturals
    <3> QED  BY <3>1, <3>3
  <2>3. PICK k \in DOMAIN u : k = Len(s) + m /\ u[k] = t[m] /\ m \in Nat /\ Len(s) \in Nat /\ m >= 1
    BY <1>1, ConcatIs
  <2>4. n >= k /\ n \in Nat /\ k \in Nat /\ n \in DOMAIN u
    <3>1. n \in DOMAIN u /\ \A j \in DOMAIN u : j \in Nat
      BY <1>2, RangeIs
    <3>2. k \in W(u)
      BY <2>1, <2>3
    <3> QED  BY <2>2, <3>1, <3>2
  <2>5. n \notin DOMAIN s
    BY <1>1, <2>3, <2>4, ConcatIs
  <2>6. PICK j \in DOMAIN t : j = n - Len(s) /\ u[n] = t[j]
    BY <1>1, <2>4, <2>5, ConcatIs
  <2>7. j \in W(t)
    BY <2>2, <2>6
  <2>8. j = m
    <3>1. m >= j
      BY <2>1, <2>7
    <3> QED  BY <2>3, <2>4, <2>6, <3>1
  <2>9. Applied(w, u) = u[n].by /\ Applied(v, t) = t[m].by
    BY <1>2, <1>5, <2>1, <2>2
  <2> QED  BY <2>6, <2>8, <2>9
<1>7. ASSUME ~Writes(t) PROVE Applied(w, u) = Applied(w, s) /\ Applied(w, t) = w
  <2>1. W(u) = W(s)
    <3>1. \A i \in DOMAIN u : i \notin DOMAIN s => u[i].kind # "write"
      BY <1>1, <1>7, ConcatIs, RangeIs DEF Writes
    <3>2. \A i \in DOMAIN s : i \in DOMAIN u /\ u[i] = s[i]
      BY <1>1, ConcatIs
    <3> QED  BY <3>1, <3>2
  <2>2. \A i \in W(s) : u[i] = s[i]
    BY <1>1, ConcatIs
  <2>3. W(s) # {} => Max(W(s)) \in W(s)
    <3>1. PICK T : T = W(s)
      OBVIOUS
    <3>2. T # {} => Max(T) \in T
      BY <1>4, <3>1, MaxOfNaturals
    <3> QED  BY <3>1, <3>2
  <2>4. Applied(w, u) = Applied(w, s)
    BY <1>2, <1>5, <2>1, <2>2, <2>3
  <2>5. W(t) = {}
    BY <1>4, <1>7
  <2> QED  BY <1>5, <2>4, <2>5
<1> QED  BY <1>1, <1>3, <1>6, <1>7

LEMMA NoneWritten ==
    Writes(<<>>) = FALSE /\ \A w : Applied(w, <<>>) = w
<1>1. {i \in DOMAIN <<>> : <<>>[i].kind = "write"} = {} /\ Range(<<>>) = {}
  BY NoEvents
<1> QED  BY <1>1 DEF Writes, Applied

(* The agents above one that stays under way stay as they are, but the one *)
(* that makes the step.                                                    *)
LEMMA AncestorsStay ==
    ASSUME NEW a, NEW g, NEW D, NEW E, Changes(a, g, D, E), TreeOK', DOMAIN frames' \subseteq AgentNames,
           NEW x \in DOMAIN frames', NEW c \in Above(x), c # a
    PROVE  c \in DOMAIN frames /\ frames'[c] = frames[c]
<1>1. PICK F : F = frames'
  OBVIOUS
<1>2. Tree(F) /\ DOMAIN F \subseteq AgentNames /\ x \in DOMAIN F
  BY <1>1 DEF TreeOK
<1>3. c \in DOMAIN F /\ F[c].at \in {"wait", "join"}
  BY <1>2, AncestorsRun
<1>4. c \notin E
  <2>1. SUFFICES ASSUME c \in E PROVE FALSE
    OBVIOUS
  <2>2. F[c] = Entered(c, g)
    BY <1>1, <2>1 DEF Changes
  <2>3. F[c].at = "run"
    BY <2>2 DEF Entered
  <2> QED  BY <1>3, <2>3
<1> QED  BY <1>1, <1>3, <1>4 DEF Changes

(* One step of an agent that is at work before and after it.               *)
LEMMA StepSees ==
    ASSUME NEW a \in AgentNames, NEW f, NEW g, NEW D, NEW E, IsFrame(a, f), IsFrame(a, g),
           Step(a, f, g, D, E), g.at \in {"run", "wait"}, AllFrames
    PROVE  \/ AppliesLike(f.events, g.events) /\ g.writer = f.writer
           \/ Writes(g.events) /\ g.writer = Applied(Nobody, g.events)
<1>1. PICK s \in Seq(Events), u \in Seq(Events) : s = f.events /\ u = g.events
  BY DEF IsFrame
<1>2. CASE Calls(a, f, g)
  <2>1. g.writer = f.writer
    BY <1>2 DEF Calls
  <2>2. CASE f.resuming
    BY <1>2, <2>1, <2>2 DEF Calls, AppliesLike
  <2>3. CASE ~f.resuming
    <3>1. PICK at \in AgentState : u = s \o <<Marker(a, at)>>
      BY <1>1, <1>2, <2>3 DEF Calls
    <3>2. PICK e \in Events : e = Marker(a, at) /\ e.kind = "state"
      BY EventIsTyped DEF Marker, Event, Kinds
    <3>3. PICK t \in Seq(Events) : t = <<e>> /\ Range(t) = {e}
      BY OneEvent
    <3>4. ~Writes(t)
      BY <3>2, <3>3 DEF Writes
    <3>5. u = s \o t
      BY <3>1, <3>2, <3>3
    <3>6. (Writes(u) <=> Writes(s)) /\ Applied(Nobody, u) = Applied(Nobody, s)
      BY <3>4, <3>5, AppliedConcat, ZenonT(60)
    <3> QED  BY <1>1, <2>1, <3>6 DEF AppliesLike
  <2> QED  BY <2>2, <2>3
<1>3. ASSUME NEW x \in Range(SubAgents[a]) \cap DOMAIN frames, Takes(a, f, frames[x], g)
      PROVE  \/ AppliesLike(f.events, g.events) /\ g.writer = f.writer
             \/ Writes(g.events) /\ g.writer = Applied(Nobody, g.events)
  <2>1. PICK t \in Seq(Events) : t = frames[x].events
    BY DEF AllFrames, IsFrame
  <2>2. u = s \o t
    BY <1>1, <1>3, <2>1 DEF Takes
  <2>3. PICK w : w = f.writer
    OBVIOUS
  <2>4. g.writer = Applied(w, t)
    BY <1>3, <2>1, <2>3 DEF Takes
  <2>5. CASE Writes(t)
    <3>1. Applied(Nobody, u) = Applied(w, t) /\ Writes(u)
      <4>1. Applied(Nobody, s \o t) = Applied(w, t)
        BY <2>5, AppliedConcat
      <4>2. Writes(s \o t)
        BY <2>5, AppliedConcat
      <4> QED  BY <2>2, <4>1, <4>2
    <3> QED  BY <1>1, <2>4, <3>1
  <2>6. CASE ~Writes(t)
    <3>1. Applied(Nobody, u) = Applied(Nobody, s) /\ (Writes(u) <=> Writes(s))
      BY <2>2, <2>6, AppliedConcat, ZenonT(60)
    <3>2. Applied(w, t) = w
      BY <2>6, AppliedConcat
    <3> QED  BY <1>1, <2>3, <2>4, <3>1, <3>2 DEF AppliesLike
  <2> QED  BY <2>5, <2>6
<1>4. CASE PassesOn(a, f, g)
  BY <1>4 DEF PassesOn, AppliesLike
<1>5. \/ Calls(a, f, g) \/ PassesOn(a, f, g)
      \/ \E x \in Range(SubAgents[a]) \cap DOMAIN frames : Takes(a, f, frames[x], g)
  BY DEF Step, Stops, Ends, Finishes, Replies, Fails
<1> QED  BY <1>2, <1>3, <1>4, <1>5

LEMMA SeesSelf ==
    ASSUME NEW F, NEW L, NEW x \in AgentNames, Writes(F[x].events), F[x].writer = Applied(Nobody, F[x].events)
    PROVE  Sees(F, L, x)
<1>1. x \in Writing(F, x)
  BY DEF Writing
<1>2. ASSUME NEW c \in Writing(F, x), c \in Descendants(x) PROVE FALSE
  <2>1. c \in Above(x)
    BY <1>2, NoneBelowItself DEF Writing
  <2>2. x \in Descendants(c) /\ c \in AgentNames
    BY <2>1, CompositeKinds DEF Above
  <2>3. c \in Descendants(c)
    BY <1>2, <2>2, DescendantsOfDescendants
  <2> QED  BY <2>2, <2>3, NoneBelowItself
<1> QED  BY <1>1, <1>2 DEF Sees

LEMMA SeesStep ==
    ASSUME AllFrames, AllFrames', TreeOK, TreeOK', SeesOK, NEW a \in AgentNames, Shape(a)
    PROVE  SeesOK'
<1>1. PICK g, D, E : Changes(a, g, D, E) /\ Step(a, frames[a], g, D, E) /\ IsFrame(a, g)
  BY DEF Shape
<1>2. PICK f : f = frames[a]
  OBVIOUS
<1>3. PICK F, G : F = frames /\ G = frames'
  OBVIOUS
<1>4. /\ a \in DOMAIN frames /\ G[a] = g /\ a \in DOMAIN G
      /\ \A y \in DOMAIN G : y # a /\ y \notin E => y \in DOMAIN frames /\ G[y] = F[y]
      /\ \A y \in E : G[y] = Entered(y, g)
      /\ Step(a, f, g, D, E) /\ IsFrame(a, f) /\ log' = log /\ DOMAIN G \subseteq AgentNames
  BY <1>1, <1>2, <1>3 DEF Changes, AllFrames
<1>5. \A x \in DOMAIN G : \A c \in Above(x) : c # a => c \in DOMAIN F /\ G[c] = F[c]
  BY <1>1, <1>3, <1>4, AncestorsStay
<1>6. ASSUME g.at \in {"run", "wait"}, Above(a) \cap Parallels = {} PROVE Sees(G, log, a)
  <2>1. CASE Writes(g.events) /\ g.writer = Applied(Nobody, g.events)
    BY <1>4, <2>1, SeesSelf
  <2>2. CASE AppliesLike(f.events, g.events) /\ g.writer = f.writer
    <3>1. f.at \in {"run", "wait"}
      BY <1>4, <1>6 DEF Step, Calls, Takes, Stops, Ends, PassesOn, Finishes, Replies, Fails
    <3>2. Sees(F, log, a)
      BY <1>2, <1>3, <1>4, <1>6, <3>1 DEF SeesOK
    <3>3. \A c \in {a} \cup Above(a) : AppliesLike(F[c].events, G[c].events)
      BY <1>2, <1>3, <1>4, <1>5, <2>2 DEF AppliesLike
    <3>4. G[a].writer = F[a].writer
      BY <1>2, <1>3, <1>4, <2>2
    <3> QED  BY <3>2, <3>3, <3>4, SameSight
  <2> QED  BY <1>1, <1>4, <1>6, <2>1, <2>2, StepSees
<1>7. SUFFICES ASSUME NEW x \in DOMAIN G, G[x].at \in {"run", "wait"}, Above(x) \cap Parallels = {}
               PROVE  Sees(G, log, x)
  BY <1>3, <1>4 DEF SeesOK
<1>8. CASE x = a /\ x \notin E
  BY <1>4, <1>6, <1>7, <1>8
<1>9. CASE x \in E
  <2>1. a \in Composites /\ x \in Range(SubAgents[a]) /\ (a \notin Parallels => g.at = "wait")
    BY <1>4, <1>9, StepEntering
  <2>2. Above(x) = {a} \cup Above(a) /\ x \notin Above(x)
    BY <1>4, <1>7, <2>1, AboveAChild, NoneBelowItself DEF Above
  <2>3. Sees(G, log, a)
    BY <1>6, <1>7, <2>1, <2>2
  <2>4. G[x].events = <<>> /\ G[x].writer = G[a].writer
    <3>1. G[x] = Entered(x, g) /\ G[a] = g
      BY <1>4, <1>9
    <3>2. Entered(x, g).events = <<>> /\ Entered(x, g).writer = g.writer
      BY DEF Entered
    <3> QED  BY <3>1, <3>2
  <2>5. Writing(G, x) = Writing(G, a)
    BY <2>2, <2>4, NoneWritten DEF Writing
  <2> QED  BY <2>3, <2>4, <2>5 DEF Sees
<1>10. CASE x # a /\ x \notin E
  <2>1. x \in DOMAIN F /\ G[x] = F[x]
    BY <1>3, <1>4, <1>10
  <2>2. Sees(F, log, x)
    BY <1>3, <1>7, <2>1 DEF SeesOK
  <2>3. a \notin Above(x)
    <3>1. SUFFICES ASSUME a \in Above(x) PROVE FALSE
      OBVIOUS
    <3>2. Tree(F) /\ Tree(G) /\ DOMAIN F \subseteq AgentNames
      BY <1>3 DEF TreeOK, AllFrames
    <3>3. a \notin Parallels
      BY <1>7, <3>1
    <3>4. F[a].at = "wait"
      BY <2>1, <3>1, <3>2, <3>3, AncestorsRun
    <3>5. G[a].at = "wait"
      BY <1>4, <3>1, <3>2, <3>3, AncestorsRun
    <3> QED  BY <1>2, <1>3, <1>4, <3>3, <3>4, <3>5
             DEF Step, Calls, Takes, Stops, Ends, PassesOn, Finishes, Replies, Fails
  <2>4. \A c \in {x} \cup Above(x) : AppliesLike(F[c].events, G[c].events)
    BY <1>5, <2>1, <2>3 DEF AppliesLike
  <2> QED  BY <2>1, <2>2, <2>4, SameSight
<1> QED  BY <1>8, <1>9, <1>10

LEMMA SeesInductive ==
    ASSUME Inductive, Inductive', SeesOK, [Next]_vars
    PROVE  SeesOK'
<1>1. CASE StartTurn
  <2>1. log \in Seq(Events)
    BY DEF Inductive, TypeInv
  <2>2. PICK c, g : /\ c.writer = Applied(Nobody, log) /\ g = Entered(Root, c)
                    /\ DOMAIN frames' = {Root} /\ frames'[Root] = g /\ UNCHANGED <<log, outcome>>
    BY <1>1, <2>1, StartedIs
  <2>3. g.writer = Applied(Nobody, log) /\ g.events = <<>>
    BY <2>2 DEF Entered
  <2>4. Writing(frames', Root) = {}
    BY <2>2, <2>3, RootAlone, NoneWritten DEF Writing
  <2> QED  BY <2>2, <2>3, <2>4 DEF SeesOK, Sees
<1>2. CASE EndTurn
  <2>1. DOMAIN frames' = {}
    BY <1>2, EndedLog, EmptyFacts
  <2> QED  BY <2>1 DEF SeesOK
<1>3. ASSUME NEW a \in AgentNames, AgentStep(a) PROVE SeesOK'
  <2>1. AllFrames /\ AllFrames' /\ TreeOK /\ TreeOK'
    BY DEF Inductive, TypeInv
  <2> QED  BY <1>3, <2>1, ShapeOfStep, SeesStep
<1>4. CASE UNCHANGED vars
  BY <1>4 DEF vars, SeesOK
<1> QED  BY <1>1, <1>2, <1>3, <1>4 DEF Next

(* An agent sees the state that every agent before it has left, in this    *)
(* turn and the earlier ones (sequential_agent.rs, apply_events).          *)
THEOREM SeesAllBefore == Spec => []SeesEarlierState
<1>1. Init => SeesOK
  <2>1. SUFFICES ASSUME Init PROVE SeesOK
    OBVIOUS
  <2>2. DOMAIN frames = {}
    BY <2>1, EmptyFacts DEF Init
  <2> QED  BY <2>2 DEF SeesOK
<1>2. Inductive /\ Inductive' /\ SeesOK /\ [Next]_vars => SeesOK'
  BY SeesInductive
<1>3. Inductive /\ SeesOK => SeesEarlierState
  <2>1. SUFFICES ASSUME Inductive, SeesOK, NEW a \in DOMAIN frames, frames[a].at = "run",
                        frames[a].events = <<>>, Above(a) \cap Parallels = {}
                 PROVE  LET writing == {c \in Above(a) : Writes(frames[c].events)}
                        IN  IF writing = {} THEN frames[a].writer = Applied(Nobody, log)
                            ELSE \E c \in writing : /\ writing \cap Descendants(c) = {}
                                                    /\ frames[a].writer = Applied(Nobody, frames[c].events)
    BY DEF SeesEarlierState
  <2>2. Sees(frames, log, a)
    BY <2>1 DEF SeesOK
  <2>3. Writing(frames, a) = {c \in Above(a) : Writes(frames[c].events)}
    BY <2>1, NoneWritten DEF Writing
  <2> QED  BY <2>2, <2>3 DEF Sees
<1> QED  BY <1>1, <1>2, <1>3, AlwaysInductive, PTL DEF Spec

-----------------------------------------------------------------------------
(* What the log says of a composite agent, and what a resumption makes of  *)
(* it.  An agent whose callback adds content after its end marker is not   *)
(* known as ended, so the callbacks are supposed to be of sequences, which *)
(* then go on behind their last sub-agent.                                 *)

AfterOnSequences == After \subseteq Sequentials

(* M tells that c has ended for good, or at which sub-agent it stands.     *)
Position(M, c) ==
    /\ Over(Range(M), c) =>
          Latest(M, c, Marks).kind = "end" /\ (c \notin Sequentials => LatestKind(M, c) = "end")
    /\ c \in Sequentials /\ Latest(M, c, Marks).kind = "state" =>
          \A j \in DOMAIN SubAgents[c] :
              /\ j = Index(c, Latest(M, c, Marks).at.sub) => ~Over(Range(M), SubAgents[c][j])
              /\ j > Index(c, Latest(M, c, Marks).at.sub) => Untouched(Range(M), SubAgents[c][j])

Firm(a) == {c \in SubTree(a) \cap Composites : OutsideLoops(c)}
Related(L, a, f) == \A c \in SubTree(a) \cap Composites : Kin(Told(L, f), c)
NotYet(a, f) ==
    a \in Sequentials /\ f.at \in {"run", "wait"} =>
        \A j \in DOMAIN SubAgents[a] : j >= f.next => Untouched(Range(f.events), SubAgents[a][j])
NotOver(a, f) == a \in Composites /\ f.at \notin {"done", "failed"} => ~Over(Range(f.events), a)
Resumes(a, f) == a \in Loops /\ f.at = "run" /\ f.resuming => f.next <= Len(SubAgents[a])
AtMark(L, a, f) ==
    /\ a \in Sequentials \cup Loops
    /\ f.at = "wait" \/ (f.at = "run" /\ f.resuming /\ f.next <= Len(SubAgents[a]))
    => Latest(L \o f.events, a, Marks) = Marker(a, State(SubAgents[a][f.next], f.looped))
Paused(a, f) == f.at = "done" /\ Pauses(f.events) => ~Over(Range(f.events), a)
Placed(L, a, f) == \A c \in Firm(a) : c # a \/ f.at = "done" => Position(L \o f.events, c)

Kept(L, a, f) ==
    \A x \in Descendants(a) : OutsideLoops(x) =>
        /\ x \in DOMAIN Populated(L).states => x \in DOMAIN f.states
        /\ x \in Populated(L).ended => x \in f.ended
Ahead(L, a, f) ==
    a \in Sequentials /\ f.at \in {"run", "wait"} =>
        \A j \in DOMAIN SubAgents[a] :
            /\ j >= f.next => ~Over(Range(L), SubAgents[a][j])
            /\ j > f.next \/ (j = f.next /\ f.at = "run" /\ ~f.resuming)
                   => Untouched(Range(L), SubAgents[a][j])
Fresh(L, a, f) ==
    a \in Composites /\ Over(Range(L), a) =>
        a \in Sequentials /\ f.at = "run" /\ f.next > Len(SubAgents[a])
Lasting(L, a, f) ==
    OutsideLoops(a) /\ f.at \notin {"done", "failed"} => Kept(L, a, f) /\ Ahead(L, a, f) /\ Fresh(L, a, f)

Better(L, a, f) ==
    /\ Related(L, a, f) /\ NotYet(a, f) /\ NotOver(a, f) /\ Resumes(a, f) /\ AtMark(L, a, f)
    /\ Paused(a, f) /\ Placed(L, a, f) /\ Lasting(L, a, f)

LEMMA UntouchedIs ==
    ASSUME NEW x \in AgentNames, NEW S, Untouched(S, x)
    PROVE  ~Over(S, x)
BY DescendantsAreAgents DEF Over, Untouched

LEMMA UntouchedChild ==
    ASSUME NEW c \in Composites, NEW x \in Range(SubAgents[c]), NEW S,
           \A e \in S : e.by \notin Descendants(c)
    PROVE  Untouched(S, x)
BY ParentNotBelow DEF Untouched

(* What the log holds of an agent that its events do not leave as ended.   *)
LEMMA RecoveredPlace ==
    ASSUME AfterOnSequences, NEW L \in Seq(Events), Grounded({}, L), NEW x \in Sequentials \cup Loops,
           LatestKind(L, x) \notin {"none", "end"}, NEW m, m = Latest(L, x, Marks)
    PROVE  /\ m \in Range(L) /\ m.by = x /\ m.kind \in Marks /\ m \in Events
           /\ m.kind = "end" => m.at = Empty /\ x \in Sequentials
           /\ m.kind = "state" => m.at.sub \in Range(SubAgents[x]) /\ m.at.sub # Nobody
<1>1. x \in Composites
  BY CompositeKinds
<1>2. \A d \in Range(L) : GroundedEvent(Range(L), d)
  <2> TAKE d \in Range(L)
  <2>1. GroundedEvent({} \cup Range(L), d)
    BY GroundedInRange
  <2> QED  BY <2>1
<1>3. PICK e : e = Latest(L, x, Kinds)
  OBVIOUS
<1>4. e \in Range(L) /\ e.by = x /\ e.kind # "end" /\ e \in Events
  BY <1>3, LatestCases, NoEventIs DEF LatestKind
<1>5. \E d \in Range(L) : d.by = x /\ d.kind \in Marks
  <2>1. CASE e.kind \in Marks
    BY <1>4, <2>1
  <2>2. CASE e.kind \notin Marks
    BY <1>1, <1>2, <1>4, <2>2 DEF GroundedEvent
  <2> QED  BY <2>1, <2>2
<1>6. m \in Range(L) /\ m.by = x /\ m.kind \in Marks /\ m \in Events
  BY <1>5, LatestCases
<1>7. ASSUME m.kind = "end" PROVE m.at = Empty /\ x \in Sequentials
  <2>1. m.at = Empty
    BY <1>2, <1>6, <1>7 DEF GroundedEvent
  <2>2. CASE e.kind \in Marks
    <3>1. PICK i \in DOMAIN L : /\ L[i].by = x /\ L[i].kind \in Kinds /\ e = L[i]
                                /\ \A j \in DOMAIN L : j > i => ~(L[j].by = x /\ L[j].kind \in Kinds)
      <4>1. e.kind \in Kinds
        BY <1>4 DEF Events
      <4> QED  BY <1>3, <1>4, <4>1, LatestExists
    <3>2. \A j \in DOMAIN L : j > i => ~(L[j].by = x /\ L[j].kind \in Marks)
      BY <3>1 DEF Kinds, Marks
    <3>3. m = e
      BY <2>2, <3>1, <3>2, LatestIs
    <3> QED  BY <1>4, <1>7, <3>3
  <2>3. CASE e.kind \notin Marks
    <3>1. x \in After
      BY <1>1, <1>2, <1>4, <2>3 DEF GroundedEvent
    <3> QED  BY <2>1, <3>1 DEF AfterOnSequences
  <2> QED  BY <2>1, <2>2, <2>3
<1>8. ASSUME m.kind = "state" PROVE m.at.sub \in Range(SubAgents[x]) /\ m.at.sub # Nobody
  <2>1. m.at.sub \in Range(SubAgents[x])
    BY <1>2, <1>6, <1>8 DEF GroundedEvent
  <2> QED  BY <1>1, <2>1, SubAgentFacts, AgentTree
<1> QED  BY <1>6, <1>7, <1>8

LEMMA ConcatAssoc ==
    ASSUME NEW s \in Seq(Events), NEW t \in Seq(Events), NEW u \in Seq(Events)
    PROVE  s \o (t \o u) = (s \o t) \o u
OBVIOUS

(* The first list is the second, then the third.                           *)
Joining(u, s, t) == s \in Seq(Events) /\ t \in Seq(Events) /\ u = s \o t

LEMMA JoiningTyped == ASSUME NEW u, NEW s, NEW t, Joining(u, s, t) PROVE u \in Seq(Events)
BY DEF Joining

(* Three lists joined from the left are joined from the right.             *)
LEMMA JoiningRight ==
    ASSUME NEW r, NEW s, NEW t, NEW rs, NEW st, NEW u,
           Joining(rs, r, s), Joining(u, rs, t), Joining(st, s, t)
    PROVE  Joining(u, r, st)
<1>1. r \in Seq(Events) /\ s \in Seq(Events) /\ t \in Seq(Events) /\ st \in Seq(Events)
  BY JoiningTyped DEF Joining
<1>2. PICK v : v = r \o st
  OBVIOUS
<1>3. v = u
  <2>1. r \o (s \o t) = (r \o s) \o t
    BY <1>1, ConcatAssoc
  <2>2. rs = r \o s /\ u = rs \o t /\ st = s \o t
    BY DEF Joining
  <2> QED  BY <1>2, <2>1, <2>2, ZenonT(60)
<1> QED  BY <1>1, <1>2, <1>3, ZenonT(60) DEF Joining

(* Three lists joined from the right are joined from the left.             *)
LEMMA JoiningLeft ==
    ASSUME NEW r, NEW s, NEW t, NEW rs, NEW st, NEW u,
           Joining(rs, r, s), Joining(st, s, t), Joining(u, r, st)
    PROVE  Joining(u, rs, t)
<1>1. PICK v : v = rs \o t
  OBVIOUS
<1>2. Joining(v, rs, t)
  BY <1>1, JoiningTyped, ZenonT(60) DEF Joining
<1>3. Joining(v, r, st)
  BY <1>2, JoiningRight
<1> QED  BY <1>2, <1>3, ZenonT(60) DEF Joining

(* The two lists say the same of an agent and of those below it.           *)
Like(M, N, c) ==
    /\ Latest(M, c, Marks) = Latest(N, c, Marks) /\ Latest(M, c, Kinds) = Latest(N, c, Kinds)
    /\ \A e : e.by \in SubTree(c) => (e \in Range(M) <=> e \in Range(N))

LEMMA LikePlace ==
    ASSUME NEW c \in Composites, NEW M, NEW N, Like(M, N, c), Position(M, c)
    PROVE  Position(N, c)
<1>1. c \in AgentNames /\ c \in SubTree(c)
  BY CompositeKinds, DescendantsAreAgents
<1>2. \A x \in Range(SubAgents[c]) : SubTree(x) \subseteq SubTree(c) /\ x \in SubTree(x)
  BY ParentNotBelow, Children, DescendantsAreAgents
<1>3. Over(Range(N), c) => Over(Range(M), c)
  BY <1>1 DEF Over, Like
<1>4. \A x \in Range(SubAgents[c]) : Over(Range(N), x) => Over(Range(M), x)
  BY <1>2 DEF Over, Like
<1>5. \A x \in Range(SubAgents[c]) : Untouched(Range(M), x) => Untouched(Range(N), x)
  BY <1>2 DEF Untouched, Like
<1>6. \A j \in DOMAIN SubAgents[c] : SubAgents[c][j] \in Range(SubAgents[c])
  BY SubAgentFacts
<1>7. Latest(M, c, Marks) = Latest(N, c, Marks) /\ LatestKind(M, c) = LatestKind(N, c)
  BY DEF Like, LatestKind
<1> QED  BY <1>3, <1>4, <1>5, <1>6, <1>7 DEF Position

LEMMA LikeAppended ==
    ASSUME NEW s \in Seq(Events), NEW t \in Seq(Events), NEW c \in AgentNames, Untouched(Range(t), c),
           NEW u, u = s \o t
    PROVE  Like(s, u, c)
<1>1. Range(u) = Range(s) \cup Range(t)
  BY ConcatIs
<1>2. \A e \in Range(t) : e.by # c
  BY DescendantsAreAgents DEF Untouched
<1>3. Latest(u, c, Marks) = Latest(s, c, Marks) /\ Latest(u, c, Kinds) = Latest(s, c, Kinds)
  BY <1>2, LatestConcatOld
<1> QED  BY <1>1, <1>3 DEF Like, Untouched

LEMMA LatestInserted ==
    ASSUME NEW L \in Seq(Events), NEW s \in Seq(Events), NEW t \in Seq(Events), NEW c, NEW K,
           \A e \in Range(s) : e.by # c
    PROVE  Latest((L \o s) \o t, c, K) = Latest(L \o t, c, K)
<1>1. PICK M \in Seq(Events) : M = L \o s
  BY ConcatIs
<1>2. Latest(M, c, K) = Latest(L, c, K)
  BY <1>1, LatestConcatOld
<1>3. CASE \E e \in Range(t) : e.by = c /\ e.kind \in K
  <2>1. Latest(M \o t, c, K) = Latest(t, c, K) /\ Latest(L \o t, c, K) = Latest(t, c, K)
    BY <1>3, LatestConcatNew
  <2> QED  BY <1>1, <2>1
<1>4. CASE \A e \in Range(t) : ~(e.by = c /\ e.kind \in K)
  <2>1. Latest(M \o t, c, K) = Latest(M, c, K) /\ Latest(L \o t, c, K) = Latest(L, c, K)
    BY <1>4, LatestConcatOld
  <2> QED  BY <1>1, <1>2, <2>1
<1> QED  BY <1>3, <1>4

LEMMA LikeInserted ==
    ASSUME NEW L \in Seq(Events), NEW s \in Seq(Events), NEW t \in Seq(Events), NEW c \in AgentNames,
           Untouched(Range(s), c)
    PROVE  Like(L \o t, (L \o s) \o t, c)
<1>1. PICK M \in Seq(Events) : M = L \o s /\ Range(M) = Range(L) \cup Range(s)
  BY ConcatIs
<1>2. PICK N : N = L \o t /\ Range(N) = Range(L) \cup Range(t)
  BY ConcatIs
<1>3. PICK O : O = M \o t /\ Range(O) = Range(M) \cup Range(t)
  BY ConcatIs
<1>4. \A e \in Range(s) : e.by # c
  BY DescendantsAreAgents DEF Untouched
<1>5. Latest(O, c, Marks) = Latest(N, c, Marks) /\ Latest(O, c, Kinds) = Latest(N, c, Kinds)
  BY <1>1, <1>2, <1>3, <1>4, LatestInserted
<1>6. \A e : e.by \in SubTree(c) => (e \in Range(N) <=> e \in Range(O))
  BY <1>1, <1>2, <1>3 DEF Untouched
<1> QED  BY <1>1, <1>2, <1>3, <1>5, <1>6 DEF Like

(* What the events of a turn leave the context with is known to it still.  *)
Knows(L, x, c) ==
    \A y \in SubTree(x) : OutsideLoops(y) =>
        /\ y \in DOMAIN Populated(L).states => y \in DOMAIN c.states
        /\ y \in Populated(L).ended => y \in c.ended
AllPlaced(L, x) == \A c \in Firm(x) : Position(L, c)
AllKin(L, x) == \A c \in SubTree(x) \cap Composites : Kin(Range(L), c)

LEMMA EnteredBetter ==
    ASSUME AfterOnSequences, NEW L \in Seq(Events), Grounded({}, L), NEW x \in AgentNames, NEW c,
           IsContext(c), Carried(L, Above(x), c), OutsideLoops(x) => Knows(L, x, c),
           OutsideLoops(x) /\ x \in Composites => LatestKind(L, x) # "end",
           AllPlaced(L, x), AllKin(L, x), NEW g, g = Entered(x, c)
    PROVE  Better(L, x, g)
<1>1. PICK at : at = IF x \in DOMAIN c.states THEN c.states[x] ELSE Empty
  OBVIOUS
<1>2. /\ g.states = c.states /\ g.ended = c.ended
      /\ g.at = "run" /\ g.resuming = (x \in DOMAIN c.states) /\ g.looped = at.looped
      /\ g.next = IF x \in DOMAIN c.states /\ x \in Sequentials \cup Loops THEN StartIndex(x, at) ELSE 1
  BY <1>1 DEF Entered
<1>3. PICK es \in Seq(Events) : es = g.events /\ Range(es) = {} /\ DOMAIN es = {}
  BY NoEvents DEF Entered
<1>4. PICK M : M = L \o es
  OBVIOUS
<1>5. M = L
  BY <1>3, <1>4, NoEvents DEF Entered
<1>6. PICK P : P = Populated(L)
  OBVIOUS
<1>7. PICK m : m = Latest(L, x, Marks)
  OBVIOUS
<1>8. x \in SubTree(x)
  BY DescendantsAreAgents
<1>9. ASSUME x \in DOMAIN c.states, x \in Sequentials \cup Loops
      PROVE  /\ x \in Composites
             /\ m \in Range(L) /\ m.by = x /\ m.kind \in Marks /\ m \in Events /\ at = m.at
             /\ m.kind = "end" => at.sub = Nobody /\ x \in Sequentials
             /\ m.kind = "state" => /\ at.sub \in Range(SubAgents[x]) /\ at.sub # Nobody
                                    /\ g.next = Index(x, at.sub) /\ SubAgents[x][g.next] = at.sub
  <2>1. x \notin Above(x)
    BY NoneBelowItself DEF Above
  <2>2. x \in DOMAIN P.states /\ at = P.states[x]
    BY <1>1, <1>6, <1>9, <2>1 DEF Carried
  <2>3. LatestKind(L, x) \notin {"none", "end"} /\ at = m.at
    BY <1>6, <1>7, <2>2, PopulatedIs
  <2>4. /\ m \in Range(L) /\ m.by = x /\ m.kind \in Marks /\ m \in Events
        /\ m.kind = "end" => m.at = Empty /\ x \in Sequentials
        /\ m.kind = "state" => m.at.sub \in Range(SubAgents[x]) /\ m.at.sub # Nobody
    BY <1>7, <1>9, <2>3, RecoveredPlace
  <2>5. x \in Composites
    BY <1>9, CompositeKinds
  <2>6. m.kind = "state" => g.next = Index(x, at.sub)
    BY <1>2, <1>9, <2>3, <2>4 DEF StartIndex
  <2>7. m.kind = "state" => SubAgents[x][g.next] = at.sub
    BY <2>3, <2>4, <2>5, <2>6, IndexFacts
  <2> QED  BY <2>3, <2>4, <2>5, <2>6, <2>7, EmptyIsState
<1>10. ASSUME x \in DOMAIN c.states, x \in Sequentials \cup Loops, g.next <= Len(SubAgents[x])
       PROVE  m.kind = "state"
  <2>1. SUFFICES ASSUME m.kind = "end" PROVE FALSE
    BY <1>9, <1>10 DEF Marks
  <2>2. at.sub = Nobody /\ x \in Sequentials /\ x \in Composites
    BY <1>9, <1>10, <2>1
  <2>3. g.next = Len(SubAgents[x]) + 1
    BY <1>2, <1>10, <2>2 DEF StartIndex
  <2>4. Len(SubAgents[x]) \in Nat
    BY <2>2, SubAgentFacts
  <2> QED  BY <1>10, <2>3, <2>4
<1>11. Related(L, x, g)
  <2>1. Told(L, g) = Range(L)
    BY <1>3 DEF Told
  <2> QED  BY <2>1 DEF Related, AllKin
<1>12. NotYet(x, g) /\ NotOver(x, g)
  BY <1>3 DEF NotYet, NotOver, Untouched, Over
<1>13. Resumes(x, g)
  <2>1. SUFFICES ASSUME x \in Loops, x \in DOMAIN c.states PROVE g.next <= Len(SubAgents[x])
    BY <1>2 DEF Resumes
  <2>2. x \notin Sequentials /\ x \in Composites
    BY <2>1, CompositeKinds
  <2>3. m.kind = "state"
    BY <1>9, <2>1, <2>2 DEF Marks
  <2>4. g.next = Index(x, at.sub)
    BY <1>9, <2>1, <2>3
  <2>5. g.next \in DOMAIN SubAgents[x]
    BY <2>2, <2>4, IndexFacts
  <2> QED  BY <2>2, <2>5, SubAgentFacts
<1>14. AtMark(L, x, g)
  <2>1. SUFFICES ASSUME x \in Sequentials \cup Loops, x \in DOMAIN c.states, g.next <= Len(SubAgents[x])
                 PROVE  m = Marker(x, State(SubAgents[x][g.next], g.looped))
    BY <1>2, <1>3, <1>4, <1>5, <1>7 DEF AtMark
  <2>2. m.kind = "state" /\ m.by = x /\ m \in Events /\ m.at = at /\ SubAgents[x][g.next] = at.sub
    BY <1>9, <1>10, <2>1
  <2>3. at = State(at.sub, at.looped)
    BY <2>2 DEF Events, AgentState, State
  <2>4. m = Event(x, "state", at)
    BY <2>2 DEF Events, Event
  <2> QED  BY <1>2, <2>2, <2>3, <2>4 DEF Marker
<1>15. Paused(x, g)
  BY <1>2 DEF Paused
<1>16. Placed(L, x, g)
  BY <1>2, <1>3, <1>4, <1>5 DEF Placed, AllPlaced
<1>17. ASSUME OutsideLoops(x) PROVE Kept(L, x, g)
  <2>1. \A y \in Descendants(x) : y \in SubTree(x)
    BY DEF SubTree
  <2> QED  BY <1>2, <1>17, <2>1 DEF Kept, Knows
<1>18. ASSUME OutsideLoops(x) PROVE Ahead(L, x, g)
  <2>1. SUFFICES ASSUME x \in Sequentials, NEW j \in DOMAIN SubAgents[x]
                 PROVE  /\ j >= g.next => ~Over(Range(L), SubAgents[x][j])
                        /\ j > g.next \/ (j = g.next /\ ~g.resuming)
                              => Untouched(Range(L), SubAgents[x][j])
    BY <1>2 DEF Ahead
  <2>2. x \in Composites /\ x \in Firm(x)
    BY <1>8, <1>18, <2>1, CompositeKinds DEF Firm
  <2>3. SubAgents[x][j] \in Range(SubAgents[x]) /\ SubAgents[x][j] \in AgentNames
        /\ j <= Len(SubAgents[x]) /\ Len(SubAgents[x]) \in Nat /\ j \in Nat
    BY <2>2, SubAgentFacts
  <2>4. CASE x \in DOMAIN c.states
    <3>1. g.next \in Nat /\ (j >= g.next => g.next <= Len(SubAgents[x]))
      <4>1. g.next = Index(x, at.sub) \/ g.next = Len(SubAgents[x]) + 1
        BY <1>2, <2>1, <2>4 DEF StartIndex
      <4>2. Index(x, at.sub) \in Nat
        BY <2>2, IndexFacts, SubAgentFacts
      <4> QED  BY <2>1, <2>3, <4>1, <4>2
    <3>2. j >= g.next => m.kind = "state" /\ g.next = Index(x, m.at.sub)
      BY <1>9, <1>10, <2>1, <2>4, <3>1
    <3>3. Position(L, x)
      BY <2>2 DEF AllPlaced
    <3>4. /\ j = g.next => j >= g.next /\ ~Over(Range(L), SubAgents[x][j])
          /\ j > g.next => Untouched(Range(L), SubAgents[x][j])
      BY <1>7, <2>1, <2>3, <3>1, <3>2, <3>3 DEF Position
    <3>5. j >= g.next => j = g.next \/ j > g.next
      BY <2>3, <3>1
    <3> QED  BY <1>2, <2>3, <2>4, <3>4, <3>5, UntouchedIs
  <2>5. CASE x \notin DOMAIN c.states
    <3>1. x \notin DOMAIN P.states
      BY <1>6, <1>8, <1>18, <2>5 DEF Knows
    <3>2. LatestKind(L, x) = "none"
      BY <1>6, <1>18, <2>2, <3>1, PopulatedIs
    <3>3. ~Seen(Range(L), x)
      <4>1. PICK k : k = Latest(L, x, Kinds)
        OBVIOUS
      <4>2. k.kind = "none"
        BY <3>2, <4>1 DEF LatestKind
      <4>3. \A e \in Range(L) : ~(e.by = x /\ e.kind \in Kinds)
        BY <4>1, <4>2, LatestCases DEF Kinds
      <4>4. \A e \in Range(L) : e.kind \in Kinds
        BY RangeIs DEF Events
      <4> QED  BY <4>3, <4>4 DEF Seen
    <3>4. \A e \in Range(L) : e.by \notin Descendants(x)
      BY <1>8, <2>2, <3>3 DEF AllKin, Kin
    <3>5. Untouched(Range(L), SubAgents[x][j])
      BY <2>2, <2>3, <3>4, UntouchedChild
    <3> QED  BY <2>3, <3>5, UntouchedIs
  <2> QED  BY <2>4, <2>5
<1>19. ASSUME OutsideLoops(x) PROVE Fresh(L, x, g)
  <2>1. SUFFICES ASSUME x \in Composites, Over(Range(L), x)
                 PROVE  x \in Sequentials /\ g.next > Len(SubAgents[x])
    BY <1>2 DEF Fresh
  <2>2. Position(L, x)
    BY <1>8, <1>19, <2>1 DEF AllPlaced, Firm
  <2>3. m.kind = "end" /\ x \in Sequentials
    BY <1>7, <1>19, <2>1, <2>2 DEF Position
  <2>4. LatestKind(L, x) # "none"
    <3>1. PICK k : k = Latest(L, x, Kinds)
      OBVIOUS
    <3>2. PICK e \in Range(L) : e.by = x /\ e.kind \in Answer(x)
      BY <2>1 DEF Over
    <3>3. e.kind \in Kinds
      BY <3>2, RangeIs DEF Events
    <3>4. k # NoEvent
      BY <3>1, <3>2, <3>3, LatestCases, NoEventIs DEF Kinds
    <3>5. k.kind \in Kinds
      BY <3>1, <3>4, LatestCases
    <3> QED  BY <3>1, <3>5 DEF LatestKind, Kinds
  <2>5. x \in DOMAIN P.states
    BY <1>6, <1>19, <2>1, <2>4, PopulatedIs
  <2>6. x \in DOMAIN c.states
    BY <1>6, <1>8, <1>19, <2>5 DEF Knows
  <2>7. at.sub = Nobody
    BY <1>9, <2>3, <2>6
  <2>8. g.next = Len(SubAgents[x]) + 1
    BY <1>2, <2>3, <2>6, <2>7 DEF StartIndex
  <2> QED  BY <2>1, <2>3, <2>8, SubAgentFacts
<1> QED  BY <1>11, <1>12, <1>13, <1>14, <1>15, <1>16, <1>17, <1>18, <1>19 DEF Better, Lasting

LEMMA NotBelowOwn ==
    ASSUME NEW a \in AgentNames, NEW c \in SubTree(a)
    PROVE  a \notin Descendants(c) /\ (c # a => a \notin SubTree(c)) /\ SubTree(c) \subseteq SubTree(a)
<1>1. c \in AgentNames
  BY DescendantsAreAgents
<1>2. CASE c = a
  BY <1>2, NoneBelowItself
<1>3. CASE c # a
  <2>1. c \in Descendants(a)
    BY <1>3 DEF SubTree
  <2>2. Descendants(c) \subseteq Descendants(a) /\ a \notin Descendants(a)
    BY <2>1, DescendantsOfDescendants, NoneBelowItself
  <2> QED  BY <1>3, <2>1, <2>2 DEF SubTree
<1> QED  BY <1>2, <1>3

(* Events of an agent's own, behind what its frame holds.                  *)
OwnOnly(t, a) == \A e \in Range(t) : e.by = a
Widens(L, a, s, u) ==
    /\ \A c \in SubTree(a) : Kin(Range(L) \cup Range(s), c) => Kin(Range(L) \cup Range(u), c)
    /\ \A c \in SubTree(a) \cap Composites : c # a /\ Position(L \o s, c) => Position(L \o u, c)

LEMMA OwnEvents ==
    ASSUME NEW L \in Seq(Events), NEW a \in AgentNames, NEW s \in Seq(Events), NEW t \in Seq(Events),
           NEW u, u = s \o t, OwnOnly(t, a)
    PROVE  u \in Seq(Events) /\ Range(u) = Range(s) \cup Range(t) /\ Widens(L, a, s, u)
<1>1. u \in Seq(Events) /\ Range(u) = Range(s) \cup Range(t)
  BY ConcatIs
<1>2. ASSUME NEW c \in SubTree(a), Kin(Range(L) \cup Range(s), c)
      PROVE  Kin(Range(L) \cup Range(u), c)
  <2>1. a \notin Descendants(c)
    BY NotBelowOwn
  <2> QED  BY <1>1, <1>2, <2>1 DEF Kin, Seen, OwnOnly
<1>3. ASSUME NEW c \in SubTree(a) \cap Composites, c # a, Position(L \o s, c)
      PROVE  Position(L \o u, c)
  <2>1. PICK M \in Seq(Events) : M = L \o s
    BY ConcatIs
  <2>2. PICK N : N = M \o t
    OBVIOUS
  <2>3. N = L \o u
    BY <2>1, <2>2, ConcatAssoc
  <2>4. Untouched(Range(t), c) /\ c \in AgentNames
    BY <1>3, NotBelowOwn, CompositeKinds DEF Untouched, OwnOnly
  <2>5. Like(M, N, c)
    BY <2>2, <2>4, LikeAppended
  <2> QED  BY <1>3, <2>1, <2>3, <2>5, LikePlace
<1> QED  BY <1>1, <1>2, <1>3 DEF Widens

LEMMA CallsBetter ==
    ASSUME AfterOnSequences, NEW L \in Seq(Events), NEW a \in AgentNames, NEW f, NEW g,
           IsFrame(a, f), IsFrame(a, g), Better(L, a, f), Calls(a, f, g)
    PROVE  Better(L, a, g)
<1>1. /\ a \in Composites /\ f.at = "run" /\ g.at \in {"wait", "join"}
      /\ a \notin Parallels => f.next <= Len(SubAgents[a]) /\ g.at = "wait"
      /\ g.next = f.next /\ g.looped = f.looped /\ g.resuming = f.resuming
      /\ f.next \in Nat \ {0} /\ Len(SubAgents[a]) \in Nat
  BY SubAgentFacts DEF Calls, IsFrame
<1>2. ASSUME OutsideLoops(a) PROVE Ahead(L, a, g) /\ Fresh(L, a, g)
  <2>1. Ahead(L, a, f) /\ Fresh(L, a, f)
    BY <1>1, <1>2 DEF Better, Lasting
  <2>2. Ahead(L, a, g)
    <3>1. SUFFICES ASSUME a \in Sequentials, NEW j \in DOMAIN SubAgents[a]
                   PROVE  /\ j >= g.next => ~Over(Range(L), SubAgents[a][j])
                          /\ j > g.next => Untouched(Range(L), SubAgents[a][j])
      BY <1>1 DEF Ahead
    <3> QED  BY <1>1, <2>1, <3>1 DEF Ahead
  <2>3. ~Over(Range(L), a)
    <3>1. SUFFICES ASSUME Over(Range(L), a) PROVE FALSE
      OBVIOUS
    <3>2. a \in Sequentials /\ f.next > Len(SubAgents[a])
      BY <1>1, <2>1, <3>1 DEF Fresh
    <3>3. a \notin Parallels
      BY <3>2, CompositeKinds
    <3> QED  BY <1>1, <3>2, <3>3
  <2> QED  BY <2>2, <2>3 DEF Fresh
<1>3. Resumes(a, g) /\ Paused(a, g)
  BY <1>1 DEF Resumes, Paused
<1>4. CASE f.resuming
  <2>1. g.events = f.events /\ g.states = f.states /\ g.ended = f.ended /\ Told(L, g) = Told(L, f)
    BY <1>4 DEF Calls, SameContext, Told
  <2>2. Related(L, a, g)
    BY <2>1 DEF Better, Related
  <2>3. NotYet(a, g)
    BY <1>1, <2>1 DEF Better, NotYet
  <2>4. NotOver(a, g)
    BY <1>1, <2>1 DEF Better, NotOver
  <2>5. AtMark(L, a, g)
    <3>1. SUFFICES ASSUME a \in Sequentials \cup Loops
                   PROVE  Latest(L \o g.events, a, Marks) = Marker(a, State(SubAgents[a][g.next], g.looped))
      BY DEF AtMark
    <3>2. a \notin Parallels
      BY <3>1, CompositeKinds
    <3> QED  BY <1>1, <1>4, <2>1, <3>1, <3>2 DEF Better, AtMark
  <2>6. Placed(L, a, g)
    BY <1>1, <2>1 DEF Better, Placed
  <2>7. Lasting(L, a, g)
    <3>1. SUFFICES ASSUME OutsideLoops(a) PROVE Kept(L, a, g)
      BY <1>2 DEF Lasting
    <3> QED  BY <1>1, <2>1, <3>1 DEF Better, Lasting, Kept
  <2> QED  BY <1>3, <2>2, <2>3, <2>4, <2>5, <2>6, <2>7 DEF Better
<1>5. CASE ~f.resuming
  <2>1. PICK at \in AgentState :
              /\ at = IF a \in Parallels THEN Empty ELSE State(SubAgents[a][f.next], f.looped)
              /\ g.events = f.events \o <<Marker(a, at)>>
              /\ g.states = With(f.states, a, at) /\ g.ended = f.ended \ {a}
    BY <1>5 DEF Calls
  <2>2. PICK e \in Events : e = Marker(a, at) /\ e.by = a /\ e.kind = "state" /\ e.at = at
    BY <2>1, EventIsTyped DEF Marker, Event, Kinds
  <2>3. PICK t : t = <<e>>
    OBVIOUS
  <2>4. t \in Seq(Events) /\ Range(t) = {e} /\ DOMAIN t = {1} /\ t[1] = e
    BY <2>2, <2>3, OneEvent
  <2>5. PICK s \in Seq(Events) : s = f.events
    BY DEF IsFrame
  <2>6. PICK u : u = s \o t
    OBVIOUS
  <2>7. u = g.events
    BY <2>1, <2>2, <2>3, <2>5, <2>6
  <2>8. OwnOnly(t, a) /\ e \in Range(t)
    BY <2>2, <2>4 DEF OwnOnly
  <2>9. u \in Seq(Events) /\ Range(u) = Range(s) \cup {e} /\ Widens(L, a, s, u)
    <3>0. t \in Seq(Events) /\ OwnOnly(t, a)
      BY <2>4, <2>8
    <3>1. u \in Seq(Events)
      BY <2>6, <3>0, OwnEvents
    <3>2. Range(u) = Range(s) \cup Range(t)
      BY <2>6, <3>0, ConcatIs
    <3>3. Widens(L, a, s, u)
      BY <2>6, <3>0, OwnEvents
    <3> QED  BY <2>4, <3>1, <3>2, <3>3
  <2>10. Related(L, a, g)
    BY <2>5, <2>7, <2>9 DEF Better, Related, Told, Widens
  <2>11. NotYet(a, g)
    <3>1. SUFFICES ASSUME a \in Sequentials, NEW j \in DOMAIN SubAgents[a], j >= g.next
                   PROVE  Untouched(Range(u), SubAgents[a][j])
      BY <2>7 DEF NotYet
    <3>2. Untouched(Range(s), SubAgents[a][j])
      BY <1>1, <2>5, <3>1 DEF Better, NotYet
    <3>3. a \notin SubTree(SubAgents[a][j])
      BY <1>1, <3>1, SubAgentFacts, ParentNotBelow
    <3> QED  BY <2>2, <2>9, <3>2, <3>3 DEF Untouched
  <2>12. NotOver(a, g)
    <3>1. ~Over(Range(s), a)
      BY <1>1, <2>5 DEF Better, NotOver
    <3>2. e.kind \notin Answer(a)
      BY <1>1, <2>2, CompositeKinds DEF Answer
    <3> QED  BY <2>7, <2>9, <3>1, <3>2 DEF NotOver, Over
  <2>13. AtMark(L, a, g)
    <3>1. SUFFICES ASSUME a \in Sequentials \cup Loops
                   PROVE  Latest(L \o u, a, Marks) = Marker(a, State(SubAgents[a][g.next], g.looped))
      BY <2>7 DEF AtMark
    <3>2. a \notin Parallels
      BY <3>1, CompositeKinds
    <3>3. e = Marker(a, State(SubAgents[a][g.next], g.looped))
      BY <1>1, <2>1, <2>2, <3>2
    <3>4. e.kind \in Marks
      BY <2>2 DEF Marks
    <3>5. Latest(t, a, Marks) = e
      <4>1. 1 \in DOMAIN t /\ t[1].by = a /\ t[1].kind \in Marks
        BY <2>2, <2>4, <3>4
      <4>2. \A j \in DOMAIN t : j > 1 => ~(t[j].by = a /\ t[j].kind \in Marks)
        BY <2>4
      <4>3. Latest(t, a, Marks) = t[1]
        BY <2>4, <4>1, <4>2, LatestIs
      <4> QED  BY <2>4, <4>3
    <3>6. Latest(s \o t, a, Marks) = Latest(t, a, Marks)
      BY <2>2, <2>4, <2>8, <3>4, LatestConcatNew
    <3>7. Latest(L \o u, a, Marks) = Latest(u, a, Marks)
      BY <2>2, <2>9, <3>4, LatestConcatNew
    <3> QED  BY <2>6, <3>3, <3>5, <3>6, <3>7
  <2>14. Placed(L, a, g)
    <3>1. SUFFICES ASSUME NEW c \in Firm(a), c # a PROVE Position(L \o u, c)
      BY <1>1, <2>7 DEF Placed
    <3>2. Position(L \o s, c) /\ c \in SubTree(a) \cap Composites
      BY <2>5, <3>1 DEF Better, Placed, Firm
    <3> QED  BY <2>9, <3>1, <3>2 DEF Widens
  <2>15. Lasting(L, a, g)
    <3>1. SUFFICES ASSUME OutsideLoops(a) PROVE Kept(L, a, g)
      BY <1>2 DEF Lasting
    <3>2. Kept(L, a, f)
      BY <1>1, <3>1 DEF Better, Lasting
    <3>3. \A x \in Descendants(a) : x # a
      BY NoneBelowItself
    <3> QED  BY <2>1, <3>2, <3>3 DEF Kept, With
  <2> QED  BY <1>3, <2>10, <2>11, <2>12, <2>13, <2>14, <2>15 DEF Better
<1> QED  BY <1>4, <1>5

(* What the log will say of the agents below one, with the events s of it. *)
Settles(L, a, s) ==
    /\ \A c \in SubTree(a) \cap Composites : Kin(Range(L) \cup Range(s), c)
    /\ \A c \in Firm(a) : c # a => Position(L \o s, c)

LEMMA BetterSettles ==
    ASSUME NEW L, NEW a, NEW f, Better(L, a, f)
    PROVE  Settles(L, a, f.events)
BY DEF Better, Related, Placed, Told, Settles

LEMMA SettlesIs ==
    ASSUME NEW L, NEW a, NEW g, Settles(L, a, g.events), g.at # "done" \/ a \notin Composites
    PROVE  Related(L, a, g) /\ Placed(L, a, g)
BY DEF Related, Placed, Told, Settles, Firm

LEMMA OwnSettles ==
    ASSUME NEW L \in Seq(Events), NEW a \in AgentNames, NEW s \in Seq(Events), NEW t \in Seq(Events),
           NEW u, u = s \o t, OwnOnly(t, a), Settles(L, a, s)
    PROVE  Settles(L, a, u)
<1>1. Widens(L, a, s, u)
  BY OwnEvents
<1>2. \A c \in SubTree(a) \cap Composites : Kin(Range(L) \cup Range(u), c)
  BY <1>1 DEF Widens, Settles
<1>3. ASSUME NEW c \in Firm(a), c # a PROVE Position(L \o u, c)
  <2>1. c \in SubTree(a) \cap Composites /\ Position(L \o s, c)
    BY <1>3 DEF Settles, Firm
  <2> QED  BY <1>1, <1>3, <2>1 DEF Widens
<1> QED  BY <1>2, <1>3 DEF Settles

(* Of an agent below, one that is called and its caller do not both hold   *)
(* events, unless a loop called it.                                        *)
LEMMA JoinedApart ==
    ASSUME NEW a \in Composites, NEW x \in Range(SubAgents[a]), NEW L, NEW f, NEW h,
           Good(L, x, h), Called(a, f, x), Better(L, a, f), a \notin Parallels => f.at = "wait",
           NEW c \in SubTree(a), c # a
    PROVE  /\ c \in AgentNames
           /\ \/ Untouched(Range(h.events), c)
              \/ c \in SubTree(x) /\ (OutsideLoops(c) => Untouched(Range(f.events), c))
<1>1. a \in AgentNames /\ x \in AgentNames /\ c \in AgentNames /\ c \in Descendants(a)
  BY CompositeKinds, Children, DescendantsAreAgents DEF SubTree
<1>2. Within(Range(h.events), x)
  BY DEF Good, Mine
<1>3. PICK y \in Range(SubAgents[a]) : c \in SubTree(y)
  BY <1>1, DescendantsByChild
<1>4. y \in AgentNames /\ SubTree(c) \subseteq SubTree(y)
  BY <1>3, Children, NotBelowOwn
<1>5. CASE y # x
  <2>1. SubTree(y) \cap SubTree(x) = {}
    BY <1>5, Siblings
  <2> QED  BY <1>1, <1>2, <1>4, <2>1 DEF Untouched, Within
<1>6. CASE y = x
  <2>1. SUFFICES ASSUME OutsideLoops(c) PROVE Untouched(Range(f.events), x)
    BY <1>1, <1>3, <1>4, <1>6 DEF Untouched
  <2>2. a \notin Loops
    BY <1>1, <2>1 DEF OutsideLoops, Above
  <2>3. CASE a \in Parallels
    BY <2>3 DEF Called
  <2>4. CASE a \notin Parallels
    <3>1. a \in Sequentials /\ f.at = "wait"
      BY <2>2, <2>4 DEF Composites
    <3>2. f.next \in DOMAIN SubAgents[a] /\ x = SubAgents[a][f.next] /\ f.next \in Nat
      BY <2>4, SubAgentFacts DEF Called
    <3>3. f.next >= f.next
      BY <3>2
    <3> QED  BY <3>1, <3>2, <3>3 DEF Better, NotYet
  <2> QED  BY <2>3, <2>4
<1> QED  BY <1>5, <1>6

LEMMA JoinedSettles ==
    ASSUME NEW L \in Seq(Events), NEW a \in Composites, NEW x \in Range(SubAgents[a]), NEW f, NEW h,
           Good(L, a, f), Good(L, x, h), Called(a, f, x), Better(L, a, f), Better(L, x, h),
           f.at \in {"wait", "join"}, a \notin Parallels => f.at = "wait", h.at = "done",
           IsFrame(a, f), IsFrame(x, h)
    PROVE  \E s \in Seq(Events), t \in Seq(Events) :
              s = f.events /\ t = h.events /\ Settles(L, a, s \o t)
<1>a. PICK s \in Seq(Events), t \in Seq(Events) : s = f.events /\ t = h.events
  BY DEF IsFrame
<1>b. PICK u : u = s \o t
  OBVIOUS
<1>1. Range(u) = Range(s) \cup Range(t)
  BY <1>b, ConcatRange
<1>2. Within(Range(t), x) /\ Seen(Range(L) \cup Range(s), a)
  BY <1>a DEF Good, Mine, Noted, Told
<1>3. Settles(L, a, s) /\ Settles(L, x, t)
  BY <1>a, BetterSettles
<1>4. ASSUME NEW c \in SubTree(a), c # a
      PROVE  /\ c \in AgentNames
             /\ \/ Untouched(Range(t), c)
                \/ c \in SubTree(x) /\ (OutsideLoops(c) => Untouched(Range(s), c))
  BY <1>a, <1>4, JoinedApart
<1>5. ASSUME NEW c \in SubTree(a) \cap Composites PROVE Kin(Range(L) \cup Range(u), c)
  <2>1. CASE c = a
    BY <1>1, <1>2, <2>1 DEF Kin, Seen
  <2>2. CASE c # a
    <3>1. Kin(Range(L) \cup Range(s), c)
      BY <1>3, <1>5 DEF Settles
    <3>2. CASE Untouched(Range(t), c)
      BY <1>1, <3>1, <3>2 DEF Kin, Seen, Untouched, SubTree
    <3>3. CASE c \in SubTree(x)
      <4>1. Kin(Range(L) \cup Range(t), c)
        BY <1>3, <1>5, <3>3 DEF Settles
      <4> QED  BY <1>1, <3>1, <4>1 DEF Kin, Seen
    <3> QED  BY <1>4, <1>5, <2>2, <3>2, <3>3
  <2> QED  BY <2>1, <2>2
<1>7. ASSUME NEW c \in Firm(a), c # a PROVE Position(L \o u, c)
  <2>1. c \in SubTree(a) \cap Composites /\ OutsideLoops(c)
    BY <1>7 DEF Firm
  <2>2. PICK M \in Seq(Events) : M = L \o s
    BY ConcatIs
  <2>3. PICK N : N = M \o t
    OBVIOUS
  <2>4. N = L \o u
    <3>1. Joining(M, L, s) /\ Joining(N, M, t) /\ Joining(u, s, t)
      BY <1>b, <2>2, <2>3, ZenonT(60) DEF Joining
    <3>2. Joining(N, L, u)
      BY <3>1, JoiningRight
    <3> QED  BY <3>2 DEF Joining
  <2>5. CASE Untouched(Range(t), c)
    <3>1. Like(M, N, c)
      BY <1>4, <1>7, <2>1, <2>3, <2>5, LikeAppended
    <3>2. Position(M, c)
      BY <1>3, <1>7, <2>2 DEF Settles
    <3> QED  BY <2>1, <2>4, <3>1, <3>2, LikePlace
  <2>6. CASE c \in SubTree(x) /\ Untouched(Range(s), c)
    <3>1. PICK O : O = L \o t
      OBVIOUS
    <3>2. c \in Firm(x)
      BY <2>1, <2>6 DEF Firm
    <3>3. Position(O, c)
      BY <1>a, <3>1, <3>2 DEF Better, Placed
    <3>4. Like(O, N, c)
      BY <1>4, <1>7, <2>1, <2>2, <2>3, <2>6, <3>1, LikeInserted
    <3> QED  BY <2>1, <2>4, <3>3, <3>4, LikePlace
  <2> QED  BY <1>4, <1>7, <2>1, <2>5, <2>6
<1>8. Settles(L, a, u)
  BY <1>5, <1>7 DEF Settles
<1> QED  BY <1>a, <1>b, <1>8

LEMMA TakesBetter ==
    ASSUME NEW L \in Seq(Events), NEW a \in AgentNames, NEW x \in Range(SubAgents[a]), NEW f, NEW h, NEW g,
           IsFrame(a, f), IsFrame(x, h), IsFrame(a, g), Good(L, a, f), Good(L, x, h), Called(a, f, x),
           Better(L, a, f), Better(L, x, h), Takes(a, f, h, g)
    PROVE  Better(L, a, g)
<1>1. /\ a \in Composites /\ h.at = "done" /\ g.events = f.events \o h.events
      /\ g.states = f.states /\ g.ended = f.ended
      /\ a \notin Parallels => /\ f.at = "wait" /\ ~Pauses(h.events)
                               /\ g.at = "run" /\ g.next = f.next + 1 /\ g.resuming = FALSE
      /\ a \in Parallels => f.at = "join" /\ g.at \in {"join", "joined"}
      /\ f.next \in Nat \ {0}
  BY DEF Takes, SameContext, IsFrame
<1>2. f.at \in {"wait", "join"} /\ (a \notin Parallels => f.at = "wait")
  BY <1>1
<1>3. PICK s \in Seq(Events), t \in Seq(Events) :
            s = f.events /\ t = h.events /\ Settles(L, a, s \o t)
  BY <1>1, <1>2, JoinedSettles
<1>4. PICK u : u = s \o t /\ Settles(L, a, u)
  BY <1>3
<1>5. u = g.events
  BY <1>1, <1>3, <1>4
<1>6. Range(u) = Range(s) \cup Range(t)
  BY <1>4, ConcatRange
<1>7. Within(Range(t), x)
  BY <1>3 DEF Good, Mine
<1>8. Related(L, a, g) /\ Placed(L, a, g)
  BY <1>1, <1>4, <1>5, SettlesIs
<1>9. ASSUME a \in Sequentials, NEW j \in DOMAIN SubAgents[a], j >= g.next
      PROVE  j > f.next /\ Untouched(Range(u), SubAgents[a][j])
  <2>1. a \notin Parallels /\ j \in Nat
    BY <1>1, <1>9, CompositeKinds, SubAgentFacts
  <2>2. j > f.next /\ j >= f.next
    BY <1>1, <1>9, <2>1
  <2>3. Untouched(Range(s), SubAgents[a][j])
    BY <1>1, <1>3, <1>9, <2>1, <2>2 DEF Better, NotYet
  <2>4. PICK y \in Range(SubAgents[a]) : y = SubAgents[a][j]
    BY <1>1, SubAgentFacts
  <2>5. y # x
    <3>1. f.next \in DOMAIN SubAgents[a] /\ x = SubAgents[a][f.next]
      BY <2>1 DEF Called
    <3>2. y = x => j = f.next
      BY <1>1, <2>4, <3>1, SubAgentFacts
    <3> QED  BY <1>1, <2>1, <2>2, <3>2
  <2>6. SubTree(y) \cap SubTree(x) = {}
    BY <1>1, <2>5, Siblings
  <2> QED  BY <1>6, <1>7, <2>2, <2>3, <2>4, <2>6 DEF Untouched, Within
<1>10. NotYet(a, g)
  BY <1>5, <1>9 DEF NotYet
<1>11. NotOver(a, g)
  <2>1. ~Over(Range(s), a)
    BY <1>1, <1>2, <1>3 DEF Better, NotOver
  <2>2. a \notin SubTree(x)
    BY <1>1, ParentNotBelow
  <2> QED  BY <1>5, <1>6, <1>7, <2>1, <2>2 DEF NotOver, Over, Within
<1>12. Resumes(a, g) /\ AtMark(L, a, g) /\ Paused(a, g)
  BY <1>1, CompositeKinds DEF Resumes, AtMark, Paused
<1>13. ASSUME OutsideLoops(a) PROVE Kept(L, a, g) /\ Ahead(L, a, g) /\ Fresh(L, a, g)
  <2>1. Kept(L, a, f) /\ Ahead(L, a, f) /\ Fresh(L, a, f)
    BY <1>2, <1>13 DEF Better, Lasting
  <2>2. Kept(L, a, g)
    BY <1>1, <2>1 DEF Kept
  <2>3. ~Over(Range(L), a)
    BY <1>1, <1>2, <2>1 DEF Fresh
  <2>4. Ahead(L, a, g)
    <3>1. SUFFICES ASSUME a \in Sequentials, NEW j \in DOMAIN SubAgents[a]
                   PROVE  j >= g.next => /\ ~Over(Range(L), SubAgents[a][j])
                                         /\ Untouched(Range(L), SubAgents[a][j])
      <4>1. g.next \in Nat /\ \A j \in DOMAIN SubAgents[a] : j > g.next \/ j = g.next => j >= g.next
        <5>1. g.next \in Nat
          BY <1>1 DEF IsFrame
        <5>2. DOMAIN SubAgents[a] \subseteq Nat
          BY <1>1, SubAgentFacts
        <5> QED  BY <5>1, <5>2
      <4> QED  BY <4>1 DEF Ahead
    <3>2. SUFFICES ASSUME j >= g.next PROVE Untouched(Range(L), SubAgents[a][j])
      BY <1>1, SubAgentFacts, UntouchedIs
    <3>3. j > f.next
      BY <1>9, <3>1, <3>2
    <3>4. f.at = "wait"
      BY <1>1, <3>1, CompositeKinds
    <3> QED  BY <2>1, <3>1, <3>3, <3>4 DEF Ahead
  <2> QED  BY <2>2, <2>3, <2>4 DEF Fresh
<1> QED  BY <1>8, <1>10, <1>11, <1>12, <1>13 DEF Better, Lasting

(* An agent that is done has only to be settled, itself too.               *)
LEMMA DoneBetter ==
    ASSUME NEW L, NEW a, NEW g, g.at = "done", Settles(L, a, g.events),
           a \in Firm(a) => Position(L \o g.events, a), Paused(a, g)
    PROVE  Better(L, a, g)
BY DEF Better, Related, NotYet, NotOver, Resumes, AtMark, Paused, Placed, Lasting, Told, Settles, Firm

LEMMA StopsBetter ==
    ASSUME NEW L \in Seq(Events), NEW a \in AgentNames, NEW x \in Range(SubAgents[a]), NEW f, NEW h, NEW g,
           IsFrame(a, f), IsFrame(x, h), Good(L, a, f), Good(L, x, h), Called(a, f, x),
           Better(L, a, f), Better(L, x, h), Stops(a, f, h, g)
    PROVE  Better(L, a, g)
<1>1. /\ a \in Composites /\ a \notin Parallels /\ f.at = "wait" /\ g.at = "done" /\ h.at = "done"
      /\ Pauses(h.events) /\ g.events = (f.events \o h.events) \o AfterSaid(a) /\ f.next \in Nat \ {0}
  BY DEF Stops, IsFrame
<1>2. PICK s \in Seq(Events), t \in Seq(Events) :
            s = f.events /\ t = h.events /\ Settles(L, a, s \o t)
  BY <1>1, JoinedSettles
<1>3. PICK r \in Seq(Events) : r = AfterSaid(a) /\ \A e \in Range(r) : e.by = a /\ e.kind = "say"
  BY AfterSaidIs
<1>4. PICK u \in Seq(Events) : u = s \o t /\ Settles(L, a, u)
  BY <1>2, ConcatIs
<1>5. PICK v : v = u \o r
  OBVIOUS
<1>6. Range(u) = Range(s) \cup Range(t) /\ Range(v) = Range(u) \cup Range(r)
  BY <1>4, <1>5, ConcatRange
<1>7. v = g.events
  BY <1>1, <1>2, <1>3, <1>4, <1>5
<1>8. Settles(L, a, v)
  <2>1. OwnOnly(r, a)
    BY <1>3 DEF OwnOnly
  <2> QED  BY <1>4, <1>5, <2>1, OwnSettles
<1>9. Within(Range(t), x) /\ a \notin SubTree(x) /\ x # a
  BY <1>1, <1>2, ParentNotBelow DEF Good, Mine
<1>10. ~Over(Range(s), a)
  BY <1>1, <1>2 DEF Better, NotOver
<1>11. ~Over(Range(v), a)
  <2>1. "say" \notin Answer(a)
    BY <1>1, CompositeKinds DEF Answer
  <2> QED  BY <1>3, <1>6, <1>9, <1>10, <2>1 DEF Over, Within
<1>12. Paused(a, g)
  BY <1>7, <1>11 DEF Paused
<1>13. ASSUME a \in Firm(a) PROVE Position(L \o v, a)
  <2>1. PICK N : N = L \o v
    OBVIOUS
  <2>2. v \in Seq(Events)
    BY <1>5, ConcatIs
  <2>3. Range(N) = Range(L) \cup Range(v)
    BY <2>1, <2>2, ConcatRange
  <2>4. Ahead(L, a, f) /\ Fresh(L, a, f)
    BY <1>1, <1>13 DEF Better, Lasting, Firm
  <2>5. ~Over(Range(N), a)
    <3>1. ~Over(Range(L), a)
      BY <1>1, <2>4 DEF Fresh
    <3> QED  BY <1>11, <2>3, <3>1 DEF Over
  <2>6. SUFFICES ASSUME a \in Sequentials, NEW j \in DOMAIN SubAgents[a]
                 PROVE  LET i == Index(a, Latest(N, a, Marks).at.sub)
                        IN  /\ j = i => ~Over(Range(N), SubAgents[a][j])
                            /\ j > i => Untouched(Range(N), SubAgents[a][j])
    BY <2>1, <2>5 DEF Position
  <2>7. PICK M \in Seq(Events) : M = L \o s
    BY ConcatIs
  <2>8. PICK w \in Seq(Events) : w = t \o r
    BY ConcatIs
  <2>9. N = M \o w
    <3>1. Joining(u, s, t) /\ Joining(v, u, r) /\ Joining(w, t, r)
      BY <1>4, <1>5, <2>8, ZenonT(60) DEF Joining
    <3>2. Joining(v, s, w)
      BY <3>1, JoiningRight
    <3>3. Joining(M, L, s) /\ Joining(N, L, v)
      BY <2>1, <2>2, <2>7, ZenonT(60) DEF Joining
    <3>4. Joining(N, M, w)
      BY <3>2, <3>3, JoiningLeft
    <3> QED  BY <3>4 DEF Joining
  <2>10. Latest(N, a, Marks) = Latest(M, a, Marks)
    <3>1. Range(w) = Range(t) \cup Range(r)
      BY <2>8, ConcatRange
    <3>2. \A e \in Range(w) : ~(e.by = a /\ e.kind \in Marks)
      BY <1>3, <1>9, <3>1 DEF Within, Marks
    <3> QED  BY <2>9, <3>2, LatestConcatOld
  <2>11. Latest(M, a, Marks) = Marker(a, State(SubAgents[a][f.next], f.looped))
    BY <1>1, <1>2, <2>6, <2>7 DEF Better, AtMark
  <2>12. Latest(N, a, Marks).at.sub = SubAgents[a][f.next]
    BY <2>10, <2>11 DEF Marker, Event, State
  <2>13. f.next \in DOMAIN SubAgents[a] /\ x = SubAgents[a][f.next]
    BY <1>1 DEF Called
  <2>14. Index(a, Latest(N, a, Marks).at.sub) = f.next
    <3>1. \A i \in DOMAIN SubAgents[a] : Index(a, SubAgents[a][i]) = i
      BY <1>1, IndexFacts
    <3> QED  BY <2>12, <2>13, <3>1
  <2>15. PICK y \in Range(SubAgents[a]) : y = SubAgents[a][j]
    BY <1>1, SubAgentFacts
  <2>16. a \notin SubTree(y) /\ y # a /\ y \in SubTree(y)
    BY <1>1, ParentNotBelow, Children, DescendantsAreAgents
  <2>17. ASSUME j = f.next PROVE ~Over(Range(N), y)
    <3>0. j >= f.next
      BY <1>1, <2>17
    <3>1. ~Over(Range(L), y) /\ Untouched(Range(s), y)
      BY <1>1, <1>2, <2>4, <2>6, <2>15, <3>0 DEF Better, NotYet, Ahead
    <3>2. ~Over(Range(t), y)
      BY <1>1, <1>2, <2>13, <2>15, <2>17 DEF Better, Paused
    <3> QED  BY <1>3, <1>6, <2>3, <2>16, <3>1, <3>2 DEF Over, Untouched
  <2>18. ASSUME j > f.next PROVE Untouched(Range(N), y)
    <3>1. j >= f.next /\ j # f.next
      BY <1>1, <1>13, <2>6, <2>18, SubAgentFacts
    <3>2. Untouched(Range(L), y) /\ Untouched(Range(s), y)
      BY <1>1, <1>2, <2>4, <2>6, <2>15, <2>18, <3>1 DEF Better, NotYet, Ahead
    <3>3. y # x
      BY <1>1, <2>13, <2>15, <3>1, SubAgentFacts
    <3>4. SubTree(y) \cap SubTree(x) = {}
      BY <1>1, <3>3, Siblings
    <3> QED  BY <1>3, <1>6, <1>9, <2>3, <2>16, <3>2, <3>4 DEF Untouched, Within
  <2> QED  BY <2>14, <2>15, <2>17, <2>18
<1> QED  BY <1>1, <1>7, <1>8, <1>12, <1>13, DoneBetter

LEMMA EndsBetter ==
    ASSUME AfterOnSequences, NEW L \in Seq(Events), NEW a \in AgentNames, NEW f, NEW g,
           IsFrame(a, f), Good(L, a, f), Better(L, a, f), Ends(a, f, g)
    PROVE  Better(L, a, g)
<1>1. /\ a \in Composites /\ g.at = "done"
      /\ g.events = (f.events \o <<EndMarker(a)>>) \o AfterSaid(a)
      /\ a \in Parallels => ~Pauses(f.events)
      /\ a \notin Parallels => f.at = "run"
  BY DEF Ends
<1>2. PICK s \in Seq(Events) : s = f.events /\ Settles(L, a, s)
  BY BetterSettles DEF IsFrame
<1>3. PICK e \in Events : e = EndMarker(a) /\ e.by = a /\ e.kind = "end"
  BY EmptyIsState, EventIsTyped DEF EndMarker, Event, Kinds
<1>4. PICK t \in Seq(Events) : t = <<e>> /\ Range(t) = {e} /\ DOMAIN t = {1} /\ t[1] = e
  BY OneEvent
<1>5. PICK r \in Seq(Events) : r = AfterSaid(a) /\ \A d \in Range(r) : d.by = a /\ d.kind = "say" /\ a \in After
  BY AfterSaidIs
<1>6. PICK u \in Seq(Events) : u = s \o t
  BY ConcatIs
<1>7. PICK v \in Seq(Events) : v = u \o r
  BY ConcatIs
<1>8. v = g.events
  BY <1>1, <1>2, <1>3, <1>4, <1>5, <1>6, <1>7
<1>9. Range(u) = Range(s) \cup {e} /\ Range(v) = Range(u) \cup Range(r)
  <2>1. Range(u) = Range(s) \cup Range(t)
    BY <1>6, ConcatRange
  <2>2. Range(v) = Range(u) \cup Range(r)
    BY <1>7, ConcatRange
  <2> QED  BY <1>4, <2>1, <2>2
<1>10. OwnOnly(t, a) /\ OwnOnly(r, a)
  BY <1>3, <1>4, <1>5 DEF OwnOnly
<1>11. Settles(L, a, v)
  <2>1. Settles(L, a, u)
    BY <1>2, <1>6, <1>10, OwnSettles
  <2> QED  BY <1>7, <1>10, <2>1, OwnSettles
<1>12. ~Pauses(v)
  <2>1. ~Pauses(s)
    BY <1>1, <1>2 DEF Good, Going
  <2>2. \A d \in Range(s) : d.kind # "ask"
    BY <2>1, PausesIs
  <2>3. \A d \in Range(v) : d.kind # "ask"
    BY <1>3, <1>5, <1>9, <2>2
  <2> QED  BY <2>3, PausesIs
<1>13. Paused(a, g)
  BY <1>8, <1>12 DEF Paused
<1>14. Position(L \o v, a)
  <2>1. PICK M \in Seq(Events) : M = L \o u
    BY ConcatIs
  <2>2. PICK N : N = M \o r
    OBVIOUS
  <2>3. N = L \o v
    <3>1. Joining(M, L, u) /\ Joining(N, M, r) /\ Joining(v, u, r)
      BY <1>7, <2>1, <2>2, ZenonT(60) DEF Joining
    <3>2. Joining(N, L, v)
      BY <3>1, JoiningRight
    <3> QED  BY <3>2 DEF Joining
  <2>4. Latest(t, a, Marks) = e /\ Latest(t, a, Kinds) = e
    <3>1. e.kind \in Marks /\ e.kind \in Kinds
      BY <1>3 DEF Marks, Kinds
    <3>2. Latest(t, a, Marks) = e
      BY <1>3, <1>4, <3>1, LatestOne
    <3>3. Latest(t, a, Kinds) = e
      BY <1>3, <1>4, <3>1, LatestOne
    <3> QED  BY <3>2, <3>3
  <2>5. Latest(M, a, Marks) = e /\ Latest(M, a, Kinds) = e
    <3>1. e \in Range(t) /\ e \in Range(u) /\ e.by = a /\ e.kind \in Marks /\ e.kind \in Kinds
      BY <1>3, <1>4, <1>9 DEF Marks, Kinds
    <3>2. Latest(s \o t, a, Marks) = Latest(t, a, Marks) /\ Latest(s \o t, a, Kinds) = Latest(t, a, Kinds)
      BY <3>1, LatestConcatNew
    <3>3. Latest(L \o u, a, Marks) = Latest(u, a, Marks) /\ Latest(L \o u, a, Kinds) = Latest(u, a, Kinds)
      BY <3>1, LatestConcatNew
    <3> QED  BY <1>6, <2>1, <2>4, <3>2, <3>3
  <2>6. Latest(N, a, Marks) = e
    <3>1. \A d \in Range(r) : ~(d.by = a /\ d.kind \in Marks)
      BY <1>5 DEF Marks
    <3> QED  BY <2>2, <2>5, <3>1, LatestConcatOld
  <2>7. ASSUME a \notin Sequentials PROVE LatestKind(N, a) = "end"
    <3>1. \A d \in Range(r) : FALSE
      BY <1>5, <2>7 DEF AfterOnSequences
    <3>2. Latest(N, a, Kinds) = e
      BY <2>2, <2>5, <3>1, LatestConcatOld
    <3> QED  BY <1>3, <3>2 DEF LatestKind
  <2> QED  BY <1>3, <2>3, <2>6, <2>7 DEF Position
<1> QED  BY <1>1, <1>8, <1>11, <1>13, <1>14, DoneBetter

LEMMA PassesOnBetter ==
    ASSUME NEW L \in Seq(Events), NEW a \in AgentNames, NEW f, NEW g, IsFrame(a, f), Better(L, a, f),
           PassesOn(a, f, g)
    PROVE  Better(L, a, g)
<1>1. /\ a \in Loops /\ f.at = "run" /\ g.at = "run" /\ g.events = f.events /\ g.resuming = f.resuming
      /\ a \in Composites /\ a \notin Sequentials /\ Told(L, g) = Told(L, f)
      /\ f.next > Len(SubAgents[a]) /\ f.next \in Nat
  BY CompositeKinds DEF PassesOn, Told, IsFrame
<1>2. ~f.resuming
  <2>1. Len(SubAgents[a]) \in Nat
    BY <1>1, SubAgentFacts
  <2>2. f.resuming => f.next <= Len(SubAgents[a])
    BY <1>1 DEF Better, Resumes
  <2> QED  BY <1>1, <2>1, <2>2
<1>3. Related(L, a, g) /\ Placed(L, a, g) /\ NotOver(a, g)
  BY <1>1 DEF Better, Related, Placed, NotOver
<1>4. NotYet(a, g) /\ Resumes(a, g) /\ AtMark(L, a, g) /\ Paused(a, g)
  BY <1>1, <1>2 DEF NotYet, Resumes, AtMark, Paused
<1>5. ASSUME OutsideLoops(a) PROVE Kept(L, a, g) /\ Ahead(L, a, g) /\ Fresh(L, a, g)
  <2>1. Fresh(L, a, f)
    BY <1>1, <1>5 DEF Better, Lasting
  <2>2. \A x \in Descendants(a) : ~OutsideLoops(x)
    BY <1>1 DEF OutsideLoops, Above
  <2> QED  BY <1>1, <2>1, <2>2 DEF Kept, Ahead, Fresh
<1> QED  BY <1>3, <1>4, <1>5 DEF Better, Lasting

LEMMA FinishesBetter ==
    ASSUME AfterOnSequences, NEW L \in Seq(Events), NEW a \in AgentNames, NEW f, NEW g, IsFrame(a, f),
           Better(L, a, f), Finishes(a, f, g)
    PROVE  Better(L, a, g)
<1>1. /\ a \in Parallels /\ f.at \in {"join", "joined"} /\ g.at = "done"
      /\ g.events = f.events \o AfterSaid(a) /\ a \in Composites /\ a \notin Sequentials
  BY CompositeKinds DEF Finishes
<1>2. PICK s \in Seq(Events) : s = f.events /\ Settles(L, a, s)
  BY BetterSettles DEF IsFrame
<1>3. g.events = s
  <2>1. AfterSaid(a) = <<>>
    BY <1>1, AfterSaidIs DEF AfterOnSequences
  <2>2. s \o <<>> = s
    OBVIOUS
  <2> QED  BY <1>1, <1>2, <2>1, <2>2
<1>4. ~Over(Range(s), a)
  BY <1>1, <1>2 DEF Better, NotOver
<1>5. Paused(a, g)
  BY <1>3, <1>4 DEF Paused
<1>6. ASSUME a \in Firm(a) PROVE Position(L \o s, a)
  <2>1. PICK N : N = L \o s
    OBVIOUS
  <2>2. Range(N) = Range(L) \cup Range(s)
    BY <2>1, ConcatRange
  <2>3. ~Over(Range(L), a)
    BY <1>1, <1>6 DEF Better, Lasting, Fresh, Firm
  <2>4. ~Over(Range(N), a)
    BY <1>4, <2>2, <2>3 DEF Over
  <2> QED  BY <1>1, <2>1, <2>4 DEF Position
<1> QED  BY <1>1, <1>2, <1>3, <1>5, <1>6, DoneBetter

LEMMA RepliesBetter ==
    ASSUME AfterOnSequences, NEW L \in Seq(Events), NEW a \in AgentNames, NEW f, NEW g, IsFrame(a, f),
           Good(L, a, f), Replies(a, f, g)
    PROVE  Better(L, a, g)
<1>1. a \in Leaves /\ f.at = "run" /\ g.at = "done"
  BY DEF Replies
<1>2. a \notin Composites /\ a \notin Sequentials /\ a \notin Loops /\ SubTree(a) = {a}
  BY <1>1, CompositeKinds, LeavesHaveNone
<1>3. PICK es \in Seq(Events) : es = f.events /\ es = <<>>
  BY <1>1, <1>2, NoEvents DEF Good, Idle
<1>4. PICK k \in {"say", "write", "ask", "escalate"} :
            g.events = (f.events \o <<Event(a, k, Empty)>>) \o AfterSaid(a)
  BY DEF Replies
<1>5. PICK e \in Events : e = Event(a, k, Empty) /\ e.by = a /\ e.kind = k
  BY EmptyIsState, EventIsTyped DEF Event, Kinds
<1>6. PICK s \in Seq(Events) : s = <<e>> /\ Range(s) = {e}
  BY OneEvent
<1>7. g.events = s
  <2>1. AfterSaid(a) = <<>>
    BY <1>2, AfterSaidIs DEF AfterOnSequences
  <2>2. <<>> \o s = s /\ s \o <<>> = s
    OBVIOUS
  <2> QED  BY <1>3, <1>4, <1>5, <1>6, <2>1, <2>2
<1>8. ASSUME Pauses(s) PROVE ~Over(Range(s), a)
  <2>1. e.kind = "ask"
    BY <1>6, <1>8, PausesIs
  <2> QED  BY <1>1, <1>6, <2>1 DEF Over, Answer
<1>9. Paused(a, g)
  BY <1>7, <1>8 DEF Paused
<1>10. Settles(L, a, s) /\ a \notin Firm(a)
  BY <1>2 DEF Settles, Firm
<1> QED  BY <1>1, <1>7, <1>9, <1>10, DoneBetter

LEMMA FailsBetter ==
    ASSUME NEW L \in Seq(Events), NEW a \in AgentNames, NEW f, NEW g, Better(L, a, f), Fails(a, f, g)
    PROVE  Better(L, a, g)
<1>1. g.at = "failed" /\ g.events = f.events /\ Told(L, g) = Told(L, f)
  BY DEF Fails, Told
<1> QED  BY <1>1 DEF Better, Related, NotYet, NotOver, Resumes, AtMark, Paused, Placed, Lasting

-----------------------------------------------------------------------------
(* What the log says of the whole tree, turn after turn.                   *)

FramesBetter == \A x \in DOMAIN frames : Better(log, x, frames[x])
Rooted == DOMAIN frames \subseteq SubTree(Root)
Unfinished == outcome \in {"new", "paused"}
Recorded ==
    /\ AllPlaced(log, Root) /\ AllKin(log, Root)
    /\ Unfinished => ~Over(Range(log), Root)
    /\ frames # <<>> => Unfinished
Lasts == FramesBetter /\ Rooted /\ Recorded

LEMMA StepBetter ==
    ASSUME AfterOnSequences, log \in Seq(Events), AllFrames, TreeOK, LiveOK, FramesGood, FramesBetter,
           NEW a \in AgentNames, NEW g, NEW D, NEW E, Changes(a, g, D, E),
           Step(a, frames[a], g, D, E), IsFrame(a, g)
    PROVE  Better(log, a, g)
<1>1. PICK f : f = frames[a]
  OBVIOUS
<1>2. a \in DOMAIN frames /\ Step(a, f, g, D, E) /\ IsFrame(a, f) /\ Good(log, a, f) /\ Better(log, a, f)
  BY <1>1 DEF Changes, AllFrames, FramesGood, FramesBetter
<1>3. CASE Calls(a, f, g)
  BY <1>2, <1>3, CallsBetter
<1>4. ASSUME NEW x \in Range(SubAgents[a]) \cap DOMAIN frames,
             Takes(a, f, frames[x], g) \/ Stops(a, f, frames[x], g)
      PROVE  Better(log, a, g)
  <2>1. PICK h : h = frames[x] /\ IsFrame(x, h) /\ Good(log, x, h) /\ Better(log, x, h)
    BY DEF AllFrames, FramesGood, FramesBetter
  <2>2. a \in Composites
    BY <1>4 DEF Takes, Stops
  <2>3. Called(a, f, x)
    BY <1>1, <1>2, <2>2, CalledIs
  <2>4. CASE Takes(a, f, h, g)
    BY <1>2, <2>1, <2>3, <2>4, TakesBetter
  <2>5. CASE Stops(a, f, h, g)
    BY <1>2, <2>1, <2>3, <2>5, StopsBetter
  <2> QED  BY <1>4, <2>1, <2>4, <2>5
<1>5. CASE Ends(a, f, g)
  BY <1>2, <1>5, EndsBetter
<1>6. CASE PassesOn(a, f, g)
  BY <1>2, <1>6, PassesOnBetter
<1>7. CASE Finishes(a, f, g)
  BY <1>2, <1>7, FinishesBetter
<1>8. CASE Replies(a, f, g)
  BY <1>2, <1>8, RepliesBetter
<1>9. CASE Fails(a, f, g)
  BY <1>2, <1>9, FailsBetter
<1> QED  BY <1>2, <1>3, <1>4, <1>5, <1>6, <1>7, <1>8, <1>9 DEF Step

(* A composite agent without an end marker is not known as ended.          *)
LEMMA NotKnownAsEnded ==
    ASSUME NEW L \in Seq(Events), NEW x \in Composites, ~Over(Range(L), x)
    PROVE  LatestKind(L, x) # "end"
<1>1. PICK m : m = Latest(L, x, Kinds)
  OBVIOUS
<1>2. "end" \in Answer(x)
  BY CompositeKinds DEF Answer
<1>3. m.kind # "end"
  BY <1>1, <1>2, LatestCases, NoEventIs DEF Over
<1> QED  BY <1>1, <1>3 DEF LatestKind

(* A sub-agent is called with all that the log holds of the agents below.  *)
LEMMA CalledKnown ==
    ASSUME log \in Seq(Events), NEW a \in Composites, NEW g, Better(log, a, g),
           g.at \in {"wait", "join"}, NEW x \in Range(SubAgents[a]),
           a \in Parallels => x \notin g.ended,
           a \notin Parallels => g.at = "wait" /\ g.next \in DOMAIN SubAgents[a] /\ x = SubAgents[a][g.next]
    PROVE  OutsideLoops(x) => Knows(log, x, g) /\ (x \in Composites => LatestKind(log, x) # "end")
<1>1. x \in AgentNames /\ a \in AgentNames /\ Above(x) = {a} \cup Above(a)
  BY Children, AboveAChild, CompositeKinds
<1>2. SubTree(x) \subseteq Descendants(a)
  BY ParentNotBelow
<1>4. ASSUME OutsideLoops(x)
      PROVE  Kept(log, a, g) /\ Ahead(log, a, g) /\ a \notin Loops
  <2>1. OutsideLoops(a) /\ a \notin Loops
    BY <1>1, <1>4 DEF OutsideLoops
  <2> QED  BY <2>1 DEF Better, Lasting
<1>5. ASSUME OutsideLoops(x) PROVE Knows(log, x, g)
  BY <1>2, <1>4, <1>5 DEF Kept, Knows
<1>6. ASSUME OutsideLoops(x), x \in Composites PROVE LatestKind(log, x) # "end"
  <2>1. CASE a \in Parallels
    <3>1. PICK P : P = Populated(log)
      OBVIOUS
    <3>2. x \notin P.ended
      <4>1. x \in Descendants(a)
        BY Children
      <4> QED  BY <1>4, <1>6, <2>1, <3>1, <4>1 DEF Kept
    <3> QED  BY <1>1, <3>1, <3>2, PopulatedIs
  <2>2. CASE a \notin Parallels
    <3>1. a \in Sequentials
      BY <1>4, <1>6, <2>2 DEF Composites
    <3>2. g.next >= g.next
      BY <2>2, SubAgentFacts
    <3>3. ~Over(Range(log), x)
      BY <1>4, <1>6, <2>2, <3>1, <3>2 DEF Ahead
    <3> QED  BY <1>6, <3>3, NotKnownAsEnded
  <2> QED  BY <2>1, <2>2
<1> QED  BY <1>5, <1>6

LEMMA CallKnows ==
    ASSUME AfterOnSequences, log \in Seq(Events), Grounded({}, log), Recorded,
           NEW a \in Composites, a \in SubTree(Root), NEW g, IsFrame(a, g), Good(log, a, g), Better(log, a, g),
           g.at \in {"wait", "join"}, NEW x \in Range(SubAgents[a]),
           a \in Parallels => x \notin g.ended,
           a \notin Parallels => g.at = "wait" /\ g.next \in DOMAIN SubAgents[a] /\ x = SubAgents[a][g.next],
           NEW k, k = Entered(x, g)
    PROVE  Better(log, x, k)
<1>1. x \in AgentNames /\ IsContext(g) /\ Carried(log, Above(x), g)
  BY Children, AboveAChild, CompositeKinds DEF IsFrame, Good
<1>2. OutsideLoops(x) => Knows(log, x, g)
  BY CalledKnown
<1>3. OutsideLoops(x) /\ x \in Composites => LatestKind(log, x) # "end"
  BY CalledKnown
<1>4. AllPlaced(log, x) /\ AllKin(log, x)
  <2>1. SubTree(x) \subseteq SubTree(Root)
    <3>1. SubTree(a) \subseteq SubTree(Root)
      BY RootAlone, NotBelowOwn
    <3> QED  BY <3>1, ParentNotBelow DEF SubTree
  <2> QED  BY <2>1 DEF Recorded, AllPlaced, AllKin, Firm
<1> QED  BY <1>1, <1>2, <1>3, <1>4, EnteredBetter

LEMMA StepLasts ==
    ASSUME AfterOnSequences, Inductive, Inductive', Lasts, NEW a \in AgentNames, Shape(a)
    PROVE  Lasts'
<1>1. log \in Seq(Events) /\ Grounded({}, log) /\ AllFrames /\ TreeOK /\ LiveOK /\ FramesGood
      /\ FramesBetter /\ Rooted /\ Recorded
  BY DEF Inductive, TypeInv, Lasts
<1>2. PICK g, D, E : Changes(a, g, D, E) /\ Step(a, frames[a], g, D, E) /\ IsFrame(a, g)
  BY DEF Shape
<1>3. PICK f : f = frames[a]
  OBVIOUS
<1>4. /\ a \in DOMAIN frames /\ DOMAIN frames' = ((DOMAIN frames \ D) \cup {a}) \cup E /\ frames'[a] = g
      /\ \A y \in DOMAIN frames' : y # a /\ y \notin E => y \in DOMAIN frames /\ frames'[y] = frames[y]
      /\ \A y \in E : frames'[y] = Entered(y, g)
      /\ Step(a, f, g, D, E) /\ IsFrame(a, f) /\ UNCHANGED <<log, turn, outcome>>
  BY <1>1, <1>2, <1>3 DEF Changes, AllFrames
<1>5. Better(log, a, g) /\ Good(log, a, g)
  BY <1>1, <1>2, StepBetter, StepGood
<1>6. a \in SubTree(Root)
  BY <1>1, <1>4 DEF Rooted
<1>7. ASSUME NEW x \in E PROVE x \in SubTree(Root) /\ Better(log, x, frames'[x])
  <2>1. /\ a \in Composites /\ f.at = "run" /\ x \in Range(SubAgents[a]) /\ Calls(a, f, g)
        /\ a \in Parallels => g.at = "join" /\ x \notin g.ended
        /\ a \notin Parallels => /\ g.at = "wait" /\ g.next \in DOMAIN SubAgents[a]
                                 /\ x = SubAgents[a][g.next]
    BY <1>4, <1>7, StepEntering
  <2>2. x \in SubTree(Root)
    <3>1. SubTree(a) \subseteq SubTree(Root)
      BY <1>6, RootAlone, NotBelowOwn
    <3>2. x \in SubTree(a)
      BY <2>1, Children DEF SubTree
    <3> QED  BY <3>1, <3>2
  <2>3. PICK k : k = Entered(x, g)
    OBVIOUS
  <2>4. Better(log, x, k)
    BY <1>1, <1>2, <1>5, <1>6, <2>1, <2>3, CallKnows
  <2> QED  BY <1>4, <1>7, <2>2, <2>3, <2>4
<1>8. ASSUME NEW x \in DOMAIN frames' PROVE x \in SubTree(Root) /\ Better(log, x, frames'[x])
  <2>1. CASE x \in E
    BY <1>7, <2>1
  <2>2. CASE x = a /\ x \notin E
    BY <1>4, <1>5, <1>6, <2>2
  <2>3. CASE x # a /\ x \notin E
    <3>1. x \in DOMAIN frames /\ frames'[x] = frames[x]
      BY <1>4, <2>3
    <3> QED  BY <1>1, <3>1 DEF FramesBetter, Rooted
  <2> QED  BY <2>1, <2>2, <2>3
<1>9. FramesBetter'
  BY <1>4, <1>8 DEF FramesBetter
<1>10. Rooted'
  BY <1>8 DEF Rooted
<1>11. Recorded'
  <2>1. frames # <<>>
    BY <1>4, EmptyFacts
  <2> QED  BY <1>1, <1>4, <2>1 DEF Recorded, Unfinished
<1> QED  BY <1>9, <1>10, <1>11 DEF Lasts

LEMMA StartLasts ==
    ASSUME AfterOnSequences, Inductive, Lasts, StartTurn
    PROVE  Lasts'
<1>1. log \in Seq(Events) /\ Grounded({}, log) /\ Recorded
  BY DEF Inductive, TypeInv, Lasts
<1>2. PICK c, g : /\ c.states = Populated(log).states /\ c.ended = Populated(log).ended
                  /\ IsContext(c) /\ \A A : Carried(log, A, c)
                  /\ g = Entered(Root, c) /\ DOMAIN frames' = {Root} /\ frames'[Root] = g
                  /\ UNCHANGED <<log, outcome>>
  BY <1>1, StartedIs
<1>3. Unfinished
  BY DEF StartTurn, Unfinished
<1>4. Root \in AgentNames /\ Carried(log, Above(Root), c) /\ Root \in SubTree(Root)
  BY <1>2, RootAlone, DescendantsAreAgents
<1>5. Knows(log, Root, c)
  BY <1>2 DEF Knows
<1>6. Root \in Composites => LatestKind(log, Root) # "end"
  BY <1>1, <1>3, NotKnownAsEnded DEF Recorded
<1>7. AllPlaced(log, Root) /\ AllKin(log, Root)
  BY <1>1 DEF Recorded
<1>8. Better(log, Root, g)
  BY <1>1, <1>2, <1>4, <1>5, <1>6, <1>7, EnteredBetter
<1>9. FramesBetter' /\ Rooted'
  BY <1>2, <1>4, <1>8 DEF FramesBetter, Rooted
<1>10. Recorded'
  BY <1>1, <1>2, <1>3 DEF Recorded, Unfinished
<1> QED  BY <1>9, <1>10 DEF Lasts

LEMMA NoFramesLast ==
    ASSUME frames = <<>>, Recorded
    PROVE  Lasts
<1>1. DOMAIN frames = {}
  BY EmptyFacts
<1> QED  BY <1>1 DEF Lasts, FramesBetter, Rooted

LEMMA InitLasts ==
    ASSUME Init
    PROVE  Lasts
<1>1. PICK L \in Seq(Events) : L = log /\ Range(L) = {}
  BY NoEvents DEF Init
<1>2. ASSUME NEW c PROVE Position(L, c)
  <2>1. PICK m : m = Latest(L, c, Marks)
    OBVIOUS
  <2>2. m.kind # "state"
    BY <1>1, <2>1, LatestCases, NoEventIs
  <2> QED  BY <1>1, <2>1, <2>2 DEF Position, Over
<1>3. AllPlaced(log, Root) /\ AllKin(log, Root) /\ ~Over(Range(log), Root)
  BY <1>1, <1>2 DEF AllPlaced, AllKin, Kin, Over
<1>4. Recorded /\ frames = <<>>
  BY <1>3 DEF Recorded, Init
<1> QED  BY <1>4, NoFramesLast

LEMMA EndLasts ==
    ASSUME Inductive, Lasts, EndTurn
    PROVE  Lasts'
<1>1. log \in Seq(Events) /\ FramesBetter /\ Recorded
  BY DEF Inductive, TypeInv, Lasts
<1>2. PICK f : f = frames[Root]
  OBVIOUS
<1>3. PICK s \in Seq(Events) : s = f.events
  BY <1>2, EndedLog DEF IsFrame
<1>4. PICK L \in Seq(Events) : L = log
  BY <1>1
<1>5. /\ frames' = <<>> /\ Root \in DOMAIN frames
      /\ \/ log' = L /\ outcome' = "failed"
         \/ f.at = "done" /\ log' = L \o s /\ outcome' = IF Pauses(s) THEN "paused" ELSE "finished"
  BY <1>2, <1>3, <1>4, EndedLog
<1>6. Better(L, Root, f)
  BY <1>1, <1>2, <1>4, <1>5 DEF FramesBetter
<1>7. ~Over(Range(L), Root)
  <2>1. frames # <<>>
    BY <1>5, EmptyFacts
  <2> QED  BY <1>1, <1>4, <2>1 DEF Recorded
<1>8. AllPlaced(log', Root) /\ AllKin(log', Root) /\ (outcome' = "paused" => ~Over(Range(log'), Root))
  <2>1. CASE log' = L /\ outcome' = "failed"
    BY <1>1, <1>4, <2>1 DEF Recorded
  <2>2. CASE f.at = "done" /\ log' = L \o s /\ outcome' = IF Pauses(s) THEN "paused" ELSE "finished"
    <3>1. PICK N : N = L \o s
      OBVIOUS
    <3>2. Range(N) = Range(L) \cup Range(s)
      BY <3>1, ConcatRange
    <3>3. AllPlaced(N, Root)
      BY <1>3, <1>6, <2>2, <3>1 DEF Better, Placed, AllPlaced
    <3>4. AllKin(N, Root)
      BY <1>3, <1>6, <3>2 DEF Better, Related, AllKin, Told
    <3>5. Pauses(s) => ~Over(Range(N), Root)
      BY <1>3, <1>6, <1>7, <2>2, <3>2 DEF Better, Paused, Over
    <3> QED  BY <2>2, <3>1, <3>3, <3>4, <3>5
  <2> QED  BY <1>5, <2>1, <2>2
<1>9. outcome' # "new"
  BY <1>5
<1>10. Recorded'
  BY <1>5, <1>8, <1>9 DEF Recorded, Unfinished
<1>11. DOMAIN frames' = {}
  BY <1>5, EmptyFacts
<1> QED  BY <1>10, <1>11 DEF Lasts, FramesBetter, Rooted

LEMMA LastsStep ==
    ASSUME AfterOnSequences, Inductive, Inductive', Lasts, [Next]_vars
    PROVE  Lasts'
<1>1. CASE StartTurn
  BY <1>1, StartLasts
<1>2. CASE EndTurn
  BY <1>2, EndLasts
<1>3. ASSUME NEW a \in AgentNames, AgentStep(a) PROVE Lasts'
  <2>1. log \in Seq(Events) /\ AllFrames /\ TreeOK
    BY DEF Inductive, TypeInv
  <2>2. Shape(a)
    BY <1>3, <2>1, ShapeOfStep
  <2> QED  BY <2>2, StepLasts
<1>4. CASE UNCHANGED vars
  BY <1>4 DEF vars, Lasts, FramesBetter, Rooted, Recorded, Unfinished
<1> QED  BY <1>1, <1>2, <1>3, <1>4 DEF Next

LEMMA NothingRepeated ==
    ASSUME Inductive, Lasts
    PROVE  NotRepeated
<1>1. log \in Seq(Events) /\ Grounded({}, log) /\ AllFrames /\ TreeOK /\ FramesBetter /\ Recorded
  BY DEF Inductive, TypeInv, Lasts
<1>2. SUFFICES ASSUME NEW l \in DOMAIN frames \cap Leaves, NEW e \in Range(log)
               PROVE  /\ Above(l) \subseteq Sequentials /\ frames[l].at = "run" /\ e.by = l => e.kind = "ask"
                      /\ e.kind = "end" /\ e.by \in Above(l) => ~OutsideLoops(e.by)
  BY <1>1, RangeIs DEF NotRepeated
<1>3. ASSUME NEW c \in Above(l), OutsideLoops(c), c \in DOMAIN frames
      PROVE  c \in Composites /\ Lasting(log, c, frames[c])
  BY <1>1, <1>3 DEF Above, FramesBetter, Better
<1>4. ASSUME Above(l) \subseteq Sequentials, e.by = l PROVE e.kind = "ask"
  <2>1. SUFFICES ASSUME ~Over(Range(log), l) PROVE e.kind = "ask"
    <3>1. SUFFICES ASSUME Over(Range(log), l) PROVE FALSE
      BY <2>1
    <3>2. l # Root
      <4>1. frames # <<>>
        BY EmptyFacts
      <4> QED  BY <1>1, <3>1, <4>1 DEF Recorded
    <3>3. PICK c \in Composites : Runs(frames, c, l)
      BY <1>1, <3>2 DEF TreeOK, Tree
    <3>4. l \in Range(SubAgents[c]) /\ c \in DOMAIN frames
      BY <3>3 DEF Runs
    <3>5. c \in Above(l) /\ Above(c) \subseteq Above(l)
      BY <3>4, AboveAChild
    <3>6. c \in Sequentials /\ c \notin Parallels /\ OutsideLoops(c)
      BY <1>4, <3>5, CompositeKinds DEF OutsideLoops
    <3>7. frames[c].at = "wait" /\ frames[c].next \in DOMAIN SubAgents[c] /\ l = SubAgents[c][frames[c].next]
      BY <3>3, <3>6 DEF Runs
    <3>8. frames[c].next >= frames[c].next
      BY <3>7, SubAgentFacts
    <3>9. Ahead(log, c, frames[c])
      BY <1>3, <3>4, <3>5, <3>6, <3>7 DEF Lasting
    <3> QED  BY <3>1, <3>6, <3>7, <3>8, <3>9 DEF Ahead
  <2>2. GroundedEvent({} \cup Range(log), e) /\ e \in Events
    BY <1>1, GroundedInRange, RangeIs
  <2>3. e.kind \notin Marks /\ e.kind \in Kinds
    BY <1>4, <2>2 DEF GroundedEvent, Events
  <2> QED  BY <1>4, <2>1, <2>3 DEF Over, Answer, Marks, Kinds
<1>5. ASSUME e.kind = "end", e.by \in Above(l), OutsideLoops(e.by) PROVE FALSE
  <2>1. PICK c \in Above(l) : c = e.by
    BY <1>5
  <2>2. c \in DOMAIN frames /\ frames[c].at \in {"wait", "join"}
    BY <1>1, AncestorsRun DEF AllFrames, TreeOK
  <2>3. c \in Composites /\ Lasting(log, c, frames[c])
    BY <1>3, <1>5, <2>1, <2>2
  <2>4. Over(Range(log), c)
    BY <1>5, <2>1, <2>3, CompositeKinds DEF Over, Answer
  <2>5. Fresh(log, c, frames[c])
    BY <1>5, <2>1, <2>2, <2>3 DEF Lasting
  <2> QED  BY <2>2, <2>3, <2>4, <2>5 DEF Fresh
<1> QED  BY <1>4, <1>5

(* A resumed invocation repeats nothing that is settled: a leaf of a       *)
(* sequence that answered in an earlier turn is not run again, and no leaf *)
(* runs below a composite agent that has ended (start_index,               *)
(* end_of_agents), if the after_agent_callbacks that return content are of *)
(* sequences.                                                              *)
THEOREM NothingIsRepeated == ASSUME AfterOnSequences PROVE Spec => []NotRepeated
<1>1. Init => Lasts
  BY InitLasts
<1>2. Inductive /\ Inductive' /\ Lasts /\ [Next]_vars => Lasts'
  BY LastsStep
<1>3. Inductive /\ Lasts => NotRepeated
  BY NothingRepeated
<1> QED  BY <1>1, <1>2, <1>3, AlwaysInductive, PTL DEF Spec

-----------------------------------------------------------------------------
(* The passes of a loop, counted by the answers of its last sub-agent.     *)

AnswersIn(L, l) == {i \in DOMAIN L : L[i].by = l /\ L[i].kind # "ask"}
Replied(L, l) == Cardinality(AnswersIn(L, l))

LEMMA RepliesFinite ==
    ASSUME NEW s \in Seq(Events), NEW l
    PROVE  IsFiniteSet(AnswersIn(s, l)) /\ Replied(s, l) \in Nat
<1>1. IsFiniteSet(DOMAIN s) /\ AnswersIn(s, l) \in SUBSET DOMAIN s
  BY RangeIs DEF AnswersIn
<1>2. IsFiniteSet(AnswersIn(s, l))
  BY <1>1, FS_Subset
<1> QED  BY <1>2, FS_CardinalityType DEF Replied

LEMMA RepliedNone ==
    ASSUME NEW s \in Seq(Events), NEW l, \A e \in Range(s) : e.by = l => e.kind = "ask"
    PROVE  Replied(s, l) = 0
<1>1. AnswersIn(s, l) = {}
  BY RangeIs DEF AnswersIn
<1> QED  BY <1>1, FS_EmptySet DEF Replied

LEMMA RepliedOnce ==
    ASSUME NEW s \in Seq(Events), NEW l, Len(s) = 1
    PROVE  Replied(s, l) <= 1
<1>1. DOMAIN s = {1}
  OBVIOUS
<1>2. AnswersIn(s, l) \in SUBSET {1} /\ IsFiniteSet({1}) /\ Cardinality({1}) = 1
  BY <1>1, FS_Singleton DEF AnswersIn
<1> QED  BY <1>2, FS_Subset DEF Replied

LEMMA Shifted ==
    ASSUME NEW B \in SUBSET Nat, IsFiniteSet(B), NEW n \in Nat, NEW D, D = {n + i : i \in B}
    PROVE  IsFiniteSet(D) /\ Cardinality(D) = Cardinality(B)
<1>a. PICK f : f = [i \in B |-> n + i]
  OBVIOUS
<1>b. f \in [B -> D] /\ \A i \in B : f[i] = n + i
  BY <1>a
<1>c. \A i, j \in B : f[i] = f[j] => i = j
  BY <1>b
<1>1. \A d \in D : \E i \in B : f[i] = d
  BY <1>b
<1>2. f \in Bijection(B, D)
  BY <1>b, <1>c, <1>1 DEF Bijection, Injection, Surjection, IsInjective
<1>3. ExistsBijection(B, D)
  BY <1>2 DEF ExistsBijection
<1> QED  BY <1>3, FS_Bijection

LEMMA RepliedConcat ==
    ASSUME NEW u, NEW s, NEW t, Joining(u, s, t), NEW l
    PROVE  /\ Replied(u, l) = Replied(s, l) + Replied(t, l)
           /\ Replied(s, l) \in Nat /\ Replied(t, l) \in Nat
<1>0. s \in Seq(Events) /\ t \in Seq(Events) /\ u = s \o t
  BY DEF Joining
<1>1. PICK n \in Nat : n = Len(s) /\ DOMAIN s = 1 .. n
  BY <1>0, ConcatIs
<1>2. PICK D : D = {n + i : i \in AnswersIn(t, l)}
  OBVIOUS
<1>3. AnswersIn(t, l) \in SUBSET Nat
  BY <1>0, RangeIs DEF AnswersIn
<1>4. IsFiniteSet(D) /\ Cardinality(D) = Replied(t, l)
  <2>1. IsFiniteSet(AnswersIn(t, l))
    BY <1>0, RepliesFinite
  <2> QED  BY <1>2, <1>3, <2>1, Shifted DEF Replied
<1>5. DOMAIN t = 1 .. Len(t) /\ DOMAIN u = 1 .. (n + Len(t)) /\ Len(t) \in Nat
  BY <1>0, <1>1, ConcatIs
<1>6. \A i \in DOMAIN s : u[i] = s[i]
  BY <1>0, <1>1, ConcatIs
<1>7. \A i \in DOMAIN t : u[n + i] = t[i]
  BY <1>0, <1>1, <1>5, ConcatIs
<1>8. AnswersIn(s, l) \cap D = {}
  BY <1>1, <1>2, <1>5 DEF AnswersIn
<1>9. AnswersIn(u, l) = AnswersIn(s, l) \cup D
  <2>1. ASSUME NEW i \in AnswersIn(u, l) PROVE i \in AnswersIn(s, l) \cup D
    <3>1. CASE i \in DOMAIN s
      BY <1>6, <2>1, <3>1 DEF AnswersIn
    <3>2. CASE i \notin DOMAIN s
      <4>1. PICK k \in DOMAIN t : i = n + k
        <5>1. i \in 1 .. n + Len(t) /\ i \notin 1 .. n
          BY <1>1, <1>5, <3>2 DEF AnswersIn
        <5>2. i - n \in 1 .. Len(t) /\ i = n + (i - n)
          BY <1>1, <1>5, <5>1
        <5> QED  BY <1>5, <5>2
      <4> QED  BY <1>2, <1>7, <2>1, <4>1 DEF AnswersIn
    <3> QED  BY <3>1, <3>2
  <2>2. ASSUME NEW i \in AnswersIn(s, l) PROVE i \in AnswersIn(u, l)
    BY <1>1, <1>5, <1>6 DEF AnswersIn
  <2>3. ASSUME NEW i \in D PROVE i \in AnswersIn(u, l)
    <3>1. PICK k \in AnswersIn(t, l) : i = n + k
      BY <1>2, <2>3
    <3>2. k \in DOMAIN t /\ n + k \in DOMAIN u
      BY <1>1, <1>5, <3>1 DEF AnswersIn
    <3> QED  BY <1>7, <3>1, <3>2 DEF AnswersIn
  <2> QED  BY <2>1, <2>2, <2>3
<1>10. IsFiniteSet(AnswersIn(s, l)) /\ Replied(s, l) \in Nat /\ Replied(t, l) \in Nat
  BY <1>0, RepliesFinite
<1>11. Cardinality(AnswersIn(s, l) \cup D) = Cardinality(AnswersIn(s, l)) + Cardinality(D)
  <2>1. PICK A : A = AnswersIn(s, l)
    OBVIOUS
  <2>2. IsFiniteSet(A) /\ Cardinality(A) \in Nat /\ Cardinality(D) \in Nat /\ Cardinality(A \cap D) = 0
    BY <1>4, <1>8, <1>10, <2>1, FS_EmptySet DEF Replied
  <2>3. Cardinality(A \cup D) = Cardinality(A) + Cardinality(D) - Cardinality(A \cap D)
    BY <1>4, <2>2, FS_Union
  <2> QED  BY <2>1, <2>2, <2>3
<1> QED  BY <1>4, <1>9, <1>10, <1>11 DEF Replied

LastOf(c) == Last(SubAgents[c])

LEMMA LastIs ==
    ASSUME NEW c \in Composites
    PROVE  /\ LastOf(c) \in Range(SubAgents[c]) /\ LastOf(c) \in SubTree(c) /\ LastOf(c) # c
           /\ LastOf(c) = SubAgents[c][Len(SubAgents[c])] /\ Len(SubAgents[c]) \in DOMAIN SubAgents[c]
<1>1. Len(SubAgents[c]) \in DOMAIN SubAgents[c]
  BY SubAgentFacts
<1>2. LastOf(c) = SubAgents[c][Len(SubAgents[c])]
  BY DEF LastOf, Last
<1>3. LastOf(c) \in Range(SubAgents[c])
  BY <1>1, <1>2, SubAgentFacts
<1> QED  BY <1>1, <1>2, <1>3, Children, ParentNotBelow DEF SubTree

(* The loops whose last sub-agent is a leaf; it ends every pass but one    *)
(* that is left early.                                                     *)
Counted == {c \in Loops : OutsideLoops(c) /\ LastOf(c) \in Leaves}
Passes(M, c) ==
    /\ Latest(M, c, Marks).kind = "state" => Replied(M, LastOf(c)) <= Latest(M, c, Marks).at.looped
    /\ Latest(M, c, Marks).kind = "end" => Replied(M, LastOf(c)) <= MaxIterations[c]
    /\ Latest(M, c, Marks).kind = "none" => Replied(M, LastOf(c)) = 0
AllPasses(L, x) == \A c \in Counted \cap SubTree(x) : Passes(L, c)

Tallies(L, a, s) == \A c \in Counted \cap SubTree(a) : c # a => Passes(L \o s, c)
Tally(L, a, f) ==
    a \in Counted /\ f.at \in {"run", "wait"} =>
        Replied(L \o f.events, LastOf(a)) <= IF f.next > Len(SubAgents[a]) THEN f.looped + 1 ELSE f.looped
Final(L, a, f) == a \in Counted /\ f.at = "done" => Passes(L \o f.events, a)
Single(a, f) == a \in Leaves /\ f.at = "done" => Len(f.events) = 1
Limited(L, a, f) == Tallies(L, a, f.events) /\ Tally(L, a, f) /\ Final(L, a, f) /\ Single(a, f)

LEMMA CountedIs ==
    ASSUME NEW c \in Counted
    PROVE  /\ c \in Loops /\ c \in Composites /\ c \in AgentNames /\ c \notin Parallels
           /\ c \notin Sequentials /\ c \notin Leaves /\ OutsideLoops(c)
           /\ LastOf(c) \in Leaves /\ LastOf(c) \in AgentNames /\ SubTree(LastOf(c)) = {LastOf(c)}
           /\ MaxIterations[c] \in Nat
BY CompositeKinds, LeavesHaveNone, AgentTree DEF Counted, AgentNames

LEMMA RepliedMore ==
    ASSUME NEW L \in Seq(Events), NEW u, NEW s, NEW t, Joining(u, s, t), NEW l
    PROVE  /\ Replied(L \o u, l) = Replied(L \o s, l) + Replied(t, l)
           /\ Replied(L \o s, l) \in Nat /\ Replied(t, l) \in Nat
<1>1. PICK M : M = L \o s
  OBVIOUS
<1>2. PICK N : N = M \o t
  OBVIOUS
<1>3. N = L \o u
  <2>1. L \o (s \o t) = (L \o s) \o t
    BY ConcatAssoc DEF Joining
  <2> QED  BY <1>1, <1>2, <2>1 DEF Joining
<1>4. Joining(N, M, t)
  BY <1>1, <1>2, ConcatIs DEF Joining
<1>5. Replied(N, l) = Replied(M, l) + Replied(t, l) /\ Replied(M, l) \in Nat /\ Replied(t, l) \in Nat
  BY <1>4, RepliedConcat
<1> QED  BY <1>1, <1>3, <1>5

LEMMA PassesAppended ==
    ASSUME NEW s \in Seq(Events), NEW t \in Seq(Events), NEW c \in Counted, Untouched(Range(t), c),
           NEW u, u = s \o t, Passes(s, c)
    PROVE  Passes(u, c)
<1>1. c \in AgentNames /\ c \in SubTree(c) /\ LastOf(c) \in SubTree(c)
  BY CountedIs, LastIs, DescendantsAreAgents
<1>2. PICK l : l = LastOf(c)
  OBVIOUS
<1>3. Latest(u, c, Marks) = Latest(s, c, Marks)
  <2>1. \A e \in Range(t) : ~(e.by = c /\ e.kind \in Marks)
    BY <1>1 DEF Untouched
  <2> QED  BY <2>1, LatestConcatOld
<1>4. Replied(u, l) = Replied(s, l)
  <2>1. \A e \in Range(t) : e.by = l => e.kind = "ask"
    BY <1>1, <1>2 DEF Untouched
  <2>2. Replied(t, l) = 0 /\ Replied(s, l) \in Nat
    BY <2>1, RepliedNone, RepliesFinite
  <2>3. Joining(u, s, t)
    BY DEF Joining
  <2>4. Replied(u, l) = Replied(s, l) + Replied(t, l)
    BY <2>3, RepliedConcat
  <2> QED  BY <2>2, <2>4
<1> QED  BY <1>2, <1>3, <1>4 DEF Passes

LEMMA PassesInserted ==
    ASSUME NEW L \in Seq(Events), NEW s \in Seq(Events), NEW t \in Seq(Events), NEW c \in Counted,
           Untouched(Range(s), c), NEW M, M = L \o t, NEW N, N = (L \o s) \o t, Passes(M, c)
    PROVE  Passes(N, c)
<1>1. c \in AgentNames /\ c \in SubTree(c) /\ LastOf(c) \in SubTree(c)
  BY CountedIs, LastIs, DescendantsAreAgents
<1>2. PICK l : l = LastOf(c)
  OBVIOUS
<1>3. Latest(N, c, Marks) = Latest(M, c, Marks)
  <2>1. \A e \in Range(s) : e.by # c
    BY <1>1 DEF Untouched
  <2> QED  BY <2>1, LatestInserted
<1>4. Replied(N, l) = Replied(M, l)
  <2>1. \A e \in Range(s) : e.by = l => e.kind = "ask"
    BY <1>1, <1>2 DEF Untouched
  <2>2. Replied(s, l) = 0 /\ Replied(L, l) \in Nat /\ Replied(t, l) \in Nat
    BY <2>1, RepliedNone, RepliesFinite
  <2>3. PICK O \in Seq(Events) : O = L \o s
    BY ConcatIs
  <2>5. Joining(O, L, s) /\ Joining(N, O, t) /\ Joining(M, L, t)
    BY <2>3 DEF Joining
  <2>4. Replied(O, l) = Replied(L, l) + Replied(s, l)
    BY <2>5, RepliedConcat
  <2>6. Replied(N, l) = Replied(O, l) + Replied(t, l)
    BY <2>5, RepliedConcat
  <2>7. Replied(M, l) = Replied(L, l) + Replied(t, l)
    BY <2>5, RepliedConcat
  <2> QED  BY <2>2, <2>4, <2>6, <2>7
<1> QED  BY <1>2, <1>3, <1>4 DEF Passes

LEMMA OwnTallies ==
    ASSUME NEW L \in Seq(Events), NEW a \in AgentNames, NEW s \in Seq(Events), NEW t \in Seq(Events),
           NEW u, Joining(u, s, t), OwnOnly(t, a), Tallies(L, a, s)
    PROVE  /\ Tallies(L, a, u)
           /\ a \in Composites => Replied(L \o u, LastOf(a)) = Replied(L \o s, LastOf(a))
<1>1. ASSUME NEW c \in Counted \cap SubTree(a), c # a PROVE Passes(L \o u, c)
  <2>1. PICK M \in Seq(Events) : M = L \o s
    BY ConcatIs
  <2>2. PICK N : N = M \o t
    OBVIOUS
  <2>3. N = L \o u
    BY <2>1, <2>2, ConcatAssoc DEF Joining
  <2>4. Untouched(Range(t), c)
    BY <1>1, NotBelowOwn DEF Untouched, OwnOnly
  <2>5. Passes(M, c)
    BY <1>1, <2>1 DEF Tallies
  <2> QED  BY <2>2, <2>3, <2>4, <2>5, PassesAppended
<1>2. ASSUME a \in Composites PROVE Replied(L \o u, LastOf(a)) = Replied(L \o s, LastOf(a))
  <2>1. PICK l : l = LastOf(a) /\ l # a
    BY <1>2, LastIs
  <2>2. Replied(t, l) = 0
    BY <2>1, RepliedNone DEF OwnOnly
  <2>3. Replied(L \o u, l) = Replied(L \o s, l) + Replied(t, l) /\ Replied(L \o s, l) \in Nat
    BY RepliedMore
  <2> QED  BY <2>1, <2>2, <2>3
<1> QED  BY <1>1, <1>2 DEF Tallies

LEMMA JoinedTallies ==
    ASSUME NEW L \in Seq(Events), NEW a \in Composites, NEW x \in Range(SubAgents[a]), NEW f, NEW h,
           Good(L, x, h), Called(a, f, x), Better(L, a, f), Limited(L, a, f), Limited(L, x, h),
           a \notin Parallels => f.at = "wait", h.at = "done", IsFrame(a, f), IsFrame(x, h)
    PROVE  \E s \in Seq(Events), t \in Seq(Events) :
              s = f.events /\ t = h.events /\ Tallies(L, a, s \o t)
<1>1. PICK s \in Seq(Events), t \in Seq(Events) : s = f.events /\ t = h.events
  BY DEF IsFrame
<1>2. PICK u : u = s \o t
  OBVIOUS
<1>3. Tallies(L, a, s) /\ Tallies(L, x, t) /\ Final(L, x, h)
  BY <1>1 DEF Limited
<1>4. ASSUME NEW c \in Counted \cap SubTree(a), c # a PROVE Passes(L \o u, c)
  <2>1. \/ Untouched(Range(t), c)
        \/ c \in SubTree(x) /\ Untouched(Range(s), c)
    BY <1>1, <1>4, JoinedApart, CountedIs
  <2>2. PICK M \in Seq(Events) : M = L \o s
    BY ConcatIs
  <2>3. PICK N : N = M \o t
    OBVIOUS
  <2>4. N = L \o u
    <3>1. Joining(M, L, s) /\ Joining(N, M, t) /\ Joining(u, s, t)
      BY <1>2, <2>2, <2>3, ZenonT(60) DEF Joining
    <3>2. Joining(N, L, u)
      BY <3>1, JoiningRight
    <3> QED  BY <3>2 DEF Joining
  <2>5. CASE Untouched(Range(t), c)
    <3>1. Passes(M, c)
      BY <1>3, <1>4, <2>2 DEF Tallies
    <3> QED  BY <2>3, <2>4, <2>5, <3>1, PassesAppended
  <2>6. CASE c \in SubTree(x) /\ Untouched(Range(s), c)
    <3>1. PICK O : O = L \o t
      OBVIOUS
    <3>2. Passes(O, c)
      BY <1>1, <1>3, <1>4, <2>6, <3>1 DEF Tallies, Final
    <3>3. N = (L \o s) \o t
      BY <2>2, <2>3
    <3> QED  BY <2>4, <2>6, <3>1, <3>2, <3>3, PassesInserted
  <2> QED  BY <2>1, <2>5, <2>6
<1>5. Tallies(L, a, u)
  BY <1>4 DEF Tallies
<1> QED  BY <1>1, <1>2, <1>5

LEMMA EnteredLimited ==
    ASSUME AfterOnSequences, NEW L \in Seq(Events), Grounded({}, L), NEW x \in AgentNames, NEW c,
           Carried(L, Above(x), c), OutsideLoops(x) => Knows(L, x, c),
           OutsideLoops(x) /\ x \in Composites => LatestKind(L, x) # "end",
           AllPasses(L, x), NEW g, g = Entered(x, c)
    PROVE  Limited(L, x, g)
<1>1. PICK at : at = IF x \in DOMAIN c.states THEN c.states[x] ELSE Empty
  OBVIOUS
<1>2. g.at = "run" /\ g.looped = at.looped
  BY <1>1 DEF Entered
<1>3. L \o g.events = L
  BY DEF Entered
<1>4. Tallies(L, x, g.events)
  BY <1>3 DEF Tallies, AllPasses
<1>5. ASSUME x \in Counted PROVE g.looped \in Nat /\ Replied(L, LastOf(x)) <= g.looped
  <2>1. /\ x \in Loops /\ x \in Composites /\ x \notin Sequentials /\ OutsideLoops(x)
        /\ x \notin Above(x) /\ x \in SubTree(x)
    BY <1>5, CountedIs, NoneBelowItself, DescendantsAreAgents DEF Above
  <2>2. PICK P : P = Populated(L)
    OBVIOUS
  <2>3. PICK m : m = Latest(L, x, Marks)
    OBVIOUS
  <2>4. Passes(L, x)
    BY <1>5, <2>1 DEF AllPasses
  <2>5. CASE x \in DOMAIN c.states
    <3>1. x \in DOMAIN P.states /\ at = P.states[x]
      BY <1>1, <2>1, <2>2, <2>5 DEF Carried
    <3>2. LatestKind(L, x) \notin {"none", "end"} /\ at = m.at
      BY <2>2, <2>3, <3>1, PopulatedIs
    <3>3. m.kind \in Marks /\ m \in Events /\ (m.kind = "end" => x \in Sequentials)
      BY <2>1, <2>3, <3>2, RecoveredPlace
    <3>4. m.kind = "state" /\ m.at.looped \in Nat
      BY <2>1, <3>3 DEF Marks, Events, AgentState
    <3> QED  BY <1>2, <2>3, <2>4, <3>2, <3>4 DEF Passes
  <2>6. CASE x \notin DOMAIN c.states
    <3>1. x \notin DOMAIN P.states
      BY <2>1, <2>2, <2>6 DEF Knows
    <3>2. LatestKind(L, x) = "none"
      BY <2>1, <2>2, <3>1, PopulatedIs
    <3>3. PICK k : k = Latest(L, x, Kinds) /\ k.kind = "none"
      BY <3>2 DEF LatestKind
    <3>4. \A e \in Range(L) : ~(e.by = x /\ e.kind \in Kinds)
      BY <3>3, LatestCases DEF Kinds
    <3>5. \A e \in Range(L) : ~(e.by = x /\ e.kind \in Marks)
      BY <3>4 DEF Kinds, Marks
    <3>6. m.kind = "none"
      BY <2>3, <3>5, LatestNone, NoEventIs
    <3>7. Replied(L, LastOf(x)) = 0
      BY <2>3, <2>4, <3>6 DEF Passes
    <3> QED  BY <1>1, <1>2, <2>6, <3>7, EmptyIsState
  <2> QED  BY <2>5, <2>6
<1>6. Tally(L, x, g)
  <2>1. SUFFICES ASSUME x \in Counted
                 PROVE  Replied(L, LastOf(x)) <= IF g.next > Len(SubAgents[x]) THEN g.looped + 1 ELSE g.looped
    BY <1>3 DEF Tally
  <2>2. PICK n : n = Replied(L, LastOf(x)) /\ n \in Nat
    BY RepliesFinite
  <2> QED  BY <1>5, <2>1, <2>2
<1> QED  BY <1>2, <1>4, <1>6 DEF Limited, Final, Single

LEMMA JoiningIs ==
    ASSUME NEW u, NEW s, NEW t, Joining(u, s, t)
    PROVE  /\ s \in Seq(Events) /\ t \in Seq(Events) /\ u \in Seq(Events)
           /\ Range(u) = Range(s) \cup Range(t)
<1>1. s \in Seq(Events) /\ t \in Seq(Events) /\ u = s \o t
  BY DEF Joining
<1> QED  BY <1>1, ConcatIs

LEMMA LatestMore ==
    ASSUME NEW L \in Seq(Events), NEW u, NEW s, NEW t, Joining(u, s, t), NEW a, NEW K,
           \A e \in Range(t) : ~(e.by = a /\ e.kind \in K)
    PROVE  Latest(L \o u, a, K) = Latest(L \o s, a, K)
<1>1. PICK M : M = L \o s
  OBVIOUS
<1>2. M \in Seq(Events)
  BY <1>1, ConcatIs DEF Joining
<1>3. M \o t = L \o u
  <2>1. L \o (s \o t) = (L \o s) \o t
    BY ConcatAssoc DEF Joining
  <2> QED  BY <1>1, <2>1 DEF Joining
<1>4. Latest(M \o t, a, K) = Latest(M, a, K)
  BY <1>2, JoiningIs, LatestConcatOld
<1> QED  BY <1>1, <1>3, <1>4

LEMMA LatestEnd ==
    ASSUME NEW L \in Seq(Events), NEW a, NEW K, NEW e \in Events, e.by = a, e.kind \in K,
           NEW u, NEW s, NEW t, Joining(u, s, t), DOMAIN t = {1}, t[1] = e
    PROVE  Latest(L \o u, a, K) = e
<1>1. s \in Seq(Events) /\ t \in Seq(Events) /\ u \in Seq(Events) /\ Range(u) = Range(s) \cup Range(t)
  BY JoiningIs
<1>2. Latest(t, a, K) = e /\ e \in Range(t)
  BY <1>1, LatestOne, RangeIs
<1>3. Latest(s \o t, a, K) = Latest(t, a, K)
  BY <1>1, <1>2, LatestConcatNew
<1>4. Latest(L \o u, a, K) = Latest(u, a, K)
  BY <1>1, <1>2, LatestConcatNew
<1> QED  BY <1>2, <1>3, <1>4 DEF Joining

LEMMA CallsLimited ==
    ASSUME NEW L \in Seq(Events), NEW a \in AgentNames, NEW f, NEW g, IsFrame(a, f), Limited(L, a, f),
           Calls(a, f, g)
    PROVE  Limited(L, a, g)
<1>1. /\ a \in Composites /\ f.at = "run" /\ g.at \in {"wait", "join"} /\ g.next = f.next
      /\ g.looped = f.looped
  BY DEF Calls
<1>2. PICK s \in Seq(Events) : s = f.events
  BY DEF IsFrame
<1>3. PICK t \in Seq(Events) : Joining(g.events, s, t) /\ OwnOnly(t, a)
  <2>1. CASE f.resuming
    <3>1. PICK t : t = <<>>
      OBVIOUS
    <3>2. t \in Seq(Events) /\ Range(t) = {} /\ s \o t = s
      BY <3>1, NoEvents
    <3> QED  BY <1>2, <2>1, <3>2 DEF Calls, OwnOnly, Joining
  <2>2. CASE ~f.resuming
    <3>1. PICK at \in AgentState : g.events = f.events \o <<Marker(a, at)>>
      BY <2>2 DEF Calls
    <3>2. PICK e \in Events : e = Marker(a, at) /\ e.by = a
      BY EventIsTyped DEF Marker, Event, Kinds
    <3>3. PICK t : t = <<e>>
      OBVIOUS
    <3>4. t \in Seq(Events) /\ Range(t) = {e}
      BY <3>3, OneEvent
    <3> QED  BY <1>2, <3>1, <3>2, <3>3, <3>4 DEF OwnOnly, Joining
  <2> QED  BY <2>1, <2>2
<1>4. PICK u : u = g.events /\ Joining(u, s, t)
  BY <1>3
<1>5. Tallies(L, a, s)
  BY <1>2 DEF Limited
<1>6. Tallies(L, a, u)
  BY <1>3, <1>4, <1>5, OwnTallies
<1>7. Replied(L \o u, LastOf(a)) = Replied(L \o s, LastOf(a))
  BY <1>1, <1>3, <1>4, <1>5, OwnTallies
<1>8. Tally(L, a, g)
  BY <1>1, <1>2, <1>4, <1>7 DEF Limited, Tally
<1> QED  BY <1>1, <1>4, <1>6, <1>8 DEF Limited, Final, Single

(* What a sub-agent of a loop adds to the count.                           *)
LEMMA JoinedReplies ==
    ASSUME NEW a \in Counted, NEW x \in Range(SubAgents[a]), NEW t \in Seq(Events), Within(Range(t), x),
           x \in Leaves => Len(t) = 1
    PROVE  /\ Replied(t, LastOf(a)) \in Nat
           /\ x # LastOf(a) => Replied(t, LastOf(a)) = 0
           /\ x = LastOf(a) => Replied(t, LastOf(a)) <= 1 /\ (Pauses(t) => Replied(t, LastOf(a)) = 0)
<1>1. a \in Composites /\ LastOf(a) \in Leaves /\ SubTree(LastOf(a)) = {LastOf(a)}
  BY CountedIs
<1>2. PICK l \in Range(SubAgents[a]) : l = LastOf(a)
  BY <1>1, LastIs
<1>3. Replied(t, l) \in Nat
  BY RepliesFinite
<1>4. ASSUME x # l PROVE Replied(t, l) = 0
  <2>1. SubTree(l) \cap SubTree(x) = {}
    BY <1>1, <1>4, Siblings
  <2>2. \A e \in Range(t) : e.by # l
    BY <1>1, <1>2, <2>1 DEF Within
  <2> QED  BY <2>2, RepliedNone
<1>5. ASSUME x = l PROVE Len(t) = 1 /\ Replied(t, l) <= 1
  BY <1>1, <1>2, <1>5, RepliedOnce
<1>6. ASSUME x = l, Pauses(t) PROVE Replied(t, l) = 0
  <2>1. PICK e \in Range(t) : e.kind = "ask"
    BY <1>6, PausesIs
  <2>2. Range(t) = {t[1]}
    <3>1. DOMAIN t = {1}
      BY <1>5, <1>6
    <3> QED  BY <3>1 DEF Range
  <2>3. \A d \in Range(t) : d.kind = "ask"
    BY <2>1, <2>2
  <2> QED  BY <2>3, RepliedNone
<1> QED  BY <1>2, <1>3, <1>4, <1>5, <1>6

LEMMA TakesLimited ==
    ASSUME NEW L \in Seq(Events), NEW a \in AgentNames, NEW x \in Range(SubAgents[a]), NEW f, NEW h, NEW g,
           IsFrame(a, f), IsFrame(x, h), Good(L, x, h), Called(a, f, x), Better(L, a, f),
           Limited(L, a, f), Limited(L, x, h), Takes(a, f, h, g)
    PROVE  Limited(L, a, g)
<1>1. /\ a \in Composites /\ h.at = "done" /\ g.events = f.events \o h.events /\ g.looped = f.looped
      /\ a \notin Parallels => f.at = "wait" /\ g.at = "run" /\ g.next = f.next + 1
      /\ a \in Parallels => g.at \in {"join", "joined"}
      /\ f.next \in Nat \ {0} /\ f.looped \in Nat
  BY DEF Takes, IsFrame
<1>2. PICK s \in Seq(Events), t \in Seq(Events) :
            s = f.events /\ t = h.events /\ Tallies(L, a, s \o t)
  BY <1>1, JoinedTallies
<1>3. PICK u : u = s \o t /\ u = g.events /\ Joining(u, s, t)
  BY <1>1, <1>2 DEF Joining
<1>4. ASSUME a \in Counted
      PROVE  Replied(L \o u, LastOf(a)) <= IF g.next > Len(SubAgents[a]) THEN g.looped + 1 ELSE g.looped
  <2>1. a \notin Parallels /\ a \in Composites
    BY <1>4, CountedIs
  <2>2. PICK l : l = LastOf(a)
    OBVIOUS
  <2>3. PICK p \in Nat, q \in Nat : p = Replied(L \o s, l) /\ q = Replied(t, l) /\ Replied(L \o u, l) = p + q
    BY <1>3, RepliedMore
  <2>4. f.next \in DOMAIN SubAgents[a] /\ x = SubAgents[a][f.next] /\ f.at = "wait"
    BY <1>1, <2>1 DEF Called
  <2>5. PICK n \in Nat : n = Len(SubAgents[a]) /\ DOMAIN SubAgents[a] = 1 .. n /\ l = SubAgents[a][n] /\ f.next <= n
    BY <2>1, <2>2, <2>4, SubAgentFacts, LastIs
  <2>6. p <= f.looped
    <3>1. ~(f.next > Len(SubAgents[a]))
      BY <1>1, <2>5
    <3> QED  BY <1>2, <1>4, <2>2, <2>3, <2>4, <3>1 DEF Limited, Tally
  <2>7. Within(Range(t), x) /\ (x \in Leaves => Len(t) = 1)
    BY <1>1, <1>2 DEF Good, Mine, Limited, Single
  <2>8. (x # l => q = 0) /\ (x = l => q <= 1)
    BY <1>4, <2>2, <2>3, <2>7, JoinedReplies
  <2>9. CASE f.next = n
    <3>1. x = l /\ g.next > Len(SubAgents[a])
      BY <1>1, <2>1, <2>4, <2>5, <2>9
    <3>2. q <= 1
      BY <2>8, <3>1
    <3> QED  BY <1>1, <2>1, <2>2, <2>3, <2>6, <3>1, <3>2
  <2>10. CASE f.next # n
    <3>1. x # l
      BY <2>1, <2>4, <2>5, <2>10, SubAgentFacts
    <3>2. ~(g.next > Len(SubAgents[a]))
      BY <1>1, <2>1, <2>5, <2>10
    <3> QED  BY <1>1, <2>2, <2>3, <2>6, <2>8, <3>1, <3>2
  <2> QED  BY <2>9, <2>10
<1>5. Tally(L, a, g)
  BY <1>3, <1>4 DEF Tally
<1>6. Tallies(L, a, g.events)
  BY <1>2, <1>3
<1>7. g.at # "done"
  BY <1>1
<1> QED  BY <1>5, <1>6, <1>7 DEF Limited, Final, Single

LEMMA StopsLimited ==
    ASSUME NEW L \in Seq(Events), NEW a \in AgentNames, NEW x \in Range(SubAgents[a]), NEW f, NEW h, NEW g,
           IsFrame(a, f), IsFrame(x, h), Good(L, x, h), Called(a, f, x), Better(L, a, f),
           Limited(L, a, f), Limited(L, x, h), Stops(a, f, h, g)
    PROVE  Limited(L, a, g)
<1>1. /\ a \in Composites /\ a \notin Parallels /\ f.at = "wait" /\ g.at = "done" /\ h.at = "done"
      /\ Pauses(h.events) /\ g.events = (f.events \o h.events) \o AfterSaid(a) /\ f.next \in Nat
      /\ a \notin Leaves /\ f.looped \in Nat
  BY CompositeKinds DEF Stops, IsFrame
<1>2. PICK s \in Seq(Events), t \in Seq(Events) :
            s = f.events /\ t = h.events /\ Tallies(L, a, s \o t)
  BY <1>1, JoinedTallies
<1>3. PICK r \in Seq(Events) : r = AfterSaid(a) /\ \A e \in Range(r) : e.by = a /\ e.kind = "say"
  BY AfterSaidIs
<1>4. PICK u : u = s \o t /\ Joining(u, s, t) /\ Tallies(L, a, u)
  BY <1>2 DEF Joining
<1>5. PICK v : v = g.events /\ Joining(v, u, r)
  BY <1>1, <1>2, <1>3, <1>4, ConcatIs DEF Joining
<1>6. OwnOnly(r, a) /\ u \in Seq(Events)
  BY <1>3, <1>4, JoiningIs DEF OwnOnly
<1>7. Tallies(L, a, v)
  BY <1>4, <1>5, <1>6, OwnTallies
<1>8. Replied(L \o v, LastOf(a)) = Replied(L \o u, LastOf(a))
  <2>1. Joining(v, u, r) /\ OwnOnly(r, a) /\ Tallies(L, a, u) /\ a \in Composites /\ u \in Seq(Events)
    BY <1>1, <1>4, <1>5, <1>6
  <2> QED  BY <2>1, OwnTallies
<1>9. ASSUME a \in Counted PROVE Passes(L \o v, a)
  <2>1. PICK l : l = LastOf(a)
    OBVIOUS
  <2>2. Within(Range(t), x) /\ (x \in Leaves => Len(t) = 1)
    BY <1>1, <1>2 DEF Good, Mine, Limited, Single
  <2>3. Replied(t, l) = 0
    BY <1>1, <1>2, <1>9, <2>1, <2>2, JoinedReplies
  <2>4. PICK p \in Nat : p = Replied(L \o s, l) /\ Replied(L \o u, l) = p
    <3>1. Replied(L \o u, l) = Replied(L \o s, l) + Replied(t, l) /\ Replied(L \o s, l) \in Nat
      BY <1>4, RepliedMore
    <3> QED  BY <2>3, <3>1
  <2>5. p <= f.looped
    <3>1. f.next \in DOMAIN SubAgents[a]
      BY <1>1 DEF Called
    <3>2. ~(f.next > Len(SubAgents[a]))
      BY <1>1, <3>1, SubAgentFacts
    <3> QED  BY <1>1, <1>2, <1>9, <2>1, <2>4, <3>2 DEF Limited, Tally
  <2>6. Latest(L \o v, a, Marks) = Latest(L \o s, a, Marks)
    <3>1. a \notin SubTree(x)
      BY <1>1, ParentNotBelow
    <3>2. \A e \in Range(t) : ~(e.by = a /\ e.kind \in Marks)
      BY <2>2, <3>1 DEF Within
    <3>3. \A e \in Range(r) : ~(e.by = a /\ e.kind \in Marks)
      BY <1>3 DEF Marks
    <3>4. Latest(L \o u, a, Marks) = Latest(L \o s, a, Marks)
      BY <1>4, <3>2, LatestMore
    <3>5. Latest(L \o v, a, Marks) = Latest(L \o u, a, Marks)
      BY <1>5, <3>3, LatestMore
    <3> QED  BY <3>4, <3>5
  <2>7. Latest(L \o s, a, Marks) = Marker(a, State(SubAgents[a][f.next], f.looped))
    <3>1. a \in Loops
      BY <1>9, CountedIs
    <3> QED  BY <1>1, <1>2, <3>1 DEF Better, AtMark
  <2>8. Latest(L \o v, a, Marks).kind = "state" /\ Latest(L \o v, a, Marks).at.looped = f.looped
    BY <2>6, <2>7 DEF Marker, Event, State
  <2> QED  BY <1>8, <2>1, <2>4, <2>5, <2>8 DEF Passes
<1>10. Final(L, a, g)
  BY <1>5, <1>9 DEF Final
<1> QED  BY <1>1, <1>5, <1>7, <1>10 DEF Limited, Tally, Single

LEMMA EndsLimited ==
    ASSUME NEW L \in Seq(Events), NEW a \in AgentNames, NEW f, NEW g,
           IsFrame(a, f), Good(L, a, f), Limited(L, a, f), Ends(a, f, g)
    PROVE  Limited(L, a, g)
<1>1. /\ a \in Composites /\ a \notin Leaves /\ g.at = "done"
      /\ g.events = (f.events \o <<EndMarker(a)>>) \o AfterSaid(a)
      /\ a \notin Parallels => f.at = "run"
      /\ f.looped \in Nat
  BY CompositeKinds DEF Ends, IsFrame
<1>2. PICK s \in Seq(Events) : s = f.events /\ Tallies(L, a, s)
  BY DEF IsFrame, Limited
<1>3. PICK e \in Events : e = EndMarker(a) /\ e.by = a /\ e.kind = "end"
  BY EmptyIsState, EventIsTyped DEF EndMarker, Event, Kinds
<1>4. PICK t \in Seq(Events) : t = <<e>> /\ Range(t) = {e} /\ DOMAIN t = {1} /\ t[1] = e
  BY OneEvent
<1>5. PICK r \in Seq(Events) : r = AfterSaid(a) /\ \A d \in Range(r) : d.by = a /\ d.kind = "say"
  BY AfterSaidIs
<1>6. PICK u : u = s \o t /\ Joining(u, s, t)
  BY DEF Joining
<1>7. PICK v : v = g.events /\ Joining(v, u, r)
  <2>1. u \in Seq(Events)
    BY <1>6, JoiningIs
  <2> QED  BY <1>1, <1>2, <1>3, <1>4, <1>5, <1>6, <2>1 DEF Joining
<1>8. OwnOnly(t, a) /\ OwnOnly(r, a) /\ u \in Seq(Events)
  BY <1>3, <1>4, <1>5, <1>6, JoiningIs DEF OwnOnly
<1>9. Tallies(L, a, u)
  BY <1>2, <1>6, <1>8, OwnTallies
<1>10. Tallies(L, a, v)
  BY <1>7, <1>8, <1>9, OwnTallies
<1>11. Replied(L \o u, LastOf(a)) = Replied(L \o s, LastOf(a))
  BY <1>1, <1>2, <1>6, <1>8, OwnTallies
<1>12. Replied(L \o v, LastOf(a)) = Replied(L \o u, LastOf(a))
  <2>1. Joining(v, u, r) /\ OwnOnly(r, a) /\ Tallies(L, a, u) /\ a \in Composites /\ u \in Seq(Events)
    BY <1>1, <1>7, <1>8, <1>9
  <2> QED  BY <2>1, OwnTallies
<1>13. ASSUME a \in Counted PROVE Passes(L \o v, a)
  <2>1. PICK m \in Nat : m = MaxIterations[a] /\ f.looped < m /\ f.at = "run"
    BY <1>1, <1>13, CountedIs DEF Good, Counting
  <2>2. PICK p \in Nat : p = Replied(L \o s, LastOf(a))
    <3>1. PICK l : l = LastOf(a)
      OBVIOUS
    <3>2. Replied(L \o s, l) \in Nat
      BY <1>6, RepliedMore
    <3> QED  BY <3>1, <3>2
  <2>3. p <= m
    <3>1. p <= f.looped \/ p <= f.looped + 1
      BY <1>2, <1>13, <2>1, <2>2 DEF Limited, Tally
    <3> QED  BY <1>1, <2>1, <3>1
  <2>4. Latest(L \o v, a, Marks) = e
    <3>1. Latest(L \o u, a, Marks) = e
      <4>1. e.kind \in Marks
        BY <1>3 DEF Marks
      <4> QED  BY <1>3, <1>4, <1>6, <4>1, LatestEnd
    <3>2. \A d \in Range(r) : ~(d.by = a /\ d.kind \in Marks)
      BY <1>5 DEF Marks
    <3>3. Latest(L \o v, a, Marks) = Latest(L \o u, a, Marks)
      BY <1>7, <3>2, LatestMore
    <3> QED  BY <3>1, <3>3
  <2> QED  BY <1>3, <1>11, <1>12, <2>1, <2>2, <2>3, <2>4 DEF Passes
<1>14. Final(L, a, g)
  BY <1>7, <1>13 DEF Final
<1> QED  BY <1>1, <1>7, <1>10, <1>14 DEF Limited, Tally, Single

LEMMA PassesOnLimited ==
    ASSUME NEW L \in Seq(Events), NEW a \in AgentNames, NEW f, NEW g, IsFrame(a, f), Limited(L, a, f),
           PassesOn(a, f, g)
    PROVE  Limited(L, a, g)
<1>1. /\ f.at = "run" /\ g.at = "run" /\ f.next > Len(SubAgents[a]) /\ g.events = f.events
      /\ g.looped = f.looped + 1 /\ g.next = 1 /\ a \in Composites
  BY CompositeKinds DEF PassesOn
<1>2. ~(g.next > Len(SubAgents[a]))
  BY <1>1, SubAgentFacts
<1>3. Tally(L, a, g)
  BY <1>1, <1>2 DEF Limited, Tally
<1> QED  BY <1>1, <1>3 DEF Limited, Final, Single

LEMMA FinishesLimited ==
    ASSUME AfterOnSequences, NEW L \in Seq(Events), NEW a \in AgentNames, NEW f, NEW g, IsFrame(a, f),
           Limited(L, a, f), Finishes(a, f, g)
    PROVE  Limited(L, a, g)
<1>1. /\ a \in Parallels /\ a \notin Leaves /\ g.at = "done" /\ g.events = f.events \o AfterSaid(a)
      /\ a \notin Sequentials
  BY CompositeKinds DEF Finishes
<1>2. g.events = f.events
  <2>1. AfterSaid(a) = <<>>
    BY <1>1, AfterSaidIs DEF AfterOnSequences
  <2>2. PICK s \in Seq(Events) : s = f.events
    BY DEF IsFrame
  <2>3. s \o <<>> = s
    OBVIOUS
  <2> QED  BY <1>1, <2>1, <2>2, <2>3
<1>3. a \notin Counted
  BY <1>1, CountedIs
<1> QED  BY <1>1, <1>2, <1>3 DEF Limited, Tally, Final, Single

LEMMA RepliesLimited ==
    ASSUME AfterOnSequences, NEW L \in Seq(Events), NEW a \in AgentNames, NEW f, NEW g, IsFrame(a, f),
           Good(L, a, f), Replies(a, f, g)
    PROVE  Limited(L, a, g)
<1>1. a \in Leaves /\ f.at = "run" /\ g.at = "done"
  BY DEF Replies
<1>2. a \notin Composites /\ a \notin Sequentials /\ a \notin Loops /\ SubTree(a) = {a} /\ a \notin Counted
  BY <1>1, CompositeKinds, LeavesHaveNone, CountedIs
<1>3. PICK es \in Seq(Events) : es = f.events /\ es = <<>>
  BY <1>1, <1>2, NoEvents DEF Good, Idle
<1>4. PICK k \in {"say", "write", "ask", "escalate"} :
            g.events = (f.events \o <<Event(a, k, Empty)>>) \o AfterSaid(a)
  BY DEF Replies
<1>5. PICK e \in Events : e = Event(a, k, Empty)
  BY EmptyIsState, EventIsTyped DEF Event, Kinds
<1>6. PICK s \in Seq(Events) : s = <<e>> /\ Len(s) = 1
  BY OneEvent
<1>7. g.events = s
  <2>1. AfterSaid(a) = <<>>
    BY <1>2, AfterSaidIs DEF AfterOnSequences
  <2>2. <<>> \o s = s /\ s \o <<>> = s
    OBVIOUS
  <2> QED  BY <1>3, <1>4, <1>5, <1>6, <2>1, <2>2
<1> QED  BY <1>2, <1>6, <1>7 DEF Limited, Tallies, Tally, Final, Single

LEMMA FailsLimited ==
    ASSUME NEW L \in Seq(Events), NEW a \in AgentNames, NEW f, NEW g, Limited(L, a, f), Fails(a, f, g)
    PROVE  Limited(L, a, g)
<1>1. g.at = "failed" /\ g.events = f.events
  BY DEF Fails
<1> QED  BY <1>1 DEF Limited, Tally, Final, Single

(* The count over the whole tree, turn after turn.                         *)
FramesLimited == \A x \in DOMAIN frames : Limited(log, x, frames[x])
Counts == FramesLimited /\ AllPasses(log, Root) /\ Within(Range(log), Root)

LEMMA StepLimited ==
    ASSUME AfterOnSequences, log \in Seq(Events), AllFrames, TreeOK, LiveOK, FramesGood, FramesBetter,
           FramesLimited, NEW a \in AgentNames, NEW g, NEW D, NEW E, Changes(a, g, D, E),
           Step(a, frames[a], g, D, E), IsFrame(a, g)
    PROVE  Limited(log, a, g)
<1>1. PICK f : f = frames[a]
  OBVIOUS
<1>2. /\ a \in DOMAIN frames /\ Step(a, f, g, D, E) /\ IsFrame(a, f) /\ Good(log, a, f)
      /\ Better(log, a, f) /\ Limited(log, a, f)
  BY <1>1 DEF Changes, AllFrames, FramesGood, FramesBetter, FramesLimited
<1>3. CASE Calls(a, f, g)
  BY <1>2, <1>3, CallsLimited
<1>4. ASSUME NEW x \in Range(SubAgents[a]) \cap DOMAIN frames,
             Takes(a, f, frames[x], g) \/ Stops(a, f, frames[x], g)
      PROVE  Limited(log, a, g)
  <2>1. PICK h : h = frames[x] /\ IsFrame(x, h) /\ Good(log, x, h) /\ Limited(log, x, h)
    BY DEF AllFrames, FramesGood, FramesLimited
  <2>2. a \in Composites
    BY <1>4 DEF Takes, Stops
  <2>3. Called(a, f, x)
    BY <1>1, <1>2, <2>2, CalledIs
  <2>4. CASE Takes(a, f, h, g)
    BY <1>2, <2>1, <2>3, <2>4, TakesLimited
  <2>5. CASE Stops(a, f, h, g)
    BY <1>2, <2>1, <2>3, <2>5, StopsLimited
  <2> QED  BY <1>4, <2>1, <2>4, <2>5
<1>5. CASE Ends(a, f, g)
  BY <1>2, <1>5, EndsLimited
<1>6. CASE PassesOn(a, f, g)
  BY <1>2, <1>6, PassesOnLimited
<1>7. CASE Finishes(a, f, g)
  BY <1>2, <1>7, FinishesLimited
<1>8. CASE Replies(a, f, g)
  BY <1>2, <1>8, RepliesLimited
<1>9. CASE Fails(a, f, g)
  BY <1>2, <1>9, FailsLimited
<1> QED  BY <1>2, <1>3, <1>4, <1>5, <1>6, <1>7, <1>8, <1>9 DEF Step

LEMMA CallLimits ==
    ASSUME AfterOnSequences, log \in Seq(Events), Grounded({}, log), AllPasses(log, Root),
           NEW a \in Composites, a \in SubTree(Root), NEW g, IsFrame(a, g), Good(log, a, g), Better(log, a, g),
           g.at \in {"wait", "join"}, NEW x \in Range(SubAgents[a]),
           a \in Parallels => x \notin g.ended,
           a \notin Parallels => g.at = "wait" /\ g.next \in DOMAIN SubAgents[a] /\ x = SubAgents[a][g.next],
           NEW k, k = Entered(x, g)
    PROVE  Limited(log, x, k)
<1>1. x \in AgentNames /\ Carried(log, Above(x), g)
  BY Children, AboveAChild, CompositeKinds DEF Good
<1>2. OutsideLoops(x) => Knows(log, x, g)
  BY CalledKnown
<1>3. OutsideLoops(x) /\ x \in Composites => LatestKind(log, x) # "end"
  BY CalledKnown
<1>4. AllPasses(log, x)
  <2>1. SubTree(x) \subseteq Descendants(a) /\ SubTree(a) \subseteq SubTree(Root)
    BY ParentNotBelow, RootAlone, NotBelowOwn
  <2> QED  BY <2>1 DEF AllPasses, SubTree
<1> QED  BY <1>1, <1>2, <1>3, <1>4, EnteredLimited

LEMMA StepCounts ==
    ASSUME AfterOnSequences, Inductive, Lasts, Counts, NEW a \in AgentNames, Shape(a)
    PROVE  Counts'
<1>1. log \in Seq(Events) /\ Grounded({}, log) /\ AllFrames /\ TreeOK /\ LiveOK /\ FramesGood
      /\ FramesBetter /\ Rooted /\ FramesLimited /\ AllPasses(log, Root) /\ Within(Range(log), Root)
  BY DEF Inductive, TypeInv, Lasts, Counts
<1>2. PICK g, D, E : Changes(a, g, D, E) /\ Step(a, frames[a], g, D, E) /\ IsFrame(a, g)
  BY DEF Shape
<1>3. PICK f : f = frames[a]
  OBVIOUS
<1>4. /\ a \in DOMAIN frames /\ DOMAIN frames' = ((DOMAIN frames \ D) \cup {a}) \cup E /\ frames'[a] = g
      /\ \A y \in DOMAIN frames' : y # a /\ y \notin E => y \in DOMAIN frames /\ frames'[y] = frames[y]
      /\ \A y \in E : frames'[y] = Entered(y, g)
      /\ Step(a, f, g, D, E) /\ IsFrame(a, f) /\ UNCHANGED <<log, turn, outcome>>
  BY <1>1, <1>2, <1>3 DEF Changes, AllFrames
<1>5. Better(log, a, g) /\ Good(log, a, g) /\ Limited(log, a, g)
  BY <1>1, <1>2, StepBetter, StepGood, StepLimited
<1>6. a \in SubTree(Root)
  BY <1>1, <1>4 DEF Rooted
<1>7. ASSUME NEW x \in E PROVE Limited(log, x, frames'[x])
  <2>1. /\ a \in Composites /\ f.at = "run" /\ x \in Range(SubAgents[a]) /\ Calls(a, f, g)
        /\ a \in Parallels => g.at = "join" /\ x \notin g.ended
        /\ a \notin Parallels => /\ g.at = "wait" /\ g.next \in DOMAIN SubAgents[a]
                                 /\ x = SubAgents[a][g.next]
    BY <1>4, <1>7, StepEntering
  <2>2. PICK k : k = Entered(x, g)
    OBVIOUS
  <2>3. Limited(log, x, k)
    BY <1>1, <1>2, <1>5, <1>6, <2>1, <2>2, CallLimits
  <2> QED  BY <1>4, <1>7, <2>2, <2>3
<1>8. ASSUME NEW x \in DOMAIN frames' PROVE Limited(log, x, frames'[x])
  <2>1. CASE x \in E
    BY <1>7, <2>1
  <2>2. CASE x = a /\ x \notin E
    BY <1>4, <1>5, <2>2
  <2>3. CASE x # a /\ x \notin E
    <3>1. x \in DOMAIN frames /\ frames'[x] = frames[x]
      BY <1>4, <2>3
    <3> QED  BY <1>1, <3>1 DEF FramesLimited
  <2> QED  BY <2>1, <2>2, <2>3
<1>9. FramesLimited'
  BY <1>4, <1>8 DEF FramesLimited
<1> QED  BY <1>1, <1>4, <1>9 DEF Counts

LEMMA StartCounts ==
    ASSUME AfterOnSequences, Inductive, Lasts, Counts, StartTurn
    PROVE  Counts'
<1>1. /\ log \in Seq(Events) /\ Grounded({}, log) /\ Recorded /\ AllPasses(log, Root)
      /\ Within(Range(log), Root)
  BY DEF Inductive, TypeInv, Lasts, Counts
<1>2. PICK c, g : /\ c.states = Populated(log).states /\ c.ended = Populated(log).ended
                  /\ IsContext(c) /\ \A A : Carried(log, A, c)
                  /\ g = Entered(Root, c) /\ DOMAIN frames' = {Root} /\ frames'[Root] = g
                  /\ UNCHANGED <<log, outcome>>
  BY <1>1, StartedIs
<1>3. Root \in AgentNames /\ Carried(log, Above(Root), c)
  BY <1>2, RootAlone
<1>4. Knows(log, Root, c)
  BY <1>2 DEF Knows
<1>5. Root \in Composites => LatestKind(log, Root) # "end"
  <2>1. Unfinished
    BY DEF StartTurn, Unfinished
  <2> QED  BY <1>1, <2>1, NotKnownAsEnded DEF Recorded
<1>6. Limited(log, Root, g)
  BY <1>1, <1>2, <1>3, <1>4, <1>5, EnteredLimited
<1> QED  BY <1>1, <1>2, <1>6 DEF Counts, FramesLimited

LEMMA InitCounts ==
    ASSUME Init
    PROVE  Counts
<1>1. PICK L \in Seq(Events) : L = log /\ Range(L) = {}
  BY NoEvents DEF Init
<1>2. ASSUME NEW c \in Counted PROVE Passes(L, c)
  <2>1. PICK l : l = LastOf(c)
    OBVIOUS
  <2>2. Replied(L, l) = 0
    BY <1>1, RepliedNone
  <2>3. Latest(L, c, Marks) = NoEvent
    BY <1>1, LatestNone
  <2> QED  BY <2>1, <2>2, <2>3, NoEventIs DEF Passes
<1>3. DOMAIN frames = {}
  BY EmptyFacts DEF Init
<1> QED  BY <1>1, <1>2, <1>3 DEF Counts, AllPasses, FramesLimited, Within

LEMMA EndCounts ==
    ASSUME Inductive, Counts, EndTurn
    PROVE  Counts'
<1>1. log \in Seq(Events) /\ FramesLimited /\ AllPasses(log, Root) /\ Within(Range(log), Root)
  BY DEF Inductive, TypeInv, Counts
<1>2. PICK f : f = frames[Root]
  OBVIOUS
<1>3. PICK s \in Seq(Events) : s = f.events /\ Within(Range(s), Root)
  BY <1>2, EndedLog DEF IsFrame, Good, Mine
<1>4. PICK L \in Seq(Events) : L = log
  BY <1>1
<1>5. /\ frames' = <<>> /\ Root \in DOMAIN frames
      /\ log' = L \/ (f.at = "done" /\ log' = L \o s)
  BY <1>2, <1>3, <1>4, EndedLog
<1>6. Limited(L, Root, f)
  BY <1>1, <1>2, <1>4, <1>5 DEF FramesLimited
<1>7. AllPasses(log', Root) /\ Within(Range(log'), Root)
  <2>1. CASE log' = L
    BY <1>1, <1>4, <2>1
  <2>2. CASE f.at = "done" /\ log' = L \o s
    <3>1. PICK N : N = L \o s
      OBVIOUS
    <3>2. Range(N) = Range(L) \cup Range(s)
      BY <3>1, ConcatRange
    <3>3. AllPasses(N, Root)
      BY <1>3, <1>6, <2>2, <3>1 DEF Limited, Tallies, Final, AllPasses
    <3> QED  BY <1>1, <1>3, <1>4, <2>2, <3>1, <3>2, <3>3 DEF Within
  <2> QED  BY <1>5, <2>1, <2>2
<1>8. DOMAIN frames' = {}
  BY <1>5, EmptyFacts
<1> QED  BY <1>7, <1>8 DEF Counts, FramesLimited

LEMMA CountsStep ==
    ASSUME AfterOnSequences, Inductive, Lasts, Counts, [Next]_vars
    PROVE  Counts'
<1>1. CASE StartTurn
  BY <1>1, StartCounts
<1>2. CASE EndTurn
  BY <1>2, EndCounts
<1>3. ASSUME NEW a \in AgentNames, AgentStep(a) PROVE Counts'
  <2>1. AllFrames
    BY DEF Inductive, TypeInv
  <2>2. Shape(a)
    BY <1>3, <2>1, ShapeOfStep
  <2> QED  BY <2>2, StepCounts
<1>4. CASE UNCHANGED vars
  BY <1>4 DEF vars, Counts, FramesLimited
<1> QED  BY <1>1, <1>2, <1>3, <1>4 DEF Next

LEMMA NoMorePasses ==
    ASSUME Inductive, Counts
    PROVE  PassesBounded
<1>1. log \in Seq(Events) /\ Grounded({}, log) /\ AllPasses(log, Root) /\ Within(Range(log), Root)
  BY DEF Inductive, TypeInv, Counts
<1>2. ASSUME NEW a \in Counted PROVE Replied(log, LastOf(a)) <= MaxIterations[a]
  <2>1. PICK n \in Nat : n = MaxIterations[a] /\ a \in Composites /\ a \in Loops /\ a \in AgentNames
    BY CountedIs
  <2>2. PICK l \in Range(SubAgents[a]) : l = LastOf(a)
    BY <2>1, LastIs
  <2>3. CASE a \in SubTree(Root)
    <3>1. PICK p \in Nat : p = Replied(log, l)
      BY <1>1, RepliesFinite
    <3>2. Passes(log, a)
      BY <1>1, <2>3 DEF AllPasses
    <3>3. PICK m : m = Latest(log, a, Marks)
      OBVIOUS
    <3>4. \/ m = NoEvent
          \/ m \in Range(log) /\ m \in Events /\ m.by = a /\ m.kind \in Marks
      BY <1>1, <3>3, LatestCases
    <3>5. CASE m = NoEvent
      BY <2>1, <2>2, <3>1, <3>2, <3>3, <3>5, NoEventIs DEF Passes
    <3>6. CASE m.kind = "end"
      BY <2>1, <2>2, <3>1, <3>2, <3>3, <3>6 DEF Passes
    <3>7. CASE m \in Range(log) /\ m \in Events /\ m.by = a /\ m.kind = "state"
      <4>1. GroundedEvent({} \cup Range(log), m)
        BY <1>1, <3>7, GroundedInRange
      <4>2. PICK k \in Nat : k = m.at.looped /\ k < n
        BY <2>1, <3>7, <4>1 DEF GroundedEvent, Events, AgentState
      <4>3. p <= k
        BY <2>2, <3>1, <3>2, <3>3, <3>7, <4>2 DEF Passes
      <4> QED  BY <2>1, <2>2, <3>1, <4>2, <4>3
    <3> QED  BY <3>4, <3>5, <3>6, <3>7 DEF Marks
  <2>4. CASE a \notin SubTree(Root)
    <3>1. l \notin SubTree(Root)
      <4>1. l # Root
        BY <2>1, AgentTree
      <4>2. l \notin Descendants(Root)
        BY <2>1, <2>4, ParentBetween, RootAlone DEF SubTree
      <4> QED  BY <4>1, <4>2 DEF SubTree
    <3>2. Replied(log, l) = 0
      BY <1>1, <3>1, RepliedNone DEF Within
    <3> QED  BY <2>1, <2>2, <3>2
  <2> QED  BY <2>3, <2>4
<1>3. SUFFICES ASSUME NEW a \in Loops, OutsideLoops(a), NEW l \in Leaves, l = Last(SubAgents[a])
               PROVE  Cardinality({i \in DOMAIN log : log[i].by = l /\ log[i].kind # "ask"})
                         <= MaxIterations[a]
  BY DEF PassesBounded
<1>4. a \in Counted /\ l = LastOf(a)
  BY <1>3 DEF Counted, LastOf
<1>5. Replied(log, l) <= MaxIterations[a]
  BY <1>2, <1>4
<1> QED  BY <1>5 DEF Replied, AnswersIn

(* Whatever the pauses, a loop that is in no other loop makes at most      *)
(* max_iterations passes (loop_agent.rs, times_looped), under the same     *)
(* condition on the callbacks.                                             *)
THEOREM PassesAreBounded == ASSUME AfterOnSequences PROVE Spec => []PassesBounded
<1>1. Init => Lasts /\ Counts
  BY InitLasts, InitCounts
<1>2. Inductive /\ Inductive' /\ (Lasts /\ Counts) /\ [Next]_vars => (Lasts /\ Counts)'
  BY LastsStep, CountsStep
<1>3. Inductive /\ (Lasts /\ Counts) => PassesBounded
  BY NoMorePasses
<1> QED  BY <1>1, <1>2, <1>3, AlwaysInductive, PTL DEF Spec
=============================================================================
