-------------------------- MODULE DynamicNodesProofs --------------------------
(***************************************************************************)
(* Proofs about run_node and the scheduler, for all nodes, bodies and      *)
(* retries, and whatever a body does with the events it is returned.       *)
(***************************************************************************)
EXTENDS DynamicNodesProps, DataTheorems

-----------------------------------------------------------------------------
(* The shape of the state.                                                 *)

IsFrame(f) ==
    f \in [node : {f.node}, path : {f.path}, attempt : {f.attempt}, next : {f.next},
           ints : {f.ints}, out : {f.out}, events : {f.events}, fold : {f.fold},
           answers : {f.answers}, at : {f.at}]
IsEntry(e) == e \in [kind : {e.kind}, path : {e.path}, id : {e.id}]
IsRun(r) == r \in [status : {r.status}, ints : {r.ints}, out : {r.out}]

(* The task that a path, or the path in an interrupt's id, belongs to.     *)
Root(path) == path[1][1]
Asker(id) == Root(id[1])
Under(t, path) == path[1] = <<t, "1">>
OwnIds(t, ids) == \A id \in ids : Asker(id) = t
OwnEntry(t, e) ==
    /\ IsEntry(e) /\ e.kind # "answer"
    /\ e.kind = "int" => IsSeq(e.path) /\ e.path # <<>> /\ Under(t, e.path) /\ Under(t, e.id[1])
OwnEvents(t, s) == IsSeq(s) /\ \A e \in Range(s) : OwnEntry(t, e)
Saved(s) ==
    /\ IsSeq(s)
    /\ \A e \in Range(s) : e.kind = "int" => IsSeq(e.path) /\ e.path # <<>> /\ e.id[1][1] = e.path[1]

FrameOK(t, f) ==
    /\ IsFrame(f) /\ f.node \in DynNodes
    /\ f.attempt \in 1 .. MaxAttempts[f.node] /\ f.next \in Nat \ {0}
    /\ f.at \in {"body", "done", "failed"}
    /\ IsSeq(f.path) /\ f.path # <<>> /\ Under(t, f.path)
    /\ OwnIds(t, f.ints) /\ OwnEvents(t, f.events) /\ OwnEvents(t, f.fold)

Bottom(t) == stack[t][1]
Inner(t) == stack[t][2]

(* The path of a task's j-th call.                                         *)
Caller(t, j) == [node |-> t, path |-> TaskPath(t), next |-> j]
CallPath(t, j) == ChildPath(Caller(t, j))
Found(n, path) == Intercept(n, Recovered(path), RunOf(path), TRUE)

TurnOK == turn \in 0 .. MaxTurn /\ running \in BOOLEAN

StackOK ==
    /\ DOMAIN stack = Tasks /\ DOMAIN verdict = Tasks
    /\ \A t \in Tasks :
          /\ IsSeq(stack[t]) /\ Len(stack[t]) <= 2
          /\ \A d \in DOMAIN stack[t] : FrameOK(t, stack[t][d])
          /\ stack[t] # <<>> => Bottom(t).node = t /\ Bottom(t).path = TaskPath(t)

(* The one lock: who dispatches holds it, and so nothing nests deeper.     *)
Holds(t) == Len(stack[t]) = 2
Locked ==
    /\ \A t \in Tasks : Holds(t) => lock = <<t, 1>>
    /\ \A t \in Tasks : Len(stack[t]) = 2 => Bottom(t).at = "body"
    /\ lock # NoOwner => \E t \in Tasks : Holds(t)

(* A dispatched run is the one its caller is at, and one that had to run.  *)
DispatchedOK(t) ==
    /\ Bottom(t).next \in DOMAIN Calls[t]
    /\ Inner(t).path = CallPath(t, Bottom(t).next)
    /\ Inner(t).node = Calls[t][Bottom(t).next].node
    /\ Found(Inner(t).node, Inner(t).path).run
    /\ RunOf(Inner(t).path).status = "RUNNING"
InnerOK == \A t \in Tasks : Len(stack[t]) = 2 => DispatchedOK(t)

RunsOK ==
    \A p \in DOMAIN runs :
        /\ IsRun(runs[p])
        /\ runs[p].status \in {"INACTIVE", "RUNNING", "COMPLETED", "WAITING", "FAILED"}
        /\ OwnIds(Root(p), runs[p].ints)

(* A call that was interrupted is interrupted again however often the body *)
(* is retried, and the body can only end by way of it.                     *)
Sticky(t, j) == Found(Calls[t][j].node, CallPath(t, j)).ints # {}
NotPast(t, j) ==
    IF stack[t] = <<>> THEN verdict[t] \in {"waiting", "failed"}
    ELSE \/ Bottom(t).at = "failed" \/ Bottom(t).ints # {}
         \/ Bottom(t).at # "done" /\ Bottom(t).next <= j
Kept(t) == \E j \in DOMAIN Calls[t] : Sticky(t, j) /\ NotPast(t, j)
PendingOK == \A id \in pendingIds : Asker(id) \in Tasks /\ Kept(Asker(id))

Idle == ~running => pendingIds = {} /\ runs = <<>> /\ \A t \in Tasks : stack[t] = <<>>

SchedulerInv ==
    /\ TurnOK /\ StackOK /\ Locked /\ InnerOK /\ RunsOK /\ PendingOK /\ Idle
    /\ Saved(log) /\ Saved(events)

-----------------------------------------------------------------------------
(* Frames and entries.                                                     *)

LEMMA NodeFacts ==
    ASSUME NEW n \in DynNodes
    PROVE  /\ IsSeq(Calls[n]) /\ Len(Calls[n]) \in Nat /\ DOMAIN Calls[n] = 1 .. Len(Calls[n])
           /\ \A j \in DOMAIN Calls[n] : Calls[n][j].node \in DynNodes
           /\ MaxAttempts[n] \in Nat \ {0}
<1>1. Calls[n] \in Seq([node : Dynamic, id : STRING]) /\ MaxAttempts[n] \in Nat \ {0}
  BY DynConstants
<1>2. PICK c, K : c = Calls[n] /\ K = [node : Dynamic, id : STRING]
  OBVIOUS
<1>3. c \in Seq(K)
  BY <1>1, <1>2
<1>4. IsSeq(c) /\ Len(c) \in Nat /\ DOMAIN c = 1 .. Len(c) /\ \A j \in DOMAIN c : c[j] \in K
  BY <1>3 DEF IsSeq
<1> QED  BY <1>1, <1>2, <1>4 DEF DynNodes

LEMMA UnderRoot == ASSUME NEW t, NEW p, Under(t, p) PROVE Root(p) = t
BY DEF Under, Root

LEMMA NoEvents == ASSUME NEW t PROVE OwnEvents(t, <<>>)
BY EmptyFacts DEF OwnEvents

LEMMA FrameIsOK ==
    ASSUME NEW t, NEW n \in DynNodes, NEW path, IsSeq(path), path # <<>>, Under(t, path),
           NEW answers, NEW f, f = Frame(n, path, answers)
    PROVE  /\ FrameOK(t, f) /\ f.node = n /\ f.path = path /\ f.at = "body" /\ f.next = 1
           /\ f.ints = {}
<1>1. /\ f.node = n /\ f.path = path /\ f.at = "body" /\ f.next = 1 /\ f.attempt = 1
      /\ f.ints = {} /\ f.events = <<>> /\ f.fold = <<>>
  BY DEF Frame
<1>2. IsFrame(f)
  BY DEF Frame, IsFrame
<1>3. f.attempt \in 1 .. MaxAttempts[f.node]
  BY <1>1, NodeFacts
<1>4. OwnIds(t, f.ints) /\ OwnEvents(t, f.events) /\ OwnEvents(t, f.fold)
  BY <1>1, NoEvents DEF OwnIds
<1> QED  BY <1>1, <1>2, <1>3, <1>4 DEF FrameOK

(* A failed attempt is the last one, or the next one starts all over.      *)
LEMMA ErroredFacts ==
    ASSUME NEW t, NEW f, FrameOK(t, f), NEW error, NEW g, g = Errored(f, error)
    PROVE  /\ FrameOK(t, g) /\ g.node = f.node /\ g.path = f.path
           /\ g.at = "failed" \/ (g.at = "body" /\ g.next = 1)
<1>1. PICK noted : noted = [f EXCEPT !.events = Append(@, Entry("err", f.path, <<>>))]
  OBVIOUS
<1>2. PICK e, s : e = Entry("err", f.path, <<>>) /\ s = Append(f.events, e)
  OBVIOUS
<1>3. OwnEvents(t, s)
  <2>1. PICK y : y = f.events
    OBVIOUS
  <2>2. OwnEvents(t, y) /\ s = Append(y, e)
    BY <1>2, <2>1 DEF FrameOK
  <2>3. IsSeq(s) /\ Range(s) = Range(y) \cup {e}
    BY <2>2, AppendFacts DEF OwnEvents
  <2>4. IsEntry(e) /\ e.kind # "int" /\ e.kind # "answer"
    BY <1>2 DEF Entry, IsEntry
  <2> QED  BY <2>2, <2>3, <2>4 DEF OwnEvents, OwnEntry
<1>4. /\ IsFrame(noted) /\ noted.node = f.node /\ noted.path = f.path /\ noted.attempt = f.attempt
      /\ noted.ints = f.ints /\ noted.fold = f.fold /\ noted.events = s
  BY <1>1, <1>2 DEF FrameOK, IsFrame
<1>5. CASE ShouldRetry(f.node, f.attempt, error)
  <2>1. g = [noted EXCEPT !.attempt = @ + 1, !.next = 1, !.ints = {}, !.out = FALSE,
                          !.fold = <<>>, !.at = "body"]
    BY <1>1, <1>5 DEF Errored
  <2>2. /\ IsFrame(g) /\ g.node = f.node /\ g.path = f.path /\ g.attempt = f.attempt + 1
        /\ g.next = 1 /\ g.ints = {} /\ g.fold = <<>> /\ g.at = "body" /\ g.events = s
    <3>1. DOMAIN noted = {"node", "path", "attempt", "next", "ints", "out", "events", "fold", "answers", "at"}
      BY <1>4 DEF IsFrame
    <3>2. /\ g.node = f.node /\ g.path = f.path /\ g.attempt = f.attempt + 1
          /\ g.next = 1 /\ g.ints = {} /\ g.fold = <<>> /\ g.at = "body" /\ g.events = s
      BY <1>4, <2>1, <3>1
    <3>3. IsFrame(g)
      <4> DEFINE A == {noted.attempt, noted.attempt + 1}
                 X == {noted.next, 1}
                 I == {noted.ints, {}}
                 O == {noted.out, FALSE}
                 L == {noted.fold, <<>>}
                 T == {noted.at, "body"}
                 All == [node : {noted.node}, path : {noted.path}, attempt : A, next : X, ints : I,
                         out : O, events : {noted.events}, fold : L, answers : {noted.answers}, at : T]
      <4>1. noted \in All
        BY <1>4 DEF IsFrame
      <4>2. /\ noted.attempt + 1 \in A /\ 1 \in X /\ {} \in I /\ FALSE \in O /\ <<>> \in L
            /\ "body" \in T
        OBVIOUS
      <4> HIDE DEF A, X, I, O, L, T
      <4>3. g \in All
        BY <2>1, <4>1, <4>2
      <4> QED  BY <4>3 DEF IsFrame
    <3> QED  BY <3>2, <3>3
  <2>3. g.attempt \in 1 .. MaxAttempts[g.node]
    BY <1>5, <2>2, NodeFacts DEF FrameOK, ShouldRetry
  <2> QED  BY <1>3, <2>2, <2>3, NoEvents DEF FrameOK, OwnIds
<1>6. CASE ~ShouldRetry(f.node, f.attempt, error)
  <2>1. g = [noted EXCEPT !.at = "failed"]
    BY <1>1, <1>6 DEF Errored
  <2>2. /\ IsFrame(g) /\ g.node = f.node /\ g.path = f.path /\ g.attempt = f.attempt /\ g.next = f.next
        /\ g.ints = f.ints /\ g.fold = f.fold /\ g.at = "failed" /\ g.events = s
    BY <1>1, <1>4, <2>1 DEF IsFrame
  <2> QED  BY <1>3, <2>2 DEF FrameOK
<1> QED  BY <1>5, <1>6

LEMMA OwnConcat ==
    ASSUME NEW t, NEW x, NEW y, OwnEvents(t, x), OwnEvents(t, y)
    PROVE  OwnEvents(t, x \o y)
<1>1. IsSeq(x \o y) /\ Range(x \o y) = Range(x) \cup Range(y)
  BY ConcatFacts DEF OwnEvents
<1> QED  BY <1>1 DEF OwnEvents

LEMMA TrackedPart ==
    ASSUME NEW ys, IsSeq(ys), NEW k, k = Tracked(ys)
    PROVE  IsSeq(k) /\ Range(k) \subseteq Range(ys)
<1>1. CASE k = ys
  BY <1>1
<1>2. CASE k # ys
  <2>1. PICK S, m : S = Outputs(ys) /\ m = Min(S \ {Min(S)})
    OBVIOUS
  <2>2. k = SubSeq(ys, 1, m - 1) /\ ~(Cardinality(S) < 2)
    BY <1>2, <2>1 DEF Tracked
  <2>3. PICK X : ys \in Seq(X)
    BY DEF IsSeq
  <2>4. Len(ys) \in Nat /\ DOMAIN ys = 1 .. Len(ys)
    BY <2>3
  <2>5. S \subseteq 1 .. Len(ys)
    BY <2>1, <2>4 DEF Outputs
  <2>6. S \ {Min(S)} # {}
    <3>1. ASSUME S \ {Min(S)} = {} PROVE FALSE
      <4>1. PICK x : x = Min(S)
        OBVIOUS
      <4>2. S \subseteq {x}
        BY <3>1, <4>1
      <4>3. IsFiniteSet({x}) /\ Cardinality({x}) = 1
        BY FS_Singleton
      <4>4. IsFiniteSet(S) /\ Cardinality(S) <= Cardinality({x}) /\ Cardinality(S) \in Nat
        BY <4>2, <4>3, FS_Subset, FS_CardinalityType
      <4> QED  BY <2>2, <4>3, <4>4
    <3> QED  BY <3>1
  <2>7. m \in 1 .. Len(ys)
    <3>1. S \ {Min(S)} \in SUBSET Nat
      <4>1. S \subseteq Nat
        BY <2>4, <2>5
      <4> QED  BY <4>1, Zenon
    <3>2. m \in S \ {Min(S)}
      BY <2>1, <2>6, <3>1, MinOfNaturals
    <3> QED  BY <2>5, <3>2
  <2>8. /\ k \in Seq(X) /\ Len(k) = m - 1 /\ DOMAIN k = 1 .. m - 1
        /\ \A i \in 1 .. m - 1 : k[i] = ys[i]
    BY <2>2, <2>3, <2>4, <2>7
  <2>9. Range(k) \subseteq Range(ys)
    BY <2>4, <2>7, <2>8 DEF Range
  <2>10. IsSeq(k)
    BY <2>8 DEF IsSeq
  <2> QED  BY <2>9, <2>10
<1> QED  BY <1>1, <1>2

LEMMA TrackedOwn ==
    ASSUME NEW t, NEW ys, OwnEvents(t, ys), NEW k, k = Tracked(ys)
    PROVE  OwnEvents(t, k)
<1>1. IsSeq(k) /\ Range(k) \subseteq Range(ys)
  BY TrackedPart DEF OwnEvents
<1> QED  BY <1>1 DEF OwnEvents

LEMMA OwnOwn ==
    ASSUME NEW t, NEW f, FrameOK(t, f), NEW kinds, IsSeq(kinds), \A i \in DOMAIN kinds : kinds[i] # "answer"
    PROVE  OwnEvents(t, Own(f, kinds))
<1>1. PICK s : s = Own(f, kinds)
  OBVIOUS
<1> DEFINE entry(i) == Entry(kinds[i], f.path, IF kinds[i] = "int" THEN <<f.path, turn, f.attempt>> ELSE <<>>)
<1>2. s = [i \in DOMAIN kinds |-> entry(i)] /\ DOMAIN kinds = 1 .. Len(kinds) /\ Len(kinds) \in Nat
  BY <1>1, SeqFacts DEF Own
<1>3. \A i \in DOMAIN kinds : OwnEntry(t, entry(i))
  <2> SUFFICES ASSUME NEW i \in DOMAIN kinds PROVE OwnEntry(t, entry(i))
    OBVIOUS
  <2>1. IsEntry(entry(i)) /\ entry(i).kind = kinds[i] /\ entry(i).path = f.path
    BY DEF Entry, IsEntry
  <2>2. ASSUME kinds[i] = "int" PROVE entry(i).id[1] = f.path
    BY <2>2 DEF Entry
  <2> QED  BY <2>1, <2>2 DEF FrameOK, OwnEntry
<1> HIDE DEF entry
<1>4. s \in Seq({entry(i) : i \in DOMAIN kinds})
  BY <1>2
<1>5. Range(s) \subseteq {entry(i) : i \in DOMAIN kinds}
  BY <1>2 DEF Range
<1>6. IsSeq(s)
  BY <1>4 DEF IsSeq
<1> QED  BY <1>1, <1>3, <1>5, <1>6 DEF OwnEvents

(* The events of a call that a body folds into its own.                    *)
LEMMA FoldOwn ==
    ASSUME NEW t, NEW f, FrameOK(t, f), NEW s, s = [i \in DOMAIN f.fold |-> [f.fold[i] EXCEPT !.path = f.path]]
    PROVE  OwnEvents(t, s)
<1>1. PICK y : y = f.fold
  OBVIOUS
<1>2. OwnEvents(t, y) /\ IsSeq(y) /\ DOMAIN y = 1 .. Len(y) /\ Len(y) \in Nat
  BY <1>1, SeqFacts DEF FrameOK, OwnEvents
<1> DEFINE entry(i) == [y[i] EXCEPT !.path = f.path]
<1>3. \A i \in DOMAIN y : OwnEntry(t, entry(i))
  <2> SUFFICES ASSUME NEW i \in DOMAIN y PROVE OwnEntry(t, entry(i))
    OBVIOUS
  <2>1. y[i] \in Range(y)
    BY DEF Range
  <2>2. PICK e : e = y[i]
    OBVIOUS
  <2>3. IsEntry(e) /\ e.kind # "answer" /\ (e.kind = "int" => Under(t, e.id[1]))
        /\ entry(i) = [e EXCEPT !.path = f.path]
    BY <1>2, <2>1, <2>2 DEF OwnEvents, OwnEntry
  <2> HIDE DEF entry
  <2>4. IsEntry(entry(i)) /\ entry(i).kind = e.kind /\ entry(i).id = e.id /\ entry(i).path = f.path
    BY <2>3 DEF IsEntry
  <2> QED  BY <2>3, <2>4 DEF OwnEntry, FrameOK
<1>4. s = [i \in DOMAIN y |-> entry(i)]
  BY <1>1
<1> HIDE DEF entry
<1>5. s \in Seq({entry(i) : i \in DOMAIN y})
  BY <1>2, <1>4
<1>6. Range(s) \subseteq {entry(i) : i \in DOMAIN y}
  BY <1>4 DEF Range
<1>7. IsSeq(s)
  BY <1>5 DEF IsSeq
<1> QED  BY <1>3, <1>6, <1>7 DEF OwnEvents

(* The end of an attempt keeps the interrupts of the calls that were made. *)
LEMMA YieldsFacts ==
    ASSUME NEW t, NEW f, FrameOK(t, f), NEW kinds, IsSeq(kinds), \A i \in DOMAIN kinds : kinds[i] # "answer", NEW g, g = Yields(f, kinds)
    PROVE  /\ FrameOK(t, g) /\ g.node = f.node /\ g.path = f.path
           /\ \/ g.at = "failed" \/ (g.at = "body" /\ g.next = 1)
              \/ g.at = "done" /\ f.ints \subseteq g.ints
<1>1. PICK x, y, ys, kept :
        /\ x = [i \in DOMAIN f.fold |-> [f.fold[i] EXCEPT !.path = f.path]]
        /\ y = Own(f, kinds) /\ ys = x \o y /\ kept = Tracked(ys)
  OBVIOUS
<1>2. OwnEvents(t, x) /\ OwnEvents(t, y)
  BY <1>1, FoldOwn, OwnOwn
<1>3. OwnEvents(t, ys)
  BY <1>1, <1>2, OwnConcat
<1>4. OwnEvents(t, kept)
  BY <1>1, <1>3, TrackedOwn
<1>5. PICK evs, ints, o :
        /\ evs = f.events \o kept
        /\ ints = f.ints \cup {kept[i].id : i \in {j \in DOMAIN kept : kept[j].kind = "int"}}
        /\ o = (f.out \/ Outputs(kept) # {})
  OBVIOUS
<1>6. OwnEvents(t, evs)
  <2>1. PICK v : v = f.events
    OBVIOUS
  <2>2. OwnEvents(t, v) /\ evs = v \o kept
    BY <1>5, <2>1 DEF FrameOK
  <2> QED  BY <1>4, <2>2, OwnConcat
<1>7. OwnIds(t, ints) /\ f.ints \subseteq ints
  <2>1. \A i \in DOMAIN kept : kept[i].kind = "int" => Asker(kept[i].id) = t
    BY <1>4, UnderRoot DEF OwnEvents, OwnEntry, Range, Asker
  <2>2. OwnIds(t, f.ints)
    BY DEF FrameOK
  <2> QED  BY <1>5, <2>1, <2>2 DEF OwnIds
<1>8. PICK h : h = [f EXCEPT !.events = evs, !.out = o, !.ints = ints]
  OBVIOUS
<1>9. g = IF kept = ys THEN [h EXCEPT !.at = "done"] ELSE Errored(h, "NodeError")
  BY <1>1, <1>5, <1>8 DEF Yields
<1>10. /\ IsFrame(h) /\ h.node = f.node /\ h.path = f.path /\ h.attempt = f.attempt /\ h.next = f.next
       /\ h.at = f.at /\ h.fold = f.fold /\ h.events = evs /\ h.ints = ints
  BY <1>8 DEF FrameOK, IsFrame
<1>11. FrameOK(t, h)
  BY <1>6, <1>7, <1>10 DEF FrameOK
<1>12. CASE kept = ys
  <2>1. g = [h EXCEPT !.at = "done"]
    BY <1>9, <1>12
  <2>2. /\ IsFrame(g) /\ g.node = h.node /\ g.path = h.path /\ g.attempt = h.attempt /\ g.next = h.next
        /\ g.at = "done" /\ g.fold = h.fold /\ g.events = h.events /\ g.ints = h.ints
    BY <1>10, <2>1 DEF IsFrame
  <2>3. FrameOK(t, g)
    BY <1>11, <2>2 DEF FrameOK
  <2> QED  BY <1>7, <1>10, <2>2, <2>3
<1>13. CASE kept # ys
  <2>1. g = Errored(h, "NodeError")
    BY <1>9, <1>13
  <2>2. FrameOK(t, g) /\ g.node = h.node /\ g.path = h.path
        /\ (g.at = "failed" \/ (g.at = "body" /\ g.next = 1))
    BY <1>11, <2>1, ErroredFacts
  <2> QED  BY <1>10, <2>2
<1> QED  BY <1>12, <1>13

-----------------------------------------------------------------------------
(* The stacks of the tasks.                                                *)

LEMMA NotEmpty == ASSUME NEW s, Len(s) = 1 PROVE s # <<>>
<1>1. PICK e : e = <<>>
  OBVIOUS
<1>2. Len(e) = 0
  BY <1>1
<1>3. s # e
  BY <1>2
<1> QED  BY <1>1, <1>3

LEMMA StackFacts ==
    ASSUME StackOK, NEW t \in Tasks, stack[t] # <<>>
    PROVE  /\ Len(stack[t]) \in {1, 2} /\ DOMAIN stack[t] = 1 .. Len(stack[t])
           /\ Top(t) = stack[t][Len(stack[t])] /\ FrameOK(t, Top(t)) /\ FrameOK(t, Bottom(t))
           /\ Bottom(t).node = t /\ Bottom(t).path = TaskPath(t)
           /\ Len(stack[t]) = 1 => Top(t) = Bottom(t)
           /\ Len(stack[t]) = 2 => Top(t) = Inner(t)
<1>1. PICK s : s = stack[t]
  OBVIOUS
<1>2. IsSeq(s) /\ Len(s) <= 2 /\ s # <<>>
  BY <1>1 DEF StackOK
<1>3. Len(s) \in Nat /\ DOMAIN s = 1 .. Len(s) /\ (s = <<>> <=> Len(s) = 0)
  BY <1>2, SeqFacts
<1>4. Len(s) \in {1, 2} /\ 1 \in DOMAIN s /\ Len(s) \in DOMAIN s
  BY <1>2, <1>3
<1>5. Top(t) = s[Len(s)] /\ Bottom(t) = s[1] /\ Inner(t) = s[2]
  BY <1>1 DEF Top, Last, Bottom, Inner
<1>6. \A d \in DOMAIN s : FrameOK(t, s[d])
  BY <1>1 DEF StackOK
<1>7. FrameOK(t, Top(t)) /\ FrameOK(t, Bottom(t))
  BY <1>4, <1>5, <1>6
<1>8. Bottom(t).node = t /\ Bottom(t).path = TaskPath(t)
  BY DEF StackOK
<1> QED  BY <1>1, <1>3, <1>4, <1>5, <1>7, <1>8

LEMMA TaskPathFacts ==
    ASSUME NEW t
    PROVE  /\ IsSeq(TaskPath(t)) /\ TaskPath(t) # <<>> /\ Under(t, TaskPath(t))
           /\ Len(TaskPath(t)) = 1
<1>1. PICK x : x = <<t, "1">>
  OBVIOUS
<1>3. <<x>> \in Seq({x}) /\ <<x>> # <<>> /\ <<x>>[1] = x /\ Len(<<x>>) = 1
  OBVIOUS
<1>4. IsSeq(<<x>>)
  BY <1>3 DEF IsSeq
<1> QED  BY <1>1, <1>3, <1>4 DEF TaskPath, Under

(* The path of a call tells the task and the node called.                  *)
LEMMA CallPathFacts ==
    ASSUME NEW t \in Tasks, NEW j \in DOMAIN Calls[t]
    PROVE  /\ IsSeq(CallPath(t, j)) /\ CallPath(t, j) # <<>> /\ Under(t, CallPath(t, j))
           /\ Root(CallPath(t, j)) = t
           /\ CallPath(t, j)[2][1] = Calls[t][j].node
<1>1. PICK x, y, p : x = TaskPath(t) /\ y = <<Calls[t][j].node, RunId(Caller(t, j))>> /\ p = Append(x, y)
  OBVIOUS
<1>2. CallPath(t, j) = p
  BY <1>1 DEF CallPath, ChildPath, Caller, CallOf
<1>3. IsSeq(x) /\ Len(x) = 1 /\ Under(t, x)
  BY <1>1, TaskPathFacts
<1>4. IsSeq(p) /\ p # <<>>
  BY <1>1, <1>3, AppendFacts
<1>5. p[Len(x) + 1] = y /\ \A i \in DOMAIN x : p[i] = x[i]
  <2>1. p = Append(x, y) /\ IsSeq(x)
    BY <1>1, <1>3
  <2>2. p[Len(x) + 1] = y
    BY <2>1, AppendFacts
  <2>3. \A i \in DOMAIN x : p[i] = x[i]
    BY <2>1, AppendFacts
  <2> QED  BY <2>2, <2>3
<1>6. p[1] = x[1] /\ p[2] = y
  BY <1>3, <1>5, SeqFacts
<1>7. y[1] = Calls[t][j].node
  BY <1>1
<1>8. Under(t, p)
  BY <1>3, <1>6 DEF Under
<1> QED  BY <1>2, <1>4, <1>6, <1>7, <1>8, UnderRoot

LEMMA PathOfCaller ==
    ASSUME NEW t \in Tasks, NEW f, f.node = t, f.path = TaskPath(t)
    PROVE  ChildPath(f) = CallPath(t, f.next) /\ CallOf(f) = Calls[t][f.next]
BY DEF CallPath, ChildPath, CallOf, RunId, Caller

(* One stack becomes another, the others stay.                             *)
LEMMA StackStep ==
    ASSUME StackOK, NEW t \in Tasks, NEW s, stack' = [stack EXCEPT ![t] = s],
           IsSeq(s), Len(s) <= 2, \A d \in DOMAIN s : FrameOK(t, s[d]),
           s # <<>> => s[1].node = t /\ s[1].path = TaskPath(t),
           DOMAIN verdict' = Tasks
    PROVE  /\ StackOK' /\ stack'[t] = s /\ \A u \in Tasks : u # t => stack'[u] = stack[u]
<1>1. DOMAIN stack = Tasks
  BY DEF StackOK
<1>2. DOMAIN stack' = Tasks /\ stack'[t] = s /\ \A u \in Tasks : u # t => stack'[u] = stack[u]
  BY <1>1
<1>3. ASSUME NEW u \in Tasks
      PROVE  /\ IsSeq(stack'[u]) /\ Len(stack'[u]) <= 2
             /\ \A d \in DOMAIN stack'[u] : FrameOK(u, stack'[u][d])
             /\ stack'[u] # <<>> => stack'[u][1].node = u /\ stack'[u][1].path = TaskPath(u)
  <2>1. CASE u = t
    BY <1>2, <2>1
  <2>2. CASE u # t
    BY <1>2, <2>2 DEF StackOK, Bottom
  <2> QED  BY <2>1, <2>2
<1> QED  BY <1>2, <1>3 DEF StackOK, Bottom

(* The frame on top becomes another, of the same node.                     *)
LEMMA SetTopFacts ==
    ASSUME StackOK, NEW t \in Tasks, stack[t] # <<>>,
           NEW g, FrameOK(t, g), g.node = Top(t).node, g.path = Top(t).path, SetTop(t, g),
           DOMAIN verdict' = Tasks
    PROVE  /\ StackOK' /\ \A u \in Tasks : u # t => stack'[u] = stack[u]
           /\ stack'[t] # <<>> /\ Len(stack'[t]) = Len(stack[t])
           /\ Len(stack[t]) = 1 => Bottom(t)' = g
           /\ Len(stack[t]) = 2 => Bottom(t)' = Bottom(t) /\ Inner(t)' = g
<1>1. PICK s, u, n, w : s = stack[t] /\ u = Front(s) /\ n = Len(s) /\ w = Append(u, g)
  OBVIOUS
<1>2. n \in {1, 2} /\ DOMAIN s = 1 .. n /\ Top(t) = s[n] /\ IsSeq(s)
  BY <1>1, StackFacts DEF StackOK
<1>3. PICK X : s \in Seq(X)
  BY <1>2 DEF IsSeq
<1>4. /\ u \in Seq(X) /\ Len(u) = n - 1 /\ DOMAIN u = 1 .. n - 1
      /\ \A i \in 1 .. n - 1 : u[i] = s[i]
  BY <1>1, <1>2, <1>3 DEF Front
<1>5. IsSeq(u)
  BY <1>4 DEF IsSeq
<1>6. w = Append(u, g)
  BY <1>1
<1>7. /\ IsSeq(w) /\ w # <<>> /\ Len(w) = Len(u) + 1 /\ w[Len(u) + 1] = g
      /\ \A i \in DOMAIN u : w[i] = u[i]
      /\ DOMAIN w = DOMAIN u \cup {Len(u) + 1}
  <2>1. IsSeq(w) /\ w # <<>>
    BY <1>5, <1>6, AppendFacts
  <2>2. Len(w) = Len(u) + 1
    BY <1>5, <1>6, AppendFacts
  <2>3. w[Len(u) + 1] = g
    BY <1>5, <1>6, AppendFacts
  <2>4. \A i \in DOMAIN u : w[i] = u[i]
    BY <1>5, <1>6, AppendFacts
  <2>5. DOMAIN w = DOMAIN u \cup {Len(u) + 1}
    BY <1>5, <1>6, AppendFacts
  <2> QED  BY <2>1, <2>2, <2>3, <2>4, <2>5
<1>8. Len(w) = n /\ w[n] = g /\ (n = 2 => w[1] = s[1]) /\ DOMAIN w = 1 .. n
  BY <1>2, <1>4, <1>7
<1>9. \A d \in DOMAIN w : FrameOK(t, w[d])
  <2>1. \A d \in DOMAIN s : FrameOK(t, s[d])
    BY <1>1 DEF StackOK
  <2> QED  BY <1>2, <1>8, <2>1
<1>10. w[1].node = t /\ w[1].path = TaskPath(t)
  <2>1. s[1].node = t /\ s[1].path = TaskPath(t)
    BY <1>1 DEF StackOK, Bottom
  <2> QED  BY <1>2, <1>8, <2>1
<1>11. stack' = [stack EXCEPT ![t] = w]
  BY <1>1 DEF SetTop, StackOK
<1>12. Len(w) <= 2
  BY <1>2, <1>8
<1>13. StackOK' /\ stack'[t] = w /\ \A v \in Tasks : v # t => stack'[v] = stack[v]
  BY <1>7, <1>9, <1>10, <1>11, <1>12, StackStep
<1> QED  BY <1>1, <1>2, <1>7, <1>8, <1>13 DEF Bottom, Inner

-----------------------------------------------------------------------------
(* The scheduler's runs and what check_interception makes of them.         *)

LEMMA RunFacts ==
    ASSUME RunsOK, NEW p
    PROVE  /\ IsRun(RunOf(p)) /\ OwnIds(Root(p), RunOf(p).ints)
           /\ RunOf(p).status \in {"INACTIVE", "RUNNING", "COMPLETED", "WAITING", "FAILED"}
<1>1. CASE p \in DOMAIN runs
  BY <1>1 DEF RunOf, RunsOK
<1>2. CASE p \notin DOMAIN runs
  BY <1>2 DEF RunOf, NotRun, IsRun, OwnIds
<1> QED  BY <1>1, <1>2

LEMMA UpdateFacts ==
    ASSUME NEW path, NEW r, runs' = Update(path, r)
    PROVE  \A q : RunOf(q)' = IF q = path THEN r ELSE RunOf(q)
BY DEF Update, RunOf

LEMMA UpdateTyped ==
    ASSUME RunsOK, NEW path, NEW r, runs' = Update(path, r), IsRun(r), OwnIds(Root(path), r.ints),
           r.status \in {"INACTIVE", "RUNNING", "COMPLETED", "WAITING", "FAILED"}
    PROVE  RunsOK'
<1>1. DOMAIN runs' = DOMAIN runs \cup {path}
      /\ \A p \in DOMAIN runs' : runs'[p] = IF p = path THEN r ELSE runs[p]
  BY DEF Update
<1>2. ASSUME NEW p \in DOMAIN runs'
      PROVE  /\ IsRun(runs'[p]) /\ OwnIds(Root(p), runs'[p].ints)
             /\ runs'[p].status \in {"INACTIVE", "RUNNING", "COMPLETED", "WAITING", "FAILED"}
  <2>1. CASE p = path
    BY <1>1, <2>1
  <2>2. CASE p # path
    BY <1>1, <2>2 DEF RunsOK
  <2> QED  BY <2>1, <2>2
<1> QED  BY <1>2 DEF RunsOK

LEMMA InterceptFacts ==
    ASSUME NEW n, NEW rec, NEW cur, NEW i, i = Intercept(n, rec, cur, TRUE)
    PROVE  /\ i.run => i.ints = {}
           /\ i.ints # {} => i.ints = cur.ints \/ i.ints = rec.open
           /\ cur.status = "WAITING" /\ cur.ints # {} => i.ints = cur.ints
<1>1. /\ Replayed(cur.out, {}).run = FALSE /\ Replayed(cur.out, {}).ints = {}
      /\ Replayed(FALSE, cur.ints).run = FALSE /\ Replayed(FALSE, cur.ints).ints = cur.ints
      /\ Replayed(FALSE, rec.open).run = FALSE /\ Replayed(FALSE, rec.open).ints = rec.open
      /\ Replayed(TRUE, {}).run = FALSE /\ Replayed(TRUE, {}).ints = {}
      /\ Replayed(FALSE, {}).run = FALSE /\ Replayed(FALSE, {}).ints = {}
      /\ Native.ints = {}
  BY DEF Replayed, Native
<1>2. \/ i = Replayed(cur.out, {}) \/ i = Replayed(FALSE, cur.ints) \/ i = Native
      \/ i = Replayed(FALSE, rec.open) \/ i = Replayed(TRUE, {}) \/ i = Replayed(FALSE, {})
  BY DEF Intercept
<1>3. cur.status = "WAITING" /\ cur.ints # {} => i = Replayed(FALSE, cur.ints)
  BY DEF Intercept
<1>4. i.run => i.ints = {}
  BY <1>1, <1>2
<1>5. i.ints # {} => i.ints = cur.ints \/ i.ints = rec.open
  BY <1>1, <1>2
<1> QED  BY <1>1, <1>3, <1>4, <1>5

(* It goes by the status and the interrupts of the run of this turn.       *)
LEMMA InterceptSame ==
    ASSUME NEW n, NEW rec, NEW cur, NEW new, new.status = cur.status, new.ints = cur.ints
    PROVE  /\ Intercept(n, rec, new, TRUE).run = Intercept(n, rec, cur, TRUE).run
           /\ Intercept(n, rec, new, TRUE).ints = Intercept(n, rec, cur, TRUE).ints
<1>1. CASE cur.status = "COMPLETED"
  BY <1>1 DEF Intercept, Replayed
<1>2. CASE cur.status # "COMPLETED"
  <2>1. Intercept(n, rec, new, TRUE) = Intercept(n, rec, cur, TRUE)
    BY <1>2 DEF Intercept
  <2> QED  BY <2>1
<1> QED  BY <1>1, <1>2

(* ... so a run that has to run has to while it does.                      *)
LEMMA InterceptRunning ==
    ASSUME NEW n, NEW rec, NEW cur, NEW new, new.status = "RUNNING", Intercept(n, rec, cur, TRUE).run
    PROVE  Intercept(n, rec, new, TRUE).run
<1>1. \A out, ints : Replayed(out, ints).run = FALSE
  BY DEF Replayed
<1>2. cur.status # "COMPLETED" /\ ~(cur.status = "WAITING" /\ cur.ints # {})
  BY <1>1 DEF Intercept
<1>3. Intercept(n, rec, new, TRUE) = Intercept(n, rec, cur, TRUE)
  BY <1>2 DEF Intercept
<1> QED  BY <1>3

LEMMA RecoveredSame ==
    ASSUME log' = log, NEW p
    PROVE  Recovered(p)' = Recovered(p)
BY DEF Recovered, Positions, Raised, Answered

LEMMA FoundSame ==
    ASSUME log' = log, NEW n, NEW p,
           RunOf(p)'.status = RunOf(p).status, RunOf(p)'.ints = RunOf(p).ints
    PROVE  Found(n, p)'.run = Found(n, p).run /\ Found(n, p)'.ints = Found(n, p).ints
<1>1. PICK rec, cur, new : rec = Recovered(p) /\ cur = RunOf(p) /\ new = RunOf(p)'
  OBVIOUS
<1>2. Recovered(p)' = rec
  BY <1>1, RecoveredSame
<1>3. Found(n, p) = Intercept(n, rec, cur, TRUE) /\ Found(n, p)' = Intercept(n, rec, new, TRUE)
  BY <1>1, <1>2 DEF Found
<1>4. new.status = cur.status /\ new.ints = cur.ints
  BY <1>1
<1> QED  BY <1>3, <1>4, InterceptSame, ZenonT(60)

LEMMA StickySame ==
    ASSUME log' = log, NEW t \in Tasks, NEW j \in DOMAIN Calls[t],
           RunOf(CallPath(t, j))'.status = RunOf(CallPath(t, j)).status,
           RunOf(CallPath(t, j))'.ints = RunOf(CallPath(t, j)).ints
    PROVE  Sticky(t, j)' <=> Sticky(t, j)
<1>1. PICK n, p : n = Calls[t][j].node /\ p = CallPath(t, j)
  OBVIOUS
<1>2. Found(n, p)'.ints = Found(n, p).ints
  BY <1>1, FoundSame
<1>3. Sticky(t, j) <=> Found(n, p).ints # {}
  BY <1>1 DEF Sticky
<1>4. Sticky(t, j)' <=> Found(n, p)'.ints # {}
  BY <1>1 DEF Sticky
<1> QED  BY <1>2, <1>3, <1>4

(* The interrupts open below a path were raised by its task.               *)
LEMMA RaisedOwn ==
    ASSUME Saved(log), NEW p, IsSeq(p), p # <<>>
    PROVE  OwnIds(Root(p), Raised(p))
<1>1. SUFFICES ASSUME NEW i \in DOMAIN log, log[i].kind = "int", IsPrefix(p, log[i].path)
               PROVE  Asker(log[i].id) = Root(p)
  BY DEF OwnIds, Raised
<1>2. PICK e, q : e = log[i] /\ q = e.path
  OBVIOUS
<1>3. e \in Range(log)
  BY <1>2 DEF Range
<1>4. IsSeq(q) /\ q # <<>> /\ Asker(e.id) = Root(q)
  BY <1>1, <1>2, <1>3 DEF Saved, Asker, Root
<1>5. Len(p) <= Len(q) /\ SubSeq(p, 1, Len(p)) = SubSeq(q, 1, Len(p))
  BY <1>1, <1>2 DEF IsPrefix
<1>6. PICK X, Y : p \in Seq(X) /\ q \in Seq(Y)
  BY <1>4 DEF IsSeq
<1>7. Len(p) \in Nat \ {0} /\ Len(q) \in Nat
  BY <1>6
<1>8. SubSeq(p, 1, Len(p))[1] = p[1] /\ SubSeq(q, 1, Len(p))[1] = q[1]
  BY <1>5, <1>6, <1>7
<1>9. p[1] = q[1]
  BY <1>5, <1>8
<1> QED  BY <1>2, <1>4, <1>9 DEF Root

LEMMA FoundOwn ==
    ASSUME Saved(log), RunsOK, NEW n, NEW p, IsSeq(p), p # <<>>
    PROVE  OwnIds(Root(p), Found(n, p).ints)
<1>1. PICK rec, cur, i : rec = Recovered(p) /\ cur = RunOf(p) /\ i = Found(n, p)
  OBVIOUS
<1>2. i = Intercept(n, rec, cur, TRUE)
  BY <1>1 DEF Found
<1>3. i.ints # {} => i.ints = cur.ints \/ i.ints = rec.open
  BY <1>2, InterceptFacts
<1>4. OwnIds(Root(p), cur.ints)
  BY <1>1, RunFacts
<1>5. OwnIds(Root(p), rec.open)
  <2>1. rec.open \subseteq Raised(p)
    BY <1>1 DEF Recovered
  <2> QED  BY <2>1, RaisedOwn DEF OwnIds
<1> QED  BY <1>1, <1>3, <1>4, <1>5 DEF OwnIds

-----------------------------------------------------------------------------
(* What stays as it is in a step.                                          *)

LEMMA DispatchedStays ==
    ASSUME log' = log, NEW t \in Tasks, DispatchedOK(t), Bottom(t)'.next = Bottom(t).next,
           Inner(t)'.path = Inner(t).path, Inner(t)'.node = Inner(t).node,
           RunOf(Inner(t).path)' = RunOf(Inner(t).path)
    PROVE  DispatchedOK(t)'
<1>1. PICK n, p, j : n = Inner(t).node /\ p = Inner(t).path /\ j = Bottom(t).next
  OBVIOUS
<1>2. PICK q : q = CallPath(t, j)
  OBVIOUS
<1>3. /\ j \in DOMAIN Calls[t] /\ p = q /\ n = Calls[t][j].node
      /\ Found(n, p).run /\ RunOf(p).status = "RUNNING"
  BY <1>1, <1>2 DEF DispatchedOK
<1>4. n = Inner(t)'.node /\ p = Inner(t)'.path /\ j = Bottom(t)'.next
  BY <1>1
<1>5. RunOf(p)' = RunOf(p)
  <2>1. Inner(t).path = p
    BY <1>1
  <2>2. RunOf(Inner(t).path)' = IF Inner(t)'.path \in DOMAIN runs' THEN runs'[Inner(t)'.path] ELSE NotRun
    BY DEF RunOf
  <2>3. RunOf(p)' = IF p \in DOMAIN runs' THEN runs'[p] ELSE NotRun
    BY DEF RunOf
  <2> QED  BY <1>4, <2>1, <2>2, <2>3
<1>6. Found(n, p)'.run = Found(n, p).run
  BY <1>5, FoundSame
<1>7. Found(Inner(t).node, Inner(t).path)' = Found(n, p)'
  BY <1>4 DEF Found, Recovered, RunOf, Positions, Raised, Answered
<1>8. RunOf(Inner(t).path)'.status = "RUNNING"
  BY <1>3, <1>1
<1>9. Inner(t)'.path = CallPath(t, Bottom(t)'.next)
  BY <1>2, <1>3, <1>4
<1> QED  BY <1>3, <1>4, <1>6, <1>7, <1>8, <1>9 DEF DispatchedOK

LEMMA KeptStays ==
    ASSUME log' = log, NEW t \in Tasks, stack'[t] = stack[t], verdict'[t] = verdict[t],
           \A j \in DOMAIN Calls[t] : RunOf(CallPath(t, j))' = RunOf(CallPath(t, j)), Kept(t)
    PROVE  Kept(t)'
<1>1. PICK j \in DOMAIN Calls[t] : Sticky(t, j) /\ NotPast(t, j)
  BY DEF Kept
<1>2. Sticky(t, j)'
  BY <1>1, StickySame
<1>3. NotPast(t, j)'
  BY <1>1 DEF NotPast, Bottom
<1> QED  BY <1>2, <1>3 DEF Kept

LEMMA HoldsOnce ==
    ASSUME Locked, NEW t \in Tasks, NEW u \in Tasks, Holds(t), Holds(u)
    PROVE  u = t
<1>1. lock = <<t, 1>> /\ lock = <<u, 1>>
  BY DEF Locked
<1>2. lock[1] = t /\ lock[1] = u
  BY <1>1
<1> QED  BY <1>2

-----------------------------------------------------------------------------
(* The actions.                                                            *)

(* A frame goes on or is over, and its task holds the lock as before.      *)
LEMMA TopStep ==
    ASSUME SchedulerInv, NEW t \in Tasks, stack[t] # <<>>,
           NEW g, FrameOK(t, g), g.node = Top(t).node, g.path = Top(t).path,
           SetTop(t, g), UNCHANGED <<log, turn, running, lock, runs, pendingIds, events, verdict>>,
           Len(stack[t]) = 1 =>
               \A j \in DOMAIN Calls[t] : NotPast(t, j) =>
                   g.at = "failed" \/ g.ints # {} \/ (g.at # "done" /\ g.next <= j)
    PROVE  SchedulerInv'
<1>1. StackOK /\ Locked /\ InnerOK /\ PendingOK /\ Idle /\ TurnOK
  BY DEF SchedulerInv
<1>2. DOMAIN verdict' = Tasks
  BY <1>1 DEF StackOK
<1>3. /\ StackOK' /\ \A u \in Tasks : u # t => stack'[u] = stack[u]
      /\ stack'[t] # <<>> /\ Len(stack'[t]) = Len(stack[t])
      /\ Len(stack[t]) = 1 => Bottom(t)' = g
      /\ Len(stack[t]) = 2 => Bottom(t)' = Bottom(t) /\ Inner(t)' = g
  BY <1>1, <1>2, SetTopFacts
<1>4. /\ Len(stack[t]) \in {1, 2}
      /\ Len(stack[t]) = 1 => Top(t) = Bottom(t)
      /\ Len(stack[t]) = 2 => Top(t) = Inner(t)
  BY <1>1, StackFacts
<1>5. Len(stack[t]) = 2 => Bottom(t).at = "body"
  BY <1>1 DEF Locked
<1>6. \A u \in Tasks : Holds(u)' <=> Holds(u)
  BY <1>3 DEF Holds
<1>7. ASSUME NEW u \in Tasks, Len(stack'[u]) = 2 PROVE Bottom(u)'.at = "body"
  <2>1. CASE u = t
    BY <1>3, <1>5, <1>7, <2>1
  <2>2. CASE u # t
    BY <1>1, <1>3, <1>7, <2>2 DEF Locked, Bottom
  <2> QED  BY <2>1, <2>2
<1>8. Locked'
  BY <1>1, <1>6, <1>7 DEF Locked
<1>9. InnerOK'
  <2>1. SUFFICES ASSUME NEW u \in Tasks, Len(stack'[u]) = 2 PROVE DispatchedOK(u)'
    BY DEF InnerOK
  <2>2. Len(stack[u]) = 2 /\ DispatchedOK(u)
    BY <1>1, <1>3, <2>1 DEF InnerOK
  <2>3. Bottom(u)' = Bottom(u) /\ Inner(u)'.path = Inner(u).path /\ Inner(u)'.node = Inner(u).node
    <3>1. CASE u = t
      BY <1>3, <1>4, <2>2, <3>1
    <3>2. CASE u # t
      BY <1>3, <3>2 DEF Bottom, Inner
    <3> QED  BY <3>1, <3>2
  <2>4. RunOf(Inner(u).path)' = RunOf(Inner(u).path)
    BY <2>3 DEF RunOf
  <2>5. Bottom(u)'.next = Bottom(u).next
    BY <2>3
  <2> QED  BY <2>2, <2>3, <2>4, <2>5, DispatchedStays
<1>10. PendingOK'
  <2>1. ASSUME NEW u \in Tasks, Kept(u) PROVE Kept(u)'
    <3>1. \A j \in DOMAIN Calls[u] : RunOf(CallPath(u, j))' = RunOf(CallPath(u, j))
      BY DEF RunOf
    <3>2. CASE u # t
      <4>1. stack'[u] = stack[u] /\ verdict'[u] = verdict[u]
        BY <1>3, <3>2
      <4> QED  BY <2>1, <3>1, <4>1, KeptStays
    <3>3. CASE u = t
      <4>1. PICK j \in DOMAIN Calls[t] : Sticky(t, j) /\ NotPast(t, j)
        BY <2>1, <3>3 DEF Kept
      <4>2. Sticky(t, j)'
        BY <3>1, <3>3, <4>1, StickySame
      <4>3. NotPast(t, j)'
        <5>1. CASE Len(stack[t]) = 1
          BY <1>3, <4>1, <5>1 DEF NotPast
        <5>2. CASE Len(stack[t]) = 2
          BY <1>3, <4>1, <5>2 DEF NotPast
        <5> QED  BY <1>4, <5>1, <5>2
      <4> QED  BY <3>3, <4>2, <4>3 DEF Kept
    <3> QED  BY <3>2, <3>3
  <2> QED  BY <1>1, <2>1 DEF PendingOK
<1>11. running /\ Idle'
  BY <1>1 DEF Idle, TurnOK
<1>12. TurnOK' /\ RunsOK' /\ Saved(log)' /\ Saved(events)'
  BY DEF SchedulerInv, TurnOK, RunsOK, Saved
<1> QED  BY <1>3, <1>8, <1>9, <1>10, <1>11, <1>12 DEF SchedulerInv

LEMMA CallingFacts ==
    ASSUME SchedulerInv, NEW t \in Tasks, Calling(t), lock = NoOwner
    PROVE  /\ stack[t] # <<>> /\ Len(stack[t]) = 1 /\ Top(t) = Bottom(t) /\ Bottom(t).at = "body"
           /\ Bottom(t).next \in DOMAIN Calls[t]
           /\ ChildPath(Top(t)) = CallPath(t, Bottom(t).next)
           /\ CallOf(Top(t)) = Calls[t][Bottom(t).next]
           /\ \A u \in Tasks : ~Holds(u)
<1>1. StackOK /\ Locked /\ stack[t] # <<>> /\ Top(t).at = "body" /\ Top(t).next <= Len(Calls[Top(t).node])
  BY DEF SchedulerInv, Calling
<1>2. \A u \in Tasks : ~Holds(u)
  BY <1>1 DEF Locked, NoOwner
<1>3. Len(stack[t]) = 1 /\ Top(t) = Bottom(t) /\ FrameOK(t, Bottom(t)) /\ Bottom(t).node = t
      /\ Bottom(t).path = TaskPath(t)
  BY <1>1, <1>2, StackFacts DEF Holds
<1>4. Bottom(t).next \in DOMAIN Calls[t]
  <2>1. t \in DynNodes /\ Bottom(t).next \in Nat \ {0} /\ Bottom(t).next <= Len(Calls[t])
    BY <1>1, <1>3 DEF FrameOK, DynNodes
  <2> QED  BY <2>1, NodeFacts
<1> QED  BY <1>1, <1>2, <1>3, <1>4, PathOfCaller

LEMMA FirstCall == ASSUME NEW t \in Tasks, NEW j \in DOMAIN Calls[t] PROVE 1 <= j
BY NodeFacts DEF DynNodes

LEMMA EndAttemptKeeps ==
    ASSUME SchedulerInv, NEW t \in Tasks, NEW o \in {"none", "out", "int", "err", "intOutTwice"},
           EndAttempt(t, o)
    PROVE  SchedulerInv'
<1>1. PICK f, g : f = Top(t) /\ g = IF o = "err" THEN Errored(f, "NodeError") ELSE Yields(f, KindsOf[o])
  OBVIOUS
<1>2. StackOK /\ Locked /\ stack[t] # <<>> /\ f.at = "body" /\ ~Calling(t) /\ SetTop(t, g)
      /\ UNCHANGED <<log, turn, running, runs, pendingIds, events, verdict, lock>>
  BY <1>1 DEF EndAttempt, SchedulerInv
<1>3. FrameOK(t, f)
  BY <1>1, <1>2, StackFacts
<1>4. /\ FrameOK(t, g) /\ g.node = f.node /\ g.path = f.path
      /\ \/ g.at = "failed" \/ (g.at = "body" /\ g.next = 1)
         \/ g.at = "done" /\ f.ints \subseteq g.ints
  <2>1. CASE o = "err"
    BY <1>1, <1>3, <2>1, ErroredFacts
  <2>2. CASE o # "err"
    <3>1. PICK k : k = KindsOf[o]
      OBVIOUS
    <3>2. IsSeq(k)
      <4>1. k \in {<<>>, <<"out">>, <<"int">>, <<"int", "out", "out">>}
        BY <2>2, <3>1 DEF KindsOf
      <4>2. IsSeq(<<"out">>) /\ IsSeq(<<"int">>) /\ IsSeq(<<>>)
        BY SingleFacts
      <4>3. <<"int", "out", "out">> \in Seq({"int", "out"})
        OBVIOUS
      <4>4. IsSeq(<<"int", "out", "out">>)
        BY <4>3 DEF IsSeq
      <4> QED  BY <4>1, <4>2, <4>4
    <3>3. \A i \in DOMAIN k : k[i] # "answer"
      BY <2>2, <3>1 DEF KindsOf
    <3>4. IsSeq(k) /\ g = Yields(f, k)
      BY <1>1, <2>2, <3>1, <3>2
    <3> QED  BY <1>3, <3>3, <3>4, YieldsFacts
  <2> QED  BY <2>1, <2>2
<1>5. ASSUME Len(stack[t]) = 1, NEW j \in DOMAIN Calls[t], NotPast(t, j)
      PROVE  g.at = "failed" \/ g.ints # {} \/ (g.at # "done" /\ g.next <= j)
  <2>1. f = Bottom(t) /\ f.node = t
    BY <1>1, <1>2, <1>5, StackFacts
  <2>2. ~(f.next <= Len(Calls[t])) \/ f.ints # {}
    BY <1>1, <1>2, <2>1 DEF Calling
  <2>3. f.ints # {} \/ f.next <= j
    BY <1>2, <1>5, <2>1 DEF NotPast
  <2>4. f.ints # {}
    <3>1. t \in DynNodes /\ f.next \in Nat
      BY <1>3 DEF DynNodes, FrameOK
    <3>2. j <= Len(Calls[t]) /\ j \in Nat /\ Len(Calls[t]) \in Nat
      BY <1>5, <3>1, NodeFacts
    <3> QED  BY <2>2, <2>3, <3>1, <3>2
  <2> QED  BY <1>4, <1>5, <2>4, FirstCall
<1>6. g.node = Top(t).node /\ g.path = Top(t).path
  BY <1>1, <1>4
<1> QED  BY <1>2, <1>4, <1>5, <1>6, TopStep

(* A timeout of the node on top ends its attempt.                          *)
LEMMA TimeoutTopKeeps ==
    ASSUME SchedulerInv, NEW t \in Tasks, NEW d, Timeout(t, d), d = Len(stack[t])
    PROVE  SchedulerInv'
<1>1. PICK f, g : f = Top(t) /\ g = Errored(f, "NodeTimeoutError")
  OBVIOUS
<1>2. d \in DOMAIN stack[t] /\ StackOK /\ Locked
  BY DEF Timeout, SchedulerInv
<1>3. stack[t] # <<>>
  BY <1>2, EmptyFacts
<1>4. d \in {1, 2} /\ f = stack[t][d] /\ FrameOK(t, f)
      /\ (d = 1 => f = Bottom(t)) /\ (d = 2 => f = Inner(t))
  BY <1>1, <1>2, <1>3, StackFacts
<1>5. FrameOK(t, g) /\ g.node = f.node /\ g.path = f.path
      /\ (g.at = "failed" \/ (g.at = "body" /\ g.next = 1))
  BY <1>1, <1>4, ErroredFacts
<1>6. SetTop(t, g) /\ UNCHANGED <<log, turn, running, runs, pendingIds, events, verdict>>
      /\ lock' = (IF lock # NoOwner /\ lock[1] = t /\ lock[2] >= d THEN NoOwner ELSE lock)
      /\ f.at = "body"
  <2>1. SetTop(t, g)
    BY <1>1, <1>2, <1>4 DEF Timeout, SetTop, Front, StackOK
  <2> QED  BY <1>4, <2>1 DEF Timeout
<1>7. lock' = lock
  <2>1. CASE d = 2
    <3>1. lock = <<t, 1>> /\ Bottom(t).at = "body"
      BY <2>1 DEF Locked, SchedulerInv, Holds
    <3>2. ~(lock[2] >= d)
      BY <2>1, <3>1
    <3> QED  BY <1>6, <3>1, <3>2
  <2>2. CASE d = 1
    <3>1. ~Holds(t)
      BY <2>2 DEF Holds
    <3>2. ASSUME lock # NoOwner, lock[1] = t PROVE FALSE
      <4>1. PICK u \in Tasks : Holds(u)
        BY <1>2, <3>2 DEF Locked
      <4>2. lock = <<u, 1>>
        BY <1>2, <4>1 DEF Locked
      <4>3. u = t
        BY <3>2, <4>2
      <4> QED  BY <3>1, <4>1, <4>3
    <3> QED  BY <1>6, <3>1, <3>2
  <2> QED  BY <1>4, <2>1, <2>2
<1>8. \A j \in DOMAIN Calls[t] : g.at = "failed" \/ (g.at # "done" /\ g.next <= j)
  BY <1>5, FirstCall
<1>9. g.node = Top(t).node /\ g.path = Top(t).path
  BY <1>1, <1>5
<1> QED  BY <1>3, <1>5, <1>6, <1>7, <1>8, <1>9, TopStep

(* A dispatched run is over or dropped: its caller has the stack to itself *)
(* and the lock is free.                                                   *)
LEMMA PopStep ==
    ASSUME SchedulerInv, NEW t \in Tasks, Len(stack[t]) = 2,
           NEW g, FrameOK(t, g), g.node = t, g.path = TaskPath(t),
           stack' = [stack EXCEPT ![t] = Append(SubSeq(stack[t], 1, 0), g)], lock' = NoOwner,
           UNCHANGED <<log, turn, running, verdict>>
    PROVE  /\ StackOK' /\ Locked' /\ InnerOK' /\ Idle' /\ TurnOK' /\ Saved(log)' /\ running
           /\ stack'[t] # <<>> /\ Bottom(t)' = g
           /\ \A u \in Tasks : u # t => stack'[u] = stack[u] /\ verdict'[u] = verdict[u]
<1>1. StackOK /\ Locked /\ Idle /\ TurnOK
  BY DEF SchedulerInv
<1>2. PICK s, y, w : s = stack[t] /\ y = SubSeq(s, 1, 0) /\ w = Append(y, g)
  OBVIOUS
<1>3. PICK X : s \in Seq(X)
  BY <1>1, <1>2 DEF StackOK, IsSeq
<1>4. y \in Seq(X) /\ Len(y) = 0
  BY <1>2, <1>3
<1>5. IsSeq(y) /\ w = Append(y, g) /\ DOMAIN y = {}
  BY <1>2, <1>4 DEF IsSeq
<1>6. IsSeq(w) /\ w # <<>>
  BY <1>5, AppendFacts, ZenonT(60)
<1>7. Len(w) = Len(y) + 1
  BY <1>5, AppendFacts
<1>8. w[Len(y) + 1] = g
  BY <1>5, AppendFacts
<1>9. DOMAIN w = DOMAIN y \cup {Len(y) + 1}
  BY <1>5, AppendFacts
<1>10. Len(w) = 1 /\ w[1] = g /\ \A d \in DOMAIN w : FrameOK(t, w[d])
  BY <1>4, <1>5, <1>7, <1>8, <1>9
<1>11. DOMAIN verdict' = Tasks /\ stack' = [stack EXCEPT ![t] = w] /\ Len(w) <= 2
  BY <1>1, <1>2, <1>10 DEF StackOK
<1>12. w # <<>> => w[1].node = t /\ w[1].path = TaskPath(t)
  BY <1>10
<1>13. StackOK' /\ stack'[t] = w /\ \A u \in Tasks : u # t => stack'[u] = stack[u]
  BY <1>1, <1>6, <1>10, <1>11, <1>12, StackStep
<1>14. stack'[t] # <<>> /\ Bottom(t)' = g /\ Len(stack'[t]) = 1
  BY <1>6, <1>10, <1>13 DEF Bottom
<1>15. \A u \in Tasks : ~Holds(u)'
  <2>1. Holds(t)
    BY DEF Holds
  <2>2. ~Holds(t)'
    BY <1>14 DEF Holds
  <2>3. ASSUME NEW u \in Tasks, u # t PROVE ~Holds(u)'
    <3>1. ~Holds(u)
      BY <1>1, <2>1, <2>3, HoldsOnce
    <3> QED  BY <1>13, <2>3, <3>1 DEF Holds, Bottom
  <2> QED  BY <2>2, <2>3
<1>16. Locked' /\ InnerOK'
  BY <1>15 DEF Locked, InnerOK, Holds
<1>17. running
  <2>1. stack[t] # <<>>
    BY EmptyFacts, SeqFacts, <1>1, SMTT(60) DEF StackOK
  <2> QED  BY <1>1, <2>1 DEF Idle, TurnOK
<1>18. Idle' /\ TurnOK' /\ Saved(log)'
  BY <1>1, <1>17 DEF Idle, TurnOK, SchedulerInv, Saved
<1> QED  BY <1>13, <1>14, <1>16, <1>17, <1>18

LEMMA TimeoutBottomKeeps ==
    ASSUME SchedulerInv, NEW t \in Tasks, NEW d, Timeout(t, d), d # Len(stack[t])
    PROVE  SchedulerInv'
<1>1. StackOK /\ Locked /\ PendingOK /\ d \in DOMAIN stack[t]
      /\ UNCHANGED <<log, turn, running, runs, pendingIds, events, verdict>>
  BY DEF Timeout, SchedulerInv
<1>2. stack[t] # <<>>
  BY <1>1, EmptyFacts
<1>3. d = 1 /\ Len(stack[t]) = 2 /\ FrameOK(t, Bottom(t))
      /\ Bottom(t).node = t /\ Bottom(t).path = TaskPath(t)
  BY <1>1, <1>2, StackFacts
<1>4. PICK f, g : f = Bottom(t) /\ g = Errored(f, "NodeTimeoutError")
  OBVIOUS
<1>5. FrameOK(t, g) /\ g.node = t /\ g.path = TaskPath(t)
      /\ (g.at = "failed" \/ (g.at = "body" /\ g.next = 1))
  BY <1>3, <1>4, ErroredFacts
<1>6. stack' = [stack EXCEPT ![t] = Append(SubSeq(stack[t], 1, 0), g)]
  <2>1. stack' = [stack EXCEPT ![t] = Append(SubSeq(stack[t], 1, d - 1), g)]
    BY <1>1, <1>3, <1>4 DEF Timeout, Bottom, StackOK
  <2>2. d - 1 = 0
    BY <1>3
  <2> QED  BY <2>1, <2>2
<1>7. lock' = NoOwner
  <2>1. lock = <<t, 1>>
    BY <1>1, <1>3 DEF Locked, Holds
  <2>2. lock[1] = t /\ lock[2] >= d
    BY <1>3, <2>1
  <2> QED  BY <2>2 DEF Timeout
<1>9. /\ StackOK' /\ Locked' /\ InnerOK' /\ Idle' /\ TurnOK' /\ Saved(log)' /\ running
      /\ stack'[t] # <<>> /\ Bottom(t)' = g
      /\ \A u \in Tasks : u # t => stack'[u] = stack[u] /\ verdict'[u] = verdict[u]
  BY <1>1, <1>3, <1>5, <1>6, <1>7, PopStep
<1>10. PendingOK'
  <2>1. ASSUME NEW u \in Tasks, Kept(u) PROVE Kept(u)'
    <3>1. \A j \in DOMAIN Calls[u] : RunOf(CallPath(u, j))' = RunOf(CallPath(u, j))
      BY <1>1 DEF RunOf
    <3>2. CASE u # t
      BY <1>1, <1>9, <2>1, <3>1, <3>2, KeptStays
    <3>3. CASE u = t
      <4>1. PICK j \in DOMAIN Calls[t] : Sticky(t, j)
        BY <2>1, <3>3 DEF Kept
      <4>2. Sticky(t, j)'
        BY <1>1, <3>1, <3>3, <4>1, StickySame
      <4>3. NotPast(t, j)'
        BY <1>5, <1>9, FirstCall DEF NotPast
      <4> QED  BY <3>3, <4>2, <4>3 DEF Kept
    <3> QED  BY <3>2, <3>3
  <2> QED  BY <1>1, <2>1 DEF PendingOK
<1>11. RunsOK' /\ Saved(events)'
  BY <1>1 DEF SchedulerInv, RunsOK, Saved
<1> QED  BY <1>9, <1>10, <1>11 DEF SchedulerInv

(* A call that is answered without a run: the status and the interrupts of *)
(* its path stay, so it stays interrupted if it is.                        *)
LEMMA FastForwardKeeps == ASSUME SchedulerInv, NEW t \in Tasks, FastForward(t) PROVE SchedulerInv'
<1>1. /\ Calling(t) /\ lock = NoOwner /\ StackOK /\ Locked /\ RunsOK /\ PendingOK /\ Saved(log)
      /\ UNCHANGED <<log, turn, running, events, verdict>>
  BY DEF FastForward, SchedulerInv
<1>2. /\ stack[t] # <<>> /\ Len(stack[t]) = 1 /\ Top(t) = Bottom(t) /\ Bottom(t).at = "body"
      /\ Bottom(t).next \in DOMAIN Calls[t]
      /\ ChildPath(Top(t)) = CallPath(t, Bottom(t).next)
      /\ CallOf(Top(t)) = Calls[t][Bottom(t).next]
      /\ \A u \in Tasks : ~Holds(u)
  BY <1>1, CallingFacts
<1>3. PICK f, k, n, path, hit, old, r :
        /\ f = Bottom(t) /\ k = f.next /\ n = Calls[t][k].node /\ path = CallPath(t, k)
        /\ hit = Found(n, path) /\ old = RunOf(path)
        /\ r = IF hit.ints # {} THEN old ELSE [old EXCEPT !.out = hit.out]
  OBVIOUS
<1>4. /\ runs' = Update(path, r) /\ pendingIds' = pendingIds \cup hit.ints
      /\ SetTop(t, [f EXCEPT !.next = @ + 1, !.ints = @ \cup hit.ints]) /\ lock' = NoOwner
  BY <1>2, <1>3 DEF FastForward, Found
<1>5. FrameOK(t, f) /\ IsFrame(f) /\ k \in Nat \ {0} /\ f.at = "body" /\ DOMAIN verdict' = Tasks
  BY <1>1, <1>2, <1>3, StackFacts DEF FrameOK, StackOK
<1>6. IsSeq(path) /\ path # <<>> /\ Root(path) = t /\ k \in DOMAIN Calls[t]
  BY <1>2, <1>3, CallPathFacts
<1>7. OwnIds(t, hit.ints)
  BY <1>1, <1>3, <1>6, FoundOwn
<1>8. PICK g : /\ SetTop(t, g) /\ FrameOK(t, g) /\ g.node = f.node /\ g.path = f.path
               /\ g.next = k + 1 /\ g.ints = f.ints \cup hit.ints /\ g.at = "body"
  <2>1. PICK g : g = [f EXCEPT !.next = @ + 1, !.ints = @ \cup hit.ints]
    OBVIOUS
  <2>2. /\ IsFrame(g) /\ g.node = f.node /\ g.path = f.path /\ g.attempt = f.attempt /\ g.next = k + 1
        /\ g.at = "body" /\ g.fold = f.fold /\ g.events = f.events /\ g.ints = f.ints \cup hit.ints
    BY <1>3, <1>5, <2>1 DEF IsFrame
  <2>3. OwnIds(t, g.ints) /\ g.next \in Nat \ {0}
    BY <1>5, <1>7, <2>2 DEF FrameOK, OwnIds
  <2>4. FrameOK(t, g)
    BY <1>5, <2>2, <2>3 DEF FrameOK
  <2> QED  BY <1>4, <2>1, <2>2, <2>4
<1>9. /\ StackOK' /\ \A u \in Tasks : u # t => stack'[u] = stack[u]
      /\ stack'[t] # <<>> /\ Len(stack'[t]) = Len(stack[t]) /\ Bottom(t)' = g
  <2>1. g.node = Top(t).node /\ g.path = Top(t).path
    BY <1>2, <1>3, <1>8
  <2> QED  BY <1>1, <1>2, <1>5, <1>8, <2>1, SetTopFacts
<1>10. \A u \in Tasks : Len(stack'[u]) # 2
  BY <1>2, <1>9 DEF Holds
<1>11. Locked'
  BY <1>4, <1>10 DEF Locked, Holds
<1>12. InnerOK'
  BY <1>10 DEF InnerOK
<1>13. r.status = old.status /\ r.ints = old.ints /\ IsRun(r)
  <2>1. IsRun(old)
    BY <1>1, <1>3, RunFacts
  <2> QED  BY <1>3, <2>1 DEF IsRun
<1>14. RunsOK'
  <2>1. OwnIds(Root(path), r.ints) /\ r.status \in {"INACTIVE", "RUNNING", "COMPLETED", "WAITING", "FAILED"}
    BY <1>1, <1>3, <1>13, RunFacts
  <2> QED  BY <1>1, <1>4, <1>13, <2>1, UpdateTyped
<1>15. \A q : RunOf(q)' = IF q = path THEN r ELSE RunOf(q)
  BY <1>4, UpdateFacts
<1>16. ASSUME NEW u \in Tasks, u # t, Kept(u) PROVE Kept(u)'
  <2>1. \A j \in DOMAIN Calls[u] : RunOf(CallPath(u, j))' = RunOf(CallPath(u, j))
    <3> SUFFICES ASSUME NEW j \in DOMAIN Calls[u] PROVE RunOf(CallPath(u, j))' = RunOf(CallPath(u, j))
      OBVIOUS
    <3>1. PICK q : q = CallPath(u, j)
      OBVIOUS
    <3>2. q # path
      BY <1>6, <1>16, <3>1, CallPathFacts
    <3>3. RunOf(q)' = RunOf(q)
      BY <1>15, <3>2
    <3> QED  BY <3>1, <3>3
  <2> QED  BY <1>1, <1>9, <1>16, <2>1, KeptStays
<1>17. ASSUME NEW j \in DOMAIN Calls[t], Sticky(t, j) PROVE Sticky(t, j)'
  <2>1. PICK q : q = CallPath(t, j)
    OBVIOUS
  <2>2. RunOf(q)'.status = RunOf(q).status /\ RunOf(q)'.ints = RunOf(q).ints
    BY <1>3, <1>13, <1>15
  <2>3. /\ RunOf(CallPath(t, j))'.status = RunOf(CallPath(t, j)).status
        /\ RunOf(CallPath(t, j))'.ints = RunOf(CallPath(t, j)).ints
    BY <2>1, <2>2
  <2> QED  BY <1>1, <1>17, <2>3, StickySame
<1>18. Sticky(t, k) <=> hit.ints # {}
  BY <1>3 DEF Sticky
<1>19. ASSUME Kept(t) PROVE Kept(t)'
  <2>1. PICK j \in DOMAIN Calls[t] : Sticky(t, j) /\ NotPast(t, j)
    BY <1>19 DEF Kept
  <2>2. f.ints # {} \/ k <= j
    BY <1>2, <1>3, <2>1 DEF NotPast
  <2>3. j \in Nat
    <3>1. t \in DynNodes
      BY DEF DynNodes
    <3> QED  BY <3>1, NodeFacts
  <2>4. g.ints # {} \/ (g.at # "done" /\ g.next <= j)
    <3>1. CASE j = k
      BY <1>5, <1>8, <1>18, <2>1, <3>1
    <3>2. CASE j # k
      BY <1>5, <1>8, <2>2, <2>3, <3>2
    <3> QED  BY <3>1, <3>2
  <2>5. NotPast(t, j)'
    BY <1>9, <2>4 DEF NotPast
  <2> QED  BY <1>17, <2>1, <2>5 DEF Kept
<1>20. ASSUME hit.ints # {} PROVE Kept(t)'
  <2>1. Sticky(t, k)'
    BY <1>6, <1>17, <1>18, <1>20
  <2>2. g.ints # {} \/ (g.at # "done" /\ g.next <= k)
    BY <1>5, <1>8, <1>20
  <2>3. NotPast(t, k)'
    BY <1>9, <2>2 DEF NotPast
  <2> QED  BY <1>6, <2>1, <2>3 DEF Kept
<1>21. PendingOK'
  <2>1. ASSUME NEW id \in pendingIds' PROVE Asker(id) \in Tasks /\ Kept(Asker(id))'
    <3>1. CASE id \in pendingIds
      <4>1. PICK u \in Tasks : u = Asker(id) /\ Kept(u)
        BY <1>1, <3>1 DEF PendingOK
      <4>2. Kept(u)'
        BY <1>16, <1>19, <4>1
      <4> QED  BY <4>1, <4>2
    <3>2. CASE id \in hit.ints
      <4>1. Asker(id) = t /\ Kept(t)'
        BY <1>7, <1>20, <3>2 DEF OwnIds
      <4> QED  BY <4>1
    <3> QED  BY <1>4, <2>1, <3>1, <3>2
  <2> QED  BY <2>1 DEF PendingOK
<1>22. Idle' /\ TurnOK' /\ Saved(log)' /\ Saved(events)'
  <2>1. running
    BY <1>2 DEF SchedulerInv, Idle, TurnOK
  <2> QED  BY <1>1, <2>1 DEF SchedulerInv, Idle, TurnOK, Saved
<1> QED  BY <1>9, <1>11, <1>12, <1>14, <1>21, <1>22 DEF SchedulerInv

(* A call that had to run is not one that was interrupted in this turn.    *)
LEMMA RunIsNotSticky ==
    ASSUME NEW t \in Tasks, NEW j \in DOMAIN Calls[t], NEW k \in DOMAIN Calls[t],
           CallPath(t, j) = CallPath(t, k), Found(Calls[t][k].node, CallPath(t, k)).run
    PROVE  ~Sticky(t, j)
<1>1. PICK n, m, p, q : /\ n = Calls[t][j].node /\ m = Calls[t][k].node
                        /\ p = CallPath(t, j) /\ q = CallPath(t, k)
  OBVIOUS
<1>2. p[2][1] = n /\ q[2][1] = m
  BY <1>1, CallPathFacts
<1>3. p = q /\ n = m
  BY <1>1, <1>2
<1>4. PICK i, rec, cur : i = Found(n, p) /\ rec = Recovered(p) /\ cur = RunOf(p)
  OBVIOUS
<1>5. i = Intercept(n, rec, cur, TRUE)
  BY <1>4 DEF Found
<1>6. i.run
  BY <1>1, <1>3, <1>4
<1>7. i.ints = {}
  BY <1>5, <1>6, InterceptFacts
<1> QED  BY <1>1, <1>4, <1>7 DEF Sticky

(* A path of one task is none of another.                                  *)
LEMMA OthersKept ==
    ASSUME log' = log, NEW path, NEW r, runs' = Update(path, r), NEW u \in Tasks, Root(path) # u,
           stack'[u] = stack[u], verdict'[u] = verdict[u], Kept(u)
    PROVE  Kept(u)'
<1>1. \A q : RunOf(q)' = IF q = path THEN r ELSE RunOf(q)
  BY UpdateFacts
<1>2. \A j \in DOMAIN Calls[u] : RunOf(CallPath(u, j))' = RunOf(CallPath(u, j))
  <2> SUFFICES ASSUME NEW j \in DOMAIN Calls[u] PROVE RunOf(CallPath(u, j))' = RunOf(CallPath(u, j))
    OBVIOUS
  <2>1. PICK q : q = CallPath(u, j)
    OBVIOUS
  <2>2. q # path
    BY <2>1, CallPathFacts
  <2>3. RunOf(q)' = RunOf(q)
    BY <1>1, <2>2
  <2> QED  BY <2>1, <2>3
<1> QED  BY <1>2, KeptStays

LEMMA DispatchKeeps == ASSUME SchedulerInv, NEW t \in Tasks, Dispatch(t) PROVE SchedulerInv'
<1>1. /\ Calling(t) /\ lock = NoOwner /\ StackOK /\ Locked /\ RunsOK /\ PendingOK /\ Saved(log)
      /\ UNCHANGED <<log, turn, running, pendingIds, events, verdict>>
  BY DEF Dispatch, SchedulerInv
<1>2. /\ stack[t] # <<>> /\ Len(stack[t]) = 1 /\ Top(t) = Bottom(t) /\ Bottom(t).at = "body"
      /\ Bottom(t).next \in DOMAIN Calls[t]
      /\ ChildPath(Top(t)) = CallPath(t, Bottom(t).next)
      /\ CallOf(Top(t)) = Calls[t][Bottom(t).next]
      /\ \A u \in Tasks : ~Holds(u)
  BY <1>1, CallingFacts
<1>3. PICK f, k, n, path, old, r, g, s, w :
        /\ f = Bottom(t) /\ k = f.next /\ n = Calls[t][k].node /\ path = CallPath(t, k)
        /\ old = RunOf(path) /\ r = [old EXCEPT !.status = "RUNNING"]
        /\ g = Frame(n, path, Recovered(path).answers)
        /\ s = stack[t] /\ w = Append(s, g)
  OBVIOUS
<1>4. /\ Found(n, path).run /\ runs' = Update(path, r) /\ lock' = <<t, 1>>
      /\ stack' = [stack EXCEPT ![t] = w]
  BY <1>1, <1>2, <1>3 DEF Dispatch, Found, StackOK
<1>5. IsSeq(path) /\ path # <<>> /\ Under(t, path) /\ Root(path) = t /\ k \in DOMAIN Calls[t] /\ n \in DynNodes
  <2>1. t \in DynNodes
    BY DEF DynNodes
  <2> QED  BY <1>2, <1>3, <2>1, CallPathFacts, NodeFacts
<1>6. FrameOK(t, g) /\ g.node = n /\ g.path = path /\ g.at = "body"
  <2>1. PICK a : a = Recovered(path).answers
    OBVIOUS
  <2>2. g = Frame(n, path, a) /\ n \in DynNodes /\ IsSeq(path) /\ path # <<>> /\ Under(t, path)
    BY <1>3, <1>5, <2>1
  <2>3. FrameOK(t, g)
    BY <2>2, FrameIsOK
  <2>4. g.node = n /\ g.path = path /\ g.at = "body"
    BY <2>2 DEF Frame
  <2> QED  BY <2>3, <2>4
<1>7. IsSeq(s) /\ Len(s) = 1 /\ w = Append(s, g) /\ DOMAIN s = {1}
  <2>1. IsSeq(s) /\ Len(s) = 1
    BY <1>1, <1>2, <1>3 DEF StackOK
  <2>2. DOMAIN s = 1 .. Len(s)
    BY <2>1, SeqFacts
  <2> QED  BY <1>3, <2>1, <2>2
<1>8. IsSeq(w)
  BY <1>7, AppendFacts
<1>9. Len(w) = Len(s) + 1
  BY <1>7, AppendFacts
<1>10. w[Len(s) + 1] = g
  BY <1>7, AppendFacts
<1>11. \A i \in DOMAIN s : w[i] = s[i]
  BY <1>7, AppendFacts
<1>12. DOMAIN w = DOMAIN s \cup {Len(s) + 1}
  BY <1>7, AppendFacts
<1>13. Len(w) = 2 /\ w[1] = f /\ w[2] = g /\ DOMAIN w = {1, 2}
  <2>1. s[1] = f
    BY <1>3 DEF Bottom
  <2>2. Len(s) = 1 /\ DOMAIN s = {1}
    BY <1>7
  <2> QED  BY <1>9, <1>10, <1>11, <1>12, <2>1, <2>2
<1>14. FrameOK(t, f) /\ f.node = t /\ f.path = TaskPath(t) /\ DOMAIN verdict' = Tasks
  BY <1>1, <1>2, <1>3, StackFacts DEF StackOK
<1>15. \A d \in DOMAIN w : FrameOK(t, w[d])
  BY <1>6, <1>13, <1>14
<1>16. w # <<>> => w[1].node = t /\ w[1].path = TaskPath(t)
  BY <1>13, <1>14
<1>17. StackOK' /\ stack'[t] = w /\ \A u \in Tasks : u # t => stack'[u] = stack[u]
  <2>1. Len(w) <= 2
    BY <1>13
  <2> QED  BY <1>1, <1>4, <1>8, <1>14, <1>15, <1>16, <2>1, StackStep
<1>18. Bottom(t)' = f /\ Inner(t)' = g /\ Len(stack'[t]) = 2 /\ stack'[t] # <<>>
  <2>1. w # <<>>
    BY <1>13, EmptyFacts
  <2> QED  BY <1>13, <1>17, <2>1 DEF Bottom, Inner
<1>19. Holds(t)' /\ \A u \in Tasks : u # t => ~Holds(u)'
  BY <1>2, <1>17, <1>18 DEF Holds, Bottom
<1>20. Locked'
  <2>1. Bottom(t)'.at = "body"
    BY <1>2, <1>3, <1>18
  <2>2. \A u \in Tasks : Len(stack'[u]) = 2 => u = t
    BY <1>19 DEF Holds
  <2> QED  BY <1>4, <1>19, <2>1, <2>2 DEF Locked
<1>21. \A q : RunOf(q)' = IF q = path THEN r ELSE RunOf(q)
  BY <1>4, UpdateFacts
<1>22. r.status = "RUNNING" /\ r.ints = old.ints /\ IsRun(r)
  <2>1. IsRun(old)
    BY <1>1, <1>3, RunFacts
  <2> QED  BY <1>3, <2>1 DEF IsRun
<1>23. Found(n, path)'.run
  <2>1. PICK rec, new : rec = Recovered(path) /\ new = RunOf(path)'
    OBVIOUS
  <2>2. Recovered(path)' = rec
    BY <1>1, <2>1, RecoveredSame
  <2>3. new.status = "RUNNING"
    BY <1>21, <1>22, <2>1
  <2>4. Intercept(n, rec, old, TRUE).run
    BY <1>3, <1>4, <2>1 DEF Found
  <2>5. Intercept(n, rec, new, TRUE).run
    BY <2>3, <2>4, InterceptRunning
  <2> QED  BY <2>1, <2>2, <2>5 DEF Found
<1>24. InnerOK'
  <2>1. Found(Inner(t).node, Inner(t).path)'.run
    <3>1. Inner(t)'.node = n /\ Inner(t)'.path = path
      BY <1>6, <1>18
    <3>2. Found(Inner(t).node, Inner(t).path)' = Found(n, path)'
      BY <3>1 DEF Found, Recovered, RunOf, Positions, Raised, Answered
    <3> QED  BY <1>23, <3>2
  <2>2. RunOf(Inner(t).path)'.status = "RUNNING"
    <3>1. Inner(t)'.path = path
      BY <1>6, <1>18
    <3>2. RunOf(Inner(t).path)' = RunOf(path)'
      BY <3>1 DEF RunOf
    <3> QED  BY <1>21, <1>22, <3>2
  <2>3. /\ Bottom(t)'.next = k /\ k \in DOMAIN Calls[t]
        /\ Inner(t)'.path = CallPath(t, k) /\ Inner(t)'.node = Calls[t][k].node
    BY <1>3, <1>5, <1>6, <1>18
  <2>4. DispatchedOK(t)'
    BY <2>1, <2>2, <2>3 DEF DispatchedOK
  <2>5. \A u \in Tasks : Len(stack'[u]) = 2 => u = t
    BY <1>19 DEF Holds
  <2> QED  BY <2>4, <2>5 DEF InnerOK
<1>25. RunsOK'
  <2>1. OwnIds(Root(path), r.ints) /\ r.status \in {"INACTIVE", "RUNNING", "COMPLETED", "WAITING", "FAILED"}
    BY <1>1, <1>3, <1>22, RunFacts
  <2> QED  BY <1>1, <1>4, <1>22, <2>1, UpdateTyped
<1>26. ASSUME NEW u \in Tasks, Kept(u) PROVE Kept(u)'
  <2>1. CASE u # t
    <3>1. stack'[u] = stack[u] /\ verdict'[u] = verdict[u] /\ Root(path) # u
      BY <1>1, <1>5, <1>17, <2>1
    <3> QED  BY <1>1, <1>4, <1>26, <3>1, OthersKept
  <2>2. CASE u = t
    <3>1. PICK j \in DOMAIN Calls[t] : Sticky(t, j) /\ NotPast(t, j)
      BY <1>26, <2>2 DEF Kept
    <3>2. CallPath(t, j) # CallPath(t, k)
      BY <1>3, <1>4, <1>5, <3>1, RunIsNotSticky
    <3>3. PICK q : q = CallPath(t, j)
      OBVIOUS
    <3>4. RunOf(q)' = RunOf(q)
      BY <1>3, <1>21, <3>2, <3>3
    <3>5. /\ RunOf(CallPath(t, j))'.status = RunOf(CallPath(t, j)).status
          /\ RunOf(CallPath(t, j))'.ints = RunOf(CallPath(t, j)).ints
      BY <3>3, <3>4
    <3>6. Sticky(t, j)'
      BY <1>1, <3>1, <3>5, StickySame
    <3>7. NotPast(t, j)'
      BY <1>2, <1>3, <1>18, <3>1 DEF NotPast
    <3> QED  BY <2>2, <3>6, <3>7 DEF Kept
  <2> QED  BY <2>1, <2>2
<1>27. PendingOK'
  BY <1>1, <1>26 DEF PendingOK
<1>28. Idle' /\ TurnOK' /\ Saved(log)' /\ Saved(events)'
  <2>1. running
    BY <1>2 DEF SchedulerInv, Idle, TurnOK
  <2> QED  BY <1>1, <2>1 DEF SchedulerInv, Idle, TurnOK, Saved
<1> QED  BY <1>17, <1>20, <1>24, <1>25, <1>27, <1>28 DEF SchedulerInv

LEMMA ResultFacts ==
    ASSUME NEW n, NEW f, NEW old, IsRun(old), NEW r, r = Result(n, f, old)
    PROVE  /\ IsRun(r) /\ r.ints \in {old.ints, f.ints}
           /\ r.status \in {"FAILED", "WAITING", "COMPLETED"}
           /\ f.at # "failed" /\ f.ints # {} => r.status = "WAITING" /\ r.ints = f.ints
<1>1. CASE f.at = "failed"
  <2>1. r = [old EXCEPT !.status = "FAILED"]
    BY <1>1 DEF Result
  <2> QED  BY <1>1, <2>1 DEF IsRun
<1>2. CASE f.at # "failed" /\ f.ints # {}
  <2>1. r = [old EXCEPT !.status = "WAITING", !.ints = f.ints]
    BY <1>2 DEF Result
  <2> QED  BY <1>2, <2>1 DEF IsRun
<1>3. CASE f.at # "failed" /\ f.ints = {}
  <2>1. r = [old EXCEPT !.status = "WAITING"] \/ r = [old EXCEPT !.status = "COMPLETED", !.out = f.out]
    BY <1>3 DEF Result
  <2>2. CASE r = [old EXCEPT !.status = "WAITING"]
    BY <1>3, <2>2 DEF IsRun
  <2>3. CASE r = [old EXCEPT !.status = "COMPLETED", !.out = f.out]
    BY <1>3, <2>3 DEF IsRun
  <2> QED  BY <2>1, <2>2, <2>3
<1> QED  BY <1>1, <1>2, <1>3

LEMMA SavedOwn == ASSUME NEW t, NEW s, OwnEvents(t, s) PROVE Saved(s)
BY DEF OwnEvents, OwnEntry, Saved, Under

LEMMA SavedConcat == ASSUME NEW x, NEW y, Saved(x), Saved(y) PROVE Saved(x \o y)
<1>1. IsSeq(x \o y) /\ Range(x \o y) = Range(x) \cup Range(y)
  BY ConcatFacts DEF Saved
<1> QED  BY <1>1 DEF Saved

(* What the caller makes of a run that is over.                            *)
Back(c, f) ==
    IF f.at = "failed" THEN [c EXCEPT !.at = "failed"]
    ELSE [c EXCEPT !.next = @ + 1, !.ints = @ \cup f.ints,
              !.fold = IF c.node \in folding THEN @ \o f.events ELSE @]

LEMMA BackFacts ==
    ASSUME NEW t, NEW c, FrameOK(t, c), c.at = "body", NEW f, FrameOK(t, f), f.at \in {"done", "failed"},
           NEW g, g = Back(c, f)
    PROVE  /\ FrameOK(t, g) /\ g.node = c.node /\ g.path = c.path
           /\ \/ f.at = "failed" /\ g.at = "failed"
              \/ f.at = "done" /\ g.at = "body" /\ g.next = c.next + 1 /\ g.ints = c.ints \cup f.ints
<1>1. CASE f.at = "failed"
  <2>1. g = [c EXCEPT !.at = "failed"]
    BY <1>1 DEF Back
  <2>2. /\ IsFrame(g) /\ g.node = c.node /\ g.path = c.path /\ g.attempt = c.attempt /\ g.next = c.next
        /\ g.at = "failed" /\ g.fold = c.fold /\ g.events = c.events /\ g.ints = c.ints
    BY <2>1 DEF IsFrame, FrameOK
  <2> QED  BY <1>1, <2>2 DEF FrameOK
<1>2. CASE f.at = "done"
  <2>1. PICK x, y, z : x = c.fold /\ y = f.events /\ z = IF c.node \in folding THEN x \o y ELSE x
    OBVIOUS
  <2>2. OwnEvents(t, x) /\ OwnEvents(t, y)
    BY <2>1 DEF FrameOK
  <2>3. OwnEvents(t, x \o y)
    BY <2>2, OwnConcat
  <2>4. OwnEvents(t, z)
    BY <2>1, <2>2, <2>3
  <2>5. PICK ints : ints = c.ints \cup f.ints
    OBVIOUS
  <2>6. g = [c EXCEPT !.next = @ + 1, !.ints = ints, !.fold = z]
    BY <1>2, <2>1, <2>5 DEF Back
  <2>7. /\ IsFrame(g) /\ g.node = c.node /\ g.path = c.path /\ g.attempt = c.attempt /\ g.next = c.next + 1
        /\ g.at = "body" /\ g.fold = z /\ g.events = c.events /\ g.ints = ints
    BY <2>6 DEF IsFrame, FrameOK
  <2>8. OwnIds(t, ints) /\ c.next + 1 \in Nat \ {0}
    BY <2>5 DEF OwnIds, FrameOK
  <2>9. FrameOK(t, g)
    BY <2>4, <2>7, <2>8 DEF FrameOK
  <2> QED  BY <1>2, <2>5, <2>7, <2>9
<1> QED  BY <1>1, <1>2

LEMMA ReturnKeeps == ASSUME SchedulerInv, NEW t \in Tasks, Return(t) PROVE SchedulerInv'
<1>1. /\ StackOK /\ Locked /\ RunsOK /\ PendingOK /\ InnerOK /\ Saved(log) /\ Saved(events)
      /\ UNCHANGED <<log, turn, running, events, verdict>> /\ lock' = NoOwner
      /\ Len(stack[t]) > 1 /\ Top(t).at \in {"done", "failed"}
  BY DEF Return, SchedulerInv
<1>2. /\ stack[t] # <<>> /\ Len(stack[t]) = 2 /\ Top(t) = Inner(t) /\ FrameOK(t, Bottom(t))
      /\ FrameOK(t, Inner(t)) /\ Bottom(t).node = t /\ Bottom(t).path = TaskPath(t)
  <2>1. stack[t] # <<>>
    BY <1>1, SeqFacts DEF StackOK
  <2>2. Len(stack[t]) = 2 /\ Top(t) = Inner(t)
    BY <1>1, <2>1, StackFacts
  <2> QED  BY <1>1, <2>1, <2>2, StackFacts
<1>3. PICK f, c, k, n, path, old, r, g :
        /\ f = Inner(t) /\ c = Bottom(t) /\ k = c.next /\ n = f.node /\ path = f.path
        /\ old = RunOf(path) /\ r = Result(n, f, old) /\ g = Back(c, f)
  OBVIOUS
<1>4. /\ runs' = Update(path, r)
      /\ pendingIds' = (IF f.at = "done" THEN pendingIds \cup f.ints ELSE pendingIds)
      /\ stack' = [stack EXCEPT ![t] = Append(SubSeq(stack[t], 1, 0), g)]
  <2>1. Len(stack[t]) - 1 = 1 /\ Len(stack[t]) - 2 = 0
    BY <1>2
  <2>2. stack[t][Len(stack[t]) - 1] = c
    BY <1>3, <2>1 DEF Bottom
  <2>3. stack' = [stack EXCEPT ![t] = Append(SubSeq(@, 1, Len(@) - 2), g)]
    BY <1>2, <1>3, <2>2 DEF Return, Back
  <2>4. stack' = [stack EXCEPT ![t] = Append(SubSeq(stack[t], 1, 0), g)]
    BY <1>1, <2>1, <2>3 DEF StackOK
  <2>5. /\ runs' = Update(path, r)
        /\ pendingIds' = (IF f.at = "done" THEN pendingIds \cup f.ints ELSE pendingIds)
    BY <1>2, <1>3 DEF Return
  <2> QED  BY <2>4, <2>5
<1>5. /\ k \in DOMAIN Calls[t] /\ path = CallPath(t, k) /\ n = Calls[t][k].node
      /\ Found(n, path).run /\ c.at = "body" /\ FrameOK(t, c) /\ FrameOK(t, f)
      /\ f.at \in {"done", "failed"}
  BY <1>1, <1>2, <1>3 DEF InnerOK, DispatchedOK, Locked
<1>6. /\ FrameOK(t, g) /\ g.node = t /\ g.path = TaskPath(t)
      /\ \/ f.at = "failed" /\ g.at = "failed"
         \/ f.at = "done" /\ g.at = "body" /\ g.next = k + 1 /\ g.ints = c.ints \cup f.ints
  <2>1. FrameOK(t, c) /\ c.at = "body" /\ FrameOK(t, f) /\ f.at \in {"done", "failed"} /\ g = Back(c, f)
    BY <1>3, <1>5
  <2>2. FrameOK(t, g)
    BY ONLY <2>1, BackFacts
  <2>3. g.node = c.node /\ g.path = c.path
    BY ONLY <2>1, BackFacts
  <2>4. \/ f.at = "failed" /\ g.at = "failed"
        \/ f.at = "done" /\ g.at = "body" /\ g.next = c.next + 1 /\ g.ints = c.ints \cup f.ints
    BY ONLY <2>1, BackFacts
  <2> QED  BY <1>2, <1>3, <2>2, <2>3, <2>4
<1>7. /\ StackOK' /\ Locked' /\ InnerOK' /\ Idle' /\ TurnOK' /\ Saved(log)' /\ running
      /\ stack'[t] # <<>> /\ Bottom(t)' = g
      /\ \A u \in Tasks : u # t => stack'[u] = stack[u] /\ verdict'[u] = verdict[u]
  BY <1>1, <1>2, <1>4, <1>6, PopStep
<1>8. Root(path) = t /\ IsRun(old) /\ OwnIds(t, old.ints) /\ OwnIds(t, f.ints)
  BY <1>1, <1>3, <1>5, RunFacts, UnderRoot DEF FrameOK
<1>9. /\ IsRun(r) /\ r.ints \in {old.ints, f.ints}
      /\ r.status \in {"FAILED", "WAITING", "COMPLETED"}
      /\ f.at # "failed" /\ f.ints # {} => r.status = "WAITING" /\ r.ints = f.ints
  BY <1>3, <1>8, ResultFacts
<1>10. RunsOK'
  <2>1. OwnIds(Root(path), r.ints) /\ r.status \in {"INACTIVE", "RUNNING", "COMPLETED", "WAITING", "FAILED"}
    BY <1>8, <1>9
  <2> QED  BY <1>1, <1>4, <1>9, <2>1, UpdateTyped
<1>11. Saved(events)'
  BY <1>1 DEF Saved
<1>12. \A q : RunOf(q)' = IF q = path THEN r ELSE RunOf(q)
  BY <1>4, UpdateFacts
<1>13. ASSUME NEW j \in DOMAIN Calls[t], Sticky(t, j) PROVE Sticky(t, j)' /\ j # k
  <2>1. CallPath(t, j) # CallPath(t, k)
    BY <1>5, <1>13, RunIsNotSticky
  <2>2. PICK q : q = CallPath(t, j)
    OBVIOUS
  <2>3. RunOf(q)' = RunOf(q)
    BY <1>5, <1>12, <2>1, <2>2
  <2>4. /\ RunOf(CallPath(t, j))'.status = RunOf(CallPath(t, j)).status
        /\ RunOf(CallPath(t, j))'.ints = RunOf(CallPath(t, j)).ints
    BY <2>2, <2>3
  <2> QED  BY <1>1, <1>13, <2>1, <2>4, StickySame
<1>14. ASSUME Kept(t) PROVE Kept(t)'
  <2>1. PICK j \in DOMAIN Calls[t] : Sticky(t, j) /\ NotPast(t, j)
    BY <1>14 DEF Kept
  <2>2. c.ints # {} \/ k <= j
    BY <1>2, <1>3, <1>5, <2>1 DEF NotPast
  <2>3. Sticky(t, j)' /\ j # k
    BY <1>13, <2>1
  <2>4. j \in Nat /\ k \in Nat
    <3>1. t \in DynNodes
      BY DEF DynNodes
    <3> QED  BY <1>5, <3>1, NodeFacts
  <2>5. g.at = "failed" \/ g.ints # {} \/ (g.at # "done" /\ g.next <= j)
    BY <1>6, <2>2, <2>3, <2>4
  <2>6. NotPast(t, j)'
    BY <1>7, <2>5 DEF NotPast
  <2> QED  BY <2>3, <2>6 DEF Kept
<1>15. ASSUME f.at = "done", f.ints # {} PROVE Kept(t)'
  <2>1. PICK rec, new, i : rec = Recovered(path)' /\ new = RunOf(path)' /\ i = Found(n, path)'
    OBVIOUS
  <2>2. i = Intercept(n, rec, new, TRUE)
    BY <2>1 DEF Found
  <2>3. new.status = "WAITING" /\ new.ints # {}
    BY <1>9, <1>12, <1>15, <2>1
  <2>4. i.ints # {}
    BY <2>2, <2>3, InterceptFacts
  <2>5. Found(Calls[t][k].node, CallPath(t, k))' = i
    BY <1>5, <2>1
  <2>6. Sticky(t, k)'
    BY <2>4, <2>5 DEF Sticky
  <2>7. NotPast(t, k)'
    BY <1>6, <1>7, <1>15 DEF NotPast
  <2> QED  BY <1>5, <2>6, <2>7 DEF Kept
<1>16. PendingOK'
  <2>1. ASSUME NEW id \in pendingIds' PROVE Asker(id) \in Tasks /\ Kept(Asker(id))'
    <3>1. CASE id \in pendingIds
      <4>1. PICK u \in Tasks : u = Asker(id) /\ Kept(u)
        BY <1>1, <3>1 DEF PendingOK
      <4>2. CASE u = t
        BY <1>14, <4>1, <4>2
      <4>3. CASE u # t
        <5>1. stack'[u] = stack[u] /\ verdict'[u] = verdict[u] /\ Root(path) # u
          BY <1>7, <1>8, <4>3
        <5>2. Kept(u)'
          BY <1>1, <1>4, <4>1, <5>1, OthersKept
        <5> QED  BY <4>1, <5>2
      <4> QED  BY <4>2, <4>3
    <3>2. CASE f.at = "done" /\ id \in f.ints
      <4>1. Asker(id) = t /\ Kept(t)'
        BY <1>8, <1>15, <3>2 DEF OwnIds
      <4> QED  BY <4>1
    <3> QED  BY <1>4, <2>1, <3>1, <3>2
  <2> QED  BY <2>1 DEF PendingOK
<1> QED  BY <1>7, <1>10, <1>11, <1>16 DEF SchedulerInv

(* A task is over; it waits if it made a call that was interrupted.        *)
LEMMA SettleKeeps == ASSUME SchedulerInv, NEW t \in Tasks, Settle(t) PROVE SchedulerInv'
<1>1. /\ StackOK /\ Locked /\ RunsOK /\ PendingOK /\ InnerOK /\ Idle /\ TurnOK
      /\ Saved(log) /\ Saved(events)
      /\ UNCHANGED <<log, turn, running, lock, runs, pendingIds>>
      /\ Len(stack[t]) = 1 /\ Top(t).at \in {"done", "failed"}
      /\ stack' = [stack EXCEPT ![t] = <<>>]
  BY DEF Settle, SchedulerInv
<1>2. stack[t] # <<>>
  BY <1>1, NotEmpty
<1>3. Top(t) = Bottom(t) /\ FrameOK(t, Bottom(t))
  BY <1>1, <1>2, StackFacts
<1>4. PICK f, v, y : f = Bottom(t) /\ y = f.events /\ v = (IF f.at = "failed" THEN "failed"
                                            ELSE IF f.ints # {} THEN "waiting" ELSE "completed")
  OBVIOUS
<1>5. verdict' = [verdict EXCEPT ![t] = v] /\ events' = events \o y /\ FrameOK(t, f)
      /\ f.at \in {"done", "failed"} /\ DOMAIN verdict = Tasks
  BY <1>1, <1>3, <1>4 DEF Settle, StackOK
<1>6. DOMAIN verdict' = Tasks /\ verdict'[t] = v /\ \A u \in Tasks : u # t => verdict'[u] = verdict[u]
  BY <1>5
<1>7. PICK e : e = <<>>
  OBVIOUS
<1>8. IsSeq(e) /\ Len(e) = 0 /\ DOMAIN e = {} /\ stack' = [stack EXCEPT ![t] = e] /\ e = <<>>
  BY <1>1, <1>7, EmptyFacts
<1>9. StackOK' /\ stack'[t] = <<>> /\ \A u \in Tasks : u # t => stack'[u] = stack[u]
  <2>1. Len(e) <= 2
    BY <1>8
  <2>2. \A d \in DOMAIN e : FrameOK(t, e[d])
    BY <1>8
  <2>3. e # <<>> => e[1].node = t /\ e[1].path = TaskPath(t)
    BY <1>8
  <2> QED  BY <1>1, <1>6, <1>8, <2>1, <2>2, <2>3, StackStep
<1>10. ~Holds(t) /\ Len(stack'[t]) # 2
  BY <1>1, <1>3, <1>4, <1>5, <1>9, SMTT(60) DEF Holds
<1>11. \A u \in Tasks : Holds(u)' <=> Holds(u)
  <2>1. ~Holds(t)'
    BY <1>9, <1>10 DEF Holds
  <2> QED  BY <1>9, <1>10, <2>1 DEF Holds, Bottom
<1>12. Locked'
  <2>1. \A u \in Tasks : Len(stack'[u]) = 2 => u # t /\ stack'[u] = stack[u]
    BY <1>9, <1>10
  <2> QED  BY <1>1, <1>11, <2>1 DEF Locked, Bottom, Inner
<1>13. InnerOK'
  <2> SUFFICES ASSUME NEW u \in Tasks, Len(stack'[u]) = 2 PROVE DispatchedOK(u)'
    BY DEF InnerOK
  <2>1. stack'[u] = stack[u]
    BY <1>9, <1>10
  <2>2. DispatchedOK(u)
    BY <1>1, <2>1 DEF InnerOK
  <2>3. /\ Bottom(u)'.next = Bottom(u).next /\ Inner(u)'.path = Inner(u).path
        /\ Inner(u)'.node = Inner(u).node /\ RunOf(Inner(u).path)' = RunOf(Inner(u).path)
    BY <1>1, <2>1 DEF Bottom, Inner, RunOf
  <2> QED  BY <1>1, <2>2, <2>3, DispatchedStays
<1>14. ASSUME NEW u \in Tasks, Kept(u) PROVE Kept(u)'
  <2>1. \A j \in DOMAIN Calls[u] : RunOf(CallPath(u, j))' = RunOf(CallPath(u, j))
    BY <1>1 DEF RunOf
  <2>2. CASE u # t
    BY <1>1, <1>6, <1>9, <1>14, <2>1, <2>2, KeptStays
  <2>3. CASE u = t
    <3>1. PICK j \in DOMAIN Calls[t] : Sticky(t, j) /\ NotPast(t, j)
      BY <1>14, <2>3 DEF Kept
    <3>2. Sticky(t, j)'
      BY <1>1, <2>1, <2>3, <3>1, StickySame
    <3>3. f.at = "failed" \/ f.ints # {}
      BY <1>2, <1>4, <1>5, <3>1 DEF NotPast
    <3>4. verdict'[t] \in {"waiting", "failed"}
      BY <1>4, <1>6, <3>3
    <3>5. NotPast(t, j)'
      BY <1>9, <3>4 DEF NotPast
    <3> QED  BY <2>3, <3>2, <3>5 DEF Kept
  <2> QED  BY <2>2, <2>3
<1>15. PendingOK' /\ RunsOK' /\ TurnOK' /\ Saved(log)'
  BY <1>1, <1>14 DEF PendingOK, RunsOK, TurnOK, Saved
<1>16. Idle'
  BY <1>1, <1>2 DEF Idle
<1>17. Saved(events)'
  <2>1. OwnEvents(t, y)
    BY <1>4, <1>5 DEF FrameOK
  <2>2. Saved(y)
    BY <2>1, SavedOwn
  <2>3. Saved(events \o y)
    BY <1>1, <2>2, SavedConcat
  <2> QED  BY <1>5, <2>3 DEF Saved
<1> QED  BY <1>9, <1>12, <1>13, <1>15, <1>16, <1>17 DEF SchedulerInv

-----------------------------------------------------------------------------
(* Between the turns.                                                      *)

LEMMA SavedNothing == Saved(<<>>)
BY EmptyFacts DEF Saved

(* No stack deeper than one, and nobody waits: the scheduler is free.      *)
LEMMA FreshTurn ==
    ASSUME StackOK', TurnOK', Saved(log)', lock' = NoOwner, runs' = <<>>, pendingIds' = {},
           events' = <<>>,
           \A t \in Tasks : stack'[t] = <<>> \/ (running' /\ Len(stack'[t]) = 1 /\ stack'[t][1].at = "body")
    PROVE  SchedulerInv'
<1>1. PICK e : e = <<>>
  OBVIOUS
<1>2. DOMAIN e = {} /\ Len(e) = 0
  BY <1>1, EmptyFacts
<1>3. \A t \in Tasks : Len(stack'[t]) # 2 /\ ~Holds(t)'
  BY <1>1, <1>2 DEF Holds, Bottom
<1>4. Locked' /\ InnerOK'
  BY <1>3 DEF Locked, InnerOK
<1>5. RunsOK'
  BY <1>1, <1>2 DEF RunsOK
<1>6. PendingOK' /\ Saved(events)'
  BY SavedNothing DEF PendingOK, Saved
<1>7. Idle'
  <2>1. ASSUME NEW t \in Tasks, ~running' PROVE stack'[t] = <<>>
    BY <2>1
  <2> QED  BY <2>1 DEF Idle
<1> QED  BY <1>4, <1>5, <1>6, <1>7 DEF SchedulerInv

LEMMA StartTurnKeeps == ASSUME SchedulerInv, StartTurn PROVE SchedulerInv'
<1>1. ASSUME NEW t \in Tasks
      PROVE  /\ IsSeq(stack'[t]) /\ Len(stack'[t]) <= 2
             /\ \A d \in DOMAIN stack'[t] : FrameOK(t, stack'[t][d])
             /\ stack'[t] # <<>> => /\ stack'[t][1].node = t /\ stack'[t][1].path = TaskPath(t)
                                    /\ Len(stack'[t]) = 1 /\ stack'[t][1].at = "body"
  <2>1. PICK path, a, f, s : /\ path = TaskPath(t) /\ a = Recovered(path).answers
                             /\ f = Frame(t, path, a) /\ s = <<f>>
    OBVIOUS
  <2>2. t \in DynNodes /\ IsSeq(path) /\ path # <<>> /\ Under(t, path)
    BY <2>1, TaskPathFacts DEF DynNodes
  <2>3. FrameOK(t, f)
    BY ONLY <2>1, <2>2, FrameIsOK
  <2>4. f.node = t /\ f.path = path /\ f.at = "body"
    BY <2>1 DEF Frame
  <2>5. stack'[t] \in {s, <<>>}
    BY <2>1 DEF StartTurn
  <2>6. CASE stack'[t] = <<>>
    BY <2>6, EmptyFacts
  <2>7. CASE stack'[t] = s
    <3>1. IsSeq(s)
      BY <2>1, SingleFacts
    <3>2. Len(s) = 1 /\ DOMAIN s = {1} /\ s[1] = f
      BY <2>1
    <3> QED  BY <2>1, <2>3, <2>4, <2>7, <3>1, <3>2
  <2> QED  BY <2>5, <2>6, <2>7
<1>2. DOMAIN stack' = Tasks /\ DOMAIN verdict' = Tasks
  BY DEF StartTurn
<1>3. StackOK'
  BY <1>1, <1>2 DEF StackOK, Bottom
<1>4. TurnOK' /\ Saved(log)' /\ running'
  BY DynConstants DEF StartTurn, SchedulerInv, TurnOK, Saved
<1>5. lock' = NoOwner /\ runs' = <<>> /\ pendingIds' = {} /\ events' = <<>>
  BY DEF StartTurn
<1> QED  BY <1>1, <1>3, <1>4, <1>5, FreshTurn

LEMMA EndTurnKeeps == ASSUME SchedulerInv, EndTurn PROVE SchedulerInv'
<1>1. DOMAIN stack' = Tasks /\ DOMAIN verdict' = Tasks /\ \A t \in Tasks : stack'[t] = <<>>
  BY DEF EndTurn
<1>2. StackOK'
  <2>1. PICK e : e = <<>>
    OBVIOUS
  <2>2. IsSeq(e) /\ DOMAIN e = {} /\ Len(e) = 0
    BY <2>1, EmptyFacts
  <2> QED  BY <1>1, <2>1, <2>2 DEF StackOK
<1>3. Saved(log)'
  <2>1. Saved(log \o events) /\ log' = log \o events
    BY SavedConcat DEF SchedulerInv, EndTurn
  <2> QED  BY <2>1 DEF Saved
<1>4. TurnOK'
  BY DEF EndTurn, SchedulerInv, TurnOK
<1>5. lock' = NoOwner /\ runs' = <<>> /\ pendingIds' = {} /\ events' = <<>>
  BY DEF EndTurn
<1> QED  BY <1>1, <1>2, <1>3, <1>4, <1>5, FreshTurn

(* The ids in the session are finitely many, so the answers form a         *)
(* sequence.                                                               *)
LEMMA AnswersAre ==
    ASSUME Saved(log), NEW S, S \subseteq Reported,
           NEW s, s = SetToSeq({Entry("answer", <<>>, id) : id \in S})
    PROVE  IsSeq(s) /\ Range(s) \subseteq {Entry("answer", <<>>, id) : id \in S}
<1> DEFINE ids == {log[i].id : i \in DOMAIN log}
           A == {Entry("answer", <<>>, id) : id \in S}
<1>1. IsSeq(log) /\ DOMAIN log = 1 .. Len(log) /\ Len(log) \in Nat
  BY SeqFacts DEF Saved
<1>2. IsFiniteSet(ids)
  <2>1. IsFiniteSet(DOMAIN log)
    BY <1>1, FS_Interval
  <2>2. PICK f : f = [i \in DOMAIN log |-> log[i].id]
    OBVIOUS
  <2>3. IsFiniteSet({f[i] : i \in DOMAIN log})
    BY <2>1, FiniteRange
  <2>4. ids = {f[i] : i \in DOMAIN log}
    BY <2>2
  <2> QED  BY <2>3, <2>4
<1>3. S \subseteq ids
  BY DEF Reported, Raised
<1>4. IsFiniteSet(S)
  BY <1>2, <1>3, FS_Subset
<1>5. IsFiniteSet(A)
  <2>1. PICK f : f = [id \in S |-> Entry("answer", <<>>, id)]
    OBVIOUS
  <2>2. IsFiniteSet({f[x] : x \in S})
    BY <1>4, FiniteRange
  <2>3. A = {f[x] : x \in S}
    BY <2>1
  <2> QED  BY <2>2, <2>3
<1>7. s = SetToSeq(A)
  OBVIOUS
<1> HIDE DEF A, ids
<1>8. s \in [1 .. Cardinality(A) -> A] /\ Cardinality(A) \in Nat
  <2>1. Cardinality(A) \in Nat
    BY <1>5, FS_CardinalityType
  <2>2. \E b \in Bijection(1 .. Cardinality(A), A) : TRUE
    BY <1>5, FS_CardinalityType DEF ExistsBijection
  <2>3. \E b \in [1 .. Cardinality(A) -> A] : IsInjective(b)
    <3>1. PICK b \in Bijection(1 .. Cardinality(A), A) : TRUE
      BY <2>2
    <3>2. b \in [1 .. Cardinality(A) -> A]
      BY <3>1 DEF Bijection, Injection
    <3>3. IsInjective(b)
      BY <3>1 DEF Bijection, Injection
    <3> QED  BY <3>2, <3>3
  <2>4. s = CHOOSE f \in [1 .. Cardinality(A) -> A] : IsInjective(f)
    BY <1>7 DEF SetToSeq
  <2> QED  BY <2>1, <2>3, <2>4
<1>9. s \in Seq(A)
  BY <1>8
<1>10. IsSeq(s) /\ Range(s) \subseteq A
  BY <1>8, <1>9 DEF IsSeq, Range
<1> QED  BY <1>10 DEF A

LEMMA AnswersSaved ==
    ASSUME Saved(log), NEW S, S \subseteq Reported
    PROVE  Saved(SetToSeq({Entry("answer", <<>>, id) : id \in S}))
<1>1. PICK s, A : s = SetToSeq({Entry("answer", <<>>, id) : id \in S}) /\ A = {Entry("answer", <<>>, id) : id \in S}
  OBVIOUS
<1>2. IsSeq(s) /\ Range(s) \subseteq A
  BY <1>1, AnswersAre
<1>3. \A e \in A : e.kind # "int"
  BY <1>1 DEF Entry
<1>4. Saved(s)
  BY <1>2, <1>3 DEF Saved
<1> QED  BY <1>1, <1>4

LEMMA AnswerKeeps == ASSUME SchedulerInv, NEW S, Answer(S) PROVE SchedulerInv'
<1>1. /\ StackOK /\ Locked /\ RunsOK /\ InnerOK /\ Idle /\ TurnOK /\ Saved(log) /\ Saved(events)
      /\ UNCHANGED <<turn, running, stack, lock, runs, pendingIds, events, verdict>>
      /\ ~running /\ S # {} /\ S \subseteq Reported
      /\ log' = log \o SetToSeq({Entry("answer", <<>>, id) : id \in S})
  BY DEF Answer, SchedulerInv, inTurn
<1>2. pendingIds = {} /\ runs = <<>> /\ \A t \in Tasks : stack[t] = <<>>
  BY <1>1 DEF Idle
<1>3. Saved(log')
  BY <1>1, AnswersSaved, SavedConcat
<1>4. Saved(log)' /\ Saved(events)'
  BY <1>1, <1>3 DEF Saved
<1>5. StackOK' /\ Locked' /\ RunsOK' /\ Idle' /\ TurnOK' /\ PendingOK'
  <2>1. StackOK'
    BY <1>1 DEF StackOK, Bottom
  <2>2. Locked'
    BY <1>1 DEF Locked, Holds, Bottom, Inner
  <2> QED  BY <1>1, <1>2, <2>1, <2>2 DEF RunsOK, Idle, TurnOK, PendingOK
<1>6. InnerOK'
  <2>1. PICK e : e = <<>>
    OBVIOUS
  <2>2. Len(e) = 0
    BY <2>1
  <2>3. \A t \in Tasks : stack'[t] = e
    BY <1>1, <1>2, <2>1
  <2>4. \A t \in Tasks : Len(stack'[t]) # 2
    BY <2>2, <2>3
  <2> QED  BY <2>4 DEF InnerOK
<1> QED  BY <1>4, <1>5, <1>6 DEF SchedulerInv
-----------------------------------------------------------------------------
(* The invariant.                                                          *)

LEMMA InitKeeps == ASSUME Init PROVE SchedulerInv
<1>1. PICK e : e = <<>>
  OBVIOUS
<1>2. IsSeq(e) /\ DOMAIN e = {} /\ Len(e) = 0
  BY <1>1, EmptyFacts
<1>3. /\ DOMAIN stack = Tasks /\ DOMAIN verdict = Tasks /\ \A t \in Tasks : stack[t] = e
      /\ lock = NoOwner /\ runs = e /\ pendingIds = {} /\ log = e /\ events = e /\ ~running /\ turn = 0
  BY <1>1 DEF Init
<1>4. StackOK
  BY <1>1, <1>2, <1>3 DEF StackOK
<1>5. Locked /\ InnerOK
  <2>1. \A t \in Tasks : Len(stack[t]) # 2 /\ ~Holds(t)
    BY <1>1, <1>2, <1>3 DEF Holds
  <2> QED  BY <1>3, <2>1 DEF Locked, InnerOK
<1>6. RunsOK /\ PendingOK /\ Idle
  BY <1>1, <1>2, <1>3 DEF RunsOK, PendingOK, Idle
<1>7. Saved(log) /\ Saved(events)
  BY <1>1, <1>3, SavedNothing
<1>8. TurnOK
  <2>1. MaxTurn \in Nat
    BY DynConstants
  <2>2. turn = 0
    BY DEF Init
  <2>3. turn \in 0 .. MaxTurn
    BY <2>1, <2>2
  <2>4. running \in BOOLEAN
    BY Zenon DEF Init
  <2> QED  BY <2>3, <2>4 DEF TurnOK
<1> QED  BY <1>4, <1>5, <1>6, <1>7, <1>8 DEF SchedulerInv

LEMMA StutterKeeps == ASSUME SchedulerInv, UNCHANGED vars PROVE SchedulerInv'
<1>1. UNCHANGED <<log, turn, running, stack, lock, runs, pendingIds, events, verdict>>
  BY DEF vars, inTurn
<1>2. \A n, p : Found(n, p)' = Found(n, p)
  BY <1>1 DEF Found, Recovered, RunOf, Positions, Raised, Answered
<1>3. \A p : RunOf(p)' = RunOf(p)
  BY <1>1 DEF RunOf
<1>4. TurnOK' /\ StackOK' /\ Locked' /\ RunsOK' /\ Idle' /\ Saved(log)' /\ Saved(events)'
  BY <1>1 DEF SchedulerInv, TurnOK, StackOK, Locked, Holds, Bottom, Inner, RunsOK, Idle, Saved
<1>5. InnerOK'
  <2> SUFFICES ASSUME NEW t \in Tasks, Len(stack'[t]) = 2 PROVE DispatchedOK(t)'
    BY DEF InnerOK
  <2>1. DispatchedOK(t)
    BY <1>1 DEF SchedulerInv, InnerOK
  <2>2. /\ Bottom(t)'.next = Bottom(t).next /\ Inner(t)'.path = Inner(t).path
        /\ Inner(t)'.node = Inner(t).node /\ RunOf(Inner(t).path)' = RunOf(Inner(t).path)
    BY <1>1 DEF Bottom, Inner, RunOf
  <2> QED  BY <1>1, <2>1, <2>2, DispatchedStays
<1>6. PendingOK'
  <2>1. ASSUME NEW u \in Tasks, Kept(u) PROVE Kept(u)'
    <3>1. \A j \in DOMAIN Calls[u] : RunOf(CallPath(u, j))' = RunOf(CallPath(u, j))
      BY <1>1 DEF RunOf
    <3>2. stack'[u] = stack[u] /\ verdict'[u] = verdict[u]
      BY <1>1
    <3> QED  BY <1>1, <2>1, <3>1, <3>2, KeptStays
  <2> QED  BY <1>1, <2>1 DEF PendingOK, SchedulerInv
<1> QED  BY <1>4, <1>5, <1>6 DEF SchedulerInv

LEMMA NextKeeps == ASSUME SchedulerInv, Next PROVE SchedulerInv'
<1>1. CASE StartTurn
  BY <1>1, StartTurnKeeps
<1>2. CASE EndTurn
  BY <1>2, EndTurnKeeps
<1>3. ASSUME NEW t \in Tasks, TaskStep(t) PROVE SchedulerInv'
  <2>1. CASE Dispatch(t)
    BY <2>1, DispatchKeeps
  <2>2. CASE FastForward(t)
    BY <2>2, FastForwardKeeps
  <2>3. ASSUME NEW o \in {"none", "out", "int", "err", "intOutTwice"}, EndAttempt(t, o)
        PROVE  SchedulerInv'
    BY <2>3, EndAttemptKeeps
  <2>4. CASE Return(t)
    BY <2>4, ReturnKeeps
  <2>5. CASE Settle(t)
    BY <2>5, SettleKeeps
  <2> QED  BY <1>3, <2>1, <2>2, <2>3, <2>4, <2>5 DEF TaskStep
<1>4. ASSUME NEW t \in Tasks, NEW d \in 1 .. 3, Timeout(t, d) PROVE SchedulerInv'
  BY <1>4, TimeoutTopKeeps, TimeoutBottomKeeps
<1>5. ASSUME NEW S \in SUBSET (Reported \ Answered), Answer(S) PROVE SchedulerInv'
  BY <1>5, AnswerKeeps
<1> QED  BY <1>1, <1>2, <1>3, <1>4, <1>5 DEF Next

(* The state of every run of the scheduler is as SchedulerInv says: tasks  *)
(* two frames deep at most, the lock with the one task that dispatched, and *)
(* no interrupted call passed over.                                        *)
THEOREM SchedulerInvariant == Spec => []SchedulerInv
<1>1. Init => SchedulerInv
  BY InitKeeps
<1>2. SchedulerInv /\ [Next]_vars => SchedulerInv'
  BY NextKeeps, StutterKeeps
<1> QED  BY <1>1, <1>2, PTL DEF Spec

-----------------------------------------------------------------------------
(* What follows from it.                                                   *)

LEMMA LockHeld == ASSUME SchedulerInv PROVE lock # NoOwner <=> Dispatched # {}
<1>1. StackOK /\ Locked
  BY DEF SchedulerInv
<1>2. ASSUME lock # NoOwner PROVE Dispatched # {}
  <2>1. PICK t \in Tasks : Len(stack[t]) = 2
    BY <1>1, <1>2 DEF Locked, Holds
  <2>2. PICK D : D = {stack[t][d] : d \in 2 .. Len(stack[t])}
    OBVIOUS
  <2>3. stack[t][2] \in D
    BY <2>1, <2>2
  <2>4. D \subseteq Dispatched
    BY <2>2 DEF Dispatched
  <2> QED  BY <2>3, <2>4
<1>3. ASSUME NEW t \in Tasks, Holds(t) PROVE lock # NoOwner
  BY <1>1, <1>3 DEF Locked, NoOwner
<1>4. ASSUME Dispatched # {} PROVE lock # NoOwner
  <2>1. PICK t \in Tasks : {stack[t][d] : d \in 2 .. Len(stack[t])} # {}
    BY <1>4 DEF Dispatched
  <2>2. PICK s : s = stack[t]
    OBVIOUS
  <2>3. IsSeq(s) /\ Len(s) <= 2 /\ 2 .. Len(s) # {}
    BY <1>1, <2>1, <2>2 DEF StackOK
  <2>4. Len(s) \in Nat
    BY <2>3, SeqFacts
  <2>5. Len(s) = 2
    <3>1. PICK n : n = Len(s)
      OBVIOUS
    <3>2. n \in Nat /\ n <= 2
      BY <2>3, <2>4, <3>1
    <3>3. PICK d : d \in 2 .. n
      BY <2>3, <3>1
    <3> QED  BY <3>1, <3>2, <3>3
  <2> QED  BY <1>3, <2>2, <2>5 DEF Holds
<1> QED  BY <1>2, <1>4

(* Whatever the bodies, retries and timeouts, the scheduler's lock is held *)
(* exactly while a dispatched run is under way, and no node has more       *)
(* attempts than its retry configuration allows                            *)
(* (workflow_dynamic_node_scheduler.rs, workflow_node_runner.rs).          *)
THEOREM SchedulerTypeCorrect == Spec => []SchedulerTypeOK
<1>1. SchedulerInv => SchedulerTypeOK
  <2> SUFFICES ASSUME SchedulerInv PROVE SchedulerTypeOK
    OBVIOUS
  <2>1. ASSUME NEW f \in Frames
        PROVE  f.attempt \in 1 .. MaxAttempts[f.node] /\ f.at \in {"body", "done", "failed"}
    <3>1. PICK t \in Tasks : f \in Range(stack[t])
      BY DEF Frames
    <3>2. FrameOK(t, f)
      BY <3>1 DEF Range, SchedulerInv, StackOK
    <3> QED  BY <3>2 DEF FrameOK
  <2>2. turn \in 0 .. MaxTurn /\ running \in BOOLEAN
    BY DEF SchedulerInv, TurnOK
  <2>3. \A p \in DOMAIN runs : runs[p].status \in {"INACTIVE", "RUNNING", "COMPLETED", "WAITING", "FAILED"}
    BY DEF SchedulerInv, RunsOK
  <2> QED  BY <2>1, <2>2, <2>3, LockHeld DEF SchedulerTypeOK
<1> QED  BY <1>1, SchedulerInvariant, PTL

(* However often the bodies are retried, and whatever they do with the     *)
(* events they are returned: an id that the scheduler adds to the          *)
(* interrupts of the workflow is one a waiting static node asked for, so   *)
(* no failed attempt leaves an id that nobody waits for.                   *)
THEOREM PendingWaits == Spec => []PendingHasWaiter
<1>1. SchedulerInv => PendingHasWaiter
  <2> SUFFICES ASSUME SchedulerInv, Settled, \A t \in Tasks : verdict[t] # "failed",
                      NEW id \in pendingIds
               PROVE  verdict[id[1][1][1]] = "waiting"
    BY DEF PendingHasWaiter
  <2>1. PICK t : t = Asker(id)
    OBVIOUS
  <2>2. t \in Tasks /\ Kept(t)
    BY <2>1 DEF SchedulerInv, PendingOK
  <2>3. verdict[t] \in {"waiting", "failed"}
    BY <2>2 DEF Kept, NotPast, Settled
  <2>4. verdict[t] = "waiting"
    BY <2>2, <2>3
  <2> QED  BY <2>1, <2>4 DEF Asker, Root
<1> QED  BY <1>1, SchedulerInvariant, PTL

-----------------------------------------------------------------------------
(* From turn to turn: the answers of the session, the calls that gave      *)
(* their output, and the requests of a body that folds its calls' events.  *)

Asks(s) == {e \in Range(s) : e.kind = "int"}
Fresh(s, k) == \A e \in Asks(s) : e.id[2] = k

(* A request of an earlier turn that nobody has answered.                  *)
AskedBefore(t) == \E e \in Asks(log) : Under(t, e.path) /\ e.id \notin Answered

(* Requests are numbered by their turns, and answers are to requests.      *)
LogTold ==
    /\ \A e \in Asks(log) : e.id[2] \in Nat /\ e.id[2] <= turn /\ (running => e.id[2] # turn)
    /\ \A id \in Answered : \E e \in Asks(log) : e.id = id
EventsTold ==
    /\ Fresh(events, turn) /\ \A e \in Range(events) : e.kind # "answer"
    /\ ~running => events = <<>>

(* A call that gave its output in this turn is a run that is completed.    *)
CompletedTold ==
    running => \A t \in Tasks : \A j \in Nat :
        <<TaskPath(t), j>> \in completed =>
            j \in DOMAIN Calls[t] /\ RunOf(CallPath(t, j)).status = "COMPLETED"

FrameTold(f, k) == Fresh(f.events, k) /\ Fresh(f.fold, k)
Asking(f) == Asks(f.events) # {} \/ (f.at = "body" /\ Asks(f.fold) # {})

(* A task that folds and has one attempt has the requests it waits for.    *)
Single(t) == t \in folding /\ MaxAttempts[t] = 1
Wants(t) == Bottom(t).ints # {} \/ \E j \in DOMAIN Calls[t] : RunOf(CallPath(t, j)).ints # {}
BottomTold(t) ==
    /\ Bottom(t).answers = Recovered(TaskPath(t)).answers
    /\ Single(t) /\ Bottom(t).at # "failed" /\ Wants(t) => AskedBefore(t) \/ Asking(Bottom(t))
InnerTold(f) ==
    /\ f.at = "body" => f.ints = {}
    /\ f.at = "done" /\ f.ints # {} => Asks(f.events) # {}
WaitTold(t) ==
    Single(t) /\ running /\ verdict[t] = "waiting" =>
        AskedBefore(t) \/ \E e \in Asks(events) : Under(t, e.path)
TaskTold(t) ==
    /\ \A d \in DOMAIN stack[t] : FrameTold(stack[t][d], turn)
    /\ stack[t] # <<>> => BottomTold(t)
    /\ Len(stack[t]) = 2 => InnerTold(Inner(t))
    /\ WaitTold(t)

SessionInv == LogTold /\ EventsTold /\ CompletedTold /\ \A t \in Tasks : TaskTold(t)

-----------------------------------------------------------------------------
(* Paths and the events of an attempt.                                     *)

LEMMA PrefixUnder ==
    ASSUME NEW t, NEW p, IsSeq(p), p # <<>>, Under(t, p), NEW q, IsSeq(q), IsPrefix(p, q)
    PROVE  Under(t, q)
<1>1. Len(p) <= Len(q) /\ SubSeq(p, 1, Len(p)) = SubSeq(q, 1, Len(p)) /\ p[1] = <<t, "1">>
  BY DEF IsPrefix, Under
<1>2. PICK X, Y : p \in Seq(X) /\ q \in Seq(Y)
  BY DEF IsSeq
<1>3. Len(p) \in Nat \ {0} /\ Len(q) \in Nat
  BY <1>1, <1>2
<1>4. SubSeq(p, 1, Len(p))[1] = p[1] /\ SubSeq(q, 1, Len(p))[1] = q[1]
  BY <1>1, <1>2, <1>3
<1> QED  BY <1>1, <1>4 DEF Under

LEMMA TaskPathIsPrefix ==
    ASSUME NEW t, NEW q, IsSeq(q), q # <<>>, Under(t, q)
    PROVE  IsPrefix(TaskPath(t), q)
<1>1. PICK x, p : x = <<t, "1">> /\ p = <<x>>
  OBVIOUS
<1>2. PICK Y : q \in Seq(Y)
  BY DEF IsSeq
<1>3. Len(q) \in Nat \ {0} /\ q[1] = x
  BY <1>1, <1>2 DEF Under
<1>4. p \in Seq({x}) /\ Len(p) = 1 /\ p[1] = x
  BY <1>1
<1>5. PICK v, w : v = SubSeq(p, 1, 1) /\ w = SubSeq(q, 1, 1)
  OBVIOUS
<1>6. PICK Z : Z = Y \cup {x}
  OBVIOUS
<1>7. v \in Seq(Z) /\ Len(v) = 1 /\ v[1] = x
  <2>1. p \in Seq(Z)
    BY <1>1, <1>6
  <2> QED  BY <1>4, <1>5, <2>1
<1>8. w \in Seq(Z) /\ Len(w) = 1 /\ w[1] = x
  <2>1. q \in Seq(Z)
    BY <1>2, <1>6
  <2> QED  BY <1>3, <1>5, <2>1
<1>9. v = w
  BY <1>7, <1>8
<1> QED  BY <1>1, <1>3, <1>4, <1>5, <1>9 DEF TaskPath, IsPrefix

(* The requests open below a path of a task are open in the session.       *)
LEMMA OpenAsks ==
    ASSUME Saved(log), NEW t, NEW p, IsSeq(p), p # <<>>, Under(t, p), Recovered(p).open # {}
    PROVE  AskedBefore(t)
<1>1. PICK id : id \in Raised(p) /\ id \notin Answered
  BY DEF Recovered
<1>2. PICK i \in DOMAIN log : log[i].kind = "int" /\ IsPrefix(p, log[i].path) /\ log[i].id = id
  BY <1>1 DEF Raised
<1>3. PICK e : e = log[i]
  OBVIOUS
<1>4. e \in Asks(log) /\ e \in Range(log)
  BY <1>2, <1>3 DEF Asks, Range
<1>5. IsSeq(e.path) /\ IsPrefix(p, e.path) /\ e.id = id
  BY <1>2, <1>3, <1>4 DEF Saved, Asks
<1>6. Under(t, e.path)
  <2>1. PICK q : q = e.path
    OBVIOUS
  <2>2. IsSeq(q) /\ IsPrefix(p, q)
    BY <1>5, <2>1
  <2>3. Under(t, q)
    BY <2>2, PrefixUnder
  <2> QED  BY <2>1, <2>3
<1> QED  BY <1>1, <1>4, <1>5, <1>6 DEF AskedBefore

LEMMA NoAsks == Asks(<<>>) = {} /\ \A k : Fresh(<<>>, k)
BY EmptyFacts DEF Asks, Fresh

LEMMA AsksConcat ==
    ASSUME NEW x, NEW y, IsSeq(x), IsSeq(y)
    PROVE  Asks(x \o y) = Asks(x) \cup Asks(y)
<1>1. PICK z : z = x \o y
  OBVIOUS
<1>2. Range(z) = Range(x) \cup Range(y)
  BY <1>1, ConcatFacts
<1> QED  BY <1>1, <1>2 DEF Asks

(* A failed attempt leaves its events, and the next one has no interrupts. *)
LEMMA ErroredTold ==
    ASSUME NEW t, NEW f, FrameOK(t, f), NEW k, FrameTold(f, k), NEW error, NEW g, g = Errored(f, error)
    PROVE  /\ FrameTold(g, k) /\ g.answers = f.answers
           /\ g.at = "failed" \/ (g.at = "body" /\ g.ints = {} /\ MaxAttempts[f.node] # 1)
<1>1. PICK x, e, s, noted : /\ x = f.events /\ e = Entry("err", f.path, <<>>) /\ s = Append(x, e)
                            /\ noted = [f EXCEPT !.events = Append(@, Entry("err", f.path, <<>>))]
  OBVIOUS
<1>2. DOMAIN f = {"node", "path", "attempt", "next", "ints", "out", "events", "fold", "answers", "at"}
  BY DEF FrameOK, IsFrame
<1>3. noted = [f EXCEPT !.events = s]
  BY <1>1
<1>4. /\ DOMAIN noted = DOMAIN f /\ noted.answers = f.answers
      /\ noted.fold = f.fold /\ noted.ints = f.ints /\ noted.events = s
  BY <1>2, <1>3
<1>5. Asks(s) = Asks(x)
  <2>1. IsSeq(x)
    BY <1>1 DEF FrameOK, OwnEvents
  <2>2. Range(s) = Range(x) \cup {e}
    BY <1>1, <2>1, AppendFacts, ZenonT(60)
  <2>3. e.kind # "int"
    BY <1>1 DEF Entry
  <2> QED  BY <2>2, <2>3 DEF Asks
<1>6. Fresh(s, k) /\ Fresh(f.fold, k)
  BY <1>1, <1>5 DEF FrameTold, Fresh
<1>7. CASE ShouldRetry(f.node, f.attempt, error)
  <2>1. g = [noted EXCEPT !.attempt = @ + 1, !.next = 1, !.ints = {}, !.out = FALSE,
                          !.fold = <<>>, !.at = "body"]
    BY <1>1, <1>7 DEF Errored
  <2>2. /\ g.answers = noted.answers /\ g.fold = <<>> /\ g.ints = {} /\ g.events = noted.events
        /\ g.at = "body"
    BY <1>2, <1>4, <2>1
  <2>3. MaxAttempts[f.node] # 1
    BY <1>7, NodeFacts DEF ShouldRetry, FrameOK
  <2> QED  BY <1>4, <1>6, <2>2, <2>3, NoAsks DEF FrameTold
<1>8. CASE ~ShouldRetry(f.node, f.attempt, error)
  <2>1. g = [noted EXCEPT !.at = "failed"]
    BY <1>1, <1>8 DEF Errored
  <2>2. g.answers = noted.answers /\ g.fold = noted.fold /\ g.events = noted.events /\ g.at = "failed"
    BY <1>2, <1>4, <2>1
  <2> QED  BY <1>4, <1>6, <2>2 DEF FrameTold
<1> QED  BY <1>7, <1>8

(* What a body yields has the number of the turn, and what it folds keeps  *)
(* its own.                                                                *)
LEMMA OwnFresh ==
    ASSUME NEW f, NEW kinds, IsSeq(kinds), NEW s, s = Own(f, kinds)
    PROVE  Fresh(s, turn)
<1>1. SUFFICES ASSUME NEW e \in Range(s), e.kind = "int" PROVE e.id[2] = turn
  BY DEF Fresh, Asks
<1>2. PICK i \in DOMAIN kinds :
        e = Entry(kinds[i], f.path, IF kinds[i] = "int" THEN <<f.path, turn, f.attempt>> ELSE <<>>)
  BY DEF Own, Range
<1>3. kinds[i] = "int"
  BY <1>1, <1>2 DEF Entry
<1>4. e.id = <<f.path, turn, f.attempt>>
  BY <1>2, <1>3 DEF Entry
<1> QED  BY <1>4

LEMMA FoldFresh ==
    ASSUME NEW t, NEW f, FrameOK(t, f), NEW k, Fresh(f.fold, k),
           NEW s, s = [i \in DOMAIN f.fold |-> [f.fold[i] EXCEPT !.path = f.path]]
    PROVE  Fresh(s, k) /\ (Asks(f.fold) # {} => Asks(s) # {})
<1>1. PICK y, q : y = f.fold /\ q = f.path
  OBVIOUS
<1>2. OwnEvents(t, y) /\ s = [i \in DOMAIN y |-> [y[i] EXCEPT !.path = q]]
  BY <1>1 DEF FrameOK
<1>3. ASSUME NEW i \in DOMAIN y
      PROVE  s[i].kind = y[i].kind /\ s[i].id = y[i].id /\ y[i] \in Range(y) /\ s[i] \in Range(s)
  <2>1. PICK e : e = y[i] /\ e \in Range(y)
    BY DEF Range
  <2>2. IsEntry(e) /\ s[i] = [e EXCEPT !.path = q]
    BY <1>2, <2>1 DEF OwnEvents, OwnEntry
  <2>3. s[i].kind = e.kind /\ s[i].id = e.id
    BY <2>2 DEF IsEntry
  <2>4. DOMAIN s = DOMAIN y
    BY <1>2
  <2>5. s[i] \in Range(s)
    BY <2>4 DEF Range
  <2> QED  BY <2>1, <2>3, <2>5
<1>4. Fresh(s, k)
  <2> SUFFICES ASSUME NEW e \in Range(s), e.kind = "int" PROVE e.id[2] = k
    BY DEF Fresh, Asks
  <2>1. PICK i \in DOMAIN y : e = s[i]
    BY <1>2 DEF Range
  <2>2. y[i] \in Asks(y) /\ y[i].id = e.id
    BY <1>3, <2>1 DEF Asks
  <2> QED  BY <1>1, <2>2 DEF Fresh
<1>5. ASSUME Asks(y) # {} PROVE Asks(s) # {}
  <2>1. PICK e : e \in Range(y) /\ e.kind = "int"
    BY <1>5 DEF Asks
  <2>2. PICK i \in DOMAIN y : e = y[i]
    BY <2>1 DEF Range
  <2>3. s[i] \in Range(s) /\ s[i].kind = "int"
    BY <1>3, <2>1, <2>2
  <2> QED  BY <2>3 DEF Asks
<1> QED  BY <1>1, <1>4, <1>5

(* The end of an attempt: what the frame held is among its events.         *)
LEMMA YieldsTold ==
    ASSUME NEW t, NEW f, FrameOK(t, f), FrameTold(f, turn), f.at = "body", NEW kinds, IsSeq(kinds),
           \A i \in DOMAIN kinds : kinds[i] # "answer", NEW g, g = Yields(f, kinds)
    PROVE  /\ FrameTold(g, turn) /\ g.answers = f.answers
           /\ \/ g.at = "failed" \/ (g.at = "body" /\ g.ints = {} /\ MaxAttempts[f.node] # 1)
              \/ /\ g.at = "done" /\ (Asking(f) => Asks(g.events) # {})
                 /\ g.ints # {} => f.ints # {} \/ Asks(g.events) # {}
<1>1. PICK v, x, y, ys, kept :
        /\ v = f.events /\ x = [i \in DOMAIN f.fold |-> [f.fold[i] EXCEPT !.path = f.path]]
        /\ y = Own(f, kinds) /\ ys = x \o y /\ kept = Tracked(ys)
  OBVIOUS
<1>2. OwnEvents(t, x) /\ OwnEvents(t, y) /\ OwnEvents(t, v)
  BY <1>1, FoldOwn, OwnOwn DEF FrameOK
<1>3. OwnEvents(t, ys) /\ OwnEvents(t, kept)
  <2>1. OwnEvents(t, ys)
    BY <1>1, <1>2, OwnConcat
  <2> QED  BY <1>1, <2>1, TrackedOwn
<1>4. Fresh(x, turn) /\ Fresh(y, turn) /\ (Asks(f.fold) # {} => Asks(x) # {})
  <2>1. Fresh(f.fold, turn)
    BY DEF FrameTold
  <2> QED  BY <1>1, <2>1, FoldFresh, OwnFresh
<1>5. Asks(ys) = Asks(x) \cup Asks(y)
  BY <1>1, <1>2, AsksConcat DEF OwnEvents
<1>6. Asks(kept) \subseteq Asks(ys)
  <2>1. Range(kept) \subseteq Range(ys)
    BY <1>1, <1>3, TrackedPart DEF OwnEvents
  <2> QED  BY <2>1 DEF Asks
<1>7. PICK evs, ints, o :
        /\ evs = v \o kept
        /\ ints = f.ints \cup {kept[i].id : i \in {j \in DOMAIN kept : kept[j].kind = "int"}}
        /\ o = (f.out \/ Outputs(kept) # {})
  OBVIOUS
<1>8. Asks(evs) = Asks(v) \cup Asks(kept)
  BY <1>2, <1>3, <1>7, AsksConcat DEF OwnEvents
<1>9. Fresh(evs, turn) /\ Fresh(f.fold, turn)
  BY <1>1, <1>4, <1>5, <1>6, <1>8 DEF Fresh, FrameTold
<1>10. ASSUME ints # {}, f.ints = {} PROVE Asks(evs) # {}
  <2>1. PICK j \in DOMAIN kept : kept[j].kind = "int"
    BY <1>7, <1>10
  <2>2. kept[j] \in Asks(kept)
    BY <2>1 DEF Asks, Range
  <2> QED  BY <1>8, <2>2
<1>11. PICK h : h = [f EXCEPT !.events = evs, !.out = o, !.ints = ints]
  OBVIOUS
<1>12. g = IF kept = ys THEN [h EXCEPT !.at = "done"] ELSE Errored(h, "NodeError")
  BY <1>1, <1>7, <1>11 DEF Yields
<1>13. /\ IsFrame(h) /\ h.node = f.node /\ h.path = f.path /\ h.attempt = f.attempt /\ h.next = f.next
       /\ h.at = f.at /\ h.fold = f.fold /\ h.events = evs /\ h.ints = ints /\ h.answers = f.answers
  BY <1>11 DEF FrameOK, IsFrame
<1>14. FrameTold(h, turn)
  BY <1>9, <1>13 DEF FrameTold
<1>15. CASE kept = ys
  <2>1. g = [h EXCEPT !.at = "done"]
    BY <1>12, <1>15
  <2>2. /\ g.at = "done" /\ g.fold = h.fold /\ g.events = h.events /\ g.ints = h.ints
        /\ g.answers = h.answers
    BY <1>13, <2>1 DEF IsFrame
  <2>3. FrameTold(g, turn)
    BY <1>14, <2>2 DEF FrameTold
  <2>4. Asking(f) => Asks(evs) # {}
    BY <1>1, <1>4, <1>5, <1>8, <1>15 DEF Asking
  <2> QED  BY <1>10, <1>13, <2>2, <2>3, <2>4
<1>16. CASE kept # ys
  <2>1. OwnIds(t, ints) /\ OwnEvents(t, evs)
    <3>1. \A i \in DOMAIN kept : kept[i].kind = "int" => Asker(kept[i].id) = t
      BY <1>3, UnderRoot DEF OwnEvents, OwnEntry, Range, Asker
    <3>2. OwnIds(t, f.ints)
      BY DEF FrameOK
    <3>3. OwnIds(t, ints)
      BY <1>7, <3>1, <3>2 DEF OwnIds
    <3> QED  BY <1>2, <1>3, <1>7, <3>3, OwnConcat
  <2>2. FrameOK(t, h)
    BY <1>13, <2>1 DEF FrameOK
  <2>3. g = Errored(h, "NodeError")
    BY <1>12, <1>16
  <2>4. /\ FrameTold(g, turn) /\ g.answers = h.answers
        /\ g.at = "failed" \/ (g.at = "body" /\ g.ints = {} /\ MaxAttempts[h.node] # 1)
    BY <1>14, <2>2, <2>3, ErroredTold
  <2> QED  BY <1>13, <2>4
<1> QED  BY <1>15, <1>16

-----------------------------------------------------------------------------
(* The steps of a task.                                                    *)

(* The log stays, and so do the requests in it.                            *)
LEMMA LogStays ==
    ASSUME log' = log, NEW t
    PROVE  (AskedBefore(t)' <=> AskedBefore(t)) /\ Answered' = Answered
BY DEF AskedBefore, Answered, Asks, Under

(* One task moves: the others have what they had.                          *)
LEMMA TaskMoves ==
    ASSUME SchedulerInv, SessionInv, NEW t \in Tasks, running,
           UNCHANGED <<folding, log, turn, running>>,
           \A u \in Tasks : u # t => stack'[u] = stack[u] /\ verdict'[u] = verdict[u],
           \A u \in Tasks : u # t =>
               \A j \in DOMAIN Calls[u] : RunOf(CallPath(u, j))'.ints = RunOf(CallPath(u, j)).ints,
           EventsTold', Asks(events) \subseteq Asks(events)', CompletedTold', TaskTold(t)'
    PROVE  SessionInv'
<1>1. LogTold'
  BY LogStays DEF SessionInv, LogTold
<1>2. ASSUME NEW u \in Tasks, u # t PROVE TaskTold(u)'
  <2>1. /\ stack'[u] = stack[u] /\ verdict'[u] = verdict[u] /\ TaskTold(u)
        /\ \A j \in DOMAIN Calls[u] : RunOf(CallPath(u, j))'.ints = RunOf(CallPath(u, j)).ints
    BY <1>2 DEF SessionInv
  <2>2. AskedBefore(u)' <=> AskedBefore(u)
    BY LogStays
  <2>3. \A d \in DOMAIN stack'[u] : FrameTold(stack'[u][d], turn')
    BY <2>1 DEF TaskTold
  <2>4. ASSUME stack'[u] # <<>> PROVE BottomTold(u)'
    <3>1. BottomTold(u) /\ Bottom(u)' = Bottom(u)
      BY <2>1, <2>4 DEF TaskTold, Bottom
    <3>2. Recovered(TaskPath(u))' = Recovered(TaskPath(u))
      BY DEF Recovered, Positions, Raised, Answered
    <3>3. Single(u)' <=> Single(u)
      BY DEF Single
    <3>4. Wants(u)' <=> Wants(u)
      BY <2>1, <3>1 DEF Wants
    <3> QED  BY <2>2, <3>1, <3>2, <3>3, <3>4 DEF BottomTold
  <2>5. ASSUME Len(stack'[u]) = 2 PROVE InnerTold(Inner(u)')
    BY <2>1, <2>5 DEF TaskTold, Inner
  <2>6. WaitTold(u)'
    <3>1. WaitTold(u)
      BY <2>1 DEF TaskTold
    <3> QED  BY <2>1, <2>2, <3>1 DEF WaitTold, Single
  <2> QED  BY <2>3, <2>4, <2>5, <2>6 DEF TaskTold
<1> QED  BY <1>1, <1>2 DEF SessionInv

(* A task that is under way does not wait.                                 *)
LEMMA CompletedSame ==
    ASSUME CompletedTold, UNCHANGED <<running, completed>>,
           \A u \in Tasks : \A j \in DOMAIN Calls[u] :
               RunOf(CallPath(u, j)).status = "COMPLETED" => RunOf(CallPath(u, j))'.status = "COMPLETED"
    PROVE  CompletedTold'
BY DEF CompletedTold

LEMMA RunningTask ==
    ASSUME SchedulerInv, NEW t \in Tasks, stack[t] # <<>>
    PROVE  running
BY DEF SchedulerInv, Idle, TurnOK

LEMMA RunsStay ==
    ASSUME runs' = runs
    PROVE  \A p : RunOf(p)' = RunOf(p)
BY DEF RunOf

(* The frame on top becomes another one.                                   *)
LEMMA TopTold ==
    ASSUME SchedulerInv, SessionInv, NEW t \in Tasks, stack[t] # <<>>,
           NEW g, FrameOK(t, g), g.node = Top(t).node, g.path = Top(t).path, SetTop(t, g),
           UNCHANGED <<folding, log, turn, running, runs, events, verdict, completed>>,
           FrameTold(g, turn), g.answers = Top(t).answers,
           Len(stack[t]) = 2 => InnerTold(g),
           Len(stack[t]) = 1 /\ Single(t) /\ g.at # "failed" =>
               /\ g.ints # {} => Top(t).ints # {} \/ Asking(g)
               /\ Top(t).at # "failed" /\ (Asking(Top(t)) => Asking(g))
    PROVE  SessionInv'
<1>1. StackOK /\ DOMAIN verdict' = Tasks /\ running /\ TaskTold(t)
  BY RunningTask DEF SchedulerInv, StackOK, SessionInv
<1>2. /\ StackOK' /\ \A u \in Tasks : u # t => stack'[u] = stack[u]
      /\ stack'[t] # <<>> /\ Len(stack'[t]) = Len(stack[t])
      /\ Len(stack[t]) = 1 => Bottom(t)' = g
      /\ Len(stack[t]) = 2 => Bottom(t)' = Bottom(t) /\ Inner(t)' = g
  BY <1>1, SetTopFacts
<1>3. /\ Len(stack[t]) \in {1, 2} /\ DOMAIN stack[t] = 1 .. Len(stack[t])
      /\ Len(stack[t]) = 1 => Top(t) = Bottom(t)
  BY <1>1, StackFacts
<1>4. DOMAIN stack'[t] = 1 .. Len(stack'[t])
  <2>1. PICK s : s = stack'[t]
    OBVIOUS
  <2>2. IsSeq(s)
    BY <1>2, <2>1 DEF StackOK
  <2> QED  BY <2>1, <2>2, SeqFacts
<1>5. BottomTold(t) /\ (\A d \in DOMAIN stack[t] : FrameTold(stack[t][d], turn)) /\ WaitTold(t)
  BY <1>1 DEF TaskTold
<1>6. \A p : RunOf(p)' = RunOf(p)
  BY RunsStay
<1>7. (AskedBefore(t)' <=> AskedBefore(t)) /\ Recovered(TaskPath(t))' = Recovered(TaskPath(t))
  BY LogStays DEF Recovered, Positions, Raised, Answered
<1>8. BottomTold(t)'
  <2>1. CASE Len(stack[t]) = 2
    <3>1. Bottom(t)' = Bottom(t) /\ (Wants(t)' <=> Wants(t)) /\ (Single(t)' <=> Single(t))
      BY <1>2, <1>6, <2>1 DEF Wants, Single
    <3> QED  BY <1>5, <1>7, <3>1 DEF BottomTold
  <2>2. CASE Len(stack[t]) = 1
    <3>1. Bottom(t)' = g /\ Bottom(t) = Top(t) /\ (Single(t)' <=> Single(t))
      BY <1>2, <1>3, <2>2 DEF Single
    <3>2. Bottom(t)'.answers = Recovered(TaskPath(t))'.answers
      BY <1>5, <1>7, <3>1 DEF BottomTold
    <3>3. ASSUME Single(t), g.at # "failed", Wants(t)' PROVE AskedBefore(t) \/ Asking(g)
      <4>1. \/ g.ints # {} \/ \E j \in DOMAIN Calls[t] : RunOf(CallPath(t, j)).ints # {}
        BY <1>6, <3>1, <3>3 DEF Wants
      <4>2. Wants(t) \/ Asking(g)
        BY <2>2, <3>1, <3>3, <4>1 DEF Wants
      <4> QED  BY <1>5, <2>2, <3>1, <3>3, <4>2 DEF BottomTold
    <3> QED  BY <1>7, <3>1, <3>2, <3>3 DEF BottomTold
  <2> QED  BY <1>3, <2>1, <2>2
<1>9. ASSUME NEW d \in DOMAIN stack'[t] PROVE FrameTold(stack'[t][d], turn')
  <2>1. CASE Len(stack[t]) = 1
    BY <1>2, <1>4, <1>9, <2>1 DEF Bottom
  <2>2. CASE Len(stack[t]) = 2
    BY <1>2, <1>3, <1>4, <1>5, <1>9, <2>2 DEF Bottom, Inner
  <2> QED  BY <1>3, <2>1, <2>2
<1>10. Len(stack'[t]) = 2 => InnerTold(Inner(t)')
  BY <1>2
<1>11. WaitTold(t)'
  BY <1>5, <1>7 DEF WaitTold, Single, Asks
<1>12. TaskTold(t)'
  BY <1>8, <1>9, <1>10, <1>11 DEF TaskTold
<1>13. EventsTold' /\ Asks(events) \subseteq Asks(events)'
  BY DEF SessionInv, EventsTold, Fresh, Asks
<1>14. CompletedTold'
  BY <1>6, CompletedSame DEF SessionInv
<1> QED  BY <1>1, <1>2, <1>6, <1>12, <1>13, <1>14, TaskMoves

LEMMA KindsFacts ==
    ASSUME NEW o \in {"none", "out", "int", "intOutTwice"}, NEW k, k = KindsOf[o]
    PROVE  IsSeq(k) /\ \A i \in DOMAIN k : k[i] # "answer"
<1>1. k \in {<<>>, <<"out">>, <<"int">>, <<"int", "out", "out">>}
  BY DEF KindsOf
<1>2. IsSeq(<<"out">>) /\ IsSeq(<<"int">>) /\ IsSeq(<<>>)
  BY SingleFacts
<1>3. <<"int", "out", "out">> \in Seq({"int", "out"})
  OBVIOUS
<1>4. IsSeq(<<"int", "out", "out">>)
  BY <1>3 DEF IsSeq
<1>5. \A i \in DOMAIN k : k[i] # "answer"
  BY DEF KindsOf
<1> QED  BY <1>1, <1>2, <1>4, <1>5

LEMMA EndAttemptTold ==
    ASSUME SchedulerInv, SessionInv, NEW t \in Tasks,
           NEW o \in {"none", "out", "int", "err", "intOutTwice"}, EndAttempt(t, o)
    PROVE  SessionInv'
<1>1. PICK f, g : f = Top(t) /\ g = IF o = "err" THEN Errored(f, "NodeError") ELSE Yields(f, KindsOf[o])
  OBVIOUS
<1>2. StackOK /\ stack[t] # <<>> /\ f.at = "body" /\ SetTop(t, g) /\ TaskTold(t)
      /\ UNCHANGED <<folding, log, turn, running, runs, events, verdict, completed>>
  BY <1>1 DEF EndAttempt, SchedulerInv, SessionInv
<1>3. FrameOK(t, f) /\ Len(stack[t]) \in {1, 2} /\ Top(t) = stack[t][Len(stack[t])]
      /\ DOMAIN stack[t] = 1 .. Len(stack[t])
      /\ (Len(stack[t]) = 1 => f.node = t) /\ (Len(stack[t]) = 2 => f = Inner(t))
  BY <1>1, <1>2, StackFacts
<1>4. FrameTold(f, turn)
  BY <1>1, <1>2, <1>3 DEF TaskTold
<1>5. /\ FrameOK(t, g) /\ g.node = f.node /\ g.path = f.path
      /\ FrameTold(g, turn) /\ g.answers = f.answers
      /\ \/ g.at = "failed" \/ (g.at = "body" /\ g.ints = {} /\ MaxAttempts[f.node] # 1)
         \/ /\ g.at = "done" /\ (Asking(f) => Asks(g.events) # {})
            /\ g.ints # {} => f.ints # {} \/ Asks(g.events) # {}
  <2>1. CASE o = "err"
    <3>1. g = Errored(f, "NodeError")
      BY <1>1, <2>1
    <3> QED  BY <1>3, <1>4, <3>1, ErroredFacts, ErroredTold
  <2>2. CASE o # "err"
    <3>1. PICK k : k = KindsOf[o]
      OBVIOUS
    <3>2. IsSeq(k) /\ (\A i \in DOMAIN k : k[i] # "answer") /\ g = Yields(f, k)
      BY <1>1, <2>2, <3>1, KindsFacts
    <3>3. FrameOK(t, g) /\ g.node = f.node /\ g.path = f.path
      BY <1>3, <3>2, YieldsFacts
    <3> QED  BY <1>2, <1>3, <1>4, <3>2, <3>3, YieldsTold
  <2> QED  BY <2>1, <2>2
<1>6. Len(stack[t]) = 2 => InnerTold(g)
  <2>1. Len(stack[t]) = 2 => f.ints = {}
    BY <1>2, <1>3 DEF TaskTold, InnerTold
  <2> QED  BY <1>5, <2>1 DEF InnerTold
<1>7. Len(stack[t]) = 1 /\ Single(t) /\ g.at # "failed" =>
               /\ g.ints # {} => f.ints # {} \/ Asking(g)
               /\ f.at # "failed" /\ (Asking(f) => Asking(g))
  BY <1>2, <1>3, <1>5 DEF Single, Asking
<1> QED  BY <1>1, <1>2, <1>5, <1>6, <1>7, TopTold

LEMMA TimeoutTopTold ==
    ASSUME SchedulerInv, SessionInv, NEW t \in Tasks, NEW d, Timeout(t, d), d = Len(stack[t])
    PROVE  SessionInv'
<1>1. PICK f, g : f = Top(t) /\ g = Errored(f, "NodeTimeoutError")
  OBVIOUS
<1>2. d \in DOMAIN stack[t] /\ StackOK /\ TaskTold(t)
      /\ UNCHANGED <<folding, log, turn, running, runs, events, verdict, completed>>
  BY DEF Timeout, SchedulerInv, SessionInv
<1>3. stack[t] # <<>>
  BY <1>2, EmptyFacts
<1>4. FrameOK(t, f) /\ f = stack[t][d] /\ (Len(stack[t]) = 1 => f.node = t)
  BY <1>1, <1>2, <1>3, StackFacts
<1>5. SetTop(t, g)
  BY <1>1, <1>2, <1>4 DEF Timeout, SetTop, Front, StackOK
<1>6. FrameTold(f, turn)
  BY <1>2, <1>4 DEF TaskTold
<1>7. FrameOK(t, g) /\ g.node = f.node /\ g.path = f.path
  BY <1>1, <1>4, ErroredFacts
<1>8. /\ FrameTold(g, turn) /\ g.answers = f.answers
      /\ g.at = "failed" \/ (g.at = "body" /\ g.ints = {} /\ MaxAttempts[f.node] # 1)
  BY <1>1, <1>4, <1>6, ErroredTold
<1>9. InnerTold(g) /\ ~(Len(stack[t]) = 1 /\ Single(t) /\ g.at # "failed")
  BY <1>4, <1>8 DEF InnerTold, Single
<1> QED  BY <1>1, <1>2, <1>3, <1>5, <1>7, <1>8, <1>9, TopTold

(* A dispatched run is over or dropped, and its caller goes on.            *)
LEMMA PopTold ==
    ASSUME SchedulerInv, SessionInv, NEW t \in Tasks, Len(stack[t]) = 2,
           NEW g, FrameOK(t, g), g.node = t, g.path = TaskPath(t),
           stack' = [stack EXCEPT ![t] = Append(SubSeq(stack[t], 1, 0), g)], lock' = NoOwner,
           UNCHANGED <<folding, log, turn, running, events, verdict>>, CompletedTold',
           FrameTold(g, turn), g.answers = Bottom(t).answers,
           Single(t) /\ g.at # "failed" /\ (g.ints # {} \/ \E j \in DOMAIN Calls[t] : RunOf(CallPath(t, j))'.ints # {})
               => AskedBefore(t) \/ Asking(g),
           \A u \in Tasks : u # t =>
               \A j \in DOMAIN Calls[u] : RunOf(CallPath(u, j))'.ints = RunOf(CallPath(u, j)).ints
    PROVE  SessionInv'
<1>1. /\ StackOK' /\ running /\ stack'[t] # <<>> /\ Bottom(t)' = g
      /\ \A u \in Tasks : u # t => stack'[u] = stack[u] /\ verdict'[u] = verdict[u]
  BY PopStep
<1>2. DOMAIN stack'[t] = {1} /\ Len(stack'[t]) = 1
  <2>1. PICK s, y, w : s = stack[t] /\ y = SubSeq(s, 1, 0) /\ w = Append(y, g)
    OBVIOUS
  <2>2. PICK X : s \in Seq(X)
    BY <2>1 DEF SchedulerInv, StackOK, IsSeq
  <2>3. y = <<>>
    BY <2>1, <2>2
  <2>4. DOMAIN w = {1} /\ Len(w) = 1
    BY <2>1, <2>3
  <2>5. stack'[t] = w
    BY <2>1 DEF SchedulerInv, StackOK
  <2> QED  BY <2>4, <2>5
<1>3. TaskTold(t)
  BY DEF SessionInv
<1>4. (AskedBefore(t)' <=> AskedBefore(t)) /\ Recovered(TaskPath(t))' = Recovered(TaskPath(t))
  BY LogStays DEF Recovered, Positions, Raised, Answered
<1>5. BottomTold(t)'
  <2>1. stack[t] # <<>>
    BY EmptyFacts, SeqFacts, SMTT(60) DEF SchedulerInv, StackOK
  <2>2. BottomTold(t)
    BY <1>3, <2>1 DEF TaskTold
  <2> QED  BY <1>1, <1>4, <2>2 DEF BottomTold, Wants, Single
<1>6. \A d \in DOMAIN stack'[t] : FrameTold(stack'[t][d], turn')
  BY <1>1, <1>2 DEF Bottom
<1>7. WaitTold(t)'
  BY <1>3, <1>4 DEF TaskTold, WaitTold, Single, Asks
<1>8. TaskTold(t)'
  BY <1>2, <1>5, <1>6, <1>7 DEF TaskTold
<1>9. EventsTold' /\ Asks(events) \subseteq Asks(events)'
  BY DEF SessionInv, EventsTold, Fresh, Asks
<1> QED  BY <1>1, <1>8, <1>9, TaskMoves

LEMMA TimeoutBottomTold ==
    ASSUME SchedulerInv, SessionInv, NEW t \in Tasks, NEW d, Timeout(t, d), d # Len(stack[t])
    PROVE  SessionInv'
<1>1. StackOK /\ Locked /\ d \in DOMAIN stack[t] /\ TaskTold(t)
      /\ UNCHANGED <<folding, log, turn, running, runs, events, verdict, completed>>
  BY DEF Timeout, SchedulerInv, SessionInv
<1>2. stack[t] # <<>>
  BY <1>1, EmptyFacts
<1>3. d = 1 /\ Len(stack[t]) = 2 /\ FrameOK(t, Bottom(t))
      /\ Bottom(t).node = t /\ Bottom(t).path = TaskPath(t)
  BY <1>1, <1>2, StackFacts
<1>4. PICK f, g : f = Bottom(t) /\ g = Errored(f, "NodeTimeoutError")
  OBVIOUS
<1>5. FrameOK(t, g) /\ g.node = t /\ g.path = TaskPath(t)
  BY <1>3, <1>4, ErroredFacts
<1>6. FrameTold(f, turn)
  BY <1>1, <1>3, <1>4 DEF TaskTold, Bottom
<1>7. /\ FrameTold(g, turn) /\ g.answers = f.answers
      /\ g.at = "failed" \/ (g.at = "body" /\ g.ints = {} /\ MaxAttempts[f.node] # 1)
  BY <1>3, <1>4, <1>6, ErroredTold
<1>8. stack' = [stack EXCEPT ![t] = Append(SubSeq(stack[t], 1, 0), g)]
  <2>1. stack' = [stack EXCEPT ![t] = Append(SubSeq(stack[t], 1, d - 1), g)]
    BY <1>1, <1>3, <1>4 DEF Timeout, Bottom, StackOK
  <2>2. d - 1 = 0
    BY <1>3
  <2> QED  BY <2>1, <2>2
<1>9. lock' = NoOwner
  <2>1. lock = <<t, 1>>
    BY <1>1, <1>3 DEF Locked, Holds
  <2>2. lock[1] = t /\ lock[2] >= d
    BY <1>3, <2>1
  <2> QED  BY <2>2 DEF Timeout
<1>10. \A p : RunOf(p)' = RunOf(p)
  BY <1>1, RunsStay
<1>11. CompletedTold'
  BY <1>1, <1>10, CompletedSame DEF SessionInv
<1>12. ~(Single(t) /\ g.at # "failed")
  BY <1>3, <1>4, <1>7 DEF Single
<1> QED  BY <1>1, <1>3, <1>4, <1>5, <1>7, <1>8, <1>9, <1>10, <1>11, <1>12, PopTold

(* What the caller makes of the events of a run that is over.              *)
LEMMA BackTold ==
    ASSUME NEW t, NEW c, FrameOK(t, c), c.at = "body", NEW f, FrameOK(t, f), f.at \in {"done", "failed"},
           NEW k, FrameTold(c, k), FrameTold(f, k), NEW g, g = Back(c, f)
    PROVE  /\ FrameTold(g, k) /\ g.answers = c.answers
           /\ \/ g.at = "failed"
              \/ /\ f.at = "done" /\ (Asking(c) => Asking(g)) /\ g.ints = c.ints \cup f.ints
                 /\ c.node \in folding /\ Asks(f.events) # {} => Asking(g)
<1>1. DOMAIN c = {"node", "path", "attempt", "next", "ints", "out", "events", "fold", "answers", "at"}
  BY DEF FrameOK, IsFrame
<1>2. CASE f.at = "failed"
  <2>1. g = [c EXCEPT !.at = "failed"]
    BY <1>2 DEF Back
  <2>2. g.at = "failed" /\ g.events = c.events /\ g.fold = c.fold /\ g.answers = c.answers
    BY <1>1, <2>1
  <2> QED  BY <2>2 DEF FrameTold
<1>3. CASE f.at = "done"
  <2>1. PICK x, y, z, ints :
          x = c.fold /\ y = f.events /\ z = (IF c.node \in folding THEN x \o y ELSE x) /\ ints = c.ints \cup f.ints
    OBVIOUS
  <2>2. g = [c EXCEPT !.next = @ + 1, !.ints = ints, !.fold = z]
    BY <1>3, <2>1 DEF Back
  <2>3. /\ g.at = "body" /\ g.events = c.events /\ g.fold = z /\ g.answers = c.answers /\ g.ints = ints
    BY <1>1, <2>2
  <2>4. Asks(x \o y) = Asks(x) \cup Asks(y)
    BY <2>1, AsksConcat DEF FrameOK, OwnEvents
  <2>5. Fresh(x, k) /\ Fresh(y, k) /\ Fresh(c.events, k)
    BY <2>1 DEF FrameTold
  <2>6. Asks(x) \subseteq Asks(z) /\ (c.node \in folding => Asks(y) \subseteq Asks(z)) /\ Fresh(z, k)
    BY <2>1, <2>4, <2>5 DEF Fresh
  <2>7. Asking(c) => Asking(g)
    BY <2>1, <2>3, <2>6 DEF Asking
  <2>8. c.node \in folding /\ Asks(f.events) # {} => Asking(g)
    BY <2>1, <2>3, <2>6 DEF Asking
  <2>9. FrameTold(g, k)
    BY <2>3, <2>5, <2>6 DEF FrameTold
  <2> QED  BY <1>3, <2>1, <2>3, <2>7, <2>8, <2>9
<1> QED  BY <1>2, <1>3

(* The call of a run that is over is one that did not give its output yet. *)
LEMMA ReturnTold == ASSUME SchedulerInv, SessionInv, NEW t \in Tasks, Return(t) PROVE SessionInv'
<1>1. /\ StackOK /\ Locked /\ RunsOK /\ InnerOK /\ TaskTold(t)
      /\ UNCHANGED <<folding, log, turn, running, events, verdict>> /\ lock' = NoOwner
      /\ Len(stack[t]) > 1 /\ Top(t).at \in {"done", "failed"}
  BY DEF Return, SchedulerInv, SessionInv
<1>2. /\ stack[t] # <<>> /\ Len(stack[t]) = 2 /\ Top(t) = Inner(t) /\ FrameOK(t, Bottom(t))
      /\ FrameOK(t, Inner(t)) /\ Bottom(t).node = t /\ Bottom(t).path = TaskPath(t)
      /\ DOMAIN stack[t] = 1 .. 2
  <2>1. stack[t] # <<>>
    BY <1>1, SeqFacts DEF StackOK
  <2>2. Len(stack[t]) = 2 /\ Top(t) = Inner(t)
    BY <1>1, <2>1, StackFacts
  <2> QED  BY <1>1, <2>1, <2>2, StackFacts
<1>3. PICK f, c, k, n, path, old, r, g :
        /\ f = Inner(t) /\ c = Bottom(t) /\ k = c.next /\ n = f.node /\ path = f.path
        /\ old = RunOf(path) /\ r = Result(n, f, old) /\ g = Back(c, f)
  OBVIOUS
<1>4. /\ runs' = Update(path, r)
      /\ completed' = (IF f.at = "done" /\ f.out /\ f.ints = {} THEN completed \cup {<<c.path, c.next>>} ELSE completed)
      /\ stack' = [stack EXCEPT ![t] = Append(SubSeq(stack[t], 1, 0), g)]
  <2>1. Len(stack[t]) - 1 = 1 /\ Len(stack[t]) - 2 = 0
    BY <1>2
  <2>2. stack[t][Len(stack[t]) - 1] = c
    BY <1>3, <2>1 DEF Bottom
  <2>3. stack' = [stack EXCEPT ![t] = Append(SubSeq(@, 1, Len(@) - 2), g)]
    BY <1>2, <1>3, <2>2 DEF Return, Back
  <2>4. stack' = [stack EXCEPT ![t] = Append(SubSeq(stack[t], 1, 0), g)]
    BY <1>1, <2>1, <2>3 DEF StackOK
  <2>5. runs' = Update(path, r)
    BY <1>2, <1>3 DEF Return
  <2>6. completed' = (IF f.at = "done" /\ f.out /\ f.ints = {} THEN completed \cup {<<c.path, c.next>>} ELSE completed)
    BY <1>2, <1>3, <2>2 DEF Return
  <2> QED  BY <2>4, <2>5, <2>6
<1>5. /\ k \in DOMAIN Calls[t] /\ path = CallPath(t, k) /\ n = Calls[t][k].node
      /\ RunOf(path).status = "RUNNING" /\ c.at = "body" /\ FrameOK(t, c) /\ FrameOK(t, f)
      /\ f.at \in {"done", "failed"} /\ c.node = t /\ c.path = TaskPath(t)
  BY <1>1, <1>2, <1>3 DEF InnerOK, DispatchedOK, Locked
<1>6. FrameTold(c, turn) /\ FrameTold(f, turn) /\ BottomTold(t) /\ InnerTold(f)
  BY <1>1, <1>2, <1>3 DEF TaskTold, Bottom, Inner
<1>7. /\ FrameTold(g, turn) /\ g.answers = c.answers
      /\ \/ g.at = "failed"
         \/ /\ f.at = "done" /\ (Asking(c) => Asking(g)) /\ g.ints = c.ints \cup f.ints
            /\ c.node \in folding /\ Asks(f.events) # {} => Asking(g)
  BY ONLY <1>3, <1>5, <1>6, BackTold
<1>8. FrameOK(t, g) /\ g.node = t /\ g.path = TaskPath(t)
  <2>1. FrameOK(t, g) /\ g.node = c.node /\ g.path = c.path
    BY ONLY <1>3, <1>5, BackFacts
  <2> QED  BY <1>5, <2>1
<1>9. \A q : RunOf(q)' = IF q = path THEN r ELSE RunOf(q)
  BY <1>4, UpdateFacts
<1>10. IsRun(old) /\ r.ints \in {old.ints, f.ints} /\ r.status \in {"FAILED", "WAITING", "COMPLETED"}
  <2>1. IsRun(old)
    BY <1>1, <1>3, RunFacts
  <2> QED  BY <1>3, <2>1, ResultFacts
<1>11. f.at = "done" /\ f.out /\ f.ints = {} => r.status = "COMPLETED"
  <2>1. f.at = "done" /\ f.out /\ f.ints = {} => r = [old EXCEPT !.status = "COMPLETED", !.out = f.out]
    BY <1>3 DEF Result
  <2> QED  BY <1>10, <2>1 DEF IsRun
<1>12. running
  BY <1>2, RunningTask
<1>13. CompletedTold'
  <2> SUFFICES ASSUME NEW u \in Tasks, NEW j \in Nat, <<TaskPath(u), j>> \in completed'
               PROVE  j \in DOMAIN Calls[u] /\ RunOf(CallPath(u, j))'.status = "COMPLETED"
    BY DEF CompletedTold
  <2>1. CASE <<TaskPath(u), j>> \in completed
    <3>1. j \in DOMAIN Calls[u] /\ RunOf(CallPath(u, j)).status = "COMPLETED"
      BY <1>12, <2>1 DEF SessionInv, CompletedTold
    <3>2. PICK q : q = CallPath(u, j)
      OBVIOUS
    <3>3. q # path
      BY <1>5, <3>1, <3>2
    <3>4. RunOf(q)' = RunOf(q)
      BY <1>9, <3>3
    <3> QED  BY <3>1, <3>2, <3>4
  <2>2. CASE <<TaskPath(u), j>> \notin completed
    <3>1. f.at = "done" /\ f.out /\ f.ints = {} /\ <<TaskPath(u), j>> = <<c.path, c.next>>
      BY <1>4, <2>2
    <3>2. TaskPath(u) = TaskPath(t) /\ j = k
      BY <1>3, <1>5, <3>1
    <3>3. u = t
      BY <3>2, TaskPathFacts, UnderRoot, ZenonT(60)
    <3>4. RunOf(path)' = r
      BY <1>9
    <3> QED  BY <1>5, <1>11, <3>1, <3>2, <3>3, <3>4
  <2> QED  BY <2>1, <2>2
<1>14. ASSUME NEW u \in Tasks, u # t, NEW j \in DOMAIN Calls[u]
       PROVE  RunOf(CallPath(u, j))'.ints = RunOf(CallPath(u, j)).ints
  <2>1. PICK q : q = CallPath(u, j)
    OBVIOUS
  <2>2. q # path
    BY <1>5, <1>14, <2>1, CallPathFacts
  <2>3. RunOf(q)' = RunOf(q)
    BY <1>9, <2>2
  <2> QED  BY <2>1, <2>3
<1>15. ASSUME Single(t), g.at # "failed",
              g.ints # {} \/ \E j \in DOMAIN Calls[t] : RunOf(CallPath(t, j))'.ints # {}
       PROVE  AskedBefore(t) \/ Asking(g)
  <2>1. f.at = "done" /\ (Asking(c) => Asking(g)) /\ g.ints = c.ints \cup f.ints
        /\ (Asks(f.events) # {} => Asking(g))
    BY <1>5, <1>7, <1>15 DEF Single
  <2>2. f.ints # {} => Asking(g)
    BY <1>6, <2>1 DEF InnerTold
  <2>3. Wants(t) => AskedBefore(t) \/ Asking(g)
    BY <1>3, <1>5, <1>6, <1>15, <2>1 DEF BottomTold
  <2>4. c.ints # {} => Wants(t)
    BY <1>3 DEF Wants
  <2>5. ASSUME NEW j \in DOMAIN Calls[t], RunOf(CallPath(t, j))'.ints # {} PROVE Wants(t) \/ f.ints # {}
    <3>1. PICK q : q = CallPath(t, j)
      OBVIOUS
    <3>2. CASE q = path
      <4>1. RunOf(q)' = r
        BY <1>9, <3>2
      <4>2. r.ints # {}
        BY <2>5, <3>1, <4>1
      <4>3. old.ints # {} \/ f.ints # {}
        BY <1>10, <4>2
      <4>4. old = RunOf(CallPath(t, k))
        BY <1>3, <1>5
      <4>5. old.ints # {} => Wants(t)
        BY <1>5, <4>4 DEF Wants
      <4> QED  BY <4>3, <4>5
    <3>3. CASE q # path
      <4>1. RunOf(q)' = RunOf(q)
        BY <1>9, <3>3
      <4>2. RunOf(CallPath(t, j)).ints # {}
        BY <2>5, <3>1, <4>1
      <4> QED  BY <4>2 DEF Wants
    <3> QED  BY <3>2, <3>3
  <2> QED  BY <1>15, <2>1, <2>2, <2>3, <2>4, <2>5
<1> QED  BY <1>1, <1>2, <1>3, <1>4, <1>7, <1>8, <1>13, <1>14, <1>15, PopTold, ZenonT(60)

(* A call starts a run, which has not given its output before.             *)
LEMMA DispatchTold == ASSUME SchedulerInv, SessionInv, NEW t \in Tasks, Dispatch(t) PROVE SessionInv'
<1>1. /\ Calling(t) /\ lock = NoOwner /\ StackOK /\ RunsOK /\ TaskTold(t)
      /\ UNCHANGED <<folding, log, turn, running, events, verdict, completed>>
  BY DEF Dispatch, SchedulerInv, SessionInv
<1>2. /\ stack[t] # <<>> /\ Len(stack[t]) = 1 /\ Top(t) = Bottom(t)
      /\ Bottom(t).next \in DOMAIN Calls[t]
      /\ ChildPath(Top(t)) = CallPath(t, Bottom(t).next)
      /\ CallOf(Top(t)) = Calls[t][Bottom(t).next]
  BY <1>1, CallingFacts
<1>3. PICK f, k, n, path, old, r, g, s, w :
        /\ f = Bottom(t) /\ k = f.next /\ n = Calls[t][k].node /\ path = CallPath(t, k)
        /\ old = RunOf(path) /\ r = [old EXCEPT !.status = "RUNNING"]
        /\ g = Frame(n, path, Recovered(path).answers)
        /\ s = stack[t] /\ w = Append(s, g)
  OBVIOUS
<1>4. /\ Found(n, path).run /\ runs' = Update(path, r) /\ stack' = [stack EXCEPT ![t] = w]
  BY <1>1, <1>2, <1>3 DEF Dispatch, Found, StackOK
<1>5. g.events = <<>> /\ g.fold = <<>> /\ g.ints = {} /\ g.at = "body"
  BY <1>3 DEF Frame
<1>6. IsSeq(s) /\ Len(s) = 1 /\ w = Append(s, g) /\ DOMAIN s = {1}
  <2>1. IsSeq(s) /\ Len(s) = 1
    BY <1>1, <1>2, <1>3 DEF StackOK
  <2>2. DOMAIN s = 1 .. Len(s)
    BY <2>1, SeqFacts
  <2> QED  BY <1>3, <2>1, <2>2
<1>7. w # <<>>
  BY <1>6, AppendFacts
<1>8. w[Len(s) + 1] = g
  BY <1>6, AppendFacts
<1>9. \A i \in DOMAIN s : w[i] = s[i]
  BY <1>6, AppendFacts
<1>10. DOMAIN w = DOMAIN s \cup {Len(s) + 1}
  BY <1>6, AppendFacts
<1>11. w[1] = f /\ w[2] = g /\ DOMAIN w = {1, 2}
  <2>1. s[1] = f
    BY <1>3 DEF Bottom
  <2> QED  BY <1>6, <1>8, <1>9, <1>10, <2>1
<1>12. DOMAIN stack = Tasks
  BY <1>1 DEF StackOK
<1>13. stack'[t] = w /\ \A u \in Tasks : u # t => stack'[u] = stack[u]
  BY <1>4, <1>12
<1>14. Bottom(t)' = f /\ Inner(t)' = g
  BY <1>11, <1>13 DEF Bottom, Inner
<1>15. \A q : RunOf(q)' = IF q = path THEN r ELSE RunOf(q)
  BY <1>4, UpdateFacts
<1>16. r.ints = old.ints /\ old.status # "COMPLETED"
  <2>1. IsRun(old)
    BY <1>1, <1>3, RunFacts
  <2>2. r.ints = old.ints
    BY <1>3, <2>1 DEF IsRun
  <2>3. PICK rec : rec = Recovered(path)
    OBVIOUS
  <2>4. Intercept(n, rec, old, TRUE).run
    BY <1>3, <1>4, <2>3 DEF Found
  <2>5. old.status # "COMPLETED"
    BY <2>4 DEF Intercept, Replayed
  <2> QED  BY <2>2, <2>5
<1>17. \A q : RunOf(q)'.ints = RunOf(q).ints
  BY <1>3, <1>15, <1>16
<1>18. \A q : RunOf(q).status = "COMPLETED" => RunOf(q)'.status = "COMPLETED"
  BY <1>3, <1>15, <1>16
<1>19. CompletedTold'
  BY <1>1, <1>18, CompletedSame DEF SessionInv
<1>20. (AskedBefore(t)' <=> AskedBefore(t)) /\ Recovered(TaskPath(t))' = Recovered(TaskPath(t))
  BY <1>1, LogStays DEF Recovered, Positions, Raised, Answered
<1>21. BottomTold(t)'
  <2>1. BottomTold(t)
    BY <1>1, <1>2 DEF TaskTold
  <2>2. (Wants(t)' <=> Wants(t)) /\ (Single(t)' <=> Single(t)) /\ Bottom(t)' = Bottom(t)
    BY <1>1, <1>3, <1>14, <1>17 DEF Wants, Single
  <2> QED  BY <1>20, <2>1, <2>2 DEF BottomTold
<1>22. \A d \in DOMAIN stack'[t] : FrameTold(stack'[t][d], turn')
  <2>1. FrameTold(f, turn)
    BY <1>1, <1>3, <1>6 DEF TaskTold, Bottom
  <2>2. FrameTold(g, turn)
    BY <1>5, NoAsks DEF FrameTold
  <2> QED  BY <1>1, <1>11, <1>13, <2>1, <2>2
<1>23. InnerTold(Inner(t)')
  BY <1>5, <1>14 DEF InnerTold
<1>24. WaitTold(t)'
  BY <1>1, <1>20 DEF TaskTold, WaitTold, Single, Asks
<1>25. TaskTold(t)'
  BY <1>21, <1>22, <1>23, <1>24 DEF TaskTold
<1>26. EventsTold' /\ Asks(events) \subseteq Asks(events)'
  BY <1>1 DEF SessionInv, EventsTold, Fresh, Asks
<1>27. running
  BY <1>2, RunningTask
<1> QED  BY <1>1, <1>13, <1>17, <1>19, <1>25, <1>26, <1>27, TaskMoves

(* A call that is answered without a run: its interrupts are those of the  *)
(* run in this turn, or open in the session.                               *)
LEMMA FastForwardTold == ASSUME SchedulerInv, SessionInv, NEW t \in Tasks, FastForward(t) PROVE SessionInv'
<1>1. /\ Calling(t) /\ lock = NoOwner /\ StackOK /\ RunsOK /\ Saved(log) /\ TaskTold(t)
      /\ UNCHANGED <<folding, log, turn, running, events, verdict, completed>>
  BY DEF FastForward, SchedulerInv, SessionInv
<1>2. /\ stack[t] # <<>> /\ Len(stack[t]) = 1 /\ Top(t) = Bottom(t) /\ Bottom(t).at = "body"
      /\ Bottom(t).next \in DOMAIN Calls[t]
      /\ ChildPath(Top(t)) = CallPath(t, Bottom(t).next)
      /\ CallOf(Top(t)) = Calls[t][Bottom(t).next]
  BY <1>1, CallingFacts
<1>3. PICK f, k, n, path, hit, old, r :
        /\ f = Bottom(t) /\ k = f.next /\ n = Calls[t][k].node /\ path = CallPath(t, k)
        /\ hit = Found(n, path) /\ old = RunOf(path)
        /\ r = IF hit.ints # {} THEN old ELSE [old EXCEPT !.out = hit.out]
  OBVIOUS
<1>4. PICK g : g = [f EXCEPT !.next = @ + 1, !.ints = @ \cup hit.ints]
  OBVIOUS
<1>5. runs' = Update(path, r) /\ SetTop(t, g)
  BY <1>2, <1>3, <1>4 DEF FastForward, Found
<1>6. FrameOK(t, f) /\ FrameTold(f, turn) /\ f.at = "body" /\ BottomTold(t) /\ DOMAIN verdict' = Tasks
      /\ f.node = t /\ f.path = TaskPath(t)
  <2>1. FrameOK(t, f) /\ DOMAIN stack[t] = 1 .. 1 /\ f.node = t /\ f.path = TaskPath(t)
    BY <1>1, <1>2, <1>3, StackFacts
  <2>2. FrameTold(f, turn) /\ BottomTold(t)
    <3>1. 1 \in DOMAIN stack[t]
      BY <2>1
    <3>2. stack[t][1] = f
      BY <1>3 DEF Bottom
    <3>3. FrameTold(stack[t][1], turn)
      BY <1>1, <3>1 DEF TaskTold
    <3>4. BottomTold(t)
      BY <1>1, <1>2 DEF TaskTold
    <3> QED  BY <3>2, <3>3, <3>4
  <2>3. DOMAIN verdict' = Tasks
    BY <1>1 DEF StackOK
  <2> QED  BY <1>2, <1>3, <2>1, <2>2, <2>3
<1>7. /\ IsFrame(g) /\ g.node = f.node /\ g.path = f.path /\ g.attempt = f.attempt /\ g.next = k + 1
      /\ g.at = "body" /\ g.fold = f.fold /\ g.events = f.events /\ g.ints = f.ints \cup hit.ints
      /\ g.answers = f.answers
  BY <1>3, <1>4, <1>6 DEF IsFrame, FrameOK
<1>8. IsSeq(path) /\ path # <<>> /\ Under(t, path) /\ Root(path) = t /\ k \in DOMAIN Calls[t]
  BY <1>2, <1>3, CallPathFacts
<1>9. FrameOK(t, g)
  <2>1. OwnIds(t, hit.ints)
    BY <1>1, <1>3, <1>8, FoundOwn
  <2>2. OwnIds(t, g.ints) /\ g.next \in Nat \ {0}
    BY <1>3, <1>6, <1>7, <2>1 DEF FrameOK, OwnIds
  <2> QED  BY <1>6, <1>7, <2>2 DEF FrameOK
<1>10. /\ StackOK' /\ \A u \in Tasks : u # t => stack'[u] = stack[u]
       /\ stack'[t] # <<>> /\ Len(stack'[t]) = 1 /\ Bottom(t)' = g
  <2>1. g.node = Top(t).node /\ g.path = Top(t).path
    BY <1>2, <1>3, <1>7
  <2> QED  BY <1>1, <1>2, <1>5, <1>6, <1>9, <2>1, SetTopFacts
<1>11. r.status = old.status /\ r.ints = old.ints
  <2>1. IsRun(old)
    BY <1>1, <1>3, RunFacts
  <2> QED  BY <1>3, <2>1 DEF IsRun
<1>12. \A q : RunOf(q)' = IF q = path THEN r ELSE RunOf(q)
  BY <1>5, UpdateFacts
<1>13. \A q : RunOf(q)'.status = RunOf(q).status /\ RunOf(q)'.ints = RunOf(q).ints
  BY <1>3, <1>11, <1>12
<1>14. CompletedTold'
  BY <1>1, <1>13, CompletedSame DEF SessionInv
<1>15. (AskedBefore(t)' <=> AskedBefore(t)) /\ Recovered(TaskPath(t))' = Recovered(TaskPath(t))
  BY <1>1, LogStays DEF Recovered, Positions, Raised, Answered
<1>16. hit.ints # {} => Wants(t) \/ AskedBefore(t)
  <2>1. PICK rec : rec = Recovered(path)
    OBVIOUS
  <2>2. hit = Intercept(n, rec, old, TRUE)
    BY <1>3, <2>1 DEF Found
  <2>3. hit.ints # {} => hit.ints = old.ints \/ hit.ints = rec.open
    BY <2>2, InterceptFacts
  <2>4. old.ints # {} => Wants(t)
    BY <1>3, <1>8 DEF Wants
  <2>5. rec.open # {} => AskedBefore(t)
    BY <1>1, <1>8, <2>1, OpenAsks
  <2> QED  BY <2>3, <2>4, <2>5
<1>17. BottomTold(t)'
  <2>1. Bottom(t)'.answers = Recovered(TaskPath(t))'.answers
    BY <1>3, <1>6, <1>7, <1>10, <1>15 DEF BottomTold
  <2>2. ASSUME Wants(t)' PROVE Wants(t) \/ AskedBefore(t)
    <3>1. g.ints # {} \/ \E j \in DOMAIN Calls[t] : RunOf(CallPath(t, j)).ints # {}
      BY <1>10, <1>13, <2>2 DEF Wants
    <3> QED  BY <1>3, <1>7, <1>16, <3>1 DEF Wants
  <2>3. Asking(f) => Asking(g)
    BY <1>6, <1>7 DEF Asking
  <2>4. ASSUME Single(t), Wants(t)' PROVE AskedBefore(t) \/ Asking(g)
    BY <1>3, <1>6, <2>2, <2>3, <2>4 DEF BottomTold
  <2> QED  BY <1>1, <1>10, <1>15, <2>1, <2>4 DEF BottomTold, Single
<1>18. \A d \in DOMAIN stack'[t] : FrameTold(stack'[t][d], turn')
  <2>1. PICK s : s = stack'[t]
    OBVIOUS
  <2>2. IsSeq(s) /\ Len(s) = 1
    BY <1>10, <2>1 DEF StackOK
  <2>3. DOMAIN s = 1 .. 1
    BY <2>2, SeqFacts
  <2>4. FrameTold(g, turn)
    BY <1>6, <1>7 DEF FrameTold
  <2> QED  BY <1>1, <1>10, <2>1, <2>3, <2>4 DEF Bottom
<1>19. WaitTold(t)'
  BY <1>1, <1>15 DEF TaskTold, WaitTold, Single, Asks
<1>20. TaskTold(t)'
  BY <1>10, <1>17, <1>18, <1>19 DEF TaskTold
<1>21. EventsTold' /\ Asks(events) \subseteq Asks(events)'
  BY <1>1 DEF SessionInv, EventsTold, Fresh, Asks
<1>22. running
  BY <1>2, RunningTask
<1> QED  BY <1>1, <1>10, <1>13, <1>14, <1>20, <1>21, <1>22, TaskMoves

(* A task that is over waits only with a request in the session.           *)
LEMMA SettleTold == ASSUME SchedulerInv, SessionInv, NEW t \in Tasks, Settle(t) PROVE SessionInv'
<1>1. /\ StackOK /\ EventsTold /\ TaskTold(t) /\ Saved(events)
      /\ UNCHANGED <<folding, log, turn, running, runs, completed>>
      /\ Len(stack[t]) = 1 /\ Top(t).at \in {"done", "failed"}
      /\ stack' = [stack EXCEPT ![t] = <<>>]
  BY DEF Settle, SchedulerInv, SessionInv
<1>2. stack[t] # <<>>
  BY <1>1, NotEmpty
<1>3. Top(t) = Bottom(t) /\ FrameOK(t, Bottom(t)) /\ DOMAIN stack[t] = 1 .. 1
  BY <1>1, <1>2, StackFacts
<1>4. PICK f, v, y : f = Bottom(t) /\ y = f.events /\ v = (IF f.at = "failed" THEN "failed"
                                            ELSE IF f.ints # {} THEN "waiting" ELSE "completed")
  OBVIOUS
<1>5. verdict' = [verdict EXCEPT ![t] = v] /\ events' = events \o y /\ FrameOK(t, f)
      /\ f.at \in {"done", "failed"} /\ DOMAIN verdict = Tasks /\ DOMAIN stack = Tasks
  BY <1>1, <1>3, <1>4 DEF Settle, StackOK
<1>6. verdict'[t] = v /\ stack'[t] = <<>>
      /\ \A u \in Tasks : u # t => verdict'[u] = verdict[u] /\ stack'[u] = stack[u]
  BY <1>1, <1>5
<1>7. OwnEvents(t, y) /\ FrameTold(f, turn) /\ BottomTold(t)
  BY <1>1, <1>2, <1>3, <1>4, <1>5 DEF FrameOK, TaskTold, Bottom
<1>8. Range(events \o y) = Range(events) \cup Range(y)
  BY <1>1, <1>7, ConcatFacts DEF OwnEvents, Saved
<1>9. PICK z : z = events \o y
  OBVIOUS
<1>10. Asks(z) = Asks(events) \cup Asks(y) /\ Range(z) = Range(events) \cup Range(y) /\ events' = z
  BY <1>5, <1>8, <1>9 DEF Asks
<1>11. running
  BY <1>2, RunningTask
<1>12. Fresh(z, turn) /\ \A e \in Range(z) : e.kind # "answer"
  <2>1. Fresh(y, turn) /\ \A e \in Range(y) : e.kind # "answer"
    BY <1>4, <1>7 DEF FrameTold, OwnEvents, OwnEntry
  <2> QED  BY <1>1, <1>10, <2>1 DEF EventsTold, Fresh
<1>13. EventsTold' /\ Asks(events) \subseteq Asks(events)'
  <2>1. Fresh(events', turn') /\ \A e \in Range(events') : e.kind # "answer"
    BY <1>1, <1>10, <1>12
  <2>2. Asks(events) \subseteq Asks(events')
    BY <1>10
  <2> QED  BY <1>1, <1>11, <2>1, <2>2 DEF EventsTold, Asks, Fresh
<1>14. (AskedBefore(t)' <=> AskedBefore(t))
  BY <1>1, LogStays
<1>15. WaitTold(t)'
  <2>1. ASSUME Single(t), v = "waiting" PROVE AskedBefore(t) \/ \E e \in Asks(z) : Under(t, e.path)
    <3>1. f.at = "done" /\ f.ints # {}
      BY <1>4, <1>5, <2>1
    <3>2. AskedBefore(t) \/ Asks(y) # {}
      BY <1>4, <1>7, <2>1, <3>1 DEF BottomTold, Wants, Asking
    <3>3. ASSUME Asks(y) # {} PROVE \E e \in Asks(z) : Under(t, e.path)
      <4>1. PICK e : e \in Asks(y)
        BY <3>3
      <4>2. Under(t, e.path) /\ e \in Asks(z)
        BY <1>7, <1>10, <4>1 DEF OwnEvents, OwnEntry, Asks
      <4> QED  BY <4>2
    <3> QED  BY <3>2, <3>3
  <2>2. Single(t)' <=> Single(t)
    BY <1>1 DEF Single
  <2>3. Asks(events)' = Asks(z)
    BY <1>10 DEF Asks
  <2> QED  BY <1>6, <1>14, <2>1, <2>2, <2>3 DEF WaitTold
<1>16. TaskTold(t)'
  <2>1. PICK e : e = <<>>
    OBVIOUS
  <2>2. DOMAIN e = {} /\ Len(e) # 2
    BY <2>1, EmptyFacts
  <2>3. stack'[t] = e
    BY <1>6, <2>1
  <2> QED  BY <1>15, <2>1, <2>2, <2>3 DEF TaskTold
<1>17. \A p : RunOf(p)' = RunOf(p)
  BY <1>1, RunsStay
<1>18. CompletedTold'
  BY <1>1, <1>17, CompletedSame DEF SessionInv
<1> QED  BY <1>1, <1>6, <1>11, <1>13, <1>16, <1>17, <1>18, TaskMoves

-----------------------------------------------------------------------------
(* Between the turns.                                                      *)

LEMMA StartTurnTold == ASSUME SchedulerInv, SessionInv, StartTurn PROVE SessionInv'
<1>1. /\ ~running /\ running' /\ turn' = turn + 1 /\ log' = log /\ LogTold /\ turn \in Nat
      /\ runs' = <<>> /\ events' = <<>> /\ completed' = {} /\ Saved(log)
  BY DynConstants DEF StartTurn, SchedulerInv, SessionInv, TurnOK
<1>2. LogTold'
  <2>1. ASSUME NEW e \in Asks(log) PROVE e.id[2] \in Nat /\ e.id[2] <= turn + 1 /\ e.id[2] # turn + 1
    <3>1. e.id[2] \in Nat /\ e.id[2] <= turn
      BY <1>1 DEF LogTold
    <3>2. PICK i : i = e.id[2]
      OBVIOUS
    <3> QED  BY <1>1, <3>1, <3>2
  <2>2. Asks(log)' = Asks(log) /\ Answered' = Answered
    BY <1>1 DEF Asks, Answered
  <2>3. \A id \in Answered : \E e \in Asks(log) : e.id = id
    BY <1>1 DEF LogTold
  <2> QED  BY <1>1, <2>1, <2>2, <2>3 DEF LogTold
<1>3. EventsTold'
  <2>1. PICK e : e = <<>>
    OBVIOUS
  <2>2. Range(e) = {} /\ Fresh(e, turn')
    BY <2>1, NoAsks, EmptyFacts
  <2>3. events' = e
    BY <1>1, <2>1
  <2> QED  BY <1>1, <2>2, <2>3 DEF EventsTold, Fresh, Asks
<1>4. CompletedTold'
  BY <1>1 DEF CompletedTold
<1>5. ASSUME NEW t \in Tasks PROVE TaskTold(t)'
  <2>1. PICK path, a, f, s : /\ path = TaskPath(t) /\ a = Recovered(path).answers
                             /\ f = Frame(t, path, a) /\ s = <<f>>
    OBVIOUS
  <2>2. stack'[t] \in {s, <<>>} /\ verdict'[t] \in {"running", "waiting", "completed"}
        /\ (verdict'[t] = "waiting" => StaticIntercept(t).ints # {})
    BY <2>1 DEF StartTurn
  <2>3. f.answers = a /\ f.ints = {} /\ f.events = <<>> /\ f.fold = <<>> /\ f.at = "body"
    BY <2>1 DEF Frame
  <2>4. Recovered(path)' = Recovered(path) /\ (AskedBefore(t)' <=> AskedBefore(t))
    BY <1>1, LogStays, RecoveredSame
  <2>5. Len(s) = 1 /\ DOMAIN s = {1} /\ s[1] = f
    BY <2>1
  <2>6. PICK e : e = <<>>
    OBVIOUS
  <2>7. DOMAIN e = {} /\ Len(e) = 0
    BY <2>6, EmptyFacts
  <2>8. WaitTold(t)'
    <3>1. ASSUME StaticIntercept(t).ints # {} PROVE AskedBefore(t)
      <4>1. PICK rec, i : rec = Recovered(path) /\ i = Intercept(t, rec, NotRun, FALSE)
        OBVIOUS
      <4>2. i.ints # {} /\ NotRun.status = "INACTIVE"
        BY <2>1, <3>1, <4>1 DEF StaticIntercept, NotRun
      <4>3. rec.open # {}
        BY <4>1, <4>2 DEF Intercept, Replayed, Native
      <4>4. IsSeq(path) /\ path # <<>> /\ Under(t, path)
        BY <2>1, TaskPathFacts
      <4>5. Recovered(path).open # {}
        BY <4>1, <4>3
      <4> QED  BY <1>1, <4>4, <4>5, OpenAsks
    <3> QED  BY <2>2, <2>4, <3>1 DEF WaitTold
  <2>9. CASE stack'[t] = s
    <3>1. Bottom(t)' = f
      BY <2>5, <2>9 DEF Bottom
    <3>2. ~Wants(t)'
      <4>1. \A p : RunOf(p)'.ints = {}
        <5>1. \A p : RunOf(p)' = NotRun
          BY <1>1, EmptyFacts DEF RunOf
        <5> QED  BY <5>1 DEF NotRun
      <4> QED  BY <2>3, <3>1, <4>1 DEF Wants
    <3>3. BottomTold(t)'
      BY <2>1, <2>3, <2>4, <3>1, <3>2 DEF BottomTold
    <3>4. FrameTold(f, turn')
      BY <2>3, NoAsks DEF FrameTold
    <3> QED  BY <2>5, <2>8, <2>9, <3>3, <3>4 DEF TaskTold
  <2>10. CASE stack'[t] = <<>>
    BY <2>6, <2>7, <2>8, <2>10 DEF TaskTold
  <2> QED  BY <2>2, <2>9, <2>10
<1> QED  BY <1>2, <1>3, <1>4, <1>5 DEF SessionInv

(* No task has a frame, and no turn is under way.                          *)
LEMMA NobodyRuns ==
    ASSUME ~running', NEW t, stack'[t] = <<>>
    PROVE  TaskTold(t)'
<1>1. PICK e : e = <<>>
  OBVIOUS
<1>2. DOMAIN e = {} /\ Len(e) = 0
  BY <1>1, EmptyFacts
<1>3. WaitTold(t)'
  BY DEF WaitTold
<1> QED  BY <1>1, <1>2, <1>3 DEF TaskTold

LEMMA AnsweredIs == Answered = {e.id : e \in {x \in Range(log) : x.kind = "answer"}}
BY DEF Answered, Range

(* The log gets more entries: who answered what is still told.             *)
LEMMA LogGrows ==
    ASSUME LogTold, NEW s, Range(log') = Range(log) \cup Range(s), turn' = turn, turn \in Nat, ~running',
           \A e \in Asks(s) : e.id[2] = turn,
           \A e \in Range(s) : e.kind = "answer" => \E a \in Asks(log) : a.id = e.id
    PROVE  LogTold'
<1>1. Asks(log)' = Asks(log) \cup Asks(s)
  BY DEF Asks
<1>2. \A e \in Asks(log)' : e.id[2] \in Nat /\ e.id[2] <= turn
  BY <1>1 DEF LogTold
<1>3. Answered' = {e.id : e \in {x \in Range(log)' : x.kind = "answer"}}
  BY DEF Answered, Range
<1>4. ASSUME NEW id \in Answered' PROVE \E a \in Asks(log)' : a.id = id
  <2>1. PICK e \in Range(log) \cup Range(s) : e.kind = "answer" /\ e.id = id
    BY <1>3, <1>4
  <2>2. CASE e \in Range(log)
    BY <1>1, <2>1, <2>2, AnsweredIs DEF LogTold
  <2>3. CASE e \in Range(s)
    BY <1>1, <2>1, <2>3
  <2> QED  BY <2>1, <2>2, <2>3
<1> QED  BY <1>2, <1>4 DEF LogTold

LEMMA EndTurnTold == ASSUME SchedulerInv, SessionInv, EndTurn PROVE SessionInv'
<1>1. /\ log' = log \o events /\ turn' = turn /\ ~running' /\ LogTold /\ EventsTold /\ turn \in Nat
      /\ Saved(log) /\ Saved(events) /\ events' = <<>>
  BY DynConstants DEF EndTurn, SchedulerInv, SessionInv, TurnOK
<1>2. LogTold'
  <2>1. PICK s : s = events
    OBVIOUS
  <2>2. Range(log') = Range(log) \cup Range(s)
    BY <1>1, <2>1, ConcatFacts DEF Saved
  <2>3. (\A e \in Asks(s) : e.id[2] = turn) /\ \A e \in Range(s) : e.kind # "answer"
    BY <1>1, <2>1 DEF EventsTold, Fresh
  <2> QED  BY <1>1, <2>2, <2>3, LogGrows
<1>3. EventsTold'
  <2>1. PICK e : e = <<>>
    OBVIOUS
  <2>2. Range(e) = {} /\ Fresh(e, turn')
    BY <2>1, NoAsks, EmptyFacts
  <2>3. events' = e
    BY <1>1, <2>1
  <2> QED  BY <2>1, <2>2, <2>3 DEF EventsTold, Fresh, Asks
<1>4. CompletedTold'
  BY <1>1 DEF CompletedTold
<1>5. ASSUME NEW t \in Tasks PROVE TaskTold(t)'
  <2>1. stack'[t] = <<>>
    BY DEF EndTurn
  <2> QED  BY <1>1, <2>1, NobodyRuns
<1> QED  BY <1>2, <1>3, <1>4, <1>5 DEF SessionInv

LEMMA AnswerTold == ASSUME SchedulerInv, SessionInv, NEW S, Answer(S) PROVE SessionInv'
<1>1. /\ UNCHANGED <<turn, running, stack, events, verdict>> /\ ~running /\ S \subseteq Reported
      /\ Saved(log) /\ LogTold /\ EventsTold /\ turn \in Nat /\ \A t \in Tasks : stack[t] = <<>>
      /\ log' = log \o SetToSeq({Entry("answer", <<>>, id) : id \in S})
  BY DynConstants DEF Answer, SchedulerInv, SessionInv, TurnOK, Idle, inTurn
<1>2. PICK s : s = SetToSeq({Entry("answer", <<>>, id) : id \in S})
  OBVIOUS
<1>3. IsSeq(s) /\ Range(s) \subseteq {Entry("answer", <<>>, id) : id \in S}
  BY <1>1, <1>2, AnswersAre
<1>4. ASSUME NEW e \in Range(s) PROVE e.kind = "answer" /\ \E a \in Asks(log) : a.id = e.id
  <2>1. PICK id \in S : e = Entry("answer", <<>>, id)
    BY <1>3, <1>4
  <2>2. e.kind = "answer" /\ e.id = id
    BY <2>1 DEF Entry
  <2>3. PICK i \in DOMAIN log : log[i].kind = "int" /\ log[i].id = id
    BY <1>1, <2>1 DEF Reported, Raised
  <2>4. log[i] \in Asks(log)
    BY <2>3 DEF Asks, Range
  <2> QED  BY <2>2, <2>3, <2>4
<1>5. LogTold'
  <2>1. Range(log') = Range(log) \cup Range(s)
    BY <1>1, <1>2, <1>3, ConcatFacts DEF Saved
  <2>2. \A e \in Asks(s) : e.id[2] = turn
    BY <1>4 DEF Asks
  <2> QED  BY <1>1, <1>4, <2>1, <2>2, LogGrows
<1>6. EventsTold' /\ CompletedTold'
  BY <1>1 DEF EventsTold, CompletedTold, Fresh, Asks
<1>7. ASSUME NEW t \in Tasks PROVE TaskTold(t)'
  <2>1. stack'[t] = <<>> /\ ~running'
    BY <1>1
  <2> QED  BY <2>1, NobodyRuns
<1> QED  BY <1>5, <1>6, <1>7 DEF SessionInv

LEMMA InitTold == ASSUME Init PROVE SessionInv
<1>1. PICK e : e = <<>>
  OBVIOUS
<1>2. DOMAIN e = {} /\ Len(e) = 0 /\ Range(e) = {}
  BY <1>1, EmptyFacts
<1>3. /\ \A t \in Tasks : stack[t] = e
      /\ log = e /\ events = e /\ ~running /\ turn = 0
  BY <1>1 DEF Init
<1>4. LogTold /\ EventsTold /\ CompletedTold
  <2>1. Asks(log) = {} /\ Answered = {} /\ Asks(events) = {} /\ Range(events) = {}
    BY <1>2, <1>3 DEF Asks, Answered
  <2> QED  BY <1>1, <1>3, <2>1 DEF LogTold, EventsTold, CompletedTold, Fresh
<1>5. ASSUME NEW t \in Tasks PROVE TaskTold(t)
  BY <1>1, <1>2, <1>3 DEF TaskTold, WaitTold
<1> QED  BY <1>4, <1>5 DEF SessionInv

LEMMA StutterTold == ASSUME SessionInv, UNCHANGED vars PROVE SessionInv'
<1>1. UNCHANGED <<folding, log, turn, running, stack, runs, events, verdict, completed>>
  BY DEF vars, inTurn
<1>2. LogTold' /\ EventsTold'
  BY <1>1 DEF SessionInv, LogTold, EventsTold, Asks, Fresh, Answered
<1>3. \A p : RunOf(p)' = RunOf(p)
  BY <1>1, RunsStay
<1>4. CompletedTold'
  BY <1>1, <1>3, CompletedSame DEF SessionInv
<1>5. ASSUME NEW t \in Tasks PROVE TaskTold(t)'
  <2>1. (AskedBefore(t)' <=> AskedBefore(t)) /\ Recovered(TaskPath(t))' = Recovered(TaskPath(t))
    BY <1>1, LogStays, RecoveredSame
  <2>2. (Wants(t)' <=> Wants(t)) /\ (Single(t)' <=> Single(t)) /\ Bottom(t)' = Bottom(t) /\ Inner(t)' = Inner(t)
    BY <1>1, <1>3 DEF Wants, Single, Bottom, Inner
  <2>3. TaskTold(t)
    BY DEF SessionInv
  <2>4. stack[t] # <<>> => BottomTold(t)'
    BY <2>1, <2>2, <2>3 DEF TaskTold, BottomTold
  <2>5. WaitTold(t)'
    BY <1>1, <2>1, <2>2, <2>3 DEF TaskTold, WaitTold, Asks
  <2> QED  BY <1>1, <2>2, <2>3, <2>4, <2>5 DEF TaskTold
<1> QED  BY <1>2, <1>4, <1>5 DEF SessionInv

LEMMA NextTold == ASSUME SchedulerInv, SessionInv, Next PROVE SessionInv'
<1>1. CASE StartTurn
  BY <1>1, StartTurnTold
<1>2. CASE EndTurn
  BY <1>2, EndTurnTold
<1>3. ASSUME NEW t \in Tasks, TaskStep(t) PROVE SessionInv'
  <2>1. CASE Dispatch(t)
    BY <2>1, DispatchTold
  <2>2. CASE FastForward(t)
    BY <2>2, FastForwardTold
  <2>3. ASSUME NEW o \in {"none", "out", "int", "err", "intOutTwice"}, EndAttempt(t, o)
        PROVE  SessionInv'
    BY <2>3, EndAttemptTold
  <2>4. CASE Return(t)
    BY <2>4, ReturnTold
  <2>5. CASE Settle(t)
    BY <2>5, SettleTold
  <2> QED  BY <1>3, <2>1, <2>2, <2>3, <2>4, <2>5 DEF TaskStep
<1>4. ASSUME NEW t \in Tasks, NEW d \in 1 .. 3, Timeout(t, d) PROVE SessionInv'
  BY <1>4, TimeoutTopTold, TimeoutBottomTold
<1>5. ASSUME NEW S \in SUBSET (Reported \ Answered), Answer(S) PROVE SessionInv'
  BY <1>5, AnswerTold
<1> QED  BY <1>1, <1>2, <1>3, <1>4, <1>5 DEF Next

(* Whatever the bodies do with the events of their calls: the frame of a   *)
(* task holds the answers of its path, a call that gave its output is a    *)
(* completed run, and the requests of a task that folds are kept.          *)
THEOREM SessionInvariant == Spec => []SessionInv
<1>1. Init => SessionInv
  BY InitTold
<1>2. SchedulerInv /\ SessionInv /\ [Next]_vars => SessionInv'
  BY NextTold, StutterTold
<1> QED  BY <1>1, <1>2, SchedulerInvariant, PTL DEF Spec

-----------------------------------------------------------------------------
(* What follows from it.                                                   *)

LEMMA AskRaised ==
    ASSUME Saved(log), NEW t, NEW e \in Asks(log), Under(t, e.path)
    PROVE  e.id \in Raised(TaskPath(t))
<1>1. PICK i \in DOMAIN log : e = log[i]
  BY DEF Asks, Range
<1>2. e.kind = "int" /\ IsSeq(e.path) /\ e.path # <<>>
  BY DEF Saved, Asks
<1>3. IsPrefix(TaskPath(t), e.path)
  <2>1. PICK q : q = e.path
    OBVIOUS
  <2>2. IsSeq(q) /\ q # <<>> /\ Under(t, q)
    BY <1>2, <2>1
  <2>3. IsPrefix(TaskPath(t), q)
    BY <2>2, TaskPathIsPrefix
  <2> QED  BY <2>1, <2>3
<1> QED  BY <1>1, <1>2, <1>3 DEF Raised

(* For all bodies, retries and timeouts, and whatever a body does with the *)
(* events it is returned: a task that is run again holds every answer to a *)
(* request of its own and of the runs it dispatched, in every attempt      *)
(* (check_interception; NodeRunner::run).                                  *)
THEOREM AnswersReach == Spec => []AnswerReachesTask
<1>1. SchedulerInv /\ SessionInv => AnswerReachesTask
  <2> SUFFICES ASSUME SchedulerInv, SessionInv, NEW t \in Tasks, stack[t] # <<>>,
                      NEW id \in Answered, id[1][1] = <<t, "1">>
               PROVE  id \in stack[t][1].answers
    BY DEF AnswerReachesTask
  <2>1. PICK e \in Asks(log) : e.id = id
    BY DEF SessionInv, LogTold
  <2>2. Under(t, e.path)
    BY <2>1 DEF SchedulerInv, Saved, Asks, Under
  <2>3. e.id \in Raised(TaskPath(t))
    BY <2>2, AskRaised DEF SchedulerInv
  <2>4. id \in Recovered(TaskPath(t)).answers
    BY <2>1, <2>3 DEF Recovered
  <2>5. stack[t][1].answers = Recovered(TaskPath(t)).answers
    BY DEF SessionInv, TaskTold, BottomTold, Bottom
  <2> QED  BY <2>4, <2>5
<1> QED  BY <1>1, SchedulerInvariant, SessionInvariant, PTL

LEMMA NotEmptyTwo == ASSUME NEW s, Len(s) = 2 PROVE s # <<>>
<1>1. PICK e : e = <<>>
  OBVIOUS
<1>2. Len(e) = 0
  BY <1>1
<1>3. s # e
  BY <1>2
<1> QED  BY <1>1, <1>3

(* However a body is retried after an error or a timeout, a call that gave *)
(* its output in this turn is answered from the scheduler and not run      *)
(* again (workflow_replay_interceptor.rs, case 1).                         *)
THEOREM CompletedStays == Spec => []CompletedNotRerun
<1>1. SchedulerInv /\ SessionInv => CompletedNotRerun
  <2> SUFFICES ASSUME SchedulerInv, SessionInv, NEW t \in Tasks, NEW d \in 2 .. Len(stack[t]),
                      <<stack[t][d - 1].path, stack[t][d - 1].next>> \in completed
               PROVE  FALSE
    BY DEF CompletedNotRerun
  <2>1. PICK n : n = Len(stack[t])
    OBVIOUS
  <2>2. n \in Nat /\ n <= 2
    <3>1. PICK s : s = stack[t]
      OBVIOUS
    <3>2. IsSeq(s) /\ Len(s) <= 2
      BY <3>1 DEF SchedulerInv, StackOK
    <3>3. Len(s) \in Nat
      BY <3>2, SeqFacts
    <3> QED  BY <2>1, <3>1, <3>2, <3>3
  <2>3. d = 2 /\ n = 2 /\ d - 1 = 1
    <3>1. PICK e : e = d
      OBVIOUS
    <3>2. e \in 2 .. n
      BY <2>1, <3>1
    <3>3. e \in Int /\ 2 <= e /\ e <= n
      BY <2>2, <3>2
    <3>4. e = 2 /\ n = 2 /\ e - 1 = 1
      BY <2>2, <3>3
    <3> QED  BY <3>1, <3>4
  <2>4. stack[t] # <<>>
    <3>1. Len(stack[t]) = 2
      BY <2>1, <2>3
    <3> QED  BY <3>1, NotEmptyTwo
  <2>a. StackOK /\ InnerOK
    BY DEF SchedulerInv
  <2>b. running
    BY <2>a, <2>4, RunningTask
  <2>c. Len(stack[t]) = 2
    BY <2>1, <2>3
  <2>d. DispatchedOK(t)
    BY <2>a, <2>c DEF InnerOK
  <2>e. FrameOK(t, Bottom(t)) /\ Bottom(t).path = TaskPath(t)
    BY <2>a, <2>4, StackFacts
  <2>5. running /\ DispatchedOK(t) /\ FrameOK(t, Bottom(t)) /\ Bottom(t).path = TaskPath(t)
    BY <2>b, <2>d, <2>e
  <2>6. PICK j : j = Bottom(t).next
    OBVIOUS
  <2>7. j \in Nat /\ <<TaskPath(t), j>> \in completed
    BY <2>3, <2>5, <2>6 DEF Bottom, FrameOK
  <2>8. RunOf(CallPath(t, j)).status = "COMPLETED"
    BY <2>5, <2>7 DEF SessionInv, CompletedTold
  <2>9. RunOf(CallPath(t, j)).status = "RUNNING"
    BY <2>5, <2>6 DEF DispatchedOK
  <2> QED  BY <2>8, <2>9
<1> QED  BY <1>1, SchedulerInvariant, SessionInvariant, PTL

(* For all nodes and bodies: a task that folds the events of its calls and *)
(* has a single attempt waits only for requests that are in the session or *)
(* among the events that the turn will store, and that nobody has answered *)
(* (context.rs, run_node).                                                 *)
THEOREM WaitingAnswerable == Spec => []WaitingCanBeAnswered
<1>1. SchedulerInv /\ SessionInv => WaitingCanBeAnswered
  <2> SUFFICES ASSUME SchedulerInv, SessionInv, NEW t \in Tasks, running, verdict[t] = "waiting",
                      t \in folding, ~(MaxAttempts[t] > 1)
               PROVE  OpenIn(t) # {}
    BY DEF WaitingCanBeAnswered, Stuck
  <2>1. Single(t)
    BY DynConstants DEF Single, DynNodes
  <2>2. AskedBefore(t) \/ \E e \in Asks(events) : Under(t, e.path)
    BY <2>1 DEF SessionInv, TaskTold, WaitTold
  <2>3. PICK e : e \in Asks(log) \cup Asks(events) /\ Under(t, e.path) /\ e.id \notin Answered
    <3>1. ASSUME NEW e \in Asks(events) PROVE e.id \notin Answered
      <4>1. e.id[2] = turn
        BY <3>1 DEF SessionInv, EventsTold, Fresh
      <4>2. \A id \in Answered : id[2] # turn
        BY DEF SessionInv, LogTold
      <4> QED  BY <4>1, <4>2
    <3> QED  BY <2>2, <3>1 DEF AskedBefore
  <2>4. IsSeq(e.path) /\ e.path # <<>> /\ e.kind = "int"
    BY <2>3 DEF SchedulerInv, Saved, Asks
  <2>5. IsPrefix(TaskPath(t), e.path)
    <3>1. PICK q : q = e.path
      OBVIOUS
    <3>2. IsSeq(q) /\ q # <<>> /\ Under(t, q)
      BY <2>3, <2>4, <3>1
    <3>3. IsPrefix(TaskPath(t), q)
      BY <3>2, TaskPathIsPrefix
    <3> QED  BY <3>1, <3>3
  <2>6. e \in Range(log \o events)
    <3>1. Range(log \o events) = Range(log) \cup Range(events)
      BY ConcatFacts DEF SchedulerInv, Saved
    <3> QED  BY <2>3, <3>1 DEF Asks
  <2>7. e.id \in OpenIn(t)
    BY <2>3, <2>4, <2>5, <2>6 DEF OpenIn
  <2> QED  BY <2>7
<1> QED  BY <1>1, SchedulerInvariant, SessionInvariant, PTL

=============================================================================
