-------------------------------- MODULE Agents --------------------------------
(* A tree of agents: sequences, loops and parallel agents around leaves    *)
(* whose runs call the model, and the resumption of a paused invocation:   *)
(*   crates/adk-agents/src/sequential_agent.rs, loop_agent.rs,             *)
(*   parallel_agent.rs, base_agent.rs (run_async), invocation_context.rs   *)
(*                                                                         *)
(* run_async works on a clone of its parent's context and returns all of   *)
(* its events at the end, so every agent under way is one frame: its       *)
(* context and the events it holds.  The caller of the root appends what   *)
(* it returns to the session.  A leaf's run is one step; what it returns   *)
(* is one event or an error.  Branches, and the state other than one key   *)
(* (whose value is the leaf that wrote it last), are left out.             *)
(***************************************************************************)
EXTENDS Integers, Sequences, FiniteSets, SequencesExt, FiniteSetsExt

CONSTANTS
    Leaves, Sequentials, Loops, Parallels, \* the agents, by behaviour
    SubAgents,      \* SubAgents[a]: sub_agents of a composite, in order
    Root,
    MaxIterations,  \* LoopAgent::max_iterations
    Answers,        \* Answers[l]: how a run of the leaf may end
    After,          \* agents whose after_agent_callback returns content
    MaxTurn         \* bound: turns of the invocation

Composites == Sequentials \cup Loops \cup Parallels
AgentNames == Leaves \cup Composites
Nobody == "nobody"

ASSUME AgentTree ==
    /\ Root \in AgentNames /\ MaxTurn \in Nat /\ After \subseteq AgentNames
    /\ Nobody \notin AgentNames
    /\ Leaves \cap Composites = {} /\ Sequentials \cap Loops = {}
    /\ Parallels \cap (Sequentials \cup Loops) = {}
    /\ SubAgents \in [Composites -> Seq(AgentNames) \ {<<>>}]
    \* an agent has one parent (AlreadyHasParent), made after it
    /\ \A c \in Composites : IsInjective(SubAgents[c]) /\ Root \notin Range(SubAgents[c])
    /\ \A c, d \in Composites : c # d => Range(SubAgents[c]) \cap Range(SubAgents[d]) = {}
    /\ \A S \in SUBSET Composites : S # {} => \E c \in S : Range(SubAgents[c]) \cap S = {}
    /\ MaxIterations \in [Loops -> Nat \ {0}]
    /\ \A l \in Leaves : Answers[l] \subseteq {"say", "write", "ask", "escalate", "fail"}

VARIABLES
    log,     \* events of the invocation in the session
    turn,
    frames,  \* frames[a]: the run of a that is under way
    outcome  \* of the last turn: "new", "paused", "finished" or "failed"

vars == <<log, turn, frames, outcome>>

-----------------------------------------------------------------------------
(* Events.  at is the agent state that a marker carries.                   *)

Event(by, kind, at) == [by |-> by, kind |-> kind, at |-> at]
State(sub, looped) == [sub |-> sub, looped |-> looped]
Empty == State(Nobody, 0)   \* an agent state without fields

Kinds == {"state", "end", "say", "write", "ask", "escalate"}
Marker(a, at) == Event(a, "state", at)
EndMarker(a) == Event(a, "end", Empty)
Pauses(events) == \E i \in DOMAIN events : events[i].kind = "ask"
Escalates(events) == \E i \in DOMAIN events : events[i].kind = "escalate"

(* The state_delta of the events, applied in their order: the last counts. *)
Applied(writer, events) ==
    LET W == {i \in DOMAIN events : events[i].kind = "write"}
    IN  IF W = {} THEN writer ELSE events[Max(W)].by

(* populate_invocation_agent_states: what the events, taken in their       *)
(* order, leave of each agent.                                             *)
Marks == {"state", "end"}
NoEvent == Event(Nobody, "none", Empty)
Latest(events, a, kinds) ==
    LET own == {i \in DOMAIN events : events[i].by = a /\ events[i].kind \in kinds}
    IN  IF own = {} THEN NoEvent ELSE events[Max(own)]
LatestKind(events, a) == Latest(events, a, Kinds).kind

(* Mutation of Populated: the ends of agents are not recovered.            *)
PopulatedWithoutEnds(events) ==
    [ended |-> {},
     states |-> [a \in {a \in AgentNames : Latest(events, a, {"state"}) # NoEvent} |->
                    Latest(events, a, {"state"}).at]]

Populated(events) ==
    [ended |-> {a \in AgentNames : LatestKind(events, a) = "end"},
     states |-> [a \in {a \in AgentNames : LatestKind(events, a) \notin {"none", "end"}} |->
                    Latest(events, a, Marks).at]]

Without(f, a) == [x \in DOMAIN f \ {a} |-> f[x]]
With(f, a, v) == [x \in DOMAIN f \cup {a} |-> IF x = a THEN v ELSE f[x]]

-----------------------------------------------------------------------------
(* Frames.  The context of a run: states and ended are agent_states and    *)
(* end_of_agents, writer is session.state.                                 *)

Index(a, sub) ==
    IF sub \in Range(SubAgents[a]) THEN CHOOSE i \in DOMAIN SubAgents[a] : SubAgents[a][i] = sub
    ELSE 1

(* Mutation of StartIndex: a resumed agent goes on with the sub-agent      *)
(* after the one that paused.                                              *)
StartIndexAfter(a, at) ==
    IF at.sub # Nobody THEN Index(a, at.sub) + 1
    ELSE IF a \in Sequentials THEN Len(SubAgents[a]) + 1 ELSE 1

(* SequentialAgent::start_index, LoopAgent::start_state.                   *)
StartIndex(a, at) ==
    IF at.sub # Nobody THEN Index(a, at.sub)
    ELSE IF a \in Sequentials THEN Len(SubAgents[a]) + 1 ELSE 1

(* Mutation of Entered: times_looped is not restored.                      *)
EnteredUncounted(a, ctx) ==
    LET known == a \in DOMAIN ctx.states
    IN  [states |-> ctx.states, ended |-> ctx.ended, writer |-> ctx.writer, events |-> <<>>,
         at |-> "run", resuming |-> known, looped |-> 0, exit |-> FALSE,
         next |-> IF known /\ a \in Sequentials \cup Loops THEN StartIndex(a, ctx.states[a]) ELSE 1]

Entered(a, ctx) ==
    LET known == a \in DOMAIN ctx.states
        at == IF known THEN ctx.states[a] ELSE Empty
    IN  [states |-> ctx.states, ended |-> ctx.ended, writer |-> ctx.writer, events |-> <<>>,
         at |-> "run", resuming |-> known, looped |-> at.looped,
         next |-> IF known /\ a \in Sequentials \cup Loops THEN StartIndex(a, at) ELSE 1,
         exit |-> FALSE]

Marked(a, f, at) ==
    [f EXCEPT !.states = With(@, a, at), !.ended = @ \ {a}, !.events = Append(@, Marker(a, at))]

(* run_async after the behaviour: after_agent_callback, paused or not.     *)
Returned(a, f) ==
    [f EXCEPT !.at = "done",
              !.events = IF a \in After THEN Append(@, Event(a, "say", Empty)) ELSE @]
Ended(a, f) == Returned(a, [f EXCEPT !.events = Append(@, EndMarker(a))])

Below(T) == UNION {Range(SubAgents[c]) : c \in T \cap Composites}
DescendantsOf ==
    [a \in AgentNames |-> {x \in AgentNames : \A S \in SUBSET AgentNames :
                              Below({a} \cup S) \subseteq S => x \in S}]
Descendants(a) == DescendantsOf[a]
Dropped(a) == [x \in DOMAIN frames \ Descendants(a) |-> frames[x]]

(* reset_sub_agent_states.                                                 *)
Reset(a, f) ==
    [f EXCEPT !.states = [x \in DOMAIN @ \ Descendants(a) |-> @[x]], !.ended = @ \ Descendants(a)]

At(a, where) == a \in DOMAIN frames /\ frames[a].at = where

-----------------------------------------------------------------------------
(* The for loops of SequentialAgent and LoopAgent: mark and run the next   *)
(* sub-agent, with a clone of the context.                                 *)
RunSub(a) ==
    /\ a \in Sequentials \cup Loops /\ At(a, "run")
    /\ frames[a].next <= Len(SubAgents[a]) /\ ~frames[a].exit
    /\ LET f == frames[a]
           sub == SubAgents[a][f.next]
           g == IF f.resuming THEN f ELSE Marked(a, f, State(sub, f.looped))
       IN  frames' = With(With(frames, a, [g EXCEPT !.at = "wait"]), sub, Entered(sub, g))
    /\ UNCHANGED <<log, turn, outcome>>

(* Mutation of Join: the sub-agent's state is not applied.                 *)
JoinStateless(a, sub) ==
    /\ a \in Sequentials \cup Loops /\ At(a, "wait") /\ sub \in Range(SubAgents[a])
    /\ At(sub, "done")
    /\ LET got == frames[sub].events
           g == [frames[a] EXCEPT !.events = @ \o got, !.resuming = FALSE,
                                  !.exit = a \in Loops /\ Escalates(got)]
       IN  frames' = With(Dropped(a), a,
                 IF Pauses(got) THEN Returned(a, g) ELSE [g EXCEPT !.at = "run", !.next = @ + 1])
    /\ UNCHANGED <<log, turn, outcome>>

(* The sub-agent returned: its events are kept and its state applied.      *)
Join(a, sub) ==
    /\ a \in Sequentials \cup Loops /\ At(a, "wait") /\ sub \in Range(SubAgents[a])
    /\ At(sub, "done")
    /\ LET f == frames[a]
           got == frames[sub].events
           g == [f EXCEPT !.events = @ \o got, !.writer = Applied(@, got), !.resuming = FALSE,
                          !.exit = a \in Loops /\ Escalates(got)]
       IN  frames' = With(Dropped(a), a,
                 IF Pauses(got) THEN Returned(a, g) ELSE [g EXCEPT !.at = "run", !.next = @ + 1])
    /\ UNCHANGED <<log, turn, outcome>>

EndSequence(a) ==
    /\ a \in Sequentials /\ At(a, "run") /\ frames[a].next > Len(SubAgents[a])
    /\ frames' = With(frames, a, Ended(a, frames[a]))
    /\ UNCHANGED <<log, turn, outcome>>

(* The end of a pass: times_looped counts it, and the states of all the    *)
(* agents below are forgotten.                                             *)
EndPass(a) ==
    /\ a \in Loops /\ At(a, "run")
    /\ frames[a].exit \/ frames[a].next > Len(SubAgents[a])
    /\ LET f == Reset(a, [frames[a] EXCEPT !.looped = @ + 1, !.next = 1])
       IN  frames' = With(frames, a,
                 IF f.exit \/ f.looped >= MaxIterations[a] THEN Ended(a, f) ELSE f)
    /\ UNCHANGED <<log, turn, outcome>>

(* ParallelAgent spawns a task for each sub-agent that has not ended.      *)
Spawn(a) ==
    /\ a \in Parallels /\ At(a, "run")
    /\ LET f == IF frames[a].resuming THEN frames[a] ELSE Marked(a, frames[a], Empty)
           subs == Range(SubAgents[a]) \ f.ended
       IN  frames' = [x \in DOMAIN frames \cup subs |->
                         IF x = a THEN [f EXCEPT !.at = "join"]
                         ELSE IF x \in subs THEN Entered(x, f) ELSE frames[x]]
    /\ UNCHANGED <<log, turn, outcome>>

(* join_next: whichever task is done.  One that escalated aborts the rest. *)
JoinNext(a, sub) ==
    /\ a \in Parallels /\ At(a, "join") /\ sub \in Range(SubAgents[a]) /\ At(sub, "done")
    /\ LET got == frames[sub].events
           f == [frames[a] EXCEPT !.events = @ \o got, !.writer = Applied(@, got)]
       IN  frames' = IF Escalates(got) THEN With(Dropped(a), a, [f EXCEPT !.at = "joined"])
                     ELSE With(Without(frames, sub), a, f)
    /\ UNCHANGED <<log, turn, outcome>>

(* Mutation of EndParallel: it waits for the aborted tasks too.            *)
EndParallelWaits(a) ==
    /\ a \in Parallels /\ At(a, "join") /\ Range(SubAgents[a]) \cap DOMAIN frames = {}
    /\ LET f == frames[a]
       IN  frames' = With(frames, a, IF Pauses(f.events) THEN Returned(a, f) ELSE Ended(a, f))
    /\ UNCHANGED <<log, turn, outcome>>

EndParallel(a) ==
    /\ a \in Parallels
    /\ At(a, "joined") \/ (At(a, "join") /\ Range(SubAgents[a]) \cap DOMAIN frames = {})
    /\ LET f == frames[a]
       IN  frames' = With(frames, a, IF Pauses(f.events) THEN Returned(a, f) ELSE Ended(a, f))
    /\ UNCHANGED <<log, turn, outcome>>

(* A leaf runs the model.                                                  *)
RunLeaf(l, answer) ==
    /\ l \in Leaves /\ At(l, "run") /\ answer \in Answers[l]
    /\ frames' = With(frames, l,
          IF answer = "fail" THEN [frames[l] EXCEPT !.at = "failed"]
          ELSE Returned(l, [frames[l] EXCEPT !.events = Append(@, Event(l, answer, Empty))]))
    /\ UNCHANGED <<log, turn, outcome>>

(* An error of a sub-agent ends its parent, which returns no events and    *)
(* drops the tasks it has spawned.                                         *)
Fail(a) ==
    /\ a \in Composites
    /\ At(a, "wait") \/ At(a, "join")
    /\ \E sub \in Range(SubAgents[a]) : At(sub, "failed")
    /\ frames' = With(Dropped(a), a, [frames[a] EXCEPT !.at = "failed"])
    /\ UNCHANGED <<log, turn, outcome>>

-----------------------------------------------------------------------------
(* Turns.                                                                  *)

Init == log = <<>> /\ turn = 0 /\ frames = <<>> /\ outcome = "new"

(* The invocation begins, or is resumed with what its events say.          *)
StartTurn ==
    /\ frames = <<>> /\ turn < MaxTurn /\ outcome \in {"new", "paused"}
    /\ turn' = turn + 1
    /\ LET s == Populated(log)
           ctx == [states |-> s.states, ended |-> s.ended, writer |-> Applied(Nobody, log)]
       IN  frames' = With(<<>>, Root, Entered(Root, ctx))
    /\ UNCHANGED <<log, outcome>>

EndTurn ==
    /\ At(Root, "done") \/ At(Root, "failed")
    /\ LET f == frames[Root]
       IN  /\ log' = IF f.at = "done" THEN log \o f.events ELSE log
           /\ outcome' = IF f.at = "failed" THEN "failed"
                         ELSE IF Pauses(f.events) THEN "paused" ELSE "finished"
    /\ frames' = <<>>
    /\ UNCHANGED turn

AgentStep(a) ==
    \/ RunSub(a) \/ EndSequence(a) \/ EndPass(a) \/ Spawn(a) \/ EndParallel(a) \/ Fail(a)
    \/ \E sub \in AgentNames : Join(a, sub) \/ JoinNext(a, sub)
    \/ \E answer \in {"say", "write", "ask", "escalate", "fail"} : RunLeaf(a, answer)

Next == StartTurn \/ EndTurn \/ \E a \in AgentNames : AgentStep(a)

Spec == Init /\ [][Next]_vars
FairSpec == Spec /\ WF_vars(EndTurn) /\ \A a \in AgentNames : WF_vars(AgentStep(a))
=============================================================================
