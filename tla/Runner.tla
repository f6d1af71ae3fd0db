------------------------------- MODULE Runner -------------------------------
(***************************************************************************)
(* Runner::run_async and Runner::rewind_async (crates/adk-runners/src/     *)
(* runner.rs) called concurrently over one InMemorySessionService, with    *)
(* direct calls of the service's create, delete and append beside them.    *)
(*                                                                         *)
(* A call works on a copy of the session that it read at its start and     *)
(* keeps up to date with its own appends only.  Every await and every      *)
(* lock the call takes anew is a point where another call may step in.     *)
(* No plugin is registered and no compaction configured; the agent is the  *)
(* events it answers with.                                                 *)
(***************************************************************************)
EXTENDS Rewind

CONSTANTS
    Callers,       \* concurrent callers
    Operations,    \* what they call: a subset of {"run", "rewind"}
    AutoCreate,    \* with_auto_create_session
    InitialStates, \* sets of keys that create_session may be given
    Messages,      \* shapes of the user event: the keys of state_delta
    Replies,       \* what the agent may answer: sequences of shapes
    AgentFails,    \* TRUE: the agent may fail after it saved an artifact
    Deletions,     \* TRUE: sessions may be deleted
    Redeliveries,  \* TRUE: an event may be handed to append_event twice
    MaxInv         \* bound: invocations

(* A shape: the keys an event sets, those it sets to Null, and whether it  *)
(* is partial and whether an artifact was saved for it.                    *)
Shape == [sets : SUBSET Keys, clears : SUBSET Keys, partial : BOOLEAN, saves : BOOLEAN]

ASSUME RunnerConstants ==
    /\ Operations \subseteq {"run", "rewind"} /\ MaxInv \in Nat
    /\ {AutoCreate, AgentFails, Deletions, Redeliveries} \subseteq BOOLEAN
    /\ InitialStates \subseteq SUBSET Keys /\ Messages \subseteq Shape
    /\ Replies \subseteq Seq(Shape)

VARIABLES
    calls,   \* the call each caller is in
    invs     \* invocation ids given out; also marks the creation of sessions

vars == <<service, calls, invs>>

NoEvent == <<>>
NoView == [state |-> NoState, events |-> <<>>, born |-> NoInv]

Idle == [pc |-> "idle", op |-> "run", sid |-> CHOOSE s \in Sids : TRUE, inv |-> NoInv,
         target |-> NoInv, read |-> 0, view |-> NoView, todo |-> <<>>, last |-> NoEvent]

Init == InitService /\ calls = [c \in Callers |-> Idle] /\ invs = 0

(* The n-th event of invocation inv, of the given shape.                   *)
EventOf(inv, n, shape, version) ==
    [id |-> <<inv, n>>, back |-> NoInv, partial |-> shape.partial, version |-> version,
     delta |-> [k \in shape.sets \cup shape.clears |->
                   IF k \in shape.clears THEN Null ELSE <<inv, n>>]]

Become(c, call) == calls' = [calls EXCEPT ![c] = call]
Return(c) == Become(c, Idle)

-----------------------------------------------------------------------------
(* The service called directly.                                            *)

Open(s, keys) ==
    /\ invs < MaxInv /\ invs' = invs + 1
    /\ CreateSession(s, [k \in keys |-> <<invs + 1, 0>>], invs + 1)
    /\ UNCHANGED calls

Delete(s) ==
    /\ Deletions
    /\ DeleteSession(s)
    /\ UNCHANGED <<calls, invs>>

(* append_event is handed an event again, by the call it came from.        *)
Redeliver(c) ==
    LET call == calls[c]
    IN  /\ Redeliveries /\ call.last # NoEvent
        /\ AppendEvent(call.sid, call.last)
        /\ Become(c, [call EXCEPT !.view = ViewAfter(call.sid, @, call.last), !.last = NoEvent])
        /\ UNCHANGED <<artifacts, invs>>

-----------------------------------------------------------------------------
(* get_or_create_session: the stored session is copied under one lock, the *)
(* app: and the user: state are merged into the copy under two others.     *)

(* Mutation of Reads: the shared state is read first.                      *)
ReadsSharedFirst == <<"app", "user", "session">>

Reads == <<"session", "app", "user">>

Begin(c, op, s, target) ==
    /\ calls[c].pc = "idle" /\ invs < MaxInv
    /\ invs' = invs + 1
    /\ Become(c, [pc |-> "read", op |-> op, sid |-> s, inv |-> invs + 1, target |-> target,
                  read |-> 1, view |-> NoView, todo |-> <<>>, last |-> NoEvent])
    /\ UNCHANGED service

CopyOf(session) == [state |-> session.state, events |-> session.events, born |-> session.born]

Read(c) ==
    LET call == calls[c]
        what == Reads[call.read]
        next == [call EXCEPT !.read = @ + 1,
                             !.pc = IF call.read = Len(Reads) THEN call.op ELSE "read"]
    IN  /\ call.pc = "read" /\ (what \in Shared \/ Unlocked)
        /\ IF what \in Shared THEN
               Become(c, [next EXCEPT !.view.state = Extended(@, shared[what])])
           ELSE IF call.sid \in DOMAIN sessions THEN
               Become(c, [next EXCEPT !.view = CopyOf(sessions[call.sid])])
           ELSE IF AutoCreate THEN Become(c, [call EXCEPT !.pc = "create"])
           ELSE Return(c)
        /\ UNCHANGED <<service, invs>>

(* The session is missing; create_session may find that it no longer is,   *)
(* and the call ends with AlreadyExists.                                   *)
Create(c) ==
    LET call == calls[c]
    IN  /\ call.pc = "create"
        /\ CreateSession(call.sid, NoState, call.inv)
        /\ Become(c, [call EXCEPT !.pc = "read", !.read = 2, !.view.born = call.inv])
        /\ UNCHANGED invs

CreateFails(c) ==
    /\ calls[c].pc = "create" /\ Unlocked /\ calls[c].sid \in DOMAIN sessions
    /\ Return(c)
    /\ UNCHANGED <<service, invs>>

-----------------------------------------------------------------------------
(* run_async: the user event, the agent, the events it answered with.      *)

Append1(c, e, next) ==
    /\ AppendEvent(next.sid, e)
    /\ Become(c, [next EXCEPT !.view = ViewAfter(next.sid, @, e),
                              !.last = IF Redeliveries THEN e ELSE NoEvent])

UserMessage(c, shape) ==
    /\ calls[c].pc = "run"
    /\ Append1(c, EventOf(calls[c].inv, 1, shape, NoVersion), [calls[c] EXCEPT !.pc = "agent"])
    /\ UNCHANGED <<artifacts, invs>>

(* Versions are numbered from the next one on, in the order of the events. *)
Answers(s, inv, reply) ==
    [i \in DOMAIN reply |->
        EventOf(inv, i + 1, reply[i],
            IF reply[i].saves
            THEN NextVersion(s) + Cardinality({j \in 1 .. i - 1 : reply[j].saves})
            ELSE NoVersion)]

(* The content of a version is named by the event it was saved for.        *)
Saved(inv, reply) ==
    LET I == {i \in DOMAIN reply : reply[i].saves}
        nth(j) == CHOOSE i \in I : Cardinality({h \in I : h <= i}) = j
    IN  [j \in 1 .. Cardinality(I) |-> <<inv, nth(j) + 1>>]

Agent(c, reply) ==
    LET call == calls[c]
    IN  /\ call.pc = "agent"
        /\ SaveArtifacts(call.sid, Saved(call.inv, reply))
        /\ Become(c, [call EXCEPT !.pc = "append", !.todo = Answers(call.sid, call.inv, reply)])
        /\ UNCHANGED <<sessions, shared, unwritten, written, invs>>

(* agent.run_async returns an error: its events are gone, what it saved is *)
(* not, and the user event stays without an answer.                        *)
AgentError(c, reply) ==
    /\ AgentFails /\ calls[c].pc = "agent"
    /\ SaveArtifacts(calls[c].sid, Saved(calls[c].inv, reply))
    /\ Return(c)
    /\ UNCHANGED <<sessions, shared, unwritten, written, invs>>

AppendNext(c) ==
    LET call == calls[c]
    IN  /\ call.pc = "append" /\ call.todo # <<>>
        /\ Append1(c, Head(call.todo), [call EXCEPT !.todo = Tail(@)])
        /\ UNCHANGED <<artifacts, invs>>

End(c) ==
    /\ calls[c].pc = "append" /\ calls[c].todo = <<>>
    /\ Return(c)
    /\ UNCHANGED <<service, invs>>

-----------------------------------------------------------------------------
(* rewind_async: both deltas are computed on the copy, the old content of  *)
(* the artifact is saved again, and one event is appended.                 *)

PrepareRewind(c) ==
    LET call == calls[c]
        index == RewindIndex(call.view.events, call.target)
        version == ArtifactDelta(call.view.events, index)
    IN  /\ call.pc = "rewind" /\ HasInvocation(call.view.events, call.target)
        /\ SaveArtifacts(call.sid, IF version = NoVersion THEN <<>>
                         ELSE <<RestoredContent(call.sid, call.view.events, index)>>)
        /\ Become(c, [call EXCEPT !.pc = "append", !.todo =
               <<[id |-> <<call.inv, 1>>, back |-> call.target, partial |-> FALSE,
                  version |-> version, delta |-> StateDelta(call.view, index)]>>])
        /\ UNCHANGED <<sessions, shared, unwritten, written, invs>>

InvocationNotFound(c) ==
    /\ calls[c].pc = "rewind" /\ ~HasInvocation(calls[c].view.events, calls[c].target)
    /\ Return(c)
    /\ UNCHANGED <<service, invs>>

-----------------------------------------------------------------------------
Step(c) ==
    \/ Read(c) \/ Create(c) \/ CreateFails(c)
    \/ \E shape \in Messages : UserMessage(c, shape)
    \/ \E reply \in Replies : Agent(c, reply) \/ AgentError(c, reply)
    \/ AppendNext(c) \/ End(c)
    \/ PrepareRewind(c) \/ InvocationNotFound(c)

Next ==
    \/ WriteUserState /\ UNCHANGED <<calls, invs>>
    \/ \E s \in Sids : Delete(s) \/ \E keys \in InitialStates : Open(s, keys)
    \/ \E c \in Callers :
        \/ Redeliver(c) \/ Step(c)
        \/ \E s \in Sids : \/ "run" \in Operations /\ Begin(c, "run", s, NoInv)
                           \/ "rewind" \in Operations /\
                                \E t \in 1 .. invs : Begin(c, "rewind", s, t)

Spec == Init /\ [][Next]_vars
=============================================================================
