--------------------------- MODULE SessionService ---------------------------
(***************************************************************************)
(* InMemorySessionService (crates/adk-agents/src/services.rs) for one app  *)
(* and one user, and the versions of one artifact of each session          *)
(* (crates/adk-agents/src/in_memory_artifact_service.rs).                  *)
(*                                                                         *)
(* The service has three locks: one over the sessions, one over the shared *)
(* app: state and one over the shared user: state.  append_event and       *)
(* create_session hold the first while they take the other two, so each is *)
(* one step here, but for the user: share of its delta, which is written   *)
(* in a second one.  The reading side takes the three locks one after the  *)
(* other and is split into steps by its callers (Runner).                  *)
(*                                                                         *)
(* Data: a state maps keys to values, a value is the id of the event that  *)
(* wrote it or Null; an event id is the pair <<invocation, position>>.     *)
(* Timestamps are left out.                                                *)
(***************************************************************************)
EXTENDS Integers, FiniteSets, SequencesExt

CONSTANTS
    Sids,   \* session ids
    Scope   \* scope of each state key: "app", "user", "session" or "temp"

Keys == DOMAIN Scope
Shared == {"app", "user"}

ASSUME ScopeIsTotal == \A k \in Keys : Scope[k] \in Shared \cup {"session", "temp"}

VARIABLES
    sessions,   \* session id -> stored session, for the sessions that exist
    shared,     \* app_state and user_state
    unwritten,  \* user: share of a delta still to be written: sessions is locked
    written,    \* history: the shares of deltas for the shared maps, oldest first
    artifacts   \* contents of the versions of each session's artifact

service == <<sessions, shared, unwritten, written, artifacts>>

Null == <<>>
NoState == <<>>
NoVersion == -1

InScope(state, S) == Restrict(state, {k \in DOMAIN state : Scope[k] \in S})

(* The maps' extend: the entries of a delta go over those of a state.      *)
Extended(state, delta) ==
    [k \in DOMAIN state \cup DOMAIN delta |-> IF k \in DOMAIN delta THEN delta[k] ELSE state[k]]

InitService ==
    /\ sessions = <<>>
    /\ shared = [s \in Shared |-> NoState]
    /\ unwritten = NoState /\ written = <<>>
    /\ artifacts = [s \in Sids |-> <<>>]

Unlocked == unwritten = NoState

(* apply_scoped_state_delta: the app: and user: shares go to the maps that *)
(* all sessions see, the one after the other.                              *)
ApplySharedDelta(delta) ==
    /\ shared' = [shared EXCEPT !["app"] = Extended(@, InScope(delta, {"app"}))]
    /\ unwritten' = InScope(delta, {"user"})
    /\ written' = Append(written, InScope(delta, Shared))

WriteUserState ==
    /\ ~Unlocked
    /\ shared' = [shared EXCEPT !["user"] = Extended(@, unwritten)]
    /\ unwritten' = NoState
    /\ UNCHANGED <<sessions, written, artifacts>>

(* create_session, and the caller's copy before the shared state is merged *)
(* into it.  born tells two sessions with one id apart; initial is history.*)
NewSession(state, born) ==
    [state |-> InScope(state, {"session"}), events |-> <<>>,
     born |-> born, initial |-> InScope(state, {"session"})]

CreateSession(s, state, born) ==
    /\ Unlocked /\ s \notin DOMAIN sessions
    /\ sessions' = [t \in DOMAIN sessions \cup {s} |->
                       IF t = s THEN NewSession(state, born) ELSE sessions[t]]
    /\ ApplySharedDelta(state)
    /\ UNCHANGED artifacts

(* delete_session leaves the shared state and the artifacts alone.         *)
DeleteSession(s) ==
    /\ Unlocked /\ s \in DOMAIN sessions
    /\ sessions' = Restrict(sessions, DOMAIN sessions \ {s})
    /\ UNCHANGED <<shared, unwritten, written, artifacts>>

(* Mutation of IsStored: a redelivered event is not recognised.            *)
IsStoredNever(s, e) == FALSE

(* The event is in the stored session already, by id and full equality.    *)
IsStored(s, e) == e \in Range(sessions[s].events)

(* append_event returns before it changes anything.                        *)
AppendIgnored(s, e) == e.partial \/ s \notin DOMAIN sessions \/ IsStored(s, e)

Trimmed(e) == [e EXCEPT !.delta = InScope(@, Shared \cup {"session"})]

(* apply_session_event on the caller's copy: temp: keys reach its state,   *)
(* the event is kept without them.                                         *)
AppliedTo(view, e) ==
    [view EXCEPT !.state = Extended(@, e.delta), !.events = Append(@, Trimmed(e))]

(* Mutation of ViewAfter: the copy is changed before it is known whether   *)
(* the store keeps the event.                                              *)
ViewAfterAtOnce(s, view, e) == IF e.partial THEN view ELSE AppliedTo(view, e)

(* append_event: the caller's copy of the session once it returns ...      *)
ViewAfter(s, view, e) == IF AppendIgnored(s, e) THEN view ELSE AppliedTo(view, e)

(* ... and what becomes of the stored session and of the shared state.     *)
AppendEvent(s, e) ==
    /\ e.partial \/ Unlocked
    /\ IF s \notin DOMAIN sessions \/ AppendIgnored(s, e)
       THEN UNCHANGED <<sessions, shared, unwritten, written>>
       ELSE /\ sessions' = [sessions EXCEPT
                  ![s].events = Append(@, Trimmed(e)),
                  ![s].state = Extended(@, InScope(e.delta, {"session"}))]
            /\ ApplySharedDelta(e.delta)

(* save_artifact appends a version; its number is the count before it.     *)
NextVersion(s) == Len(artifacts[s])
SaveArtifacts(s, contents) == artifacts' = [artifacts EXCEPT ![s] = @ \o contents]

(* load_artifact with a version; an empty part loads as nothing.           *)
Placeholder == <<>>
LoadArtifact(s, v) ==
    IF v + 1 \in DOMAIN artifacts[s] THEN artifacts[s][v + 1] ELSE Placeholder
=============================================================================
