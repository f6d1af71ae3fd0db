------------------------------- MODULE Rewind -------------------------------
(***************************************************************************)
(* The pure half of rewinding a session: the deltas that undo the events   *)
(* that are no longer live (crates/adk-runners/src/rewind.rs).             *)
(***************************************************************************)
EXTENDS SessionService, LiveEvents

(* The value the deltas of the events at the indices I give to key k,      *)
(* over base; Null stands for an absent key.                               *)
Replay(base, events, I, k) ==
    LET W == {i \in I : k \in DOMAIN events[i].delta}
    IN  IF W # {} THEN events[Max(W)].delta[k]
        ELSE IF k \in DOMAIN base THEN base[k] ELSE Null

(* rewind_event_index: the first event of the invocation.                  *)
HasInvocation(events, inv) == \E e \in Range(events) : Inv(e) = inv
RewindIndex(events, inv) == CHOOSE i \in DOMAIN events :
    Inv(events[i]) = inv /\ \A j \in 1 .. i - 1 : Inv(events[j]) # inv

(* compute_state_delta_for_rewind.                                         *)
StateDelta(view, index) ==
    LET at == [k \in {k \in Keys : Scope[k] \notin Shared} |->
                  Replay(NoState, view.events, 1 .. index - 1, k)]
        restored == {k \in DOMAIN at : at[k] # Null /\
                        (k \in DOMAIN view.state => view.state[k] # at[k])}
        cleared == {k \in DOMAIN at : at[k] = Null /\ k \in DOMAIN view.state}
    IN  Restrict(at, restored \cup cleared)

(* The version the artifact deltas at the indices I record last.           *)
RecordedVersion(events, I) ==
    LET W == {i \in I : events[i].version # NoVersion}
    IN  IF W = {} THEN NoVersion ELSE events[Max(W)].version

(* compute_artifact_delta_for_rewind: the version it records, NoVersion if *)
(* the artifact is left alone, and the content it saves.                   *)
ArtifactDelta(events, index) ==
    LET current == RecordedVersion(events, DOMAIN events)
    IN  IF current = RecordedVersion(events, 1 .. index - 1) THEN NoVersion ELSE current + 1

(* Mutation of RestoredContent: the version at the end is saved again.     *)
RestoredContentCurrent(s, events, index) ==
    LoadArtifact(s, RecordedVersion(events, DOMAIN events))

RestoredContent(s, events, index) ==
    LoadArtifact(s, RecordedVersion(events, 1 .. index - 1))
=============================================================================
