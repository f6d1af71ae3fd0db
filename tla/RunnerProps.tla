----------------------------- MODULE RunnerProps -----------------------------
(***************************************************************************)
(* What sessions promise to the calls that share them, and what a rewind   *)
(* promises.                                                               *)
(***************************************************************************)
EXTENDS Runner

(* Positions of the writes of value v to shared key k: one, unless the     *)
(* event was delivered again to a session created anew under its id.       *)
Writes(k, v) == {i \in DOMAIN written : k \in DOMAIN written[i] /\ written[i][k] = v}

HasView(c) == calls[c].view.born # NoInv /\ calls[c].pc # "read"

(* A call's copy of a session never shows a shared value older than one an *)
(* event of the copy wrote.  services.rs get_session: the session is       *)
(* copied before the app: and user: state is merged in, under three locks. *)
SharedAsNewAsEvents ==
    \A c \in Callers : HasView(c) =>
        LET view == calls[c].view
        IN  \A e \in Range(view.events) : \A k \in DOMAIN InScope(e.delta, Shared) :
                /\ k \in DOMAIN view.state
                /\ \E i \in Writes(k, view.state[k]), j \in Writes(k, e.delta[k]) : i >= j

(* However often it is delivered, an event is stored once.  services.rs    *)
(* append_event: "so a re-delivered event isn't double-applied".  (It does *)
(* not hold of events with temp: keys, which are not recognised again.)    *)
StoredOnce ==
    \A s \in DOMAIN sessions :
        \A i, j \in DOMAIN sessions[s].events :
            sessions[s].events[i].id = sessions[s].events[j].id => i = j

(* A call's copy holds, in order, events that are in the stored session,   *)
(* and all of those that are the call's own: an append that the store      *)
(* drops does not reach the copy, one that it keeps does.  (A copy of a    *)
(* session that was deleted or created anew since is out of date.)         *)
(* services.rs append_event.                                               *)
CopyFollowsStore ==
    \A c \in Callers :
        LET copy == calls[c].view.events
            stored == sessions[calls[c].sid].events
        IN  /\ HasView(c) /\ calls[c].sid \in DOMAIN sessions
            /\ sessions[calls[c].sid].born = calls[c].view.born
            =>  /\ \A j \in DOMAIN copy : \E q \in DOMAIN stored :
                      stored[q] = copy[j] /\ \A i \in 1 .. j - 1 : \E p \in 1 .. q - 1 : stored[p] = copy[i]
                /\ \A e \in Range(stored) : Inv(e) = calls[c].inv => e \in Range(copy)

(* The stored state of a session is the one its live events lead to from   *)
(* the state it was created with: what a rewind dropped has left no trace, *)
(* whatever was rewound before.  rewind.rs compute_state_delta_for_rewind  *)
(* against adk-events rewind.rs apply_rewinds.                             *)
RewindRestoresState ==
    \A s \in DOMAIN sessions :
        LET session == sessions[s]
        IN  \A k \in Keys : Scope[k] = "session" =>
                (IF k \in DOMAIN session.state THEN session.state[k] ELSE Null)
                    = Replay(session.initial, session.events, ApplyRewinds(session.events), k)

(* The version of the artifact that the session's events record last holds *)
(* the content that its live events lead to, or nothing if they saved      *)
(* none.  rewind.rs compute_artifact_delta_for_rewind: "rewind restores    *)
(* the old content as a NEW version".                                      *)
RewindRestoresArtifact ==
    \A s \in DOMAIN sessions :
        LET events == sessions[s].events
        IN  LoadArtifact(s, RecordedVersion(events, DOMAIN events))
                = LoadArtifact(s, RecordedVersion(events, ApplyRewinds(events)))
=============================================================================
