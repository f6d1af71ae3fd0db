----------------------------- MODULE LiveEvents -----------------------------
(***************************************************************************)
(* Which events of a session are live (crates/adk-events/src/rewind.rs).   *)
(* A rewind never truncates: it appends an event, whose back field names   *)
(* the invocation to go before.  The restored state (Rewind) and the       *)
(* prompt (History) both rest on it.                                       *)
(***************************************************************************)
EXTENDS Integers, FiniteSets, SequencesExt

NoInv == 0

Inv(e) == e.id[1]

(* Mutation of BlockStart: only one event of the target is dropped.        *)
BlockStartAtLast(events, j) == j

(* First index of the run of events of one invocation that j belongs to.   *)
BlockStart(events, j) ==
    Max({i \in 1 .. j : \A h \in i .. j : Inv(events[h]) = Inv(events[j])
                        /\ (i = 1 \/ Inv(events[i - 1]) # Inv(events[j]))})

(* apply_rewinds: the indices that survive.  Scanning backward, a rewind   *)
(* event drops itself and everything back to the start of the nearest run  *)
(* of events of its target, or everything when there is none.              *)
ApplyRewinds(events) ==
    LET live[i \in 0 .. Len(events)] ==
            IF i = 0 THEN {}
            ELSE IF events[i].back = NoInv THEN live[i - 1] \cup {i}
            ELSE LET J == {j \in 1 .. i - 1 : Inv(events[j]) = events[i].back}
                 IN  IF J = {} THEN {} ELSE live[BlockStart(events, Max(J)) - 1]
    IN  live[Len(events)]
=============================================================================
