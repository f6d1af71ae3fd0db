------------------------------ MODULE AgentsProps ------------------------------
(* What the composite agents promise across the turns of an invocation.    *)
EXTENDS Agents

Above(a) == {c \in Composites : a \in Descendants(c)}
OutsideLoops(a) == Above(a) \cap Loops = {}

(* A resumed invocation repeats nothing that is settled: a leaf of a       *)
(* sequence that answered in an earlier turn is not run again, and no leaf *)
(* runs below a composite agent that ended, at whatever depth the          *)
(* invocation is resumed (sequential_agent.rs, start_index; end_of_agents; *)
(* parallel_agent.rs skips it). A loop starts its agents afresh.           *)
NotRepeated ==
    \A l \in DOMAIN frames \cap Leaves : \A i \in DOMAIN log :
        /\ Above(l) \subseteq Sequentials /\ frames[l].at = "run" /\ log[i].by = l
               => log[i].kind = "ask"
        /\ log[i].kind = "end" /\ log[i].by \in Above(l) => ~OutsideLoops(log[i].by)

(* Whatever the pauses, a loop makes at most max_iterations passes: its    *)
(* last sub-agent answers no more often (loop_agent.rs, times_looped).     *)
PassesBounded ==
    \A a \in Loops : OutsideLoops(a) =>
        \A l \in Leaves : l = Last(SubAgents[a]) =>
            Cardinality({i \in DOMAIN log : log[i].by = l /\ log[i].kind # "ask"})
                <= MaxIterations[a]

(* The end marker tells the truth: a sequence that is marked as ended had  *)
(* an answer of every sub-agent, so none is skipped by a resumption, and   *)
(* no agent above a pause is marked after it in that turn, for the         *)
(* invocation could not be resumed there (start_index, and                 *)
(* should_pause_invocation in all three run_async_impl).                   *)
Answer(sub) == IF sub \in Leaves THEN {"say", "write", "escalate"} ELSE {"end"}
EndMeansDone ==
    /\ \A i \in DOMAIN log : log[i].kind = "end" /\ log[i].by \in Sequentials =>
          \A sub \in Range(SubAgents[log[i].by]) :
              \E j \in 1 .. i : log[j].by = sub /\ log[j].kind \in Answer(sub)
    /\ \A a \in DOMAIN frames : \A i, j \in DOMAIN frames[a].events :
          LET e == frames[a].events[i]
              d == frames[a].events[j]
          IN  e.kind = "ask" /\ d.kind = "end" /\ i < j => d.by \notin Above(e.by)

(* An agent sees the state that every agent before it has left, in this    *)
(* turn and the earlier ones, though each works on a clone of the context  *)
(* (sequential_agent.rs: "each step feeds the next"): the last writer is   *)
(* found with the innermost agent above it that holds a write.             *)
Writes(events) == \E e \in Range(events) : e.kind = "write"
SeesEarlierState ==
    \A a \in DOMAIN frames :
        frames[a].at = "run" /\ frames[a].events = <<>> /\ Above(a) \cap Parallels = {} =>
            LET writing == {c \in Above(a) : Writes(frames[c].events)}
            IN  IF writing = {} THEN frames[a].writer = Applied(Nobody, log)
                ELSE \E c \in writing : /\ writing \cap Descendants(c) = {}
                                        /\ frames[a].writer = Applied(Nobody, frames[c].events)

(* A turn ends: no agent waits for one that does not run.                  *)
AgentsTurnEnds == (frames # <<>>) ~> (frames = <<>>)
=============================================================================
