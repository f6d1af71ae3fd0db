---------------------------- MODULE HistoryProps ----------------------------
(* What a model may rely on in the history it is shown.                      *)
EXTENDS History

Requesting == pc = "model"
ShowsAll == config.include = "default"
Visible == {e \in Range(Live(events)) : Included(e)}
Times(S) == {TimeOf(e) : e \in S}

CallsIn(S) == UNION {e.calls : e \in S}

(* The newest event answers a call further back.                             *)
SkipsBack == AnswersEarlier(Gathered(events))

(* A message that answers calls of several events.                           *)
Mixed(e) == Cardinality({id[1] : id \in Answered(e)}) > 1

(* Nothing is lost: every live event is shown, or a shown summary was made   *)
(* of it, or all its answers were replaced by later ones.  Two things may go: *)
(* an answer to a call that was rewound, and what lies between a call and a   *)
(* late answer to it (contents.rs, get_contents; compaction.rs hides events   *)
(* by time, apps_compaction.rs makes summaries of lists of events).          *)
NothingLost ==
    Requesting /\ ShowsAll =>
        LET shown == Range(Request)
            seen == Visible
            answers == UNION {Range(e.answers) : e \in shown}
            told == Times({e \in shown : ~IsSummary(e)})
                    \cup UNION {e.range.of : e \in shown}
            late(e, id) == \E f \in seen : TimeOf(f) > TimeOf(e) /\ id \in Answered(f)
        IN  SkipsBack \/ \A e \in seen :
                \/ TimeOf(e) \in answers \cup told
                \/ IsSummary(e)
                \/ Answered(e) # {} /\ \A id \in Answered(e) \cap CallsIn(seen) : late(e, id)

(* A call that is shown is followed at once by its last answer, whatever the *)
(* summaries hide of either, and no answer is shown elsewhere (compaction.rs,*)
(* recover_compacted_function_calls; contents.rs,                            *)
(* rearrange_events_for_async_function_responses_in_history).  When the user *)
(* answers a call further back, the first half holds for that call only.     *)
CallsPaired ==
    Requesting /\ ShowsAll /\ CanAssemble(Gathered(events)) =>
        LET shown == Request
            seen == Visible
            times(id) == Times({e \in seen : id \in Answered(e)})
            followed(n, id) == /\ n < Len(shown) /\ id \in Answered(shown[n + 1])
                               /\ shown[n + 1].answers[id] = Max(times(id))
        IN  (\A e \in seen : ~Mixed(e)) =>
                \A n \in DOMAIN shown :
                    /\ n + 1 = Len(shown) \/ ~SkipsBack =>
                          \A id \in shown[n].calls : times(id) # {} => followed(n, id)
                    /\ Answered(shown[n]) # {} =>
                          n > 1 /\ Answered(shown[n]) \subseteq shown[n - 1].calls

(* A rewound event is not shown, nor is a summary that was made of it: a     *)
(* summary goes with the first invocation it took in (apply_rewinds and      *)
(* apps_compaction.rs, which reads the events that are live when it runs).   *)
RewoundUnseen ==
    Requesting /\ CanAssemble(Gathered(Shown(events))) =>
        LET times == Times(Range(Live(events)))
        IN  \A e \in Range(Request) : IF IsSummary(e) THEN e.range.of \subseteq times
                                      ELSE TimeOf(e) \in times

(* Assembling the contents fails only for a message that answers calls of    *)
(* several events, not for late answers to calls that were rewound or        *)
(* summarised (contents.rs, drop_orphaned_function_responses).               *)
RequestBuilt ==
    Requesting => LET es == Gathered(Shown(events))
                  IN  CanAssemble(es) \/ Mixed(Last(es))

(* The newest event of the session, the user's message or the last answers,  *)
(* is shown itself and not in a summary, whenever the flow compacts; with an *)
(* event_retention_size of 0, which the configuration allows, it may be in   *)
(* the summary that was made before the request, and then that one is shown  *)
(* (apps_compaction.rs, events_to_compact_for_token_threshold).              *)
NewestShown ==
    Requesting /\ ShowsAll /\ CanAssemble(Gathered(events)) =>
        LET seen == {e \in Visible : ~IsSummary(e)}
            newest == CHOOSE e \in seen : \A f \in seen : TimeOf(f) <= TimeOf(e)
            shown == Range(Request)
            itself == IF Answered(newest) = {} THEN \E e \in shown : e.id = newest.id
                      ELSE \A id \in Answered(newest) \cap CallsIn(seen) :
                              \E e \in shown : id \in Answered(e) /\ e.answers[id] = TimeOf(newest)
        IN  seen # {} =>
                \/ itself
                \/ /\ config.tokens /\ config.keep = 0
                   /\ \E e \in shown : IsSummary(e) /\ TimeOf(newest) \in e.range.of

(* A rewind leaves no event of the invocation it goes before                 *)
(* (crates/adk-events/src/rewind.rs, apply_rewinds).                         *)
RewindDropsInvocation ==
    events # <<>> /\ Last(events).back # NoInv =>
        \A e \in Range(Live(events)) : Inv(e) # Last(events).back
=============================================================================
