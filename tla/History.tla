------------------------------- MODULE History -------------------------------
(***************************************************************************)
(* What a model is shown of its session: the contents assembled from the   *)
(* live events (crates/adk-flows/src/contents.rs), the summaries that      *)
(* stand for old events (compaction.rs, apps_compaction.rs,                *)
(* compaction_request_processor.rs) and the turns of one agent that make   *)
(* both (llm_flow.rs, crates/adk-runners/src/runner.rs).                   *)
(*                                                                         *)
(* Data: an event's timestamp is its position in the store, since both     *)
(* grow together; a call's id is <<timestamp of the event, number>>; an    *)
(* answer is the timestamp of the event that carried it.  Left out: texts, *)
(* token counts (a choice), branches, other agents, transcriptions.        *)
(***************************************************************************)
EXTENDS LiveEvents

CONSTANTS
    Configs,    \* the settings a session may run with: events_compaction_config
                \* (tokens, keep, sliding, interval, overlap), include_contents
    Replies,    \* what a tool may answer: "final", "interim", "asking" or "nothing"
    MaxCalls,   \* calls in one event (bound)
    MaxEvents,  \* events in the store (bound)
    MaxTurns    \* turns and rewinds (bound)

ASSUME ConfigsKnown ==
    \A c \in Configs :
        /\ c.include \in {"default", "none"} /\ {c.tokens, c.sliding} \subseteq BOOLEAN
        /\ {c.keep, c.interval, c.overlap} \subseteq Nat

VARIABLES
    config,   \* the settings of this session
    events,   \* the stored session, and the flow's copy of it
    begun,    \* its length when the turn began
    inv,      \* the last invocation
    pc        \* "idle", "preprocess", "model", "tools" or "after"

vars == <<config, events, begun, inv, pc>>

NoAnswers == <<>>
NoRange == [from |-> 0, to |-> 0, of |-> {}]

TimeOf(e) == e.id[2]
IsSummary(e) == e.kind = "summary"
Spans(e) == e.range.from .. e.range.to

Blank(i, at) == [id |-> <<i, at>>, kind |-> "text", back |-> NoInv, calls |-> {}, answers |-> NoAnswers,
                 asks |-> {}, interim |-> {}, range |-> NoRange]

Answered(e) == DOMAIN e.answers
AllCalls(es) == UNION {e.calls : e \in Range(es)}
AllAnswered(es) == UNION {Answered(e) : e \in Range(es)}

(* The events of es at the places I, in order.                             *)
Take(es, I) ==
    LET upTo[n \in 0 .. Len(es)] ==
            IF n = 0 THEN <<>>
            ELSE upTo[n - 1] \o (IF n \in I THEN <<es[n]>> ELSE <<>>)
    IN  upTo[Len(es)]

(* The later answers replace the earlier ones                              *)
(* (merge_function_response_events).                                       *)
MergedAnswers(es) ==
    FoldLeft(LAMBDA e, f : [e EXCEPT !.answers = f.answers @@ @], Head(es), Tail(es))

---------------------------------------------------------------------------
(* Summaries in the history.                                               *)

(* A summary whose range another one contains; of two equal ranges the     *)
(* later one stays.                                                        *)
Subsumed(es, i) ==
    \E j \in DOMAIN es \ {i} :
        /\ IsSummary(es[j])
        /\ Spans(es[i]) \subseteq Spans(es[j])
        /\ Spans(es[i]) = Spans(es[j]) => j > i

Summaries(es) == {i \in DOMAIN es : IsSummary(es[i]) /\ ~Subsumed(es, i)}

(* process_compaction_events: a summary stands at the end of its range and *)
(* hides the events in it.                                                 *)
Processed(es) ==
    LET K == Summaries(es)
        hidden == UNION {Spans(es[i]) : i \in K}
        raw == {i \in DOMAIN es : ~IsSummary(es[i]) /\ TimeOf(es[i]) \notin hidden}
        at(e) == IF IsSummary(e) THEN e.range.to ELSE TimeOf(e)
        before(e, f) == at(e) < at(f) \/ (at(e) = at(f) /\ TimeOf(e) < TimeOf(f))
    IN  SortSeq(Take(es, K \cup raw), before)

(* Mutation of Recovered: the siblings' answers are not brought back.      *)
RecoveredAlone(es, source) ==
    LET orphans == AllAnswered(es) \ AllCalls(es)
        step(acc, e) ==
            LET lost == (Answered(e) \cap orphans) \ acc.done
                owners == SelectSeq(source, LAMBDA c : c.calls \cap lost # {})
            IN  [out |-> Append(acc.out \o owners, e),
                 done |-> acc.done \cup AllCalls(owners)]
    IN  FoldLeft(step, [out |-> <<>>, done |-> {}], es).out

(* recover_compacted_function_calls: before the first answer whose call is *)
(* gone, the call event is put back, and the latest answers of its other   *)
(* calls if they are gone too.                                             *)
Recovered(es, source) ==
    LET orphans == AllAnswered(es) \ AllCalls(es)
        present == AllAnswered(es)
        latest(id) == LET I == {i \in DOMAIN source : id \in Answered(source[i])}
                      IN  IF I = {} THEN <<>> ELSE <<source[Max(I)]>>
        withSiblings(acc, c) == FoldLeft(LAMBDA out, id : out \o latest(id), Append(acc, c),
                                         SetToSeq(c.calls \ present))
        step(acc, e) ==
            LET lost == (Answered(e) \cap orphans) \ acc.done
                owners == SelectSeq(source, LAMBDA c : c.calls \cap lost # {})
            IN  [out |-> Append(FoldLeft(withSiblings, acc.out, owners), e),
                 done |-> acc.done \cup AllCalls(owners)]
    IN  FoldLeft(step, [out |-> <<>>, done |-> {}], es).out

---------------------------------------------------------------------------
(* The contents of a request.                                              *)

(* should_include_event_in_context: the requests and answers of approvals  *)
(* are not shown.                                                          *)
Included(e) == e.kind \notin {"approval", "rewind"}

(* Mutation of WithoutOrphans: they are kept.                              *)
WithOrphans(es) == es

(* drop_orphaned_function_responses.                                       *)
WithoutOrphans(es) ==
    LET called == AllCalls(es)
        kept(e) == [e EXCEPT !.answers = Restrict(@, DOMAIN @ \cap called)]
        step(acc, e) == IF Answered(e) # {} /\ Answered(e) \cap called = {} THEN acc
                        ELSE Append(acc, kept(e))
    IN  FoldLeft(step, <<>>, es)

(* rearrange_events_for_latest_function_response: when the last event      *)
(* answers a call further back, all answers to that event of calls are     *)
(* merged behind it and what lies between is left out.                     *)
AnswersEarlier(es) ==
    /\ Len(es) > 1
    /\ Answered(Last(es)) # {}
    /\ Answered(Last(es)) \cap es[Len(es) - 1].calls = {}

Owners(es) == {i \in 1 .. Len(es) - 1 : es[i].calls \cap Answered(Last(es)) # {}}

CanAssemble(es) ==
    AnswersEarlier(es) => /\ Owners(es) # {}
                          /\ Answered(Last(es)) \subseteq es[Max(Owners(es))].calls

LatestAnswered(es) ==
    IF ~AnswersEarlier(es) THEN es
    ELSE LET o == Max(Owners(es))
             behind == SelectSeq(SubSeq(es, o + 1, Len(es)),
                                 LAMBDA e : Answered(e) \cap es[o].calls # {})
         IN  Append(SubSeq(es, 1, o), MergedAnswers(behind))

(* The event of calls that owns the answer to id in event i: the last one  *)
(* before it, or the first one of all.                                     *)
OwnerOf(es, id, i) ==
    LET C == {j \in DOMAIN es : id \in es[j].calls /\ Answered(es[j]) = {}}
        before == {j \in C : j < i}
    IN  IF C = {} THEN 0 ELSE IF before # {} THEN Max(before) ELSE Min(C)

(* rearrange_events_for_async_function_responses_in_history: every answer  *)
(* moves directly behind its calls, the last one of each call.             *)
AnswersMoved(es) ==
    LET I == {i \in DOMAIN es : Answered(es[i]) # {}}
        lastOf(id, j) == {i \in I : id \in Answered(es[i]) /\ OwnerOf(es, id, i) = j}
        for(j) == {Max(lastOf(id, j)) : id \in {id \in es[j].calls : lastOf(id, j) # {}}}
        step(acc, j) ==
            acc \o (IF j \in I THEN <<>> ELSE IF for(j) = {} THEN <<es[j]>>
                    ELSE <<es[j], MergedAnswers(Take(es, for(j)))>>)
    IN  IF I = {} THEN es ELSE FoldLeftDomain(step, <<>>, es)

Live(es) == Take(es, ApplyRewinds(es))

(* get_contents up to the first rearrangement, and the whole of it.        *)
Gathered(es) ==
    LET seen == SelectSeq(Live(es), Included)
    IN  WithoutOrphans(IF \E e \in Range(seen) : IsSummary(e)
                       THEN Recovered(Processed(seen), seen) ELSE seen)

Contents(es) == AnswersMoved(LatestAnswered(Gathered(es)))

(* get_current_turn_contents: from the last event by the user; a summary   *)
(* is an event by the user too.                                            *)
CurrentTurn(es) ==
    LET starts == {i \in DOMAIN es : es[i].kind \in {"user", "summary"} /\ Included(es[i])}
    IN  IF starts = {} THEN <<>> ELSE SubSeq(es, Max(starts), Len(es))

Shown(es) == IF config.include = "default" THEN es ELSE CurrentTurn(es)
Request == Contents(Shown(events))

---------------------------------------------------------------------------
(* What is summarised.                                                     *)

(* Calls and requests for approval open until a later event answers them.  *)
Open(es, n) ==
    {id \in UNION {es[j].calls \cup es[j].asks : j \in 1 .. n} :
        LET j == Max({j \in 1 .. n : id \in es[j].calls \cup es[j].asks})
        IN  \A k \in j + 1 .. n : id \notin Answered(es[k])}

(* longest_self_contained_prefix.                                          *)
SelfContained(es) == SubSeq(es, 1, Max({n \in 0 .. Len(es) : Open(es, n) = {}}))

(* Mutation of Split: one event less is kept.                              *)
SplitLate(es, keep) ==
    LET tail(i) == SubSeq(es, i + 1, Len(es))
    IN  Max({0} \cup {i \in DOMAIN es : /\ i <= Len(es) - keep + 1
                                     /\ AllAnswered(tail(i)) \subseteq AllCalls(tail(i))})

(* safe_token_compaction_split_index: at most all but keep events, and     *)
(* less while what is kept has an answer without its call.                 *)
Split(es, keep) ==
    LET tail(i) == SubSeq(es, i + 1, Len(es))
    IN  Max({0} \cup {i \in 1 .. Len(es) - keep :
                         AllAnswered(tail(i)) \subseteq AllCalls(tail(i))})

LatestRange(es) == IF Summaries(es) = {} THEN NoRange ELSE es[Max(Summaries(es))].range

(* The range of a summary of es, which takes in the one it supersedes.     *)
RangeOf(es, prior) ==
    [from |-> IF prior = NoRange THEN TimeOf(Head(es)) ELSE prior.from,
     to |-> TimeOf(Last(es)),
     of |-> {TimeOf(e) : e \in Range(es)} \cup prior.of]

(* Mutation of TokenRange: the earlier summary is not taken in.            *)
TokenRangeUnseeded(es) ==
    LET prior == LatestRange(es)
        fresh == SelectSeq(es, LAMBDA e : ~IsSummary(e) /\ TimeOf(e) > prior.to)
        part == IF Len(fresh) <= config.keep THEN <<>>
                ELSE SelfContained(SubSeq(fresh, 1, Split(fresh, config.keep)))
    IN  IF part = <<>> THEN NoRange ELSE [RangeOf(part, NoRange) EXCEPT !.from = TimeOf(Head(es))]

(* events_to_compact_for_token_threshold.                                  *)
TokenRange(es) ==
    LET prior == LatestRange(es)
        fresh == SelectSeq(es, LAMBDA e : ~IsSummary(e) /\ TimeOf(e) > prior.to)
        part == IF Len(fresh) <= config.keep THEN <<>>
                ELSE SelfContained(SubSeq(fresh, 1, Split(fresh, config.keep)))
    IN  IF part = <<>> THEN NoRange ELSE RangeOf(part, prior)

(* run_compaction_for_sliding_window: when enough invocations have events  *)
(* after the last summary, they and some before them are summarised.       *)
SlidingRange(es) ==
    LET raw == SelectSeq(es, LAMBDA e : ~IsSummary(e))
        invs == {Inv(e) : e \in Range(raw)}
        S == {i \in DOMAIN es : IsSummary(es[i])}
        upTo == IF S = {} THEN 0 ELSE es[Max(S)].range.to
        fresh == {Inv(e) : e \in {e \in Range(raw) : TimeOf(e) > upTo}}
        earlier == {i \in invs : i < Min(fresh)}
        overlap == {i \in earlier : Cardinality({j \in earlier : j >= i}) <= config.overlap}
        part == SelfContained(SelectSeq(raw, LAMBDA e : Inv(e) >= Min(fresh \cup overlap)
                                                     /\ Inv(e) <= Max(fresh)))
    IN  IF Cardinality(fresh) < config.interval \/ part = <<>> THEN NoRange
        ELSE RangeOf(part, NoRange)

---------------------------------------------------------------------------
(* Turns.                                                                  *)

Now == Len(events) + 1

SummaryEvent(range) ==
    [Blank(0 - Now, Now) EXCEPT !.kind = "summary", !.range = range]

Appended(e) == events' = Append(events, e)

Init ==
    /\ config \in Configs
    /\ events = <<>> /\ begun = 0 /\ inv = 0 /\ pc = "idle"

(* Calls without a final answer, and calls that wait for an approval.      *)
Unapproved == {id \in UNION {e.asks : e \in Range(events)} :
                  LET i == Max({i \in DOMAIN events : id \in Answered(events[i])})
                  IN  id \in events[i].asks}
Unfinished == {id \in AllCalls(events) \ Unapproved :
                  LET A == {i \in DOMAIN events : id \in Answered(events[i])}
                  IN  A = {} \/ id \in events[Max(A)].interim}

(* run_async: the user speaks, answers calls that went on, or approves one,*)
(* which the flow then runs before its first step.                         *)
Begin(i, new) ==
    /\ pc = "idle" /\ inv < MaxTurns /\ Len(events) < MaxEvents
    /\ events' = events \o new
    /\ begun' = Len(events) /\ inv' = i /\ pc' = "preprocess"
    /\ UNCHANGED config

UserEvent(kind, S) == [Blank(inv + 1, Now) EXCEPT !.kind = kind, !.answers = [id \in S |-> Now]]

UserSpeaks == Begin(inv + 1, <<UserEvent("user", {})>>)
UserAnswers == \E S \in SUBSET Unfinished \ {{}} : Begin(inv + 1, <<UserEvent("user", S)>>)
UserApproves == \E id \in Unapproved :
    Begin(inv + 1, <<UserEvent("approval", {}),
                     [Blank(inv + 1, Now + 1) EXCEPT !.answers = (id :> Now + 1)]>>)

(* Mutation of CompactFirst: rewound events are summarised too.            *)
CompactFirstRewound ==
    /\ pc = "preprocess"
    /\ \/ UNCHANGED events
       \/ LET range == TokenRange(events)
          IN  config.tokens /\ range # NoRange /\ Appended(SummaryEvent(range))
    /\ pc' = "model"
    /\ UNCHANGED <<config, begun, inv>>

(* apply_compaction_processor, on the flow's copy.                         *)
CompactFirst ==
    /\ pc = "preprocess"
    /\ \/ UNCHANGED events
       \/ LET range == TokenRange(Live(events))
          IN  config.tokens /\ range # NoRange /\ Appended(SummaryEvent(range))
    /\ pc' = "model"
    /\ UNCHANGED <<config, begun, inv>>

(* get_contents returns an error, which ends the run.                      *)
ContentsFail ==
    /\ pc = "model" /\ ~CanAssemble(Gathered(Shown(events)))
    /\ pc' = "idle"
    /\ UNCHANGED <<config, events, begun, inv>>

(* The model speaks or calls tools.                                        *)
CallModel ==
    /\ pc = "model" /\ CanAssemble(Gathered(Shown(events)))
    /\ \E n \in 0 .. MaxCalls :
          /\ n > 0 => Len(events) + 2 < MaxEvents
          /\ Appended([Blank(inv, Now) EXCEPT !.calls = {<<Now, k>> : k \in 1 .. n}])
          /\ pc' = IF n = 0 THEN "after" ELSE "tools"
    /\ UNCHANGED <<config, begun, inv>>

(* The tools answer in one event; none when no tool has an answer yet.     *)
(* Only a call that waits for approval, or no answer, ends the run.        *)
RunTools ==
    /\ pc = "tools"
    /\ \E reply \in [Last(events).calls -> Replies] :
          LET S == {id \in DOMAIN reply : reply[id] # "nothing"}
              last == CHOOSE id \in S : \A other \in S : other[2] <= id[2]
          IN  /\ IF S = {} THEN UNCHANGED events
                 ELSE Appended([Blank(inv, Now) EXCEPT !.answers = [id \in S |-> Now],
                          !.asks = {id \in S : reply[id] = "asking"},
                          !.interim = {id \in S : reply[id] = "interim"}])
              /\ pc' = IF S = {} \/ reply[last] = "asking" THEN "after" ELSE "preprocess"
    /\ UNCHANGED <<config, begun, inv>>

(* The runner's copy lacks what the flow summarised during the turn.       *)
RunnerCopy == SelectSeq(events, LAMBDA e : IsSummary(e) => TimeOf(e) <= begun)

(* The end of run_async_with_config: RealCompactionTrigger.                *)
CompactAfter ==
    /\ pc = "after"
    /\ \/ UNCHANGED events
       \/ LET token == TokenRange(Live(RunnerCopy))
          IN  config.tokens /\ token # NoRange /\ Appended(SummaryEvent(token))
       \/ LET sliding == SlidingRange(Live(RunnerCopy))
          IN  /\ config.sliding /\ Live(RunnerCopy) # <<>> /\ sliding # NoRange
              /\ Appended(SummaryEvent(sliding))
    /\ pc' = "idle"
    /\ UNCHANGED <<config, begun, inv>>

(* rewind_async to before the invocation i.                                *)
RewindTo(i) ==
    /\ pc = "idle" /\ inv < MaxTurns /\ Len(events) < MaxEvents
    /\ Appended([Blank(inv + 1, Now) EXCEPT !.kind = "rewind", !.back = i])
    /\ inv' = inv + 1
    /\ UNCHANGED <<config, begun, pc>>

Next ==
    \/ UserSpeaks \/ UserAnswers \/ UserApproves
    \/ CompactFirst \/ ContentsFail \/ CallModel \/ RunTools \/ CompactAfter
    \/ \E i \in 1 .. inv : RewindTo(i)

Spec == Init /\ [][Next]_vars
=============================================================================
