------------------------------- MODULE LlmFlow -------------------------------
(* The turn loop of an LLM agent: model calls, the tools they ask for, the  *)
(* requests for approval and for credentials, transfers to another agent:   *)
(*   crates/adk-flows/src/llm_flow.rs, functions.rs, functions_utils.rs,    *)
(*   request_confirmation.rs, auth_preprocessor.rs, agent_transfer.rs       *)
(*                                                                          *)
(* A flow works on its own clone of the invocation context, whose copy of   *)
(* the session is view; a transfer runs the other agent's flow inside the   *)
(* step, so the flows under way are a stack.  Every tool call of a step is  *)
(* a task.  The two processors for the user's answers are run by the caller *)
(* before every step, as their docs say (nothing under src/ wires them in). *)
(* Contents of messages, branches and the model's request are left out.     *)
(****************************************************************************)
EXTENDS Integers, Sequences, FiniteSets, SequencesExt, FiniteSetsExt

CONSTANTS
    Agents, Root,
    Kind,         \* Kind[t] of each tool
    Target,       \* Target[t]: the agent of a transfer tool
    Failing,      \* tools that may end with a ToolError
    Replies,      \* Replies[a]: tool sequences a's model may ask for, <<>> is a text
    MaxLlmCalls,  \* RunConfig::max_llm_calls
    Rewritten,    \* agents whose events the Runner changes before it appends them
    MaxTurn       \* bound: user messages

Tools == DOMAIN Kind

ASSUME FlowConstants ==
    /\ Root \in Agents /\ "user" \notin Agents /\ MaxLlmCalls \in Nat \ {0} /\ MaxTurn \in Nat
    /\ Rewritten \subseteq Agents
    /\ \A t \in Tools : Kind[t] \in {"plain", "guarded", "login", "transfer", "answer"}
    /\ \A t \in Tools : Kind[t] = "transfer" => Target[t] \in Agents
    /\ \A a \in Agents : Replies[a] \subseteq Seq(Tools)

VARIABLES
    store,     \* events of the stored session
    flows,     \* the flows under way, innermost last
    tasks,     \* tool calls that run, awaited or not
    llmCalls,  \* number_of_llm_calls, shared by the contexts of the invocation
    clock,     \* ids of events and of batches of tasks given out
    turn,
    outcome,   \* of the last turn: "new", "finished" or "failed"
    bodies     \* history: the runs of tool functions

vars == <<store, flows, tasks, llmCalls, clock, turn, outcome, bodies>>

-----------------------------------------------------------------------------
(* Events.  A call is [tool, id]; asks and logins are the ids of the calls  *)
(* that requested an approval or a credential; requests are the synthetic   *)
(* calls that pass this on to the user, and verdicts what the user answers; *)
(* meta tells that the Runner has changed the event.                        *)

Blank == [id |-> 0, by |-> "user", turn |-> 0, calls |-> <<>>, answers |-> {}, asks |-> {},
          logins |-> {}, requests |-> {}, verdicts |-> <<>>, skip |-> FALSE, meta |-> FALSE]

ById(calls) == {calls[i].id : i \in DOMAIN calls}
CallsOf(events) == UNION {Range(e.calls) : e \in Range(events)}
RequestsOf(events) == UNION {e.requests : e \in Range(events)}

(* Event::is_final_response.                                                *)
IsFinal(e) ==
    e.skip \/ e.requests # {} \/ (e.calls = <<>> /\ e.answers = {} /\ DOMAIN e.verdicts = {})

(* append_event, for the caller's copy and for the stored session: one that *)
(* equals a stored one, in every field, changes neither.  Mutation: it is   *)
(* stored again.                                                            *)
AppendOneAgain(s, e) == [store |-> Append(s.store, e), view |-> Append(s.view, e)]

AppendOne(s, e) ==
    IF e \in Range(s.store) THEN s
    ELSE [store |-> Append(s.store, e), view |-> Append(s.view, e)]

AppendAll(view, events) ==
    LET after[n \in Nat] == IF n = 0 THEN [store |-> store, view |-> view]
                            ELSE AppendOne(after[n - 1], events[n])
    IN  after[Len(events)]

-----------------------------------------------------------------------------
(* Flows.  creds: the credentials that the context's state holds; batch and *)
(* results: the tasks it waits for, and what those that ended returned.     *)

Flow(agent, view, creds) ==
    [agent |-> agent, view |-> view, creds |-> creds, ended |-> FALSE, pc |-> "auth",
     step |-> <<>>, out |-> <<>>, batch |-> 0, calls |-> <<>>, results |-> <<>>, then |-> "model"]

Top == Last(flows)
Under == Front(flows)
Active(pc) == flows # <<>> /\ Top.pc = pc
Become(flow) == flows' = Append(Under, flow)

(* An error of any step: what the step made is dropped, tasks run on.       *)
Fail ==
    /\ flows' = <<>> /\ outcome' = "failed"
    /\ UNCHANGED <<store, tasks, turn, bodies>>

(* execute_function_calls: a task for each call, then the flow waits.       *)
Execute(flow, calls, verdicts, then) ==
    /\ clock' = clock + 1
    /\ Become([flow EXCEPT !.pc = "tools", !.batch = clock + 1, !.calls = calls,
                           !.results = <<>>, !.then = then])
    /\ tasks' = tasks \cup
          {[batch |-> clock + 1, call |-> c, login |-> c.tool \in flow.creds,
            verdict |-> IF c.id \in DOMAIN verdicts THEN verdicts[c.id] ELSE "none"] :
              c \in Range(calls)}

(* The calls that are in S, in their order.                                 *)
Chosen(calls, S) ==
    LET upTo[n \in Nat] == IF n = 0 THEN <<>> ELSE IF calls[n] \in S
                          THEN Append(upTo[n - 1], calls[n]) ELSE upTo[n - 1]
    IN  upTo[Len(calls)]

Only(calls, ids) == Chosen(calls, {c \in Range(calls) : c.id \in ids})

-----------------------------------------------------------------------------
(* process_auth_responses: the last event is the user's answer to requests  *)
(* for credentials: they are kept in the context's state, and the calls     *)
(* that wait for one of them are run again.                                 *)

Granted(view) == {r \in DOMAIN Last(view).verdicts : r.kind = "login" /\ r \in RequestsOf(view)}

(* The ids of the calls to resume: those asked for, and the calls of the    *)
(* same events that wait for a credential with the same key.                *)
ToResume(view) ==
    LET asked == {r.for : r \in Granted(view)}
        keys == {r.key : r \in Granted(view)}
    IN  asked \cup {c.id : c \in {d \in CallsOf(view) : d.tool \in keys /\
            \E e \in Range(view) : d.id \in e.logins /\ e.logins \cap asked # {}}}

(* The most recent event with such a call, the last one not looked at.      *)
ResumedEvent(view, ids) ==
    LET S == {i \in 1 .. Len(view) - 1 : ById(view[i].calls) \cap ids # {}}
    IN  IF S = {} THEN Blank ELSE view[Max(S)]

ProcessAuth ==
    /\ Active("auth")
    /\ LET ids == IF Top.view # <<>> /\ Last(Top.view).by = "user" THEN ToResume(Top.view) ELSE {}
           flow == [Top EXCEPT !.creds = @ \cup {r.key : r \in
                       IF Last(Top.view).by = "user" THEN Granted(Top.view) ELSE {}}]
           calls == Only(ResumedEvent(Top.view, ids).calls, ids)
       IN  IF calls = <<>>
           THEN Become([flow EXCEPT !.pc = "confirm"]) /\ UNCHANGED <<tasks, clock>>
           ELSE Execute(flow, calls, <<>>, "confirm")
    /\ UNCHANGED <<store, llmCalls, turn, outcome, bodies>>

-----------------------------------------------------------------------------
(* process_request_confirmations.                                           *)

LastByUser(view) == Max({i \in DOMAIN view : view[i].by = "user"})
Verdicts(view) ==
    LET v == view[LastByUser(view)].verdicts IN [r \in {q \in DOMAIN v : q.kind = "ask"} |-> v[r]]

(* Mutation of Consumed: an approval that was acted on is acted on again.   *)
ConsumedNever(view) == {}

(* Calls with a response since the user's answer.                           *)
Consumed(view) == UNION {view[i].answers : i \in LastByUser(view) + 1 .. Len(view)}

(* resolve_confirmation_targets: the calls of this agent that the user      *)
(* answered for, and that did ask.                                          *)
Confirmed(flow) ==
    LET view == flow.view
        own == UNION {Range(e.calls) : e \in {f \in Range(view) : f.by = flow.agent}}
        requests(c) == {r \in DOMAIN Verdicts(view) \cap RequestsOf(view) : r.for = c.id}
        asked(c) == Kind[c.tool] = "guarded" \/ \E e \in Range(view) : c.id \in e.asks
    IN  UNION {{[call |-> c, verdict |-> Verdicts(view)[r]] : r \in requests(c)} :
                  c \in {d \in own : d.id \notin Consumed(view) /\ asked(d)}}

ProcessConfirmations ==
    /\ Active("confirm")
    /\ LET found == Confirmed(Top)
           calls == SetToSeq({f.call : f \in found})
           verdicts == [i \in ById(calls) |-> (CHOOSE f \in found : f.call.id = i).verdict]
       IN  IF found = {}
           THEN Become([Top EXCEPT !.pc = "model"]) /\ UNCHANGED <<tasks, clock>>
           ELSE Execute(Top, calls, verdicts, "model")
    /\ UNCHANGED <<store, llmCalls, turn, outcome, bodies>>

-----------------------------------------------------------------------------
(* run_one_step.                                                            *)

(* A step after end_invocation, or a response without content, has no event *)
(* and ends the loop.                                                       *)
EmptyStep ==
    /\ Active("model")
    /\ Top.ended \/ llmCalls < MaxLlmCalls
    /\ llmCalls' = IF Top.ended THEN llmCalls ELSE llmCalls + 1
    /\ Become([Top EXCEPT !.pc = "append", !.step = <<>>])
    /\ UNCHANGED <<store, tasks, clock, turn, outcome, bodies>>

(* Mutation of CallModel: a flow counts its own calls.                      *)
CallModelUncounted(reply) ==
    /\ Active("model") /\ ~Top.ended /\ reply \in Replies[Top.agent]
    /\ Cardinality({e \in Range(Top.out) : e.by = Top.agent /\ e.calls # <<>>}) < MaxLlmCalls
    /\ llmCalls' = llmCalls + 1
    /\ LET id == clock + 1
           calls == [i \in DOMAIN reply |-> [tool |-> reply[i], id |-> <<id, i>>]]
           e == [Blank EXCEPT !.id = id, !.by = Top.agent, !.turn = turn, !.calls = calls]
           flow == [Top EXCEPT !.step = <<e>>, !.pc = "append"]
       IN  IF reply = <<>> THEN Become(flow) /\ clock' = id /\ UNCHANGED tasks
           ELSE Execute(flow, calls, <<>>, "step")
    /\ UNCHANGED <<store, turn, outcome, bodies>>

CallModel(reply) ==
    /\ Active("model") /\ ~Top.ended /\ reply \in Replies[Top.agent]
    /\ llmCalls < MaxLlmCalls /\ llmCalls' = llmCalls + 1
    /\ LET id == clock + 1
           calls == [i \in DOMAIN reply |-> [tool |-> reply[i], id |-> <<id, i>>]]
           e == [Blank EXCEPT !.id = id, !.by = Top.agent, !.turn = turn, !.calls = calls]
           flow == [Top EXCEPT !.step = <<e>>, !.pc = "append"]
       IN  IF reply = <<>> THEN Become(flow) /\ clock' = id /\ UNCHANGED tasks
           ELSE Execute(flow, calls, <<>>, "step")
    /\ UNCHANGED <<store, turn, outcome, bodies>>

(* increment_llm_call_count fails at the limit, or the model does.          *)
ModelFails ==
    /\ Active("model") /\ ~Top.ended
    /\ llmCalls' = llmCalls + 1
    /\ Fail /\ UNCHANGED clock

(* What a tool returns, and whether its function ran: FunctionTool and      *)
(* AuthenticatedFunctionTool.                                               *)
Runs(t) ==
    CASE Kind[t.call.tool] = "guarded" -> t.verdict = "yes"
      [] Kind[t.call.tool] = "login" -> t.login
      [] OTHER -> TRUE

RunTool(t, ok) ==
    /\ t \in tasks /\ (ok \/ (t.call.tool \in Failing /\ Runs(t)))
    /\ tasks' = tasks \ {t}
    /\ bodies' = IF Runs(t) THEN Append(bodies, [call |-> t.call, turn |-> turn]) ELSE bodies
    /\ flows' = IF Active("tools") /\ Top.batch = t.batch
                THEN Append(Under, [Top EXCEPT !.results =
                         [i \in DOMAIN @ \cup {t.call.id} |-> IF i = t.call.id THEN
                             [ok |-> ok, asked |-> Kind[t.call.tool] = "guarded" /\ t.verdict = "none",
                              login |-> Kind[t.call.tool] = "login" /\ ~t.login] ELSE @[i]]])
                ELSE flows
    /\ UNCHANGED <<store, llmCalls, clock, turn, outcome>>

Result(i) == Top.results[Top.calls[i].id]
Returned(i) == Top.calls[i].id \in DOMAIN Top.results

(* The handles are awaited in order: the first error is the step's error,   *)
(* and the tasks behind it are left running.                                *)
ToolsFail ==
    /\ Active("tools")
    /\ \E i \in DOMAIN Top.calls : /\ \A j \in 1 .. i : Returned(j)
                                   /\ ~Result(i).ok
                                   /\ \A j \in 1 .. i - 1 : Result(j).ok
    /\ Fail /\ UNCHANGED <<llmCalls, clock>>

(* skip_summarization of the merged event: a flag, never null, so the last  *)
(* call's one is kept.                                                      *)
Skips == Result(Len(Top.calls)).asked

(* Mutation of Merged: a call that waits for a credential has no response.  *)
MergedAnswered(id) ==
    [Blank EXCEPT !.id = id, !.by = Top.agent, !.turn = turn,
        !.answers = {Top.calls[i].id : i \in {j \in DOMAIN Top.calls : ~Result(j).login}},
        !.logins = {Top.calls[i].id : i \in {j \in DOMAIN Top.calls : Result(j).login}},
        !.skip = Skips]

(* merge_parallel_function_response_events.                                 *)
Merged(id) ==
    [Blank EXCEPT !.id = id, !.by = Top.agent, !.turn = turn, !.answers = ById(Top.calls),
        !.asks = {Top.calls[i].id : i \in {j \in DOMAIN Top.calls : Result(j).asked}},
        !.logins = {Top.calls[i].id : i \in {j \in DOMAIN Top.calls : Result(j).login}},
        !.skip = Skips]

(* build_auth_request_event: one request for each credential key, that of   *)
(* the first call; generate_request_confirmation_event.                     *)
LoginRequests(e, id) ==
    {[kind |-> "login", at |-> id, for |-> c.id, key |-> c.tool] : c \in
        {d \in Range(Top.calls) : d.id \in e.logins /\
            \A b \in Range(Top.calls) : b.id \in e.logins /\ b.tool = d.tool => b.id[2] >= d.id[2]}}
AskRequests(e, id) ==
    {[kind |-> "ask", at |-> id, for |-> c.id, key |-> c.tool] : c \in
        {d \in Range(Top.calls) : d.id \in e.asks}}

Transfers == Chosen(Top.calls, {c \in Range(Top.calls) : Kind[c.tool] = "transfer"})

(* The tools have answered: a step's events are the call, the request for   *)
(* credentials, the one for approvals, the response, and then what the      *)
(* agent it was transferred to answers; a set_model_response is repeated as *)
(* a final text; a resumed call has a response only.                        *)
ToolsReturn ==
    /\ Active("tools")
    /\ \A i \in DOMAIN Top.calls : Returned(i) /\ Result(i).ok
    /\ LET e == Merged(clock + 3)
           request(id, R) == IF R = {} THEN <<>>
               ELSE <<[Blank EXCEPT !.id = id, !.by = Top.agent, !.turn = turn, !.requests = R]>>
           flow == [Top EXCEPT !.ended = @ \/ e.logins # {}, !.results = <<>>, !.calls = <<>>,
                !.step = @ \o request(clock + 1, LoginRequests(e, clock + 1))
                           \o request(clock + 2, AskRequests(e, clock + 2)) \o <<e>>
                           \o IF \A c \in Range(Top.calls) : Kind[c.tool] # "answer" THEN <<>>
                              ELSE <<[Blank EXCEPT !.id = clock + 4, !.by = Top.agent, !.turn = turn]>>]
       IN  \/ /\ Top.then = "step" /\ (Transfers = <<>> \/ flow.ended)
              /\ Become([flow EXCEPT !.pc = "append"])
              /\ UNCHANGED store
           \/ /\ Top.then = "step" /\ Transfers # <<>> /\ ~flow.ended
              /\ flows' = Under \o <<[flow EXCEPT !.pc = "nested"],
                     Flow(Target[Last(Transfers).tool], Top.view, Top.creds)>>
              /\ UNCHANGED store
           \/ /\ Top.then # "step"
              /\ LET s == AppendAll(Top.view, <<e>>)
                 IN  /\ store' = s.store
                     /\ Become([Top EXCEPT !.pc = Top.then, !.view = s.view, !.results = <<>>,
                                           !.calls = <<>>, !.out = Append(@, e)])
    /\ clock' = clock + 4
    /\ UNCHANGED <<tasks, llmCalls, turn, outcome, bodies>>

(* run_async: the step's events are appended; the last one tells whether    *)
(* there is another step.                                                   *)
AppendStep ==
    /\ Active("append")
    /\ LET s == AppendAll(Top.view, Top.step)
           over == IF Top.step = <<>> THEN TRUE ELSE IsFinal(Last(Top.step))
       IN  /\ store' = s.store
           /\ Become([Top EXCEPT !.view = s.view, !.out = @ \o Top.step, !.step = <<>>,
                                 !.pc = IF over THEN "done" ELSE "auth"])
    /\ UNCHANGED <<tasks, llmCalls, clock, turn, outcome, bodies>>

(* The agent transferred to is done: its events end the step.               *)
ReturnNested ==
    /\ Active("done") /\ Len(flows) > 1
    /\ LET outer == Last(Under)
       IN  flows' = Append(Front(Under), [outer EXCEPT !.step = @ \o Top.out, !.pc = "append"])
    /\ UNCHANGED <<store, tasks, llmCalls, clock, turn, outcome, bodies>>

-----------------------------------------------------------------------------
(* The Runner: the user's message is appended, the root agent runs on a     *)
(* fresh copy, and the events it returns are appended once more, after the  *)
(* RunConfig's custom metadata and the plugins' on_event_callback have      *)
(* changed them: all under a custom metadata, some under a callback.  A     *)
(* changed event keeps its id and is no longer equal to the stored one.     *)

Delivered(e) == IF e.by \in Rewritten THEN [e EXCEPT !.meta = TRUE] ELSE e

StartTurn(verdicts) ==
    /\ flows = <<>> /\ turn < MaxTurn
    /\ turn' = turn + 1 /\ clock' = clock + 1 /\ llmCalls' = 0
    /\ LET e == [Blank EXCEPT !.id = clock + 1, !.turn = turn + 1, !.verdicts = verdicts]
       IN  /\ store' = Append(store, e)
           /\ flows' = <<Flow(Root, Append(store, e), {})>>
    /\ UNCHANGED <<tasks, outcome, bodies>>

EndTurn ==
    /\ Active("done") /\ Len(flows) = 1
    /\ store' = AppendAll(Top.view, [i \in DOMAIN Top.out |-> Delivered(Top.out[i])]).store
    /\ flows' = <<>> /\ outcome' = "finished"
    /\ UNCHANGED <<tasks, llmCalls, clock, turn, bodies>>

Init ==
    /\ store = <<>> /\ flows = <<>> /\ tasks = {} /\ llmCalls = 0 /\ clock = 0 /\ turn = 0
    /\ outcome = "new" /\ bodies = <<>>

(* The user says something, or answers requests, old ones too.              *)
Answered(R, verdicts) == \A r \in R : r.kind = "login" => verdicts[r] = "yes"
UserSays ==
    \E R \in SUBSET RequestsOf(store) : \E v \in [R -> {"yes", "no"}] :
        Answered(R, v) /\ StartTurn(v)

FlowStep ==
    \/ ProcessAuth \/ ProcessConfirmations
    \/ EmptyStep \/ ModelFails \/ \E reply \in Replies[Top.agent] : CallModel(reply)
    \/ ToolsFail \/ ToolsReturn \/ AppendStep \/ ReturnNested \/ EndTurn

Next ==
    \/ UserSays
    \/ \E t \in tasks, ok \in BOOLEAN : RunTool(t, ok)
    \/ flows # <<>> /\ FlowStep

Spec == Init /\ [][Next]_vars
=============================================================================
