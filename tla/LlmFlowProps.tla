----------------------------- MODULE LlmFlowProps -----------------------------
(* What an LLM agent's turn promises to the user, to the tools and to the    *)
(* history.                                                                  *)
EXTENDS LlmFlow

Body(i) == bodies[i].call
Approving(id, e) == \E r \in DOMAIN e.verdicts : r.for = id /\ e.verdicts[r] = "yes"

(* The function of a tool that needs approval runs for a call at most once  *)
(* for each time the user approved that call, and so never unapproved,       *)
(* though the processor sees the approval again before every step of the     *)
(* turn, after every other tool's answer and in the flow of every agent      *)
(* transferred to (function_tool.rs run_async, resolve_confirmation_targets; *)
(* request_confirmation.rs: "drop confirmations already consumed").          *)
OncePerApproval ==
    \A c \in CallsOf(store) : Kind[c.tool] = "guarded" =>
        Cardinality({i \in DOMAIN bodies : Body(i) = c})
            <= Cardinality({e \in Range(store) : Approving(c.id, e)})

(* A turn that did not fail leaves no call without a response: the next      *)
(* request to the model would be refused (execute_function_calls and         *)
(* merge_parallel_function_response_events answer all of a step's calls).    *)
CallsAnswered ==
    flows = <<>> /\ outcome = "finished" =>
        \A e \in Range(store) : e.turn = turn =>
            ById(e.calls) \subseteq UNION {d.answers : d \in Range(store)}

(* Whatever was transferred, an event is stored once though each flow above  *)
(* the one that made it and the Runner append it again, and none is lost;    *)
(* only an event that the Runner has changed before it appends it is stored  *)
(* a second time, in the form it was given (llm_flow.rs run_async: "reaches  *)
(* append_event twice"; services.rs append_event, runner.rs run_async_impl). *)
EventsStoredOnce ==
    /\ \A i, j \in DOMAIN store : i # j /\ store[i].id = store[j].id =>
           store[i].by \in Rewritten /\ store[i].meta # store[j].meta
    /\ \A i \in DOMAIN flows : Range(flows[i].out) \subseteq Range(store)

(* All agents of an invocation together call the model at most as often as   *)
(* the limit says (invocation_context.rs increment_llm_call_count: the count *)
(* is per invocation, not per agent run).                                    *)
CallsLimited ==
    Cardinality({e.id : e \in {d \in Range(store) \cup UNION {Range(flows[i].step) : i \in DOMAIN flows} :
        d.turn = turn /\ d.calls # <<>>}}) <= MaxLlmCalls

=============================================================================
