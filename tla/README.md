# Verification of the Rust ADK

TLA+ models of the parts of this repository (a Rust port of google/adk-python,
under `src/crates`) whose correctness depends on the order of things: the
workflow engine with its replay on resume, nodes that run other nodes, the
composite agents, the turn loop of an LLM agent, the history its model is shown,
the explicit context cache, and the session store with the runner and the
rewinds on top of it. TLC checks the models on small instances; TLAPS proves
invariants of the engine and its replay, of the session store under concurrent
calls, and of the context cache, for every bound.

    tlc -workers 2 -config WL_faults.cfg MCWorkflowLoop
    tlc -workers 2 -config CC_calls.cfg MCContextCache
    tlapm WorkflowLoopProofs.tla

`PROJECT.json` lists the runs, the source lines every definition stands for,
the mutations that show each property can fail, the findings and the hazards.

## 1. Inventory

### The system

| Part (crate) | State | Operations | Hard behaviour |
| --- | --- | --- | --- |
| Workflow graph (`adk-agents/workflow_graph*`) | none after construction | build, validate, next pending nodes | routes, default edges, duplicate targets |
| Workflow engine (`workflow_workflow.rs`) | node states, trigger buffer, pending futures, cached outputs, interrupt ids | setup, run_loop (schedule, poll, complete), cleanup, finalize | futures that finish in any combination; errors and interrupts in the middle of a batch; concurrency limit; joins |
| Replay (`workflow_replay_*`, `workflow_rehydration_utils.rs`) | session log, sequence barrier | scan, interception, wait, advance | crash and resume, answers in any order, runs numbered per turn, timeouts of the barrier |
| Node runner, retries (`workflow_node_runner.rs`, `workflow_retry_*`) | attempts of one run | run, retry, time out | events of failed attempts |
| Dynamic nodes (`workflow_dynamic_node_scheduler.rs`, `context.rs`) | runs by path, one lock | run_node | a call under a lock held by its own caller, recovery of part of a run, a timeout inside a call |
| Session service (`services.rs`) | sessions, `app:` state, `user:` state under three locks | create, get, list, delete, append | copies read under several locks, redelivery, deletion under a running call |
| Artifact services (`*_artifact_service.rs`) | versions of files | save, load, list, delete | versions that no event records |
| Runner (`adk-runners/runner.rs`) | none of its own: a copy of the session per call | run_async, rewind_async, run_debug, close | concurrent calls on one session, agent errors half way |
| Rewind (`adk-runners/rewind.rs`, `adk-events/rewind.rs`) | none | state and artifact delta, live events | rewinds of rewinds; forward and backward replay must agree |
| Agents, invocation context (`*_agent.rs`, `invocation_context.rs`) | agent states and end markers, rebuilt from the session | run_async of sequential, loop and parallel agents | pauses at any depth, resumption, clones of the context, abort of parallel siblings |
| LLM flow, function calls, confirmation, authentication request (`adk-flows`) | events of the turn, tasks, the count of model calls | step loop, parallel tool calls, approvals, credentials, transfer | answers in later turns, approvals seen again before every step, errors that leave tasks running, nested flows with stale copies |
| Contents and compaction (`contents.rs`, `compaction.rs`, `apps_compaction.rs`) | none | assemble the request, choose and summarise events | overlapping summaries, late and repeated answers, rewound events |
| Context cache (`gemini_context_cache_manager.rs`, `context_cache.rs`) | metadata in events, caches on the server | create, reuse, renew, drop | caches changed before the call that may fail, contents that change under a fingerprint, counted uses |
| Authentication (`credential_manager.rs`, ...) | stored credentials | load, exchange, refresh, save | a refresh that fails, a stale stored token |
| Tools, models, evaluation, memory, plugins, examples, platform | data, files, outside services | conversions and I/O | little order of its own |

How they interact. A caller hands a message to the **runner**, which reads a
copy of the session from the **session service**, appends the user's event,
runs the root **agent** on a clone of the invocation context, and appends what
the agent answered; the service keeps the stored session and the shared state
and updates the caller's copy. A composite agent runs its sub-agents on clones
in turn; an LLM agent runs a **flow**, which before each step assembles the
**history**, may find a **cache** for it, calls the model, starts the tools it
asks for as tasks, and may run another agent's flow inside the step. After the
run, and before a step, **compaction** may append a summary. A **rewind**
appends an event that undoes the deltas after a point; every reader of the
history then drops the rewound events with `apply_rewinds`. A **workflow** is an
agent of nodes: its engine buffers triggers, starts node futures, and collects
their events, which reach the session when the turn is over. On the next turn
the **replay** scans those events and decides for each run whether it is
executed or fast-forwarded, and the **sequence barrier** makes replayed runs
complete in the recorded order. A node's body may run further nodes through the
**dynamic scheduler**, under one lock per workflow.

What makes each part correct:

* graph: the triggers of a completion depend on the graph and the routes only;
* engine: one execution of a node at a time, the limit respected, no trigger
  lost, joins fired once all predecessors completed, nothing started after an
  error, every turn ends;
* replay: a run number names the same trigger in every turn, settled runs are
  not executed again, recorded order is kept, a waiting workflow can be
  answered, and all turns together are one run of the dataflow graph;
* dynamic nodes: a call that gave its output is not repeated by a retry, answers
  reach the task that asked or whose call did, what waits can be answered, the
  scheduler is never left locked;
* agents: a resumption goes on where the pause was, repeats nothing settled and
  skips nothing, the limit of a loop holds across pauses;
* flow: a guarded function runs once per approval, every call is answered,
  events are stored once unless the Runner changes them, the limit on model
  calls holds for the invocation;
* history: no event is lost to the model, rewound ones are not shown, calls and
  answers stand in pairs, the newest event is shown itself unless nothing is to
  be retained;
* context cache: a request with a cache is the request without one, and the
  session's metadata is true of the caches on the server;
* session service: an event is stored once, a copy is consistent with its own
  events and never ahead of the store;
* rewind: what it dropped leaves no trace in state or artifacts.

All components are in `PROJECT.json`, with the reason where one is not modelled.

### Hazards

`PROJECT.json` "hazards" lists, at its line, what this code can get wrong and a
test would hardly reach, with the properties that watch it.

## 2. Modules

    WorkflowGraph  <-  WorkflowLoop  <-  WorkflowLoopProps  <-  MCWorkflowLoop
                                         (Ledger == INSTANCE WorkflowLedger)
                                             ^-- WorkflowLoopProofs  <-  WorkflowReplayProofs
    DynamicNodes  <-  DynamicNodesProps  <-  MCDynamicNodes
                          ^-- DynamicNodesProofs
    Agents  <-  AgentsProps  <-  MCAgents
                    ^-- AgentsProofs
    LlmFlow  <-  LlmFlowProps  <-  MCLlmFlow
                     ^-- LlmFlowProofs
    LiveEvents  <-  History  <-  HistoryProps  <-  MCHistory
    LiveEvents, SessionService  <-  Rewind  <-  Runner  <-  RunnerProps  <-  MCRunner
                                                              ^-- RunnerProofs
    ContextCache  <-  ContextCacheProps  <-  MCContextCache
                          ^-- ContextCacheProofs

`DataTheorems` is extended by the proof modules.

| Module | Models |
| --- | --- |
| `WorkflowGraph` | edges with route tags, `get_next_pending_nodes`, terminal nodes, the conditions of `validate_graph`; no variables |
| `WorkflowLoop` | the engine and its replay |
| `WorkflowLedger` | abstract: what a resumable workflow promises |
| `DynamicNodes` | `run_node`, the scheduler behind it, attempts of a node |
| `Agents` | sequential, loop and parallel agents over the turns of an invocation |
| `LlmFlow` | the step loop of an LLM agent with tools, approvals, credentials and transfers |
| `LiveEvents` | `apply_rewinds`, used by `Rewind` and `History` |
| `History` | assembly of the contents, both kinds of compaction, the turns that make the events |
| `ContextCache` | the metadata of a context cache and the life of the caches it names |
| `SessionService` | `InMemorySessionService` and the versions of one artifact |
| `Rewind` | the two deltas of a rewind, as pure operators |
| `Runner` | concurrent `run_async` and `rewind_async` calls over the service |
| `*Props` | the properties of a module; `WorkflowLoopProps` also the refinement mapping to the ledger, `ContextCacheProps` the inductive invariant |
| `*Proofs` | theorems |
| `DataTheorems` | what they share: induction stated with sets, greatest elements, the community modules' `Max` and `Min`, sequences and their ranges |
| `MC*` | the small instances |

The modules share the session's events but each keeps of an event only what
its properties tell apart; a module of the whole would be out of TLC's reach.
They meet at these places: `Finish` of `WorkflowLoop` is what `DynamicNodes`
details (a node's attempts and calls); a leaf of `Agents` is a turn of
`LlmFlow`; the text that `LlmFlow` leaves out is `History`; `request` of
`ContextCache` is what `History` assembles; the agent of `Runner` is any of them.

### WorkflowLoop and the code

The engine is one task, so the code between two awaits is one step and the only
concurrency is that of the node futures it polls.

| Action | Code |
| --- | --- |
| `Setup` | `Workflow::setup`, `seed_start_triggers` |
| `Skip`, `StopAtLimit`, `Start`, `Scheduled` | one name of the snapshot in `schedule_ready_nodes`; `start_node_task` with `check_interception` |
| `Finish` | a node future ends: what `NodeRunner::run` returns |
| `WaitTimesOut` | `ReplaySequenceBarrier::wait` gives up; the error is dropped in `start_node_task` |
| `Poll` | `wait_for_completions`: all futures that are ready |
| `CompleteError`, `CompleteInterrupted`, `CompleteWaiting`, `CompleteOk` | one round of the loop over the sorted batch in `run_loop`: `handle_completion`, `buffer_downstream_triggers`, re-emission, `check_and_advance` |
| `BatchDone`, `Shutdown` | back to scheduling, or `error_shut_down` and `cleanup_all_tasks` |
| `Finalize` | `collect_remaining_interrupts`, `finalize`, and the caller's appending of the events |
| `Crash`, `Answer` | the process dies; the user answers interrupts |

State: `nodes`, `queue`, `arrived`, `pending`, `outputs`, `interruptIds` are the
fields of `WorkflowLoopState` (`arrived` holds the order of the buffer's
entries); `todo`, `batch`, `error`, `events` the locals of the two loops;
`task` the futures; `index` the barrier; `log` the session. `late` is history.

Abstractions. A value is the run that produced it, an input maps senders to
values. A node is the set of outcomes it may have on its r-th run. One log
record stands for the events of one completion. Branches, isolation scopes,
schemas and `transfer_to_agent` are left out, and checkpoint events, which carry
an empty path and are skipped by every scan. Empty route lists are not
generated. The order setup, loop, cleanup, finalize, append is that of the
module doc of `workflow_workflow.rs`: the caller is not in the repository. The
first error of a batch does not stop the code from handling the rest of it
(the doc of `run_loop` says it does); the model follows the code.

### DynamicNodes and the code

Static nodes run as tasks of one executor. A task is a stack of frames, one for
each `NodeRunner::run` under way; `lock` is the mutex around the scheduler.

| Action | Code |
| --- | --- |
| `Dispatch`, `Return` | `scheduler.lock().await.call(..)`: recovery, interception, the run, `record_result`; back in `run_node`, what the body gets of it |
| `FastForward` | the call answered from this turn or from the session |
| `EndAttempt` | `execute_node` returns; yields are tracked one by one; retries by `should_retry` |
| `Timeout` | the timeout of an attempt drops the body and the calls nested in it |
| `StartTurn`, `Settle`, `EndTurn`, `Answer` | the engine around the static nodes; the user's answers |

`stopping` fixes, per body, whether it yields nothing after an interrupted call;
`folding` what it does with the events that `run_node` returns to it
(`context.rs:551`): it folds them into its own yields, as the doc asks, or drops
them, as `ParallelWorker` and `NodeTool` do. `Folds` says which bodies may fold,
and every combination of them is an initial state. A folded event is enriched
like any yield of the node that folds it, and gets that node's path
(`enrich_event`, `workflow_node_runner.rs:413`; `Yields`). So no event in the
session ever has the path of a dynamic run. Two consequences are in the model by
what it leaves out: `rehydrate_from_events` finds nothing for a dynamic path
(`Recovered` says so by itself, from the log), and the recorded sequence below a
dynamic parent is empty, so that `wait_sequence` and `advance_sequence` have no
effect there. The barrier of the static nodes is in `WorkflowLoop`. A call that
`run_node` refuses before it dispatches is an error of the body. Delays between
attempts, routes and transfers inside `run_node` are left out.

### Agents and the code

Every agent under way is a frame: its clone of the context and the events it
holds; `run_async` returns them all at the end.

| Action | Code |
| --- | --- |
| `RunSub`, `Join`, `EndSequence` | the loop of `SequentialAgent::run_async_impl`, with `start_index` |
| `RunSub`, `Join`, `EndPass` | the nested loops of `LoopAgent::run_async_impl`, with `reset_sub_agent_states` |
| `Spawn`, `JoinNext`, `EndParallel` | `ParallelAgent::run_async_impl`: the `JoinSet`, its abort after an escalation |
| `RunLeaf` | a leaf's whole turn: it says something, writes the state, asks (pauses), escalates or fails |
| `Fail` | an error ends the parent, which returns no events |
| `StartTurn`, `EndTurn` | `populate_invocation_agent_states`; the events appended to the session |

### LlmFlow and the code

The flows under way are a stack, since a transfer runs the other agent's flow
inside the step; each has its own copy of the session (`view`). The events of an
agent in `Rewritten` are changed by the Runner before it appends them
(`Delivered`): by `apply_run_config_custom_metadata` (`runner.rs:546`) or by a
plugin's `on_event_callback` (`runner.rs:954`, `merge_output_event`). Both keep
the id, and `append_event` takes an event for a duplicate only if it is equal in
full (`services.rs:644`; `AppendOne`), so the changed one is stored next to the
one the flow has appended.

| Action | Code |
| --- | --- |
| `ProcessAuth`, `ProcessConfirmations` | `process_auth_responses`, `process_request_confirmations` |
| `CallModel`, `ModelFails`, `EmptyStep` | `run_one_step` up to the response, `increment_llm_call_count` |
| `RunTool`, `ToolsFail`, `ToolsReturn` | `execute_function_calls`: a task per call, awaited in order; the merged response and the requests for approval and credentials; transfer |
| `AppendStep`, `ReturnNested`, `EndTurn` | `run_async` appends a step's events; the nested flow's events end the step; the Runner appends all once more, changed or not |
| `UserSays` | a message that may answer any request made so far |

Nothing under `src/` wires the two processors in; their docs say they run before
every step, and so they do here. In the instance only the root agent has guarded
tools: the copy of the outer flow does not have what the nested flow ran, so an
approval consumed there would be acted on again (section 5).

### History and the code

An event's timestamp is its place in the store. `Request` is `get_contents`:
`Live`, `Processed` (`process_compaction_events`), `Recovered`
(`recover_compacted_function_calls`), `WithoutOrphans` and the two
rearrangements, in that order of the code.

| Action | Code |
| --- | --- |
| `UserSpeaks`, `UserAnswers`, `UserApproves` | a turn begins: a text, answers to calls that went on, an approval |
| `CompactFirst` | `apply_compaction_processor` before a step (token threshold) |
| `CallModel`, `ContentsFail`, `RunTools` | a step; what a tool may answer is `Replies` |
| `CompactAfter` | the runner's trigger after a run (both kinds), on the runner's copy |
| `RewindTo` | `rewind_async` |

Whether the token threshold is passed is a choice. A `keep` of 0 is
`event_retention_size = 0`, which `app_configs.rs:96` allows: nothing is kept
back, and what is summarised before a request may be the message that it is made
for. Texts, branches and other
agents' events are left out; the summariser always answers.

### ContextCache and the code

| Action | Code |
| --- | --- |
| `UserMessage`, `RewindContents`, `Summarise` | what changes the contents between calls |
| `Preprocess` | `apply_context_cache` with `find_cache_info_from_events`; `prepare_call` with `maybe_append_user_content` |
| `FirstCall`, `Reuse`, `CleanUp`, `Create`, `NoCreation`, `StartOver` | the branches of `handle_context_caching`, with an await after the clean-up |
| `Answer`, `AnswerUnrecorded` | the response comes and its event is stored, or it is empty, replaced by a callback, or lost with a failed tool |
| `CallFails` | the model refuses, the process dies or the caller goes away, at any await |
| `Expire` | the server drops a cache whose time is over |

A fingerprint is what is hashed; token counts are a choice; the client's clock
agrees with the server's. `RewindContents` may cut at any user content, which
is more than `apply_rewinds` does. One agent, one call at a time: two calls at
once on one session may use a cache more often than the metadata says, or drop
or leak each other's. `lost` and `served` are history.

### SessionService, Rewind, Runner and the code

`append_event`, `create_session` and `delete_session` hold the sessions lock
throughout. They write the `app:` and the `user:` map one after the other, under
the locks of these, and so are two steps: the call's, and `WriteUserState`
before which the sessions stay locked (`unwritten`). `get_session` takes three
locks one after the other and is three steps (`Reads`). A call is a record of its program counter,
its copy of the session, and the events still to append.

| Action | Code |
| --- | --- |
| `Begin`, `Read` | `run_async` or `rewind_async` called; `get_session` with `merge_state` |
| `Create`, `CreateFails` | the second half of `get_or_create_session`, which may find the session created meanwhile |
| `UserMessage`, `Agent`, `AgentError`, `AppendNext`, `End` | the stages of `run_async_with_config` |
| `PrepareRewind`, `InvocationNotFound` | `rewind_async` up to its append |
| `Open`, `Delete`, `Redeliver` | the service called directly |

Abstractions. One app, one user, one artifact file per session. A state key is
a model value with a scope, a written value is the id of the event that wrote
it. No plugins and no compaction: their hooks return nothing. The agent is the
sequence of events it answers with, and saves artifacts while it runs. Partial
events pass through. Timestamps, `list_sessions` and trimmed reads are left out.
`born`, `initial` and `written` are history.

## 3. Runs

| Run | Question | Instance |
| --- | --- | --- |
| `WL_join` | Do joins fire, does replay keep inputs, do turns add up to one dataflow run? | a branch round a routed loop up to three times and a plain one meet in a join; both may ask; four turns with crashes |
| `WL_rerun` | Are settled runs left alone and the recorded order kept when a node is rerun with some of its interrupts open? | a node that asks up to twice and is rerun, beside one that is fast-forwarded; three turns with invalid answers |
| `WL_faults` | Is the bookkeeping right under errors, limits, silent and slow nodes and crashes, and does every turn end? | three branches, one triggering another, two at a time, three turns |
| `DN_calls` | Do calls of `run_node`, retries and resumptions leave the scheduler and the answers in order, whether bodies fold the events they are returned or drop them? | two tasks, one with two calls; errors, a retry, a timeout, partial and late answers; three turns |
| `DN_v_nested` | finding: a call inside a call waits for ever | a dispatched node that dispatches one itself |
| `AG_tree` | Does a resumption repeat or skip an agent, and does every turn end? | a sequence of a leaf, a loop of two and a parallel agent over a sequence and a leaf; three turns |
| `LF_turns` | Is a function run only when approved and once, and every call answered? | two agents, five kinds of tools, three turns, the user answers any old request; the events of one agent are changed by the Runner |
| `HI_turns` | What does the model see of the session? | both compaction triggers on and off, retention sizes 0, 1 and 2, late and partial answers, rewinds, up to seven events |
| `HI_v_rewind` | finding: a summary cuts an invocation in two for a rewind | one invocation with a summary in it, one rewind |
| `CC_calls` | Is a cached request the whole request, and the metadata true? | three invocations, contents that grow, shrink or change, caches that expire, fail or get lost |
| `RS_shared` | What may a call rely on while another writes? | two calls at a time, two sessions, three invocations, an `app:`, a `user:` and a session key; deletion, failing agents, redelivery |
| `RS_rewind` | Do rewinds leave a trace? | six invocations of one session, each a run or a rewind of any earlier one |

Properties.

* Engine, within a turn: `IInv`, `SingleFlight`, `ConcurrencyLimit`,
  `TriggersDrained`, `NothingStartsAfterError`, `JoinFires`, and `TurnEnds`
  (liveness).
* Engine, over turns: `SameInput`, `SettledRunsOnce`, `ReplayInOrder`,
  `NoDivergence`, `WaitingIsAnswerable`: what a later turn makes of the log.
  `ImplementsLedger`: the log refines `WorkflowLedger`. A recorded run never
  changes its input or output, its input was produced by recorded runs, and no
  output is consumed twice by one node, through crashes and resumes.
* Dynamic nodes: `SchedulerTypeOK` says that the lock is held exactly while a
  call is under way, timeouts included; `CompletedNotRerun` that a retry does not
  repeat a call that gave its output in this turn; `AnswerReachesTask` that
  every attempt of a task holds the answers to its requests and to those of its
  calls; `WaitingCanBeAnswered` that a task that folds the events of its calls
  and has one attempt does not wait for a request nobody can see;
  `PendingHasWaiter` that the interrupts a workflow reports belong to a node that
  waits. `TasksSettle` (liveness) is refuted by a nested call.
* Agents: `NotRepeated` and `EndMeansDone` (an agent marked as ended had all of
  its sub-agents run, and is not run again), `PassesBounded` (a loop counts
  passes across pauses), `SeesEarlierState` (a clone sees what agents before it
  left), and `AgentsTurnEnds` (liveness).
* LLM flow: `OncePerApproval`, `CallsAnswered`, `EventsStoredOnce`,
  `CallsLimited`, each across nested flows, failed turns and old requests that
  are answered again. `EventsStoredOnce` allows a second copy only of an event
  that the Runner has changed.
* History: `NothingLost`, `CallsPaired`, `RewoundUnseen`, `NewestShown`,
  `RequestBuilt` (assembling does not fail): the request against the live
  events, with both kinds of summaries in between. `NewestShown` allows the
  newest event to stand in a summary only if the retention size is 0.
  `RewindDropsInvocation` is refuted.
* Context cache: `RequestWhole`, `MetadataTrue`; both are also proved.
* Session service and runner: `SharedAsNewAsEvents` (a copy's `app:` or `user:` value is
  never older than one an event of the copy wrote, since sessions are read
  before shared state); `StoredOnce`, `CopyFollowsStore` (redelivery, and drops
  of the store that must not reach the copy); `RewindRestoresState`,
  `RewindRestoresArtifact` (the code computes deltas by a forward replay of all
  events and liveness by a backward scan; these say the two agree).

### Bounds

* `MaxTurn`: three or four turns are a question, a partial answer, a crash and a
  resume after each; the log after that repeats its shape. `DN_calls` has three:
  the request of a call, its answer with or without that of another one, and
  what the turn after makes of it. `FewErrors` (no turn starts from a session
  with more than two error events) keeps that run small.
* `MaxRun` (engine): two or three runs of a node per turn distinguish the first,
  a middle and the last round of a loop. A node at the bound is not started, so
  a turn may stop there; `WL_join` sets the outcomes so that it does not.
* `MaxLlmCalls` is the code's own limit, not a bound of the model; 2 lets the
  second agent reach what the first one used up.
* `MaxCalls` 2 and `MaxEvents` 7 (history): a question of two calls, its answers
  in two parts, a summary and a further turn.
* `MaxContents` 6, `MaxInvocations` 3, `MaxCaches` 2 with `CacheIntervals` 1
  (context cache): a cache is made, used up and replaced. The theorems hold
  without the bounds.
* `MaxInv` (runner): three invocations on two callers suffice for a torn read,
  which takes one reader and one writer, with one left for re-creation; six of
  one caller give rewinds of a rewind of a rewind.
* `RS_rewind` has one call at a time and no deletion. With two concurrent calls
  `RewindRestoresState` does not hold: an event appended between the copy and
  the append of a rewind is dropped while its delta stays.
* `NothingLost`, `CallsPaired` and `NewestShown` are about
  `include_contents = default`; with `none` the history is cut on purpose.
* `SettledRunsOnce` excepts logs that an invalid answer keeps from being read.
* The replay timeout is a choice: `SlowNodes` lets a node outlast it at any
  time; without it the wait gives up only when nothing else can move.
* Deadlock is not checked: an invocation ends, or reaches its bound.

### Fairness

Nothing is assumed of crashes, of the user, or of a new turn.

* `WorkflowLoop`: `WF_vars(Turn)`. The executor polls the engine's one task
  whenever a future it waits on is ready, and a node that runs ends, with an
  outcome, an error or a timeout.
* `Agents`: weak fairness of each agent's step and of the end of the turn. A
  parallel agent's siblings are tasks of their own, each polled when it can
  move; a leaf ends.
* `DynamicNodes`: weak fairness of timeouts and of the turn's end, strong
  fairness of each task's step, since a step may wait for the lock, and tokio's
  mutex is handed out in the order of the waiters. Only the violation run uses
  it: even so the nested call waits for ever.

The other runs check safety only.

## 4. Theorems

### WorkflowLoopProofs

For every graph, node behaviour and bound that
satisfies `GraphShape`, `LoopConstants` and `WorkflowIsValid` (the first two
are the types of the constants, the third is what `Workflow::new` rejects
otherwise):

| Theorem | Property |
| --- | --- |
| `TypeCorrect` | `IInv`: `TypeOK`, and which variables are empty in which phase |
| `ConcurrencyBounded` | `ConcurrencyLimit` |
| `SingleFlightHolds` | `SingleFlight` |
| `ErrorEndsTurn` | `NothingStartsAfterError` (an action property) |
| `NoTriggerIsLost` | `TriggersDrained` |
| `JoinsFire` | `JoinFires` |

The argument. `TypeOK` alone is not inductive: a scheduling step takes the head
of a queue, which must not be empty, and a completion indexes the log and the
graph by the node's run number, which must have been assigned. `Phases` adds
this: queues of the names still to visit are not empty, a batch exists only
while it is processed, nodes in flight have a run number. One lemma per action
(`SetupTyped` ... `AnswerTyped`) shows that it preserves `IInv`, `NextTyped`
combines them, PTL does the rest. The other theorems build on it: the limit
holds because only `Start` adds to `pending` (`OnlyStartAdds`); single flight
because a node is set RUNNING and added to `pending` together and leaves both
together, cancellation included. `NoTriggerIsLost` needs
one more invariant, `Pushed`: while a scheduling pass runs with nothing in
flight, a node with a buffered trigger is still to be visited or was skipped as
busy; the pass over, busy then means waiting for an answer (`PushedStep`,
`DrainedStep`). `JoinsFire` needs `JoinTriggered`: a join whose predecessors
have all completed has a trigger or has started, and a node with a status has
started. The completion that is the last one triggers it, whichever of a batch
that is (`LastOneTriggers`).

### WorkflowReplayProofs

Under the same assumptions, what a later turn makes of the log:

| Theorem | Property |
| --- | --- |
| `SettledAreNotRerun` | `SettledRunsOnce` (an action property) |
| `ReplayKeepsOrder` | `ReplayInOrder` (an action property) |
| `WaitingCanGoOn` | `WaitingIsAnswerable` |

The argument. A run begins to execute in `Start` only (`EntersByStart`), which
replays a settled one. The order needs `Barrier`: every key placed before
`index` was handled, and a replayed completion in a batch has a place that the
index has reached, unless its wait timed out. Its step uses that places are
distinct: `Rank` counts the keys recorded before one, and two keys have
different last events (`RankIsInjective`). That a waiting workflow can go on is
`Reported`: every interrupt the engine holds is open in the log, or was raised
in this turn and nobody has seen it yet; ids carry their turn, so the two cannot
be confused.

### RunnerProofs

For every set of callers, sessions, keys and scopes, every set of shapes, and
every bound that satisfies `ScopeIsTotal` and `RunnerConstants`, with deletion,
re-creation, failing agents and rewinds among the calls:

| Theorem | Property |
| --- | --- |
| `CopiesFollowStore` | `CopyFollowsStore` |
| `SharedIsAsNew` | `SharedAsNewAsEvents` |
| `DeliveredStoredOnce` | `StoredOnce`, given `Redeliveries => ShapesClean` |
| `RewindsRestoreState` | `RewindRestoresState`, given `Alone` and `BeginEmpty` |
| `RewindsRestoreArtifact` | `RewindRestoresArtifact`, given `Alone`, `~AgentFails` and `ShapesWhole` |

The argument. `NextShape` brings every step, under the types and `Staged` (what
a call has at each stage), into one of a few shapes (`StepShape`): a delete, a
create, the write of the `user:` share, or one call that begins, reads, creates,
plans, appends or returns. The invariants look at these only. `Issued` keeps
invocation ids apart: no stored event is of an invocation not given out, and a
call that has no copy yet has appended nothing. From it `CopiesFollow`: the copy
is what was stored when it was read, the store grows by whole events, and both
take the call's own or neither does. It speaks of copies of the session that
exists; one created anew differs in `born`.

`SharedIsAsNew` is about a read that is torn: events come from one moment,
shared values from two later ones. `SharedHistory` relates each shared map to
the history of writes it has received (for `user:` all but the last while that
is under way); `StoredWritten` says that what a stored event wrote is in that
history; `Shown` follows a call through its three reads: what its copy's events
wrote is shown as new, or the map that has it is still to be read. Had the maps
been read first, the step that reads the session would break it.

`DeliveredStoredOnce` needs `Numbered`: what a call has still to append is not
stored, and what it appended last is stored as it is, if at all. The second part
is where the assumption comes in: `append_event` compares an event with stored
ones that went through trimming, so a redelivered event with a `temp:` key is
not recognised (section 5). Without redelivery nothing is assumed.

`RewindsRestoreState` is about two functions that the code writes in opposite
directions: `compute_state_delta_for_rewind` replays the deltas of *all* events
before the target, dropped ones included, and `apply_rewinds` drops events
scanning back from the end. That both lead to one state is not inductive for the
last event alone, since a later rewind may go before any event. `Restored`
therefore says it of every prefix: all events up to the n-th lead where the
events that are live after the n-th lead. An event that is no rewind is added on
both sides; a rewind leaves live what was live before its target, where the
prefix ending there had the same state, and `Restores` says that its delta
produces just that one. `BlockIsFirst` is where the two meet: the start of the
run of events that is dropped is the first event of the target, since ids only
grow along a session (`Ordered`). `InStep` ties a call to this: its copy has the
session's events and keys when the rewind is computed (`Exact`), and what it
computed still restores the state when it is appended (`Undoes`). The recursive
function in `ApplyRewinds` is a `CHOOSE`; `LiveSteps` shows that it exists and so
satisfies its equation, and `LivePrefix` that it looks back only.

`Alone` asks for one caller and no deletion, `BeginEmpty` for no session created
with keys of its own. Each is needed: TLC finds the property violated with two
callers (an event appended between the copy and the rewind loses its place in
the history but not its delta), with deletion (the copy is of the session before
it was created anew), and with initial keys (`rewind.rs` replays from nothing,
section 5). Redelivery and failing agents are allowed, which is more than
`RS_rewind` has.

`RewindsRestoreArtifact` is the same question of the artifact, where a rewind
cannot take back what was saved: it saves the old content as a new version and
records the number it *expects* that version to get, the one last recorded plus
one (`compute_artifact_delta_for_rewind`). `Led`, the part of the argument about
prefixes, is shared with the state: `Content` maps a set of events to what it
leads to. The rest ties numbers to the store. `Counted`: the version recorded
last, by the stored events or by those the call has still to append, is the last
one saved, so the number expected is the one it gets. `Recorded`: what the call
has to append records versions that are there, partial events none; and the
event it may deliver once more records what is recorded last already, so that a
second copy in the session changes nothing (one with `temp:` keys is stored
twice, section 5). `BringsBack`: the rewind on its way leads to what its target
began with, before and after it is appended. That an event on its way is not
taken for stored needs `Numbered`, from above.

The assumptions are what makes `Counted` true, and TLC finds the property
violated without any one of them: with two callers or deletion; with an agent
that fails after it saved (`AgentFails`), since the version is there and no event
records it, so that the next rewind records one that holds something else; and
with a partial event that records what was saved, as partial events are not
stored (`ShapesWhole`). Sessions created with keys of their own are allowed here.

### LlmFlowProofs

For every set of agents and tools, all replies of the models and every limit
that satisfies `FlowConstants`, with transfers, approvals, logins, failing tools
and any number of turns:

| Theorem | Property |
| --- | --- |
| `TurnInvariant` | `TurnInv`, the inductive invariant |
| `StoredOnce` | `EventsStoredOnce` |
| `LimitKept` | `CallsLimited` |
| `NoCallLeft` | `CallsAnswered` |
| `ApprovedOnce` | `OncePerApproval`, given `GuardedAtRoot` |

The argument. A flow appends its step's events, the flow above takes them for a
step of its own and appends them again, and so does the Runner. So the invariant
speaks of all events there are, stored or in a step (`Pool`): they have ids that
were given out, and equal ids mean equal events, or an event and the form that
the Runner gave it (`Ids`, `Marked`); what a flow has handed on is stored
(`OutsStored`). Each action has one of five shapes (`Starts`, `Asks`, `Fails`,
`GoesOn`, and `Ends` for the Runner's turn), and the first four the same effect
on the pool (`Effect`): the store only grows, by events of the pool and events
made now, whose ids are new. `Ends` adds to the store what is there already, or
changed in nothing but what no other invariant looks at (`DeliveredFacts`,
`AlikeFacts`).
`Counted` says that the ids of the turn's events that carry calls are at most
`llmCalls`: only `Asks` makes one, and it counts first. `Owed` says that the
calls of the turn's events are answered in the pool or are those the innermost
flow is waiting for; a flow that is done waits for nothing, and a pool without
flows is the store.

`ApprovedOnce` has an invariant of its own, `ApprovalInv`, on top of `TurnInv`. A
call is *due* in a flow whose copy of the session has it, the user's approval of
it in the last message, and no answer since, unless the flow is running it right
now. `Bounded` says that the function of a call ran, or waits in a task to run,
at most as often as the call was approved, and less often while the call is due
in the root's flow. A user's message makes calls due and counts an approval;
`ProcessConfirmations` starts a task for each call that is due and leaves none,
even where the processor of credentials already ran one of them without the
verdict; and no other step makes one due (`Carries`). That last part is where
the code could go wrong: what a flow appends to its copy during the turn is
newer than the user's message, so it neither replaces that message nor holds a
call that the message approves (`WantingKept`); the answer of the calls resumed
is in the copy before they stop running (`ResumedCarries`); and a flow that is
transferred to starts past the processor, with a copy in which nothing is due
(`PushCarries`). When the nested flow has returned, the outer one goes on with
its older copy. `GuardedAtRoot`, that only the root's model asks for tools that
need approval, is what keeps that harmless, and is needed (section 5).
`FlowConstants` also has that no agent is named "user"
(`base_agent.rs:182`): else its events would pass for the user's.

### DynamicNodesProofs

For all nodes, bodies, retry configurations, timeouts, and any number of turns
that satisfies `DynConstants`, and whatever each body does with the events of
its calls:

| Theorem | Property |
| --- | --- |
| `SchedulerInvariant` | `SchedulerInv`, the inductive invariant |
| `SchedulerTypeCorrect` | `SchedulerTypeOK` |
| `PendingWaits` | `PendingHasWaiter` |
| `SessionInvariant` | `SessionInv`, inductive together with `SchedulerInv` |
| `CompletedStays` | `CompletedNotRerun` |
| `AnswersReach` | `AnswerReachesTask` |
| `WaitingAnswerable` | `WaitingCanBeAnswered` |

The argument. The lock explains the stacks: to dispatch one must find it free
and takes it, so the body that has dispatched is a task's own, at the bottom of
the one stack that is two deep, and the run on top of it cannot dispatch
(`Locked`, `StackOK`; the finding in section 5 is the other side of this). A
timeout of the lower frame drops the upper one and gives the lock back, one of
the upper frame leaves it with the caller.

`PendingHasWaiter` could fail by a retry: an attempt makes a call that is
interrupted, the id goes to the scheduler, the attempt fails, and the next one
ends well without it. `Kept` says why it does not: of each task that an id
belongs to there is a call that is interrupted whenever it is made
(`Sticky`), and the body is not past it, unless this attempt has the interrupt
among its own. That needs a sticky call to stay so while other calls are
recorded: the run recorded for a path is only that of a call that had to run,
and such a call is not sticky (`InnerOK`, `RunIsNotSticky`); and it needs ids
to name the task that asked, in frames, runs, events and the session (`OwnIds`,
`OwnEvents`, `RunsOK`, `Saved`).

The other three need `SessionInv`, which follows what happened on its way into
the session. `CompletedTold`: a call that gave its output in this turn is
COMPLETED in the scheduler, under the path that the same call of a later attempt
has, since every attempt counts its calls from the start. `Intercept` hands that
run's output out, so the run on a stack, which is RUNNING, is not one of those
calls. `AnswersReach`: a request carries the path of the node whose event it
ends up in, at least of its task (`Saved`), so an answer is found by a scan for
the task (`AskRaised`); a frame has had all of them since it was made and keeps
them over its attempts (`BottomTold`), because nobody answers while a turn runs.
`WaitingAnswerable`: an interrupt that a folding task with one attempt holds, or
would be handed by the scheduler, stands among its events or those it is about
to fold (`Wants`, `Asking`), or is an older one that is still open
(`AskedBefore`); when the task settles that becomes `WaitTold`. An interrupt of
this turn is not answered yet, since its id carries the turn (`LogTold`,
`Fresh`). With a second attempt it is false: the first one's fold is lost with
its error, while the scheduler still has the run's ids.

### AgentsProofs

For every tree of agents that satisfies `AgentTree`: an agent has one parent,
made after it (`AlreadyHasParent`, `base_agent.rs:251`), and any callbacks,
answers, pass limits and number of turns:

| Theorem | Property |
| --- | --- |
| `AlwaysInductive` | `Inductive`, the inductive invariant |
| `EndIsTrue` | `EndMeansDone` |
| `SeesAllBefore` | `SeesEarlierState` |
| `NothingIsRepeated` | `NotRepeated`, if `AfterOnSequences` |
| `PassesAreBounded` | `PassesBounded`, if `AfterOnSequences` |

The argument. Every step changes one frame, begins some children of it or drops
some below it (`ShapeOfStep`: a frame calls, takes, stops, ends, passes on,
finishes, replies or fails); the invariants look at these shapes only. `TreeOK`
says that the frames form a tree: below the root is nobody but the sub-agent
that a frame waits for, or those that a parallel agent has spawned. `Grounded`
says of each event that what it tells is so given the events before it: an end
marker of a sequence comes after an answer of every sub-agent, a marker that
names a sub-agent after an answer of those before it. That is what a resumption
trusts, since `populate_invocation_agent_states` keeps the markers and
`start_index` skips by them. `Good` ties a frame to it: `Ordered` and `Progress`
that its place in the list of sub-agents is covered by answers in the log or in
its own events, `Carried` that the states of its context are what the log tells
of them, changed only by its own events. So a sequence that is resumed behind
its last sub-agent may be marked as ended. The half about pauses holds because
a frame that goes on holds no pause (`Going`): one that takes events with a
pause in them stops there, without a marker, so no end marker of an agent above
comes after it (`Ordered`).

`SeesAllBefore`: a clone's writer is the one of its parent's context (`Sees`),
which is the last writer of the parent's events if they hold any write, else the
one of the frame above (`SeesStep`); a frame takes a sub-agent's events and
applies them in the same step (`AppliedConcat`).

`NothingIsRepeated` needs to know what the log does *not* hold, which `Inductive`
does not say. `Position` is what a resumption relies on, for an agent outside
loops: one that has an end marker is recovered as ended, and of a sequence whose
last marker names a sub-agent, that one has no answer yet and those behind it
have no events at all. `Placed` carries it from the events a frame holds to the
log, for all agents below the frame: if an agent's own events are appended, only
its own place changes (`OwnSettles`), and if it takes those of a sub-agent, no
agent below has events on both sides unless a loop called it (`JoinedApart`). On
the way down, `Kept` says that the context of a frame still has all that the log
tells of the agents below, so that nothing recovered is lost before the agent it
is about is entered; `Ahead` and `Fresh` that what is in front of a sequence, and
the agent itself, have not answered. `Lasts` is these for all frames, with
`Recorded` for the tree as a whole between the turns.

`AfterOnSequences`, the `after_agent_callback`s that return content are of
sequences, is a condition of the two theorems and not of the others.
`populate_invocation_agent_states` (`invocation_context.rs:189`) takes content
behind an end marker for a sign that its agent is under way again, without a
state. A sequence then goes on behind its last sub-agent and only ends once more;
a loop or a parallel agent is run once more when the turn is resumed after a
pause elsewhere, and with a loop TLC finds both properties violated. Content that the callback of a
leaf adds counts as an answer of the leaf. `AG_tree` has a sequence with such a
callback.

`PassesAreBounded` counts the answers of a loop's last sub-agent, when that is a
leaf: `Tally`, while the loop runs, at most one per pass that is over;
`Passes`, in the log, no more than the passes that the last marker counts, or
`max_iterations` behind an end marker. A step that takes the leaf's one event
raises the count and the place together; a pause there is no answer, and the
marker before it has the same number of passes (`StopsLimited`); a resumption
gets that number from the marker (`EnteredLimited`, which needs `Kept`). `Counts`
is this for all frames and the log.

### ContextCacheProofs

For every set of instructions, every `cache_intervals` and every bound that
satisfies `CacheConstants`:

| Theorem | Property |
| --- | --- |
| `CacheInvariant` | `CacheIInv`, the inductive invariant |
| `CachedRequestsWhole` | `RequestWhole` |
| `MetadataIsTrue` | `MetadataTrue` |

The argument. `RequestWhole` is about the request being sent, but whether it
holds is decided calls earlier, when the metadata is written: `Reuse` sends what
is behind the first `count` contents, so the metadata must describe what its
cache holds and must have been cut before words of the user. `CacheIInv` says so
of the metadata in the session and of the one the running call found
(`Faithful`); that the running call found what the session names (`Found`); where
a cache may be: named by the session, in the hand of the running call, or lost
with one (`Placed`); and that `used` counts the invocations a cache served, the
running one included (`Counted`). One lemma per action shows that it is
preserved; the branches that go on without a cache share `GoesOnWithout` and
`GivenUp`. Below them are four facts about cutting contents: the count names a
cut before words of the user (`CountIsCut`), the two parts make the whole
(`CutRejoins`), what is left has words of the user (`RestHasUser`), and equal
fingerprints mean equal parts (`SamePrintCuts`), however the contents changed
in between.

### Only model-checked

Liveness, where the prover has no ENABLED. Of the engine, `SameInput`,
`NoDivergence` and `ImplementsLedger`: they hold for the graphs of the
instances, not for all, since run numbers of a node that several predecessors
trigger depend on the order in which these complete (section 5). Of sessions,
rewinds, dynamic nodes and the LLM flow nothing: what `OncePerApproval` says of guarded tools below the
root, and the rewind properties of concurrent calls, do not hold. And what is in
`History`.

The library's induction theorems take an operator, which the provers here cannot
instantiate; `DataTheorems` states induction over naturals and recursion with
sets (`Induction`, `Recursion`), and `GreatestExists` follows. The provers do
not know `@@`, `:>`, `SelectSeq` and `SortSeq`, so the modules with theorems
write functions and filters by their definitions.

## 5. Findings

Two places where a run shows the code to do other than its documentation says,
quoted in `PROJECT.json`:

* `DN_v_nested`: `run_node` holds the scheduler's lock while the dispatched node
  runs; a `run_node` inside that node waits for it for ever (`context.rs:632`).
* `HI_v_rewind`: a summary made between two steps of an invocation ends the
  block of events that `apply_rewinds` drops, so the first half of a rewound
  invocation is shown to the model again (`adk-events/rewind.rs:48`).

Behaviour met while modelling that the models follow as it is. No run is kept
for these; the properties are stated so that they do not speak of them.

* Engine: the run number of a node that several predecessors trigger depends on
  the order in which these complete (`workflow_workflow.rs:367`). A failed node
  is fast-forwarded as COMPLETED on resume (`workflow_replay_interceptor.rs`).
  One answer that fails its schema discards the whole scan, and the workflow
  starts over (`workflow_workflow.rs:491`). A join with START among its
  predecessors never fires (`workflow_workflow.rs:505`). A rerun node that
  settles with an interrupt still open is executed again when that is answered,
  and may then change its output.
* Dynamic nodes: an output or interrupt of a failed attempt stays when the
  attempt is retried (`workflow_node_runner.rs:194`). If the attempt had made a
  call that asked, the next one is handed the ids of the request while its event
  went with the failed attempt, also where the body folds: hence the condition
  of `WaitingCanBeAnswered`. A task that may be rerun is run as soon as a part
  of its interrupts is answered, with that part.
* Dynamic nodes, the events of calls: the scheduler promises "interrupt-resume"
  (`workflow_dynamic_node_scheduler.rs:96`), but a request that the caller
  folded, as `run_node` asks, is in the session under the caller's path
  (`workflow_node_runner.rs:413`), where the scan for the run does not look. So
  a dynamic run that asked and was answered is run again without the answer,
  which only its caller gets (`AnswerReachesTask` is about the task), and one
  that completed is run again in every later turn in which its caller is. A body
  that drops the events, as the parallel worker does
  (`workflow_parallel_worker.rs:148`), waits for a request that is in no event:
  no answer to it is found, and the next turn starts the task afresh. That is
  why `WaitingCanBeAnswered` speaks of bodies that fold.
* Agents: a leaf of a parallel agent that ended before its sibling paused is run
  again on resumption. So is a loop or a parallel agent that ended, if its
  `after_agent_callback` returns content (`invocation_context.rs:189`), and a
  loop then exceeds its `max_iterations`.
* LLM flow: the last tool decides for all whether the answers are summarised
  (`skip_summarization`), and a login that is still pending does not stop the
  model call after resumed ones. An event that the Runner changes before it
  appends it (`runner.rs:953`) is stored twice and its state delta applied
  again, though `LlmFlow::run_async` (`llm_flow.rs:870`) calls the redelivery
  safe because of the comparison in `append_event`: with `custom_metadata` in
  the run configuration that is every event of a flow. `EventsStoredOnce` excepts
  these copies, and fails for `Rewritten` not empty without the exception. After
  a transfer the outer flow has a
  stale copy of the session: unless the nested agent's last event ends its loop
  too, it would act again on an approval that the nested flow consumed. Its
  events stand in another order there than in the store.
* History: with `include_contents = none` a summary may be taken for the start
  of the turn. `token_compaction_checked` is set on the flow's clone, so the
  trigger after the run may summarise the same turn again. A message that
  answers calls of several events makes assembling fail or shows answers twice.
  A late answer to an earlier call cuts everything between the two. With an
  `event_retention_size` of 0 the user's message may be summarised before the
  request it starts (`apps_compaction.rs:323`).
* Context cache: a cache dropped by a call whose event is not stored is still
  named by the metadata; if the fingerprint matches again every call names the
  dropped cache and fails until its time is over. A cache created by such a call
  is left on the server until then.
* Session, runner, rewind: a rewind sets keys of the initial state to null, and
  records the version of an artifact as the current one plus one, not as the one
  that was saved (`adk-runners/rewind.rs:130`). An event with a `temp:` key that
  is delivered again is stored twice, since the trimmed one is compared with the
  untrimmed (`services.rs:644`).

## 6. Not modelled, and what is left

The definitions stand for some 7200 of 104000 lines. Most of the rest has no
order of steps to check: wire formats and HTTP clients of models, prompts, media
and schema conversions, evaluation, search and skills tools, files and
processes. A model of those would be the program again. `PROJECT.json` gives the
reason for each component. Of the parts that do keep state these are left out:

* credentials (`credential_manager.rs`): loading, exchange, refresh and saving
  is one sequential pass between outside services;
* plugins: hooks return nothing in the models, except that a model callback may
  replace a response (`AnswerUnrecorded`);
* the parallel worker, which runs its items one after the other;
* accumulation of streamed chunks, and live connections;
* two calls at once on one context cache.

What would come next, in this order: proofs of `RewoundUnseen` of the history,
and of `PassesBounded` for loops that end with a composite agent. Then concurrent
calls on one context cache, and the accumulation of streamed chunks.
