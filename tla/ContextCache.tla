---------------------------- MODULE ContextCache ----------------------------
(***************************************************************************)
(* The explicit context cache of one agent on Gemini: the metadata that    *)
(* its events carry (crates/adk-flows/src/context_cache.rs, llm_flow.rs),  *)
(* the state machine that reuses, drops and creates caches before a model  *)
(* call (crates/adk-models/src/gemini_context_cache_manager.rs) and the    *)
(* call itself (gemini.rs).                                                *)
(*                                                                         *)
(* Data: a content is a role and a number; a fingerprint is what is hashed.*)
(* Whether the token counts suffice for a cache is a choice.  The client's *)
(* clock agrees with the server's on expiry.                               *)
(***************************************************************************)
EXTENDS Naturals, Sequences, FiniteSetsExt

CONSTANTS
    Instructions,    \* what a request may hold besides contents: system instruction, tools
    CacheIntervals,  \* cache_intervals of the ContextCacheConfig
    MaxContents,     \* contents ever made (bound)
    MaxInvocations,  \* (bound)
    MaxCaches        \* caches ever created (bound)

ASSUME CacheConstants ==
    /\ CacheIntervals \in Nat \ {0}
    /\ {MaxContents, MaxInvocations, MaxCaches} \subseteq Nat

VARIABLES
    contents,  \* what get_contents makes of the session
    made,      \* the number of contents ever made
    inv,       \* the running invocation, or the last one
    begun,     \* the number of invocations begun
    recorded,  \* the metadata in the agent's last event that has any, and its invocation
    pc,        \* "idle", "preprocess", "handle", "renew" or "model"
    request,   \* the LlmRequest: its contents, the rest of it, and the cache it names
    meta,      \* the request's cache_metadata, then the one for the response
    touched,   \* the caches this call has created or dropped
    created,   \* cache name -> what the server was given for it, and whether it is there
    expired,   \* caches whose time is over
    lost,      \* history: caches whose creation or removal no event records
    served     \* history: cache name -> invocations that got an answer with it

vars ==
    <<contents, made, inv, begun, recorded, pc, request, meta, touched, created, expired, lost, served>>

None == 0
NoRequest == [contents |-> <<>>, rest |-> None, cache |-> None]
NoMeta == [known |-> FALSE, cache |-> None, used |-> 0, count |-> 0, inv |-> 0,
           print |-> [rest |-> None, contents |-> <<>>]]
Caches == DOMAIN created
Live == {n \in Caches : created[n].live}

IsUser(c) == c.role = "user"
NewContent(role) == [role |-> role, text |-> made + 1]

---------------------------------------------------------------------------
(* The request.                                                            *)

(* maybe_append_user_content; the appended text is not part of the session.*)
WithUserContent(cs) ==
    IF cs # <<>> /\ IsUser(cs[Len(cs)]) THEN cs ELSE Append(cs, [role |-> "user", text |-> 0])

(* find_count_of_contents_to_cache: all before the last batch of the user. *)
CountToCache(cs) == Max({0} \cup {i \in DOMAIN cs : ~IsUser(cs[i])})

Prefix(cs, n) == SubSeq(cs, 1, IF n <= Len(cs) THEN n ELSE Len(cs))
Suffix(cs, n) == SubSeq(cs, n + 1, Len(cs))

(* Mutation of Fingerprint: instruction and tools are not compared.        *)
FingerprintOfContents(req, n) == [rest |-> None, contents |-> Prefix(req.contents, n)]

(* generate_cache_fingerprint.                                             *)
Fingerprint(req, n) == [rest |-> req.rest, contents |-> Prefix(req.contents, n)]

(* Mutation of FindCacheInfo: uses are not counted.                        *)
FindCacheInfoUncounted == recorded

(* find_cache_info_from_events: another invocation is one use more.        *)
FindCacheInfo ==
    IF recorded.cache # None /\ recorded.inv # inv
    THEN [recorded EXCEPT !.used = @ + 1] ELSE recorded

IsCacheValid ==
    /\ meta.cache # None
    /\ meta.cache \notin expired
    /\ meta.used <= CacheIntervals
    /\ Fingerprint(request, meta.count) = meta.print

FingerprintOnly(n) ==
    [known |-> TRUE, cache |-> None, used |-> 0, count |-> n,
     print |-> Fingerprint(request, n), inv |-> inv]

(* apply_cache_to_request.                                                 *)
Apply(name, n) ==
    request' = [request EXCEPT !.contents = Suffix(@, n), !.cache = name]

---------------------------------------------------------------------------
(* The session.                                                            *)

Init ==
    /\ contents = <<>> /\ made = 0 /\ inv = 0 /\ begun = 0 /\ recorded = NoMeta
    /\ pc = "idle" /\ request = NoRequest
    /\ meta = NoMeta /\ touched = {} /\ created = <<>>
    /\ expired = {} /\ lost = {} /\ served = <<>>

CacheVars == <<recorded, request, meta, touched, created, expired, lost, served>>

(* The user says something, in a new invocation or in one that is resumed. *)
UserMessage ==
    /\ pc = "idle" /\ made < MaxContents
    /\ \E i \in 1 .. begun + 1 : i <= MaxInvocations /\ inv' = i
    /\ begun' = IF inv' > begun THEN inv' ELSE begun
    /\ contents' = Append(contents, NewContent("user")) /\ made' = made + 1
    /\ pc' = "preprocess"
    /\ UNCHANGED CacheVars

(* A rewind cuts the contents at a message of the user.  The events with   *)
(* the metadata stay: preprocess reads it from all of them.                *)
RewindContents ==
    /\ pc = "idle"
    /\ \E i \in DOMAIN contents : IsUser(contents[i]) /\ contents' = Prefix(contents, i - 1)
    /\ UNCHANGED <<made, inv, begun, pc>> /\ UNCHANGED CacheVars

(* A summary takes the place of old contents, after a turn or in it.       *)
Summarise ==
    /\ pc \in {"idle", "preprocess"} /\ made < MaxContents
    /\ \E i \in 1 .. Len(contents) - 1 :
          contents' = <<NewContent("model")>> \o Suffix(contents, i)
    /\ made' = made + 1
    /\ UNCHANGED <<inv, begun, pc>> /\ UNCHANGED CacheVars

(* preprocess and the start of prepare_call: the instruction may depend on *)
(* the state of the session.                                               *)
Preprocess ==
    /\ pc = "preprocess"
    /\ \E rest \in Instructions :
          request' = [contents |-> WithUserContent(contents), rest |-> rest, cache |-> None]
    /\ meta' = FindCacheInfo
    /\ pc' = "handle"
    /\ UNCHANGED <<contents, made, inv, begun, recorded, touched, created, expired, lost, served>>

---------------------------------------------------------------------------
(* handle_context_caching.                                                 *)

SessionVars == <<contents, made, inv, begun, recorded, expired, served>>

FirstCall ==
    /\ pc = "handle" /\ ~meta.known
    /\ meta' = FingerprintOnly(CountToCache(request.contents))
    /\ pc' = "model"
    /\ UNCHANGED SessionVars /\ UNCHANGED <<request, touched, created, lost>>

Reuse ==
    /\ pc = "handle" /\ IsCacheValid
    /\ Apply(meta.cache, meta.count)
    /\ pc' = "model"
    /\ UNCHANGED SessionVars /\ UNCHANGED <<meta, touched, created, lost>>

(* cleanup_cache: the server may refuse, which is ignored.                 *)
CleanUp ==
    /\ pc = "handle" /\ meta.cache # None /\ ~IsCacheValid
    /\ \/ created' = [created EXCEPT ![meta.cache].live = FALSE] /\ lost' = lost
       \/ created' = created /\ lost' = lost \cup {meta.cache}
    /\ touched' = {meta.cache}
    /\ pc' = "renew"
    /\ UNCHANGED SessionVars /\ UNCHANGED <<request, meta>>

Renewing == pc = "renew" \/ (pc = "handle" /\ meta.known /\ meta.cache = None)
SamePrint == Fingerprint(request, meta.count) = meta.print

(* The count of the cache to be created.                                   *)
NextCount ==
    LET current == CountToCache(request.contents)
    IN  IF meta.count > current THEN meta.count ELSE current

(* create_new_cache_with_contents, create_gemini_cache.                    *)
Create ==
    LET name == Len(created) + 1
    IN  /\ Renewing /\ SamePrint /\ name <= MaxCaches
        /\ created' = Append(created, [rest |-> request.rest, live |-> TRUE,
                                       contents |-> Prefix(request.contents, NextCount)])
        /\ touched' = touched \cup {name}
        /\ \/ /\ meta' = [FingerprintOnly(NextCount) EXCEPT !.cache = name, !.used = 1]
              /\ Apply(name, NextCount) /\ lost' = lost
           \/ \* the answer of the server is lost
              /\ meta' = FingerprintOnly(NextCount)
              /\ request' = request /\ lost' = lost \cup {name}
        /\ pc' = "model"
        /\ UNCHANGED SessionVars

(* Too few tokens, or the server refuses.                                  *)
NoCreation ==
    /\ Renewing /\ SamePrint
    /\ meta' = FingerprintOnly(NextCount)
    /\ pc' = "model"
    /\ UNCHANGED SessionVars /\ UNCHANGED <<request, touched, created, lost>>

StartOver ==
    /\ Renewing /\ ~SamePrint
    /\ meta' = FingerprintOnly(CountToCache(request.contents))
    /\ pc' = "model"
    /\ UNCHANGED SessionVars /\ UNCHANGED <<request, touched, created, lost>>

---------------------------------------------------------------------------
(* The model call and what becomes of it.                                  *)

(* generate_content: the server has the cache or refuses.                  *)
Answered == pc = "model" /\ (request.cache = None \/ request.cache \in Live) /\ made < MaxContents

Serves(n) == IF n \in DOMAIN served THEN served[n] ELSE {}
ServedWith(name) ==
    [n \in DOMAIN served \cup ({name} \ {None}) |-> Serves(n) \cup (IF n = name THEN {inv} ELSE {})]

(* The response's event is stored; a call of a tool and its answer follow, *)
(* and the flow's next step, or the turn is over.                          *)
Answer ==
    /\ Answered
    /\ recorded' = [meta EXCEPT !.inv = inv]
    /\ served' = ServedWith(request.cache)
    /\ touched' = {}
    /\ \/ /\ contents' = Append(contents, NewContent("model"))
          /\ made' = made + 1 /\ pc' = "idle"
       \/ /\ made + 2 <= MaxContents
          /\ contents' = contents \o <<NewContent("model"), [role |-> "user", text |-> made + 2]>>
          /\ made' = made + 2 /\ pc' = "preprocess"
    /\ request' = NoRequest /\ meta' = NoMeta
    /\ UNCHANGED <<inv, begun, created, expired, lost>>

(* The response leaves no event with metadata: it was empty, a callback    *)
(* put another in its place, or a tool of the step failed.                 *)
AnswerUnrecorded ==
    /\ Answered
    /\ lost' = lost \cup touched /\ touched' = {}
    /\ \/ contents' = contents /\ made' = made
       \/ contents' = Append(contents, NewContent("model")) /\ made' = made + 1
    /\ pc' = "idle" /\ request' = NoRequest /\ meta' = NoMeta
    /\ UNCHANGED <<inv, begun, recorded, created, expired, served>>

(* The model refuses, the process dies, the caller goes away.              *)
CallFails ==
    /\ pc \in {"handle", "renew", "model"}
    /\ lost' = lost \cup touched /\ touched' = {}
    /\ pc' = "idle" /\ request' = NoRequest /\ meta' = NoMeta
    /\ UNCHANGED SessionVars /\ UNCHANGED created

Expire(n) ==
    /\ n \notin expired
    /\ expired' = expired \cup {n}
    /\ created' = [created EXCEPT ![n].live = FALSE]
    /\ UNCHANGED <<contents, made, inv, begun, recorded, pc, request, meta, touched, lost, served>>

Next ==
    \/ UserMessage \/ RewindContents \/ Summarise \/ Preprocess
    \/ FirstCall \/ Reuse \/ CleanUp \/ Create \/ NoCreation \/ StartOver
    \/ Answer \/ AnswerUnrecorded \/ CallFails
    \/ \E n \in Caches : Expire(n)

Spec == Init /\ [][Next]_vars
=============================================================================
