------------------------------ MODULE Exchange ------------------------------
(***************************************************************************)
(* One HTTP exchange through the filter (src/lib.rs): the client's REST    *)
(* request, the request filter, the upstream agent, the response filter    *)
(* and the client's response.  The conversation store is seen through its  *)
(* two calls only; ConversationStore models what is behind them.           *)
(*                                                                         *)
(* A message is its body, the body its content-length was computed for     *)
(* (NoLength without the header) and its content-type; a response has a    *)
(* status, too.                                                            *)
(***************************************************************************)
EXTENDS A2AMessages, PolicyConfig, TLC

CONSTANTS
  RawConfigs,  \* configurations an operator writes
  Requests,    \* what the selectors of a request evaluate to
  Cached,      \* continuations get_continuation may answer
  Replies,     \* what the agent may have to say
  Statuses,    \* HTTP statuses of its answers
  I64Min,      \* i64::MIN
  I64Max       \* i64::MAX

(* A group, and what is optional in it, is given once or not at all. *)
ASSUME RawConfigsAssumption ==
  \A c \in RawConfigs :
    /\ \A g \in c.cacheConfig :
         /\ \A s, t \in g.conversationTtlSeconds : s \in Int /\ s = t
         /\ g.distributed \in {{}, {TRUE}, {FALSE}}
    /\ \A g, h \in c.cacheConfig : g = h
    /\ \A g, h \in c.explicitConfig : g = h
    /\ \A g \in c.a2aConfiguration : IsTree(g.acceptedOutputModes)

ASSUME I64Assumption ==
  /\ I64Min \in Int /\ I64Max \in Int /\ I64Min <= I64Max
  /\ ToString(I64Min) # ToString(I64Max)

VARIABLES
  phase,     \* how far the exchange is
  raw,       \* the operator's configuration
  config,    \* the PolicyConfig in use
  client,    \* the REST request
  prompt,    \* the prompt found
  context,   \* the RequestContinuation
  request,   \* the request message as it stands
  said,      \* what the agent answered with
  upstream,  \* the response message as it came from the upstream
  response,  \* the response message as it stands
  recorded,  \* arguments of the call to record_outcome
  warnings   \* what has been logged about the conversation

vars == <<phase, raw, config, client, prompt, context, request, said, upstream, response,
          recorded, warnings>>

NoLength   == Scalar("no content-length")
NoKey      == <<>>
NoContext  == [continuation |-> NoContinuation, key |-> NoKey]
NoRecord   == [key |-> NoKey, class |-> "Unknown", continuation |-> NoContinuation]
NoMessage  == [body |-> Absent, length |-> NoLength, type |-> None]
NoResponse == [body |-> Absent, length |-> NoLength, type |-> None, status |-> 0]
Nothing    == [kind |-> "none"]
Json       == "application/json"

(* Media types with `text/event-stream` in them. *)
EventStreams == {"text/event-stream", "text/event-stream; charset=utf-8"}

RestBody == Object([question |-> Scalar("rest")])
Error(m) == Object([error |-> Object([message |-> Scalar(m), source |-> Scalar("rest-to-a2a")])])

-----------------------------------------------------------------------------
(* dataweave.rs.  Of a string value the text is what is left between the   *)
(* white space around it; an evaluation that fails has type "failed".      *)
(* A number is an integer, or one and a half.                              *)

(* Slip of FormatNumber: every number is cast. *)
FormatNumberCast(v) == ToString(Clamp(v.whole, I64Min, I64Max))

(* `n as i64` saturates. *)
FormatNumber(v) ==
  IF v.half THEN ToString(v.whole) \o ".5" ELSE ToString(Clamp(v.whole, I64Min, I64Max))

ValueToString(v) ==
  CASE v.type = "string" -> IF v.text = "" THEN None ELSE v.text
    [] v.type = "number" -> FormatNumber(v)
    [] v.type = "bool"   -> v.text
    [] OTHER             -> None

(* The selector of a group left empty is not evaluated. *)
Evaluated(selector, v) == IF selector = "script" THEN ValueToString(v) ELSE None

-----------------------------------------------------------------------------
(* configure *)

Configure ==
  /\ phase = "configuring"
  /\ IF Accepted(raw)
     THEN phase' = "waiting" /\ config' = <<FromGenerated(raw)>>
     ELSE phase' = "refused" /\ UNCHANGED config
  /\ UNCHANGED <<raw, client, prompt, context, request, said, upstream, response, recorded,
                 warnings>>

Cfg == config[1]

-----------------------------------------------------------------------------
(* request_filter *)

RequestHeaders ==
  /\ phase = "waiting"
  /\ \E c \in Requests :
       /\ client' = c
       /\ request' = [body |-> RestBody, length |-> NoLength, type |-> Json]
  /\ phase' = "prompt"
  /\ UNCHANGED <<raw, config, prompt, context, said, upstream, response, recorded, warnings>>

(* Flow::Break: the response is the filter's own; its response filter      *)
(* returns at once.                                                        *)
Reject(message) ==
  /\ phase' = "rejected"
  /\ response' = [body |-> Error(message), length |-> NoLength, type |-> Json,
                  status |-> Cfg.requestErrorStatus]

EvaluatePrompt ==
  LET p == ValueToString(client.prompt) IN
  /\ phase = "prompt"
  /\ \/ /\ p = None
        /\ Reject("missing or invalid prompt")
        /\ UNCHANGED prompt
     \/ /\ p # None
        /\ prompt' = p
        /\ phase' = "resolve"
        /\ UNCHANGED response
  /\ UNCHANGED <<raw, config, client, context, request, said, upstream, recorded, warnings>>

(* CacheKey::from_hashed: the hash tells any two values apart. *)
FromHashed(text) == IF text = None THEN NoKey ELSE <<"rest-to-a2a", text>>

(* Slip of Resolve: explicit ids are also taken in cache mode. *)
ResolveAnyMode ==
  LET key == FromHashed(Evaluated(Cfg.contextKeySelector, client.key)) IN
  /\ phase = "resolve"
  /\ context' = [continuation |-> [taskId    |-> Evaluated(Cfg.taskIdSelector, client.task),
                                   contextId |-> Evaluated(Cfg.contextIdSelector, client.context)],
                 key          |-> key]
  /\ phase' = "frame"
  /\ UNCHANGED <<raw, config, client, prompt, request, said, upstream, response, recorded,
                 warnings>>

(* resolve_cache, resolve_explicit and the default of mode none. *)
Resolve ==
  LET key == FromHashed(Evaluated(Cfg.contextKeySelector, client.key)) IN
  /\ phase = "resolve"
  /\ \/ /\ Cfg.mode = "Cache" /\ key # NoKey
        /\ \E c \in Cached : context' = [continuation |-> c, key |-> key]
     \/ /\ Cfg.mode = "Cache" => key = NoKey
        /\ Cfg.mode # "Explicit"
        /\ context' = NoContext
     \/ /\ Cfg.mode = "Explicit"
        /\ context' = [continuation |->
                         [taskId    |-> Evaluated(Cfg.taskIdSelector, client.task),
                          contextId |-> Evaluated(Cfg.contextIdSelector, client.context)],
                       key |-> NoKey]
  /\ phase' = "frame"
  /\ UNCHANGED <<raw, config, client, prompt, request, said, upstream, response, recorded,
                 warnings>>

Metadata == IF Cfg.metadataSelector = "script" THEN client.metadata ELSE Absent

Framed ==
  FrameRequest(Cfg.binding, "id",
    BuildSendMessage(prompt, "id", context.continuation, Cfg.sendConfiguration, Metadata))

(* Slip of Frame: a body that cannot be set is only logged, as a response's is. *)
FrameFailingOpen ==
  /\ phase = "frame"
  /\ phase' = "upstream"
  /\ request' \in {request, [request EXCEPT !.body = Framed]}
  /\ UNCHANGED <<raw, config, client, prompt, context, said, upstream, response, recorded,
                 warnings>>

(* set_body may fail. *)
Frame ==
  /\ phase = "frame"
  /\ \/ /\ request' = [request EXCEPT !.body = Framed]
        /\ phase' = "upstream"
        /\ UNCHANGED response
     \/ /\ Reject("failed to build A2A request")
        /\ UNCHANGED request
  /\ UNCHANGED <<raw, config, client, prompt, context, said, upstream, recorded, warnings>>

-----------------------------------------------------------------------------
(* The agent: what it says is encoded by the rules of the binding.  It may *)
(* also stream, or something in front of it answers with another medium.   *)

TaskOf(reply) ==
  Object([id        |-> Scalar(reply.ids.taskId),
          contextId |-> Scalar(reply.ids.contextId),
          status    |-> Object([state |-> Scalar(reply.state)])])

IdsOf(reply) ==
  Object([taskId |-> Opt(reply.ids.taskId), contextId |-> Opt(reply.ids.contextId)])

ResultOf(reply) ==
  CASE reply.kind = "task"     -> Object([task |-> TaskOf(reply)])
    [] reply.kind = "bareTask" -> TaskOf(reply)
    [] reply.kind = "message"  -> Object([message |-> IdsOf(reply)])
    [] reply.kind = "error"    -> Object([error |-> Scalar("status")])

Encode(reply) ==
  IF Cfg.binding = "HttpJson" \/ reply.kind = "error" THEN ResultOf(reply)
  ELSE Object([jsonrpc |-> Scalar("2.0"), id |-> Scalar("id"), result |-> ResultOf(reply)])

BodyOf(reply) == IF reply.kind = "page" THEN NotJson ELSE Encode(reply)

TypesOf(reply) ==
  CASE reply.kind = "page" -> {"text/html"}
    [] reply.stream        -> EventStreams
    [] OTHER               -> {Json}

Agent ==
  /\ phase = "upstream"
  /\ \E reply \in Replies, counted \in BOOLEAN, status \in Statuses :
     \E type \in TypesOf(reply) :
       LET body == BodyOf(reply)
       IN /\ said' = reply
          /\ upstream' = [body |-> body, length |-> IF counted THEN body ELSE NoLength,
                          type |-> type, status |-> status]
  /\ response' = upstream'
  /\ phase' = "responseHeaders"
  /\ UNCHANGED <<raw, config, client, prompt, context, request, recorded, warnings>>

-----------------------------------------------------------------------------
(* response_filter *)

UsesRaw == Cfg.responseType = "Raw"

(* Slip of ResponseHeaders: the length is dropped only where fields are built. *)
ResponseHeadersOfFields ==
  /\ phase = "responseHeaders"
  /\ phase' = IF response.type \in EventStreams THEN "delivered" ELSE "persist"
  /\ response' = IF response.type \notin EventStreams /\ Cfg.responseType = "Fields"
                 THEN [response EXCEPT !.length = NoLength, !.type = Json] ELSE response
  /\ UNCHANGED <<raw, config, client, prompt, context, request, said, upstream, recorded,
                 warnings>>

(* Slip of ResponseHeaders: the headers are rewritten before the stream is seen. *)
ResponseHeadersFirst ==
  /\ phase = "responseHeaders"
  /\ phase' = IF response.type \in EventStreams THEN "delivered" ELSE "persist"
  /\ response' = IF ~UsesRaw THEN [response EXCEPT !.length = NoLength, !.type = Json]
                 ELSE response
  /\ UNCHANGED <<raw, config, client, prompt, context, request, said, upstream, recorded,
                 warnings>>

(* A stream passes; else the headers are fixed while they can be. *)
ResponseHeaders ==
  /\ phase = "responseHeaders"
  /\ \/ /\ response.type \in EventStreams
        /\ phase' = "delivered"
        /\ UNCHANGED response
     \/ /\ response.type \notin EventStreams
        /\ phase' = "persist"
        /\ response' = IF UsesRaw THEN response
                       ELSE [response EXCEPT !.length = NoLength, !.type = Json]
  /\ UNCHANGED <<raw, config, client, prompt, context, request, said, upstream, recorded,
                 warnings>>

Result == ParseResponse(Cfg.binding, response.body).result

(* Slip of IsUnresumableContinuable: cache mode counts as resumable, key or not. *)
IsUnresumableByMode(class) ==
  class = "Continuable" /\ ~UsesCache(Cfg) /\ context.continuation = NoContinuation

(* continuation.rs: is_unresumable_continuable. *)
IsUnresumableContinuable(class) ==
  class = "Continuable" /\ context.key = NoKey /\ context.continuation = NoContinuation

(* record_outcome may fail, which is logged. *)
Persist ==
  LET parsed == ParseResult(Result)
      class  == Class(parsed)
      failed == {{}} \cup IF context.key = NoKey \/ class = "Unknown" THEN {}
                          ELSE {{"persist failed"}}
  IN
  /\ phase = "persist"
  /\ \/ /\ Result # Absent
        /\ recorded' = IF UsesCache(Cfg) /\ context.key # NoKey
                       THEN [key |-> context.key, class |-> class,
                             continuation |-> ContinuationOf(parsed)]
                       ELSE NoRecord
        /\ \E f \in failed :
             warnings' = f \cup IF IsUnresumableContinuable(class) THEN {"unresumable"} ELSE {}
     \/ /\ Result = Absent
        /\ UNCHANGED <<recorded, warnings>>
  /\ phase' = IF UsesRaw THEN "delivered" ELSE "shape"
  /\ UNCHANGED <<raw, config, client, prompt, context, request, said, upstream, response>>

(* What the shaping runs against: the result, or the body as it came. *)
Payload == IF Result # Absent THEN Result ELSE response.body

(* What the two shapings build is not at stake here: an object each.  Without *)
(* a mapping, when it fails and when set_body fails, the body stays.         *)
Shape ==
  LET fields == Object([fields |-> IF Payload = NotJson THEN Null ELSE Payload])
      mapped == Object([mapped |-> Payload])
  IN
  /\ phase = "shape"
  /\ \/ /\ Cfg.responseType = "Fields"
        /\ response' = [response EXCEPT !.body = fields]
     \/ /\ Cfg.responseType = "Mapping" /\ Cfg.responseMapping = "script"
        /\ response' = [response EXCEPT !.body = mapped]
     \/ UNCHANGED response
  /\ phase' = "delivered"
  /\ UNCHANGED <<raw, config, client, prompt, context, request, said, upstream, recorded,
                 warnings>>

-----------------------------------------------------------------------------
(* What a client wrote, as text; a number in decimal. *)
Written(v) ==
  CASE v.type = "number" /\ v.half  -> ToString(v.whole) \o ".5"
    [] v.type = "number" /\ ~v.half -> ToString(v.whole)
    [] v.type # "number"            -> v.text

(* The model tells a JSON value that is no text, and an Option without a   *)
(* value, by a mark; no text is spelled like one, in no decimal either.    *)
IsText(t) == t \notin NotStrings \cup {None}

IsValue(v) ==
  /\ v.type = "string" => IsText(v.text)
  /\ v.type = "bool"   => v.text \in {"true", "false"}
  /\ v.type = "number" => /\ v.whole \in Int /\ v.half \in BOOLEAN
                         /\ \A t \in {Written(v), FormatNumber(v)} : IsText(t) /\ t # ""

ASSUME RequestsAssumption ==
  \A c \in Requests :
    IsTree(c.metadata) /\ \A v \in {c.prompt, c.key, c.task, c.context} : IsValue(v)

ASSUME CachedAssumption ==
  \A c \in Cached : /\ c = [taskId |-> c.taskId, contextId |-> c.contextId]
                    /\ c.taskId \notin NotStrings /\ c.contextId \notin NotStrings

(* a2a.rs:122-141, spec.md:35-38: the states of a task that is alive and   *)
(* those of one that is done, canonical and legacy.                        *)
Alive ==
  {"TASK_STATE_SUBMITTED", "TASK_STATE_WORKING", "TASK_STATE_INPUT_REQUIRED",
   "TASK_STATE_AUTH_REQUIRED", "submitted", "working", "input-required", "auth-required"}

Done ==
  {"TASK_STATE_COMPLETED", "TASK_STATE_FAILED", "TASK_STATE_CANCELED", "TASK_STATE_REJECTED",
   "completed", "failed", "canceled", "cancelled", "rejected"}

(* A task has a state and two ids; a message has no state, and the ids it  *)
(* likes.  An agent means by a state what the protocol does.               *)
ASSUME RepliesAssumption ==
  \A r \in Replies :
    /\ r.kind \in {"task", "bareTask"} =>
         /\ IsText(r.state) /\ IsText(r.ids.taskId) /\ IsText(r.ids.contextId)
         /\ r.meaning = CASE r.state \in Alive -> "Continuable"
                          [] r.state \in Done  -> "Terminal"
                          [] OTHER             -> "Unknown"
    /\ r.kind = "message" =>
         /\ r.ids.taskId \notin NotStrings /\ r.ids.contextId \notin NotStrings
         /\ r.meaning = "Terminal"
    /\ r.kind \in {"task", "bareTask", "message"} =>
         r.ids = [taskId |-> r.ids.taskId, contextId |-> r.ids.contextId]

-----------------------------------------------------------------------------
NoValue   == [type |-> "null", text |-> ""]
NoRequest == [prompt |-> NoValue, key |-> NoValue, task |-> NoValue, context |-> NoValue,
              metadata |-> Absent]

Init ==
  /\ phase = "configuring"
  /\ raw \in RawConfigs
  /\ config = <<>>
  /\ client = NoRequest
  /\ prompt = None
  /\ context = NoContext
  /\ request = NoMessage
  /\ said = Nothing
  /\ upstream = NoResponse
  /\ response = NoResponse
  /\ recorded = NoRecord
  /\ warnings = {}

Next ==
  \/ Configure
  \/ RequestHeaders \/ EvaluatePrompt \/ Resolve \/ Frame
  \/ Agent
  \/ ResponseHeaders \/ Persist \/ Shape

Spec == Init /\ [][Next]_vars

-----------------------------------------------------------------------------
(* Properties *)

Named(v) == v.type \in {"string", "number", "bool"} /\ Written(v) # ""

(* An integer beyond i64 is taken for the end of i64 it is beyond. *)
Beyond(v) == v.type = "number" /\ ~v.half /\ v.whole \notin I64Min..I64Max

(* A text the agent reads is the one the client wrote. *)
Conveys(text, v) ==
  IF Named(v) THEN text = Written(v) \/ (Beyond(v) /\ text # None) ELSE text = None

(* What an agent reads in a request of its binding. *)
MessageRead ==
  ValueAt(IF Cfg.binding = "HttpJson" THEN request.body ELSE ValueAt(request.body, <<"params">>),
          <<"message">>)

(* lib.rs:218-233, 290-300 (fail-closed): what reaches the upstream is a    *)
(* SendMessage with the caller's prompt, in JSON, without the length of the *)
(* REST body; a REST body never does.                                       *)
ForwardsOnlyMessages ==
  phase = "upstream" =>
    /\ Named(client.prompt)
    /\ Conveys(StringAt(MessageRead, <<"parts", "[0]", "text">>), client.prompt)
    /\ request.length = NoLength
    /\ request.type = Json

(* continuation.rs:12-22: the modes are exclusive.  The agent reads the ids *)
(* of the client in explicit mode, by the selectors there are, those of the *)
(* cache in cache mode with a key, no ids otherwise.                        *)
IdsFollowTheMode ==
  phase = "upstream" =>
    LET ids == [taskId    |-> StringAt(MessageRead, <<"taskId">>),
                contextId |-> StringAt(MessageRead, <<"contextId">>)]
        Follows(id, selector, v) == IF selector = "script" THEN Conveys(id, v) ELSE id = None
    IN CASE Cfg.mode = "Cache" /\ context.key # NoKey -> ids \in Cached
         [] Cfg.mode = "Explicit" /\ raw.explicitConfig # {} ->
              \E g \in raw.explicitConfig :
                /\ Follows(ids.taskId, g.taskIdSelector, client.task)
                /\ Follows(ids.contextId, g.contextIdSelector, client.context)
         [] OTHER -> ids = NoContinuation

(* cache.rs:46-50, dataweave.rs:12-21: two requests share a cache entry if  *)
(* and only if their clients named the same conversation, be it as a text  *)
(* or as a number.  Of the integers beyond i64 all those above are one     *)
(* conversation, and all those below.                                      *)
KeysTellConversationsApart ==
  context.key # NoKey =>
    /\ Named(client.key)
    /\ \A c \in Requests : Named(c.key) =>
         LET shared == FromHashed(ValueToString(c.key)) = context.key IN
         /\ ~Beyond(c.key) /\ ~Beyond(client.key) =>
              (shared <=> Written(c.key) = Written(client.key))
         /\ Beyond(c.key) /\ Beyond(client.key) =>
              (shared <=> (c.key.whole > I64Max <=> client.key.whole > I64Max))

(* config.rs:59-61, config_map.rs:142-144: whatever the store is told to    *)
(* keep, it keeps for as long as the operator said, or for the hour of the *)
(* schema, on the backend the operator said.                               *)
EntriesLiveAsConfigured ==
  recorded # NoRecord =>
    \E g \in raw.cacheConfig :
      /\ Cfg.ttl \in MinTtl..MaxTtl
      /\ g.conversationTtlSeconds = {} => Cfg.ttl = SchemaTtl
      /\ \A s \in g.conversationTtlSeconds : s \in MinTtl..MaxTtl => Cfg.ttl = s
      /\ Cfg.distributed <=> g.distributed = {TRUE}

(* lib.rs:356-361: a content-length that reaches the caller counts the body *)
(* that reaches the caller.                                                 *)
LengthIsTrue ==
  phase \in {"delivered", "rejected"} /\ response.length # NoLength =>
    response.length = response.body

(* lib.rs:323-332, 422-429: a raw response and a stream come back as the    *)
(* upstream sent them, headers included.                                    *)
PassthroughUntouched ==
  phase = "delivered" /\ (UsesRaw \/ upstream.type \in EventStreams) => response = upstream

(* spec.md:35-38: the store is told what the agent meant, for the task the  *)
(* agent named, in the bare form of a task as in the wrapped one.           *)
RecordsWhatAgentMeant ==
  phase = "delivered" /\ recorded # NoRecord /\ said.kind \in {"task", "bareTask", "message"} =>
    /\ recorded.class = said.meaning
    /\ said.meaning = "Continuable" => recorded.continuation = said.ids

(* README.md:118: "A continuable upstream reply that cannot be resumed (no  *)
(* cache key and no explicit ids) is still returned, with a warning logged."*)
(* There is a cache key where the mode's group has a selector for it and    *)
(* the client a value; so for the ids.  The warning comes then and only     *)
(* then.  It says nothing of a reply that has a key and is not kept by the  *)
(* store: what the store does with it is Turns' matter.                     *)
CanResume ==
  LET Given(selector, v) == selector = "script" /\ Named(v)
  IN CASE Cfg.mode = "Cache" ->
            \E g \in raw.cacheConfig : Given(g.contextKeySelector, client.key)
       [] Cfg.mode = "Explicit" ->
            \E g \in raw.explicitConfig :
              Given(g.taskIdSelector, client.task) \/ Given(g.contextIdSelector, client.context)
       [] OTHER -> FALSE

UnresumableIsReported ==
  /\ phase = "delivered"
  /\ upstream.type \notin EventStreams
  /\ said.kind \in {"task", "bareTask"} /\ said.meaning = "Continuable"
  => ("unresumable" \in warnings <=> ~CanResume)

=============================================================================
