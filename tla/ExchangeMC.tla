----------------------------- MODULE ExchangeMC -----------------------------
(* A small instance of Exchange for TLC.                                    *)
EXTENDS Exchange

AStep == STRING

Text(t)         == [type |-> "string", text |-> t]
Number(n, half) == [type |-> "number", whole |-> n, half |-> half]
Failed          == [type |-> "failed", text |-> "x"]
Ids(t, c)       == [taskId |-> t, contextId |-> c]

CacheOf(selector, ttl, distributed) ==
  {[contextKeySelector |-> selector, distributed |-> distributed, conversationTtlSeconds |-> ttl]}

ExplicitOf(selector) == {[taskIdSelector |-> selector, contextIdSelector |-> selector]}
MappingOfA(selector) == {[responseMapping |-> selector]}

(* Nothing but the selector of the prompt. *)
Bare ==
  [upstreamBinding |-> {}, promptSelector |-> "script", continuationMode |-> {},
   cacheConfig |-> {}, explicitConfig |-> {}, responseType |-> {}, mappingConfig |-> {},
   a2aConfiguration |-> {}, metadataSelector |-> "none", requestErrorStatus |-> {}]

(* Every binding, mode and response type; the group of the mode, or none,   *)
(* and the groups of the other modes besides.                              *)
ARawConfigs ==
  { [Bare EXCEPT !.upstreamBinding = {b}, !.continuationMode = {m}, !.responseType = {r},
                 !.cacheConfig = c, !.explicitConfig = e, !.mappingConfig = MappingOfA("script"),
                 !.metadataSelector = "script", !.requestErrorStatus = {422}] :
      b \in {"jsonrpc", "http+json"}, m \in {"cache", "explicit", "none"},
      r \in {"raw", "mapping", "fields"},
      c \in {{}, CacheOf("script", {}, {}), CacheOf("none", {90000}, {TRUE})},
      e \in {{}, ExplicitOf("script")} }
  \cup
  { Bare,
    [Bare EXCEPT !.upstreamBinding = {"grpc"}],
    [Bare EXCEPT !.promptSelector = "none"],
    [Bare EXCEPT !.cacheConfig = CacheOf("broken", {}, {})],
    [Bare EXCEPT !.continuationMode = {"cache"}, !.cacheConfig = CacheOf("script", {30}, {TRUE}),
                 !.requestErrorStatus = {200}],
    [Bare EXCEPT !.responseType = {"mapping"}, !.mappingConfig = MappingOfA("none"),
                 !.a2aConfiguration = {[acceptedOutputModes |-> Absent, blocking |-> {}]}],
    [Bare EXCEPT !.upstreamBinding = {"http_json"},
                 !.a2aConfiguration = {[acceptedOutputModes |-> Singleton(Scalar("text")),
                                        blocking |-> {FALSE}]}] }

(* Conversations named by texts and by numbers, one of them beyond i64.     *)
AKeys == {Text("7"), Text(""), Number(7, FALSE), Number(7, TRUE), Number(9, FALSE), Failed}

ARequests ==
  [prompt : {Text("hello")}, key : AKeys, task : {Failed}, context : {Text("c9")},
   metadata : {Absent}]
  \cup
  [prompt : {Text("hello"), Text(""), Failed}, key : {Number(10, FALSE)},
   task : {Text("t9"), Failed}, context : {Text("c9"), Failed},
   metadata : {EmptyObject, Object([tier |-> Scalar("gold")])}]
  \cup
  {[prompt |-> Number(7, TRUE), key |-> Number(-12, FALSE), task |-> Number(9, FALSE),
    context |-> Number(7, FALSE), metadata |-> Absent]}

ACached == {NoContinuation, Ids("t1", "c1")}

Reply(kind, state, meaning, ids) ==
  [kind |-> kind, state |-> state, meaning |-> meaning, ids |-> ids, stream |-> FALSE]

AReplies ==
  { Reply("task", "TASK_STATE_INPUT_REQUIRED", "Continuable", Ids("t2", "c2")),
    Reply("bareTask", "working", "Continuable", Ids("t2", "c2")),
    Reply("task", "TASK_STATE_CANCELED", "Terminal", Ids("t2", "c2")),
    Reply("task", "TASK_STATE_UNSPECIFIED", "Unknown", Ids("t2", "c2")),
    Reply("message", "none", "Terminal", Ids(None, "c2")),
    Reply("error", "none", "Unknown", NoContinuation),
    Reply("page", "none", "Unknown", NoContinuation),
    [Reply("task", "TASK_STATE_WORKING", "Continuable", Ids("t2", "c2")) EXCEPT !.stream = TRUE] }

AStatuses == {200, 503}

(* i64 is narrowed. *)
AI64Min == -9
=============================================================================
