---------------------------- MODULE A2AMessages ----------------------------
(***************************************************************************)
(* The A2A v1.0 messages the policy writes and reads (src/a2a.rs) and      *)
(* their framing for the two upstream bindings (src/binding.rs,            *)
(* src/jsonrpc.rs).  Bodies are JSON trees; a body that is not JSON is     *)
(* NotJson.  None is an Option without a value.                            *)
(***************************************************************************)
EXTENDS JsonTree

(* The members the policy writes or looks for are members objects can have. *)
ASSUME MembersAssumption ==
  {"jsonrpc", "id", "method", "params", "result", "error",
   "message", "configuration", "acceptedOutputModes", "returnImmediately",
   "messageId", "role", "parts", "text", "metadata",
   "task", "taskId", "contextId", "status", "state"} \subseteq Step

None == "None"

NoContinuation == [taskId |-> None, contextId |-> None]

NotJson == Scalar("not JSON")

Opt(s) == IF s = None THEN Absent ELSE Scalar(s)

-----------------------------------------------------------------------------
(* Requests *)

(* Metadata is attached only when it is a non-empty object. *)
MetadataMember(metadata) ==
  IF IsObject(metadata) /\ metadata # EmptyObject THEN metadata ELSE Absent

(* The configuration is an option: a set with at most one member. *)
ConfigurationMember(configuration) ==
  IF configuration = {} THEN Absent
  ELSE LET cfg == CHOOSE c \in configuration : TRUE IN
       Object([acceptedOutputModes |-> cfg.acceptedOutputModes,
               returnImmediately   |-> Scalar(IF cfg.blocking THEN "false" ELSE "true")])

BuildSendMessage(prompt, id, continuation, configuration, metadata) ==
  Object([message |-> Object([
            messageId |-> Scalar(id),
            role      |-> Scalar("ROLE_USER"),
            parts     |-> Singleton(Object([text |-> Scalar(prompt)])),
            taskId    |-> Opt(continuation.taskId),
            contextId |-> Opt(continuation.contextId),
            metadata  |-> MetadataMember(metadata)]),
          configuration |-> ConfigurationMember(configuration)])

BuildRequest(id, method, params) ==
  Object([jsonrpc |-> Scalar("2.0"), id |-> Scalar(id), method |-> Scalar(method),
          params |-> params])

FrameRequest(binding, id, params) ==
  IF binding = "HttpJson" THEN params ELSE BuildRequest(id, "SendMessage", params)

-----------------------------------------------------------------------------
(* Responses *)

(* ResponseEnvelope::parse. *)
Envelope(body) ==
  [result |-> ValueAt(body, <<"result">>), error |-> ValueAt(body, <<"error">>)]

(* UpstreamBinding::parse_response: the result and the error of a body. *)
ParseResponse(binding, body) ==
  CASE body = NotJson -> [result |-> Absent, error |-> Absent]
    [] binding = "JsonRpc"  /\ body # NotJson -> Envelope(body)
    [] binding = "HttpJson" /\ body # NotJson ->
         [result |-> body, error |-> ValueAt(body, <<"error">>)]

(* Value::get, then as_str. *)
NotStrings == {"object", "array", "null", "absent"}
StringAt(t, p) == IF p \in DOMAIN t /\ t[p] \notin NotStrings THEN t[p] ELSE None

(* Slip of ParseResult: a task without the wrapper is not recognised. *)
ParseResultWrapped(result) ==
  LET task == ValueAt(result, <<"task">>) IN
  [state     |-> StringAt(task, <<"status", "state">>),
   taskId    |-> StringAt(task, <<"id">>),
   contextId |-> StringAt(task, <<"contextId">>)]

(* The task, wrapped or bare; else the message, without a state. *)
ParseResult(result) ==
  LET has(k) == <<k>> \in DOMAIN result
      task   == IF has("task") THEN ValueAt(result, <<"task">>) ELSE result
      reply  == ValueAt(result, <<"message">>)
  IN  IF has("task") \/ has("status")
      THEN [state     |-> StringAt(task, <<"status", "state">>),
            taskId    |-> StringAt(task, <<"id">>),
            contextId |-> StringAt(task, <<"contextId">>)]
      ELSE [state     |-> None,
            taskId    |-> StringAt(reply, <<"taskId">>),
            contextId |-> StringAt(reply, <<"contextId">>)]

ContinuableStates ==
  {"TASK_STATE_SUBMITTED", "TASK_STATE_WORKING", "TASK_STATE_INPUT_REQUIRED",
   "TASK_STATE_AUTH_REQUIRED", "submitted", "working", "input-required", "auth-required"}

TerminalStates ==
  {"TASK_STATE_COMPLETED", "TASK_STATE_FAILED", "TASK_STATE_CANCELED", "TASK_STATE_REJECTED",
   "completed", "failed", "canceled", "cancelled", "rejected"}

ClassifyState(s) ==
  CASE s \in ContinuableStates -> "Continuable"
    [] s \in TerminalStates    -> "Terminal"
    [] OTHER                   -> "Unknown"

(* ParsedResult::class and ::continuation. *)
Class(parsed) == IF parsed.state = None THEN "Terminal" ELSE ClassifyState(parsed.state)

ContinuationOf(parsed) == [taskId |-> parsed.taskId, contextId |-> parsed.contextId]

=============================================================================
