--------------------------- MODULE ExchangeProofs ---------------------------
(***************************************************************************)
(* What goes to the agent, what comes back to the caller and what is kept  *)
(* of the conversation, for every configuration, request and reply.        *)
(***************************************************************************)
EXTENDS Exchange, JsonTreeProofs

-----------------------------------------------------------------------------
(* The response *)

(* A response keeps its fields.  Until the headers are dealt with it is    *)
(* the upstream's; what comes to be shaped is neither raw nor a stream and *)
(* has lost its length.                                                    *)
IsResponse(r) ==
  r = [body |-> r.body, length |-> r.length, type |-> r.type, status |-> r.status]

ResponseIInv ==
  /\ IsResponse(response)
  /\ response.length # NoLength => response.length = response.body
  /\ phase = "responseHeaders" => response = upstream
  /\ phase = "persist" => /\ upstream.type \notin EventStreams
                          /\ IF UsesRaw THEN response = upstream
                             ELSE response.length = NoLength
  /\ phase = "shape" => ~UsesRaw /\ upstream.type \notin EventStreams /\ response.length = NoLength
  /\ PassthroughUntouched

(* Before the reply arrives none of this is at stake. *)
EarlyPhases == {"configuring", "waiting", "refused", "prompt", "resolve", "frame", "upstream"}

LEMMA EarlyKeeps ==
  ASSUME ResponseIInv, UNCHANGED <<response, upstream>>, phase' \in EarlyPhases
  PROVE  ResponseIInv'
  BY DEF ResponseIInv, EarlyPhases, IsResponse, PassthroughUntouched

LEMMA RejectKeeps ==
  ASSUME ResponseIInv, NEW message, Reject(message)
  PROVE  ResponseIInv'
  BY DEF ResponseIInv, Reject, IsResponse, PassthroughUntouched

LEMMA ResponseInductive == ResponseIInv /\ [Next]_vars => ResponseIInv'
<1> SUFFICES ASSUME ResponseIInv, [Next]_vars PROVE ResponseIInv'
  OBVIOUS
<1>1. CASE Configure \/ RequestHeaders \/ Resolve
  BY <1>1, EarlyKeeps DEF Configure, RequestHeaders, Resolve, EarlyPhases
<1>2. CASE EvaluatePrompt
  BY <1>2, EarlyKeeps, RejectKeeps DEF EvaluatePrompt, EarlyPhases
<1>3. CASE Frame
  BY <1>3, EarlyKeeps, RejectKeeps DEF Frame, EarlyPhases
<1>4. CASE Agent
  BY <1>4 DEF Agent, ResponseIInv, IsResponse, PassthroughUntouched
<1>5. CASE ResponseHeaders
  BY <1>5 DEF ResponseHeaders, ResponseIInv, IsResponse, PassthroughUntouched, UsesRaw, Cfg
<1>6. CASE Persist
  BY <1>6 DEF Persist, ResponseIInv, IsResponse, PassthroughUntouched, UsesRaw, Cfg
<1>7. CASE Shape
  BY <1>7 DEF Shape, ResponseIInv, IsResponse, PassthroughUntouched, UsesRaw, Cfg
<1>8. CASE UNCHANGED vars
  BY <1>8 DEF vars, ResponseIInv, IsResponse, PassthroughUntouched, UsesRaw, Cfg
<1>9. QED
  BY <1>1, <1>2, <1>3, <1>4, <1>5, <1>6, <1>7, <1>8 DEF Next

(* The invariant of the response, phase by phase. *)
THEOREM ResponseInvariant == Spec => []ResponseIInv
<1>1. Init => ResponseIInv
  BY DEF Init, NoResponse, ResponseIInv, IsResponse, PassthroughUntouched
<1>2. QED
  BY <1>1, ResponseInductive, PTL DEF Spec

(* lib.rs:356-361: a content-length that reaches the caller is true. *)
THEOREM LengthsAreTrue == Spec => []LengthIsTrue
<1>1. ResponseIInv => LengthIsTrue
  BY DEF ResponseIInv, LengthIsTrue
<1>2. QED
  BY <1>1, ResponseInvariant, PTL

(* lib.rs:323-332, 422-429: raw responses and streams are left alone. *)
THEOREM PassthroughIsFaithful == Spec => []PassthroughUntouched
<1>1. ResponseIInv => PassthroughUntouched
  BY DEF ResponseIInv
<1>2. QED
  BY <1>1, ResponseInvariant, PTL

-----------------------------------------------------------------------------
(* What the store is told, and for how long *)

(* The configuration in use is the operator's; a cache key comes from the  *)
(* selector of a cacheConfig group, and nothing is recorded without one.   *)
Configured == phase \notin {"configuring", "refused"}

ConfigIInv ==
  /\ raw \in RawConfigs
  /\ Configured => config = <<FromGenerated(raw)>>
  /\ context.key # NoKey => Configured /\ Cfg.contextKeySelector = "script"
  /\ recorded # NoRecord => context.key # NoKey /\ phase \in {"shape", "delivered"}

LEMMA KeyNeedsSelector ==
  ASSUME NEW selector, NEW v, FromHashed(Evaluated(selector, v)) # NoKey
  PROVE  selector = "script"
  BY DEF FromHashed, Evaluated

LEMMA ConfigInductive == ConfigIInv /\ [Next]_vars => ConfigIInv'
<1> SUFFICES ASSUME ConfigIInv, [Next]_vars PROVE ConfigIInv'
  OBVIOUS
<1> USE DEF ConfigIInv, Configured, Cfg
<1>1. CASE Configure
  BY <1>1 DEF Configure
<1>2. CASE RequestHeaders
  BY <1>2 DEF RequestHeaders
<1>3. CASE EvaluatePrompt
  BY <1>3 DEF EvaluatePrompt, Reject
<1>4. CASE Resolve
  <2>1. /\ UNCHANGED <<raw, config, recorded>>
        /\ phase = "resolve" /\ phase' = "frame"
    BY <1>4 DEF Resolve
  <2>2. context'.key # NoKey => Cfg.contextKeySelector = "script"
    BY <1>4, KeyNeedsSelector DEF Resolve, NoContext
  <2>3. recorded = NoRecord
    BY <2>1
  <2>4. QED
    BY <2>1, <2>2, <2>3
<1>5. CASE Frame
  BY <1>5 DEF Frame, Reject
<1>6. CASE Agent
  BY <1>6 DEF Agent
<1>7. CASE ResponseHeaders
  BY <1>7 DEF ResponseHeaders
<1>8. CASE Persist
  BY <1>8 DEF Persist
<1>9. CASE Shape
  BY <1>9 DEF Shape
<1>10. CASE UNCHANGED vars
  BY <1>10 DEF vars
<1>11. QED
  BY <1>1, <1>2, <1>3, <1>4, <1>5, <1>6, <1>7, <1>8, <1>9, <1>10 DEF Next

(* The filters use what the operator wrote; without a key selector nothing *)
(* is recorded.                                                            *)
THEOREM ConfigInvariant == Spec => []ConfigIInv
<1>1. Init => ConfigIInv
  BY DEF Init, ConfigIInv, Configured, NoContext
<1>2. QED
  BY <1>1, ConfigInductive, PTL DEF Spec

(* A selector is there only in a group that is there. *)
LEMMA SelectorComesFromGroup ==
  ASSUME NEW r \in RawConfigs, FromGenerated(r).contextKeySelector = "script"
  PROVE  \E g \in r.cacheConfig :
           /\ FromGenerated(r).ttl = Clamp(Unwrap(g.conversationTtlSeconds, SchemaTtl), MinTtl, MaxTtl)
           /\ FromGenerated(r).distributed = Unwrap(g.distributed, FALSE)
<1> DEFINE groups == {CacheGroup(g) : g \in r.cacheConfig}
           cache  == Unwrap(groups, CacheConfigDefault)
<1>1. FromGenerated(r).contextKeySelector = cache.contextKeySelector
  BY DEF FromGenerated
<1>2. FromGenerated(r).ttl = Clamp(cache.conversationTtlSeconds, MinTtl, MaxTtl)
  BY DEF FromGenerated
<1>3. FromGenerated(r).distributed = cache.distributed
  BY DEF FromGenerated
<1>4. groups # {}
  BY <1>1 DEF Unwrap, CacheConfigDefault
<1>5. cache \in groups
  BY <1>4 DEF Unwrap
<1>6. PICK g \in r.cacheConfig : cache = CacheGroup(g)
  BY <1>5
<1>7. CacheGroup(g).conversationTtlSeconds = Unwrap(g.conversationTtlSeconds, SchemaTtl)
  BY DEF CacheGroup
<1>8. CacheGroup(g).distributed = Unwrap(g.distributed, FALSE)
  BY DEF CacheGroup
<1> HIDE DEF cache, groups
<1>9. QED
  BY <1>2, <1>3, <1>6, <1>7, <1>8

LEMMA ClampBounds ==
  ASSUME NEW v \in Int, NEW low \in Int, NEW high \in Int, low <= high
  PROVE  /\ Clamp(v, low, high) \in low..high
         /\ v \in low..high => Clamp(v, low, high) = v
  BY DEF Clamp

LEMMA TtlBounds == MinTtl \in Int /\ MaxTtl \in Int /\ MinTtl <= MaxTtl /\ SchemaTtl \in MinTtl..MaxTtl
  BY SMT DEF MinTtl, MaxTtl, SchemaTtl

LEMMA TtlIsTheirs ==
  ASSUME NEW seconds, \A s, t \in seconds : s \in Int /\ s = t,
         NEW ttl, ttl = Clamp(Unwrap(seconds, SchemaTtl), MinTtl, MaxTtl)
  PROVE  /\ ttl \in MinTtl..MaxTtl
         /\ seconds = {} => ttl = SchemaTtl
         /\ \A s \in seconds : s \in MinTtl..MaxTtl => ttl = s
<1> DEFINE stated == Unwrap(seconds, SchemaTtl)
<1>1. ASSUME NEW s \in seconds PROVE stated = s /\ s \in Int
  BY <1>1 DEF Unwrap
<1>2. seconds = {} => stated = SchemaTtl
  BY DEF Unwrap
<1>3. ttl = Clamp(stated, MinTtl, MaxTtl)
  OBVIOUS
<1> HIDE DEF stated
<1>4. stated \in Int
  BY <1>1, <1>2, TtlBounds
<1>5. ttl \in MinTtl..MaxTtl /\ (stated \in MinTtl..MaxTtl => ttl = stated)
  BY <1>3, <1>4, TtlBounds, ClampBounds
<1>6. seconds = {} => ttl = SchemaTtl
  BY <1>2, <1>5, TtlBounds
<1>7. ASSUME NEW s \in seconds, s \in MinTtl..MaxTtl PROVE ttl = s
  BY <1>1, <1>5, <1>7
<1>8. QED
  BY <1>5, <1>6, <1>7

(* config.rs:59-61, config_map.rs:142-144: no entry lives by a TTL that    *)
(* neither the operator nor the schema stated.                             *)
THEOREM TtlsAreStated == Spec => []EntriesLiveAsConfigured
<1>1. ASSUME ConfigIInv, recorded # NoRecord
      PROVE  \E g \in raw.cacheConfig :
               /\ Cfg.ttl = Clamp(Unwrap(g.conversationTtlSeconds, SchemaTtl), MinTtl, MaxTtl)
               /\ Cfg.distributed = Unwrap(g.distributed, FALSE)
  <2>1. Cfg.contextKeySelector = "script" /\ config = <<FromGenerated(raw)>> /\ raw \in RawConfigs
    BY <1>1 DEF ConfigIInv
  <2>2. Cfg = FromGenerated(raw)
    BY <2>1 DEF Cfg
  <2>3. QED
    BY <2>1, <2>2, SelectorComesFromGroup
<1>2. ASSUME NEW d \in {{}, {TRUE}, {FALSE}}
      PROVE  Unwrap(d, FALSE) <=> d = {TRUE}
  BY <1>2 DEF Unwrap
<1>3. ASSUME ConfigIInv, recorded # NoRecord PROVE EntriesLiveAsConfigured
  <2>1. PICK g \in raw.cacheConfig :
               /\ Cfg.ttl = Clamp(Unwrap(g.conversationTtlSeconds, SchemaTtl), MinTtl, MaxTtl)
               /\ Cfg.distributed = Unwrap(g.distributed, FALSE)
    BY <1>1, <1>3
  <2>2. /\ \A s, t \in g.conversationTtlSeconds : s \in Int /\ s = t
        /\ g.distributed \in {{}, {TRUE}, {FALSE}}
    BY <1>3, RawConfigsAssumption DEF ConfigIInv
  <2>3. Cfg.distributed <=> g.distributed = {TRUE}
    BY <1>2, <2>1, <2>2
  <2>4. /\ Cfg.ttl \in MinTtl..MaxTtl
        /\ g.conversationTtlSeconds = {} => Cfg.ttl = SchemaTtl
        /\ \A s \in g.conversationTtlSeconds : s \in MinTtl..MaxTtl => Cfg.ttl = s
    BY <2>1, <2>2, TtlIsTheirs
  <2>5. QED
    BY <2>3, <2>4 DEF EntriesLiveAsConfigured
<1>4. ConfigIInv => EntriesLiveAsConfigured
  <2>1. recorded = NoRecord => EntriesLiveAsConfigured
    BY DEF EntriesLiveAsConfigured
  <2>2. QED
    BY <1>3, <2>1
<1>5. QED
  BY <1>4, ConfigInvariant, PTL

-----------------------------------------------------------------------------
(* What is read of a message that has been written *)

LEMMA StepsTogether ==
  /\ \A x \in Step : <<x>> \in Path
  /\ \A x, y \in Step : <<x, y>> \in Path /\ <<x, y>> = <<x>> \o <<y>>
  /\ \A x, y, z \in Step : <<x, y, z>> \in Path /\ <<x, y, z>> = <<x>> \o <<y, z>>
<1>1. \A x \in Step : <<x>> \in Path
  BY DEF Path
<1>2. \A x, y \in Step : <<x, y>> \in Path
  BY DEF Path
<1>3. \A x, y, z \in Step : <<x, y, z>> \in Path
  BY DEF Path
<1>4. ASSUME NEW x \in Step, NEW y \in Step PROVE <<x, y>> = <<x>> \o <<y>>
  <2>1. /\ <<x>> \o <<y>> \in Seq(Step) /\ Len(<<x>> \o <<y>>) = 2
        /\ (<<x>> \o <<y>>)[1] = x /\ (<<x>> \o <<y>>)[2] = y
    BY <1>1, ConcatProperties DEF Path
  <2>2. /\ <<x, y>> \in Seq(Step) /\ Len(<<x, y>>) = 2
        /\ <<x, y>>[1] = x /\ <<x, y>>[2] = y
    OBVIOUS
  <2>3. \A i \in 1..2 : i = 1 \/ i = 2
    OBVIOUS
  <2>4. \A i \in 1..2 : <<x, y>>[i] = (<<x>> \o <<y>>)[i]
    BY <2>1, <2>2, <2>3
  <2>5. QED
    BY <2>1, <2>2, <2>4, SeqEqual, Zenon
<1>5. \A x, y, z \in Step : <<x, y, z>> = <<x>> \o <<y, z>>
  BY DEF Path
<1>6. QED
  BY <1>1, <1>2, <1>3, <1>4, <1>5

LEMMA StringAtRoot ==
  ASSUME NEW s, s \notin NotStrings
  PROVE  Scalar(s) # Absent /\ Scalar(s)[<<>>] = s
  BY ScalarTree DEF Absent, NotStrings

LEMMA StringAtBelow ==
  ASSUME NEW t, IsTree(t), NEW p \in DOMAIN t, NEW q \in Path
  PROVE  StringAt(ValueAt(t, p), q) = StringAt(t, p \o q)
  BY SubtreeTree DEF StringAt, ValueAt

(* Value::get, then as_str, of a member that may be missing. *)
LEMMA StringAtMember ==
  ASSUME NEW f, \A k \in DOMAIN f : k \in Step /\ IsTree(f[k]),
         NEW k \in DOMAIN f, NEW s, s \notin NotStrings, f[k] = Opt(s)
  PROVE  StringAt(Object(f), <<k>>) = s
<1> DEFINE t == Object(f)
<1>1. /\ k \in Step /\ IsTree(t)
      /\ <<k>> \in DOMAIN t <=> f[k] # Absent
      /\ ValueAt(t, <<k>>) = f[k]
  BY ObjectMember
<1> HIDE DEF t
<1>2. CASE s = None
  BY <1>1, <1>2 DEF Opt, StringAt, t
<1>3. CASE s # None
  <2>1. f[k] = Scalar(s) /\ f[k] # Absent
    BY <1>3, StringAtRoot DEF Opt
  <2>2. StringAt(ValueAt(t, <<k>>), <<>>) = StringAt(t, <<k>> \o <<>>)
    BY <1>1, <2>1, EmptyPath, StringAtBelow
  <2>3. <<k>> \o <<>> = <<k>>
    BY <1>1, StepsTogether, EmptyPath
  <2>4. StringAt(Scalar(s), <<>>) = s
    BY ScalarTree DEF StringAt
  <2>5. QED
    BY <1>1, <2>1, <2>2, <2>3, <2>4 DEF t
<1>4. QED
  BY <1>2, <1>3

LEMMA ObjectIsNone ==
  ASSUME NEW t, t[<<>>] = "object"
  PROVE  t # Absent /\ t # NotJson
<1>1. Scalar("absent")[<<>>] = "absent" /\ Scalar("not JSON")[<<>>] = "not JSON"
  BY ScalarTree
<1>2. QED
  BY <1>1 DEF Absent, NotJson

-----------------------------------------------------------------------------
(* The reply: what is parsed is what was said *)

LEMMA OptTree ==
  ASSUME NEW s
  PROVE  IsTree(Opt(s))
  BY ScalarTree DEF Opt, Absent

LEMMA TaskParts ==
  ASSUME NEW r, IsText(r.state), IsText(r.ids.taskId), IsText(r.ids.contextId)
  PROVE  /\ IsTree(TaskOf(r)) /\ TaskOf(r)[<<>>] = "object"
         /\ <<"task">> \notin DOMAIN TaskOf(r) /\ <<"status">> \in DOMAIN TaskOf(r)
         /\ StringAt(TaskOf(r), <<"status", "state">>) = r.state
         /\ StringAt(TaskOf(r), <<"id">>) = r.ids.taskId
         /\ StringAt(TaskOf(r), <<"contextId">>) = r.ids.contextId
<1> DEFINE status == [state |-> Scalar(r.state)]
           f == [id |-> Scalar(r.ids.taskId), contextId |-> Scalar(r.ids.contextId),
                 status |-> Object(status)]
<1>1. {"task", "id", "contextId", "status", "state"} \subseteq Step
  BY MembersAssumption
<1>2. /\ DOMAIN status = {"state"}
      /\ status["state"] = Opt(r.state)
  BY DEF IsText, Opt
<1> HIDE DEF status
<1>3. \A k \in DOMAIN status : k \in Step /\ IsTree(status[k])
  BY <1>1, <1>2, OptTree
<1>4. /\ IsTree(Object(status)) /\ Object(status)[<<>>] = "object"
      /\ Object(status) # Absent
      /\ StringAt(Object(status), <<"state">>) = r.state
  BY <1>2, <1>3, ObjectMember, ObjectIsNone, StringAtMember DEF IsText
<1>5. /\ DOMAIN f = {"id", "contextId", "status"}
      /\ f["id"] = Opt(r.ids.taskId) /\ f["contextId"] = Opt(r.ids.contextId)
      /\ f["status"] = Object(status)
  BY DEF IsText, Opt
<1>6. TaskOf(r) = Object(f)
  BY DEF TaskOf, status
<1> HIDE DEF f
<1>7. \A k \in DOMAIN f : k \in Step /\ IsTree(f[k])
  BY <1>1, <1>4, <1>5, OptTree
<1>8. /\ IsTree(Object(f)) /\ Object(f)[<<>>] = "object"
      /\ <<"task">> \notin DOMAIN Object(f)
      /\ <<"status">> \in DOMAIN Object(f)
      /\ ValueAt(Object(f), <<"status">>) = Object(status)
  BY <1>1, <1>4, <1>5, <1>7, ObjectMember
<1>9. /\ StringAt(Object(f), <<"id">>) = r.ids.taskId
      /\ StringAt(Object(f), <<"contextId">>) = r.ids.contextId
  BY <1>5, <1>7, StringAtMember DEF IsText
<1>10. StringAt(Object(f), <<"status", "state">>) = r.state
  <2>1. <<"status", "state">> = <<"status">> \o <<"state">> /\ <<"state">> \in Path
    BY <1>1, StepsTogether
  <2>2. StringAt(ValueAt(Object(f), <<"status">>), <<"state">>)
          = StringAt(Object(f), <<"status">> \o <<"state">>)
    BY <1>8, <2>1, StringAtBelow
  <2>3. QED
    BY <1>4, <1>8, <2>1, <2>2
<1>11. QED
  BY <1>6, <1>8, <1>9, <1>10

LEMMA IdsParts ==
  ASSUME NEW r, r.ids.taskId \notin NotStrings, r.ids.contextId \notin NotStrings
  PROVE  /\ IsTree(IdsOf(r)) /\ IdsOf(r)[<<>>] = "object"
         /\ StringAt(IdsOf(r), <<"taskId">>) = r.ids.taskId
         /\ StringAt(IdsOf(r), <<"contextId">>) = r.ids.contextId
<1> DEFINE f == [taskId |-> Opt(r.ids.taskId), contextId |-> Opt(r.ids.contextId)]
<1>1. {"taskId", "contextId"} \subseteq Step
  BY MembersAssumption
<1>2. /\ DOMAIN f = {"taskId", "contextId"}
      /\ f["taskId"] = Opt(r.ids.taskId) /\ f["contextId"] = Opt(r.ids.contextId)
  OBVIOUS
<1>3. IdsOf(r) = Object(f)
  BY DEF IdsOf
<1> HIDE DEF f
<1>4. \A k \in DOMAIN f : k \in Step /\ IsTree(f[k])
  BY <1>1, <1>2, OptTree
<1>5. QED
  BY <1>2, <1>3, <1>4, ObjectMember, StringAtMember

(* An object with one member, which is there. *)
LEMMA OneMember ==
  ASSUME NEW k \in Step, NEW f, DOMAIN f = {k}, IsTree(f[k]), f[k][<<>>] = "object"
  PROVE  /\ IsTree(Object(f)) /\ Object(f)[<<>>] = "object"
         /\ ValueAt(Object(f), <<k>>) = f[k]
         /\ \A l \in Step : <<l>> \in DOMAIN Object(f) <=> l = k
  BY ObjectMember, ObjectIsNone

LEMMA ResultParts ==
  ASSUME NEW r \in Replies, r.kind \in {"task", "bareTask", "message"}
  PROVE  /\ IsTree(ResultOf(r)) /\ ResultOf(r)[<<>>] = "object"
         /\ ParseResult(ResultOf(r)) =
              [state     |-> IF r.kind = "message" THEN None ELSE r.state,
               taskId    |-> r.ids.taskId,
               contextId |-> r.ids.contextId]
<1>1. {"task", "message", "status"} \subseteq Step
  BY MembersAssumption
<1>2. CASE r.kind = "bareTask"
  <2>1. ResultOf(r) = TaskOf(r)
    BY <1>2 DEF ResultOf
  <2>2. IsText(r.state) /\ IsText(r.ids.taskId) /\ IsText(r.ids.contextId)
    BY <1>2, RepliesAssumption
  <2>3. QED
    BY <1>2, <2>1, <2>2, TaskParts DEF ParseResult
<1>3. CASE r.kind = "task"
  <2> DEFINE f == [task |-> TaskOf(r)]
  <2>1. ResultOf(r) = Object(f)
    BY <1>3 DEF ResultOf
  <2>2. IsText(r.state) /\ IsText(r.ids.taskId) /\ IsText(r.ids.contextId)
    BY <1>3, RepliesAssumption
  <2>3. DOMAIN f = {"task"} /\ f["task"] = TaskOf(r)
    OBVIOUS
  <2> HIDE DEF f
  <2>4. /\ IsTree(Object(f)) /\ Object(f)[<<>>] = "object"
        /\ ValueAt(Object(f), <<"task">>) = TaskOf(r) /\ <<"task">> \in DOMAIN Object(f)
    BY <1>1, <2>2, <2>3, TaskParts, OneMember
  <2>5. QED
    BY <1>3, <2>1, <2>2, <2>4, TaskParts DEF ParseResult
<1>4. CASE r.kind = "message"
  <2> DEFINE f == [message |-> IdsOf(r)]
  <2>1. ResultOf(r) = Object(f)
    BY <1>4 DEF ResultOf
  <2>2. r.ids.taskId \notin NotStrings /\ r.ids.contextId \notin NotStrings
    BY <1>4, RepliesAssumption
  <2>3. DOMAIN f = {"message"} /\ f["message"] = IdsOf(r)
    OBVIOUS
  <2> HIDE DEF f
  <2>4. /\ IsTree(Object(f)) /\ Object(f)[<<>>] = "object"
        /\ ValueAt(Object(f), <<"message">>) = IdsOf(r)
        /\ <<"task">> \notin DOMAIN Object(f) /\ <<"status">> \notin DOMAIN Object(f)
    <3>1. IsTree(f["message"]) /\ f["message"][<<>>] = "object" /\ "message" \in Step
      BY <1>1, <2>2, <2>3, IdsParts
    <3>2. /\ IsTree(Object(f)) /\ Object(f)[<<>>] = "object"
          /\ ValueAt(Object(f), <<"message">>) = f["message"]
          /\ \A l \in Step : <<l>> \in DOMAIN Object(f) <=> l = "message"
      BY <2>3, <3>1, OneMember
    <3>3. QED
      BY <1>1, <2>3, <3>2
  <2>5. QED
    BY <1>4, <2>1, <2>2, <2>4, IdsParts DEF ParseResult
<1>5. QED
  BY <1>2, <1>3, <1>4

(* Either binding carries the result. *)
LEMMA EncodedParts ==
  ASSUME NEW r \in Replies, r.kind \in {"task", "bareTask", "message"},
         Cfg.binding \in {"JsonRpc", "HttpJson"}
  PROVE  ParseResponse(Cfg.binding, BodyOf(r)).result = ResultOf(r) /\ ResultOf(r) # Absent
<1>1. /\ IsTree(ResultOf(r)) /\ ResultOf(r)[<<>>] = "object"
      /\ ResultOf(r) # Absent /\ ResultOf(r) # NotJson
  BY ResultParts, ObjectIsNone
<1>2. BodyOf(r) = Encode(r) /\ r.kind # "error"
  BY DEF BodyOf
<1>3. CASE Cfg.binding = "HttpJson"
  BY <1>1, <1>2, <1>3 DEF Encode, ParseResponse
<1>4. CASE Cfg.binding = "JsonRpc"
  <2> DEFINE f == [jsonrpc |-> Scalar("2.0"), id |-> Scalar("id"), result |-> ResultOf(r)]
  <2>1. Encode(r) = Object(f)
    BY <1>2, <1>4 DEF Encode
  <2>2. DOMAIN f = {"jsonrpc", "id", "result"} /\ f["result"] = ResultOf(r)
    OBVIOUS
  <2>3. f["jsonrpc"] = Scalar("2.0") /\ f["id"] = Scalar("id")
    OBVIOUS
  <2> HIDE DEF f
  <2>4. \A k \in DOMAIN f : k \in Step /\ IsTree(f[k])
    BY <1>1, <2>2, <2>3, MembersAssumption, ScalarTree
  <2>5. Object(f)[<<>>] = "object" /\ ValueAt(Object(f), <<"result">>) = ResultOf(r)
    BY <2>2, <2>4, MembersAssumption, ObjectMember
  <2>6. Object(f) # NotJson
    BY <2>5, ObjectIsNone
  <2>7. QED
    BY <1>1, <1>2, <1>4, <2>1, <2>5, <2>6 DEF ParseResponse, Envelope
<1>5. QED
  BY <1>3, <1>4

-----------------------------------------------------------------------------
(* The request: what the agent reads is what was found *)

LEMMA PartsRead ==
  ASSUME NEW text, text \notin NotStrings
  PROVE  /\ IsTree(Singleton(Object([text |-> Scalar(text)])))
         /\ Singleton(Object([text |-> Scalar(text)]))[<<>>] = "array"
         /\ text # None =>
              StringAt(Singleton(Object([text |-> Scalar(text)])), <<"[0]", "text">>) = text
<1> DEFINE f == [text |-> Scalar(text)]
           t == Singleton(Object(f))
<1>1. DOMAIN f = {"text"} /\ f["text"] = Scalar(text)
  OBVIOUS
<1> HIDE DEF f
<1>2. "text" \in Step /\ "[0]" \in Step
  BY MembersAssumption, StepAssumption
<1>3. \A k \in DOMAIN f : k \in Step /\ IsTree(f[k])
  BY <1>1, <1>2, ScalarTree
<1>4. IsTree(Object(f))
  BY <1>3, ObjectMember
<1>5. /\ IsTree(t) /\ <<"[0]">> \in DOMAIN t
      /\ ValueAt(t, <<"[0]">>) = Object(f) /\ t[<<>>] = "array"
  <2>1. IsTree(t) /\ <<"[0]">> \in DOMAIN t /\ ValueAt(t, <<"[0]">>) = Object(f)
    BY <1>4, SingletonMember
  <2> DEFINE g == [k \in {"[0]"} |-> Object(f)]
  <2>2. DOMAIN g = {"[0]"} /\ g["[0]"] = Object(f) /\ t = Node("array", g)
    BY DEF Singleton
  <2> HIDE DEF g, t
  <2>3. \A k \in DOMAIN g : k \in Step /\ IsTree(g[k])
    BY <1>2, <1>4, <2>2
  <2>4. QED
    BY <2>1, <2>2, <2>3, NodeTree
<1> HIDE DEF t
<1>6. ASSUME text # None PROVE StringAt(t, <<"[0]", "text">>) = text
  <2>1. f["text"] = Opt(text)
    BY <1>1, <1>6 DEF Opt
  <2>2. StringAt(Object(f), <<"text">>) = text
    BY <1>1, <1>3, <2>1, StringAtMember
  <2>3. <<"[0]", "text">> = <<"[0]">> \o <<"text">> /\ <<"text">> \in Path
    BY <1>2, StepsTogether
  <2>4. StringAt(ValueAt(t, <<"[0]">>), <<"text">>) = StringAt(t, <<"[0]">> \o <<"text">>)
    BY <1>5, <2>3, StringAtBelow
  <2>5. QED
    BY <1>5, <2>2, <2>3, <2>4
<1>7. QED
  BY <1>5, <1>6 DEF t, f

Message(text, continuation, metadata) ==
  Object([messageId |-> Scalar("id"),
          role      |-> Scalar("ROLE_USER"),
          parts     |-> Singleton(Object([text |-> Scalar(text)])),
          taskId    |-> Opt(continuation.taskId),
          contextId |-> Opt(continuation.contextId),
          metadata  |-> MetadataMember(metadata)])

LEMMA MessageParts ==
  ASSUME NEW text, text \notin NotStrings, text # None,
         NEW continuation, continuation.taskId \notin NotStrings,
         continuation.contextId \notin NotStrings,
         NEW metadata, IsTree(metadata)
  PROVE  LET message == Message(text, continuation, metadata) IN
         /\ IsTree(message) /\ message[<<>>] = "object"
         /\ StringAt(message, <<"parts", "[0]", "text">>) = text
         /\ StringAt(message, <<"taskId">>) = continuation.taskId
         /\ StringAt(message, <<"contextId">>) = continuation.contextId
<1> DEFINE parts == Singleton(Object([text |-> Scalar(text)]))
           f == [messageId |-> Scalar("id"), role |-> Scalar("ROLE_USER"), parts |-> parts,
                 taskId |-> Opt(continuation.taskId), contextId |-> Opt(continuation.contextId),
                 metadata |-> MetadataMember(metadata)]
           message == Object(f)
<1>1. Message(text, continuation, metadata) = message
  BY DEF Message
<1>2. /\ IsTree(parts) /\ parts[<<>>] = "array"
      /\ StringAt(parts, <<"[0]", "text">>) = text
  BY PartsRead
<1> HIDE DEF parts
<1>3. /\ DOMAIN f = {"messageId", "role", "parts", "taskId", "contextId", "metadata"}
      /\ f["messageId"] = Scalar("id") /\ f["role"] = Scalar("ROLE_USER")
      /\ f["parts"] = parts
      /\ f["taskId"] = Opt(continuation.taskId)
      /\ f["contextId"] = Opt(continuation.contextId)
      /\ f["metadata"] = MetadataMember(metadata)
  OBVIOUS
<1> HIDE DEF f
<1>4. IsTree(MetadataMember(metadata))
  BY ScalarTree DEF MetadataMember, Absent
<1>5. \A k \in DOMAIN f : k \in Step /\ IsTree(f[k])
  BY <1>2, <1>3, <1>4, MembersAssumption, OptTree, ScalarTree
<1>6. /\ IsTree(message) /\ message[<<>>] = "object"
      /\ <<"parts">> \in DOMAIN message <=> parts # Absent
      /\ ValueAt(message, <<"parts">>) = parts
  BY <1>3, <1>5, MembersAssumption, ObjectMember
<1>7. /\ StringAt(message, <<"taskId">>) = continuation.taskId
      /\ StringAt(message, <<"contextId">>) = continuation.contextId
  BY <1>3, <1>5, StringAtMember
<1> HIDE DEF message
<1>8. StringAt(message, <<"parts", "[0]", "text">>) = text
  <2>1. {"parts", "[0]", "text"} \subseteq Step
    BY MembersAssumption, StepAssumption
  <2>2. /\ <<"parts", "[0]", "text">> = <<"parts">> \o <<"[0]", "text">>
        /\ <<"[0]", "text">> \in Path
    BY <2>1, StepsTogether
  <2>3. parts # Absent
    <3>1. Scalar("absent")[<<>>] = "absent"
      BY ScalarTree
    <3>2. QED
      BY <1>2, <3>1 DEF Absent
  <2>4. StringAt(ValueAt(message, <<"parts">>), <<"[0]", "text">>)
          = StringAt(message, <<"parts">> \o <<"[0]", "text">>)
    BY <1>6, <2>2, <2>3, StringAtBelow
  <2>5. QED
    BY <1>2, <1>6, <2>2, <2>4
<1>9. QED
  BY <1>1, <1>6, <1>7, <1>8

(* Either binding carries the message. *)
LEMMA FramedParts ==
  ASSUME request.body = Framed, Cfg.binding \in {"JsonRpc", "HttpJson"},
         prompt \notin NotStrings, prompt # None,
         context.continuation.taskId \notin NotStrings,
         context.continuation.contextId \notin NotStrings,
         IsTree(Metadata), \A c \in Cfg.sendConfiguration : IsTree(c.acceptedOutputModes)
  PROVE  MessageRead = Message(prompt, context.continuation, Metadata)
<1> DEFINE message == Message(prompt, context.continuation, Metadata)
           configuration == ConfigurationMember(Cfg.sendConfiguration)
           f == [message |-> message, configuration |-> configuration]
           params == Object(f)
<1>1. BuildSendMessage(prompt, "id", context.continuation, Cfg.sendConfiguration, Metadata) = params
  BY DEF BuildSendMessage, Message
<1>2. IsTree(message)
  BY MessageParts
<1>3. IsTree(configuration)
  <2>1. CASE Cfg.sendConfiguration = {}
    BY <2>1, ScalarTree DEF ConfigurationMember, Absent
  <2>2. CASE Cfg.sendConfiguration # {}
    <3> DEFINE cfg == CHOOSE c \in Cfg.sendConfiguration : TRUE
               blocking == Scalar(IF cfg.blocking THEN "false" ELSE "true")
               g == [acceptedOutputModes |-> cfg.acceptedOutputModes, returnImmediately |-> blocking]
    <3>1. IsTree(cfg.acceptedOutputModes) /\ IsTree(blocking)
      BY <2>2, ScalarTree
    <3>2. configuration = Object(g)
      BY <2>2 DEF ConfigurationMember
    <3> HIDE DEF cfg, blocking
    <3>3. /\ DOMAIN g = {"acceptedOutputModes", "returnImmediately"}
          /\ g["acceptedOutputModes"] = cfg.acceptedOutputModes
          /\ g["returnImmediately"] = blocking
      OBVIOUS
    <3> HIDE DEF g
    <3>4. \A k \in DOMAIN g : k \in Step /\ IsTree(g[k])
      BY <3>1, <3>3, MembersAssumption
    <3>5. QED
      BY <3>2, <3>4, ObjectMember
  <2>3. QED
    BY <2>1, <2>2
<1> HIDE DEF message, configuration
<1>4. /\ DOMAIN f = {"message", "configuration"}
      /\ f["message"] = message /\ f["configuration"] = configuration
  OBVIOUS
<1> HIDE DEF f
<1>5. \A k \in DOMAIN f : k \in Step /\ IsTree(f[k])
  BY <1>2, <1>3, <1>4, MembersAssumption
<1>6. /\ IsTree(params) /\ ValueAt(params, <<"message">>) = message
  BY <1>4, <1>5, MembersAssumption, ObjectMember
<1> HIDE DEF params
<1>7. CASE Cfg.binding = "HttpJson"
  BY <1>1, <1>6, <1>7 DEF Framed, FrameRequest, MessageRead, message
<1>8. CASE Cfg.binding = "JsonRpc"
  <2> DEFINE g == [jsonrpc |-> Scalar("2.0"), id |-> Scalar("id"),
                   method |-> Scalar("SendMessage"), params |-> params]
  <2>1. request.body = Object(g)
    BY <1>1, <1>8 DEF Framed, FrameRequest, BuildRequest
  <2>2. /\ DOMAIN g = {"jsonrpc", "id", "method", "params"}
        /\ g["jsonrpc"] = Scalar("2.0") /\ g["id"] = Scalar("id")
        /\ g["method"] = Scalar("SendMessage") /\ g["params"] = params
    OBVIOUS
  <2> HIDE DEF g
  <2>3. \A k \in DOMAIN g : k \in Step /\ IsTree(g[k])
    BY <1>6, <2>2, MembersAssumption, ScalarTree
  <2>4. ValueAt(Object(g), <<"params">>) = params
    BY <2>2, <2>3, MembersAssumption, ObjectMember
  <2>5. QED
    BY <1>6, <1>8, <2>1, <2>4 DEF MessageRead, message
<1>9. QED
  BY <1>7, <1>8

-----------------------------------------------------------------------------
(* The values a client sends *)

LEMMA ValueConveyed ==
  ASSUME NEW v, IsValue(v)
  PROVE  /\ Conveys(ValueToString(v), v)
         /\ ValueToString(v) \notin NotStrings
         /\ ValueToString(v) # None <=> Named(v)
         /\ Named(v) /\ ~Beyond(v) => ValueToString(v) = Written(v)
<1> USE DEF IsText
<1>1. CASE v.type = "string"
  BY <1>1 DEF IsValue, Conveys, ValueToString, Named, Written, Beyond, None, NotStrings
<1>2. CASE v.type = "bool"
  BY <1>2 DEF IsValue, Conveys, ValueToString, Named, Written, Beyond, None, NotStrings
<1>3. CASE v.type = "number"
  <2>1. /\ v.whole \in Int /\ v.half \in BOOLEAN
        /\ Written(v) # "" /\ FormatNumber(v) # None /\ FormatNumber(v) \notin NotStrings
    BY <1>3 DEF IsValue
  <2>2. ValueToString(v) = FormatNumber(v) /\ Named(v)
    BY <1>3, <2>1 DEF ValueToString, Named
  <2>3. ~Beyond(v) => FormatNumber(v) = Written(v)
    <3>1. CASE v.half
      BY <1>3, <3>1 DEF FormatNumber, Written
    <3>2. CASE ~v.half
      <4>1. v.whole \in I64Min..I64Max => Clamp(v.whole, I64Min, I64Max) = v.whole
        BY <2>1, I64Assumption, ClampBounds
      <4>2. QED
        BY <1>3, <3>2, <4>1 DEF Beyond, FormatNumber, Written
    <3>3. QED
      BY <2>1, <3>1, <3>2
  <2>4. QED
    BY <2>1, <2>2, <2>3 DEF Conveys
<1>4. CASE v.type \notin {"string", "bool", "number"}
  BY <1>4 DEF Conveys, ValueToString, Named, None, NotStrings
<1>5. QED
  BY <1>1, <1>2, <1>3, <1>4

(* Integers beyond i64 become the end they are beyond. *)
LEMMA BeyondIsNarrowed ==
  ASSUME NEW v, IsValue(v), Beyond(v)
  PROVE  ValueToString(v) = ToString(IF v.whole > I64Max THEN I64Max ELSE I64Min)
<1>1. v.type = "number" /\ ~v.half /\ v.whole \in Int /\ v.whole \notin I64Min..I64Max
  BY DEF Beyond, IsValue
<1>2. Clamp(v.whole, I64Min, I64Max) = IF v.whole > I64Max THEN I64Max ELSE I64Min
  BY <1>1, I64Assumption DEF Clamp
<1>3. QED
  BY <1>1, <1>2 DEF ValueToString, FormatNumber

-----------------------------------------------------------------------------
(* The way of a request *)

CacheContext ==
  /\ Cfg.mode = "Cache"
  /\ context.key # NoKey /\ context.key = FromHashed(ValueToString(client.key))
  /\ context.continuation \in Cached

ExplicitContext ==
  /\ Cfg.mode = "Explicit"
  /\ context = [continuation |->
                  [taskId    |-> Evaluated(Cfg.taskIdSelector, client.task),
                   contextId |-> Evaluated(Cfg.contextIdSelector, client.context)],
                key |-> NoKey]

Resolved == phase \notin {"configuring", "refused", "waiting", "prompt", "resolve", "rejected"}

(* The configuration is an accepted one, the client's request is one, and  *)
(* the context is that of its mode; what is on its way to the upstream is  *)
(* the request framed, or not on its way.                                  *)
RequestIInv ==
  /\ Configured => Accepted(raw)
  /\ phase \notin {"configuring", "refused", "waiting"} => client \in Requests
  /\ phase \in {"resolve", "frame", "upstream"} =>
       prompt = ValueToString(client.prompt) /\ prompt # None
  /\ phase \in {"configuring", "refused", "waiting", "prompt", "resolve"} => context = NoContext
  /\ context = NoContext \/ CacheContext \/ ExplicitContext
  /\ Resolved =>
       /\ Cfg.mode = "Explicit" => ExplicitContext
       /\ Cfg.mode = "Cache" =>
            context.key = FromHashed(Evaluated(Cfg.contextKeySelector, client.key))
  /\ phase \in {"prompt", "resolve", "frame"} =>
       request = [body |-> RestBody, length |-> NoLength, type |-> Json]
  /\ phase = "upstream" => request = [body |-> Framed, length |-> NoLength, type |-> Json]

(* What a task is to the store, and to whoever reads the warnings. *)
Judged ==
  /\ recorded # NoRecord /\ said.kind \in {"task", "bareTask", "message"} =>
       /\ recorded.class = said.meaning
       /\ said.meaning = "Continuable" => recorded.continuation = said.ids
  /\ /\ upstream.type \notin EventStreams
     /\ said.kind \in {"task", "bareTask"} /\ said.meaning = "Continuable"
     => ("unresumable" \in warnings <=>
           context.key = NoKey /\ context.continuation = NoContinuation)

(* Until the reply is judged its body is what the agent said. *)
ReplyIInv ==
  /\ phase \in {"responseHeaders", "persist"} => said \in Replies /\ response.body = BodyOf(said)
  /\ phase \in {"shape", "delivered"} => Judged

IInv == ResponseIInv /\ ConfigIInv /\ RequestIInv /\ ReplyIInv

LEMMA AcceptedConfiguration ==
  ASSUME ConfigIInv, RequestIInv, Configured
  PROVE  /\ Cfg = FromGenerated(raw) /\ raw \in RawConfigs
         /\ Cfg.binding \in {"JsonRpc", "HttpJson"}
         /\ Cfg.mode \in {"Cache", "Explicit", "None"}
<1>1. Accepted(raw) /\ config = <<FromGenerated(raw)>> /\ raw \in RawConfigs
  BY DEF ConfigIInv, RequestIInv
<1>2. Cfg = FromGenerated(raw)
  BY <1>1 DEF Cfg
<1>3. Cfg.binding = Binding(raw) /\ Cfg.mode = ContinuationMode(raw)
  BY <1>2 DEF FromGenerated
<1>4. Binding(raw) # "unknown" /\ ContinuationMode(raw) # "unknown"
  BY <1>1 DEF Accepted
<1>5. Binding(raw) \in {"JsonRpc", "HttpJson"}
  BY <1>4 DEF Binding, BindingOf
<1>6. ContinuationMode(raw) \in {"Cache", "Explicit", "None"}
  BY <1>4 DEF ContinuationMode, ContinuationModeOf
<1>7. QED
  BY <1>1, <1>2, <1>3, <1>5, <1>6

LEMMA RequestInductive ==
  ASSUME ConfigIInv, RequestIInv, [Next]_vars
  PROVE  RequestIInv'
<1> USE DEF RequestIInv, Configured, Resolved, Cfg
<1>1. CASE Configure
  BY <1>1 DEF Configure, CacheContext, ExplicitContext, NoContext
<1>2. CASE RequestHeaders
  BY <1>2 DEF RequestHeaders, CacheContext, ExplicitContext, NoContext
<1>3. CASE EvaluatePrompt
  BY <1>3 DEF EvaluatePrompt, Reject, CacheContext, ExplicitContext, NoContext
<1>4. CASE Resolve
  <2>1. /\ UNCHANGED <<raw, config, client, prompt, request>>
        /\ phase = "resolve" /\ phase' = "frame"
    BY <1>4 DEF Resolve
  <2>2. \/ context' = NoContext /\ Cfg.mode # "Explicit"
        \/ CacheContext'
        \/ ExplicitContext'
    <3>1. CASE Cfg.mode = "Cache" /\ FromHashed(Evaluated(Cfg.contextKeySelector, client.key)) # NoKey
      <4>1. PICK c \in Cached :
              context' = [continuation |-> c,
                          key |-> FromHashed(Evaluated(Cfg.contextKeySelector, client.key))]
        BY <1>4, <3>1 DEF Resolve
      <4>2. Cfg.contextKeySelector = "script"
        BY <3>1, KeyNeedsSelector
      <4>3. QED
        BY <2>1, <3>1, <4>1, <4>2 DEF CacheContext, Evaluated
    <3>2. CASE ~(Cfg.mode = "Cache" /\ FromHashed(Evaluated(Cfg.contextKeySelector, client.key)) # NoKey)
      BY <1>4, <2>1, <3>2 DEF Resolve, ExplicitContext
    <3>3. QED
      BY <3>1, <3>2
  <2>3. CacheContext' => Cfg'.mode = "Cache"
    BY DEF CacheContext
  <2>4. Cfg' = Cfg
    BY <2>1
  <2>5. Cfg.mode = "Cache" =>
          context'.key = FromHashed(Evaluated(Cfg.contextKeySelector, client.key))
    BY <1>4 DEF Resolve, NoContext
  <2>6. QED
    BY <2>1, <2>2, <2>3, <2>4, <2>5
<1>5. CASE Frame
  <2>1. /\ phase = "frame" /\ UNCHANGED <<raw, config, client, prompt, context>>
        /\ \/ phase' = "upstream" /\ request' = [request EXCEPT !.body = Framed]
           \/ phase' = "rejected"
    BY <1>5 DEF Frame, Reject
  <2>2. /\ CacheContext' <=> CacheContext
        /\ ExplicitContext' <=> ExplicitContext
    BY <2>1 DEF CacheContext, ExplicitContext
  <2>3. Framed' = Framed
    BY <2>1 DEF Framed, Metadata
  <2>4. phase' = "upstream" =>
          request' = [body |-> Framed, length |-> NoLength, type |-> Json]
    BY <2>1
  <2>5. QED
    BY <2>1, <2>2, <2>3, <2>4
<1>6. CASE Agent
  BY <1>6 DEF Agent, CacheContext, ExplicitContext
<1>7. CASE ResponseHeaders
  BY <1>7 DEF ResponseHeaders, CacheContext, ExplicitContext
<1>8. CASE Persist
  BY <1>8 DEF Persist, CacheContext, ExplicitContext
<1>9. CASE Shape
  BY <1>9 DEF Shape, CacheContext, ExplicitContext
<1>10. CASE UNCHANGED vars
  BY <1>10 DEF vars, CacheContext, ExplicitContext, Framed, Metadata
<1>11. QED
  BY <1>1, <1>2, <1>3, <1>4, <1>5, <1>6, <1>7, <1>8, <1>9, <1>10 DEF Next

-----------------------------------------------------------------------------
(* The way of a reply *)

LEMMA StatesMean ==
  ASSUME NEW r \in Replies, r.kind \in {"task", "bareTask"}
  PROVE  r.state # None /\ ClassifyState(r.state) = r.meaning
<1>1. r.state # None
  BY RepliesAssumption DEF IsText
<1>2. /\ r.state \in ContinuableStates <=> r.state \in Alive
      /\ r.state \in TerminalStates <=> r.state \in Done
  BY DEF ContinuableStates, TerminalStates, Alive, Done
<1>3. r.meaning = CASE r.state \in Alive -> "Continuable"
                    [] r.state \in Done  -> "Terminal"
                    [] OTHER             -> "Unknown"
  BY RepliesAssumption
<1>4. QED
  BY <1>1, <1>2, <1>3 DEF ClassifyState

(* What record_outcome gets is what was said. *)
LEMMA ParsedIsSaid ==
  ASSUME NEW r \in Replies, r.kind \in {"task", "bareTask", "message"}
  PROVE  /\ Class(ParseResult(ResultOf(r))) = r.meaning
         /\ ContinuationOf(ParseResult(ResultOf(r))) = r.ids
<1>1. ParseResult(ResultOf(r)) =
        [state |-> IF r.kind = "message" THEN None ELSE r.state,
         taskId |-> r.ids.taskId, contextId |-> r.ids.contextId]
  BY ResultParts
<1>2. r.ids = [taskId |-> r.ids.taskId, contextId |-> r.ids.contextId]
  BY RepliesAssumption
<1>3. ContinuationOf(ParseResult(ResultOf(r))) = r.ids
  BY <1>1, <1>2 DEF ContinuationOf
<1>4. Class(ParseResult(ResultOf(r))) = r.meaning
  <2>1. CASE r.kind = "message"
    <3>1. r.meaning = "Terminal"
      BY <2>1, RepliesAssumption
    <3>2. ParseResult(ResultOf(r)).state = None
      BY <1>1, <2>1
    <3>3. QED
      BY <3>1, <3>2 DEF Class
  <2>2. CASE r.kind # "message"
    BY <1>1, <2>2, StatesMean DEF Class
  <2>3. QED
    BY <2>1, <2>2
<1>5. QED
  BY <1>3, <1>4

LEMMA PersistJudges ==
  ASSUME ConfigIInv, RequestIInv, ReplyIInv, Persist
  PROVE  Judged'
<1>1. /\ phase = "persist" /\ said \in Replies /\ response.body = BodyOf(said)
      /\ UNCHANGED <<raw, config, client, context, said, upstream>>
  BY DEF Persist, ReplyIInv
<1>2. Configured /\ Cfg.binding \in {"JsonRpc", "HttpJson"}
  BY <1>1, AcceptedConfiguration DEF Configured
<1>3. CASE said.kind \notin {"task", "bareTask", "message"}
  BY <1>1, <1>3 DEF Judged
<1>4. CASE said.kind \in {"task", "bareTask", "message"}
  <2> DEFINE class == Class(ParseResult(Result))
             entry == [key |-> context.key, class |-> class,
                       continuation |-> ContinuationOf(ParseResult(Result))]
  <2>1. Result # Absent
    BY <1>1, <1>2, <1>4, EncodedParts DEF Result
  <2>2. class = said.meaning /\ ContinuationOf(ParseResult(Result)) = said.ids
    BY <1>1, <1>2, <1>4, EncodedParts, ParsedIsSaid DEF Result
  <2>3. /\ recorded' = IF UsesCache(Cfg) /\ context.key # NoKey THEN entry ELSE NoRecord
        /\ "unresumable" \in warnings' <=> IsUnresumableContinuable(class)
    <3>1. \E f \in {{}, {"persist failed"}} :
            warnings' = f \cup IF IsUnresumableContinuable(class) THEN {"unresumable"} ELSE {}
      BY <2>1 DEF Persist
    <3>2. "unresumable" \in warnings' <=> IsUnresumableContinuable(class)
      <4> HIDE DEF class
      <4>1. QED
        BY <3>1
    <3>3. QED
      BY <2>1, <3>2 DEF Persist
  <2>4. entry.key = context.key /\ entry.class = said.meaning /\ entry.continuation = said.ids
    BY <2>2
  <2> HIDE DEF class, entry
  <2>5. recorded' # NoRecord => recorded'.class = said.meaning /\ recorded'.continuation = said.ids
    BY <2>3, <2>4
  <2>6. ASSUME said.meaning = "Continuable"
        PROVE  "unresumable" \in warnings' <=>
                 context.key = NoKey /\ context.continuation = NoContinuation
    BY <2>2, <2>3, <2>6 DEF IsUnresumableContinuable
  <2>7. QED
    BY <1>1, <2>5, <2>6 DEF Judged, Cfg
<1>5. QED
  BY <1>3, <1>4

LEMMA ReplyInductive ==
  ASSUME IInv, [Next]_vars
  PROVE  ReplyIInv'
<1> USE DEF IInv
<1>1. CASE Configure \/ RequestHeaders \/ EvaluatePrompt \/ Resolve \/ Frame
  <2>1. phase' \notin {"responseHeaders", "persist", "shape", "delivered"}
    BY <1>1 DEF Configure, RequestHeaders, EvaluatePrompt, Resolve, Frame, Reject
  <2>2. QED
    BY <2>1 DEF ReplyIInv
<1>2. CASE Agent
  <2>1. PICK reply \in Replies :
          said' = reply /\ response'.body = BodyOf(reply) /\ phase' = "responseHeaders" /\ config' = config
    BY <1>2 DEF Agent
  <2>2. BodyOf(reply)' = BodyOf(reply)
    BY <2>1 DEF BodyOf, Encode, Cfg
  <2>3. QED
    BY <2>1, <2>2 DEF ReplyIInv, BodyOf, Encode, Cfg
<1>3. CASE ResponseHeaders
  <2>1. /\ phase = "responseHeaders" /\ UNCHANGED <<config, context, said, upstream, recorded, warnings>>
        /\ \/ response.type \in EventStreams /\ phase' = "delivered"
           \/ phase' = "persist" /\ response'.body = response.body
    BY <1>3 DEF ResponseHeaders, ResponseIInv, IsResponse
  <2>2. recorded = NoRecord /\ response = upstream
    BY <2>1 DEF ConfigIInv, ResponseIInv
  <2>3. phase' = "delivered" => Judged'
    BY <2>1, <2>2 DEF Judged
  <2>4. phase' = "persist" => said' \in Replies /\ response'.body = BodyOf(said)'
    BY <2>1 DEF ReplyIInv, BodyOf, Encode, Cfg
  <2>5. QED
    BY <2>1, <2>3, <2>4 DEF ReplyIInv
<1>4. CASE Persist
  <2>1. phase' \in {"shape", "delivered"}
    BY <1>4 DEF Persist
  <2>2. QED
    BY <1>4, <2>1, PersistJudges DEF ReplyIInv
<1>5. CASE Shape
  BY <1>5 DEF Shape, ReplyIInv, Judged, Cfg
<1>6. CASE UNCHANGED vars
  BY <1>6 DEF vars, ReplyIInv, Judged, BodyOf, Encode, Cfg
<1>7. QED
  BY <1>1, <1>2, <1>3, <1>4, <1>5, <1>6 DEF Next

-----------------------------------------------------------------------------
(* What holds of every exchange *)

(* The inductive invariant: the response, the configuration, the request   *)
(* and the reply, each as far as the exchange has come.                    *)
THEOREM ExchangeInvariant == Spec => []IInv
<1>1. Init => RequestIInv /\ ReplyIInv
  BY DEF Init, RequestIInv, ReplyIInv, Configured, Resolved
<1>2. Init => ResponseIInv
  BY DEF Init, NoResponse, ResponseIInv, IsResponse, PassthroughUntouched
<1>3. Init => ConfigIInv
  BY DEF Init, ConfigIInv, Configured, NoContext
<1>4. IInv /\ [Next]_vars => IInv'
  BY ResponseInductive, ConfigInductive, RequestInductive, ReplyInductive DEF IInv
<1>5. QED
  BY <1>1, <1>2, <1>3, <1>4, PTL DEF Spec, IInv

(* spec.md:35-38: what is recorded is what the agent meant, of the task it *)
(* named, however the result is framed and wrapped.                        *)
THEOREM RecordsAreTrue == Spec => []RecordsWhatAgentMeant
<1>1. IInv => RecordsWhatAgentMeant
  BY DEF IInv, ReplyIInv, Judged, RecordsWhatAgentMeant
<1>2. QED
  BY <1>1, ExchangeInvariant, PTL

(* A selector for the key, as in SelectorComesFromGroup, is in a group of  *)
(* the operator's; so are those for the ids.                               *)
LEMMA KeySelectorIsTheirs ==
  ASSUME NEW r \in RawConfigs
  PROVE  FromGenerated(r).contextKeySelector = "script"
           <=> \E g \in r.cacheConfig : g.contextKeySelector = "script"
<1> DEFINE groups == {CacheGroup(g) : g \in r.cacheConfig}
           cache  == Unwrap(groups, CacheConfigDefault)
<1>1. FromGenerated(r).contextKeySelector = cache.contextKeySelector
  BY DEF FromGenerated
<1>2. CASE r.cacheConfig = {}
  BY <1>1, <1>2 DEF Unwrap, CacheConfigDefault
<1>3. CASE r.cacheConfig # {}
  <2>1. PICK g \in r.cacheConfig : cache = CacheGroup(g)
    BY <1>3 DEF Unwrap
  <2>2. cache.contextKeySelector = g.contextKeySelector
    BY <2>1 DEF CacheGroup
  <2>3. \A h \in r.cacheConfig : h = g
    BY RawConfigsAssumption
  <2>4. QED
    BY <1>1, <2>2, <2>3
<1>4. QED
  BY <1>2, <1>3

LEMMA IdSelectorsAreTheirs ==
  ASSUME NEW r \in RawConfigs
  PROVE  LET c == FromGenerated(r) IN
         /\ r.explicitConfig = {} => c.taskIdSelector = "none" /\ c.contextIdSelector = "none"
         /\ \A g \in r.explicitConfig : /\ c.taskIdSelector = g.taskIdSelector
                                        /\ c.contextIdSelector = g.contextIdSelector
<1>1. /\ FromGenerated(r).taskIdSelector
           = Unwrap(r.explicitConfig, ExplicitConfigDefault).taskIdSelector
      /\ FromGenerated(r).contextIdSelector
           = Unwrap(r.explicitConfig, ExplicitConfigDefault).contextIdSelector
  BY DEF FromGenerated
<1>2. \A g \in r.explicitConfig : Unwrap(r.explicitConfig, ExplicitConfigDefault) = g
  BY RawConfigsAssumption DEF Unwrap
<1>3. r.explicitConfig = {} =>
        /\ Unwrap(r.explicitConfig, ExplicitConfigDefault).taskIdSelector = "none"
        /\ Unwrap(r.explicitConfig, ExplicitConfigDefault).contextIdSelector = "none"
  BY DEF Unwrap, ExplicitConfigDefault
<1>4. QED
  BY <1>1, <1>2, <1>3

LEMMA HashedIsKey == \A text : FromHashed(text) # NoKey <=> text # None
  BY DEF FromHashed, NoKey

(* README.md:118: a warning is logged of exactly those continuable replies *)
(* whose caller gave neither a cache key nor, in explicit mode, an id.     *)
THEOREM LostTasksAreReported == Spec => []UnresumableIsReported
<1>1. ASSUME IInv, phase = "delivered"
      PROVE  CanResume <=> ~(context.key = NoKey /\ context.continuation = NoContinuation)
  <2>1. /\ client \in Requests
        /\ context = NoContext \/ CacheContext \/ ExplicitContext
        /\ Cfg.mode = "Explicit" => ExplicitContext
        /\ Cfg.mode = "Cache" =>
             context.key = FromHashed(Evaluated(Cfg.contextKeySelector, client.key))
    BY <1>1 DEF IInv, RequestIInv, Resolved
  <2>2. /\ Cfg = FromGenerated(raw) /\ raw \in RawConfigs
        /\ Cfg.mode \in {"Cache", "Explicit", "None"}
    BY <1>1, AcceptedConfiguration DEF IInv, Configured
  <2>3. \A v \in {client.key, client.task, client.context} :
          ValueToString(v) # None <=> Named(v)
    BY <2>1, RequestsAssumption, ValueConveyed
  <2>4. CASE Cfg.mode = "Cache"
    <3>1. context.key # NoKey <=> Cfg.contextKeySelector = "script" /\ Named(client.key)
      <4>1. context.key # NoKey <=> Evaluated(Cfg.contextKeySelector, client.key) # None
        BY <2>1, <2>4, HashedIsKey
      <4>2. QED
        BY <2>3, <4>1 DEF Evaluated
    <3>2. CanResume <=> context.key # NoKey
      BY <2>2, <2>4, <3>1, KeySelectorIsTheirs DEF CanResume
    <3>3. context.key = NoKey => context.continuation = NoContinuation
      BY <2>1, <2>4 DEF NoContext, CacheContext, ExplicitContext
    <3>4. QED
      BY <3>2, <3>3
  <2>5. CASE Cfg.mode = "Explicit"
    <3>1. context.key = NoKey
          /\ context.continuation = [taskId    |-> Evaluated(Cfg.taskIdSelector, client.task),
                                     contextId |-> Evaluated(Cfg.contextIdSelector, client.context)]
      BY <2>1, <2>5 DEF ExplicitContext
    <3>2. context.continuation # NoContinuation
            <=> \/ Cfg.taskIdSelector = "script" /\ Named(client.task)
                \/ Cfg.contextIdSelector = "script" /\ Named(client.context)
      BY <2>3, <3>1 DEF NoContinuation, Evaluated
    <3>3. CanResume
            <=> \/ Cfg.taskIdSelector = "script" /\ Named(client.task)
                \/ Cfg.contextIdSelector = "script" /\ Named(client.context)
      BY <2>2, <2>5, IdSelectorsAreTheirs DEF CanResume
    <3>4. QED
      BY <3>1, <3>2, <3>3
  <2>6. CASE Cfg.mode = "None"
    BY <2>1, <2>6 DEF CanResume, NoContext, CacheContext, ExplicitContext
  <2>7. QED
    BY <2>2, <2>4, <2>5, <2>6
<1>2. IInv => UnresumableIsReported
  <2>1. IInv /\ phase = "delivered" => Judged
    BY DEF IInv, ReplyIInv
  <2>2. QED
    BY <1>1, <2>1 DEF Judged, UnresumableIsReported
<1>3. QED
  BY <1>2, ExchangeInvariant, PTL

(* What the agent reads of a request that has come to it. *)
LEMMA AgentReads ==
  ASSUME IInv, phase = "upstream"
  PROVE  /\ StringAt(MessageRead, <<"parts", "[0]", "text">>) = prompt
         /\ StringAt(MessageRead, <<"taskId">>) = context.continuation.taskId
         /\ StringAt(MessageRead, <<"contextId">>) = context.continuation.contextId
<1>1. /\ request.body = Framed /\ client \in Requests /\ Configured
      /\ prompt = ValueToString(client.prompt) /\ prompt # None
  BY DEF IInv, RequestIInv, Configured
<1>2. /\ Cfg = FromGenerated(raw) /\ raw \in RawConfigs
      /\ Cfg.binding \in {"JsonRpc", "HttpJson"}
  BY <1>1, AcceptedConfiguration DEF IInv
<1>3. /\ IsValue(client.prompt) /\ IsValue(client.task) /\ IsValue(client.context)
      /\ IsTree(client.metadata)
  BY <1>1, RequestsAssumption
<1>4. prompt \notin NotStrings
  BY <1>1, <1>3, ValueConveyed
<1>5. /\ context.continuation.taskId \notin NotStrings
      /\ context.continuation.contextId \notin NotStrings
  <2>1. None \notin NotStrings
    BY DEF None, NotStrings
  <2>2. CASE context = NoContext
    BY <2>1, <2>2 DEF NoContext, NoContinuation
  <2>3. CASE CacheContext
    BY <2>3, CachedAssumption DEF CacheContext
  <2>4. CASE ExplicitContext
    BY <1>3, <2>1, <2>4, ValueConveyed DEF ExplicitContext, Evaluated
  <2>5. QED
    BY <2>2, <2>3, <2>4 DEF IInv, RequestIInv
<1>6. IsTree(Metadata)
  BY <1>3, ScalarTree DEF Metadata, Absent
<1>7. \A c \in Cfg.sendConfiguration : IsTree(c.acceptedOutputModes)
  <2>1. Cfg.sendConfiguration = {A2aGroup(g) : g \in raw.a2aConfiguration}
    BY <1>2 DEF FromGenerated
  <2>2. \A g \in raw.a2aConfiguration :
          A2aGroup(g).acceptedOutputModes = g.acceptedOutputModes /\ IsTree(g.acceptedOutputModes)
    BY <1>2, RawConfigsAssumption DEF A2aGroup
  <2>3. QED
    BY <2>1, <2>2
<1>8. MessageRead = Message(prompt, context.continuation, Metadata)
  BY <1>1, <1>2, <1>4, <1>5, <1>6, <1>7, FramedParts
<1>9. QED
  BY <1>1, <1>4, <1>5, <1>6, <1>8, MessageParts

(* lib.rs:218-233, 290-300: the upstream gets a SendMessage with the       *)
(* caller's prompt or nothing at all, whatever fails on the way.           *)
THEOREM OnlyMessagesAreForwarded == Spec => []ForwardsOnlyMessages
<1>1. ASSUME IInv, phase = "upstream"
      PROVE  /\ Named(client.prompt)
             /\ Conveys(StringAt(MessageRead, <<"parts", "[0]", "text">>), client.prompt)
             /\ request.length = NoLength /\ request.type = Json
  <2>1. /\ client \in Requests /\ prompt = ValueToString(client.prompt) /\ prompt # None
        /\ request.length = NoLength /\ request.type = Json
    BY <1>1 DEF IInv, RequestIInv
  <2>2. IsValue(client.prompt)
    BY <2>1, RequestsAssumption
  <2>3. Named(client.prompt) /\ Conveys(prompt, client.prompt)
    BY <2>1, <2>2, ValueConveyed
  <2>4. StringAt(MessageRead, <<"parts", "[0]", "text">>) = prompt
    BY <1>1, AgentReads
  <2>5. QED
    BY <2>1, <2>3, <2>4
<1>2. IInv => ForwardsOnlyMessages
  BY <1>1 DEF ForwardsOnlyMessages
<1>3. QED
  BY <1>2, ExchangeInvariant, PTL

(* continuation.rs:12-22: the ids the agent reads are those of the mode, and *)
(* of no other.                                                             *)
THEOREM ModesAreExclusive == Spec => []IdsFollowTheMode
<1>1. ASSUME IInv, phase = "upstream" PROVE IdsFollowTheMode
  <2> DEFINE ids == [taskId    |-> StringAt(MessageRead, <<"taskId">>),
                     contextId |-> StringAt(MessageRead, <<"contextId">>)]
             Follows(id, selector, v) ==
               IF selector = "script" THEN Conveys(id, v) ELSE id = None
  <2>1. ids = [taskId    |-> context.continuation.taskId,
               contextId |-> context.continuation.contextId]
    BY <1>1, AgentReads
  <2> HIDE DEF ids
  <2>2. /\ client \in Requests /\ Configured
        /\ context = NoContext \/ CacheContext \/ ExplicitContext
        /\ Cfg.mode = "Explicit" => ExplicitContext
    BY <1>1 DEF IInv, RequestIInv, Configured, Resolved
  <2>3. Cfg = FromGenerated(raw) /\ raw \in RawConfigs
    BY <1>1, <2>2, AcceptedConfiguration DEF IInv
  <2>4. IsValue(client.task) /\ IsValue(client.context)
    BY <2>2, RequestsAssumption
  <2>5. ASSUME NEW selector, NEW v, IsValue(v)
        PROVE  Follows(Evaluated(selector, v), selector, v)
    BY <2>5, ValueConveyed DEF Evaluated
  <2>6. /\ Cfg.taskIdSelector = Unwrap(raw.explicitConfig, ExplicitConfigDefault).taskIdSelector
        /\ Cfg.contextIdSelector = Unwrap(raw.explicitConfig, ExplicitConfigDefault).contextIdSelector
    BY <2>3 DEF FromGenerated
  <2>7. CASE Cfg.mode = "Cache" /\ context.key # NoKey
    <3>1. context.continuation \in Cached
      BY <2>2, <2>7 DEF NoContext, CacheContext, ExplicitContext
    <3>2. ids = context.continuation
      BY <2>1, <3>1, CachedAssumption
    <3>3. QED
      BY <2>7, <3>1, <3>2 DEF IdsFollowTheMode, ids
  <2>8. CASE Cfg.mode = "Explicit" /\ raw.explicitConfig # {}
    <3>1. PICK g \in raw.explicitConfig :
            Cfg.taskIdSelector = g.taskIdSelector /\ Cfg.contextIdSelector = g.contextIdSelector
      BY <2>6, <2>8 DEF Unwrap
    <3>2. /\ ids.taskId = Evaluated(g.taskIdSelector, client.task)
          /\ ids.contextId = Evaluated(g.contextIdSelector, client.context)
      BY <2>1, <2>2, <2>8, <3>1 DEF ExplicitContext
    <3>3. /\ Follows(ids.taskId, g.taskIdSelector, client.task)
          /\ Follows(ids.contextId, g.contextIdSelector, client.context)
      BY <2>4, <2>5, <3>2
    <3>4. QED
      BY <2>8, <3>3 DEF IdsFollowTheMode, ids
  <2>9. CASE /\ ~(Cfg.mode = "Cache" /\ context.key # NoKey)
             /\ ~(Cfg.mode = "Explicit" /\ raw.explicitConfig # {})
    <3>1. ids = NoContinuation
      <4>1. CASE Cfg.mode = "Explicit"
        <5>1. Cfg.taskIdSelector = "none" /\ Cfg.contextIdSelector = "none"
          BY <2>6, <2>9, <4>1 DEF Unwrap, ExplicitConfigDefault
        <5>2. QED
          BY <2>1, <2>2, <4>1, <5>1 DEF ExplicitContext, Evaluated, NoContinuation
      <4>2. CASE Cfg.mode # "Explicit"
        BY <2>1, <2>2, <2>9, <4>2 DEF CacheContext, ExplicitContext, NoContext, NoContinuation
      <4>3. QED
        BY <4>1, <4>2
    <3>2. QED
      BY <2>9, <3>1 DEF IdsFollowTheMode, ids
  <2>10. QED
    BY <2>7, <2>8, <2>9
<1>2. IInv => IdsFollowTheMode
  <2>1. phase # "upstream" => IdsFollowTheMode
    BY DEF IdsFollowTheMode
  <2>2. QED
    BY <1>1, <2>1
<1>3. QED
  BY <1>2, ExchangeInvariant, PTL

(* cache.rs:46-50, dataweave.rs:12-21: a cache entry belongs to one         *)
(* conversation, however its client writes the name.                       *)
THEOREM KeysAreConversations == Spec => []KeysTellConversationsApart
<1>1. \A s, t : s # None /\ t # None => (FromHashed(s) = FromHashed(t) <=> s = t)
  BY DEF FromHashed
<1>2. ASSUME IInv, context.key # NoKey
      PROVE  /\ context.key = FromHashed(ValueToString(client.key))
             /\ ValueToString(client.key) # None /\ IsValue(client.key)
  <2>1. CacheContext /\ client \in Requests
    BY <1>2 DEF IInv, RequestIInv, NoContext, ExplicitContext
  <2>2. QED
    BY <1>2, <2>1, RequestsAssumption DEF CacheContext, FromHashed
<1>3. ASSUME IInv, context.key # NoKey, NEW c \in Requests, Named(c.key)
      PROVE  /\ ~Beyond(c.key) /\ ~Beyond(client.key) =>
                  (FromHashed(ValueToString(c.key)) = context.key
                     <=> Written(c.key) = Written(client.key))
             /\ Beyond(c.key) /\ Beyond(client.key) =>
                  (FromHashed(ValueToString(c.key)) = context.key
                     <=> (c.key.whole > I64Max <=> client.key.whole > I64Max))
  <2>1. /\ IsValue(c.key) /\ IsValue(client.key)
        /\ ValueToString(c.key) # None /\ Named(client.key)
        /\ FromHashed(ValueToString(c.key)) = context.key
              <=> ValueToString(c.key) = ValueToString(client.key)
    BY <1>1, <1>2, <1>3, RequestsAssumption, ValueConveyed
  <2>2. ASSUME ~Beyond(c.key), ~Beyond(client.key)
        PROVE  /\ ValueToString(c.key) = Written(c.key)
               /\ ValueToString(client.key) = Written(client.key)
    BY <1>3, <2>1, <2>2, ValueConveyed
  <2>3. ASSUME Beyond(c.key), Beyond(client.key)
        PROVE  ValueToString(c.key) = ValueToString(client.key)
                 <=> (c.key.whole > I64Max <=> client.key.whole > I64Max)
    <3>1. /\ ValueToString(c.key) = ToString(IF c.key.whole > I64Max THEN I64Max ELSE I64Min)
          /\ ValueToString(client.key)
                = ToString(IF client.key.whole > I64Max THEN I64Max ELSE I64Min)
      BY <2>1, <2>3, BeyondIsNarrowed
    <3>2. QED
      BY <3>1, I64Assumption
  <2>4. QED
    BY <2>1, <2>2, <2>3
<1>4. IInv => KeysTellConversationsApart
  <2>1. ASSUME IInv, context.key # NoKey PROVE Named(client.key)
    BY <1>2, <2>1, ValueConveyed
  <2>2. QED
    BY <1>3, <2>1 DEF KeysTellConversationsApart
<1>5. QED
  BY <1>4, ExchangeInvariant, PTL

=============================================================================
