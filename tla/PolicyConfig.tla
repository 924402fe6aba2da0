---------------------------- MODULE PolicyConfig ----------------------------
(***************************************************************************)
(* From the operator's configuration to the one the filters use            *)
(* (src/generated/config.rs, src/config_map.rs).  A raw configuration is a *)
(* record; a member or a group that may be missing is a set with at most   *)
(* one element.  A selector is "none", a "script", or "broken": what does  *)
(* not compile.  Enum strings are given trimmed and in lower case, as the  *)
(* parsers compare them.                                                   *)
(***************************************************************************)
EXTENDS Integers

Unwrap(option, default) == IF option = {} THEN default ELSE CHOOSE x \in option : TRUE

Clamp(v, low, high) == IF v < low THEN low ELSE IF v > high THEN high ELSE v

BindingOf(s) ==
  CASE s \in {"jsonrpc", "json-rpc", "json_rpc"}               -> "JsonRpc"
    [] s \in {"httpjson", "http+json", "http-json", "http_json"} -> "HttpJson"
    [] OTHER                                                   -> "unknown"

ContinuationModeOf(s) ==
  CASE s = "cache" -> "Cache" [] s = "explicit" -> "Explicit" [] s = "none" -> "None"
    [] OTHER -> "unknown"

ResponseTypeOf(s) ==
  CASE s = "raw" -> "Raw" [] s = "mapping" -> "Mapping" [] s = "fields" -> "Fields"
    [] OTHER -> "unknown"

-----------------------------------------------------------------------------
(* config.rs: a missing member takes its serde default, a missing group is *)
(* None.                                                                   *)
SchemaTtl == 3600
MinTtl    == 60
MaxTtl    == 86400

(* Slip of CacheGroup: the TTL without a default function, so it is i64's. *)
CacheGroupWithoutTtl(g) ==
  [contextKeySelector     |-> g.contextKeySelector,
   distributed            |-> Unwrap(g.distributed, FALSE),
   conversationTtlSeconds |-> Unwrap(g.conversationTtlSeconds, 0)]

CacheGroup(g) ==
  [contextKeySelector     |-> g.contextKeySelector,
   distributed            |-> Unwrap(g.distributed, FALSE),
   conversationTtlSeconds |-> Unwrap(g.conversationTtlSeconds, SchemaTtl)]

A2aGroup(g) ==
  [acceptedOutputModes |-> g.acceptedOutputModes, blocking |-> Unwrap(g.blocking, TRUE)]

Selectors(raw) ==
  {raw.promptSelector, raw.metadataSelector}
    \cup {g.contextKeySelector : g \in raw.cacheConfig}
    \cup UNION {{g.taskIdSelector, g.contextIdSelector} : g \in raw.explicitConfig}
    \cup {g.responseMapping : g \in raw.mappingConfig}

(* Every selector that is there compiles, and the prompt's is there. *)
Deserializes(raw) == raw.promptSelector = "script" /\ "broken" \notin Selectors(raw)

-----------------------------------------------------------------------------
(* config_map.rs *)

(* The derived Default of a group that is missing. *)
CacheConfigDefault ==
  [contextKeySelector |-> "none", distributed |-> FALSE, conversationTtlSeconds |-> 0]

ExplicitConfigDefault == [taskIdSelector |-> "none", contextIdSelector |-> "none"]

MappingConfigDefault == [responseMapping |-> "none"]

Binding(raw)          == BindingOf(Unwrap(raw.upstreamBinding, "jsonrpc"))
ContinuationMode(raw) == ContinuationModeOf(Unwrap(raw.continuationMode, "none"))
ResponseType(raw)     == ResponseTypeOf(Unwrap(raw.responseType, "raw"))

Accepted(raw) ==
  /\ Deserializes(raw)
  /\ "unknown" \notin {Binding(raw), ContinuationMode(raw), ResponseType(raw)}

(* PolicyConfig::from_generated, of an accepted configuration. *)
FromGenerated(raw) ==
  LET cache    == Unwrap({CacheGroup(g) : g \in raw.cacheConfig}, CacheConfigDefault)
      explicit == Unwrap(raw.explicitConfig, ExplicitConfigDefault)
      mapping  == Unwrap(raw.mappingConfig, MappingConfigDefault)
  IN [binding            |-> Binding(raw),
      mode               |-> ContinuationMode(raw),
      contextKeySelector |-> cache.contextKeySelector,
      taskIdSelector     |-> explicit.taskIdSelector,
      contextIdSelector  |-> explicit.contextIdSelector,
      responseType       |-> ResponseType(raw),
      responseMapping    |-> mapping.responseMapping,
      metadataSelector   |-> raw.metadataSelector,
      sendConfiguration  |-> {A2aGroup(g) : g \in raw.a2aConfiguration},
      distributed        |-> cache.distributed,
      ttl                |-> Clamp(cache.conversationTtlSeconds, MinTtl, MaxTtl),
      requestErrorStatus |-> Clamp(Unwrap(raw.requestErrorStatus, 400), 400, 599)]

(* configure builds a storage in cache mode only. *)
UsesCache(config) == config.mode = "Cache"

=============================================================================
