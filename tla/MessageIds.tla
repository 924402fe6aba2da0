----------------------------- MODULE MessageIds -----------------------------
(***************************************************************************)
(* The messageId of a SendMessage, which is the JSON-RPC id too            *)
(* (src/a2a.rs, src/lib.rs), over the REST requests a filter serves.       *)
(*                                                                         *)
(* Header values, paths and prompts are sequences, for their concatenation *)
(* is hashed; the hash tells any two seeds apart.                          *)
(***************************************************************************)
EXTENDS Naturals, Sequences

CONSTANTS
  RequestIds,   \* values of x-request-id; whoever sets one uses it once; it may be missing
  Paths,
  Prompts,
  MaxMessages   \* bound on the requests

VARIABLES
  seeds,   \* id_seed of each request, taken in the headers phase
  ids,     \* messageId of each request once its body was read, else NoId
  used     \* values of x-request-id already seen

vars == <<seeds, ids, used>>

NoId == [none |-> TRUE]

GenerateMessageId(seed) == [sha256 |-> seed]

RequestHeaders ==
  /\ Len(seeds) < MaxMessages
  /\ \/ \E r \in RequestIds \ used : seeds' = Append(seeds, r) /\ used' = used \cup {r}
     \/ \E p \in Paths : seeds' = Append(seeds, p) /\ UNCHANGED used
  /\ ids' = Append(ids, NoId)

RequestBody(n) ==
  /\ ids[n] = NoId
  /\ \E prompt \in Prompts : ids' = [ids EXCEPT ![n] = GenerateMessageId(seeds[n] \o prompt)]
  /\ UNCHANGED <<seeds, used>>

Init == seeds = <<>> /\ ids = <<>> /\ used = {}

Next == RequestHeaders \/ \E n \in DOMAIN ids : RequestBody(n)

Spec == Init /\ [][Next]_vars

(* a2a.rs:246: "A2A requires a unique `messageId` per message".            *)
MessageIdsUnique ==
  \A m, n \in DOMAIN ids : ids[m] = ids[n] /\ ids[n] # NoId => m = n

=============================================================================
