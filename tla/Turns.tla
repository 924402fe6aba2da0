------------------------------- MODULE Turns -------------------------------
(***************************************************************************)
(* Multi-turn continuation end to end, in cache mode: clients, the request *)
(* and response filters (src/lib.rs, src/continuation.rs), the store of    *)
(* ConversationStore and the upstream agent.                               *)
(*                                                                         *)
(* A worker carries one turn at a time.  stage[w] tells how far it is:     *)
(*   "resolving"   the request filter is in get_continuation               *)
(*   "sent"        the SendMessage is with the agent                       *)
(*   "answered"    the agent has acted, its reply is on the way            *)
(*   "recording"   the response filter is in record_outcome                *)
(* Replies of overlapping turns are delivered in any order, for the agent  *)
(* answers each turn by itself.  It also ends tasks by itself, between     *)
(* turns: the policy hears of that only from the reply to a later turn.    *)
(***************************************************************************)
EXTENDS ConversationStore

CONSTANTS
  Binding,   \* upstreamBinding: "JsonRpc" or "HttpJson"
  Overlap,   \* a client may start a turn before the last one under the key ended
  MaxTurns   \* bound on the turns started

ASSUME TurnsAssumption ==
  /\ Binding \in {"JsonRpc", "HttpJson"}
  /\ Overlap \in BOOLEAN
  /\ MaxTurns \in Nat

VARIABLES
  stage,     \* progress of each worker's turn, "idle" outside a turn
  turn,      \* the RequestContinuation: its cache key and the ids it carries
  reply,     \* the upstream's reply
  task,      \* the agent's tasks: "none", "open", "ended", or "reported" to have ended
  turns,     \* turns started so far
  owner,     \* owner[i]: key of the turn that task i was created for
  promise,   \* promise[k]: the ids the next turn under k should carry, and till when
  retired    \* tasks whose entry an acknowledged eviction met, and for how long

turnVars  == <<stage, turn, reply, task, turns, owner, promise, retired>>
storeVars == <<slots, lastVersion, clock, pc, call, attempt, seen, found, result>>
allVars   == <<slots, lastVersion, clock, pc, call, attempt, seen, found, result,
               stage, turn, reply, task, turns, owner, promise, retired>>

NoTurn    == [key |-> NoKey, ids |-> NoIds]
NoReply   == [kind |-> "none", ids |-> NoIds, class |-> "Unknown"]
NoPromise == [ids |-> NoIds, until |-> 0]

-----------------------------------------------------------------------------
(* Request filter *)

(* Sequential clients wait for the answer before the next turn of a        *)
(* conversation.                                                           *)
MayStart(k) == Overlap \/ \A w \in Workers : turn[w].key # k

(* Cache mode with a conversation value: look the continuation up. *)
StartTurn(w, k) ==
  /\ stage[w] = "idle"
  /\ turns < MaxTurns
  /\ MayStart(k)
  /\ GetContinuation(w, k)
  /\ stage' = [stage EXCEPT ![w] = "resolving"]
  /\ turn' = [turn EXCEPT ![w] = [key |-> k, ids |-> NoIds]]
  /\ turns' = turns + 1
  /\ UNCHANGED <<reply, task, owner, promise, retired>>

(* No conversation value: a single-shot send, without a cache key. *)
StartSingleShot(w) ==
  /\ stage[w] = "idle"
  /\ turns < MaxTurns
  /\ stage' = [stage EXCEPT ![w] = "sent"]
  /\ turn' = [turn EXCEPT ![w] = NoTurn]
  /\ turns' = turns + 1
  /\ UNCHANGED <<storeVars, reply, task, owner, promise, retired>>

(* The ids found are put into the message and the message is sent; when    *)
(* set_body fails the request is rejected instead.                         *)
ResolveTurn(w) ==
  /\ stage[w] = "resolving"
  /\ Get(w) \/ GetError(w)
  /\ \/ /\ stage' = [stage EXCEPT ![w] = "sent"]
        /\ turn' = [turn EXCEPT ![w].ids = found'[w]]
     \/ /\ Faults
        /\ stage' = [stage EXCEPT ![w] = "idle"]
        /\ turn' = [turn EXCEPT ![w] = NoTurn]
  /\ UNCHANGED <<reply, task, turns, owner, promise, retired>>

-----------------------------------------------------------------------------
(* The upstream agent *)

Answer(w, kind, ids, class) ==
  /\ stage[w] = "sent"
  /\ stage' = [stage EXCEPT ![w] = "answered"]
  /\ reply' = [reply EXCEPT ![w] = [kind |-> kind, ids |-> ids, class |-> class]]
  /\ UNCHANGED <<storeVars, turn, turns, promise, retired>>

TaskAfter(class) == IF class = "Terminal" THEN "reported" ELSE "open"

AgentCreatesTask(w) ==
  /\ turn[w].ids = NoIds
  /\ \E i \in Ids, class \in StateClasses :
       /\ task[i] = "none"
       /\ task' = [task EXCEPT ![i] = TaskAfter(class)]
       /\ owner' = [owner EXCEPT ![i] = turn[w].key]
       /\ Answer(w, "task", i, class)

(* Of a task that has ended, a reply that names it can only say so. *)
AgentContinuesTask(w) ==
  LET i == turn[w].ids IN
  /\ i \in Ids
  /\ \E class \in StateClasses :
       /\ task[i] = "open" \/ class = "Terminal"
       /\ Answer(w, "task", i, class)
       /\ task' = [task EXCEPT ![i] = TaskAfter(class)]
  /\ UNCHANGED owner

(* A direct message has no task; an error envelope; a reply that is a      *)
(* stream, not JSON, or the gateway's own when the upstream is down.       *)
AgentAnswersOtherwise(w) ==
  /\ \/ Answer(w, "message", NoIds, "Terminal")
     \/ Answer(w, "error", NoIds, "Unknown")
     \/ Answer(w, "opaque", NoIds, "Unknown")
  /\ UNCHANGED <<task, owner>>

(* A task whose reply was `submitted` or `working` runs on and ends between *)
(* turns, as may one the agent gives up on.                                 *)
AgentEndsTask(i) ==
  /\ task[i] = "open"
  /\ task' = [task EXCEPT ![i] = "ended"]
  /\ UNCHANGED <<storeVars, stage, turn, reply, turns, owner, promise, retired>>

-----------------------------------------------------------------------------
(* Response filter *)

(* Slip of HasResult: an error envelope is classified under both bindings. *)
HasResultOnError(r) == r.kind \in {"task", "message", "error"}

(* parse_response leaves something to classify: under HTTP+JSON the whole  *)
(* body, an error envelope too.                                            *)
HasResult(r) ==
  CASE Binding = "JsonRpc"  -> r.kind \in {"task", "message"}
    [] Binding = "HttpJson" -> r.kind \in {"task", "message", "error"}

(* Slip of ClassOf: a terminal spelling is not recognised. *)
ClassOfMisspelt(r) == IF r.class = "Terminal" THEN "Unknown" ELSE r.class

(* ParsedResult::class: without a task state the reply is terminal. *)
ClassOf(r) == IF r.kind = "task" THEN r.class ELSE "Terminal"

Persists(w) == HasResult(reply[w]) /\ turn[w].key # NoKey

(* What the reply means for the conversation, by the documented lifecycle. *)
PromiseAfter(w) ==
  LET r == reply[w] IN
  CASE r.class = "Continuable" -> [ids |-> r.ids, until |-> clock + TTL]
    [] r.class = "Terminal"    -> NoPromise
    [] r.class = "Unknown"     -> promise[turn[w].key]

EndTurn(w) ==
  /\ stage' = [stage EXCEPT ![w] = "idle"]
  /\ turn' = [turn EXCEPT ![w] = NoTurn]
  /\ reply' = [reply EXCEPT ![w] = NoReply]

EndTurnOnReturn(w) ==
  \/ pc'[w] = "idle" /\ EndTurn(w)
  \/ pc'[w] # "idle" /\ stage' = [stage EXCEPT ![w] = "recording"] /\ UNCHANGED <<turn, reply>>

(* Slip of PersistOutcome: the key is not the one the turn was started with. *)
PersistOutcomeElsewhere(w) ==
  /\ stage[w] = "answered"
  /\ Persists(w)
  /\ \E k \in Keys : RecordOutcome(w, k, ClassOf(reply[w]), reply[w].ids)
  /\ EndTurnOnReturn(w)
  /\ promise' = [promise EXCEPT ![turn[w].key] = PromiseAfter(w)]
  /\ UNCHANGED <<task, turns, owner, retired>>

PersistOutcome(w) ==
  /\ stage[w] = "answered"
  /\ Persists(w)
  /\ RecordOutcome(w, turn[w].key, ClassOf(reply[w]), reply[w].ids)
  /\ EndTurnOnReturn(w)
  /\ promise' = [promise EXCEPT ![turn[w].key] = PromiseAfter(w)]
  /\ UNCHANGED <<task, turns, owner, retired>>

PassThrough(w) ==
  /\ stage[w] = "answered"
  /\ ~Persists(w)
  /\ EndTurn(w)
  /\ UNCHANGED <<storeVars, task, turns, owner, promise, retired>>

(* A tombstone holds until it expires; a deletion should for a TTL.        *)
Retires(w) ==
  LET k    == turn[w].key
      left == slots'[k]
  IN  IF result'[w] = "Ok" /\ reply[w].class = "Terminal" /\ turn[w].ids # NoIds /\ Holds(k)
      THEN {[task |-> turn[w].ids,
             until |-> IF left = VacantSlot THEN call[w].now + TTL ELSE left.item.expires]}
      ELSE {}

RecordStep(w) ==
  /\ stage[w] = "recording"
  /\ Access(w)
  /\ EndTurnOnReturn(w)
  /\ retired' = retired \cup Retires(w)
  /\ UNCHANGED <<task, turns, owner, promise>>

-----------------------------------------------------------------------------
TurnsInit ==
  /\ Init
  /\ stage = [w \in Workers |-> "idle"]
  /\ turn = [w \in Workers |-> NoTurn]
  /\ reply = [w \in Workers |-> NoReply]
  /\ task = [i \in Ids |-> "none"]
  /\ turns = 0
  /\ owner = [i \in Ids |-> NoKey]
  /\ promise = [k \in Keys |-> NoPromise]
  /\ retired = {}

TurnStep(w) ==
  \/ \E k \in Keys : StartTurn(w, k)
  \/ StartSingleShot(w)
  \/ ResolveTurn(w)
  \/ AgentCreatesTask(w) \/ AgentContinuesTask(w) \/ AgentAnswersOtherwise(w)
  \/ PersistOutcome(w) \/ PassThrough(w) \/ RecordStep(w)

TurnsNext ==
  \/ \E w \in Workers : TurnStep(w)
  \/ \E i \in Ids : AgentEndsTask(i)
  \/ Environment /\ UNCHANGED turnVars

TurnsSpec == TurnsInit /\ [][TurnsNext]_allVars

-----------------------------------------------------------------------------
(* Properties *)

Live(k) == Holds(k) /\ IsContinuable(slots[k].item)

Resolves(w) == stage[w] = "resolving" /\ stage'[w] = "sent"

(* README.md, spec.md: the conversation key isolates conversations.  A turn *)
(* never carries the task of another key, nor a single-shot turn any task.  *)
KeyIsolation ==
  \A w \in Workers : turn[w].ids # NoIds => owner[turn[w].ids] = turn[w].key

(* What makes it so.  The filters and the store agree on how far a turn    *)
(* is, and whoever names a task names one of its conversation: the entries *)
(* stored, the upserts under way, the turns and the replies.               *)
TurnsTyped ==
  /\ stage \in [Workers -> {"idle", "resolving", "sent", "answered", "recording"}]
  /\ turn \in [Workers -> [key : Keys \cup {NoKey}, ids : Continuations]]
  /\ reply \in [Workers -> [kind  : {"none", "task", "message", "error", "opaque"},
                            ids   : Continuations,
                            class : StateClasses]]
  /\ task \in [Ids -> {"none", "open", "ended", "reported"}]
  /\ owner \in [Ids -> Keys \cup {NoKey}]

StagesMatch ==
  \A w \in Workers :
    /\ stage[w] = "idle" => turn[w] = NoTurn
    /\ stage[w] \in {"idle", "resolving", "sent"} => reply[w] = NoReply
    /\ stage[w] \in {"idle", "sent", "answered"} <=> pc[w] = "idle"
    /\ stage[w] = "resolving" <=> pc[w] = "get"
    /\ pc[w] # "idle" => call[w].key = turn[w].key

Known(i, k) == i # NoIds => task[i] # "none" /\ owner[i] = k

TasksKnown ==
  /\ \A k \in Keys : Holds(k) => Known(slots[k].item.ids, k)
  /\ \A w \in Workers :
       /\ Known(turn[w].ids, turn[w].key)
       /\ Known(reply[w].ids, turn[w].key)
       /\ Known(call[w].ids, turn[w].key)

TurnsIInv == IInv /\ TurnsTyped /\ StagesMatch /\ TasksKnown

(* And a call that records stands for the reply of its turn. *)
CallsMatchReplies ==
  \A w \in Workers :
    /\ stage[w] \in {"answered", "recording"} => reply[w].kind # "none"
    /\ reply[w].kind = "message" => reply[w].class = "Terminal"
    /\ reply[w].kind \in {"none", "error", "opaque"} => reply[w].class = "Unknown"
    /\ stage[w] = "recording" =>
         /\ HasResult(reply[w])
         /\ ClassOf(reply[w]) = IF pc[w] \in Upserting THEN "Continuable" ELSE "Terminal"
    /\ pc[w] \in Upserting => call[w].ids = reply[w].ids

(* On the gossip backend a retired task has its tombstone under its key,   *)
(* for as long as it is retired.                                           *)
TombstonesHold ==
  \A r \in retired :
    LET k == owner[r.task] IN
    /\ r.task \in Ids /\ task[r.task] # "none" /\ k \in Keys /\ r.until \in Nat
    /\ clock < r.until => Closed(k) /\ r.until <= slots[k].item.expires

(* A call under way has no result, so "Ok" is that of the step it is from. *)
NoResultYet == \A w \in Workers : pc[w] # "idle" => result[w] = "none"

(* docs/spec.md: to clients that send turn after turn the cache is a       *)
(* conversation: what the store holds live is the task it is at.  Only the *)
(* gossip backend may fail to remember one.                                *)
StageOf(w) ==
  CASE stage[w] = "idle"      -> "none"
    [] stage[w] = "resolving" -> "begun"
    [] stage[w] = "recording" -> "noting"
    [] OTHER                  -> stage[w]

Conv == INSTANCE Conversation WITH
  Forgetful <- Distributed,
  at <- [k \in Keys |-> IF Live(k) THEN [ids   |-> slots[k].item.ids,
                                         until |-> slots[k].item.expires]
                        ELSE NoPromise],
  turn <- [w \in Workers |-> [stage |-> StageOf(w), key |-> turn[w].key, ids |-> turn[w].ids,
                              since |-> call[w].now,
                              said |-> reply[w].ids, class |-> reply[w].class]],
  tasks <- [i \in Ids |-> [key |-> owner[i], state |-> task[i]]]

ImplementsConversation == Conv!Spec

(* What makes it so, for such clients: a store call has its key to itself, *)
(* but for the backend, and stands for the reply of its turn, which        *)
(* carries the task of the entry, if that is still to be served.           *)
Sequential == ~Overlap /\ Binding = "JsonRpc" /\ ~Faults /\ ~ClockMayFail

OneTurnEach ==
  \A v, w \in Workers : turn[v].key = turn[w].key /\ turn[v].key # NoKey => v = w

CallsAreAlone ==
  \A w \in Workers :
    /\ pc[w] = "recreate" => Distributed /\ ~Holds(call[w].key)
    /\ pc[w] \in {"read", "update"} => Distributed \/ Holds(call[w].key)
    /\ pc[w] \in {"update", "evictUpdate"} /\ Holds(call[w].key) =>
         CasHolds(call[w].key, seen[w])

NoLocalTombstones == \A k \in Keys : Closed(k) => Distributed

TurnsCarryEntry ==
  \A w \in Workers :
    LET k == turn[w].key IN
    /\ stage[w] \in {"sent", "answered", "recording"} /\ k # NoKey
    /\ Live(k) /\ ~IsExpired(slots[k].item, clock)
    => turn[w].ids = slots[k].item.ids

SequentialIInv ==
  /\ TurnsIInv /\ OneTurnEach /\ CallsMatchReplies /\ CallsAreAlone
  /\ NoLocalTombstones /\ TurnsCarryEntry

OwnUnreportedTasks == Conv!OwnUnreportedTasks

(* how-to.md:106: "Same `sessionId` resumes an `input-required` task".     *)
NextTurnResumes ==
  [][\A w \in Workers :
       Resolves(w) /\ clock < promise[turn[w].key].until =>
         turn'[w].ids = promise[turn[w].key].ids]_allVars

(* cache.rs:12-15, 183-186: once an eviction that met the entry of a task   *)
(* is acknowledged, no lookup answers that task while the tombstone holds,  *)
(* whatever replies were still on the way; unless the backend lost it.      *)
ClosedStaysClosed ==
  [][\A w \in Workers : Resolves(w) =>
       ~ \E r \in retired : r.task = turn'[w].ids /\ clock < r.until]_allVars

(* spec.md:35-39: a live entry leaves the cache by TTL, or on a terminal   *)
(* task state or a direct message: the reply to a turn of its conversation *)
(* that carried the very task of the entry.  That it did is promised only  *)
(* to clients that send turn after turn.  Ids are never compared           *)
(* (cache.rs:276), so where turns overlap the end of one task also takes   *)
(* away the entry of the next.                                             *)
EvictedBy(w, k) ==
  /\ stage[w] = "recording"
  /\ turn[w].key = k
  /\ reply[w].class = "Terminal"
  /\ Sequential => turn[w].ids = slots[k].item.ids

Leaves(k) ==
  \/ IsExpired(slots[k].item, clock)
  \/ Lossy /\ slots'[k] = VacantSlot
  \/ \E w \in Workers : EvictedBy(w, k)

EvictsOnlyEnded == [][\A k \in Keys : Live(k) /\ ~Live(k)' => Leaves(k)]_allVars

=============================================================================
