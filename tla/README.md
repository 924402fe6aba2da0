# A verification project for the REST-to-A2A policy

`rest-to-a2a-flex` is an HTTP filter for a gateway. It turns a REST request into
an A2A `SendMessage`, sends it to an upstream agent, and shapes the agent's reply
for the REST caller. A conversation of several turns is carried either by the
client (explicit mode) or by a conversation cache (cache mode) that may be local
to a gateway replica or replicated by gossip.

This directory holds TLA+ models of that program, TLC configurations that check
them, and TLAPS proofs about the conversation cache, the turns that use it, the
exchange around it and the fields a reply is shaped into. Source references are to
`src/rest-to-a2a-flex/src/` unless a longer path is given.

## Inventory

| Part | Source | State | Operations | Interacts with |
|---|---|---|---|---|
| Conversation store | `cache.rs` | one `ConversationEntry` per key, in the storage | `get_continuation`, `record_outcome` (`upsert`, `evict`) | awaits `DataStorage` at every access |
| Storage | PDK `DataStorage` | versioned items, TTL of the remote namespace | `get`, `store(Absent / Cas)`, `delete` | shared by all filter instances, by gossip also across replicas |
| Continuation routing | `continuation.rs` | `RequestContinuation`, carried from request to response filter | `resolve_cache`, `resolve_explicit`, `persist_outcome` | store, filters |
| Filters | `lib.rs` | one `RequestContext` per exchange; the headers and body in flight | `configure`, `request_filter`, `response_filter` | everything |
| A2A messages, bindings | `a2a.rs`, `binding.rs`, `jsonrpc.rs` | none | build, frame, parse, classify | filters |
| Response fields | `select.rs`, `response_build.rs` | the object under construction | `select`, `assemble` | response filter |
| Configuration | `config_map.rs`, `generated/config.rs` | `PolicyConfig` | `from_generated` | `configure` |
| DataWeave values | `dataweave.rs` | none | `value_to_string`, `value_to_json` | filters |
| Schema, tests, playground, build | `../rest-to-a2a-definition`, `tests`, `playground` | | | not modelled |

What is hard here:

- **Interleaving.** The store is a protocol of several awaits (`store(Absent)`,
  `get`, `store(Cas)`) and any number of filters run it on one key at a time.
- **Order of replies.** A client may start a turn before the last one ended. The
  response filters then record outcomes in any order: a late "continue" may meet
  a conversation that was closed in between.
- **Time.** An entry has a deadline of its own besides the TTL of the backend, both
  taken from a clock (`lib.rs:506`); `now` is sampled before an await; `now_millis()`
  is 0 on a clock error.
- **The gossip backend** may answer a read with an old copy, and may lose entries: in a
  single-replica gateway it keeps none across requests (`docs/spec.md:184-194`).
- **The agent's own pace.** A task whose reply was `submitted` or `working` is stored
  like any open one, and then ends between turns, when no reply says so.
- **Failure.** Any storage access may fail, with or without effect; CAS may be
  refused repeatedly; `set_body`, a mapping or the upstream may fail, each with
  its own posture (fail-closed before the upstream, non-fatal after it).
- **Phases.** Headers can be changed only before the body is read, so they are
  rewritten before it is known what the body will be.

What makes each part correct:

- store: a call is atomic to its callers; no call overwrites a closed conversation
  on the gossip backend; nothing is served beyond its TTL, however old the copy;
  every call returns.
- routing: a key isolates conversations; a client that waits for its answers sees
  a conversation: each turn resumes the task the last reply left open, and the entry
  goes when a reply says of that task that it ended.
- filters: only a framed `SendMessage` goes upstream; header and body agree;
  passthrough is untouched; the modes do not mix; what the store is told is what
  the agent meant, under a key that tells conversations apart and for the TTL that
  was configured; an unresumable reply is reported.
- messages: a `messageId` is used once.
- fields: every value of the result can be selected; earlier fields win,
  skipped fields are reported and leave no trace.

## Modules

```
ConversationEntry   DataStorage (external)            JsonTree (external)
     |        \        |                              /      \
     |         ConversationStore             A2AMessages   Selectors
     |          |      |      \                   |           |
     |          |   StaleReads  Turns         Exchange   ResponseFields   MessageIds
     |          |                 |               |           |
     |          |   Conversation (refined)   PolicyConfig  AtomicAssembly (refined)
AtomicConversationStore (refined)
```

`M`MC instantiates `M` for TLC, `M`Proofs holds the theorems about `M`;
`TurnsRefinement` proves that `Turns` implements `Conversation`. `JsonTreeProofs` holds
the lemmas on paths, trees and objects that `ExchangeProofs` and `ResponseFieldsProofs`
share.

`ConversationStore` is `cache.rs` with one action per storage access: between two
awaits of a call any other worker may take any number of steps. `pc[w]` names the
access a worker makes next, `call[w]` holds its arguments, `attempt[w]` the
iteration of the CAS loop, `seen[w]` the version it read. `UpsertCreate` is lines
200-209, `UpsertRead` / `UpsertRecreate` / `UpsertUpdate` the loop at 211-244,
`EvictDelete` 255-257, `EvictRead` / `EvictUpdate` 266-286; `Retry` is `continue`
with the exhaustion of the loop. `Faults` lets an access fail, before or after it
took effect, and lets a CAS be refused although the version matches.
`ClockMayFail` lets `now_millis()` return 0.

`DataStorage` is the PDK storage as `cache.rs` uses it. It is external, and what is
said of it is assumed: accesses are atomic; a version is never used twice, neither by
two items nor after a delete; the remote namespace is built with a TTL (`lib.rs:85-88`),
the local one without. The `MockStorage` of the unit tests is weaker: after a delete it
starts at version 1 again (cache.rs:365-369, 402-404), so a version read before the delete
may match the item stored after it. The proofs rest on the stronger assumption.

There is one clock, which every replica and the storage read. With `Lossy = FALSE`
the remote backend keeps an item for its TTL by that clock. With `Lossy = TRUE` it may
drop any item at any time: that is the single-replica gateway of
`docs/spec.md:184-194`, whose backend keeps nothing across requests (pinned by the test
`distributed_cache_does_not_persist_in_single_replica_local_mode`), and also a backend
whose clock runs ahead of the replicas'. What a property or theorem needs of the two
is said with it below; replicas whose clocks differ are not modelled.

`StaleReads` is the same store over reads that may be stale (`cache.rs:81-82`: "a
remote backend serving a stale gossip copy"). Nothing is known of how the library
picks a copy, so a `get` may answer any slot the key ever had (`copies`); writes
stay compare-and-swaps on the newest slot. `asked` is history: the ids and times
of the upserts that were started.

`AtomicConversationStore` is what the store promises: each call takes effect at
one instant, or gives up without effect. `ConversationStore` implements it with
`entries[k]` the item under `k` and `request[w]` the call with its access
forgotten.

`Turns` puts the store between clients and an agent in cache mode: `stage[w]`
follows a turn from `resolve_cache` through the agent to `persist_outcome`. The
store's actions are conjoined, so every store access is still its own step. The
agent creates and continues tasks, answers with a direct message, an error, or
something that is not parsed, and ends tasks on its own between turns
(`AgentEndsTask`): a task is "open", "ended" without the policy having been told, or
"reported" to have ended. Of an ended task a reply that names it can only be terminal;
the agent may as well answer with an error. `owner`, `promise` and `retired` are
history: for which key a task was made, what the next turn is entitled to, and
which tasks an acknowledged eviction has closed.

`Conversation` is what cache mode promises a client that sends the turns of a
conversation one after the other, in terms of tasks and time only: there is no
cache in it. A conversation is `at` a task for a TTL, at nothing otherwise; a turn
carries what its conversation is at; a reply moves it. The gossip backend is
`Forgetful`: a reply may leave no mark on a conversation that is at nothing. A `Lossy`
one may besides lapse at any time. `Turns`
implements it with `at[k]` the live entry under `k`; `Note` is the write of the
store call, wherever in the call that is.

`A2AMessages` builds, frames, parses and classifies messages as JSON trees
(`JsonTree`), without a single character of JSON text: a tree is a function on a
prefix-closed set of paths, a path a sequence of `Step`s, keys and indices. `PolicyConfig` goes from what
an operator writes, members and groups missing, selectors that do not compile, to
the configuration in use. `Exchange` is `lib.rs`: one exchange, its actions the
phases and awaits of the two filters, with `value_to_string` and `format_number` of
`dataweave.rs`. A message carries the body its content-length was computed for, so
a stale length can be told from a true one. `MessageIds` follows the `messageId`
over the requests of a filter, in two steps each as the two phases of the request
filter take it.

`Selectors` is `select.rs`: a selector is a sequence of lexemes (a key, a dot, a
bracket, white space), and goes through the prefix rule (`WithoutPayload`), the split
(`Tokens`) and the loop over the tokens (`PathOf`) as in the code. `Spellings` is the
reference: the ways the grammar in the comment of `select.rs` has to write a path, if it
has any (`Spellable`: a name with a dot or a bracket in it cannot be written, nor can an
empty one or one with white space around it).
`ResponseFields` selects all values and then walks the dotted names segment by
segment, as `assemble` does, so a half-built path is a state. `AtomicAssembly` is what
`assemble` promises, without a walk: a field whose name is `Free` is in the object with
its whole value, any other is reported. `ResponseFields` implements it with the object
as it was when the field was begun.

Definitions commented "Slip of X" are mistaken variants of X. No specification
uses them: each is put in the place of X to see that a property would notice.

## Runs

| Run | Question | Bounds | States |
|---|---|---|---|
| `store_stale` | lossy gossip backend with stale reads: `StaleIInv`, `NoResurrection`, `ServiceEndsWithTTL`, `AccessesRunOut`, `CallsReturn` | 2 workers, 1 key, 1 id and none, 2 CAS attempts, clock 1..2, TTL 1, 3 versions | 554,998 |
| `turns_local` | local backend: `KeyIsolation`, `ImplementsConversation`, `EvictsOnlyEnded` | 2 workers, 2 keys, 2 ids, 4 turns, clock 1..3 | 386,032 |
| `turns_remote` | lossy gossip backend: `OwnUnreportedTasks`, `ImplementsConversation` | 2 workers, 2 keys, 2 ids, 4 turns, clock 1..2 | 369,812 |
| `turns_remote_overlap` | overlapping turns and all storage faults, gossip backend that is not lossy: `ClosedStaysClosed`, `ImplementsAtomic` | 2 workers, 1 key, 2 ids, 4 turns, clock 1..2 | 737,585 |
| `exchange_holds` | the eight properties of one exchange | 115 configurations (every binding, mode and response type; groups missing), 31 requests, 8 replies, 2 statuses | 277,865 |
| `fields_assemble` | the six properties of selection and assembly | every list of up to 3 fields over 7 names and 4 selectors, 2 results | 310,116 |

The other six runs end in a counterexample; see Findings.

Two properties say less than their names may suggest:

- `EvictsOnlyEnded` asks that a live entry goes by TTL, or with a turn under its key that
  records a terminal reply. That this turn carried the very task of the entry it asks only
  for clients that wait (`Sequential`). Where turns overlap it is false, for `evict` never
  compares ids (cache.rs:276): the end of one task takes away the entry of the next.
- `UnresumableIsReported` is about the request: the warning comes exactly when it had
  neither a cache key nor ids. A continuable reply under a key that the store then does not
  keep is lost without that warning: swallowed by a tombstone (finding 1), refused by the
  storage (another warning), or dropped by a lossy backend.

Why these bounds are enough for the cases at stake: keys do not interact (every
action reads and writes one slot; the second key of the `turns` runs is there for
isolation). Two callers are enough for one to act between any two accesses of the
other; that any number behaves the same is proved for every property of the store and
of `Turns` but `CallsReturn`. So it is for `Exchange` and for the selection and assembly of fields,
where the bounds are on configurations, requests, replies, results and names. A CAS loop of 2 has a retry and an exhaustion. TTL 1 with a clock of
two values has entries written, expired, reclaimed and written again (a lossy backend
drops them at any time, so `turns_remote` needs no third). Four turns
open a task, run two overlapping turns on it, close it, and look again. Three
fields cover an object made on the way, a value in the way, and a duplicate. In
`Exchange` the run narrows i64 to -9..8 (`I64Min`, `I64Max`), so 9, 10 and -12 lie
beyond it, and of the doubles there are integers and halves; the TTLs written are missing, 30 and 90000, below
and above the range of the schema. `MaxTime`, `MaxVersion` (versions when a call
starts), `MaxTurns` and `MaxMessages` only cut behaviours short. Symmetry is used in
runs of safety properties only.

`CHECK_DEADLOCK FALSE` is stated for `Turns` (`MaxTurns` reached), `Exchange` (an
exchange ends), `MessageIds` (`MaxMessages`) and `ResponseFields` (an assembly ends).

Fairness: `StaleFairSpec` and `FairSpec` add weak fairness of each worker's storage
accesses. A filter is a future that the gateway polls until it completes, and the
storage answers every call, if only with an error or an old copy. Nothing is assumed
of who wins a CAS: `CallsReturn` holds because the loop counts. No fairness is asked
of clients, of the agent or of time.

## What is proved

`ConversationStoreProofs` proves, for any sets of workers, keys and ids, any TTL
and any positive number of CAS attempts, on both backends, with and without
faults (from the assumptions `EntryAssumption` and `StoreAssumption` only):

- `StoreInvariant`: `Spec => []IInv`, and `TypeCorrect`: `Spec => []TypeOK`;
- `ClosedIsFinal`: `Spec => NoResurrection`;
- `Linearizable`: `Spec => ImplementsAtomic`;
- `CallsAreBounded`: `Spec => AccessesRunOut`.

The guard against resurrection reads the entry before an await and writes after
it. That the write is harmless follows from `CasSeesLiveEntry`: a CAS that will
still succeed was prepared by reading a live entry, because a closed one makes
`upsert` return and a version stands for one item forever. For this to be
inductive, versions must be bounded by `lastVersion` (in `TypeOK`). Where the backend
is not lossy the abstract `Forget` needs `SlotOutlivesEntry`, since only the backend's TTL
removes an item and only an item no longer served may go; that in turn needs
`CallsStartedInThePast`, as `now` is sampled before the write. On a lossy backend `Forget`
asks nothing, and `NoResurrection` is about what calls do, not about what the backend
loses. `EvictsByBackend`
keeps deletes away from the gossip backend. `Linearizable` maps the step that
takes effect to `Perform`, the other steps of a call to a stutter, exhaustion and
failures to `GiveUp`, and a call whose guard found a tombstone to a `Perform` that
leaves it in place.

`AccessesRunOut` is what `CallsReturn` has of safety: `AccessesLeft` is a variant of a call, at
most `2 * CasMaxRetries + 1`, and any step that touches the call makes it smaller. The
bound of `attempt` alone would not do, since a loop goes back to its read; the proof has a
lemma for each way on (`ReturnUsesUp`, `GotoUsesUp`, `RetryUsesUp`).

`StaleReadsProofs` proves `NoResurrection` with stale reads
(`StaleClosedIsFinal`), the invariant the run checks
(`StaleInvariant`), `ServedWithinTTL`, and that even so a call has a bounded number of
accesses (`StaleCallsAreBounded`). A stale read can prepare a CAS from an old
copy, so `StaleIInv` adds to `IInv` that copies are history (`CopiesAreHistory`: a copy
with the version of the stored item is that item, hence an old one fails the CAS)
and that every live entry, stored or copied, stands for an upsert somebody asked for
(`LiveEntriesWereAsked`), whose time bounds what a lookup may answer.

`TurnsProofs` proves for `Turns`, with any overlap, binding and fault: `TurnsUseTheStore`
(every step of a filter is a step of the store, so all the theorems about the store
hold of it, `TurnsLinearizable` for one) and `TurnsAreIsolated`, `TurnsSpec =>
[]KeyIsolation`. `KeyIsolation` speaks of turns; what a turn carries comes from an
entry, that from a call, that from a reply, and that from the task of a turn, so the
invariant `TurnsIInv` says of all four that they name a task of their conversation
(`TasksKnown`), and `StagesMatch` that a call under way is the call of its turn.

`ConversationProofs` proves `ConversationsOwnTheirTasks`: in `Conversation` no turn is
sent with a task that is another's or that a reply has said to be over
(`OwnUnreportedTasks`). Between the reply that reports the end of a task and the note of
it the conversation is still at that task; that no turn can begin in between
(`OneTurnEach`) is what makes it so. A task that ended without a turn may well be sent:
nobody told the policy.

`TurnsProofs` also proves `RetiredTasksStayClosed`: `ClosedStaysClosed` for a gossip
backend that keeps an item for its TTL (on the local one it is false, finding 2; a lossy one
may lose the tombstone), whatever overlaps and fails. A retired task has its tombstone
under its key (`TombstonesHold`), which `ClosedIsFinal`'s step lemma keeps there until it
expires, and a lookup under another key cannot name the task (`TasksKnown`). That an evict
under way stands for a reply that ended its task is `RepliesInvariant` (`CallsMatchReplies`).

`TurnsRefinement` proves `TurnsAreConversations`, `TurnsSpec =>
ImplementsConversation`, for clients that wait for their answers, a storage and a clock
that work, and the JSON-RPC binding (`Sequential`), on both backends and for any number
of workers, keys, tasks and CAS attempts. The strengthening is `SequentialIInv`:
one turn per conversation (`OneTurnEach`), hence one store call per key, hence a CAS
that only the backend can make fail (`CallsAreAlone`), no late tombstone on the local
backend (`NoLocalTombstones`), and a turn that carries the task of the entry as long as
that is to be served (`TurnsCarryEntry`). Under it every access of a `record_outcome` leaves the
call under way, which is a stutter of `Conversation`, or is the write of its one
outcome (`AccessOutcome`), which is `Note`; a lookup is `Send`, a reclaim is `Lapse`.
`TurnsOwnTheirTasks` carries `ConversationsOwnTheirTasks` over to the cache: to such
clients no turn is sent with a task that is another's or was reported to have ended.

`OnlyEndedAreEvicted` is `EvictsOnlyEnded` under JSON-RPC (under HTTP+JSON it is false,
finding 3). What empties a slot is the backend or an evict under way, which stands for a
reply that ended the task of its turn (`OnlyEndedLeave`); that this is the task of the
entry is `TurnsCarryEntry`, which clients that wait are needed for.

`ExchangeProofs` proves every property of `exchange_holds`, for every configuration,
request, answer of the cache, reply and status, and any bounds of i64. The invariant
`IInv` has a part for each thing an exchange carries:

- `ResponseIInv`, the response phase by phase: what comes to be shaped has no length
  left, what does not is the upstream's. From it `LengthsAreTrue` and
  `PassthroughIsFaithful`.
- `ConfigIInv`: without a `cacheConfig` group there is no key selector, without a
  selector no key, without a key nothing is recorded. So the 60 s that the derived
  default of a missing group leads to is never the TTL of an entry (`TtlsAreStated`).
- `RequestIInv`: the context is that of the mode (`CacheContext`, `ExplicitContext`), and
  in phase "upstream" the request is `Framed`. `FramedParts` and `MessageParts` say what an
  agent of either binding reads in it, whatever members are there or not;
  `ValueConveyed`, that a text is the one the client wrote. From these `OnlyMessagesAreForwarded`,
  `ModesAreExclusive` and `KeysAreConversations`.
- `ReplyIInv`: until a reply is judged its body is what the agent said. `EncodedParts` and
  `ResultParts` undo the agent's encoding, in both bindings, wrapped and bare;
  `ParsedIsSaid` concludes that the class and the ids parsed are those meant, and
  `PersistJudges` that they are recorded or warned about. From it `RecordsAreTrue` and
  `LostTasksAreReported`.

`ResponseFieldsProofs` proves every property of the assembly, for every result, list of
fields and names: `EarlierFieldsWin`, `SkippedForAReason`, `PlacedOrReported` and the
action property `SkipsLeaveNoTrace`. None is inductive by itself. `WalkInv` says that the
walk stands on an object at the prefix of the name it has read, and that below an object
it has created there is nothing: so a collision comes before the first change, and a skip
leaves no trace. `OriginInv` says that whatever is in the object is there for a placed field
or by the walk under way: so what is in the way of a name belongs to a placed field.
`GraftExtends` says that a graft at a free path keeps every path and value there was.
`FieldsAreAtomic` is `Spec => ImplementsAssembly`. For it `TrailInv` compares the object
with the one before the field: what has been added are the objects on the way, and all
there is on the way is objects. Hence the graft at the end of the walk is `With`
(`GraftIsWith`), and a collision on the way is one with what earlier fields left.

`EveryValueIsReached` is `Spec => []SelectorsReach`: of every result and every path in it
that the grammar can write, at any depth, each spelling selects the value at that path. It
is a matter of induction on the path, and the induction theorems of the library take an
operator as a parameter, which the provers cannot instantiate. `JsonTreeProofs`
therefore has two facts about sets instead, both from the least-element theorem of the
naturals: a set that holds the empty sequence and with each sequence the ones an element
longer holds them all (`SequencesAll`), and a function defined by recursion on `Front`
exists (`FoldExists`), which gives `Tokens`, `PathOf` and `Spelling` their equations
(`TokensDef`, `PathOfDef`, `SpellingDef`). The set the induction runs over is `Reads`, the paths
whose spelling splits into well-formed tokens that resolve to the path: a name opens a token
(`TokenGrows`), an index lengthens the last one (`TokenLengthened`), and in both cases
the steps read grow by the one written (`StepRead`). `PayloadStripped` and `PayloadAbsent` then
say that the prefix rule takes away the prefix written and no more: a path that begins
with a member named payload is read correctly with the prefix, and without it is none of
its spellings.

The assumptions on constants, each with its reason:

- `StepAssumption`, `MembersAssumption`: the keys of the protocol are keys.
- `RawConfigsAssumption`, `FieldsAssumption`: what the types of `generated/config.rs` and
  `serde_json` allow: an optional group or number is given once or not at all, a value is a
  tree, a selector is text, and `split` yields at least one segment.
- `RequestsAssumption`: a selector evaluates to one of the values of the script engine, and
  no text is spelled like a mark of the model (`None`, "object" and so on), no decimal either.
  `ToString` stands for decimal notation and nothing more is asked of it: that a number and
  its text name one conversation is how `Written` is defined, not an assumption on `ToString`.
- `I64Assumption`: i64 has a least and a greatest value, written differently.
- `CachedAssumption`: the store answers what was put into it, two optional texts.
- `RepliesAssumption`: a task names its state and two ids where `parse_result` looks for
  them (a2a.rs:199-242), and an agent means by a state what the protocol does, `Alive` and
  `Done` for the states of spec.md:35-38. Of pages and errors nothing is assumed.

Only model-checked:

- `CallsReturn`: liveness, and with it `ENABLED`, is beyond the prover used here. What the
  run adds to `StaleCallsAreBounded` is that a call under way always has a step to take.
- The six claims under Findings, which are false: a counterexample is all there is to show.

## Findings

Each is a disagreement between what the repository says and what the code does,
and is shown by a run.

1. `turns_remote_forgets`: after a task ended, its tombstone makes `upsert`
   discard the first reply of the next task of that session (`cache.rs:215`).
   how-to.md:106 says the same `sessionId` resumes an `input-required` task.
2. `turns_local_revives`: the local backend deletes, so the guard of `upsert`
   cannot see that a conversation was closed; a late reply reopens it.
3. `turns_http_json_error`: under HTTP+JSON an error body is classified as a
   terminal result and evicts the conversation; spec.md:35-38 evicts on terminal
   task states only.
4. `store_clock_error`: `now = 0` makes every entry look alive, not expired as
   lib.rs:503-505 says.
5. `message_ids`: without `x-request-id` one prompt sent twice to one path has one
   `messageId`, which a2a.rs:246 says A2A requires to be unique.
6. `fields_verbatim`: a field named below an earlier one whose value is an object
   is written into that value; response_build.rs:22-23 says values are placed
   verbatim.

Known from reading and from the models, without a run of their own:

- Under JSON-RPC an error has no result, so it evicts nothing (lib.rs:385). An agent that
  answers a turn for a task that ended on its own with an error leaves the entry, and every
  further turn of the conversation carries the dead task until the TTL.
- When the TTL of the gossip namespace reclaims an entry while two turns of its task
  are under way, `evict` finds nothing, leaves no tombstone, and a late reply stores
  the closed task again (this is why `ClosedStaysClosed` speaks of evictions that met
  the entry).
- With a stale read an `evict` may find an old tombstone, or nothing, and return `Ok`
  without closing the entry that is there; the TTL ends it (`ServiceEndsWithTTL`).
- A body that is not JSON passes through a shaped response as `application/json`,
  against the comment at lib.rs:356-361.
- A missing `cacheConfig` yields a TTL of 60 s, not the 3600 s of the schema that
  config_map.rs:142-143 promises; that it is never used is proved.
- The header and the prompt are hashed as one text into the `messageId`, so `ab`, `c`
  and `a`, `bc` have one id.
- The local backend has no TTL, though cache.rs:145-146 leaves expired entries "for
  TTL": abandoned conversations stay.
- An empty `acceptedOutputModes` is sent as `[]`.
- spec.md says the raw branch returns before any body read; lib.rs:370 reads and
  parses the body for the continuation first.
- `classify_state` accepts the lower-case forms of the states, which a2a.rs:15-16 says
  are not accepted.
- `a..b`, `.b` and `b.` resolve as `a.b` and `b`, though the grammar in `select.rs` has
  no empty tokens.

## Not modelled

- How gossip converges. The PDK library is not part of the repository; `StaleReads`
  takes any read as possible, and writes as compare-and-swaps on one newest slot, even
  across replicas. Nor are replicas whose clocks differ.
- What DataWeave computes. A selector's value is an input; a mapping yields some
  object, or fails.
- The hash behind cache keys and message ids: it is taken to be injective.
- Full-width doubles, log wording, the status of a response beyond its being
  passed on. A medium type spelt in capitals (lib.rs:325 compares with case).
- Partial ids in the store: `taskId` and `contextId` travel together and are one
  value in `ConversationStore`; `Exchange` and `A2AMessages` tell them apart.
- The policy definition, the tests, the playground and the build files.

## Plan

Done, in this order: the store with its abstract specification and proofs; turns,
one exchange, the fields; then stale reads, the abstract conversation, message ids,
selectors and raw configurations, with the proofs that go with them; then the proofs
that turns implement the conversation and keep closed tasks closed; then those about JSON
trees, the request and the reply of an exchange, and the assembly of fields; then the
selectors and the number of accesses of a call; last a backend that loses entries, agents
that end tasks between turns, and which task an eviction ends.

Left:

- Overlapping turns in `Conversation`: what the gossip backend still promises when a
  client does not wait.
