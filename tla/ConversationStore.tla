------------------------- MODULE ConversationStore -------------------------
(***************************************************************************)
(* The gossip-safe conversation store (src/cache.rs) under concurrent      *)
(* callers.  A worker is one request or response filter inside a store     *)
(* call.  Every await on the storage is a step of its own, so the calls of *)
(* different workers interleave between any two storage accesses.          *)
(*                                                                         *)
(* pc[w] names the storage access the worker makes next:                   *)
(*   "get"                             get_continuation                    *)
(*   "create"                          upsert: store(Absent)               *)
(*   "read", "recreate", "update"      upsert: the CAS loop                *)
(*   "delete"                          evict on the local backend          *)
(*   "evictRead", "evictUpdate"        evict on the remote backend         *)
(*                                                                         *)
(* The taskId/contextId pair of a conversation always travels as a unit,   *)
(* so a Continuation is one value: a member of Ids, or NoIds for both None.*)
(***************************************************************************)
EXTENDS DataStorage, ConversationEntry

CONSTANTS
  Workers,        \* concurrent callers
  NoKey,          \* the key of no call
  Distributed,    \* remote (gossip) backend, or local
  Lossy,          \* the remote backend may lose an item before its TTL
  CasMaxRetries,  \* CAS_MAX_RETRIES
  Faults,         \* storage calls may fail and CAS may be refused spuriously
  ClockMayFail,   \* SystemTime may be before the epoch: now_millis() = 0
  MaxTime,        \* bound on clock
  MaxVersion      \* bound on lastVersion when a call starts

ASSUME StoreAssumption ==
  /\ NoKey \notin Keys
  /\ NoItem \notin Entry
  /\ Distributed \in BOOLEAN
  /\ Lossy \in BOOLEAN
  /\ Lossy => Distributed
  /\ CasMaxRetries \in Nat \ {0}
  /\ Faults \in BOOLEAN
  /\ ClockMayFail \in BOOLEAN
  /\ MaxTime \in Nat
  /\ MaxVersion \in Nat

VARIABLES
  pc,       \* next storage access of each worker, "idle" outside a call
  call,     \* arguments of the current call
  attempt,  \* iteration of the CAS loop
  seen,     \* version read by the CAS loop
  found,    \* continuation returned by the last call, a get_continuation
  result    \* outcome of the last call, a record_outcome

workerVars  == <<pc, call, attempt, seen, found, result>>
vars        == <<slots, lastVersion, clock, pc, call, attempt, seen, found, result>>

StateClasses == {"Continuable", "Terminal", "Unknown"}
Results      == {"none", "Ok", "CasConflict", "Storage"}
NoCall       == [key |-> NoKey, ids |-> NoIds, now |-> 0]
Calls        == [key : Keys, ids : Continuations, now : Nat] \cup {NoCall}
Upserting    == {"create", "read", "recreate", "update"}
Accesses == {"get", "create", "read", "recreate", "update",
             "delete", "evictRead", "evictUpdate"}

-----------------------------------------------------------------------------
(* Calls and returns *)

(* What now_millis() may return. *)
NowMillis == {clock} \cup (IF ClockMayFail THEN {0} ELSE {})

Start(w, access, k, ids) ==
  /\ pc[w] = "idle"
  /\ lastVersion < MaxVersion
  /\ pc' = [pc EXCEPT ![w] = access]
  /\ \E now \in NowMillis :
       call' = [call EXCEPT ![w] = [key |-> k, ids |-> ids, now |-> now]]
  /\ found' = [found EXCEPT ![w] = NoIds]
  /\ result' = [result EXCEPT ![w] = "none"]

Goto(w, access) ==
  /\ pc' = [pc EXCEPT ![w] = access]
  /\ UNCHANGED <<call, found, result>>

Return(w, ids, r) ==
  /\ pc' = [pc EXCEPT ![w] = "idle"]
  /\ call' = [call EXCEPT ![w] = NoCall]
  /\ attempt' = [attempt EXCEPT ![w] = 0]
  /\ seen' = [seen EXCEPT ![w] = 0]
  /\ found' = [found EXCEPT ![w] = ids]
  /\ result' = [result EXCEPT ![w] = r]

(* Slip of Retry: attempts are not counted. *)
RetryForever(w, access) ==
  /\ seen' = [seen EXCEPT ![w] = 0]
  /\ Goto(w, access)
  /\ UNCHANGED attempt

(* `continue` in a `for _ in 0..CAS_MAX_RETRIES` loop, and what follows it. *)
Retry(w, access) ==
  \/ /\ attempt[w] + 1 < CasMaxRetries
     /\ attempt' = [attempt EXCEPT ![w] = @ + 1]
     /\ seen' = [seen EXCEPT ![w] = 0]
     /\ Goto(w, access)
  \/ /\ attempt[w] + 1 >= CasMaxRetries
     /\ Return(w, NoIds, "CasConflict")

(* A write took effect; under Faults its acknowledgement may be lost. *)
Acknowledge(w) ==
  \E r \in {"Ok"} \cup (IF Faults THEN {"Storage"} ELSE {}) : Return(w, NoIds, r)

Write(w, item) == Put(call[w].key, item, TTL) /\ Acknowledge(w) /\ UNCHANGED clock

-----------------------------------------------------------------------------
(* get_continuation *)

GetContinuation(w, k) ==
  /\ Start(w, "get", k, NoIds)
  /\ UNCHANGED <<storageVars, attempt, seen>>

(* Slip of GetOf: is_expired is not asked. *)
GetOfIgnoringExpiry(w, slot) ==
  /\ pc[w] = "get"
  /\ Return(w, IF IsItem(slot) THEN slot.item.ids ELSE NoIds, "none")
  /\ UNCHANGED storageVars

(* The storage answers the get with this slot. *)
GetOf(w, slot) ==
  /\ pc[w] = "get"
  /\ Return(w, IF IsItem(slot) THEN Continuation(slot.item, call[w].now) ELSE NoIds, "none")
  /\ UNCHANGED storageVars

Get(w) == GetOf(w, slots[call[w].key])

-----------------------------------------------------------------------------
(* record_outcome *)

(* Slip of RecordOutcome: a delete on every backend. *)
RecordOutcomeDeleting(w, k, class, ids) ==
  /\ \/ class = "Continuable" /\ Start(w, "create", k, ids)
     \/ class = "Terminal" /\ Start(w, "delete", k, NoIds)
     \/ class = "Unknown" /\ pc[w] = "idle" /\ Return(w, NoIds, "Ok")
  /\ UNCHANGED <<storageVars, attempt, seen>>

RecordOutcome(w, k, class, ids) ==
  /\ \/ /\ class = "Continuable"
        /\ Start(w, "create", k, ids)
     \/ /\ class = "Terminal"
        /\ Start(w, IF Distributed THEN "evictRead" ELSE "delete", k, NoIds)
     \/ /\ class = "Unknown"
        /\ pc[w] = "idle"
        /\ Return(w, NoIds, "Ok")
  /\ UNCHANGED <<storageVars, attempt, seen>>

-----------------------------------------------------------------------------
(* upsert *)

IsClosed(slot) == IsItem(slot) /\ IsTerminal(slot.item)

Closed(k) == IsClosed(slots[k])

UpsertCreate(w) ==
  LET k == call[w].key IN
  /\ pc[w] = "create"
  /\ \/ /\ ~Holds(k)
        /\ Write(w, LiveEntry(call[w]))
     \/ /\ Holds(k)
        /\ Goto(w, "read")
        /\ UNCHANGED <<storageVars, attempt, seen>>

(* Slip of UpsertReadOf: the guard on a closed conversation is missing. *)
UpsertReadOfUnguarded(w, slot) ==
  /\ pc[w] = "read"
  /\ UNCHANGED <<storageVars, attempt>>
  /\ \/ /\ IsItem(slot)
        /\ seen' = [seen EXCEPT ![w] = slot.version]
        /\ Goto(w, "update")
     \/ /\ ~IsItem(slot)
        /\ Goto(w, "recreate")
        /\ UNCHANGED seen

UpsertReadOf(w, slot) ==
  /\ pc[w] = "read"
  /\ UNCHANGED storageVars
  /\ \/ /\ IsClosed(slot)
        /\ Return(w, NoIds, "Ok")
     \/ /\ IsItem(slot) /\ ~IsClosed(slot)
        /\ seen' = [seen EXCEPT ![w] = slot.version]
        /\ Goto(w, "update")
        /\ UNCHANGED attempt
     \/ /\ ~IsItem(slot)
        /\ Goto(w, "recreate")
        /\ UNCHANGED <<attempt, seen>>

UpsertRead(w) == UpsertReadOf(w, slots[call[w].key])

UpsertRecreate(w) ==
  LET k == call[w].key IN
  /\ pc[w] = "recreate"
  /\ \/ /\ ~Holds(k)
        /\ Write(w, LiveEntry(call[w]))
     \/ /\ Holds(k)
        /\ Retry(w, "read")
        /\ UNCHANGED storageVars

(* Slip of UpsertUpdate: the version read is not compared. *)
UpsertUpdateBlind(w) ==
  /\ pc[w] = "update"
  /\ Write(w, LiveEntry(call[w]))

UpsertUpdate(w) ==
  LET k == call[w].key IN
  /\ pc[w] = "update"
  /\ \/ /\ CasHolds(k, seen[w])
        /\ Write(w, LiveEntry(call[w]))
     \/ /\ ~CasHolds(k, seen[w]) \/ Faults
        /\ Retry(w, "read")
        /\ UNCHANGED storageVars

-----------------------------------------------------------------------------
(* evict *)

EvictDelete(w) ==
  /\ pc[w] = "delete"
  /\ Vacate(call[w].key)
  /\ Acknowledge(w)
  /\ UNCHANGED clock

(* Slip of EvictReadOf: any entry counts as evicted already. *)
EvictReadOfSkipping(w, slot) ==
  /\ pc[w] = "evictRead"
  /\ Return(w, NoIds, "Ok")
  /\ UNCHANGED storageVars

EvictReadOf(w, slot) ==
  /\ pc[w] = "evictRead"
  /\ UNCHANGED storageVars
  /\ \/ /\ ~IsItem(slot) \/ IsClosed(slot)
        /\ Return(w, NoIds, "Ok")
     \/ /\ IsItem(slot) /\ ~IsClosed(slot)
        /\ seen' = [seen EXCEPT ![w] = slot.version]
        /\ Goto(w, "evictUpdate")
        /\ UNCHANGED attempt

EvictRead(w) == EvictReadOf(w, slots[call[w].key])

(* Slip of EvictUpdate: the version read is not compared. *)
EvictUpdateBlind(w) ==
  /\ pc[w] = "evictUpdate"
  /\ Write(w, Tombstone(call[w]))

EvictUpdate(w) ==
  LET k == call[w].key IN
  /\ pc[w] = "evictUpdate"
  /\ \/ /\ CasHolds(k, seen[w])
        /\ Write(w, Tombstone(call[w]))
     \/ /\ ~CasHolds(k, seen[w]) \/ Faults
        /\ Retry(w, "evictRead")
        /\ UNCHANGED storageVars

-----------------------------------------------------------------------------
(* Failures and the passing of time *)

(* A storage call fails without effect: `_ => None` in get_continuation,   *)
(* `Err(other) => return Err(other.into())` everywhere else.               *)
GetError(w) ==
  /\ Faults
  /\ pc[w] = "get"
  /\ Return(w, NoIds, "none")
  /\ UNCHANGED storageVars

UpdateError(w) ==
  /\ Faults
  /\ pc[w] \in Accesses \ {"get"}
  /\ Return(w, NoIds, "Storage")
  /\ UNCHANGED storageVars

(* The remote namespace drops an item: at its TTL or, where the gossip     *)
(* backend keeps nothing for long (docs/spec.md:184-194) or times by a     *)
(* clock of its own, whenever it likes.                                    *)
Reclaim(k) ==
  /\ Distributed
  /\ Holds(k)
  /\ Lossy \/ clock >= slots[k].reclaim
  /\ Vacate(k)
  /\ UNCHANGED <<clock, workerVars>>

Tick ==
  /\ clock < MaxTime
  /\ clock' = clock + 1
  /\ UNCHANGED <<slots, lastVersion, workerVars>>

-----------------------------------------------------------------------------
Access(w) ==
  \/ Get(w) \/ GetError(w)
  \/ UpsertCreate(w) \/ UpsertRead(w) \/ UpsertRecreate(w) \/ UpsertUpdate(w)
  \/ EvictDelete(w) \/ EvictRead(w) \/ EvictUpdate(w)
  \/ UpdateError(w)

Environment == Tick \/ \E k \in Keys : Reclaim(k)

Init ==
  /\ StorageInit
  /\ pc = [w \in Workers |-> "idle"]
  /\ call = [w \in Workers |-> NoCall]
  /\ attempt = [w \in Workers |-> 0]
  /\ seen = [w \in Workers |-> 0]
  /\ found = [w \in Workers |-> NoIds]
  /\ result = [w \in Workers |-> "none"]

Next ==
  \/ \E w \in Workers, k \in Keys :
       \/ GetContinuation(w, k)
       \/ \E class \in StateClasses, ids \in Continuations : RecordOutcome(w, k, class, ids)
  \/ \E w \in Workers : Access(w)
  \/ Environment

Spec == Init /\ [][Next]_vars

(* Each filter is a future the gateway keeps polling, and the storage      *)
(* answers every call: a worker inside a call keeps taking its steps.      *)
FairSpec == Spec /\ \A w \in Workers : WF_vars(Access(w))

-----------------------------------------------------------------------------
(* Properties *)

(* The variables keep to their types; a retry never passes CAS_MAX_RETRIES *)
(* (cache.rs:39) and no stored version is newer than the last one given.   *)
TypeOK ==
  /\ lastVersion \in Nat
  /\ clock \in Nat
  /\ slots \in [Keys -> [item    : Entry \cup {NoItem},
                       version : 0..lastVersion,
                       reclaim : Nat]]
  /\ \A k \in Keys : Holds(k) => slots[k].item \in Entry
  /\ pc \in [Workers -> Accesses \cup {"idle"}]
  /\ call \in [Workers -> Calls]
  /\ attempt \in [Workers -> 0..(CasMaxRetries - 1)]
  /\ seen \in [Workers -> 0..lastVersion]
  /\ found \in [Workers -> Continuations]
  /\ result \in [Workers -> Results]
  /\ \A w \in Workers : IF pc[w] = "idle" THEN call[w] = NoCall ELSE call[w].key \in Keys

(* The distributed backend is only ever evicted from by tombstones, the    *)
(* local one only by deletes.                                              *)
EvictsByBackend ==
  \A w \in Workers :
    /\ pc[w] = "delete" => ~Distributed
    /\ pc[w] \in {"evictRead", "evictUpdate"} => Distributed

(* The namespace TTL of a slot never ends before its entry stops being     *)
(* served: both are TTL long, and the entry's was started first.           *)
SlotOutlivesEntry ==
  \A k \in Keys : Holds(k) => slots[k].item.expires <= slots[k].reclaim

(* No call works with a time in the future. *)
CallsStartedInThePast == \A w \in Workers : call[w].now <= clock

(* A CAS that will still succeed was prepared by reading a live entry, for *)
(* the guard on a closed one returned early and no version is used twice.  *)
CasSeesLiveEntry ==
  \A w \in Workers :
    /\ pc[w] \in {"update", "evictUpdate"} => seen[w] > 0
    /\ pc[w] \in {"update", "evictUpdate"} /\ CasHolds(call[w].key, seen[w])
         => ~Closed(call[w].key)

(* The inductive invariant behind the properties below. *)
IInv ==
  /\ TypeOK
  /\ EvictsByBackend
  /\ SlotOutlivesEntry
  /\ CallsStartedInThePast
  /\ CasSeesLiveEntry

(* cache.rs:183-186, 214: on the gossip backend a closed conversation is   *)
(* never overwritten, by any interleaving of upserts and evicts.  Only the *)
(* backend itself drops it: a lossy one at any time, any other by TTL,     *)
(* once its tombstone is no longer needed.                                 *)
StaysClosed(k) ==
  Distributed /\ Closed(k) =>
    \/ slots'[k] = slots[k]
    \/ slots'[k] = VacantSlot /\ (Lossy \/ IsExpired(slots[k].item, clock))

NoResurrection == [][\A k \in Keys : StaysClosed(k)]_vars

(* Every call behaves as if it took effect at one instant, whatever the    *)
(* others do between its storage accesses.                                 *)
Op(access) ==
  CASE access = "idle"                                        -> "none"
    [] access = "get"                                         -> "get"
    [] access \in Upserting                                   -> "upsert"
    [] access \in {"delete", "evictRead", "evictUpdate"}      -> "evict"

Atomic == INSTANCE AtomicConversationStore WITH
  entries <- [k \in Keys |-> IF Holds(k) THEN slots[k].item ELSE NoItem],
  request <- [w \in Workers |-> [op  |-> Op(pc[w]),     key |-> call[w].key,
                                 ids |-> call[w].ids,  now |-> call[w].now]]

ImplementsAtomic == Atomic!Spec

(* The storage accesses left to a call, at most: two for every attempt at  *)
(* the CAS, a get and a store, and the first store of an upsert.           *)
AccessesLeft(w) ==
  LET attempts == 2 * (CasMaxRetries - 1 - attempt[w])
  IN  CASE pc[w] = "idle"                                   -> 0
        [] pc[w] \in {"get", "delete"}                      -> 1
        [] pc[w] \in {"recreate", "update", "evictUpdate"}  -> attempts + 1
        [] pc[w] \in {"read", "evictRead"}                  -> attempts + 2
        [] pc[w] = "create"                                 -> attempts + 3

(* cache.rs:37-39, 211, 266: whatever the others write between its         *)
(* accesses and whatever copy it reads, each access of a call uses up one  *)
(* of those left to it: a call makes at most 2 * CAS_MAX_RETRIES + 1.      *)
UsesUpAccess(w) ==
  pc[w] # "idle" => \/ UNCHANGED <<pc[w], call[w], attempt[w], seen[w]>>
                    \/ AccessesLeft(w)' < AccessesLeft(w)

AccessesRunOut == [][\A w \in Workers : UsesUpAccess(w)]_vars

(* cache.rs:37-39: a contended call is abandoned after CAS_MAX_RETRIES, so *)
(* every call returns, however often the others get in between.            *)
CallsReturn == \A w \in Workers : pc[w] # "idle" ~> pc[w] = "idle"

(* lib.rs:503-505: "A clock error degrades to `0` (entries then look       *)
(* already-expired, which fails safe toward a fresh send)."                *)
ClockErrorFailsSafe ==
  [][\A w \in Workers :
       pc[w] = "get" /\ pc'[w] = "idle" /\ call[w].now = 0 => found'[w] = NoIds]_vars

=============================================================================
