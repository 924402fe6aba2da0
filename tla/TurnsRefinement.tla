-------------------------- MODULE TurnsRefinement --------------------------
(***************************************************************************)
(* To clients that send the turns of a conversation one after the other,   *)
(* the cache under the filters is the conversation of Conversation, for    *)
(* every number of turns, workers, keys and tasks, on both backends.       *)
(* Proved for a storage that answers and a clock that does not fail, under *)
(* the JSON-RPC binding: Sequential names these.                           *)
(***************************************************************************)
EXTENDS TurnsProofs

-----------------------------------------------------------------------------
(* A call that has its key to itself                                       *)

AloneAt(w) ==
  LET k == call[w].key IN
  /\ pc[w] = "recreate" => Distributed /\ ~Holds(k)
  /\ pc[w] \in {"read", "update"} => Distributed \/ Holds(k)
  /\ pc[w] \in {"update", "evictUpdate"} /\ Holds(k) => CasHolds(k, seen[w])

LEMMA Wrote ==
  ASSUME TypeOK, NEW w \in Workers, NEW item, Write(w, item)
  PROVE  Put(call[w].key, item, TTL) /\ pc'[w] = "idle"
  BY DEF Write, Acknowledge, Return, TypeOK

LEMMA Returned ==
  ASSUME TypeOK, NEW w \in Workers, NEW ids, NEW r, Return(w, ids, r)
  PROVE  pc'[w] = "idle"
  BY DEF Return, TypeOK

LEMMA Went ==
  ASSUME TypeOK, NEW w \in Workers, NEW access, Goto(w, access)
  PROVE  pc'[w] = access /\ call' = call
  BY DEF Goto, TypeOK

(* An access leaves the call under way, or is the write of its one outcome, *)
(* or ends it where there is nothing live and nothing comes.                *)
GoesOn(w) ==
  /\ pc'[w] # "idle" /\ UNCHANGED slots
  /\ pc'[w] \in Upserting <=> pc[w] \in Upserting
  /\ AloneAt(w)'

Upserts(w) ==
  /\ pc'[w] = "idle" /\ pc[w] \in Upserting
  /\ \/ Put(call[w].key, LiveEntry(call[w]), TTL)
     \/ Distributed /\ ~Live(call[w].key) /\ UNCHANGED slots

Evicts(w) ==
  /\ pc'[w] = "idle" /\ pc[w] \notin Upserting
  /\ \/ Put(call[w].key, Tombstone(call[w]), TTL) /\ Distributed
     \/ Vacate(call[w].key)
     \/ ~Live(call[w].key) /\ UNCHANGED slots

LEMMA AccessOutcome ==
  ASSUME Sequential, IInv, NoLocalTombstones, NEW w \in Workers, AloneAt(w),
         Access(w), pc[w] # "get"
  PROVE  UNCHANGED clock /\ (GoesOn(w) \/ Upserts(w) \/ Evicts(w))
<1> DEFINE k == call[w].key
<1>1. /\ TypeOK /\ ~Faults /\ k \in Keys
      /\ pc[w] \in {"evictRead", "evictUpdate"} => Distributed
  BY DEF Sequential, IInv, TypeOK, EvictsByBackend, Access, Get, GetOf, GetError, UpsertCreate,
         UpsertRead, UpsertReadOf, UpsertRecreate, UpsertUpdate, EvictDelete, EvictRead,
         EvictReadOf, EvictUpdate, UpdateError, Accesses
<1>2. UNCHANGED clock
  BY DEF Access, Get, GetOf, GetError, UpsertCreate, UpsertRead, UpsertReadOf, UpsertRecreate,
         UpsertUpdate, EvictDelete, EvictRead, EvictReadOf, EvictUpdate, UpdateError, Write,
         storageVars
<1> SUFFICES GoesOn(w) \/ Upserts(w) \/ Evicts(w)
  BY <1>2
<1>3. Closed(k) => Distributed /\ ~Live(k)
  BY <1>1 DEF NoLocalTombstones, Closed, IsClosed, Live, IsTerminal, IsContinuable
<1>4. ~Holds(k) => ~Live(k)
  BY DEF Live
<1>5. CASE UpsertCreate(w)
  <2>1. CASE Write(w, LiveEntry(call[w]))
    BY <1>1, <1>5, <2>1, Wrote DEF UpsertCreate, Upserts, Upserting
  <2>2. CASE Holds(k) /\ Goto(w, "read") /\ UNCHANGED storageVars
    BY <1>1, <1>5, <2>2, Went
    DEF UpsertCreate, GoesOn, AloneAt, Upserting, storageVars, Holds, IsItem
  <2>3. QED
    BY <1>2, <1>5, <2>1, <2>2 DEF UpsertCreate
<1>6. CASE UpsertRead(w)
  <2>1. pc[w] = "read" /\ UNCHANGED slots
    BY <1>6 DEF UpsertRead, UpsertReadOf, storageVars
  <2>2. CASE Closed(k) /\ Return(w, NoIds, "Ok")
    BY <1>1, <1>3, <2>1, <2>2, Returned DEF Upserts, Upserting
  <2>3. CASE /\ Holds(k) /\ Goto(w, "update")
             /\ seen' = [seen EXCEPT ![w] = slots[k].version]
    <3>1. seen'[w] = slots[k].version
      BY <1>1, <2>3 DEF TypeOK
    <3>2. QED
      BY <1>1, <2>1, <2>3, <3>1, Went DEF GoesOn, AloneAt, Upserting, CasHolds, Holds, IsItem
  <2>4. CASE ~Holds(k) /\ Goto(w, "recreate")
    BY <1>1, <2>1, <2>4, Went DEF GoesOn, AloneAt, Upserting, Holds, IsItem
  <2>5. QED
    BY <1>2, <1>6, <2>2, <2>3, <2>4 DEF UpsertRead, UpsertReadOf, Closed, Holds
<1>7. CASE UpsertRecreate(w)
  <2>1. Write(w, LiveEntry(call[w])) /\ pc[w] = "recreate"
    BY <1>7 DEF UpsertRecreate, AloneAt
  <2>2. QED
    BY <1>1, <1>2, <2>1, Wrote DEF Upserts, Upserting
<1>8. CASE UpsertUpdate(w)
  <2>1. pc[w] = "update"
    BY <1>8 DEF UpsertUpdate
  <2>2. CASE Write(w, LiveEntry(call[w]))
    BY <1>1, <2>1, <2>2, Wrote DEF Upserts, Upserting
  <2>3. CASE ~Holds(k) /\ Retry(w, "read") /\ UNCHANGED storageVars
    <3>1. Distributed /\ ~Live(k) /\ UNCHANGED slots
      BY <1>4, <2>1, <2>3 DEF AloneAt, storageVars
    <3>2. CASE Goto(w, "read")
      BY <1>1, <2>1, <3>1, <3>2, Went DEF GoesOn, AloneAt, Upserting
    <3>3. CASE Return(w, NoIds, "CasConflict")
      BY <1>1, <2>1, <3>1, <3>3, Returned DEF Upserts, Upserting
    <3>4. QED
      BY <2>3, <3>2, <3>3 DEF Retry
  <2>4. QED
    BY <1>1, <1>2, <1>8, <2>1, <2>2, <2>3 DEF UpsertUpdate, AloneAt
<1>9. CASE EvictDelete(w)
  BY <1>1, <1>2, <1>9, Returned DEF EvictDelete, Acknowledge, Evicts, Upserting
<1>10. CASE EvictRead(w)
  <2>1. pc[w] = "evictRead" /\ UNCHANGED slots
    BY <1>10 DEF EvictRead, EvictReadOf, storageVars
  <2>2. CASE (~Holds(k) \/ Closed(k)) /\ Return(w, NoIds, "Ok")
    BY <1>1, <1>3, <1>4, <2>1, <2>2, Returned DEF Evicts, Upserting
  <2>3. CASE /\ Holds(k) /\ Goto(w, "evictUpdate")
             /\ seen' = [seen EXCEPT ![w] = slots[k].version]
    <3>1. seen'[w] = slots[k].version
      BY <1>1, <2>3 DEF TypeOK
    <3>2. QED
      BY <1>1, <2>1, <2>3, <3>1, Went DEF GoesOn, AloneAt, Upserting, CasHolds, Holds, IsItem
  <2>4. QED
    BY <1>2, <1>10, <2>2, <2>3 DEF EvictRead, EvictReadOf, Closed, Holds
<1>11. CASE EvictUpdate(w)
  <2>1. pc[w] = "evictUpdate"
    BY <1>11 DEF EvictUpdate
  <2>2. CASE Write(w, Tombstone(call[w]))
    BY <1>1, <2>1, <2>2, Wrote DEF Evicts, Upserting
  <2>3. CASE ~Holds(k) /\ Retry(w, "evictRead") /\ UNCHANGED storageVars
    <3>1. ~Live(k) /\ UNCHANGED slots
      BY <1>4, <2>3 DEF storageVars
    <3>2. CASE Goto(w, "evictRead")
      BY <1>1, <2>1, <3>1, <3>2, Went DEF GoesOn, AloneAt, Upserting
    <3>3. CASE Return(w, NoIds, "CasConflict")
      BY <1>1, <2>1, <3>1, <3>3, Returned DEF Evicts, Upserting
    <3>4. QED
      BY <2>3, <3>2, <3>3 DEF Retry
  <2>4. QED
    BY <1>1, <1>2, <1>11, <2>1, <2>2, <2>3 DEF EvictUpdate, AloneAt
<1>12. QED
  BY <1>1, <1>5, <1>6, <1>7, <1>8, <1>9, <1>10, <1>11
  DEF Access, Get, GetOf, GetError, UpdateError

-----------------------------------------------------------------------------
(* Clients that wait keep it so *)

LEMMA VersionsAreLocal ==
  ASSUME TypeOK, NEW w \in Workers, TurnStep(w), NEW v \in Workers, v # w
  PROVE  seen'[v] = seen[v]
<1>1. ASSUME NEW ids, NEW r, Return(w, ids, r) PROVE seen'[v] = seen[v]
  BY <1>1 DEF Return, TypeOK
<1>2. ASSUME Access(w) PROVE seen'[v] = seen[v]
  BY <1>1, <1>2
  DEF Access, Get, GetOf, GetError, UpsertCreate, UpsertRead, UpsertReadOf, UpsertRecreate,
      UpsertUpdate, EvictDelete, EvictRead, EvictReadOf, EvictUpdate, UpdateError, Write,
      Acknowledge, Retry, TypeOK
<1>3. QED
  BY <1>2
  DEF TurnStep, StartTurn, GetContinuation, StartSingleShot, ResolveTurn, Access,
      AgentCreatesTask, AgentContinuesTask, AgentAnswersOtherwise, Answer, PersistOutcome,
      RecordOutcome, PassThrough, RecordStep, storeVars

LEMMA OnlyRecordingWrites ==
  ASSUME NEW w \in Workers, TurnStep(w)
  PROVE  \/ UNCHANGED <<slots, clock>>
         \/ RecordStep(w)
  BY DEF TurnStep, StartTurn, GetContinuation, StartSingleShot, ResolveTurn, Get, GetOf, GetError,
         AgentCreatesTask, AgentContinuesTask, AgentAnswersOtherwise, Answer, PersistOutcome,
         RecordOutcome, PassThrough, storeVars, storageVars

(* What record_outcome does to the slots. *)
LEMMA RecordingOutcome ==
  ASSUME Sequential, SequentialIInv, NEW w \in Workers, RecordStep(w)
  PROVE  /\ UNCHANGED clock /\ turn[w].key \in Keys /\ call[w].key = turn[w].key
         /\ GoesOn(w) \/ Upserts(w) \/ Evicts(w)
<1>1. /\ IInv /\ TypeOK /\ NoLocalTombstones /\ AloneAt(w) /\ Access(w)
      /\ pc[w] # "get" /\ pc[w] # "idle" /\ call[w].key = turn[w].key
  BY DEF SequentialIInv, TurnsIInv, IInv, StagesMatch, CallsAreAlone, AloneAt, RecordStep
<1>2. call[w].key \in Keys
  BY <1>1 DEF TypeOK
<1>3. QED
  BY <1>1, <1>2, AccessOutcome

LEMMA SlotsAreLocal ==
  ASSUME Sequential, SequentialIInv, NEW w \in Workers, TurnStep(w), NEW k \in Keys,
         k # turn[w].key
  PROVE  slots'[k] = slots[k]
<1>1. TypeOK
  BY DEF SequentialIInv, TurnsIInv, IInv
<1>2. CASE RecordStep(w)
  BY <1>1, <1>2, RecordingOutcome DEF GoesOn, Upserts, Evicts, Put, Vacate, TypeOK
<1>3. QED
  BY <1>2, OnlyRecordingWrites

LEMMA SequentialInitially == TurnsInit => SequentialIInv
<1> SUFFICES ASSUME TurnsInit PROVE SequentialIInv
  OBVIOUS
<1>1. OneTurnEach
  BY DEF TurnsInit, OneTurnEach, NoTurn
<1>2. CallsMatchReplies /\ CallsAreAlone
  BY DEF TurnsInit, Init, CallsMatchReplies, CallsAreAlone, NoReply, Upserting
<1>3. NoLocalTombstones
  BY DEF TurnsInit, Init, StorageInit, NoLocalTombstones, Closed, IsClosed, IsItem, VacantSlot
<1>4. TurnsCarryEntry
  BY DEF TurnsInit, TurnsCarryEntry
<1>5. QED
  BY <1>1, <1>2, <1>3, <1>4, TurnsInitially DEF SequentialIInv

LEMMA OneTurnKept ==
  ASSUME Sequential, SequentialIInv, NEW w \in Workers, TurnStep(w)
  PROVE  OneTurnEach'
<1>1. TurnsTyped /\ OneTurnEach /\ NoKey \notin Keys /\ ~Overlap
  BY StoreAssumption DEF SequentialIInv, TurnsIInv, Sequential
<1>2. \A v \in Workers \ {w} : turn'[v] = turn[v]
  BY StepIsLocal DEF SequentialIInv, Undisturbed
<1>3. CASE \E k \in Keys : StartTurn(w, k)
  <2>1. PICK k \in Keys : StartTurn(w, k)
    BY <1>3
  <2>2. turn'[w].key = k /\ \A v \in Workers : turn[v].key # k
    BY <1>1, <2>1 DEF StartTurn, MayStart, TurnsTyped
  <2>3. QED
    BY <1>1, <1>2, <2>2 DEF OneTurnEach
<1>4. CASE turn'[w].key \in {turn[w].key, NoKey}
  BY <1>1, <1>2, <1>4 DEF OneTurnEach
<1>5. CASE ~ \E k \in Keys : StartTurn(w, k)
  <2>1. turn'[w].key \in {turn[w].key, NoKey}
    BY <1>1, <1>5
    DEF TurnStep, StartSingleShot, ResolveTurn, AgentCreatesTask, AgentContinuesTask,
        AgentAnswersOtherwise, Answer, PersistOutcome, PassThrough, RecordStep, EndTurnOnReturn,
        EndTurn, TurnsTyped, NoTurn
  <2>2. QED
    BY <1>4, <2>1
<1>6. QED
  BY <1>3, <1>5

LEMMA AloneKept ==
  ASSUME Sequential, SequentialIInv, NEW w \in Workers, TurnStep(w), NEW v \in Workers
  PROVE  AloneAt(v)'
<1>1. TypeOK /\ StagesMatch /\ AloneAt(v) /\ Local(w)
  BY StepIsLocal DEF SequentialIInv, TurnsIInv, IInv, CallsAreAlone, AloneAt
<1>2. ASSUME v = w, pc'[w] \in {"idle", "get", "create", "delete", "evictRead"} PROVE AloneAt(v)'
  BY <1>2 DEF AloneAt
<1>3. CASE v = w /\ ~RecordStep(w)
  <2>1. ASSUME NEW k, NEW class, NEW ids, RecordOutcome(w, k, class, ids)
        PROVE  pc'[w] \in {"idle", "create", "delete", "evictRead"}
    BY <1>1, <2>1 DEF RecordOutcome, Start, Return, TypeOK
  <2>2. ASSUME Get(w) \/ GetError(w) PROVE pc'[w] = "idle"
    BY <1>1, <2>2 DEF Get, GetOf, GetError, Return, TypeOK
  <2>3. ASSUME NEW k \in Keys, StartTurn(w, k) PROVE pc'[w] = "get"
    BY <1>1, <2>3, LookupBegins DEF StartTurn
  <2>4. CASE UNCHANGED storeVars
    BY <1>1, <2>4 DEF AloneAt, storeVars, Holds, IsItem, CasHolds
  <2>5. QED
    BY <1>2, <1>3, <2>1, <2>2, <2>3, <2>4
    DEF TurnStep, StartSingleShot, ResolveTurn, AgentCreatesTask, AgentContinuesTask,
        AgentAnswersOtherwise, Answer, PersistOutcome, PassThrough
<1>4. CASE v = w /\ RecordStep(w)
  BY <1>2, <1>4, RecordingOutcome DEF GoesOn, Upserts, Evicts
<1>5. CASE v # w /\ pc[v] = "idle"
  BY <1>1, <1>5 DEF Local, AloneAt
<1>6. CASE v # w /\ pc[v] # "idle"
  <2>1. /\ pc'[v] = pc[v] /\ call'[v] = call[v] /\ seen'[v] = seen[v]
        /\ call[v].key \in Keys /\ call[v].key = turn[v].key
    BY <1>1, <1>6, VersionsAreLocal DEF Local, TypeOK, StagesMatch
  <2>2. call[v].key # turn[w].key
    BY <1>6, <2>1, StoreAssumption DEF SequentialIInv, OneTurnEach
  <2>3. slots'[call[v].key] = slots[call[v].key]
    BY <2>1, <2>2, SlotsAreLocal
  <2>4. QED
    BY <1>1, <2>1, <2>3 DEF AloneAt, Holds, IsItem, CasHolds
<1>7. QED
  BY <1>3, <1>4, <1>5, <1>6

LEMMA NoTombstonesKept ==
  ASSUME Sequential, SequentialIInv, NEW w \in Workers, TurnStep(w), NEW k \in Keys, Closed(k)'
  PROVE  Distributed
<1>1. TypeOK /\ (Closed(k) => Distributed)
  BY DEF SequentialIInv, TurnsIInv, IInv, NoLocalTombstones
<1>2. CASE slots'[k] = slots[k]
  BY <1>1, <1>2 DEF Closed
<1>3. CASE RecordStep(w) /\ k = turn[w].key
  <2>1. call[w].key = k /\ (GoesOn(w) \/ Upserts(w) \/ Evicts(w))
    BY <1>3, RecordingOutcome
  <2>2. CASE Put(k, LiveEntry(call[w]), TTL) \/ Vacate(k)
    BY <1>1, <2>2
    DEF Put, Vacate, TypeOK, Closed, IsClosed, IsItem, VacantSlot, LiveEntry, IsTerminal
  <2>3. QED
    BY <1>2, <2>1, <2>2 DEF GoesOn, Upserts, Evicts
<1>4. QED
  BY <1>2, <1>3, SlotsAreLocal, OnlyRecordingWrites

(* The turn of w carries what its conversation is at. *)
CarriesEntry(w) ==
  LET k == turn[w].key IN
  /\ stage[w] \in {"sent", "answered", "recording"} /\ k # NoKey
  /\ Live(k) /\ ~IsExpired(slots[k].item, clock)
  => turn[w].ids = slots[k].item.ids

LEMMA CarriedKept ==
  ASSUME Sequential, SequentialIInv, NEW w \in Workers, TurnStep(w), NEW v \in Workers
  PROVE  CarriesEntry(v)'
<1>1. /\ TypeOK /\ TurnsTyped /\ StagesMatch /\ CallsStartedInThePast /\ CarriesEntry(v)
      /\ Undisturbed(w) /\ UNCHANGED clock
  BY StepIsLocal, OnlyRecordingWrites, RecordingOutcome
  DEF SequentialIInv, TurnsIInv, IInv, TurnsCarryEntry, CarriesEntry
<1>2. ASSUME turn'[v] = turn[v],
             turn[v].key \in Keys => slots'[turn[v].key] = slots[turn[v].key],
             stage[v] \in {"sent", "answered", "recording"}
      PROVE  CarriesEntry(v)'
  BY <1>1, <1>2 DEF CarriesEntry, Live, Holds, TurnsTyped
<1>3. CASE v # w
  <2>1. turn'[v] = turn[v] /\ stage'[v] = stage[v]
    BY <1>1, <1>3 DEF Undisturbed
  <2>2. turn[v].key \in Keys => turn[v].key # turn[w].key
    BY <1>3, StoreAssumption DEF SequentialIInv, OneTurnEach
  <2>3. turn[v].key \in Keys => slots'[turn[v].key] = slots[turn[v].key]
    BY <2>2, SlotsAreLocal
  <2>4. CASE stage[v] \in {"sent", "answered", "recording"}
    BY <1>2, <2>1, <2>3, <2>4
  <2>5. CASE stage[v] \notin {"sent", "answered", "recording"}
    BY <2>1, <2>5 DEF CarriesEntry
  <2>6. QED
    BY <2>4, <2>5
<1>4. CASE v = w
  <2>1. ASSUME EndTurn(w) PROVE CarriesEntry(w)'
    BY <1>1, <2>1 DEF EndTurn, CarriesEntry, TurnsTyped
  <2>2. ASSUME NEW k \in Keys, StartTurn(w, k) PROVE CarriesEntry(w)'
    BY <1>1, <2>2 DEF StartTurn, CarriesEntry, TurnsTyped
  <2>3. CASE StartSingleShot(w)
    BY <1>1, <1>4, <2>3 DEF StartSingleShot, CarriesEntry, TurnsTyped, NoTurn
  <2>4. CASE ResolveTurn(w)
    <3> DEFINE k == turn[w].key
    <3>1. Get(w) /\ pc[w] = "get" /\ call[w].key = k /\ k \in Keys
      BY <1>1, <2>4 DEF ResolveTurn, Sequential, GetError, Get, GetOf, StagesMatch, TypeOK
    <3>2. /\ turn'[w].key = k /\ turn'[w].ids = found'[w] /\ UNCHANGED slots
          /\ found'[w] = IF Holds(k) THEN Continuation(slots[k].item, call[w].now) ELSE NoIds
      BY <1>1, <2>4, <3>1
      DEF ResolveTurn, Sequential, Get, GetOf, Return, Holds, TurnsTyped, TypeOK, storageVars
    <3>3. call[w].now \in Nat /\ clock \in Nat /\ call[w].now <= clock
      BY <1>1 DEF TypeOK, Calls, NoCall, CallsStartedInThePast
    <3>4. ASSUME Live(k), ~IsExpired(slots[k].item, clock)
          PROVE  found'[w] = slots[k].item.ids
      <4>1. slots[k].item \in Entry
        BY <1>1, <3>1, <3>4 DEF TypeOK, Live
      <4>2. ~IsExpired(slots[k].item, call[w].now)
        BY <3>3, <3>4, <4>1 DEF IsExpired, Entry
      <4>3. QED
        BY <3>2, <3>4, <4>2 DEF Live, Continuation
    <3>5. QED
      BY <1>1, <1>4, <3>2, <3>4 DEF CarriesEntry, Live, Holds
  <2>5. CASE AgentCreatesTask(w) \/ AgentContinuesTask(w) \/ AgentAnswersOtherwise(w)
    BY <1>2, <1>4, <2>5
    DEF AgentCreatesTask, AgentContinuesTask, AgentAnswersOtherwise, Answer, storeVars
  <2>6. CASE PersistOutcome(w)
    BY <1>2, <1>4, <2>1, <2>6
    DEF PersistOutcome, EndTurnOnReturn, RecordOutcome, storageVars
  <2>7. CASE PassThrough(w)
    BY <1>4, <2>1, <2>7 DEF PassThrough
  <2>8. CASE RecordStep(w)
    BY <1>2, <1>4, <2>1, <2>8, RecordingOutcome
    DEF RecordStep, EndTurnOnReturn, GoesOn, Upserts, Evicts
  <2>9. QED
    BY <1>4, <2>2, <2>3, <2>4, <2>5, <2>6, <2>7, <2>8 DEF TurnStep
<1>5. QED
  BY <1>3, <1>4

LEMMA SequentialInductive ==
  ASSUME Sequential
  PROVE  SequentialIInv /\ [TurnsNext]_allVars => SequentialIInv'
<1> SUFFICES ASSUME SequentialIInv, [TurnsNext]_allVars PROVE SequentialIInv'
  OBVIOUS
<1>1. TurnsIInv'
  BY TurnsInductive DEF SequentialIInv
<1>2. CASE \E w \in Workers : TurnStep(w)
  <2>1. PICK w \in Workers : TurnStep(w)
    BY <1>2
  <2>2. CallsMatchReplies'
    BY RepliesInductive DEF SequentialIInv
  <2>3. CallsAreAlone'
    BY <2>1, AloneKept DEF CallsAreAlone, AloneAt
  <2>4. NoLocalTombstones'
    BY <2>1, NoTombstonesKept DEF NoLocalTombstones
  <2>5. TurnsCarryEntry'
    BY <2>1, CarriedKept DEF TurnsCarryEntry, CarriesEntry
  <2>6. QED
    BY <1>1, <2>1, <2>2, <2>3, <2>4, <2>5, OneTurnKept DEF SequentialIInv
<1>3. CASE Environment /\ UNCHANGED turnVars
  <2>1. UNCHANGED <<pc, call, seen, stage, turn, reply>> /\ TypeOK
    BY <1>3 DEF Environment, Tick, Reclaim, workerVars, turnVars, SequentialIInv, TurnsIInv, IInv
  <2>2. ASSUME NEW k \in Keys
        PROVE slots'[k] = slots[k] \/ (Distributed /\ slots'[k] = VacantSlot)
    BY <1>3, <2>1 DEF Environment, Tick, Reclaim, Vacate, TypeOK
  <2>3. OneTurnEach' /\ CallsMatchReplies'
    BY <2>1, RepliesInductive DEF SequentialIInv, OneTurnEach
  <2>4. NoLocalTombstones'
    BY <2>2 DEF SequentialIInv, NoLocalTombstones, Closed
  <2>5. ASSUME NEW v \in Workers PROVE AloneAt(v)'
    <3>1. CASE pc[v] = "idle"
      BY <2>1, <3>1 DEF AloneAt
    <3>2. CASE pc[v] # "idle"
      <4>1. call[v].key \in Keys /\ AloneAt(v)
        BY <2>1, <3>2 DEF TypeOK, SequentialIInv, CallsAreAlone, AloneAt
      <4>2. QED
        BY <2>1, <2>2, <4>1 DEF AloneAt, Holds, IsItem, CasHolds, VacantSlot
    <3>3. QED
      BY <3>1, <3>2
  <2>6. ASSUME NEW v \in Workers PROVE CarriesEntry(v)'
    <3>1. SUFFICES ASSUME NEW k \in Keys, k = turn[v].key, Live(k)',
                          ~IsExpired(slots'[k].item, clock')
                   PROVE  slots'[k] = slots[k] /\ ~IsExpired(slots[k].item, clock)
      BY <2>1 DEF CarriesEntry, SequentialIInv, TurnsIInv, TurnsTyped, TurnsCarryEntry, Live, Holds
    <3>2. slots'[k] = slots[k]
      BY <2>2, <3>1 DEF Live, Holds, IsItem, VacantSlot
    <3>3. slots[k].item \in Entry /\ clock \in Nat /\ clock' \in {clock, clock + 1}
      BY <1>3, <2>1, <3>1, <3>2 DEF Live, Holds, IsItem, TypeOK, Environment, Tick, Reclaim
    <3>4. QED
      BY <3>1, <3>2, <3>3 DEF IsExpired, Entry
  <2>7. QED
    BY <1>1, <2>3, <2>4, <2>5, <2>6
    DEF SequentialIInv, CallsAreAlone, AloneAt, TurnsCarryEntry, CarriesEntry
<1>4. CASE (\E i \in Ids : AgentEndsTask(i)) \/ UNCHANGED allVars
  BY <1>1, <1>4, RepliesInductive
  DEF AgentEndsTask, storeVars, allVars, SequentialIInv, OneTurnEach, CallsAreAlone,
      NoLocalTombstones, TurnsCarryEntry, Live, Closed, Holds, CasHolds
<1>5. QED
  BY <1>2, <1>3, <1>4 DEF TurnsNext

-----------------------------------------------------------------------------
(* The conversation behind the cache *)

atMap    == [k \in Keys |-> IF Live(k) THEN [ids   |-> slots[k].item.ids,
                                            until |-> slots[k].item.expires]
                           ELSE NoPromise]
turnMap  == [w \in Workers |->
               [stage |-> StageOf(w), key |-> turn[w].key, ids |-> turn[w].ids,
                since |-> call[w].now,
                said |-> reply[w].ids, class |-> reply[w].class]]
tasksMap == [i \in Ids |-> [key |-> owner[i], state |-> task[i]]]

LEMMA IdleMaps ==
  ASSUME TypeOK, StagesMatch, NEW w \in Workers, stage[w] = "idle"
  PROVE  turnMap[w] = Conv!NoTurn
  BY DEF TypeOK, StagesMatch, turnMap, Conv!NoTurn, StageOf, NoTurn, NoReply, NoCall

LEMMA ConversationInitially == TurnsInit => Conv!Init
<1> SUFFICES ASSUME TurnsInit PROVE Conv!Init
  OBVIOUS
<1>1. TypeOK /\ StagesMatch /\ TurnsTyped
  BY TurnsInitially DEF TurnsIInv, IInv
<1>2. atMap = [k \in Keys |-> Conv!Nowhere]
  BY DEF TurnsInit, Init, StorageInit, VacantSlot, Live, Holds, IsItem, NoPromise, Conv!Nowhere,
         atMap
<1>3. turnMap = [w \in Workers |-> Conv!NoTurn]
  <2>1. ASSUME NEW w \in Workers PROVE turnMap[w] = Conv!NoTurn
    BY <1>1, IdleMaps DEF TurnsInit
  <2>2. QED
    BY <2>1 DEF turnMap
<1>4. tasksMap = [i \in Ids |-> [key |-> NoKey, state |-> "none"]]
  BY DEF TurnsInit, tasksMap
<1>5. clock \in Nat
  BY <1>1 DEF TypeOK
<1>6. QED
  BY <1>2, <1>3, <1>4, <1>5 DEF Conv!Init, atMap, turnMap, tasksMap

(* How the parts of a step look through the mapping. *)
LEMMA TurnAfter ==
  ASSUME NEW w \in Workers
  PROVE  turnMap'[w] = [stage |-> CASE stage'[w] = "idle"      -> "none"
                                    [] stage'[w] = "resolving" -> "begun"
                                    [] stage'[w] = "recording" -> "noting"
                                    [] OTHER                   -> stage'[w],
                        key |-> turn'[w].key, ids |-> turn'[w].ids, since |-> call'[w].now,
                        said |-> reply'[w].ids, class |-> reply'[w].class]
  BY DEF turnMap, StageOf

LEMMA MapTurn ==
  ASSUME NEW w \in Workers, Local(w), Undisturbed(w)
  PROVE  turnMap' = [turnMap EXCEPT ![w] = turnMap'[w]]
  BY DEF Local, Undisturbed, turnMap, StageOf

LEMMA MapAtQuiet == UNCHANGED slots => atMap' = atMap
  BY DEF atMap, Live, Holds, IsItem

LEMMA MapAtLive ==
  ASSUME TypeOK, NEW k \in Keys, NEW c, Put(k, LiveEntry(c), TTL)
  PROVE  atMap' = [atMap EXCEPT ![k] = [ids |-> c.ids, until |-> c.now + TTL]]
<1>1. lastVersion + 1 # 0
  BY DEF TypeOK
<1>2. QED
  BY <1>1 DEF TypeOK, Put, LiveEntry, Live, Holds, IsItem, IsContinuable, atMap

LEMMA MapAtNothing ==
  ASSUME TypeOK, NEW k \in Keys, NEW c,
         \/ Put(k, Tombstone(c), TTL)
         \/ Vacate(k)
         \/ ~Live(k) /\ UNCHANGED slots
  PROVE  atMap' = [atMap EXCEPT ![k] = Conv!Nowhere]
<1>1. CASE Put(k, Tombstone(c), TTL)
  BY <1>1 DEF TypeOK, Put, Tombstone, Live, Holds, IsItem, IsContinuable, atMap, NoPromise,
              Conv!Nowhere
<1>2. CASE Vacate(k)
  BY <1>2 DEF TypeOK, Vacate, VacantSlot, Live, Holds, IsItem, atMap, NoPromise, Conv!Nowhere
<1>3. CASE ~Live(k) /\ UNCHANGED slots
  BY <1>3, MapAtQuiet DEF atMap, NoPromise, Conv!Nowhere
<1>4. QED
  BY <1>1, <1>2, <1>3

LEMMA MapTasksQuiet == UNCHANGED <<task, owner>> => tasksMap' = tasksMap
  BY DEF tasksMap

(* Each step of a turn *)

LEMMA StartTurnMaps ==
  ASSUME Sequential, SequentialIInv, NEW w \in Workers, NEW k \in Keys, StartTurn(w, k)
  PROVE  Conv!Begin(w, k)
<1>1. TypeOK /\ TurnsTyped /\ StagesMatch /\ TurnStep(w)
  BY DEF SequentialIInv, TurnsIInv, IInv, TurnStep
<1>2. turnMap' = [turnMap EXCEPT ![w] = turnMap'[w]]
  BY <1>1, StepIsLocal, MapTurn DEF SequentialIInv
<1>3. turnMap[w] = Conv!NoTurn
  BY <1>1, IdleMaps DEF StartTurn
<1>4. \A v \in Workers : turnMap[v].key # k
  BY DEF StartTurn, MayStart, Sequential, turnMap
<1>5. call'[w].now = clock
  BY <1>1 DEF StartTurn, GetContinuation, Start, NowMillis, Sequential, TypeOK
<1>6. turnMap'[w] = [Conv!NoTurn EXCEPT !.stage = "begun", !.key = k, !.since = clock]
  <2>1. stage'[w] = "resolving" /\ turn'[w].key = k /\ turn'[w].ids = NoIds
    BY <1>1 DEF StartTurn, TurnsTyped
  <2>2. reply'[w].ids = NoIds /\ reply'[w].class = "Unknown"
    BY <1>1 DEF StartTurn, StagesMatch, NoReply
  <2>3. QED
    <3> SUFFICES ASSUME NEW t,
                        t = [Conv!NoTurn EXCEPT !.stage = "begun", !.key = k, !.since = clock]
                 PROVE  turnMap'[w] = t
      OBVIOUS
    <3>1. t = [stage |-> "begun", key |-> k, ids |-> NoIds, since |-> clock,
               said |-> NoIds, class |-> "Unknown"]
      BY DEF Conv!NoTurn
    <3> QED
      BY <1>5, <2>1, <2>2, <3>1, TurnAfter
<1>7. UNCHANGED <<clock, atMap, tasksMap>>
  BY MapAtQuiet, MapTasksQuiet DEF StartTurn, GetContinuation, storageVars
<1>8. QED
  BY <1>2, <1>3, <1>4, <1>6, <1>7 DEF Conv!Begin, atMap, turnMap, tasksMap

LEMMA StartSingleShotMaps ==
  ASSUME SequentialIInv, NEW w \in Workers, StartSingleShot(w)
  PROVE  Conv!SendSingleShot(w)
<1>1. TypeOK /\ TurnsTyped /\ StagesMatch /\ TurnStep(w)
  BY DEF SequentialIInv, TurnsIInv, IInv, TurnStep
<1>2. turnMap' = [turnMap EXCEPT ![w] = turnMap'[w]]
  BY <1>1, StepIsLocal, MapTurn DEF SequentialIInv
<1>3. turnMap[w] = Conv!NoTurn
  BY <1>1, IdleMaps DEF StartSingleShot
<1>4. turnMap'[w] = [turnMap[w] EXCEPT !.stage = "sent"]
  BY <1>1 DEF StartSingleShot, StagesMatch, TurnsTyped, storeVars, turnMap, StageOf
<1>5. UNCHANGED <<clock, atMap, tasksMap>>
  BY MapAtQuiet, MapTasksQuiet DEF StartSingleShot, storeVars
<1>6. turnMap' = [turnMap EXCEPT ![w].stage = "sent"]
  BY <1>2, <1>4
<1>7. QED
  BY <1>3, <1>5, <1>6 DEF Conv!SendSingleShot, atMap, turnMap, tasksMap

LEMMA ResolveTurnMaps ==
  ASSUME Sequential, SequentialIInv, NEW w \in Workers, ResolveTurn(w)
  PROVE  Conv!Send(w)
<1> DEFINE k == turn[w].key
<1>1. TypeOK /\ TurnsTyped /\ StagesMatch /\ TurnStep(w)
  BY DEF SequentialIInv, TurnsIInv, IInv, TurnStep
<1>2. turnMap' = [turnMap EXCEPT ![w] = turnMap'[w]]
  BY <1>1, StepIsLocal, MapTurn DEF SequentialIInv
<1>3. Get(w) /\ pc[w] = "get" /\ call[w].key = k /\ k \in Keys
  BY <1>1 DEF ResolveTurn, Sequential, GetError, Get, GetOf, StagesMatch, TypeOK
<1>4. found'[w] = Conv!Remembered(w)
  <2>1. found'[w] = IF Holds(k) THEN Continuation(slots[k].item, call[w].now) ELSE NoIds
    BY <1>1, <1>3 DEF Get, GetOf, Return, Holds, TypeOK
  <2>2. call[w].now \in Nat /\ (Holds(k) => slots[k].item \in Entry)
    BY <1>1, <1>3 DEF TypeOK, Calls, NoCall
  <2>3. Conv!Remembered(w) =
          IF call[w].now < atMap[k].until THEN atMap[k].ids ELSE NoIds
    BY DEF Conv!Remembered, atMap
  <2>4. QED
    BY <1>3, <2>1, <2>2, <2>3
    DEF atMap, Live, Continuation, IsExpired, IsContinuable, NoPromise, Entry
<1>5. stage'[w] = "sent" /\ turn'[w] = [turn[w] EXCEPT !.ids = found'[w]] /\ reply' = reply
      /\ call'[w] = NoCall
  BY <1>1, <1>3 DEF ResolveTurn, Sequential, Get, GetOf, Return, TurnsTyped, TypeOK
<1>6. turnMap'[w] = [turnMap[w] EXCEPT !.stage = "sent", !.ids = found'[w], !.since = 0]
  <2>1. turn[w] \in [key : Keys \cup {NoKey}, ids : Continuations]
    BY <1>1 DEF TurnsTyped
  <2>2. turn'[w].key = turn[w].key /\ turn'[w].ids = found'[w]
    BY <1>5, <2>1
  <2>3. reply'[w].ids = reply[w].ids /\ reply'[w].class = reply[w].class /\ call'[w].now = 0
    BY <1>5 DEF NoCall
  <2>4. QED
    <3> SUFFICES ASSUME NEW t,
                        t = [turnMap[w] EXCEPT !.stage = "sent", !.ids = found'[w], !.since = 0]
                 PROVE  turnMap'[w] = t
      OBVIOUS
    <3>1. t = [stage |-> "sent", key |-> turn[w].key, ids |-> found'[w], since |-> 0,
               said |-> reply[w].ids, class |-> reply[w].class]
      BY DEF turnMap
    <3> QED
      BY <1>5, <2>2, <2>3, <3>1, TurnAfter
<1>7. turnMap' = [turnMap EXCEPT ![w].stage = "sent", ![w].ids = found'[w], ![w].since = 0]
  BY <1>2, <1>6
<1>8. turnMap[w].stage = "begun"
  BY DEF ResolveTurn, turnMap, StageOf
<1>9. UNCHANGED <<clock, atMap, tasksMap>>
  BY <1>3, MapAtQuiet, MapTasksQuiet DEF ResolveTurn, Get, GetOf, storageVars
<1>10. QED
  BY <1>4, <1>7, <1>8, <1>9 DEF Conv!Send, atMap, turnMap, tasksMap

LEMMA AnswerMaps ==
  ASSUME SequentialIInv, NEW w \in Workers, TurnStep(w), NEW kind, NEW ids, NEW class,
         Answer(w, kind, ids, class)
  PROVE  /\ Conv!Answer(w, ids, class)
         /\ turnMap[w].stage = "sent"
<1>1. TypeOK /\ TurnsTyped /\ StagesMatch
  BY DEF SequentialIInv, TurnsIInv, IInv
<1>2. turnMap' = [turnMap EXCEPT ![w] = turnMap'[w]]
  BY StepIsLocal, MapTurn DEF SequentialIInv
<1>3. stage'[w] = "answered" /\ turnMap[w].stage = "sent"
  BY <1>1 DEF Answer, TurnsTyped, turnMap, StageOf
<1>4. reply'[w].ids = ids /\ reply'[w].class = class /\ UNCHANGED <<turn, call, clock, slots>>
  BY <1>1 DEF Answer, TurnsTyped, storeVars
<1>5. turnMap'[w] = [turnMap[w] EXCEPT !.stage = "answered", !.said = ids, !.class = class]
  <2> SUFFICES ASSUME NEW t,
                      t = [turnMap[w] EXCEPT !.stage = "answered", !.said = ids, !.class = class]
               PROVE  turnMap'[w] = t
    OBVIOUS
  <2> QED
    BY <1>3, <1>4, TurnAfter DEF turnMap
<1>6. turnMap' = [turnMap EXCEPT ![w].stage = "answered", ![w].said = ids, ![w].class = class]
  BY <1>2, <1>5
<1>7. UNCHANGED <<clock, atMap>>
  BY <1>4, MapAtQuiet
<1>8. QED
  BY <1>3, <1>6, <1>7 DEF Conv!Answer, atMap, turnMap

LEMMA AgentMaps ==
  ASSUME SequentialIInv, NEW w \in Workers,
         AgentCreatesTask(w) \/ AgentContinuesTask(w) \/ AgentAnswersOtherwise(w)
  PROVE  Conv!AnswerNewTask(w) \/ Conv!AnswerTask(w) \/ Conv!AnswerOtherwise(w)
<1>1. TurnsTyped /\ TurnStep(w)
  BY DEF SequentialIInv, TurnsIInv, TurnStep
<1>2. turnMap[w].ids = turn[w].ids /\ turnMap[w].key = turn[w].key
  BY DEF turnMap
<1>3. CASE AgentCreatesTask(w)
  <2>1. PICK i \in Ids, class \in StateClasses :
          /\ turn[w].ids = NoIds /\ task[i] = "none"
          /\ task' = [task EXCEPT ![i] = TaskAfter(class)]
          /\ owner' = [owner EXCEPT ![i] = turn[w].key]
          /\ Answer(w, "task", i, class)
    BY <1>3 DEF AgentCreatesTask
  <2>2. tasksMap' = [tasksMap EXCEPT ![i] = [key   |-> turnMap[w].key,
                                             state |-> Conv!StateAfter(class)]]
    BY <1>1, <1>2, <2>1 DEF tasksMap, TurnsTyped, TaskAfter, Conv!StateAfter
  <2>3. tasksMap[i].state = "none"
    BY <2>1 DEF tasksMap
  <2>4. Conv!Answer(w, i, class) /\ class \in Conv!Classes
    BY <1>1, <2>1, AnswerMaps DEF StateClasses, Conv!Classes
  <2>5. QED
    BY <1>2, <2>1, <2>2, <2>3, <2>4, Zenon DEF Conv!AnswerNewTask, tasksMap, turnMap
<1>4. CASE AgentContinuesTask(w)
  <2> DEFINE i == turn[w].ids
  <2>1. PICK class \in StateClasses :
          /\ task[i] = "open" \/ class = "Terminal"
          /\ Answer(w, "task", i, class)
          /\ task' = [task EXCEPT ![i] = TaskAfter(class)]
    BY <1>4 DEF AgentContinuesTask
  <2>2. i \in Ids /\ UNCHANGED owner
    BY <1>4 DEF AgentContinuesTask
  <2>3. tasksMap' = [tasksMap EXCEPT ![i].state = Conv!StateAfter(class)]
    BY <1>1, <2>1, <2>2 DEF tasksMap, TurnsTyped, TaskAfter, Conv!StateAfter
  <2>4. (tasksMap[i].state = "open" \/ class = "Terminal") /\ i # NoIds
    BY <2>1, <2>2, EntryAssumption DEF tasksMap
  <2>5. Conv!Answer(w, i, class)
    BY <1>1, <2>1, AnswerMaps
  <2>6. class \in Conv!Classes
    BY DEF StateClasses, Conv!Classes
  <2>7. Conv!AnswerTask(w)
    BY <2>2, <2>3, <2>4, <2>5, <2>6, Zenon DEF Conv!AnswerTask, tasksMap, turnMap
  <2>8. QED
    BY <2>7
<1>5. CASE AgentAnswersOtherwise(w)
  <2>1. UNCHANGED tasksMap
    BY <1>5, MapTasksQuiet DEF AgentAnswersOtherwise
  <2>2. Conv!Answer(w, NoIds, "Terminal") \/ Conv!Answer(w, NoIds, "Unknown")
    BY <1>1, <1>5, AnswerMaps DEF AgentAnswersOtherwise
  <2>3. QED
    BY <2>1, <2>2 DEF Conv!AnswerOtherwise, tasksMap
<1>6. QED
  BY <1>3, <1>4, <1>5

LEMMA AgentEndsTaskMaps ==
  ASSUME SequentialIInv, NEW i \in Ids, AgentEndsTask(i)
  PROVE  Conv!EndTask(i)
<1>1. tasksMap[i].state = "open"
  BY DEF AgentEndsTask, tasksMap
<1>2. tasksMap' = [tasksMap EXCEPT ![i].state = "ended"]
  BY DEF AgentEndsTask, tasksMap, SequentialIInv, TurnsIInv, TurnsTyped
<1>3. UNCHANGED <<clock, slots, call, stage, turn, reply>>
  BY DEF AgentEndsTask, storeVars
<1>4. UNCHANGED <<clock, atMap, turnMap>>
  BY <1>3, MapAtQuiet DEF turnMap, StageOf
<1>5. QED
  BY <1>1, <1>2, <1>4 DEF Conv!EndTask, atMap, turnMap, tasksMap

(* A turn that is over. *)
LEMMA EndMaps ==
  ASSUME SequentialIInv, NEW w \in Workers, TurnStep(w), EndTurn(w), pc'[w] = "idle"
  PROVE  turnMap' = [turnMap EXCEPT ![w] = Conv!NoTurn]
<1>1. TurnsTyped /\ TurnsIInv'
  BY TurnsInductive DEF SequentialIInv, TurnsIInv, TurnsNext
<1>2. turnMap' = [turnMap EXCEPT ![w] = turnMap'[w]]
  BY StepIsLocal, MapTurn DEF SequentialIInv
<1>3. stage'[w] = "idle" /\ turn'[w] = NoTurn /\ reply'[w] = NoReply
  BY <1>1 DEF EndTurn, TurnsTyped
<1>4. call'[w] = NoCall
  BY <1>1 DEF TurnsIInv, IInv, TypeOK
<1>5. turnMap'[w] = Conv!NoTurn
  BY <1>3, <1>4, TurnAfter DEF NoTurn, NoReply, NoCall, Conv!NoTurn
<1>6. QED
  BY <1>2, <1>5

LEMMA PassThroughMaps ==
  ASSUME Sequential, SequentialIInv, NEW w \in Workers, PassThrough(w)
  PROVE  Conv!Ignore(w)
<1>1. TurnsTyped /\ StagesMatch /\ TurnStep(w) /\ CallMatches(w)
  BY DEF SequentialIInv, TurnsIInv, TurnStep, CallsMatchReplies, CallMatches
<1>2. pc'[w] = "idle"
  BY <1>1 DEF PassThrough, StagesMatch, storeVars
<1>3. turnMap' = [turnMap EXCEPT ![w] = Conv!NoTurn]
  BY <1>1, <1>2, EndMaps DEF PassThrough
<1>4. turn[w].key = NoKey \/ reply[w].class = "Unknown"
  BY <1>1 DEF PassThrough, Persists, HasResult, Sequential, CallMatches, TurnsTyped
<1>5. turnMap[w].stage = "answered" /\ turnMap[w].key = turn[w].key
      /\ turnMap[w].class = reply[w].class
  BY DEF PassThrough, turnMap, StageOf
<1>6. UNCHANGED <<clock, atMap, tasksMap>>
  BY MapAtQuiet, MapTasksQuiet DEF PassThrough, storeVars
<1>7. QED
  BY <1>3, <1>4, <1>5, <1>6 DEF Conv!Ignore, atMap, turnMap, tasksMap

LEMMA PersistOutcomeMaps ==
  ASSUME Sequential, SequentialIInv, NEW w \in Workers, PersistOutcome(w)
  PROVE  Conv!Ignore(w) \/ Conv!TakeUp(w)
<1>1. TypeOK /\ TurnsTyped /\ StagesMatch /\ TurnStep(w) /\ CallMatches(w)
  BY DEF SequentialIInv, TurnsIInv, IInv, TurnStep, CallsMatchReplies, CallMatches
<1>2. turnMap[w].stage = "answered" /\ turnMap[w].key = turn[w].key
      /\ turnMap[w].class = reply[w].class
  BY DEF PersistOutcome, turnMap, StageOf
<1>3. ClassOf(reply[w]) = reply[w].class /\ turn[w].key # NoKey
  BY <1>1 DEF PersistOutcome, Persists, HasResult, Sequential, ClassOf, CallMatches
<1>4. UNCHANGED <<clock, atMap, tasksMap>>
  BY MapAtQuiet, MapTasksQuiet DEF PersistOutcome, RecordOutcome, storageVars
<1>5. CASE reply[w].class = "Unknown"
  <2>1. pc'[w] = "idle"
    BY <1>1, <1>3, <1>5 DEF PersistOutcome, RecordOutcome, Return, TypeOK
  <2>2. turnMap' = [turnMap EXCEPT ![w] = Conv!NoTurn]
    BY <1>1, <2>1, EndMaps DEF PersistOutcome, EndTurnOnReturn
  <2>3. Conv!Ignore(w)
    BY <1>2, <1>4, <1>5, <2>2 DEF Conv!Ignore, atMap, turnMap, tasksMap
  <2>4. QED
    BY <2>3
<1>6. CASE reply[w].class # "Unknown"
  <2>1. \E access \in Accesses, ids \in Continuations : Start(w, access, turn[w].key, ids)
    <3>1. \/ Start(w, "create", turn[w].key, reply[w].ids)
          \/ Start(w, IF Distributed THEN "evictRead" ELSE "delete", turn[w].key, NoIds)
      BY <1>3, <1>6 DEF PersistOutcome, RecordOutcome
    <3>2. reply[w].ids \in Continuations /\ NoIds \in Continuations
      BY <1>1 DEF TurnsTyped, Continuations
    <3>3. QED
      BY <3>1, <3>2 DEF Accesses
  <2>2. pc'[w] # "idle" /\ call'[w].now = clock
    BY <1>1, <2>1 DEF Start, NowMillis, Sequential, TypeOK, Accesses
  <2>3. stage'[w] = "recording" /\ UNCHANGED <<turn, reply>>
    BY <1>1, <2>2 DEF PersistOutcome, EndTurnOnReturn, TurnsTyped
  <2>4. turnMap'[w] = [turnMap[w] EXCEPT !.stage = "noting", !.since = clock]
    <3> SUFFICES ASSUME NEW t, t = [turnMap[w] EXCEPT !.stage = "noting", !.since = clock]
                 PROVE  turnMap'[w] = t
      OBVIOUS
    <3> QED
      BY <2>2, <2>3, TurnAfter DEF turnMap
  <2>5. turnMap' = [turnMap EXCEPT ![w] = turnMap'[w]]
    BY <1>1, StepIsLocal, MapTurn DEF SequentialIInv
  <2>6. turnMap' = [turnMap EXCEPT ![w].stage = "noting", ![w].since = clock]
    BY <2>4, <2>5
  <2>7. Conv!TakeUp(w)
    BY <1>2, <1>3, <1>4, <1>6, <2>6 DEF Conv!TakeUp, atMap, turnMap, tasksMap
  <2>8. QED
    BY <2>7
<1>7. QED
  BY <1>5, <1>6

LEMMA RecordStepMaps ==
  ASSUME Sequential, SequentialIInv, NEW w \in Workers, RecordStep(w)
  PROVE  Conv!Note(w) \/ UNCHANGED <<clock, atMap, turnMap, tasksMap>>
<1> DEFINE k == turn[w].key
<1>1. TypeOK /\ TurnsTyped /\ StagesMatch /\ TurnStep(w) /\ CallMatches(w)
  BY DEF SequentialIInv, TurnsIInv, IInv, TurnStep, CallsMatchReplies, CallMatches
<1>2. UNCHANGED <<clock, tasksMap>> /\ k \in Keys /\ call[w].key = k
  BY RecordingOutcome, MapTasksQuiet DEF RecordStep
<1>3. /\ turnMap[w].stage = "noting" /\ turnMap[w].key = k
      /\ turnMap[w].class = reply[w].class /\ turnMap[w].said = reply[w].ids
      /\ turnMap[w].since = call[w].now
  BY DEF RecordStep, turnMap, StageOf
<1>4. reply[w].class = IF pc[w] \in Upserting THEN "Continuable" ELSE "Terminal"
  BY <1>1 DEF RecordStep, CallMatches, HasResult, ClassOf, Sequential
<1>5. CASE GoesOn(w)
  <2>1. stage'[w] = stage[w] /\ UNCHANGED <<turn, reply>>
    BY <1>1, <1>5 DEF RecordStep, EndTurnOnReturn, TurnsTyped, GoesOn
  <2>2. call'[w] = call[w]
    BY <1>1, <1>5, AccessEndsOrGoesOn DEF RecordStep, CallEnds, CallGoesOn, GoesOn
  <2>3. turnMap' = [turnMap EXCEPT ![w] = turnMap'[w]]
    BY <1>1, StepIsLocal, MapTurn DEF SequentialIInv
  <2>4. turnMap'[w] = turnMap[w]
    BY <2>1, <2>2 DEF turnMap, StageOf
  <2>5. turnMap' = turnMap
    BY <2>3, <2>4 DEF turnMap
  <2>6. QED
    BY <1>2, <1>5, <2>5, MapAtQuiet DEF GoesOn
<1>6. CASE Upserts(w) \/ Evicts(w)
  <2>1. turnMap' = [turnMap EXCEPT ![w] = Conv!NoTurn]
    BY <1>1, <1>6, EndMaps DEF RecordStep, EndTurnOnReturn, Upserts, Evicts
  <2>2. CASE Upserts(w) /\ Put(k, LiveEntry(call[w]), TTL)
    <3>1. reply[w].class = "Continuable" /\ call[w].ids = reply[w].ids
      BY <1>1, <1>4, <2>2 DEF Upserts, CallMatches
    <3>2. atMap' = [atMap EXCEPT ![k] = [ids   |-> turnMap[w].said,
                                         until |-> turnMap[w].since + TTL]]
      BY <1>1, <1>2, <1>3, <2>2, <3>1, MapAtLive
    <3>3. Conv!Note(w)
      BY <1>2, <1>3, <2>1, <3>1, <3>2 DEF Conv!Note, atMap, turnMap, tasksMap
    <3>4. QED
      BY <3>3
  <2>3. CASE Upserts(w) /\ Distributed /\ ~Live(k) /\ UNCHANGED slots
    <3>1. atMap[k] = Conv!Nowhere /\ atMap' = atMap
      BY <1>2, <2>3, MapAtQuiet DEF atMap, NoPromise, Conv!Nowhere
    <3>2. Conv!Note(w)
      BY <1>2, <1>3, <2>1, <2>3, <3>1 DEF Conv!Note, atMap, turnMap, tasksMap
    <3>3. QED
      BY <3>2
  <2>4. CASE Evicts(w)
    <3>1. reply[w].class = "Terminal"
      BY <1>4, <2>4 DEF Evicts
    <3>2. atMap' = [atMap EXCEPT ![k] = Conv!Nowhere]
      BY <1>1, <1>2, <2>4, MapAtNothing DEF Evicts
    <3>3. Conv!Note(w)
      BY <1>2, <1>3, <2>1, <3>1, <3>2 DEF Conv!Note, atMap, turnMap, tasksMap
    <3>4. QED
      BY <3>3
  <2>5. QED
    BY <1>2, <1>6, <2>2, <2>3, <2>4 DEF Upserts
<1>7. QED
  BY <1>5, <1>6, RecordingOutcome

LEMMA EnvironmentMaps ==
  ASSUME SequentialIInv, Environment, UNCHANGED turnVars
  PROVE  Conv!Tick \/ \E k \in Keys : Conv!Lapse(k)
<1>1. TypeOK /\ SlotOutlivesEntry
  BY DEF SequentialIInv, TurnsIInv, IInv
<1>2. UNCHANGED <<call, stage, turn, reply, task, owner>>
  BY DEF Environment, Tick, Reclaim, workerVars, turnVars
<1>3. UNCHANGED <<turnMap, tasksMap>>
  BY <1>2, MapTasksQuiet DEF turnMap, StageOf
<1>4. CASE Tick
  <2>1. clock' = clock + 1 /\ UNCHANGED atMap
    BY <1>4, MapAtQuiet DEF Tick
  <2>2. Conv!Tick
    BY <1>3, <2>1 DEF Conv!Tick, atMap, turnMap, tasksMap
  <2>3. QED
    BY <2>2
<1>5. ASSUME NEW k \in Keys, Reclaim(k) PROVE Conv!Lapse(k)
  <2>1. atMap' = [atMap EXCEPT ![k] = Conv!Nowhere] /\ UNCHANGED clock
    BY <1>1, <1>5, MapAtNothing DEF Reclaim
  <2>2. Lossy \/ clock >= atMap[k].until
    <3>1. SUFFICES ASSUME ~Lossy PROVE clock >= atMap[k].until
      OBVIOUS
    <3>2. slots[k].item.expires <= slots[k].reclaim /\ clock >= slots[k].reclaim
          /\ slots[k].item \in Entry
      BY <1>1, <1>5, <3>1 DEF Reclaim, SlotOutlivesEntry, TypeOK
    <3>3. clock \in Nat /\ slots[k].reclaim \in Nat /\ slots[k].item.expires \in Nat
      BY <1>1, <3>2 DEF TypeOK, Entry
    <3>4. clock >= slots[k].item.expires
      BY <3>2, <3>3
    <3>5. QED
      BY <3>3, <3>4 DEF atMap, NoPromise
  <2>3. QED
    BY <1>3, <2>1, <2>2 DEF Conv!Lapse, atMap, turnMap, tasksMap
<1>6. QED
  BY <1>4, <1>5 DEF Environment

LEMMA TurnsRefineNext ==
  ASSUME Sequential
  PROVE  SequentialIInv /\ [TurnsNext]_allVars => [Conv!Next]_(Conv!vars)
<1> SUFFICES ASSUME SequentialIInv, [TurnsNext]_allVars PROVE [Conv!Next]_(Conv!vars)
  OBVIOUS
<1>1. CASE \E w \in Workers : TurnStep(w)
  <2>1. PICK w \in Workers : TurnStep(w)
    BY <1>1
  <2>2. CASE \E k \in Keys : StartTurn(w, k)
    BY <2>2, StartTurnMaps DEF Conv!Next
  <2>3. CASE StartSingleShot(w)
    BY <2>3, StartSingleShotMaps DEF Conv!Next
  <2>4. CASE ResolveTurn(w)
    BY <2>4, ResolveTurnMaps DEF Conv!Next
  <2>5. CASE AgentCreatesTask(w) \/ AgentContinuesTask(w) \/ AgentAnswersOtherwise(w)
    BY <2>5, AgentMaps DEF Conv!Next
  <2>6. CASE PersistOutcome(w) \/ PassThrough(w)
    BY <2>6, PersistOutcomeMaps, PassThroughMaps DEF Conv!Next
  <2>7. CASE RecordStep(w)
    <3>1. CASE Conv!Note(w)
      BY <3>1 DEF Conv!Next
    <3>2. CASE UNCHANGED <<clock, atMap, turnMap, tasksMap>>
      BY <3>2 DEF Conv!vars, atMap, turnMap, tasksMap
    <3>3. QED
      BY <2>7, <3>1, <3>2, RecordStepMaps
  <2>8. QED
    BY <2>1, <2>2, <2>3, <2>4, <2>5, <2>6, <2>7 DEF TurnStep
<1>2. CASE Environment /\ UNCHANGED turnVars
  BY <1>2, EnvironmentMaps DEF Conv!Next
<1>3. CASE \E i \in Ids : AgentEndsTask(i)
  BY <1>3, AgentEndsTaskMaps DEF Conv!Next
<1>4. CASE UNCHANGED allVars
  <2>1. UNCHANGED <<clock, slots, call, stage, turn, reply, task, owner>>
    BY <1>4 DEF allVars
  <2>2. UNCHANGED <<clock, atMap, turnMap, tasksMap>>
    BY <2>1, MapAtQuiet, MapTasksQuiet DEF turnMap, StageOf
  <2>3. QED
    BY <2>2 DEF Conv!vars, atMap, turnMap, tasksMap
<1>5. QED
  BY <1>1, <1>2, <1>3, <1>4 DEF TurnsNext

-----------------------------------------------------------------------------
(* Storage calls of clients that wait have their key to themselves and     *)
(* stand for the reply of their turn: the strengthening under which the    *)
(* cache can be seen as a conversation.                                    *)
THEOREM SequentialInvariant ==
  ASSUME Sequential
  PROVE  TurnsSpec => []SequentialIInv
  BY SequentialInitially, SequentialInductive, PTL DEF TurnsSpec

(* spec.md:35-39: under JSON-RPC a live entry leaves the cache by TTL, or  *)
(* when the reply that a task ended is recorded under its key: for clients *)
(* that send turn after turn, to the turn that carried the very task of    *)
(* the entry.  A lossy backend also loses entries.                         *)
THEOREM OnlyEndedAreEvicted ==
  ASSUME Binding = "JsonRpc"
  PROVE  TurnsSpec => EvictsOnlyEnded
<1>1. TurnsIInv /\ CallsMatchReplies /\ (Sequential => SequentialIInv) /\ [TurnsNext]_allVars =>
        [\A k \in Keys : Live(k) /\ ~Live(k)' => Leaves(k)]_allVars
  <2> SUFFICES ASSUME TurnsIInv, CallsMatchReplies, Sequential => SequentialIInv,
                      [TurnsNext]_allVars, NEW k \in Keys, Live(k), ~Live(k)'
               PROVE  Leaves(k)
    OBVIOUS
  <2>1. CASE IsExpired(slots[k].item, clock) \/ (Lossy /\ slots'[k] = VacantSlot)
    BY <2>1 DEF Leaves
  <2>2. CASE /\ ~IsExpired(slots[k].item, clock)
             /\ \E w \in Workers : /\ stage[w] = "recording"
                                   /\ turn[w].key = k
                                   /\ reply[w].class = "Terminal"
    <3>1. PICK w \in Workers : /\ stage[w] = "recording"
                               /\ turn[w].key = k
                               /\ reply[w].class = "Terminal"
      BY <2>2
    <3>2. Sequential => turn[w].ids = slots[k].item.ids
      BY <2>2, <3>1, StoreAssumption DEF SequentialIInv, TurnsCarryEntry
    <3>3. QED
      BY <3>1, <3>2 DEF Leaves, EvictedBy
  <2>3. QED
    BY <2>1, <2>2, OnlyEndedLeave
<1>2. TurnsSpec => [](Sequential => SequentialIInv)
  <2>1. CASE Sequential
    BY <2>1, SequentialInvariant, PTL
  <2>2. CASE ~Sequential
    BY <2>2, PTL
  <2>3. QED
    BY <2>1, <2>2
<1>3. QED
  BY <1>1, <1>2, TurnsInvariant, RepliesInvariant, PTL DEF TurnsSpec, EvictsOnlyEnded

(* docs/spec.md: to clients that send turn after turn the cache is a       *)
(* conversation.  Every step of the filters, of the store's storage        *)
(* accesses and of the agent is a step of Conversation, or none.           *)
THEOREM TurnsAreConversations ==
  ASSUME Sequential
  PROVE  TurnsSpec => ImplementsConversation
<1>1. TurnsInit => Conv!Init
  BY ConversationInitially
<1>2. SequentialIInv /\ [TurnsNext]_allVars => [Conv!Next]_(Conv!vars)
  BY TurnsRefineNext
<1>3. QED
  BY <1>1, <1>2, SequentialInvariant, PTL DEF TurnsSpec, ImplementsConversation, Conv!Spec

(* The conversation behind the cache, with what is proved of conversations. *)
ConvProofs == INSTANCE ConversationProofs WITH
  Forgetful <- Distributed,
  at <- [k \in Keys |-> IF Live(k) THEN [ids   |-> slots[k].item.ids,
                                         until |-> slots[k].item.expires]
                        ELSE NoPromise],
  turn <- [w \in Workers |-> [stage |-> StageOf(w), key |-> turn[w].key, ids |-> turn[w].ids,
                              since |-> call[w].now,
                              said |-> reply[w].ids, class |-> reply[w].class]],
  tasks <- [i \in Ids |-> [key |-> owner[i], state |-> task[i]]]

(* README.md, docs/spec.md: to such clients a conversation is only ever at *)
(* a task of its own that no reply has said to be over, and a turn on its  *)
(* way to the agent carries no other: what ConversationProofs shows of     *)
(* every conversation, also where the agent ends tasks between turns.      *)
THEOREM TurnsOwnTheirTasks ==
  ASSUME Sequential
  PROVE  TurnsSpec => []OwnUnreportedTasks
<1>1. ConvProofs!Spec => []ConvProofs!OwnUnreportedTasks
  BY ConvProofs!ConversationsOwnTheirTasks, StoreAssumption, EntryAssumption
<1>2. ImplementsConversation <=> ConvProofs!Spec
  <2>1. Conv!Init <=> ConvProofs!Init
    BY DEF Conv!Init, ConvProofs!Init, Conv!Nowhere, ConvProofs!Nowhere, Conv!NoTurn,
           ConvProofs!NoTurn
  <2>2. [Conv!Next]_(Conv!vars) <=> [ConvProofs!Next]_(ConvProofs!vars)
    BY DEF Conv!Next, ConvProofs!Next, Conv!Begin, ConvProofs!Begin,
           Conv!SendSingleShot, ConvProofs!SendSingleShot, Conv!Remembered,
           ConvProofs!Remembered, Conv!Send, ConvProofs!Send, Conv!Answer,
           ConvProofs!Answer, Conv!AnswerNewTask, ConvProofs!AnswerNewTask,
           Conv!AnswerTask, ConvProofs!AnswerTask, Conv!StateAfter,
           ConvProofs!StateAfter, Conv!EndTask, ConvProofs!EndTask, Conv!AnswerOtherwise,
           ConvProofs!AnswerOtherwise, Conv!Ignore, ConvProofs!Ignore, Conv!TakeUp,
           ConvProofs!TakeUp, Conv!Note, ConvProofs!Note, Conv!Lapse, ConvProofs!Lapse,
           Conv!Tick, ConvProofs!Tick, Conv!Classes, ConvProofs!Classes, Conv!NoTurn,
           ConvProofs!NoTurn, Conv!Nowhere, ConvProofs!Nowhere, Conv!vars,
           ConvProofs!vars
  <2>3. QED
    BY <2>1, <2>2, PTL DEF ImplementsConversation, Conv!Spec, ConvProofs!Spec
<1>3. OwnUnreportedTasks <=> ConvProofs!OwnUnreportedTasks
  BY DEF OwnUnreportedTasks, Conv!OwnUnreportedTasks, ConvProofs!OwnUnreportedTasks,
         Conv!UnreportedTaskOf, ConvProofs!UnreportedTaskOf
<1>4. QED
  BY <1>1, <1>2, <1>3, TurnsAreConversations, PTL

=============================================================================
