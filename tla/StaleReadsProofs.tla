-------------------------- MODULE StaleReadsProofs --------------------------
(***************************************************************************)
(* What the conversation store still guarantees when its reads may be      *)
(* stale, for every number of workers, keys and ids, every TTL and every   *)
(* retry bound.                                                            *)
(***************************************************************************)
EXTENDS StaleReads, ConversationStoreProofs

-----------------------------------------------------------------------------
(* A stale read preserves the store's own invariant *)

LEMMA CopyTyped ==
  ASSUME StaleIInv, NEW k \in Keys, NEW slot \in copies[k]
  PROVE  /\ slot.version \in 0..lastVersion
         /\ IsItem(slot) => slot.item \in Entry
         /\ Holds(k) /\ slot.version = slots[k].version => slot = slots[k]
  BY DEF StaleIInv, CopiesAreHistory, Copies, IInv, TypeOK

(* An old live copy was read and its version noted. *)
LEMMA StaleNoteKeeps ==
  ASSUME StaleIInv, NEW w \in Workers, pc[w] # "idle",
         NEW slot \in copies[call[w].key], IsItem(slot), ~IsClosed(slot),
         NEW access \in {"update", "evictUpdate"}, access = "evictUpdate" => Distributed,
         Goto(w, access), UNCHANGED <<storageVars, attempt>>,
         seen' = [seen EXCEPT ![w] = slot.version]
  PROVE  IInv'
<1>1. TypeOK /\ call[w].key \in Keys
  BY DEF StaleIInv, IInv, TypeOK
<1>2. /\ slot.version \in 0..lastVersion /\ slot.version # 0
      /\ Holds(call[w].key) /\ slot.version = slots[call[w].key].version
           => slot = slots[call[w].key]
  BY <1>1, CopyTyped DEF IsItem
<1>3. StorageTyped'
  BY <1>1, UnchangedTyped
<1>4. WorkersTyped' /\ SeenTyped'
  BY <1>1, <1>2 DEF TypeOK, Goto, WorkersTyped, SeenTyped, Accesses, storageVars
<1>5. TypeOK'
  BY <1>3, <1>4 DEF TypeOK, StorageTyped, WorkersTyped, SeenTyped, Holds, IsItem
<1>6. CasSeesLiveEntry'
  <2> SUFFICES ASSUME NEW v \in Workers, pc'[v] \in {"update", "evictUpdate"}
               PROVE  /\ seen'[v] > 0
                      /\ CasHolds(call[v].key, seen[v])' => ~Closed(call[v].key)'
    BY DEF CasSeesLiveEntry
  <2>1. CASE v = w
    BY <1>1, <1>2, <2>1 DEF TypeOK, CasHolds, Closed, IsClosed, Goto, storageVars, Holds, IsItem
  <2>2. CASE v # w
    BY <1>1, <2>2 DEF StaleIInv, IInv, TypeOK, CasSeesLiveEntry, CasHolds, Closed, IsClosed,
                      Goto, storageVars, Holds, IsItem
  <2>3. QED
    BY <2>1, <2>2
<1>7. QED
  BY <1>1, <1>5, <1>6 DEF StaleIInv, IInv, TypeOK, EvictsByBackend, SlotOutlivesEntry,
                          CallsStartedInThePast, Holds, IsItem, Goto, storageVars

LEMMA StaleReadKeeps ==
  ASSUME StaleIInv, NEW w \in Workers, StaleRead(w)
  PROVE  IInv'
<1>1. IInv /\ TypeOK /\ pc[w] # "idle" /\ call[w].key \in Keys
  BY DEF StaleIInv, IInv, TypeOK, StaleRead
<1>2. PICK slot \in copies[call[w].key] :
        GetOf(w, slot) \/ UpsertReadOf(w, slot) \/ EvictReadOf(w, slot)
  BY DEF StaleRead
<1>3. NoIds \in Continuations /\ {"none", "Ok"} \subseteq Results
  BY DEF Continuations, Results
<1>4. CASE GetOf(w, slot)
  <2>1. call[w].now \in Nat
    BY <1>1 DEF TypeOK, Calls, NoCall
  <2>2. (IF IsItem(slot) THEN Continuation(slot.item, call[w].now) ELSE NoIds) \in Continuations
    BY <1>1, <1>3, <2>1, CopyTyped, ContinuationTyped
  <2>3. QED
    BY <1>1, <1>3, <1>4, <2>2, ReturnKeeps DEF GetOf
<1>5. CASE UpsertReadOf(w, slot)
  BY <1>1, <1>2, <1>3, <1>5, ReturnKeeps, StaleNoteKeeps, GotoKeeps DEF UpsertReadOf
<1>6. CASE EvictReadOf(w, slot)
  BY <1>1, <1>2, <1>3, <1>6, ReturnKeeps, StaleNoteKeeps
  DEF EvictReadOf, IInv, EvictsByBackend
<1>7. QED
  BY <1>2, <1>4, <1>5, <1>6

-----------------------------------------------------------------------------
(* A stale read writes nothing *)

LEMMA StaleReadQuiet ==
  ASSUME NEW w \in Workers, StaleRead(w)
  PROVE  UNCHANGED <<slots, lastVersion, clock>>
  BY DEF StaleRead, GetOf, UpsertReadOf, EvictReadOf, storageVars

LEMMA StaleStepLeaves ==
  ASSUME TypeOK, [Next]_vars \/ \E w \in Workers : StaleRead(w), NEW k \in Keys
  PROVE  /\ lastVersion <= lastVersion'
         /\ slots'[k] = slots[k] \/ slots'[k] = VacantSlot \/ NewSlot(k)
<1>1. CASE [Next]_vars
  BY <1>1, StepLeaves
<1>2. CASE \E w \in Workers : StaleRead(w)
  BY <1>2, StaleReadQuiet DEF TypeOK
<1>3. QED
  BY <1>1, <1>2

LEMMA StaleWorkerContinues ==
  ASSUME TypeOK, [Next]_vars \/ \E v \in Workers : StaleRead(v), NEW w \in Workers
  PROVE  Continues(w)
<1>1. CASE [Next]_vars
  BY <1>1, WorkerContinues
<1>2. CASE \E v \in Workers : StaleRead(v)
  BY <1>2 DEF StaleRead, GetOf, UpsertReadOf, EvictReadOf, Return, Goto, Continues, Upserting,
              TypeOK
<1>3. QED
  BY <1>1, <1>2

-----------------------------------------------------------------------------
(* The inductive invariant *)

LEMMA StaleInitially == StaleInit => StaleIInv
<1> SUFFICES ASSUME StaleInit PROVE StaleIInv
  OBVIOUS
<1>1. IInv
  BY IInvInit DEF StaleInit
<1>2. VacantSlot \in Copies /\ ~IsItem(VacantSlot) /\ VacantSlot.version = 0
  BY DEF Copies, VacantSlot, IsItem
<1>3. CopiesAreHistory
  BY <1>2 DEF StaleInit, Init, StorageInit, CopiesAreHistory, Holds
<1>4. LiveEntriesWereAsked
  BY <1>2 DEF StaleInit, Init, StorageInit, LiveEntriesWereAsked, Holds, Upserting
<1>5. QED
  BY <1>1, <1>3, <1>4 DEF StaleIInv

(* Within one key, only the newest slot has the newest version.            *)
LEMMA HistoryKept ==
  ASSUME StaleIInv, TypeOK', [Next]_vars \/ \E w \in Workers : StaleRead(w), Observe
  PROVE  CopiesAreHistory'
<1>1. TypeOK /\ lastVersion \in Nat
  BY DEF StaleIInv, IInv, TypeOK
<1>2. ASSUME NEW k \in Keys
      PROVE  /\ lastVersion <= lastVersion'
             /\ slots'[k] = slots[k] \/ slots'[k] = VacantSlot \/ NewSlot(k)
  BY <1>1, StaleStepLeaves
<1>3. ASSUME NEW k \in Keys
      PROVE  /\ slots'[k] \in Copies /\ slots'[k].version <= lastVersion'
             /\ IsItem(slots'[k]) => slots'[k].item \in Entry
  BY DEF TypeOK, Copies, Holds
<1>4. copies' \in [Keys -> SUBSET Copies]
  BY <1>3 DEF StaleIInv, CopiesAreHistory, Observe
<1>5. ASSUME NEW k \in Keys, NEW c \in copies[k]
      PROVE  /\ c.version \in Nat /\ c.version <= lastVersion'
             /\ IsItem(c) => c.item \in Entry
             /\ Holds(k)' /\ c.version = slots'[k].version => c = slots'[k]
  <2>1. /\ c.version \in Nat /\ c.version <= lastVersion
        /\ IsItem(c) => c.item \in Entry
        /\ Holds(k) /\ c.version = slots[k].version => c = slots[k]
    BY DEF StaleIInv, CopiesAreHistory, Copies
  <2>2. lastVersion' \in Nat
    BY DEF TypeOK
  <2>3. QED
    BY <1>1, <1>2, <2>1, <2>2 DEF NewSlot, VacantSlot, Holds, IsItem
<1>6. ASSUME NEW k \in Keys, NEW c \in copies'[k]
      PROVE  c \in copies[k] \/ c = slots'[k]
  BY DEF Observe
<1>7. QED
  BY <1>3, <1>4, <1>5, <1>6 DEF CopiesAreHistory

LEMMA AskedGrows ==
  ASSUME Observe, NEW k \in Keys
  PROVE  asked[k] \subseteq asked'[k]
  BY DEF Observe

LEMMA AskedKept ==
  ASSUME StaleIInv, TypeOK', [Next]_vars \/ \E w \in Workers : StaleRead(w), Observe
  PROVE  LiveEntriesWereAsked'
<1>1. TypeOK
  BY DEF StaleIInv, IInv
<1>2. ASSUME NEW w \in Workers, pc'[w] \in Upserting
      PROVE  [ids |-> call'[w].ids, now |-> call'[w].now] \in asked'[call'[w].key]
  <2>1. CASE pc[w] \in Upserting /\ call'[w] = call[w]
    <3>1. call[w].key \in Keys
      BY <1>1, <2>1 DEF TypeOK, Upserting
    <3>2. [ids |-> call[w].ids, now |-> call[w].now] \in asked[call[w].key]
      BY <2>1 DEF StaleIInv, LiveEntriesWereAsked, Upserting
    <3>3. QED
      BY <2>1, <3>1, <3>2 DEF Observe
  <2>2. CASE pc[w] = "idle" /\ pc'[w] = "create"
    <3>1. call'[w].key \in Keys
      BY <2>2 DEF TypeOK
    <3>2. w \in Began(call'[w].key)
      BY <2>2 DEF Began
    <3>3. QED
      BY <3>1, <3>2 DEF Observe
  <2>3. QED
    BY <1>1, <1>2, <2>1, <2>2, StaleWorkerContinues DEF Continues
<1>3. asked' \in [Keys -> SUBSET Asked]
  <2>1. ASSUME NEW w \in Workers PROVE [ids |-> call'[w].ids, now |-> call'[w].now] \in Asked
    BY DEF TypeOK, Calls, NoCall, Continuations, Asked
  <2>2. QED
    BY <2>1 DEF StaleIInv, LiveEntriesWereAsked, Observe, Began
<1>4. ASSUME NEW k \in Keys, Holds(k)' PROVE StandsFor(slots[k].item, k)'
  <2>1. CASE slots'[k] = slots[k]
    BY <1>4, <2>1, AskedGrows DEF StaleIInv, LiveEntriesWereAsked, Holds, StandsFor
  <2>2. CASE slots'[k] = VacantSlot
    BY <1>4, <2>2 DEF Holds, IsItem, VacantSlot
  <2>3. CASE NewSlot(k)
    <3>1. ASSUME NEW w \in Workers, slots'[k].item = Tombstone(call[w])
          PROVE  StandsFor(slots[k].item, k)'
      BY <3>1 DEF StandsFor, Tombstone, IsContinuable
    <3>2. ASSUME NEW w \in Workers, pc[w] \in Upserting, call[w].key = k,
                 slots'[k].item = LiveEntry(call[w])
          PROVE  StandsFor(slots[k].item, k)'
      <4>1. [ids |-> call[w].ids, now |-> call[w].now] \in asked[k]
        BY <3>2 DEF StaleIInv, LiveEntriesWereAsked, Upserting
      <4>2. QED
        BY <3>2, <4>1, AskedGrows DEF StandsFor, LiveEntry
    <3>3. QED
      BY <2>3, <3>1, <3>2 DEF NewSlot
  <2>4. QED
    BY <1>1, <2>1, <2>2, <2>3, StaleStepLeaves
<1>5. ASSUME NEW k \in Keys, NEW c \in copies'[k], IsItem(c) PROVE StandsFor(c.item, k)'
  <2>1. c \in copies[k] \/ c = slots'[k]
    BY DEF Observe
  <2>2. CASE c \in copies[k]
    BY <1>5, <2>2, AskedGrows DEF StaleIInv, LiveEntriesWereAsked, StandsFor
  <2>3. CASE c = slots'[k]
    BY <1>4, <1>5, <2>3 DEF Holds, StandsFor
  <2>4. QED
    BY <2>1, <2>2, <2>3
<1>6. QED
  BY <1>2, <1>3, <1>4, <1>5 DEF LiveEntriesWereAsked, Upserting

LEMMA StaleInductive == StaleIInv /\ [StaleNext]_staleVars => StaleIInv'
<1> SUFFICES ASSUME StaleIInv, [StaleNext]_staleVars PROVE StaleIInv'
  OBVIOUS
<1>1. CASE StaleNext
  <2>1. IInv'
    BY <1>1, IInvNext, StaleReadKeeps DEF StaleNext, StaleIInv
  <2>2. TypeOK'
    BY <2>1 DEF IInv
  <2>3. QED
    BY <1>1, <2>1, <2>2, HistoryKept, AskedKept DEF StaleNext, StaleIInv
<1>2. CASE UNCHANGED staleVars
  <2>1. IInv'
    BY <1>2, StutterKeeps DEF StaleIInv, vars, staleVars
  <2>2. QED
    BY <1>2, <2>1 DEF StaleIInv, staleVars, CopiesAreHistory, LiveEntriesWereAsked, StandsFor,
                      Holds
<1>3. QED
  BY <1>1, <1>2

(* The inductive invariant holds whatever copies the storage answers with. *)
THEOREM StaleInvariant == StaleSpec => []StaleIInv
  BY StaleInitially, StaleInductive, PTL DEF StaleSpec

-----------------------------------------------------------------------------
(* The promises of the store *)

(* cache.rs:183-186: a closed conversation is not overwritten, although    *)
(* the guard against it looks at a copy that may be stale.                 *)
THEOREM StaleClosedIsFinal == StaleSpec => NoResurrection
<1>1. StaleIInv /\ [StaleNext]_staleVars => [\A k \in Keys : StaysClosed(k)]_vars
  BY ClosedStep, StaleReadQuiet DEF StaleIInv, StaleNext, StaysClosed, vars, staleVars
<1>2. QED
  BY <1>1, StaleInvariant, PTL DEF StaleSpec, NoResurrection

(* An old copy costs an access like any other.                             *)
LEMMA StaleReadUsesUp ==
  ASSUME TypeOK, TypeOK', NEW v \in Workers, StaleRead(v), NEW w \in Workers
  PROVE  UsesUpAccess(w)
<1>1. CASE \E ids, r : Return(v, ids, r)
  BY <1>1, ReturnUsesUp
<1>2. CASE ~\E ids, r : Return(v, ids, r)
  <2>1. PICK slot : GetOf(v, slot) \/ UpsertReadOf(v, slot) \/ EvictReadOf(v, slot)
    BY DEF StaleRead
  <2>2. CASE UpsertReadOf(v, slot)
    BY <1>2, <2>2, GotoUsesUp DEF UpsertReadOf
  <2>3. CASE EvictReadOf(v, slot)
    BY <1>2, <2>3, GotoUsesUp DEF EvictReadOf
  <2>4. QED
    BY <1>2, <2>1, <2>2, <2>3 DEF GetOf
<1>3. QED
  BY <1>1, <1>2

(* cache.rs:37-39, 211, 266: stale copies do not prolong a call: whatever  *)
(* its reads are answered, each access uses up one of those left to it.    *)
THEOREM StaleCallsAreBounded == StaleSpec => AccessesRunOut
<1>1. StaleIInv /\ StaleIInv' /\ [StaleNext]_staleVars =>
        [\A w \in Workers : UsesUpAccess(w)]_vars
  <2> SUFFICES ASSUME TypeOK, TypeOK', [StaleNext]_staleVars, NEW w \in Workers
               PROVE  UsesUpAccess(w)
    BY DEF StaleIInv, IInv
  <2>1. [Next]_vars \/ \E v \in Workers : StaleRead(v)
    BY DEF StaleNext, staleVars, vars
  <2>2. QED
    BY <2>1, StepUsesUp, StaleReadUsesUp
<1>2. QED
  BY <1>1, StaleInvariant, PTL DEF StaleSpec, AccessesRunOut

(* What a lookup answers comes from the newest slot of its key or an old   *)
(* copy of it.                                                             *)
LEMMA AnswerIsASlot ==
  ASSUME TypeOK, Next \/ \E v \in Workers : StaleRead(v), NEW w \in Workers,
         pc[w] = "get", pc'[w] = "idle", found'[w] # NoIds
  PROVE  \E slot \in copies[call[w].key] \cup {slots[call[w].key]} : GetOf(w, slot)
<1> USE DEF TypeOK
<1>1. ASSUME NEW v \in Workers, v # w, Access(v) PROVE pc'[w] = pc[w]
  BY <1>1 DEF Access, Get, GetOf, GetError, UpsertCreate, UpsertRead, UpsertReadOf,
              UpsertRecreate, UpsertUpdate, EvictDelete, EvictRead, EvictReadOf, EvictUpdate,
              UpdateError, Write, Acknowledge, Retry, Return, Goto
<1>2. ASSUME NEW v \in Workers, v # w, StaleRead(v) PROVE pc'[w] = pc[w]
  BY <1>2 DEF StaleRead, GetOf, UpsertReadOf, EvictReadOf, Return, Goto
<1>3. ASSUME NEW v \in Workers, NEW k, NEW class, NEW ids,
             GetContinuation(v, k) \/ RecordOutcome(v, k, class, ids)
      PROVE  pc'[w] = pc[w] \/ pc[w] = "idle"
  BY <1>3 DEF GetContinuation, RecordOutcome, Start, Return
<1>4. CASE Environment
  BY <1>4 DEF Environment, Tick, Reclaim, workerVars
<1>5. CASE Access(w)
  BY <1>5 DEF Access, Get, GetError, UpsertCreate, UpsertRead, UpsertReadOf, UpsertRecreate,
              UpsertUpdate, EvictDelete, EvictRead, EvictReadOf, EvictUpdate, UpdateError,
              Return
<1>6. CASE StaleRead(w)
  BY <1>6 DEF StaleRead, UpsertReadOf, EvictReadOf
<1>7. QED
  BY <1>1, <1>2, <1>3, <1>4, <1>5, <1>6 DEF Next

(* cache.rs:81-82: however stale the copy, a lookup answers an id only to  *)
(* the key it was stored under and only within a TTL of the reply that     *)
(* asked to keep it.                                                       *)
THEOREM ServedWithinTTL == StaleSpec => ServiceEndsWithTTL
<1> DEFINE A(w) == pc[w] = "get" /\ pc'[w] = "idle" /\ found'[w] # NoIds =>
                     \E a \in asked[call[w].key] :
                        a.ids = found'[w] /\ call[w].now < a.now + TTL
<1>1. ASSUME StaleIInv, StaleNext, NEW w \in Workers PROVE A(w)
  <2> SUFFICES ASSUME pc[w] = "get", pc'[w] = "idle", found'[w] # NoIds
               PROVE  \E a \in asked[call[w].key] :
                        a.ids = found'[w] /\ call[w].now < a.now + TTL
    OBVIOUS
  <2>1. TypeOK /\ call[w].key \in Keys
    BY <1>1 DEF StaleIInv, IInv, TypeOK
  <2>2. PICK slot \in copies[call[w].key] \cup {slots[call[w].key]} : GetOf(w, slot)
    BY <1>1, <2>1, AnswerIsASlot DEF StaleNext
  <2>3. IsItem(slot) /\ found'[w] = Continuation(slot.item, call[w].now)
    BY <2>1, <2>2 DEF GetOf, Return, TypeOK
  <2>4. /\ ~IsExpired(slot.item, call[w].now) /\ IsContinuable(slot.item)
        /\ found'[w] = slot.item.ids
    BY <2>3 DEF Continuation
  <2>5. StandsFor(slot.item, call[w].key)
    BY <1>1, <2>1, <2>3 DEF StaleIInv, LiveEntriesWereAsked, Holds
  <2>6. PICK a \in asked[call[w].key] :
          a.ids = slot.item.ids /\ slot.item.expires = a.now + TTL
    BY <2>4, <2>5 DEF StandsFor
  <2>7. call[w].now \in Nat /\ a.now \in Nat /\ TTL \in Nat
    BY <1>1, <2>1, EntryAssumption
    DEF StaleIInv, LiveEntriesWereAsked, Asked, TypeOK, Calls, NoCall
  <2>8. QED
    BY <2>4, <2>6, <2>7 DEF IsExpired
<1>2. StaleIInv /\ [StaleNext]_staleVars => [\A w \in Workers : A(w)]_staleVars
  BY <1>1
<1>3. QED
  BY <1>2, StaleInvariant, PTL DEF StaleSpec, ServiceEndsWithTTL

=============================================================================
