---------------------- MODULE ConversationStoreProofs ----------------------
(***************************************************************************)
(* The conversation store keeps its promises for every number of workers,  *)
(* keys and ids, every TTL and every retry bound.                          *)
(***************************************************************************)
EXTENDS ConversationStore, TLAPS

-----------------------------------------------------------------------------
(* Types *)

LEMMA EntriesTyped ==
  ASSUME NEW c \in Calls
  PROVE  LiveEntry(c) \in Entry /\ Tombstone(c) \in Entry
  BY StoreAssumption, EntryAssumption
  DEF LiveEntry, Tombstone, Entry, EntryStates, Calls, NoCall, Continuations

(* What get_continuation answers is a continuation. *)
LEMMA ContinuationTyped ==
  ASSUME NEW e \in Entry, NEW now \in Nat
  PROVE  Continuation(e, now) \in Continuations
  BY DEF Continuation, Entry, Continuations

WorkersTyped ==
  /\ pc \in [Workers -> Accesses \cup {"idle"}]
  /\ call \in [Workers -> Calls]
  /\ attempt \in [Workers -> 0..(CasMaxRetries - 1)]
  /\ found \in [Workers -> Continuations]
  /\ result \in [Workers -> Results]
  /\ \A w \in Workers : IF pc[w] = "idle" THEN call[w] = NoCall ELSE call[w].key \in Keys

SeenTyped == seen \in [Workers -> 0..lastVersion]

LEMMA ReturnTyped ==
  ASSUME TypeOK, NEW w \in Workers, NEW ids \in Continuations, NEW r \in Results,
         Return(w, ids, r), lastVersion' \in Nat, lastVersion <= lastVersion'
  PROVE  WorkersTyped' /\ SeenTyped'
  BY StoreAssumption DEF TypeOK, Return, WorkersTyped, SeenTyped, Calls, NoCall

LEMMA RetryTyped ==
  ASSUME TypeOK, NEW w \in Workers, NEW access \in Accesses,
         pc[w] # "idle", Retry(w, access), UNCHANGED lastVersion
  PROVE  WorkersTyped' /\ SeenTyped'
<1>1. CASE /\ attempt' = [attempt EXCEPT ![w] = @ + 1]
           /\ attempt[w] + 1 < CasMaxRetries
           /\ seen' = [seen EXCEPT ![w] = 0]
           /\ Goto(w, access)
  BY <1>1, StoreAssumption DEF TypeOK, Goto, WorkersTyped, SeenTyped, Accesses
<1>2. CASE Return(w, NoIds, "CasConflict")
  BY <1>2, ReturnTyped DEF TypeOK, Results, Continuations
<1>3. QED
  BY <1>1, <1>2 DEF Retry

StorageTyped ==
  /\ lastVersion \in Nat
  /\ clock \in Nat
  /\ slots \in [Keys -> [item    : Entry \cup {NoItem},
                       version : 0..lastVersion,
                       reclaim : Nat]]
  /\ \A k \in Keys : Holds(k) => slots[k].item \in Entry

LEMMA PutTyped ==
  ASSUME TypeOK, NEW k \in Keys, NEW item \in Entry, Put(k, item, TTL), UNCHANGED clock
  PROVE  StorageTyped' /\ lastVersion <= lastVersion'
  BY EntryAssumption DEF TypeOK, StorageTyped, Put, Holds, IsItem

LEMMA VacateTyped ==
  ASSUME TypeOK, NEW k \in Keys, Vacate(k), UNCHANGED clock
  PROVE  StorageTyped' /\ lastVersion <= lastVersion'
  BY DEF TypeOK, StorageTyped, Vacate, Holds, IsItem, VacantSlot

LEMMA UnchangedTyped ==
  ASSUME TypeOK, UNCHANGED storageVars
  PROVE  StorageTyped' /\ lastVersion' \in Nat /\ lastVersion <= lastVersion'
  BY DEF TypeOK, StorageTyped, storageVars, Holds, IsItem

LEMMA WriteTyped ==
  ASSUME TypeOK, NEW w \in Workers, pc[w] # "idle", NEW item \in Entry, Write(w, item)
  PROVE  TypeOK'
<1>1. StorageTyped' /\ lastVersion <= lastVersion'
  BY PutTyped DEF Write, TypeOK
<1>2. lastVersion' \in Nat
  BY <1>1 DEF StorageTyped
<1>3. PICK r \in Results : Return(w, NoIds, r)
  BY DEF Write, Acknowledge, Results
<1>4. WorkersTyped' /\ SeenTyped'
  BY <1>1, <1>2, <1>3, ReturnTyped DEF Continuations
<1>5. QED
  BY <1>1, <1>4 DEF TypeOK, StorageTyped, WorkersTyped, SeenTyped, Holds, IsItem

(* Steps that leave the storage alone. *)
LEMMA QuietReturnTyped ==
  ASSUME TypeOK, NEW w \in Workers, NEW ids \in Continuations, NEW r \in Results,
         Return(w, ids, r), UNCHANGED storageVars
  PROVE  TypeOK'
<1>1. StorageTyped' /\ WorkersTyped' /\ SeenTyped'
  BY UnchangedTyped, ReturnTyped
<1>2. QED
  BY <1>1 DEF TypeOK, StorageTyped, WorkersTyped, SeenTyped, Holds, IsItem

LEMMA QuietRetryTyped ==
  ASSUME TypeOK, NEW w \in Workers, NEW access \in Accesses, pc[w] # "idle",
         Retry(w, access), UNCHANGED storageVars
  PROVE  TypeOK'
<1>1. StorageTyped' /\ WorkersTyped' /\ SeenTyped'
  BY UnchangedTyped, RetryTyped DEF storageVars
<1>2. QED
  BY <1>1 DEF TypeOK, StorageTyped, WorkersTyped, SeenTyped, Holds, IsItem

LEMMA QuietGotoTyped ==
  ASSUME TypeOK, NEW w \in Workers, NEW access \in Accesses, pc[w] # "idle",
         Goto(w, access), UNCHANGED <<storageVars, attempt>>,
         \/ UNCHANGED seen
         \/ seen' = [seen EXCEPT ![w] = slots[call[w].key].version]
  PROVE  TypeOK'
<1>1. call[w].key \in Keys
  BY DEF TypeOK
<1>2. slots[call[w].key].version \in 0..lastVersion
  BY <1>1 DEF TypeOK
<1>3. StorageTyped'
  BY UnchangedTyped
<1>4. WorkersTyped' /\ SeenTyped'
  BY <1>2 DEF TypeOK, Goto, WorkersTyped, SeenTyped, Accesses, storageVars
<1>5. QED
  BY <1>3, <1>4 DEF TypeOK, StorageTyped, WorkersTyped, SeenTyped, Holds, IsItem

LEMMA StartTyped ==
  ASSUME TypeOK, NEW w \in Workers, NEW access \in Accesses, NEW k \in Keys,
         NEW ids \in Continuations, Start(w, access, k, ids),
         UNCHANGED <<storageVars, attempt, seen>>
  PROVE  TypeOK'
<1>1. PICK now \in Nat : call' = [call EXCEPT ![w] = [key |-> k, ids |-> ids, now |-> now]]
  BY DEF Start, NowMillis, TypeOK
<1>2. [key |-> k, ids |-> ids, now |-> now] \in Calls
  BY DEF Calls
<1>3. call' \in [Workers -> Calls] /\ call'[w].key \in Keys
  BY <1>1, <1>2 DEF TypeOK
<1>4. StorageTyped'
  BY UnchangedTyped
<1>5. \A v \in Workers : IF pc'[v] = "idle" THEN call'[v] = NoCall
                                              ELSE call'[v].key \in Keys
  BY <1>1, <1>3 DEF TypeOK, Start, Accesses
<1>6. WorkersTyped' /\ SeenTyped'
  BY <1>3, <1>5 DEF TypeOK, Start, WorkersTyped, SeenTyped, storageVars,
                    Continuations, Results
<1>7. QED
  BY <1>4, <1>6 DEF TypeOK, StorageTyped, WorkersTyped, SeenTyped, Holds, IsItem

-----------------------------------------------------------------------------
(* The inductive invariant.  One lemma per way an action ends: a write, a  *)
(* vacated key, or a quiet return, retry, goto or start.                   *)

LEMMA IInvInit == Init => IInv
  BY StoreAssumption, EntryAssumption
  DEF Init, StorageInit, IInv, TypeOK, EvictsByBackend, SlotOutlivesEntry,
      CallsStartedInThePast, CasSeesLiveEntry, VacantSlot, Holds, IsItem, Calls, NoCall,
      Continuations, Results

(* A write takes a new version, so no CAS prepared before it succeeds.     *)
LEMMA WriteKeeps ==
  ASSUME IInv, NEW w \in Workers, pc[w] # "idle",
         NEW item \in Entry, item.expires <= clock + TTL, Write(w, item)
  PROVE  IInv'
<1>1. TypeOK /\ TypeOK'
  BY WriteTyped DEF IInv
<1>2. PICK r \in Results : Return(w, NoIds, r)
  BY DEF Write, Acknowledge, Results
<1> DEFINE key == call[w].key
<1>3. /\ key \in Keys /\ clock' = clock /\ lastVersion' = lastVersion + 1
      /\ slots' = [slots EXCEPT ![key] = [item    |-> item,
                                          version |-> lastVersion + 1,
                                          reclaim |-> clock + TTL]]
  BY <1>1 DEF Write, Put, TypeOK
<1>4. EvictsByBackend'
  BY <1>1, <1>2 DEF IInv, EvictsByBackend, Return, TypeOK
<1>5. SlotOutlivesEntry'
  BY <1>1, <1>3 DEF IInv, SlotOutlivesEntry, Holds, IsItem, TypeOK
<1>6. CallsStartedInThePast'
  BY <1>1, <1>2, <1>3 DEF IInv, CallsStartedInThePast, Return, NoCall, TypeOK
<1>7. CasSeesLiveEntry'
  BY <1>1, <1>2, <1>3
  DEF IInv, CasSeesLiveEntry, CasHolds, Closed, IsClosed, Holds, IsItem, Return, TypeOK
<1>8. QED
  BY <1>1, <1>4, <1>5, <1>6, <1>7 DEF IInv

LEMMA ReturnKeeps ==
  ASSUME IInv, NEW w \in Workers, NEW ids \in Continuations, NEW r \in Results,
         Return(w, ids, r), UNCHANGED storageVars
  PROVE  IInv'
<1>1. TypeOK /\ TypeOK'
  BY QuietReturnTyped DEF IInv
<1>2. QED
  BY <1>1 DEF IInv, TypeOK, EvictsByBackend, SlotOutlivesEntry,
              CallsStartedInThePast, CasSeesLiveEntry, CasHolds, Closed, IsClosed, Holds,
                  IsItem,
              Return, NoCall, storageVars

LEMMA RetryKeeps ==
  ASSUME IInv, NEW w \in Workers, pc[w] # "idle", NEW access \in {"read", "evictRead"},
         access = "evictRead" => Distributed,
         Retry(w, access), UNCHANGED storageVars
  PROVE  IInv'
<1>1. CASE Return(w, NoIds, "CasConflict")
  BY <1>1, ReturnKeeps DEF Results, Continuations
<1>2. CASE /\ seen' = [seen EXCEPT ![w] = 0]
           /\ Goto(w, access)
  <2>1. TypeOK /\ TypeOK'
    BY QuietRetryTyped DEF IInv, Accesses
  <2>2. QED
    BY <1>2, <2>1 DEF IInv, TypeOK, EvictsByBackend, SlotOutlivesEntry,
                      CallsStartedInThePast, CasSeesLiveEntry, CasHolds, Closed,
                          IsClosed, Holds, IsItem,
                      Goto, storageVars
<1>3. QED
  BY <1>1, <1>2 DEF Retry

(* From "create" to "read", from "read" to "recreate". *)
LEMMA GotoKeeps ==
  ASSUME IInv, NEW w \in Workers, pc[w] # "idle", NEW access \in {"read", "recreate"},
         Goto(w, access), UNCHANGED <<storageVars, attempt, seen>>
  PROVE  IInv'
<1>1. TypeOK /\ TypeOK'
  BY QuietGotoTyped DEF IInv, Accesses
<1>2. QED
  BY <1>1 DEF IInv, TypeOK, EvictsByBackend, SlotOutlivesEntry,
              CallsStartedInThePast, CasSeesLiveEntry, CasHolds, Closed, IsClosed, Holds,
                  IsItem,
              Goto, storageVars

(* A live entry was read and its version noted. *)
LEMMA NoteKeeps ==
  ASSUME IInv, NEW w \in Workers, pc[w] # "idle", NEW access \in {"update", "evictUpdate"},
         access = "evictUpdate" => Distributed,
         Goto(w, access), UNCHANGED <<storageVars, attempt>>,
         Holds(call[w].key), ~Closed(call[w].key),
         seen' = [seen EXCEPT ![w] = slots[call[w].key].version]
  PROVE  IInv'
<1>1. TypeOK /\ TypeOK'
  BY QuietGotoTyped DEF IInv, Accesses
<1>2. call[w].key \in Keys /\ slots[call[w].key].version \in Nat \ {0}
  BY <1>1 DEF TypeOK, Holds, IsItem
<1>3. CasSeesLiveEntry'
  BY <1>1, <1>2 DEF IInv, TypeOK, CasSeesLiveEntry, CasHolds, Closed, IsClosed, Holds,
      IsItem,
                    Goto, storageVars
<1>4. QED
  BY <1>1, <1>3 DEF IInv, TypeOK, EvictsByBackend, SlotOutlivesEntry,
                    CallsStartedInThePast, Holds, IsItem, Goto, storageVars

LEMMA StartKeeps ==
  ASSUME IInv, NEW w \in Workers, NEW access \in {"get", "create", "evictRead", "delete"},
         access = "delete" => ~Distributed, access = "evictRead" => Distributed,
         NEW k \in Keys, NEW ids \in Continuations, Start(w, access, k, ids),
         UNCHANGED <<storageVars, attempt, seen>>
  PROVE  IInv'
<1>1. TypeOK /\ TypeOK'
  BY StartTyped DEF IInv, Accesses
<1>2. PICK now \in NowMillis :
        call' = [call EXCEPT ![w] = [key |-> k, ids |-> ids, now |-> now]]
  BY DEF Start
<1>3. now \in Nat /\ now <= clock
  BY <1>1 DEF NowMillis, TypeOK
<1>4. CallsStartedInThePast'
  BY <1>1, <1>2, <1>3 DEF IInv, CallsStartedInThePast, TypeOK, storageVars
<1>5. CasSeesLiveEntry'
  BY <1>1, <1>2 DEF IInv, TypeOK, CasSeesLiveEntry, CasHolds, Closed, IsClosed, Holds,
      IsItem,
                    Start, storageVars
<1>6. QED
  BY <1>1, <1>4, <1>5 DEF IInv, TypeOK, EvictsByBackend, SlotOutlivesEntry, Holds, IsItem,
                          Start, storageVars

LEMMA DeleteKeeps ==
  ASSUME IInv, NEW w \in Workers, EvictDelete(w)
  PROVE  IInv'
<1>1. PICK r \in Results : Return(w, NoIds, r)
  BY DEF EvictDelete, Acknowledge, Results
<1>2. /\ TypeOK /\ call[w].key \in Keys
      /\ Vacate(call[w].key) /\ clock' = clock /\ lastVersion' = lastVersion
  BY DEF EvictDelete, Vacate, IInv, TypeOK
<1>3. StorageTyped' /\ lastVersion' \in Nat /\ lastVersion <= lastVersion'
  BY <1>2, VacateTyped DEF TypeOK
<1>4. WorkersTyped' /\ SeenTyped'
  BY <1>1, <1>2, <1>3, ReturnTyped DEF Continuations
<1>5. TypeOK'
  BY <1>3, <1>4 DEF TypeOK, StorageTyped, WorkersTyped, SeenTyped, Holds, IsItem
<1>6. CasSeesLiveEntry'
  BY <1>1, <1>2, <1>5 DEF IInv, TypeOK, CasSeesLiveEntry, CasHolds, Closed, IsClosed,
      Holds, IsItem,
                          Return, Vacate, VacantSlot
<1>7. SlotOutlivesEntry'
  BY <1>2, <1>5 DEF IInv, TypeOK, SlotOutlivesEntry, Holds, IsItem, Vacate, VacantSlot
<1>8. QED
  BY <1>1, <1>2, <1>5, <1>6, <1>7
  DEF IInv, TypeOK, EvictsByBackend, CallsStartedInThePast, Return, NoCall

LEMMA ReclaimKeeps ==
  ASSUME IInv, NEW k \in Keys, Reclaim(k)
  PROVE  IInv'
<1>1. TypeOK'
  <2>1. StorageTyped'
    BY VacateTyped DEF Reclaim, IInv
  <2>2. QED
    BY <2>1 DEF IInv, TypeOK, StorageTyped, Reclaim, Vacate, Holds, IsItem, workerVars
<1>2. QED
  BY <1>1 DEF IInv, TypeOK, EvictsByBackend, SlotOutlivesEntry, CallsStartedInThePast,
              CasSeesLiveEntry, CasHolds, Closed, IsClosed, Holds, IsItem, Reclaim,
                  Vacate, VacantSlot,
              workerVars

LEMMA TickKeeps ==
  ASSUME IInv, Tick
  PROVE  IInv'
<1>1. \A w \in Workers : call[w].now \in Nat
  BY DEF IInv, TypeOK, Calls, NoCall
<1>2. CallsStartedInThePast'
  BY <1>1 DEF IInv, TypeOK, CallsStartedInThePast, Tick, workerVars
<1>3. TypeOK'
  BY DEF IInv, TypeOK, Tick, workerVars, Holds, IsItem
<1>4. CasSeesLiveEntry'
  BY DEF IInv, CasSeesLiveEntry, CasHolds, Closed, IsClosed, Holds, IsItem, Tick, workerVars
<1>5. QED
  BY <1>2, <1>3, <1>4 DEF IInv, EvictsByBackend, SlotOutlivesEntry, Holds, IsItem, Tick,
      workerVars

LEMMA StutterKeeps == IInv /\ UNCHANGED vars => IInv'
  BY DEF IInv, TypeOK, EvictsByBackend, SlotOutlivesEntry, CallsStartedInThePast,
         CasSeesLiveEntry, CasHolds, Closed, IsClosed, Holds, IsItem, vars

-----------------------------------------------------------------------------
(* What each access of a worker writes. *)

LEMMA LiveEntryFits ==
  ASSUME IInv, NEW w \in Workers
  PROVE  /\ LiveEntry(call[w]) \in Entry /\ LiveEntry(call[w]).expires <= clock + TTL
         /\ Tombstone(call[w]) \in Entry /\ Tombstone(call[w]).expires <= clock + TTL
<1>1. call[w] \in Calls /\ call[w].now \in Nat /\ call[w].now <= clock /\ clock \in Nat
  BY DEF IInv, TypeOK, CallsStartedInThePast, Calls, NoCall
<1>2. LiveEntry(call[w]).expires <= clock + TTL /\ Tombstone(call[w]).expires <= clock + TTL
  BY <1>1, EntryAssumption DEF LiveEntry, Tombstone
<1>3. QED
  BY <1>1, <1>2, EntriesTyped

LEMMA AccessKeeps ==
  ASSUME IInv, NEW w \in Workers, Access(w)
  PROVE  IInv'
<1> DEFINE k == call[w].key
<1>1. TypeOK
  BY DEF IInv
<1>2. /\ LiveEntry(call[w]) \in Entry /\ LiveEntry(call[w]).expires <= clock + TTL
      /\ Tombstone(call[w]) \in Entry /\ Tombstone(call[w]).expires <= clock + TTL
  BY LiveEntryFits
<1>3. NoIds \in Continuations /\ {"none", "Ok", "CasConflict", "Storage"} \subseteq Results
  BY DEF Continuations, Results
<1>4. CASE Get(w)
  <2>1. k \in Keys /\ call[w].now \in Nat
    BY <1>1, <1>4 DEF Get, GetOf, TypeOK, Calls, NoCall
  <2>2. (IF Holds(k) THEN Continuation(slots[k].item, call[w].now) ELSE NoIds)
          \in Continuations
    BY <1>1, <1>3, <2>1, ContinuationTyped DEF TypeOK
  <2>3. QED
    BY <1>3, <1>4, <2>2, ReturnKeeps DEF Get, GetOf, Holds
<1>5. CASE GetError(w)
  BY <1>3, <1>5, ReturnKeeps DEF GetError
<1>6. CASE UpsertCreate(w)
  BY <1>2, <1>6, WriteKeeps, GotoKeeps DEF UpsertCreate
<1>7. CASE UpsertRead(w)
  BY <1>3, <1>7, ReturnKeeps, NoteKeeps, GotoKeeps DEF UpsertRead, UpsertReadOf, Holds,
      Closed
<1>8. CASE UpsertRecreate(w)
  BY <1>2, <1>8, WriteKeeps, RetryKeeps DEF UpsertRecreate
<1>9. CASE UpsertUpdate(w)
  BY <1>2, <1>9, WriteKeeps, RetryKeeps DEF UpsertUpdate
<1>10. CASE EvictDelete(w)
  BY <1>10, DeleteKeeps
<1>11. CASE EvictRead(w)
  BY <1>3, <1>11, ReturnKeeps, NoteKeeps DEF EvictRead, EvictReadOf, IInv,
      EvictsByBackend, Holds, Closed
<1>12. CASE EvictUpdate(w)
  BY <1>2, <1>12, WriteKeeps, RetryKeeps DEF EvictUpdate, IInv, EvictsByBackend
<1>13. CASE UpdateError(w)
  BY <1>3, <1>13, ReturnKeeps DEF UpdateError
<1>14. QED
  BY <1>4, <1>5, <1>6, <1>7, <1>8, <1>9, <1>10, <1>11, <1>12, <1>13 DEF Access

LEMMA RecordOutcomeKeeps ==
  ASSUME IInv, NEW w \in Workers, NEW k \in Keys, NEW class \in StateClasses,
         NEW ids \in Continuations, RecordOutcome(w, k, class, ids)
  PROVE  IInv'
<1>1. NoIds \in Continuations /\ "Ok" \in Results
  BY DEF Continuations, Results
<1>2. CASE class = "Continuable"
  BY <1>2, StartKeeps DEF RecordOutcome
<1>3. CASE class = "Terminal"
  <2> DEFINE access == IF Distributed THEN "evictRead" ELSE "delete"
  <2>1. /\ access \in {"get", "create", "evictRead", "delete"}
        /\ access = "delete" => ~Distributed
        /\ access = "evictRead" => Distributed
    OBVIOUS
  <2>2. Start(w, access, k, NoIds) /\ UNCHANGED <<storageVars, attempt, seen>>
    BY <1>3 DEF RecordOutcome
  <2>3. QED
    BY <1>1, <2>1, <2>2, StartKeeps
<1>4. CASE class = "Unknown"
  BY <1>1, <1>4, ReturnKeeps DEF RecordOutcome
<1>5. QED
  BY <1>2, <1>3, <1>4 DEF StateClasses

LEMMA IInvNext == IInv /\ [Next]_vars => IInv'
<1> SUFFICES ASSUME IInv, [Next]_vars PROVE IInv'
  OBVIOUS
<1>1. NoIds \in Continuations
  BY DEF Continuations
<1>2. ASSUME NEW w \in Workers, NEW k \in Keys, GetContinuation(w, k) PROVE IInv'
  BY <1>1, <1>2, StartKeeps DEF GetContinuation
<1>3. ASSUME NEW w \in Workers, NEW k \in Keys, NEW class \in StateClasses,
             NEW ids \in Continuations, RecordOutcome(w, k, class, ids)
      PROVE  IInv'
  BY <1>3, RecordOutcomeKeeps
<1>4. ASSUME NEW w \in Workers, Access(w) PROVE IInv'
  BY <1>4, AccessKeeps
<1>5. CASE Tick
  BY <1>5, TickKeeps
<1>6. ASSUME NEW k \in Keys, Reclaim(k) PROVE IInv'
  BY <1>6, ReclaimKeeps
<1>7. CASE UNCHANGED vars
  BY <1>7, StutterKeeps
<1>8. QED
  BY <1>2, <1>3, <1>4, <1>5, <1>6, <1>7 DEF Next, Environment

(* Every reachable state satisfies the inductive invariant of the store.   *)
THEOREM StoreInvariant == Spec => []IInv
  BY IInvInit, IInvNext, PTL DEF Spec

(* The variables of the store keep to their types (src/cache.rs).          *)
THEOREM TypeCorrect == Spec => []TypeOK
<1>1. IInv => TypeOK
  BY DEF IInv
<1>2. QED
  BY <1>1, StoreInvariant, PTL

-----------------------------------------------------------------------------
(* What an access may do to the stored entries. *)

(* Whatever a worker overwrites is not a tombstone, and only the local     *)
(* backend is deleted from.                                                *)
LEMMA AccessEffect ==
  ASSUME IInv, NEW w \in Workers, Access(w)
  PROVE  \/ UNCHANGED slots
         \/ /\ call[w].key \in Keys /\ ~Closed(call[w].key)
            /\ \E item \in Entry : Put(call[w].key, item, TTL)
         \/ ~Distributed
<1>1. LiveEntry(call[w]) \in Entry /\ Tombstone(call[w]) \in Entry
  BY LiveEntryFits
<1>2. pc[w] # "idle" => call[w].key \in Keys
  BY DEF IInv, TypeOK
<1>3. CASE UpsertCreate(w)
  BY <1>1, <1>2, <1>3 DEF UpsertCreate, Write, Closed, IsClosed, storageVars, Holds, IsItem
<1>4. CASE UpsertRecreate(w)
  BY <1>1, <1>2, <1>4 DEF UpsertRecreate, Write, Closed, IsClosed, storageVars, Holds,
      IsItem
<1>5. CASE UpsertUpdate(w)
  BY <1>1, <1>2, <1>5 DEF UpsertUpdate, Write, IInv, CasSeesLiveEntry, storageVars
<1>6. CASE EvictUpdate(w)
  BY <1>1, <1>2, <1>6 DEF EvictUpdate, Write, IInv, CasSeesLiveEntry, storageVars
<1>7. CASE EvictDelete(w)
  BY <1>7 DEF EvictDelete, IInv, EvictsByBackend
<1>8. CASE Get(w) \/ GetError(w) \/ UpsertRead(w) \/ EvictRead(w) \/ UpdateError(w)
  BY <1>8 DEF Get, GetOf, GetError, UpsertRead, UpsertReadOf, EvictRead, EvictReadOf,
      UpdateError, storageVars
<1>9. QED
  BY <1>3, <1>4, <1>5, <1>6, <1>7, <1>8 DEF Access

(* Of the steps that are not an access, only the backend's own changes an  *)
(* entry: unless it is lossy, only an entry that is no longer served.      *)
LEMMA OtherEffect ==
  ASSUME IInv, [Next]_vars, ~ \E w \in Workers : Access(w)
  PROVE  \/ UNCHANGED slots
         \/ \E k \in Keys : /\ slots' = [slots EXCEPT ![k] = VacantSlot]
                            /\ Holds(k) /\ (Lossy \/ IsExpired(slots[k].item, clock))
<1>1. CASE \E k \in Keys : Reclaim(k)
  <2>1. PICK k \in Keys : Reclaim(k)
    BY <1>1
  <2>2. Lossy \/ IsExpired(slots[k].item, clock)
    BY <2>1 DEF Reclaim, IInv, TypeOK, SlotOutlivesEntry, IsExpired, Entry
  <2>3. QED
    BY <2>1, <2>2 DEF Reclaim, Vacate
<1>2. CASE UNCHANGED vars \/ Tick
  BY <1>2 DEF vars, Tick
<1>3. CASE \E w \in Workers, k \in Keys :
             \/ GetContinuation(w, k)
             \/ \E class \in StateClasses, ids \in Continuations :
                   RecordOutcome(w, k, class, ids)
  BY <1>3 DEF GetContinuation, RecordOutcome, storageVars
<1>4. QED
  BY <1>1, <1>2, <1>3 DEF Next, Environment

LEMMA ClosedStep ==
  ASSUME IInv, [Next]_vars, NEW k \in Keys
  PROVE  StaysClosed(k)
<1> SUFFICES ASSUME Distributed, Closed(k)
             PROVE  \/ slots'[k] = slots[k]
                    \/ slots'[k] = VacantSlot /\ (Lossy \/ IsExpired(slots[k].item, clock))
  BY DEF StaysClosed
<1>1. slots = [j \in Keys |-> slots[j]]
  BY DEF IInv, TypeOK
<1>2. CASE \E w \in Workers : Access(w)
  BY <1>1, <1>2, AccessEffect DEF Put
<1>3. CASE ~ \E w \in Workers : Access(w)
  BY <1>1, <1>3, OtherEffect
<1>4. QED
  BY <1>2, <1>3

(* cache.rs:183-186, 214: on the gossip backend no interleaving of upserts *)
(* and evicts overwrites a closed conversation.                            *)
THEOREM ClosedIsFinal == Spec => NoResurrection
<1>1. IInv /\ [Next]_vars => [\A k \in Keys : StaysClosed(k)]_vars
  BY ClosedStep
<1>2. QED
  BY <1>1, StoreInvariant, PTL DEF Spec, NoResurrection

-----------------------------------------------------------------------------
(* The storage accesses left to a call *)

LEMMA LeftAt ==
  ASSUME TypeOK, NEW w \in Workers
  PROVE  LET attempts == 2 * (CasMaxRetries - 1 - attempt[w])
         IN  /\ pc[w] = "idle" => AccessesLeft(w) = 0
             /\ pc[w] \in {"get", "delete"} => AccessesLeft(w) = 1
             /\ pc[w] \in {"recreate", "update", "evictUpdate"} => AccessesLeft(w) = attempts + 1
             /\ pc[w] \in {"read", "evictRead"} => AccessesLeft(w) = attempts + 2
             /\ pc[w] = "create" => AccessesLeft(w) = attempts + 3
             /\ attempts \in 0..2 * (CasMaxRetries - 1)
<1>1. attempt[w] \in Nat /\ attempt[w] <= CasMaxRetries - 1 /\ CasMaxRetries \in Nat
  BY StoreAssumption DEF TypeOK
<1>2. QED
  BY <1>1 DEF AccessesLeft

(* A call under way has an access left, and none has more than an upsert   *)
(* at its beginning.                                                       *)
LEMMA LeftBounded ==
  ASSUME TypeOK, NEW w \in Workers
  PROVE  IF pc[w] = "idle" THEN AccessesLeft(w) = 0
                           ELSE AccessesLeft(w) \in 1..2 * CasMaxRetries + 1
<1>1. pc[w] \in Accesses \cup {"idle"} /\ CasMaxRetries \in Nat
  BY StoreAssumption DEF TypeOK
<1>2. QED
  BY <1>1, LeftAt DEF Accesses

LEMMA ReturnUsesUp ==
  ASSUME TypeOK, TypeOK', NEW v \in Workers, NEW ids, NEW r, Return(v, ids, r),
         NEW w \in Workers
  PROVE  UsesUpAccess(w)
<1>1. CASE w = v
  <2>1. pc'[w] = "idle"
    BY <1>1 DEF Return, TypeOK
  <2>2. AccessesLeft(w)' = 0
    BY <2>1 DEF AccessesLeft
  <2>3. pc[w] # "idle" => AccessesLeft(w) > 0
    BY LeftBounded
  <2>4. QED
    BY <2>2, <2>3 DEF UsesUpAccess
<1>2. CASE w # v
  BY <1>2 DEF Return, TypeOK, UsesUpAccess
<1>3. QED
  BY <1>1, <1>2

(* Within an attempt the store comes after the get.                        *)
LEMMA GotoUsesUp ==
  ASSUME TypeOK, TypeOK', NEW v \in Workers, NEW access, Goto(v, access), UNCHANGED attempt,
         \/ pc[v] = "create" /\ access = "read"
         \/ pc[v] = "read" /\ access \in {"recreate", "update"}
         \/ pc[v] = "evictRead" /\ access = "evictUpdate",
         UNCHANGED seen \/ \E n : seen' = [seen EXCEPT ![v] = n],
         NEW w \in Workers
  PROVE  UsesUpAccess(w)
<1>1. CASE w = v
  <2>1. pc'[w] = access
    BY <1>1 DEF Goto, TypeOK
  <2>2. attempt'[w] = attempt[w]
    OBVIOUS
  <2>3. AccessesLeft(w)' < AccessesLeft(w)
    BY <1>1, <2>1, <2>2, LeftAt DEF AccessesLeft
  <2>4. QED
    BY <2>3 DEF UsesUpAccess
<1>2. CASE w # v
  BY <1>2 DEF Goto, TypeOK, UsesUpAccess
<1>3. QED
  BY <1>1, <1>2

(* The next attempt is one fewer to come.                                  *)
LEMMA RetryUsesUp ==
  ASSUME TypeOK, TypeOK', NEW v \in Workers, NEW access, Retry(v, access),
         \/ pc[v] \in {"recreate", "update"} /\ access = "read"
         \/ pc[v] = "evictUpdate" /\ access = "evictRead",
         NEW w \in Workers
  PROVE  UsesUpAccess(w)
<1>1. CASE Return(v, NoIds, "CasConflict")
  BY <1>1, ReturnUsesUp
<1>2. CASE /\ attempt' = [attempt EXCEPT ![v] = @ + 1]
           /\ seen' = [seen EXCEPT ![v] = 0]
           /\ Goto(v, access)
  <2>1. CASE w = v
    <3>1. pc'[w] = access /\ attempt'[w] = attempt[w] + 1 /\ attempt[w] \in Nat
      BY <1>2, <2>1 DEF Goto, TypeOK
    <3>2. AccessesLeft(w)' < AccessesLeft(w)
      BY <2>1, <3>1, LeftAt, StoreAssumption DEF AccessesLeft
    <3>3. QED
      BY <3>2 DEF UsesUpAccess
  <2>2. CASE w # v
    BY <1>2, <2>2 DEF Goto, TypeOK, UsesUpAccess
  <2>3. QED
    BY <2>1, <2>2
<1>3. QED
  BY <1>1, <1>2 DEF Retry

LEMMA AccessUsesUp ==
  ASSUME TypeOK, TypeOK', NEW v \in Workers, Access(v), NEW w \in Workers
  PROVE  UsesUpAccess(w)
<1>1. CASE \E ids, r : Return(v, ids, r)
  BY <1>1, ReturnUsesUp
<1>2. CASE ~\E ids, r : Return(v, ids, r)
  <2>1. CASE UpsertCreate(v)
    BY <1>2, <2>1, GotoUsesUp DEF UpsertCreate, Write, Acknowledge
  <2>2. CASE UpsertRead(v)
    BY <1>2, <2>2, GotoUsesUp DEF UpsertRead, UpsertReadOf
  <2>3. CASE UpsertRecreate(v)
    BY <1>2, <2>3, RetryUsesUp DEF UpsertRecreate, Write, Acknowledge
  <2>4. CASE UpsertUpdate(v)
    BY <1>2, <2>4, RetryUsesUp DEF UpsertUpdate, Write, Acknowledge
  <2>5. CASE EvictRead(v)
    BY <1>2, <2>5, GotoUsesUp DEF EvictRead, EvictReadOf
  <2>6. CASE EvictUpdate(v)
    BY <1>2, <2>6, RetryUsesUp DEF EvictUpdate, Write, Acknowledge
  <2>7. CASE EvictDelete(v) \/ Get(v) \/ GetError(v) \/ UpdateError(v)
    BY <1>2, <2>7 DEF EvictDelete, Get, GetOf, GetError, UpdateError, Acknowledge
  <2>8. QED
    BY <2>1, <2>2, <2>3, <2>4, <2>5, <2>6, <2>7 DEF Access
<1>3. QED
  BY <1>1, <1>2

LEMMA StepUsesUp ==
  ASSUME TypeOK, TypeOK', [Next]_vars, NEW w \in Workers
  PROVE  UsesUpAccess(w)
<1>1. CASE \E v \in Workers : Access(v)
  BY <1>1, AccessUsesUp
<1>2. ASSUME NEW v \in Workers, NEW access, NEW k, NEW ids, Start(v, access, k, ids),
             UNCHANGED <<attempt, seen>>
      PROVE  UsesUpAccess(w)
  BY <1>2 DEF Start, TypeOK, UsesUpAccess
<1>3. CASE \E v \in Workers, k \in Keys : GetContinuation(v, k)
  BY <1>2, <1>3 DEF GetContinuation
<1>4. CASE \E v \in Workers, k \in Keys, class \in StateClasses, ids \in Continuations :
             RecordOutcome(v, k, class, ids)
  <2>1. PICK v \in Workers, k \in Keys, class \in StateClasses, ids \in Continuations :
          RecordOutcome(v, k, class, ids)
    BY <1>4
  <2>2. \/ \E access, j : Start(v, access, k, j) /\ UNCHANGED <<attempt, seen>>
        \/ Return(v, NoIds, "Ok")
    BY <2>1 DEF RecordOutcome
  <2>3. QED
    BY <1>2, <2>2, ReturnUsesUp
<1>5. CASE UNCHANGED vars \/ Environment
  BY <1>5 DEF vars, Environment, Tick, Reclaim, workerVars, UsesUpAccess
<1>6. QED
  BY <1>1, <1>3, <1>4, <1>5 DEF Next

(* cache.rs:37-39, 211, 266: for any retry bound and any number of         *)
(* callers, every storage access of a call uses up one of those it has.    *)
THEOREM CallsAreBounded == Spec => AccessesRunOut
<1>1. TypeOK /\ TypeOK' /\ [Next]_vars => [\A w \in Workers : UsesUpAccess(w)]_vars
  BY StepUsesUp
<1>2. QED
  BY <1>1, TypeCorrect, PTL DEF Spec, AccessesRunOut

-----------------------------------------------------------------------------
(* The slots and calls a step leaves behind *)

(* What a step leaves under key k: the old slot, none, or a new one.         *)
NewSlot(k) ==
  /\ lastVersion' = lastVersion + 1
  /\ slots'[k].version = lastVersion + 1
  /\ \E w \in Workers :
       \/ slots'[k].item = Tombstone(call[w])
       \/ /\ pc[w] \in Upserting
          /\ call[w].key = k
          /\ slots'[k].item = LiveEntry(call[w])

LEMMA WriteMakesNewSlot ==
  ASSUME TypeOK, NEW w \in Workers, pc[w] # "idle", NEW item,
         \/ item = Tombstone(call[w])
         \/ item = LiveEntry(call[w]) /\ pc[w] \in Upserting,
         Write(w, item), NEW k \in Keys
  PROVE  (slots'[k] = slots[k] /\ lastVersion <= lastVersion') \/ NewSlot(k)
  BY DEF Write, Put, TypeOK, NewSlot

LEMMA AccessLeaves ==
  ASSUME TypeOK, NEW w \in Workers, Access(w), NEW k \in Keys
  PROVE  /\ lastVersion <= lastVersion'
         /\ slots'[k] = slots[k] \/ slots'[k] = VacantSlot \/ NewSlot(k)
<1>1. lastVersion \in Nat
  BY DEF TypeOK
<1>2. CASE UpsertCreate(w)
  BY <1>1, <1>2, WriteMakesNewSlot DEF UpsertCreate, Upserting, storageVars, NewSlot
<1>3. CASE UpsertRecreate(w)
  BY <1>1, <1>3, WriteMakesNewSlot DEF UpsertRecreate, Upserting, storageVars, NewSlot
<1>4. CASE UpsertUpdate(w)
  BY <1>1, <1>4, WriteMakesNewSlot DEF UpsertUpdate, Upserting, storageVars, NewSlot
<1>5. CASE EvictUpdate(w)
  BY <1>1, <1>5, WriteMakesNewSlot DEF EvictUpdate, storageVars, NewSlot
<1>6. CASE EvictDelete(w)
  BY <1>1, <1>6 DEF EvictDelete, Vacate, TypeOK
<1>7. CASE Get(w) \/ GetError(w) \/ UpsertRead(w) \/ EvictRead(w) \/ UpdateError(w)
  BY <1>1, <1>7 DEF Get, GetOf, GetError, UpsertRead, UpsertReadOf, EvictRead, EvictReadOf,
                    UpdateError, storageVars
<1>8. QED
  BY <1>2, <1>3, <1>4, <1>5, <1>6, <1>7 DEF Access

LEMMA StepLeaves ==
  ASSUME TypeOK, [Next]_vars, NEW k \in Keys
  PROVE  /\ lastVersion <= lastVersion'
         /\ slots'[k] = slots[k] \/ slots'[k] = VacantSlot \/ NewSlot(k)
<1>1. lastVersion \in Nat
  BY DEF TypeOK
<1>2. CASE \E w \in Workers : Access(w)
  BY <1>2, AccessLeaves
<1>3. CASE \E j \in Keys : Reclaim(j)
  BY <1>1, <1>3 DEF Reclaim, Vacate, TypeOK
<1>4. CASE UNCHANGED vars \/ Tick
  BY <1>1, <1>4 DEF vars, Tick
<1>5. CASE \E w \in Workers, j \in Keys :
             \/ GetContinuation(w, j)
             \/ \E class \in StateClasses, ids \in Continuations :
                   RecordOutcome(w, j, class, ids)
  BY <1>1, <1>5 DEF GetContinuation, RecordOutcome, storageVars
<1>6. QED
  BY <1>2, <1>3, <1>4, <1>5 DEF Next, Environment

(* A worker inside an upsert works for the call it was started with.       *)
Continues(w) ==
  pc'[w] \in Upserting =>
    \/ pc[w] \in Upserting /\ call'[w] = call[w]
    \/ pc[w] = "idle" /\ pc'[w] = "create"

LEMMA WorkerContinues ==
  ASSUME TypeOK, [Next]_vars, NEW w \in Workers
  PROVE  Continues(w)
<1>1. ASSUME NEW v \in Workers, NEW ids, NEW r, Return(v, ids, r)
      PROVE  Continues(w)
  BY <1>1 DEF Return, Continues, Upserting, TypeOK
<1>2. ASSUME NEW v \in Workers, NEW access, Goto(v, access),
             access \in Upserting => pc[v] \in Upserting
      PROVE  Continues(w)
  BY <1>2 DEF Goto, Continues, Upserting, TypeOK
<1>3. ASSUME NEW v \in Workers, NEW access, Retry(v, access),
             access \in Upserting => pc[v] \in Upserting
      PROVE  Continues(w)
  BY <1>1, <1>2, <1>3 DEF Retry
<1>4. ASSUME NEW v \in Workers, NEW k, NEW ids, NEW access, Start(v, access, k, ids),
             access \in {"get", "create", "evictRead", "delete"}
      PROVE  Continues(w)
  BY <1>4 DEF Start, Continues, Upserting, TypeOK
<1>5. ASSUME NEW v \in Workers, Access(v) PROVE Continues(w)
  BY <1>1, <1>2, <1>3, <1>5
  DEF Access, Get, GetOf, GetError, UpsertCreate, UpsertRead, UpsertReadOf, UpsertRecreate,
      UpsertUpdate, EvictDelete, EvictRead, EvictReadOf, EvictUpdate, UpdateError, Write,
      Acknowledge, Upserting
<1>6. ASSUME NEW v \in Workers, NEW k \in Keys, GetContinuation(v, k) PROVE Continues(w)
  BY <1>4, <1>6 DEF GetContinuation
<1>7. ASSUME NEW v \in Workers, NEW k \in Keys, NEW class, NEW ids,
             RecordOutcome(v, k, class, ids)
      PROVE  Continues(w)
  BY <1>1, <1>4, <1>7 DEF RecordOutcome
<1>8. CASE UNCHANGED vars \/ Environment
  BY <1>8 DEF vars, Environment, Tick, Reclaim, workerVars, Continues, TypeOK
<1>9. QED
  BY <1>5, <1>6, <1>7, <1>8 DEF Next

-----------------------------------------------------------------------------
(* The store implements AtomicConversationStore.                           *)

entriesMap == [k \in Keys |-> IF Holds(k) THEN slots[k].item ELSE NoItem]
requestMap == [w \in Workers |-> [op  |-> Op(pc[w]),    key |-> call[w].key,
                                  ids |-> call[w].ids, now |-> call[w].now]]

(* A worker outside a call has no request. *)
LEMMA RefineInit == Init => Atomic!Init
<1> SUFFICES ASSUME Init PROVE Atomic!Init
  OBVIOUS
<1>1. entriesMap = [k \in Keys |-> NoItem]
  BY DEF Init, StorageInit, Holds, IsItem, VacantSlot, entriesMap
<1>2. requestMap = [w \in Workers |-> Atomic!NoRequest]
  BY DEF Init, NoCall, Atomic!NoRequest, Op, Upserting, requestMap
<1>3. QED
  BY <1>1, <1>2 DEF Init, StorageInit, Atomic!Init, entriesMap, requestMap

(* How the parts of a step look through the mapping. *)
LEMMA MapPut ==
  ASSUME TypeOK, NEW k \in Keys, NEW item \in Entry, Put(k, item, TTL)
  PROVE  entriesMap' = [entriesMap EXCEPT ![k] = item]
<1>1. lastVersion + 1 # 0
  BY DEF TypeOK
<1>2. QED
  BY <1>1 DEF TypeOK, Put, Holds, IsItem, entriesMap

LEMMA MapVacate ==
  ASSUME TypeOK, NEW k \in Keys, Vacate(k)
  PROVE  entriesMap' = [entriesMap EXCEPT ![k] = NoItem]
  BY DEF TypeOK, Vacate, VacantSlot, Holds, IsItem, entriesMap

LEMMA MapQuiet == UNCHANGED slots => entriesMap' = entriesMap
  BY DEF entriesMap, Holds, IsItem

LEMMA MapReturn ==
  ASSUME TypeOK, NEW w \in Workers, NEW ids, NEW r, Return(w, ids, r), UNCHANGED clock
  PROVE  Atomic!Return(w, ids, r)
<1>1. requestMap' = [requestMap EXCEPT ![w] = Atomic!NoRequest]
  BY DEF TypeOK, Return, NoCall, Atomic!NoRequest, Op, Upserting, requestMap
<1>2. found' = [found EXCEPT ![w] = ids] /\ result' = [result EXCEPT ![w] = r]
  BY DEF Return
<1>3. QED
  BY <1>1, <1>2 DEF Atomic!Return, requestMap

LEMMA MapGoto ==
  ASSUME TypeOK, NEW w \in Workers, NEW access, Op(access) = Op(pc[w]), Goto(w, access)
  PROVE  requestMap' = requestMap /\ UNCHANGED <<found, result>>
  BY DEF TypeOK, Goto, requestMap

LEMMA MapRequest ==
  ASSUME NEW w \in Workers
  PROVE  /\ requestMap[w].op = Op(pc[w]) /\ requestMap[w].key = call[w].key
         /\ Atomic!LiveEntry(requestMap[w]) = LiveEntry(call[w])
         /\ Atomic!Tombstone(requestMap[w]) = Tombstone(call[w])
         /\ requestMap[w].now = call[w].now
  BY DEF requestMap, Atomic!LiveEntry, Atomic!Tombstone, LiveEntry, Tombstone

(* The write of an upsert is its instant. *)
LEMMA UpsertWriteRefines ==
  ASSUME IInv, NEW w \in Workers, Op(pc[w]) = "upsert", pc[w] # "idle",
         ~Closed(call[w].key), Write(w, LiveEntry(call[w]))
  PROVE  Atomic!Perform(w)
<1> DEFINE k == call[w].key
<1>1. TypeOK /\ k \in Keys /\ LiveEntry(call[w]) \in Entry
  BY LiveEntryFits DEF IInv, TypeOK
<1>2. entriesMap' = [entriesMap EXCEPT ![k] = LiveEntry(call[w])]
  BY <1>1, MapPut DEF Write
<1>3. Atomic!AfterUpsert(entriesMap[k], requestMap[w]) = LiveEntry(call[w])
  BY <1>1, MapRequest, StoreAssumption
  DEF Atomic!AfterUpsert, Atomic!IsTerminal, IsTerminal, Closed, IsClosed, Holds, IsItem,
      entriesMap
<1>4. PICK r \in {"Ok"} \cup Atomic!StorageErrors : Return(w, NoIds, r)
  BY DEF Write, Acknowledge, Atomic!StorageErrors
<1>5. Atomic!Return(w, NoIds, r)
  BY <1>1, <1>4, MapReturn DEF Write
<1>6. QED
  BY <1>2, <1>3, <1>4, <1>5, MapRequest DEF Atomic!Perform, entriesMap, requestMap

(* So is the write of the tombstone, and the delete on the local backend.  *)
LEMMA TombstoneRefines ==
  ASSUME IInv, NEW w \in Workers, EvictUpdate(w), CasHolds(call[w].key, seen[w]),
         Write(w, Tombstone(call[w]))
  PROVE  Atomic!Perform(w)
<1> DEFINE k == call[w].key
<1>1. /\ TypeOK /\ k \in Keys /\ Tombstone(call[w]) \in Entry
      /\ Distributed /\ Holds(k) /\ ~Closed(k) /\ Op(pc[w]) = "evict"
  BY LiveEntryFits
  DEF IInv, TypeOK, EvictUpdate, EvictsByBackend, CasSeesLiveEntry, CasHolds, Op, Upserting
<1>2. entriesMap' = [entriesMap EXCEPT ![k] = Tombstone(call[w])]
  BY <1>1, MapPut DEF Write
<1>3. Atomic!AfterEvict(entriesMap[k], requestMap[w]) = Tombstone(call[w])
  <2>1. entriesMap[k] # NoItem /\ ~IsTerminal(entriesMap[k])
    BY <1>1, StoreAssumption DEF TypeOK, Closed, IsClosed, entriesMap, Holds, IsItem
  <2>2. QED
    BY <1>1, <2>1, MapRequest DEF Atomic!AfterEvict, Atomic!IsTerminal, IsTerminal
<1>4. PICK r \in {"Ok"} \cup Atomic!StorageErrors : Return(w, NoIds, r)
  BY DEF Write, Acknowledge, Atomic!StorageErrors
<1>5. Atomic!Return(w, NoIds, r)
  BY <1>1, <1>4, MapReturn DEF Write
<1>6. QED
  BY <1>1, <1>2, <1>3, <1>4, <1>5, MapRequest DEF Atomic!Perform, entriesMap, requestMap

LEMMA DeleteRefines ==
  ASSUME IInv, NEW w \in Workers, EvictDelete(w)
  PROVE  Atomic!Perform(w)
<1> DEFINE k == call[w].key
<1>1. TypeOK /\ k \in Keys /\ ~Distributed /\ Op(pc[w]) = "evict"
  BY DEF IInv, TypeOK, EvictDelete, EvictsByBackend, Op, Upserting
<1>2. entriesMap' = [entriesMap EXCEPT ![k] = NoItem]
  BY <1>1, MapVacate DEF EvictDelete
<1>3. Atomic!AfterEvict(entriesMap[k], requestMap[w]) = NoItem
  BY <1>1 DEF Atomic!AfterEvict
<1>4. PICK r \in {"Ok"} \cup Atomic!StorageErrors : Return(w, NoIds, r)
  BY DEF EvictDelete, Acknowledge, Atomic!StorageErrors
<1>5. Atomic!Return(w, NoIds, r)
  BY <1>1, <1>4, MapReturn DEF EvictDelete
<1>6. QED
  BY <1>1, <1>2, <1>3, <1>4, <1>5, MapRequest DEF Atomic!Perform, entriesMap, requestMap

(* A call that finds the conversation closed, or nothing to evict, returns *)
(* Ok: the same as performing it at that instant.                          *)
LEMMA NothingToDoRefines ==
  ASSUME IInv, NEW w \in Workers, pc[w] \in {"read", "evictRead"},
         Return(w, NoIds, "Ok"), UNCHANGED storageVars,
         Closed(call[w].key) \/ (pc[w] = "evictRead" /\ ~Holds(call[w].key))
  PROVE  Atomic!Perform(w)
<1> DEFINE k == call[w].key
           e == entriesMap[k]
<1>1. /\ TypeOK /\ k \in Keys
      /\ pc[w] = "read" => Op(pc[w]) = "upsert"
      /\ pc[w] = "evictRead" => Op(pc[w]) = "evict" /\ Distributed
  BY DEF IInv, TypeOK, EvictsByBackend, Op, Upserting
<1>2. entriesMap' = entriesMap /\ entriesMap = [j \in Keys |-> entriesMap[j]]
  BY MapQuiet DEF storageVars, entriesMap
<1>3. CASE pc[w] = "read"
  <2>1. Atomic!AfterUpsert(e, requestMap[w]) = e
    BY <1>1, <1>3, StoreAssumption
    DEF Atomic!AfterUpsert, Atomic!IsTerminal, IsTerminal, Closed, IsClosed, Holds, IsItem, TypeOK,
        entriesMap
  <2>2. Atomic!Return(w, NoIds, "Ok")
    BY <1>1, MapReturn DEF storageVars
  <2>3. entriesMap' = [entriesMap EXCEPT ![k] = Atomic!AfterUpsert(e, requestMap[w])]
    BY <1>1, <1>2, <2>1
  <2>4. QED
    BY <1>1, <1>3, <2>2, <2>3, MapRequest DEF Atomic!Perform, entriesMap, requestMap
<1>4. CASE pc[w] = "evictRead"
  <2>1. Atomic!AfterEvict(e, requestMap[w]) = e
    BY <1>1, <1>4, StoreAssumption
    DEF Atomic!AfterEvict, Atomic!IsTerminal, IsTerminal, Closed, IsClosed, TypeOK,
        entriesMap
  <2>2. Atomic!Return(w, NoIds, "Ok")
    BY <1>1, MapReturn DEF storageVars
  <2>3. entriesMap' = [entriesMap EXCEPT ![k] = Atomic!AfterEvict(e, requestMap[w])]
    BY <1>1, <1>2, <2>1
  <2>4. QED
    BY <1>1, <1>4, <2>2, <2>3, MapRequest DEF Atomic!Perform, entriesMap, requestMap
<1>5. QED
  BY <1>3, <1>4

LEMMA LookupRefines ==
  ASSUME IInv, NEW w \in Workers, Get(w) \/ GetError(w)
  PROVE  Atomic!Lookup(w)
<1> DEFINE k == call[w].key
           answer == IF Holds(k) THEN Continuation(slots[k].item, call[w].now) ELSE NoIds
<1>1. /\ TypeOK /\ k \in Keys /\ requestMap[w].op = "get" /\ entriesMap' = entriesMap
      /\ requestMap[w].key = k /\ requestMap[w].now = call[w].now
  BY MapQuiet, MapRequest DEF IInv, TypeOK, Get, GetOf, GetError, Op, Upserting, storageVars
<1>2. answer = IF entriesMap[k] = NoItem THEN NoIds
               ELSE Atomic!Continuation(entriesMap[k], call[w].now)
  BY <1>1, StoreAssumption
  DEF TypeOK, entriesMap, Continuation, Atomic!Continuation, IsExpired, Atomic!IsExpired,
      IsContinuable, Atomic!IsContinuable
<1>3. CASE Get(w)
  <2>1. Return(w, answer, "none") /\ UNCHANGED clock
    BY <1>3 DEF Get, GetOf, storageVars, Holds
  <2>2. Atomic!Return(w, answer, "none")
    BY <1>1, <2>1, MapReturn
  <2>3. QED
    BY <1>1, <1>2, <2>2 DEF Atomic!Lookup, entriesMap, requestMap
<1>4. CASE GetError(w)
  <2>1. Atomic!Return(w, NoIds, "none") /\ Faults
    BY <1>1, <1>4, MapReturn DEF GetError, storageVars
  <2>2. QED
    BY <1>1, <2>1 DEF Atomic!Lookup, entriesMap, requestMap
<1>5. QED
  BY <1>3, <1>4

LEMMA GiveUpRefines ==
  ASSUME IInv, NEW w \in Workers, Op(pc[w]) \in {"upsert", "evict"}, pc[w] # "idle",
         NEW r \in {"CasConflict"} \cup Atomic!StorageErrors,
         Return(w, NoIds, r), UNCHANGED storageVars
  PROVE  Atomic!GiveUp(w)
<1>1. TypeOK /\ entriesMap' = entriesMap
  BY MapQuiet DEF IInv, storageVars
<1>2. Atomic!Return(w, NoIds, r)
  BY <1>1, MapReturn DEF storageVars
<1>3. QED
  BY <1>1, <1>2, MapRequest DEF Atomic!GiveUp, entriesMap, requestMap

(* A retry goes on inside the same request or gives it up. *)
LEMMA RetryRefines ==
  ASSUME IInv, NEW w \in Workers, NEW access \in {"read", "evictRead"}, pc[w] # "idle",
         Op(access) = Op(pc[w]), Retry(w, access), UNCHANGED storageVars
  PROVE  Atomic!GiveUp(w) \/ UNCHANGED Atomic!vars
<1>1. TypeOK /\ entriesMap' = entriesMap /\ UNCHANGED clock
  BY MapQuiet DEF IInv, storageVars
<1>2. CASE Goto(w, access)
  BY <1>1, <1>2, MapGoto DEF Atomic!vars, entriesMap, requestMap
<1>3. CASE Return(w, NoIds, "CasConflict")
  BY <1>3, GiveUpRefines DEF Op, Upserting
<1>4. QED
  BY <1>2, <1>3 DEF Retry

LEMMA GotoRefines ==
  ASSUME IInv, NEW w \in Workers, NEW access, Op(access) = Op(pc[w]),
         Goto(w, access), UNCHANGED storageVars
  PROVE  UNCHANGED Atomic!vars
<1>1. TypeOK /\ entriesMap' = entriesMap /\ UNCHANGED clock
  BY MapQuiet DEF IInv, storageVars
<1>2. QED
  BY <1>1, MapGoto DEF Atomic!vars, entriesMap, requestMap

LEMMA AccessRefines ==
  ASSUME IInv, NEW w \in Workers, Access(w)
  PROVE  \/ Atomic!Lookup(w) \/ Atomic!Perform(w) \/ Atomic!GiveUp(w)
         \/ UNCHANGED Atomic!vars
<1> DEFINE k == call[w].key
<1>1. CASE Get(w) \/ GetError(w)
  BY <1>1, LookupRefines
<1>2. CASE UpsertCreate(w)
  <2>1. Op(pc[w]) = "upsert" /\ Op("read") = "upsert" /\ pc[w] # "idle"
    BY <1>2 DEF UpsertCreate, Op, Upserting
  <2>2. QED
    BY <1>2, <2>1, UpsertWriteRefines, GotoRefines DEF UpsertCreate, Closed, IsClosed,
        Holds, IsItem
<1>3. CASE UpsertRead(w)
  <2>1. Op(pc[w]) = "upsert" /\ Op("update") = "upsert" /\ Op("recreate") = "upsert"
    BY <1>3 DEF UpsertRead, UpsertReadOf, Op, Upserting
  <2>2. QED
    BY <1>3, <2>1, NothingToDoRefines, GotoRefines DEF UpsertRead, UpsertReadOf, Holds,
        Closed
<1>4. CASE UpsertRecreate(w)
  <2>1. Op(pc[w]) = "upsert" /\ Op("read") = "upsert" /\ pc[w] # "idle"
    BY <1>4 DEF UpsertRecreate, Op, Upserting
  <2>2. QED
    BY <1>4, <2>1, UpsertWriteRefines, RetryRefines DEF UpsertRecreate, Closed, IsClosed,
        Holds, IsItem
<1>5. CASE UpsertUpdate(w)
  <2>1. Op(pc[w]) = "upsert" /\ Op("read") = "upsert" /\ pc[w] # "idle"
    BY <1>5 DEF UpsertUpdate, Op, Upserting
  <2>2. CasHolds(k, seen[w]) => ~Closed(k)
    BY <1>5 DEF UpsertUpdate, IInv, CasSeesLiveEntry
  <2>3. QED
    BY <1>5, <2>1, <2>2, UpsertWriteRefines, RetryRefines DEF UpsertUpdate
<1>6. CASE EvictDelete(w)
  BY <1>6, DeleteRefines
<1>7. CASE EvictRead(w)
  <2>1. Op(pc[w]) = "evict" /\ Op("evictUpdate") = "evict" /\ pc[w] = "evictRead"
    BY <1>7 DEF EvictRead, EvictReadOf, Op, Upserting
  <2>2. QED
    BY <1>7, <2>1, NothingToDoRefines, GotoRefines DEF EvictRead, EvictReadOf, Holds, Closed
<1>8. CASE EvictUpdate(w)
  <2>1. Op(pc[w]) = "evict" /\ Op("evictRead") = "evict" /\ pc[w] # "idle"
    BY <1>8 DEF EvictUpdate, Op, Upserting
  <2>2. QED
    BY <1>8, <2>1, TombstoneRefines, RetryRefines DEF EvictUpdate
<1>9. CASE UpdateError(w)
  <2>1. /\ Op(pc[w]) \in {"upsert", "evict"} /\ pc[w] # "idle"
        /\ "Storage" \in Atomic!StorageErrors
    BY <1>9 DEF UpdateError, Op, Upserting, Accesses, Atomic!StorageErrors
  <2>2. QED
    BY <1>9, <2>1, GiveUpRefines DEF UpdateError
<1>10. QED
  BY <1>1, <1>2, <1>3, <1>4, <1>5, <1>6, <1>7, <1>8, <1>9 DEF Access

LEMMA StartRefines ==
  ASSUME IInv, NEW w \in Workers, NEW access \in {"get", "create", "evictRead", "delete"},
         NEW k \in Keys, NEW ids \in Continuations, Start(w, access, k, ids),
         UNCHANGED <<storageVars, attempt, seen>>
  PROVE  Atomic!Call(w)
<1>1. TypeOK /\ entriesMap' = entriesMap /\ UNCHANGED clock
  BY MapQuiet DEF IInv, storageVars
<1>2. PICK now \in NowMillis :
        call' = [call EXCEPT ![w] = [key |-> k, ids |-> ids, now |-> now]]
  BY DEF Start
<1>3. now \in 0..clock /\ Op(access) \in Atomic!Ops /\ ids \in Atomic!Continuations
  BY <1>1 DEF NowMillis, TypeOK, Op, Upserting, Atomic!Ops, Continuations, Atomic!Continuations
<1>4. requestMap[w] = Atomic!NoRequest
  BY <1>1 DEF Start, TypeOK, NoCall, Op, Upserting, Atomic!NoRequest, requestMap
<1>5. requestMap' = [requestMap EXCEPT ![w] =
                       [op |-> Op(access), key |-> k, ids |-> ids, now |-> now]]
  BY <1>1, <1>2 DEF Start, TypeOK, requestMap
<1>6. \E op \in Atomic!Ops, j \in Keys, c \in Atomic!Continuations, t \in 0..clock :
        requestMap' = [requestMap EXCEPT ![w] = [op |-> op, key |-> j, ids |-> c,
            now |-> t]]
  BY <1>3, <1>5
<1>7. found' = [found EXCEPT ![w] = NoIds] /\ result' = [result EXCEPT ![w] = "none"]
  BY DEF Start
<1>8. QED
  BY <1>1, <1>4, <1>6, <1>7 DEF Atomic!Call, entriesMap, requestMap

LEMMA RecordOutcomeRefines ==
  ASSUME IInv, NEW w \in Workers, NEW k \in Keys, NEW class \in StateClasses,
         NEW ids \in Continuations, RecordOutcome(w, k, class, ids)
  PROVE  Atomic!Call(w) \/ Atomic!Ignore(w)
<1>1. NoIds \in Continuations
  BY DEF Continuations
<1>2. CASE class = "Continuable"
  BY <1>2, StartRefines DEF RecordOutcome
<1>3. CASE class = "Terminal"
  <2> DEFINE access == IF Distributed THEN "evictRead" ELSE "delete"
  <2>1. access \in {"get", "create", "evictRead", "delete"}
    OBVIOUS
  <2>2. Start(w, access, k, NoIds) /\ UNCHANGED <<storageVars, attempt, seen>>
    BY <1>3 DEF RecordOutcome
  <2>3. QED
    BY <1>1, <2>1, <2>2, StartRefines
<1>4. CASE class = "Unknown"
  <2>1. /\ pc[w] = "idle" /\ Return(w, NoIds, "Ok") /\ UNCHANGED storageVars /\ TypeOK
        /\ entriesMap' = entriesMap
    BY <1>4, MapQuiet DEF RecordOutcome, IInv, storageVars
  <2>2. requestMap[w] = Atomic!NoRequest
    BY <2>1 DEF TypeOK, NoCall, Op, Upserting, Atomic!NoRequest, requestMap
  <2>3. Atomic!Return(w, NoIds, "Ok")
    BY <2>1, MapReturn DEF storageVars
  <2>4. QED
    BY <2>1, <2>2, <2>3 DEF Atomic!Ignore, entriesMap, requestMap
<1>5. QED
  BY <1>2, <1>3, <1>4 DEF StateClasses

LEMMA ReclaimRefines ==
  ASSUME IInv, NEW k \in Keys, Reclaim(k)
  PROVE  Atomic!Forget(k)
<1>1. TypeOK /\ entriesMap' = [entriesMap EXCEPT ![k] = NoItem]
  BY MapVacate DEF IInv, Reclaim
<1>2. entriesMap[k] \in Entry /\ (Lossy \/ entriesMap[k].expires <= clock)
  BY <1>1 DEF IInv, TypeOK, SlotOutlivesEntry, Reclaim, Entry, entriesMap
<1>3. requestMap' = requestMap
  BY DEF Reclaim, workerVars, requestMap
<1>4. entriesMap[k] # NoItem /\ (Lossy \/ Atomic!IsExpired(entriesMap[k], clock))
  BY <1>1, <1>2, StoreAssumption DEF Atomic!IsExpired, TypeOK, Entry
<1>5. QED
  BY <1>1, <1>3, <1>4 DEF Atomic!Forget, Reclaim, workerVars, entriesMap, requestMap

LEMMA RefineNext == IInv /\ [Next]_vars => [Atomic!Next]_(Atomic!vars)
<1> SUFFICES ASSUME IInv, [Next]_vars PROVE Atomic!Next \/ UNCHANGED Atomic!vars
  OBVIOUS
<1>1. ASSUME NEW w \in Workers, NEW k \in Keys, GetContinuation(w, k) PROVE Atomic!Call(w)
  BY <1>1, StartRefines DEF GetContinuation, Continuations
<1>2. ASSUME NEW w \in Workers, NEW k \in Keys, NEW class \in StateClasses,
             NEW ids \in Continuations, RecordOutcome(w, k, class, ids)
      PROVE  Atomic!Call(w) \/ Atomic!Ignore(w)
  BY <1>2, RecordOutcomeRefines
<1>3. ASSUME NEW w \in Workers, Access(w)
      PROVE  \/ Atomic!Lookup(w) \/ Atomic!Perform(w) \/ Atomic!GiveUp(w)
             \/ UNCHANGED Atomic!vars
  BY <1>3, AccessRefines
<1>4. ASSUME NEW k \in Keys, Reclaim(k) PROVE Atomic!Forget(k)
  BY <1>4, ReclaimRefines
<1>5. CASE Tick
  <2>1. entriesMap' = entriesMap /\ requestMap' = requestMap
    BY <1>5, MapQuiet DEF Tick, workerVars, requestMap
  <2>2. Atomic!Tick
    BY <1>5, <2>1 DEF Tick, workerVars, Atomic!Tick, entriesMap, requestMap
  <2>3. QED
    BY <2>2 DEF Atomic!Next
<1>6. CASE UNCHANGED vars
  BY <1>6, MapQuiet DEF vars, Atomic!vars, entriesMap, requestMap
<1>7. QED
  BY <1>1, <1>2, <1>3, <1>4, <1>5, <1>6 DEF Next, Environment, Atomic!Next

(* However the accesses of the workers interleave, every call of the store *)
(* takes effect at one instant or gives up (src/cache.rs).                 *)
THEOREM Linearizable == Spec => ImplementsAtomic
  BY RefineInit, RefineNext, StoreInvariant, PTL DEF Spec, ImplementsAtomic, Atomic!Spec

=============================================================================
