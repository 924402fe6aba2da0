---------------------------- MODULE DataStorage ----------------------------
(***************************************************************************)
(* pdk::data_storage, the key-value storage behind the conversation cache. *)
(* The library is not part of the repository: it is modelled from the way  *)
(* src/cache.rs calls it.                                                  *)
(*                                                                         *)
(*   get          returns the stored item with its version, or None;       *)
(*   store Absent succeeds on a vacant key, else CasMismatch;              *)
(*   store Cas(v) succeeds when the stored version is v, else CasMismatch; *)
(*   delete       vacates the key whatever it holds.                       *)
(*                                                                         *)
(* Each call takes effect atomically.  Three things are assumed of the     *)
(* library that nothing in the repository says:                            *)
(*                                                                         *)
(*   - A version is never used twice, so one read before a key was vacated *)
(*     and filled again no longer matches.  MockStorage, the stand-in of   *)
(*     the unit tests, is weaker: after a delete its versions start at 1   *)
(*     again (cache.rs:365-369, 402-404).                                  *)
(*   - The replicas and the storage read one clock.                        *)
(*   - The local namespace keeps its items.  The remote one is built with  *)
(*     a TTL and drops an item once it was stored that long; whether it    *)
(*     may lose one before is left to ConversationStore.                   *)
(***************************************************************************)
EXTENDS Naturals

CONSTANTS
  Keys,      \* cache keys
  NoItem     \* what a vacant slot holds

VARIABLES
  slots,        \* slots[k]: the item under k, its version, its TTL deadline
  lastVersion,  \* the last version handed out
  clock         \* the time, shared by the storage and SystemTime::now

storageVars == <<slots, lastVersion, clock>>

VacantSlot == [item |-> NoItem, version |-> 0, reclaim |-> 0]

(* What a get reads is a slot: with an item, or vacant. *)
IsItem(slot) == slot.version # 0

Holds(k) == IsItem(slots[k])

(* The key still holds the item that was read at version v. *)
CasHolds(k, v) == Holds(k) /\ slots[k].version = v

Put(k, item, ttl) ==
  /\ slots' = [slots EXCEPT ![k] = [item    |-> item,
                                    version |-> lastVersion + 1,
                                    reclaim |-> clock + ttl]]
  /\ lastVersion' = lastVersion + 1

Vacate(k) ==
  /\ slots' = [slots EXCEPT ![k] = VacantSlot]
  /\ UNCHANGED lastVersion

(* The clock starts after the epoch: 0 is only ever a clock error. *)
StorageInit ==
  /\ slots = [k \in Keys |-> VacantSlot]
  /\ lastVersion = 0
  /\ clock = 1

=============================================================================
