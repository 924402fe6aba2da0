----------------------------- MODULE StaleReads -----------------------------
(***************************************************************************)
(* The conversation store over a storage whose reads may be stale: "a      *)
(* remote backend serving a stale gossip copy" (src/cache.rs:81-82).       *)
(*                                                                         *)
(* The library behind the remote backend is not part of the repository, so *)
(* the worst case is taken for its reads: a get may answer any slot its    *)
(* key has ever held, however old, the vacant one included, and the next   *)
(* get an older one still.  Its writes are taken to be sound: store        *)
(* decides Absent and Cas(v) against the newest slot, as a compare-and-    *)
(* swap must.                                                              *)
(***************************************************************************)
EXTENDS ConversationStore

VARIABLES
  copies,  \* copies[k]: the slots key k has had, any of which a get may answer
  asked    \* asked[k]: the upserts started under key k, their ids and time

staleVars == <<slots, lastVersion, clock, pc, call, attempt, seen, found, result, copies, asked>>

Copies == [item : Entry \cup {NoItem}, version : Nat, reclaim : Nat]
Asked  == [ids : Continuations, now : Nat]

(* A storage read of worker w that is answered with an old copy. *)
StaleRead(w) ==
  /\ pc[w] # "idle"
  /\ \E slot \in copies[call[w].key] :
       GetOf(w, slot) \/ UpsertReadOf(w, slot) \/ EvictReadOf(w, slot)

-----------------------------------------------------------------------------
Began(k) == {w \in Workers : pc[w] = "idle" /\ pc'[w] = "create" /\ call'[w].key = k}

Observe ==
  /\ copies' = [k \in Keys |-> copies[k] \cup {slots'[k]}]
  /\ asked' = [k \in Keys |->
                 asked[k] \cup {[ids |-> call'[w].ids, now |-> call'[w].now] : w \in Began(k)}]

StaleInit ==
  /\ Init
  /\ copies = [k \in Keys |-> {VacantSlot}]
  /\ asked = [k \in Keys |-> {}]

StaleNext == (Next \/ \E w \in Workers : StaleRead(w)) /\ Observe

StaleSpec == StaleInit /\ [][StaleNext]_staleVars

(* As in FairSpec, the storage answers every call, with what copy it likes. *)
StaleFairSpec ==
  StaleSpec /\ \A w \in Workers : WF_staleVars((Access(w) \/ StaleRead(w)) /\ Observe)

-----------------------------------------------------------------------------
(* Properties, besides NoResurrection, AccessesRunOut and CallsReturn *)

(* A version names one slot: a CAS that an old copy prepared succeeds only *)
(* if that copy is still the newest.                                       *)
CopiesAreHistory ==
  /\ copies \in [Keys -> SUBSET Copies]
  /\ \A k \in Keys : \A c \in copies[k] :
       /\ c.version <= lastVersion
       /\ IsItem(c) => c.item \in Entry
       /\ Holds(k) /\ c.version = slots[k].version => c = slots[k]

(* Every live entry, stored or stale, stands for an upsert that was asked  *)
(* for at its key, and stops being served a TTL after it.                  *)
StandsFor(e, k) ==
  IsContinuable(e) => \E a \in asked[k] : a.ids = e.ids /\ e.expires = a.now + TTL

LiveEntriesWereAsked ==
  /\ asked \in [Keys -> SUBSET Asked]
  /\ \A k \in Keys : \A c \in copies[k] : IsItem(c) => StandsFor(c.item, k)
  /\ \A k \in Keys : Holds(k) => StandsFor(slots[k].item, k)
  /\ \A w \in Workers : pc[w] \in Upserting =>
       [ids |-> call[w].ids, now |-> call[w].now] \in asked[call[w].key]

(* The inductive invariant behind the properties below. *)
StaleIInv == IInv /\ CopiesAreHistory /\ LiveEntriesWereAsked

(* cache.rs:81-82: expires_at_millis guards against stale copies.  However *)
(* old the copy, and whatever has been written since, a lookup answers an  *)
(* id only to the key it was stored under and only within the TTL of a     *)
(* reply that asked to keep it.                                            *)
ServiceEndsWithTTL ==
  [][\A w \in Workers :
       pc[w] = "get" /\ pc'[w] = "idle" /\ found'[w] # NoIds =>
         \E a \in asked[call[w].key] :
            a.ids = found'[w] /\ call[w].now < a.now + TTL]_staleVars

=============================================================================
