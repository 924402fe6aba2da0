---------------------- MODULE AtomicConversationStore ----------------------
(***************************************************************************)
(* What the conversation store promises its callers: every call takes      *)
(* effect at one instant between its start and its return, or gives up     *)
(* without effect.  The instant decides:                                   *)
(*                                                                         *)
(*   - a lookup answers the live entry of its key, or nothing;             *)
(*   - an upsert never turns a closed conversation back into a live one;   *)
(*   - an evict on the distributed backend leaves a tombstone where a live *)
(*     entry was, and on the local backend leaves nothing;                 *)
(*   - only the distributed backend forgets an entry by itself, and unless *)
(*     it is lossy only one that is no longer served.                      *)
(*                                                                         *)
(* When the storage can fail (Faults), a lookup may answer nothing and a   *)
(* call that reports an error may still have taken effect.                 *)
(***************************************************************************)
EXTENDS ConversationEntry

CONSTANTS Keys, NoKey, NoItem, Workers, Distributed, Lossy, Faults

VARIABLES
  entries,  \* entries[k]: the Entry under k, or NoItem
  clock,
  request,  \* request[w]: the call the worker is in, NoRequest outside
  found,    \* what the worker's last call, a lookup, answered
  result    \* what the worker's last call, a record_outcome, answered

vars == <<entries, clock, request, found, result>>

Ops == {"get", "upsert", "evict"}

NoRequest == [op |-> "none", key |-> NoKey, ids |-> NoIds, now |-> 0]

StorageErrors == IF Faults THEN {"Storage"} ELSE {}

Init ==
  /\ entries = [k \in Keys |-> NoItem]
  /\ clock = 1
  /\ request = [w \in Workers |-> NoRequest]
  /\ found = [w \in Workers |-> NoIds]
  /\ result = [w \in Workers |-> "none"]

Call(w) ==
  /\ request[w] = NoRequest
  /\ \E op \in Ops, k \in Keys, ids \in Continuations, now \in 0..clock :
       request' = [request EXCEPT ![w] = [op |-> op, key |-> k, ids |-> ids, now |-> now]]
  /\ found' = [found EXCEPT ![w] = NoIds]
  /\ result' = [result EXCEPT ![w] = "none"]
  /\ UNCHANGED <<entries, clock>>

Return(w, ids, r) ==
  /\ request' = [request EXCEPT ![w] = NoRequest]
  /\ found' = [found EXCEPT ![w] = ids]
  /\ result' = [result EXCEPT ![w] = r]
  /\ UNCHANGED clock

(* An outcome of unknown class leaves the store alone. *)
Ignore(w) ==
  /\ request[w] = NoRequest
  /\ Return(w, NoIds, "Ok")
  /\ UNCHANGED entries

Lookup(w) ==
  LET e == entries[request[w].key] IN
  /\ request[w].op = "get"
  /\ \/ Return(w, IF e = NoItem THEN NoIds ELSE Continuation(e, request[w].now), "none")
     \/ Faults /\ Return(w, NoIds, "none")
  /\ UNCHANGED entries

AfterUpsert(e, r) ==
  IF e # NoItem /\ IsTerminal(e) THEN e ELSE LiveEntry(r)

AfterEvict(e, r) ==
  CASE ~Distributed               -> NoItem
    [] Distributed /\ e # NoItem  -> IF IsTerminal(e) THEN e ELSE Tombstone(r)
    [] Distributed /\ e = NoItem  -> NoItem

Perform(w) ==
  /\ \/ /\ request[w].op = "upsert"
        /\ entries' = [entries EXCEPT ![request[w].key] = AfterUpsert(@, request[w])]
     \/ /\ request[w].op = "evict"
        /\ entries' = [entries EXCEPT ![request[w].key] = AfterEvict(@, request[w])]
  /\ \E r \in {"Ok"} \cup StorageErrors : Return(w, NoIds, r)

GiveUp(w) ==
  /\ request[w].op \in {"upsert", "evict"}
  /\ \E r \in {"CasConflict"} \cup StorageErrors : Return(w, NoIds, r)
  /\ UNCHANGED entries

Forget(k) ==
  /\ Distributed
  /\ entries[k] # NoItem
  /\ Lossy \/ IsExpired(entries[k], clock)
  /\ entries' = [entries EXCEPT ![k] = NoItem]
  /\ UNCHANGED <<clock, request, found, result>>

Tick ==
  /\ clock' = clock + 1
  /\ UNCHANGED <<entries, request, found, result>>

Next ==
  \/ \E w \in Workers :
       Call(w) \/ Ignore(w) \/ Lookup(w) \/ Perform(w) \/ GiveUp(w)
  \/ \E k \in Keys : Forget(k)
  \/ Tick

Spec == Init /\ [][Next]_vars

=============================================================================
