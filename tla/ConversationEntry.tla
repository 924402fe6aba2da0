------------------------- MODULE ConversationEntry -------------------------
(***************************************************************************)
(* What the conversation cache stores under a key (src/cache.rs): the ids  *)
(* of a live task, or the marker of a closed conversation, with the time   *)
(* at which the entry stops being served.                                  *)
(*                                                                         *)
(* taskId and contextId travel together from a reply to the next send, so  *)
(* a Continuation is one value: a member of Ids, or NoIds when both are    *)
(* None.                                                                   *)
(***************************************************************************)
EXTENDS Naturals

CONSTANTS
  Ids,    \* taskId/contextId pairs the upstream hands out
  NoIds,  \* Continuation::default()
  TTL     \* conversation_ttl_seconds, in ticks of the clock

ASSUME EntryAssumption ==
  /\ TTL \in Nat \ {0}
  /\ NoIds \notin Ids

Continuations == Ids \cup {NoIds}
EntryStates   == {"Continuable", "Terminal"}
Entry         == [ids : Continuations, state : EntryStates, expires : Nat]

IsContinuable(e)  == e.state = "Continuable"
IsTerminal(e)     == e.state = "Terminal"
IsExpired(e, now) == now >= e.expires

(* Slip of LiveEntry: the TTL is not added. *)
LiveEntryWithoutTTL(c) == [ids |-> c.ids, state |-> "Continuable", expires |-> c.now]

(* What a call made at c.now stores for an open and for a closed task. *)
LiveEntry(c) == [ids |-> c.ids, state |-> "Continuable", expires |-> c.now + TTL]
Tombstone(c) == [ids |-> NoIds, state |-> "Terminal", expires |-> c.now + TTL]

(* What get_continuation(now) answers for entry e. *)
Continuation(e, now) ==
  IF IsExpired(e, now) \/ ~IsContinuable(e) THEN NoIds ELSE e.ids

=============================================================================
