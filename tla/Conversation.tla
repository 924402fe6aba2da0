---------------------------- MODULE Conversation ----------------------------
(***************************************************************************)
(* What cache mode promises clients that send the turns of a conversation  *)
(* one after the other (docs/spec.md, docs/how-to.md).                     *)
(*                                                                         *)
(*   - A turn carries the task its conversation is at, if the turn was     *)
(*     begun before that task's time was up, and no task otherwise.        *)
(*   - A reply that leaves the task open is what the conversation is at    *)
(*     from then on, for a TTL; a reply that says it ended leaves the      *)
(*     conversation at nothing; any other reply changes nothing.           *)
(*   - Conversations do not touch each other, and a turn without a         *)
(*     conversation touches none.                                          *)
(*                                                                         *)
(* A Forgetful implementation may fail to remember the task of a reply     *)
(* when its conversation is at nothing; a Lossy one may forget the task a  *)
(* conversation is at.                                                     *)
(***************************************************************************)
EXTENDS Naturals

CONSTANTS
  Keys,       \* conversations
  NoKey,      \* the key of a turn without a conversation
  Workers,    \* those who carry turns
  Ids,        \* tasks
  NoIds,      \* no task
  TTL,        \* how long an open task is remembered
  Forgetful,
  Lossy

VARIABLES
  clock,
  at,     \* at[k]: the task conversation k is at, and till when
  turn,   \* turn[w]: the turn that worker w carries
  tasks   \* tasks[i]: the conversation task i belongs to, and its state

vars == <<clock, at, turn, tasks>>

States  == {"none", "open", "ended", "reported"}
Classes == {"Continuable", "Terminal", "Unknown"}
Stages  == {"none", "begun", "sent", "answered", "noting"}
Nowhere == [ids |-> NoIds, until |-> 0]

(* Of a turn under way: its conversation, the task it carries, the time it *)
(* was begun or its reply was taken up, and what the reply said.           *)
NoTurn  == [stage |-> "none", key |-> NoKey, ids |-> NoIds, since |-> 0,
            said |-> NoIds, class |-> "Unknown"]

Init ==
  /\ clock \in Nat
  /\ at = [k \in Keys |-> Nowhere]
  /\ turn = [w \in Workers |-> NoTurn]
  /\ tasks = [i \in Ids |-> [key |-> NoKey, state |-> "none"]]

-----------------------------------------------------------------------------
(* A client begins a turn when the last one of the conversation is over.   *)
Begin(w, k) ==
  /\ turn[w] = NoTurn
  /\ \A v \in Workers : turn[v].key # k
  /\ turn' = [turn EXCEPT ![w] = [NoTurn EXCEPT !.stage = "begun", !.key = k, !.since = clock]]
  /\ UNCHANGED <<clock, at, tasks>>

SendSingleShot(w) ==
  /\ turn[w] = NoTurn
  /\ turn' = [turn EXCEPT ![w].stage = "sent"]
  /\ UNCHANGED <<clock, at, tasks>>

Remembered(w) ==
  LET here == at[turn[w].key] IN IF turn[w].since < here.until THEN here.ids ELSE NoIds

Send(w) ==
  /\ turn[w].stage = "begun"
  /\ turn' = [turn EXCEPT ![w].stage = "sent", ![w].ids = Remembered(w), ![w].since = 0]
  /\ UNCHANGED <<clock, at, tasks>>

(* The agent: a new task for a turn that carries none, the task carried    *)
(* otherwise, or an answer that is about no task.  A task may end without  *)
(* a turn; of one that ended a reply can only say so.                      *)
Answer(w, ids, class) ==
  /\ turn[w].stage = "sent"
  /\ turn' = [turn EXCEPT ![w].stage = "answered", ![w].said = ids, ![w].class = class]
  /\ UNCHANGED <<clock, at>>

StateAfter(class) == IF class = "Terminal" THEN "reported" ELSE "open"

AnswerNewTask(w) ==
  \E i \in Ids, class \in Classes :
    /\ turn[w].ids = NoIds
    /\ tasks[i].state = "none"
    /\ tasks' = [tasks EXCEPT ![i] = [key |-> turn[w].key, state |-> StateAfter(class)]]
    /\ Answer(w, i, class)

AnswerTask(w) ==
  \E class \in Classes :
    LET i == turn[w].ids IN
    /\ i # NoIds
    /\ tasks[i].state = "open" \/ class = "Terminal"
    /\ tasks' = [tasks EXCEPT ![i].state = StateAfter(class)]
    /\ Answer(w, i, class)

AnswerOtherwise(w) ==
  /\ \E class \in {"Terminal", "Unknown"} : Answer(w, NoIds, class)
  /\ UNCHANGED tasks

EndTask(i) ==
  /\ tasks[i].state = "open"
  /\ tasks' = [tasks EXCEPT ![i].state = "ended"]
  /\ UNCHANGED <<clock, at, turn>>

(* A reply that says nothing of the conversation ends the turn. *)
Ignore(w) ==
  /\ turn[w].stage = "answered"
  /\ turn[w].key = NoKey \/ turn[w].class = "Unknown"
  /\ turn' = [turn EXCEPT ![w] = NoTurn]
  /\ UNCHANGED <<clock, at, tasks>>

TakeUp(w) ==
  /\ turn[w].stage = "answered"
  /\ turn[w].key # NoKey /\ turn[w].class # "Unknown"
  /\ turn' = [turn EXCEPT ![w].stage = "noting", ![w].since = clock]
  /\ UNCHANGED <<clock, at, tasks>>

(* The turn is over, and the conversation is where the reply leaves it.    *)
Note(w) ==
  LET k == turn[w].key IN
  /\ turn[w].stage = "noting"
  /\ turn' = [turn EXCEPT ![w] = NoTurn]
  /\ \/ /\ turn[w].class = "Continuable"
        /\ at' = [at EXCEPT ![k] = [ids |-> turn[w].said, until |-> turn[w].since + TTL]]
     \/ /\ turn[w].class = "Terminal"
        /\ at' = [at EXCEPT ![k] = Nowhere]
     \/ /\ Forgetful /\ at[k] = Nowhere
        /\ UNCHANGED at
  /\ UNCHANGED <<clock, tasks>>

(* A conversation whose time is up may be dropped. *)
Lapse(k) ==
  /\ Lossy \/ clock >= at[k].until
  /\ at' = [at EXCEPT ![k] = Nowhere]
  /\ UNCHANGED <<clock, turn, tasks>>

Tick ==
  /\ clock' = clock + 1
  /\ UNCHANGED <<at, turn, tasks>>

Next ==
  \/ \E w \in Workers :
       \/ \E k \in Keys : Begin(w, k)
       \/ SendSingleShot(w) \/ Send(w)
       \/ AnswerNewTask(w) \/ AnswerTask(w) \/ AnswerOtherwise(w)
       \/ Ignore(w) \/ TakeUp(w) \/ Note(w)
  \/ \E i \in Ids : EndTask(i)
  \/ \E k \in Keys : Lapse(k)
  \/ Tick

Spec == Init /\ [][Next]_vars

-----------------------------------------------------------------------------
(* Properties *)

(* README.md, docs/spec.md: between turns a conversation is only ever at a *)
(* task of its own that no reply has said to be over, and a turn under way *)
(* only carries such a task.  Nobody tells the policy of a task that ended *)
(* without a turn, so it may be one of those.                              *)
UnreportedTaskOf(i, k) ==
  i # NoIds => tasks[i].key = k /\ tasks[i].state \in {"open", "ended"}

OwnUnreportedTasks ==
  /\ \A k \in Keys : (\A w \in Workers : turn[w].key # k) => UnreportedTaskOf(at[k].ids, k)
  /\ \A w \in Workers : turn[w].stage = "sent" => UnreportedTaskOf(turn[w].ids, turn[w].key)

=============================================================================
