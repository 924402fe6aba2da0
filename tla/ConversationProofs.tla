------------------------- MODULE ConversationProofs -------------------------
(***************************************************************************)
(* In a conversation as cache mode promises it, no turn ever carries a     *)
(* task that a reply has said to be over, or another's: for every number   *)
(* of conversations, workers and tasks.                                    *)
(***************************************************************************)
EXTENDS Conversation, TLAPS

Tasks == Ids \cup {NoIds}

Typed ==
  /\ at \in [Keys -> [ids : Tasks, until : Nat]]
  /\ turn \in [Workers -> [stage : Stages, key : Keys \cup {NoKey}, ids : Tasks,
                           since : Nat, said : Tasks, class : Classes]]
  /\ tasks \in [Ids -> [key : Keys \cup {NoKey}, state : States]]
  /\ clock \in Nat

(* A conversation has one turn at a time. *)
OneTurnEach ==
  \A v, w \in Workers : turn[v].key = turn[w].key /\ turn[v].key # NoKey => v = w

(* Its reply says the task of its conversation is over, which is not noted *)
(* yet.                                                                    *)
Ended(w) == turn[w].stage \in {"answered", "noting"} /\ turn[w].class = "Terminal"

AtOwnTask ==
  \A k \in Keys : (\A w \in Workers : turn[w].key = k => ~Ended(w)) => UnreportedTaskOf(at[k].ids, k)

NamesOwnTasks(w) ==
  /\ turn[w].key = NoKey => turn[w].ids = NoIds
  /\ turn[w].stage = "none" => turn[w].key = NoKey
  /\ turn[w].stage = "begun" => turn[w].key # NoKey
  /\ turn[w].stage = "sent" => UnreportedTaskOf(turn[w].ids, turn[w].key)
  /\ turn[w].stage \in {"answered", "noting"} /\ turn[w].class = "Continuable"
       => UnreportedTaskOf(turn[w].said, turn[w].key)

TurnsNameOwnTasks == \A w \in Workers : NamesOwnTasks(w)

Inv == Typed /\ OneTurnEach /\ AtOwnTask /\ TurnsNameOwnTasks

-----------------------------------------------------------------------------
LEMMA Initially ==
  ASSUME NoKey \notin Keys, NoIds \notin Ids
  PROVE  Init => Inv
  BY DEF Init, Inv, Typed, OneTurnEach, AtOwnTask, TurnsNameOwnTasks, NamesOwnTasks, Ended,
         UnreportedTaskOf, Nowhere, NoTurn, Stages, Classes, States, Tasks

(* A turn moves on and stays with its conversation.                        *)
MovesOn(w) ==
  /\ \A v \in Workers : v # w => turn'[v] = turn[v]
  /\ turn'[w].key = turn[w].key
  /\ Ended(w) => Ended(w)'

LEMMA QuietStepKeeps ==
  ASSUME Inv, NEW w \in Workers, MovesOn(w), NamesOwnTasks(w)', UNCHANGED <<at, tasks>>
  PROVE  OneTurnEach' /\ AtOwnTask' /\ TurnsNameOwnTasks'
<1>1. OneTurnEach'
  BY DEF Inv, OneTurnEach, MovesOn
<1>2. ASSUME NEW v \in Workers PROVE (Ended(v) => Ended(v)') /\ turn'[v].key = turn[v].key
  BY DEF MovesOn, Ended
<1>3. AtOwnTask'
  BY <1>2 DEF Inv, AtOwnTask, UnreportedTaskOf
<1>4. TurnsNameOwnTasks'
  BY DEF Inv, TurnsNameOwnTasks, NamesOwnTasks, UnreportedTaskOf, MovesOn
<1>5. QED
  BY <1>1, <1>3, <1>4

LEMMA BeginKeeps ==
  ASSUME NoKey \notin Keys, Inv, NEW w \in Workers, NEW k \in Keys, Begin(w, k)
  PROVE  Inv'
<1> USE DEF Inv, Typed, Begin
<1>1. turn'[w] = [NoTurn EXCEPT !.stage = "begun", !.key = k, !.since = clock]
  OBVIOUS
<1>2. Typed'
  BY DEF NoTurn, Stages, Classes, Tasks
<1>3. OneTurnEach'
  BY <1>1 DEF OneTurnEach, NoTurn
<1>4. \A v \in Workers : Ended(v) => turn'[v] = turn[v]
  BY DEF Ended, NoTurn
<1>5. AtOwnTask'
  <2>1. ASSUME NEW l \in Keys, \A v \in Workers : turn'[v].key = l => ~Ended(v)'
        PROVE  UnreportedTaskOf(at[l].ids, l)'
    <3>1. \A v \in Workers : turn[v].key = l => ~Ended(v)
      BY <1>4, <2>1 DEF Ended
    <3>2. QED
      BY <3>1 DEF AtOwnTask, UnreportedTaskOf
  <2>2. QED
    BY <2>1 DEF AtOwnTask
<1>6. TurnsNameOwnTasks'
  BY <1>1 DEF TurnsNameOwnTasks, NamesOwnTasks, UnreportedTaskOf, NoTurn
<1>7. QED
  BY <1>2, <1>3, <1>5, <1>6

LEMMA SendSingleShotKeeps ==
  ASSUME Inv, NEW w \in Workers, SendSingleShot(w)
  PROVE  Inv'
<1>1. turn'[w] = [NoTurn EXCEPT !.stage = "sent"] /\ Typed'
  BY DEF Inv, Typed, SendSingleShot, Stages
<1>2. MovesOn(w)
  BY <1>1 DEF Inv, Typed, SendSingleShot, MovesOn, Ended, NoTurn
<1>3. NamesOwnTasks(w)'
  BY <1>1 DEF NamesOwnTasks, UnreportedTaskOf, NoTurn
<1>4. QED
  BY <1>1, <1>2, <1>3, QuietStepKeeps DEF Inv, SendSingleShot

LEMMA SendKeeps ==
  ASSUME NoIds \notin Ids, Inv, NEW w \in Workers, Send(w)
  PROVE  Inv'
<1>1. turn[w].key \in Keys
  BY DEF Inv, Typed, TurnsNameOwnTasks, NamesOwnTasks, Send
<1>2. UnreportedTaskOf(Remembered(w), turn[w].key) /\ Remembered(w) \in Tasks
  <2>1. \A v \in Workers : turn[v].key = turn[w].key => ~Ended(v)
    BY <1>1 DEF Inv, OneTurnEach, Ended, Send, TurnsNameOwnTasks, NamesOwnTasks
  <2>2. UnreportedTaskOf(at[turn[w].key].ids, turn[w].key)
    BY <1>1, <2>1 DEF Inv, AtOwnTask
  <2>3. QED
    BY <1>1, <2>2 DEF Inv, Typed, Remembered, UnreportedTaskOf, Tasks
<1> DEFINE sent == [turn[w] EXCEPT !.stage = "sent", !.ids = Remembered(w), !.since = 0]
<1>3. turn' = [turn EXCEPT ![w] = sent] /\ UNCHANGED <<clock, at, tasks>>
  BY DEF Inv, Typed, Send
<1>4. sent \in [stage : Stages, key : Keys \cup {NoKey}, ids : Tasks,
                since : Nat, said : Tasks, class : Classes]
  BY <1>2 DEF Inv, Typed, Stages
<1>5. /\ sent.stage = "sent" /\ sent.key = turn[w].key /\ sent.ids = Remembered(w)
  BY DEF Inv, Typed
<1> HIDE DEF sent
<1>6. Typed' /\ turn'[w] = sent
  BY <1>3, <1>4 DEF Inv, Typed
<1>7. MovesOn(w)
  BY <1>3, <1>5, <1>6 DEF Inv, Typed, MovesOn, Ended, Send
<1>8. NamesOwnTasks(w)'
  BY <1>1, <1>2, <1>3, <1>5, <1>6 DEF Inv, TurnsNameOwnTasks, NamesOwnTasks, UnreportedTaskOf, Send
<1>9. QED
  BY <1>3, <1>6, <1>7, <1>8, QuietStepKeeps DEF Inv

(* What an answer does to its turn. *)
LEMMA AnswerMovesOn ==
  ASSUME Inv, NEW w \in Workers, NEW ids \in Tasks, NEW class \in Classes,
         Answer(w, ids, class)
  PROVE  /\ turn' \in [Workers -> [stage : Stages, key : Keys \cup {NoKey}, ids : Tasks,
                                   since : Nat, said : Tasks, class : Classes]]
         /\ turn'[w].stage = "answered" /\ turn'[w].key = turn[w].key
         /\ turn'[w].ids = turn[w].ids /\ turn'[w].said = ids /\ turn'[w].class = class
         /\ MovesOn(w) /\ UNCHANGED <<clock, at>>
<1> DEFINE answered == [turn[w] EXCEPT !.stage = "answered", !.said = ids, !.class = class]
<1>1. turn' = [turn EXCEPT ![w] = answered] /\ UNCHANGED <<clock, at>>
  BY DEF Inv, Typed, Answer
<1>2. answered \in [stage : Stages, key : Keys \cup {NoKey}, ids : Tasks,
                    since : Nat, said : Tasks, class : Classes]
  BY DEF Inv, Typed, Stages
<1>3. /\ answered.stage = "answered" /\ answered.key = turn[w].key
      /\ answered.ids = turn[w].ids /\ answered.said = ids /\ answered.class = class
  BY DEF Inv, Typed
<1> HIDE DEF answered
<1>4. turn'[w] = answered /\ \A v \in Workers : v # w => turn'[v] = turn[v]
  BY <1>1 DEF Inv, Typed
<1>5. MovesOn(w)
  BY <1>3, <1>4 DEF MovesOn, Ended, Answer
<1>6. QED
  BY <1>1, <1>2, <1>3, <1>4, <1>5 DEF Inv, Typed

LEMMA AnswerOtherwiseKeeps ==
  ASSUME NoIds \notin Ids, Inv, NEW w \in Workers, AnswerOtherwise(w)
  PROVE  Inv'
<1>1. PICK class \in {"Terminal", "Unknown"} : Answer(w, NoIds, class)
  BY DEF AnswerOtherwise
<1>2. UNCHANGED tasks /\ turn[w].stage = "sent" /\ NamesOwnTasks(w)
  BY <1>1 DEF AnswerOtherwise, Answer, Inv, TurnsNameOwnTasks
<1>3. NoIds \in Tasks /\ class \in Classes
  BY DEF Tasks, Classes
<1>4. NamesOwnTasks(w)'
  BY <1>1, <1>2, <1>3, AnswerMovesOn DEF NamesOwnTasks
<1>5. QED
  BY <1>1, <1>2, <1>3, <1>4, AnswerMovesOn, QuietStepKeeps DEF Inv, Typed

(* A new task is nobody's but its creator's. *)
LEMMA AnswerNewTaskKeeps ==
  ASSUME NoIds \notin Ids, Inv, NEW w \in Workers, AnswerNewTask(w)
  PROVE  Inv'
<1>1. PICK i \in Ids, class \in Classes :
        /\ tasks[i].state = "none"
        /\ tasks' = [tasks EXCEPT ![i] = [key |-> turn[w].key, state |-> StateAfter(class)]]
        /\ Answer(w, i, class)
  BY DEF AnswerNewTask
<1>2. /\ i \in Tasks /\ i # NoIds /\ StateAfter(class) \in States
      /\ class = "Continuable" => StateAfter(class) = "open"
  BY DEF Tasks, StateAfter, States
<1>3. /\ turn'[w].stage = "answered" /\ turn'[w].key = turn[w].key
      /\ turn'[w].ids = turn[w].ids /\ turn'[w].said = i /\ turn'[w].class = class
      /\ MovesOn(w) /\ UNCHANGED <<clock, at>> /\ turn[w].stage = "sent"
  BY <1>1, <1>2, AnswerMovesOn DEF Answer
<1>4. Typed'
  BY <1>1, <1>2, AnswerMovesOn DEF Inv, Typed
<1>5. ASSUME NEW j \in Tasks, NEW k, UnreportedTaskOf(j, k)
      PROVE  j # NoIds => tasks'[j] = tasks[j]
  BY <1>1, <1>5 DEF UnreportedTaskOf, Inv, Typed, Tasks
<1>6. OneTurnEach'
  BY <1>3 DEF Inv, OneTurnEach, MovesOn
<1>7. AtOwnTask'
  <2>1. ASSUME NEW v \in Workers PROVE (Ended(v) => Ended(v)') /\ turn'[v].key = turn[v].key
    BY <1>3 DEF MovesOn, Ended
  <2>2. \A k \in Keys : at[k].ids \in Tasks
    BY DEF Inv, Typed
  <2>3. QED
    BY <1>3, <1>5, <2>1, <2>2 DEF Inv, AtOwnTask, UnreportedTaskOf
<1>8. TurnsNameOwnTasks'
  <2>1. NamesOwnTasks(w)'
    BY <1>1, <1>2, <1>3 DEF Inv, Typed, TurnsNameOwnTasks, NamesOwnTasks, UnreportedTaskOf
  <2>2. ASSUME NEW v \in Workers, v # w PROVE NamesOwnTasks(v)'
    <3>1. turn'[v] = turn[v] /\ turn[v].ids \in Tasks /\ turn[v].said \in Tasks
      BY <1>3, <2>2 DEF MovesOn, Inv, Typed
    <3>2. ASSUME NEW j \in Tasks, NEW k, UnreportedTaskOf(j, k) PROVE UnreportedTaskOf(j, k)'
      BY <1>5, <3>2 DEF UnreportedTaskOf
    <3>3. QED
      BY <3>1, <3>2 DEF Inv, TurnsNameOwnTasks, NamesOwnTasks
  <2>3. QED
    BY <2>1, <2>2 DEF TurnsNameOwnTasks
<1>9. QED
  BY <1>4, <1>6, <1>7, <1>8 DEF Inv

(* A task that is said to be over was its own conversation's, which has no *)
(* other turn under way.                                                   *)
LEMMA AnswerTaskKeeps ==
  ASSUME NoKey \notin Keys, NoIds \notin Ids, Inv, NEW w \in Workers, AnswerTask(w)
  PROVE  Inv'
<1> DEFINE i == turn[w].ids
           k == turn[w].key
<1>1. PICK class \in Classes :
        /\ tasks' = [tasks EXCEPT ![i].state = StateAfter(class)]
        /\ Answer(w, i, class)
  BY DEF AnswerTask
<1>2. i \in Ids /\ i # NoIds /\ turn[w].stage = "sent"
  BY <1>1 DEF AnswerTask, Inv, Typed, Tasks, Answer
<1>3. k \in Keys /\ tasks[i].key = k
  BY <1>2 DEF Inv, Typed, TurnsNameOwnTasks, NamesOwnTasks, UnreportedTaskOf
<1>4. /\ turn'[w].stage = "answered" /\ turn'[w].key = k /\ turn'[w].ids = i
      /\ turn'[w].said = i /\ turn'[w].class = class
      /\ MovesOn(w) /\ UNCHANGED <<clock, at>>
  BY <1>1, <1>2, AnswerMovesOn DEF Tasks
<1>5. /\ tasks' \in [Ids -> [key : Keys \cup {NoKey}, state : States]]
      /\ \A j \in Ids : j # i => tasks'[j] = tasks[j]
      /\ tasks'[i].key = k
      /\ class # "Terminal" => tasks'[i].state = "open"
  BY <1>1, <1>2, <1>3 DEF Inv, Typed, States, StateAfter
<1>6. Typed'
  BY <1>1, <1>2, <1>4, <1>5, AnswerMovesOn DEF Inv, Typed, Tasks
<1>7. ASSUME NEW j \in Tasks, NEW l, UnreportedTaskOf(j, l), l # k \/ class # "Terminal"
      PROVE  j # NoIds => tasks'[j].key = l /\ tasks'[j].state \in {"open", "ended"}
  BY <1>3, <1>5, <1>7 DEF UnreportedTaskOf, Tasks
<1>8. OneTurnEach'
  BY <1>4 DEF Inv, OneTurnEach, MovesOn
<1>9. AtOwnTask'
  <2>1. ASSUME NEW l \in Keys, \A v \in Workers : turn'[v].key = l => ~Ended(v)'
        PROVE  UnreportedTaskOf(at[l].ids, l)'
    <3>1. \A v \in Workers : turn[v].key = l => ~Ended(v)
      BY <1>4, <2>1 DEF MovesOn, Ended
    <3>2. UnreportedTaskOf(at[l].ids, l) /\ at[l].ids \in Tasks
      BY <3>1 DEF Inv, Typed, AtOwnTask
    <3>3. l # k \/ class # "Terminal"
      BY <1>4, <2>1 DEF Ended
    <3>4. QED
      BY <1>4, <1>7, <3>2, <3>3 DEF UnreportedTaskOf
  <2>2. QED
    BY <2>1 DEF AtOwnTask
<1>10. TurnsNameOwnTasks'
  <2>1. NamesOwnTasks(w)'
    BY <1>3, <1>4, <1>5 DEF NamesOwnTasks, UnreportedTaskOf
  <2>2. ASSUME NEW v \in Workers, v # w PROVE NamesOwnTasks(v)'
    <3>1. /\ turn'[v] = turn[v] /\ turn[v].ids \in Tasks /\ turn[v].said \in Tasks
          /\ turn[v].key # k
      BY <1>3, <1>4, <2>2 DEF MovesOn, Inv, Typed, OneTurnEach
    <3>2. ASSUME NEW j \in Tasks, UnreportedTaskOf(j, turn[v].key)
          PROVE  UnreportedTaskOf(j, turn[v].key)'
      BY <1>7, <3>1, <3>2 DEF UnreportedTaskOf
    <3>3. QED
      BY <3>1, <3>2 DEF Inv, TurnsNameOwnTasks, NamesOwnTasks
  <2>3. QED
    BY <2>1, <2>2 DEF TurnsNameOwnTasks
<1>11. QED
  BY <1>6, <1>8, <1>9, <1>10 DEF Inv

LEMMA IgnoreKeeps ==
  ASSUME NoKey \notin Keys, NoIds \notin Ids, Inv, NEW w \in Workers, Ignore(w)
  PROVE  Inv'
<1>1. turn'[w] = NoTurn /\ Typed' /\ \A v \in Workers : v # w => turn'[v] = turn[v]
  BY DEF Inv, Typed, Ignore, NoTurn, Stages, Classes, Tasks
<1>2. OneTurnEach'
  BY <1>1 DEF Inv, OneTurnEach, NoTurn
<1>3. AtOwnTask'
  <2>1. \A k \in Keys : (\A v \in Workers : turn'[v].key = k => ~Ended(v)')
                        => (\A v \in Workers : turn[v].key = k /\ k # NoKey => ~Ended(v))
    BY <1>1 DEF Ended, Ignore
  <2>2. QED
    BY <1>1, <2>1 DEF Inv, AtOwnTask, UnreportedTaskOf, Ignore
<1>4. TurnsNameOwnTasks'
  BY <1>1 DEF Inv, TurnsNameOwnTasks, NamesOwnTasks, UnreportedTaskOf, Ignore, NoTurn
<1>5. QED
  BY <1>1, <1>2, <1>3, <1>4 DEF Inv

LEMMA TakeUpKeeps ==
  ASSUME Inv, NEW w \in Workers, TakeUp(w)
  PROVE  Inv'
<1> DEFINE noting == [turn[w] EXCEPT !.stage = "noting", !.since = clock]
<1>1. turn' = [turn EXCEPT ![w] = noting] /\ UNCHANGED <<clock, at, tasks>>
  BY DEF Inv, Typed, TakeUp
<1>2. noting \in [stage : Stages, key : Keys \cup {NoKey}, ids : Tasks,
                  since : Nat, said : Tasks, class : Classes]
  BY DEF Inv, Typed, Stages
<1>3. /\ noting.stage = "noting" /\ noting.key = turn[w].key /\ noting.ids = turn[w].ids
      /\ noting.said = turn[w].said /\ noting.class = turn[w].class
  BY DEF Inv, Typed
<1> HIDE DEF noting
<1>4. /\ turn'[w] = noting /\ \A v \in Workers : v # w => turn'[v] = turn[v]
      /\ Typed'
  BY <1>1, <1>2 DEF Inv, Typed
<1>5. MovesOn(w) /\ NamesOwnTasks(w)'
  BY <1>1, <1>3, <1>4 DEF MovesOn, Ended, TakeUp, Inv, TurnsNameOwnTasks, NamesOwnTasks,
                          UnreportedTaskOf
<1>6. QED
  BY <1>1, <1>4, <1>5, QuietStepKeeps DEF Inv

LEMMA NoteKeeps ==
  ASSUME NoKey \notin Keys, NoIds \notin Ids, TTL \in Nat, Inv, NEW w \in Workers, Note(w)
  PROVE  Inv'
<1> DEFINE k == turn[w].key
<1>1. /\ turn'[w] = NoTurn /\ (\A v \in Workers : v # w => turn'[v] = turn[v])
      /\ UNCHANGED <<clock, tasks>> /\ turn[w].stage = "noting"
      /\ turn' \in [Workers -> [stage : Stages, key : Keys \cup {NoKey}, ids : Tasks,
                                since : Nat, said : Tasks, class : Classes]]
  BY DEF Inv, Typed, Note, NoTurn, Stages, Classes, Tasks
<1>2. OneTurnEach'
  BY <1>1 DEF Inv, OneTurnEach, NoTurn
<1>3. /\ at' \in [Keys -> [ids : Tasks, until : Nat]]
      /\ \A l \in Keys : l # k => at'[l] = at[l]
      /\ k \in Keys => \/ at'[k].ids = NoIds
                       \/ turn[w].class = "Continuable" /\ at'[k].ids = turn[w].said
  <2>1. turn[w].since + TTL \in Nat /\ turn[w].said \in Tasks /\ NoIds \in Tasks
    BY DEF Inv, Typed, Tasks
  <2>2. CASE at' = [at EXCEPT ![k] = [ids |-> turn[w].said, until |-> turn[w].since + TTL]]
             /\ turn[w].class = "Continuable"
    BY <2>1, <2>2 DEF Inv, Typed
  <2>3. CASE at' = [at EXCEPT ![k] = Nowhere]
    BY <2>1, <2>3 DEF Inv, Typed, Nowhere
  <2>4. CASE at[k] = Nowhere /\ UNCHANGED at
    BY <2>4 DEF Inv, Typed, Nowhere
  <2>5. QED
    BY <2>2, <2>3, <2>4 DEF Note
<1>4. AtOwnTask'
  <2>1. ASSUME NEW l \in Keys, \A v \in Workers : turn'[v].key = l => ~Ended(v)', l # k
        PROVE  UnreportedTaskOf(at[l].ids, l)'
    <3>1. \A v \in Workers : turn[v].key = l => ~Ended(v)
      BY <1>1, <2>1 DEF Ended
    <3>2. QED
      BY <1>1, <1>3, <2>1, <3>1 DEF Inv, AtOwnTask, UnreportedTaskOf
  <2>2. ASSUME NEW l \in Keys, l = k PROVE UnreportedTaskOf(at[l].ids, l)'
    <3>1. turn[w].class = "Continuable" => UnreportedTaskOf(turn[w].said, k)
      BY <1>1 DEF Inv, TurnsNameOwnTasks, NamesOwnTasks
    <3>2. QED
      BY <1>1, <1>3, <2>2, <3>1 DEF UnreportedTaskOf
  <2>3. QED
    BY <2>1, <2>2 DEF AtOwnTask
<1>5. TurnsNameOwnTasks'
  BY <1>1 DEF Inv, TurnsNameOwnTasks, NamesOwnTasks, UnreportedTaskOf, NoTurn
<1>6. QED
  BY <1>1, <1>2, <1>3, <1>4, <1>5 DEF Inv, Typed

LEMMA OthersKeep ==
  ASSUME NoIds \notin Ids, Inv, (\E k \in Keys : Lapse(k)) \/ Tick \/ UNCHANGED vars
  PROVE  Inv'
<1>1. UNCHANGED <<turn, tasks>> /\ clock' \in Nat
  BY DEF Inv, Typed, Lapse, Tick, vars
<1>2. /\ at' \in [Keys -> [ids : Tasks, until : Nat]]
      /\ \A k \in Keys : at'[k] = at[k] \/ at'[k].ids = NoIds
  BY DEF Inv, Typed, Lapse, Tick, vars, Nowhere, Tasks
<1>3. QED
  BY <1>1, <1>2 DEF Inv, Typed, OneTurnEach, AtOwnTask, TurnsNameOwnTasks, NamesOwnTasks,
                    Ended, UnreportedTaskOf

LEMMA EndTaskKeeps ==
  ASSUME NoIds \notin Ids, Inv, NEW i \in Ids, EndTask(i)
  PROVE  Inv'
<1>1. UNCHANGED <<clock, at, turn>> /\ Typed'
  BY DEF EndTask, Inv, Typed, States
<1>2. ASSUME NEW j \in Tasks, NEW k, UnreportedTaskOf(j, k) PROVE UnreportedTaskOf(j, k)'
  BY <1>2 DEF EndTask, Inv, Typed, Tasks, UnreportedTaskOf
<1>3. /\ \A k \in Keys : at[k].ids \in Tasks
      /\ \A w \in Workers : turn[w].ids \in Tasks /\ turn[w].said \in Tasks
  BY DEF Inv, Typed
<1>4. AtOwnTask'
  BY <1>1, <1>2, <1>3 DEF Inv, AtOwnTask, Ended
<1>5. TurnsNameOwnTasks'
  BY <1>1, <1>2, <1>3 DEF Inv, TurnsNameOwnTasks, NamesOwnTasks
<1>6. QED
  BY <1>1, <1>4, <1>5 DEF Inv, OneTurnEach

LEMMA Inductive ==
  ASSUME NoKey \notin Keys, NoIds \notin Ids, TTL \in Nat
  PROVE  Inv /\ [Next]_vars => Inv'
  BY BeginKeeps, SendSingleShotKeeps, SendKeeps, AnswerNewTaskKeeps, AnswerTaskKeeps,
     AnswerOtherwiseKeeps, EndTaskKeeps, IgnoreKeeps, TakeUpKeeps, NoteKeeps, OthersKeep
  DEF Next

-----------------------------------------------------------------------------
(* README.md, docs/spec.md: between turns a conversation is only ever at a *)
(* task of its own that no reply has said to be over, and a turn only      *)
(* carries such a task, although tasks also end by themselves.             *)
THEOREM ConversationsOwnTheirTasks ==
  ASSUME NoKey \notin Keys, NoIds \notin Ids, TTL \in Nat
  PROVE  Spec => []OwnUnreportedTasks
<1>1. Inv => OwnUnreportedTasks
  BY DEF Inv, AtOwnTask, Ended, TurnsNameOwnTasks, NamesOwnTasks, OwnUnreportedTasks
<1>2. QED
  BY <1>1, Initially, Inductive, PTL DEF Spec
=============================================================================
