---------------------------- MODULE TurnsProofs ----------------------------
(***************************************************************************)
(* Conversations do not touch each other, and the filters use the store as *)
(* the store expects, for every number of turns, workers, keys and tasks,  *)
(* whatever overlaps and whatever fails.                                   *)
(***************************************************************************)
EXTENDS Turns, ConversationStoreProofs

-----------------------------------------------------------------------------
(* What a worker does in the store concerns its own call only *)

Local(w) == \A v \in Workers \ {w} : pc'[v] = pc[v] /\ call'[v] = call[v]

(* The call of w returns, or goes on with an access other than a lookup.   *)
CallEnds(w)   == pc'[w] = "idle" /\ call'[w] = NoCall
CallGoesOn(w) == pc[w] # "get" /\ pc'[w] \in Accesses \ {"get"} /\ call'[w] = call[w]

LEMMA AccessEndsOrGoesOn ==
  ASSUME TypeOK, NEW w \in Workers, Access(w)
  PROVE  pc[w] # "idle" /\ Local(w) /\ (CallEnds(w) \/ CallGoesOn(w))
<1>1. ASSUME NEW ids, NEW r, Return(w, ids, r) PROVE Local(w) /\ CallEnds(w)
  BY <1>1 DEF Return, Local, CallEnds, TypeOK
<1>2. ASSUME NEW access \in Accesses \ {"get"}, Goto(w, access), pc[w] # "get"
      PROVE  Local(w) /\ CallGoesOn(w)
  BY <1>2 DEF Goto, Local, CallGoesOn, TypeOK
<1>3. ASSUME NEW access \in Accesses \ {"get"}, Retry(w, access), pc[w] # "get"
      PROVE  Local(w) /\ (CallEnds(w) \/ CallGoesOn(w))
  BY <1>1, <1>2, <1>3 DEF Retry
<1>4. QED
  BY <1>1, <1>2, <1>3
  DEF Access, Get, GetOf, GetError, UpsertCreate, UpsertRead, UpsertReadOf, UpsertRecreate,
      UpsertUpdate, EvictDelete, EvictRead, EvictReadOf, EvictUpdate, UpdateError, Write,
      Acknowledge, Accesses

LEMMA LookupBegins ==
  ASSUME TypeOK, NEW w \in Workers, NEW k \in Keys, GetContinuation(w, k)
  PROVE  /\ pc[w] = "idle" /\ pc'[w] = "get" /\ Local(w)
         /\ call'[w].key = k /\ call'[w].ids = NoIds
         /\ UNCHANGED slots
  BY DEF GetContinuation, Start, Local, TypeOK, storageVars

LEMMA OutcomeBegins ==
  ASSUME TypeOK, NEW w \in Workers, NEW k \in Keys, NEW class \in StateClasses,
         NEW ids \in Continuations, RecordOutcome(w, k, class, ids)
  PROVE  /\ pc[w] = "idle" /\ Local(w) /\ UNCHANGED slots
         /\ \/ CallEnds(w)
            \/ /\ pc'[w] \in Accesses \ {"get"}
               /\ call'[w].key = k /\ call'[w].ids \in {ids, NoIds}
<1>1. ASSUME NEW access \in Accesses \ {"get"}, NEW i \in {ids, NoIds}, Start(w, access, k, i)
      PROVE  /\ pc[w] = "idle" /\ Local(w) /\ pc'[w] \in Accesses \ {"get"}
             /\ call'[w].key = k /\ call'[w].ids \in {ids, NoIds}
  BY <1>1 DEF Start, Local, TypeOK, Accesses
<1>2. QED
  BY <1>1 DEF RecordOutcome, Return, Local, CallEnds, TypeOK, Accesses, StateClasses, storageVars

(* The filters make the calls they make: every step of a turn is a step of *)
(* the store, or none.                                                     *)
LEMMA ReplyFits ==
  ASSUME TurnsTyped, NEW w \in Workers, Persists(w)
  PROVE  /\ turn[w].key \in Keys /\ ClassOf(reply[w]) \in StateClasses
         /\ reply[w].ids \in Continuations
  BY DEF TurnsTyped, Persists, ClassOf, StateClasses

LEMMA TurnStepIsStoreStep ==
  ASSUME TurnsTyped, [TurnsNext]_allVars
  PROVE  [Next]_vars
<1>1. ASSUME NEW w \in Workers, NEW k \in Keys, StartTurn(w, k) PROVE Next
  BY <1>1 DEF StartTurn, Next
<1>2. ASSUME NEW w \in Workers, PersistOutcome(w) PROVE Next
  BY <1>2, ReplyFits DEF PersistOutcome, Next
<1>3. ASSUME NEW w \in Workers, ResolveTurn(w) \/ RecordStep(w) PROVE Next
  BY <1>3 DEF ResolveTurn, RecordStep, Next, Access
<1>4. ASSUME NEW w \in Workers,
             \/ StartSingleShot(w) \/ PassThrough(w)
             \/ AgentCreatesTask(w) \/ AgentContinuesTask(w) \/ AgentAnswersOtherwise(w)
      PROVE  UNCHANGED vars
  BY <1>4 DEF StartSingleShot, PassThrough, AgentCreatesTask, AgentContinuesTask,
              AgentAnswersOtherwise, Answer, storeVars, vars
<1>5. ASSUME NEW i \in Ids, AgentEndsTask(i) PROVE UNCHANGED vars
  BY <1>5 DEF AgentEndsTask, storeVars, vars
<1>6. CASE Environment
  BY <1>6 DEF Next
<1>7. CASE UNCHANGED allVars
  BY <1>7 DEF allVars, vars
<1>8. QED
  BY <1>1, <1>2, <1>3, <1>4, <1>5, <1>6, <1>7 DEF TurnsNext, TurnStep

-----------------------------------------------------------------------------
(* The filters and the store agree *)

LEMMA TurnsInitially == TurnsInit => TurnsIInv
<1> SUFFICES ASSUME TurnsInit PROVE TurnsIInv
  OBVIOUS
<1>1. IInv
  BY IInvInit DEF TurnsInit
<1>2. TurnsTyped
  BY DEF TurnsInit, TurnsTyped, NoTurn, NoReply, Continuations, StateClasses
<1>3. StagesMatch
  BY DEF TurnsInit, Init, StagesMatch
<1>4. TasksKnown
  BY DEF TurnsInit, Init, StorageInit, TasksKnown, Known, Holds, IsItem, VacantSlot, NoCall,
         NoTurn, NoReply
<1>5. QED
  BY <1>1, <1>2, <1>3, <1>4 DEF TurnsIInv

LEMMA TurnsStayTyped ==
  ASSUME TurnsIInv, [TurnsNext]_allVars
  PROVE  TurnsTyped'
<1> USE DEF TurnsTyped
<1>1. NoTurn \in [key : Keys \cup {NoKey}, ids : Continuations] /\ NoIds \in Continuations
  BY DEF NoTurn, Continuations
<1>2. NoReply \in [kind  : {"none", "task", "message", "error", "opaque"},
                   ids   : Continuations,
                   class : StateClasses]
  BY DEF NoReply, Continuations, StateClasses
<1>3. found' \in [Workers -> Continuations]
  BY TurnStepIsStoreStep, IInvNext DEF TurnsIInv, IInv, TypeOK
<1>4. ASSUME NEW w \in Workers, NEW k \in Keys, StartTurn(w, k) PROVE TurnsTyped'
  BY <1>1, <1>4 DEF TurnsIInv, StartTurn
<1>5. ASSUME NEW w \in Workers, StartSingleShot(w) PROVE TurnsTyped'
  BY <1>1, <1>5 DEF TurnsIInv, StartSingleShot
<1>6. ASSUME NEW w \in Workers, ResolveTurn(w) PROVE TurnsTyped'
  <2>1. found'[w] \in Continuations /\ UNCHANGED <<reply, task, owner>>
    BY <1>3, <1>6 DEF ResolveTurn
  <2>2. CASE stage' = [stage EXCEPT ![w] = "sent"] /\ turn' = [turn EXCEPT ![w].ids = found'[w]]
    BY <2>1, <2>2 DEF TurnsIInv
  <2>3. CASE stage' = [stage EXCEPT ![w] = "idle"] /\ turn' = [turn EXCEPT ![w] = NoTurn]
    BY <1>1, <2>1, <2>3 DEF TurnsIInv
  <2>4. QED
    BY <1>6, <2>2, <2>3 DEF ResolveTurn
<1>7. ASSUME NEW w \in Workers, AgentCreatesTask(w) PROVE TurnsTyped'
  BY <1>1, <1>7 DEF TurnsIInv, AgentCreatesTask, Answer, TaskAfter, Continuations
<1>8. ASSUME NEW w \in Workers, AgentContinuesTask(w) PROVE TurnsTyped'
  BY <1>1, <1>8 DEF TurnsIInv, AgentContinuesTask, Answer, TaskAfter, Continuations
<1>9. ASSUME NEW w \in Workers, AgentAnswersOtherwise(w) PROVE TurnsTyped'
  <2>1. PICK kind \in {"message", "error", "opaque"}, class \in {"Terminal", "Unknown"} :
          Answer(w, kind, NoIds, class)
    BY <1>9 DEF AgentAnswersOtherwise
  <2>2. UNCHANGED <<task, owner>>
    BY <1>9 DEF AgentAnswersOtherwise
  <2>3. QED
    BY <1>1, <2>1, <2>2 DEF TurnsIInv, Answer, StateClasses
<1>10. ASSUME NEW w \in Workers, PersistOutcome(w) \/ PassThrough(w) \/ RecordStep(w)
       PROVE  TurnsTyped'
  <2>1. /\ UNCHANGED <<task, owner>>
        /\ \/ EndTurn(w)
           \/ stage' = [stage EXCEPT ![w] = "recording"] /\ UNCHANGED <<turn, reply>>
    BY <1>10 DEF PersistOutcome, PassThrough, RecordStep, EndTurnOnReturn
  <2>2. CASE EndTurn(w)
    <3>1. turn' \in [Workers -> [key : Keys \cup {NoKey}, ids : Continuations]]
      BY <1>1, <2>2 DEF TurnsIInv, EndTurn
    <3>2. QED
      BY <1>2, <2>1, <2>2, <3>1 DEF TurnsIInv, EndTurn
  <2>3. QED
    BY <2>1, <2>2 DEF TurnsIInv
<1>11. ASSUME NEW i \in Ids, AgentEndsTask(i) PROVE TurnsTyped'
  BY <1>11 DEF TurnsIInv, AgentEndsTask
<1>12. CASE (Environment /\ UNCHANGED turnVars) \/ UNCHANGED allVars
  BY <1>12 DEF TurnsIInv, turnVars, allVars
<1>13. QED
  BY <1>4, <1>5, <1>6, <1>7, <1>8, <1>9, <1>10, <1>11, <1>12 DEF TurnsNext, TurnStep

(* The turns of the other workers stay as they are.                        *)
Undisturbed(w) ==
  \A v \in Workers \ {w} : stage'[v] = stage[v] /\ turn'[v] = turn[v] /\ reply'[v] = reply[v]

(* How far worker w is.                                                    *)
StageMatches(w) ==
  /\ stage[w] = "idle" => turn[w] = NoTurn
  /\ stage[w] \in {"idle", "resolving", "sent"} => reply[w] = NoReply
  /\ stage[w] \in {"idle", "sent", "answered"} <=> pc[w] = "idle"
  /\ stage[w] = "resolving" <=> pc[w] = "get"
  /\ pc[w] # "idle" => call[w].key = turn[w].key

LEMMA OthersMatch ==
  ASSUME StagesMatch, NEW w \in Workers, Local(w), Undisturbed(w), StageMatches(w)'
  PROVE  StagesMatch'
<1>1. ASSUME NEW v \in Workers, v # w PROVE StageMatches(v)'
  BY <1>1 DEF StagesMatch, Local, Undisturbed, StageMatches
<1>2. QED
  BY <1>1 DEF StagesMatch, StageMatches

LEMMA StagesStayMatched ==
  ASSUME TurnsIInv, [TurnsNext]_allVars
  PROVE  StagesMatch'
<1> USE DEF TurnsIInv, TurnsTyped
<1>1. TypeOK /\ StagesMatch
  BY DEF IInv
<1>2. ASSUME NEW w \in Workers, UNCHANGED <<pc, call>> PROVE Local(w)
  BY <1>2 DEF Local
<1>3. ASSUME NEW w \in Workers, NEW k \in Keys, StartTurn(w, k) PROVE StagesMatch'
  <2>1. pc'[w] = "get" /\ Local(w) /\ call'[w].key = k
    BY <1>1, <1>3, LookupBegins DEF StartTurn
  <2>2. Undisturbed(w) /\ StageMatches(w)'
    BY <1>1, <1>3, <2>1 DEF StartTurn, Undisturbed, StageMatches, StagesMatch
  <2>3. QED
    BY <1>1, <2>1, <2>2, OthersMatch
<1>4. ASSUME NEW w \in Workers, StartSingleShot(w) PROVE StagesMatch'
  <2>1. Undisturbed(w) /\ StageMatches(w)' /\ UNCHANGED <<pc, call>>
    BY <1>1, <1>4 DEF StartSingleShot, Undisturbed, StageMatches, StagesMatch, storeVars
  <2>2. QED
    BY <1>1, <1>2, <2>1, OthersMatch
<1>5. ASSUME NEW w \in Workers, ResolveTurn(w) PROVE StagesMatch'
  <2>1. Local(w) /\ pc'[w] = "idle"
    BY <1>1, <1>5, AccessEndsOrGoesOn
    DEF ResolveTurn, Access, CallEnds, CallGoesOn, StagesMatch
  <2>2. Undisturbed(w) /\ StageMatches(w)'
    BY <1>1, <1>5, <2>1 DEF ResolveTurn, Undisturbed, StageMatches, StagesMatch
  <2>3. QED
    BY <1>1, <2>1, <2>2, OthersMatch
<1>6. ASSUME NEW w \in Workers, NEW kind, NEW ids, NEW class, Answer(w, kind, ids, class)
      PROVE  StagesMatch'
  <2>1. Undisturbed(w) /\ StageMatches(w)' /\ UNCHANGED <<pc, call>>
    BY <1>1, <1>6 DEF Answer, Undisturbed, StageMatches, StagesMatch, storeVars
  <2>2. QED
    BY <1>1, <1>2, <2>1, OthersMatch
<1>7. ASSUME NEW w \in Workers, PersistOutcome(w) PROVE StagesMatch'
  <2>1. /\ Local(w)
        /\ \/ CallEnds(w)
           \/ pc'[w] \in Accesses \ {"get"} /\ call'[w].key = turn[w].key
    BY <1>1, <1>7, ReplyFits, OutcomeBegins DEF PersistOutcome
  <2>2. Undisturbed(w) /\ StageMatches(w)'
    BY <1>1, <1>7, <2>1 DEF PersistOutcome, EndTurnOnReturn, EndTurn, Undisturbed, StageMatches,
                            StagesMatch, CallEnds, Accesses
  <2>3. QED
    BY <1>1, <2>1, <2>2, OthersMatch
<1>8. ASSUME NEW w \in Workers, PassThrough(w) PROVE StagesMatch'
  <2>1. Undisturbed(w) /\ StageMatches(w)' /\ UNCHANGED <<pc, call>>
    BY <1>1, <1>8 DEF PassThrough, EndTurn, Undisturbed, StageMatches, StagesMatch, storeVars
  <2>2. QED
    BY <1>1, <1>2, <2>1, OthersMatch
<1>9. ASSUME NEW w \in Workers, RecordStep(w) PROVE StagesMatch'
  <2>1. Local(w) /\ (CallEnds(w) \/ CallGoesOn(w))
    BY <1>1, <1>9, AccessEndsOrGoesOn DEF RecordStep
  <2>2. Undisturbed(w) /\ StageMatches(w)'
    BY <1>1, <1>9, <2>1 DEF RecordStep, EndTurnOnReturn, EndTurn, Undisturbed, StageMatches,
                            StagesMatch, CallEnds, CallGoesOn, Accesses
  <2>3. QED
    BY <1>1, <2>1, <2>2, OthersMatch
<1>10. CASE (Environment /\ UNCHANGED turnVars) \/ UNCHANGED allVars
  BY <1>1, <1>10 DEF Environment, Tick, Reclaim, workerVars, turnVars, allVars, StagesMatch
<1>11. ASSUME NEW i \in Ids, AgentEndsTask(i) PROVE StagesMatch'
  BY <1>1, <1>11 DEF AgentEndsTask, storeVars, StagesMatch
<1>12. QED
  BY <1>3, <1>4, <1>5, <1>6, <1>7, <1>8, <1>9, <1>10, <1>11
  DEF TurnsNext, TurnStep, AgentCreatesTask, AgentContinuesTask, AgentAnswersOtherwise

-----------------------------------------------------------------------------
(* Whoever names a task names one of its conversation *)

(* A task once created keeps its conversation. *)
LEMMA TasksPersist ==
  ASSUME TurnsTyped, [TurnsNext]_allVars, NEW i \in Ids, task[i] # "none"
  PROVE  task'[i] # "none" /\ owner'[i] = owner[i]
<1>1. ASSUME NEW w \in Workers, AgentCreatesTask(w)
      PROVE  task'[i] # "none" /\ owner'[i] = owner[i]
  BY <1>1 DEF AgentCreatesTask, TaskAfter, TurnsTyped
<1>2. ASSUME NEW w \in Workers, AgentContinuesTask(w)
      PROVE  task'[i] # "none" /\ owner'[i] = owner[i]
  BY <1>2 DEF AgentContinuesTask, TaskAfter, TurnsTyped
<1>3. ASSUME NEW j \in Ids, AgentEndsTask(j)
      PROVE  task'[i] # "none" /\ owner'[i] = owner[i]
  BY <1>3 DEF AgentEndsTask, TurnsTyped
<1>4. QED
  BY <1>1, <1>2, <1>3
  DEF TurnsNext, TurnStep, StartTurn, StartSingleShot, ResolveTurn, AgentAnswersOtherwise,
      PersistOutcome, PassThrough, RecordStep, turnVars, allVars

(* What worker w names. *)
NamesKnown(w) ==
  /\ Known(turn[w].ids, turn[w].key)
  /\ Known(reply[w].ids, turn[w].key)
  /\ Known(call[w].ids, turn[w].key)

LEMMA NamesStayKnown ==
  ASSUME TurnsIInv, [TurnsNext]_allVars, NEW w \in Workers,
         UNCHANGED <<turn[w], reply[w], call[w]>>
  PROVE  NamesKnown(w)'
<1>1. /\ turn[w].ids \in Continuations /\ reply[w].ids \in Continuations
      /\ call[w].ids \in Continuations
  BY DEF TurnsIInv, TurnsTyped, IInv, TypeOK, Calls, NoCall, Continuations
<1>2. NamesKnown(w)
  BY DEF TurnsIInv, TasksKnown, NamesKnown
<1>3. QED
  BY <1>1, <1>2, TasksPersist DEF TurnsIInv, NamesKnown, Known, Continuations

LEMMA OthersKnown ==
  ASSUME TurnsIInv, [TurnsNext]_allVars, NEW w \in Workers, Local(w), Undisturbed(w),
         NamesKnown(w)'
  PROVE  \A v \in Workers : NamesKnown(v)'
<1>1. ASSUME NEW v \in Workers, v # w PROVE NamesKnown(v)'
  BY <1>1, NamesStayKnown DEF Local, Undisturbed
<1>2. QED
  BY <1>1

(* A lookup answers a task of the conversation it was made for. *)
LEMMA FoundIsKnown ==
  ASSUME TurnsIInv, NEW w \in Workers, Get(w) \/ GetError(w)
  PROVE  Known(found'[w], call[w].key)
<1>1. TypeOK /\ call[w].key \in Keys
  BY DEF TurnsIInv, IInv, TypeOK, Get, GetOf, GetError
<1>2. CASE GetError(w)
  BY <1>1, <1>2 DEF GetError, Return, TypeOK, Known
<1>3. CASE Get(w)
  <2>1. found'[w] \in {NoIds, slots[call[w].key].item.ids}
    BY <1>1, <1>3 DEF Get, GetOf, Return, TypeOK, Continuation
  <2>2. found'[w] # NoIds => Holds(call[w].key)
    BY <1>1, <1>3 DEF Get, GetOf, Return, TypeOK, Holds
  <2>3. QED
    BY <1>1, <2>1, <2>2 DEF TurnsIInv, TasksKnown, Known
<1>4. QED
  BY <1>2, <1>3

LEMMA NamesAreKnown ==
  ASSUME TurnsIInv, [TurnsNext]_allVars
  PROVE  \A v \in Workers : NamesKnown(v)'
<1> USE DEF TurnsIInv, TurnsTyped
<1>1. TypeOK /\ StagesMatch
  BY DEF IInv
<1>2. ASSUME NEW w \in Workers, UNCHANGED <<pc, call>> PROVE Local(w)
  BY <1>2 DEF Local
<1>3. ASSUME NEW w \in Workers
      PROVE  /\ turn[w].ids \in Continuations /\ reply[w].ids \in Continuations
             /\ call[w].ids \in Continuations
             /\ NamesKnown(w)
  BY DEF IInv, TypeOK, Calls, NoCall, Continuations, TasksKnown, NamesKnown
<1>4. ASSUME NEW i \in Continuations, NEW k, Known(i, k)
      PROVE  i # NoIds => task'[i] # "none" /\ owner'[i] = k
  BY <1>4, TasksPersist DEF Known, Continuations
<1>5. ASSUME NEW w \in Workers, EndTurn(w), CallEnds(w) PROVE NamesKnown(w)'
  BY <1>5 DEF EndTurn, CallEnds, NamesKnown, Known, NoTurn, NoReply, NoCall
<1>6. ASSUME NEW w \in Workers, NEW k \in Keys, StartTurn(w, k)
      PROVE  \A v \in Workers : NamesKnown(v)'
  <2>1. Local(w) /\ call'[w].ids = NoIds
    BY <1>1, <1>6, LookupBegins DEF StartTurn
  <2>2. Undisturbed(w) /\ turn'[w].ids = NoIds /\ reply'[w].ids = NoIds
    BY <1>1, <1>6 DEF StartTurn, Undisturbed, StagesMatch, NoReply
  <2>3. QED
    BY <2>1, <2>2, OthersKnown DEF NamesKnown, Known
<1>7. ASSUME NEW w \in Workers, StartSingleShot(w)
      PROVE  \A v \in Workers : NamesKnown(v)'
  <2>1. UNCHANGED <<pc, call>> /\ call[w] = NoCall
    BY <1>1, <1>7 DEF StartSingleShot, storeVars, StagesMatch, TypeOK
  <2>2. Undisturbed(w) /\ turn'[w] = NoTurn /\ reply'[w] = NoReply
    BY <1>1, <1>7 DEF StartSingleShot, Undisturbed, StagesMatch
  <2>3. NamesKnown(w)'
    BY <2>1, <2>2 DEF NamesKnown, Known, NoTurn, NoReply, NoCall
  <2>4. QED
    BY <1>2, <2>1, <2>2, <2>3, OthersKnown
<1>8. ASSUME NEW w \in Workers, ResolveTurn(w) PROVE \A v \in Workers : NamesKnown(v)'
  <2>1. Local(w) /\ call'[w] = NoCall
    BY <1>1, <1>8, AccessEndsOrGoesOn
    DEF ResolveTurn, Access, CallEnds, CallGoesOn, StagesMatch
  <2>2. Undisturbed(w) /\ reply'[w] = NoReply
    BY <1>1, <1>8 DEF ResolveTurn, Undisturbed, StagesMatch
  <2>3. UNCHANGED <<task, owner>> /\ Known(found'[w], turn[w].key)
    BY <1>1, <1>8, FoundIsKnown DEF ResolveTurn, StagesMatch
  <2>4. \/ turn'[w].ids = NoIds
        \/ turn'[w].ids = found'[w] /\ turn'[w].key = turn[w].key
    BY <1>8 DEF ResolveTurn, NoTurn
  <2>5. NamesKnown(w)'
    BY <2>1, <2>2, <2>3, <2>4 DEF NamesKnown, Known, NoReply, NoCall
  <2>6. QED
    BY <2>1, <2>2, <2>5, OthersKnown
<1>9. ASSUME NEW w \in Workers, NEW kind, NEW ids \in Continuations, NEW class,
             Answer(w, kind, ids, class),
             ids # NoIds => task'[ids] # "none" /\ owner'[ids] = turn[w].key
      PROVE  \A v \in Workers : NamesKnown(v)'
  <2>1. UNCHANGED <<pc, call, turn>> /\ reply'[w].ids = ids /\ Undisturbed(w)
    BY <1>9 DEF Answer, storeVars, Undisturbed
  <2>2. NamesKnown(w)'
    BY <1>3, <1>4, <1>9, <2>1 DEF NamesKnown, Known
  <2>3. QED
    BY <1>2, <2>1, <2>2, OthersKnown
<1>10. ASSUME NEW w \in Workers, AgentCreatesTask(w) PROVE \A v \in Workers : NamesKnown(v)'
  <2>1. PICK i \in Ids, class \in StateClasses :
          /\ task' = [task EXCEPT ![i] = TaskAfter(class)]
          /\ owner' = [owner EXCEPT ![i] = turn[w].key]
          /\ Answer(w, "task", i, class)
    BY <1>10 DEF AgentCreatesTask
  <2>2. i \in Continuations /\ task'[i] # "none" /\ owner'[i] = turn[w].key
    BY <2>1 DEF Continuations, TaskAfter
  <2>3. QED
    BY <1>9, <2>1, <2>2
<1>11. ASSUME NEW w \in Workers, AgentContinuesTask(w)
       PROVE  \A v \in Workers : NamesKnown(v)'
  <2>1. PICK class \in StateClasses : Answer(w, "task", turn[w].ids, class)
    BY <1>11 DEF AgentContinuesTask
  <2>2. Known(turn[w].ids, turn[w].key)
    BY <1>3 DEF NamesKnown
  <2>3. QED
    BY <1>3, <1>4, <1>9, <2>1, <2>2
<1>12. ASSUME NEW w \in Workers, AgentAnswersOtherwise(w)
       PROVE  \A v \in Workers : NamesKnown(v)'
  BY <1>9, <1>12 DEF AgentAnswersOtherwise, Continuations
<1>13. ASSUME NEW w \in Workers, PersistOutcome(w) PROVE \A v \in Workers : NamesKnown(v)'
  <2>1. /\ Local(w)
        /\ CallEnds(w) \/ (pc'[w] # "idle" /\ call'[w].ids \in {reply[w].ids, NoIds})
    BY <1>1, <1>13, ReplyFits, OutcomeBegins DEF PersistOutcome, Accesses
  <2>2. Undisturbed(w) /\ UNCHANGED <<task, owner>>
    BY <1>13 DEF PersistOutcome, EndTurnOnReturn, EndTurn, Undisturbed
  <2>3. CASE pc'[w] = "idle"
    BY <1>5, <1>13, <2>1, <2>2, <2>3, OthersKnown DEF PersistOutcome, EndTurnOnReturn
  <2>4. CASE pc'[w] # "idle"
    <3>1. UNCHANGED <<turn, reply>> /\ call'[w].ids \in {reply[w].ids, NoIds}
      BY <1>13, <2>1, <2>4 DEF PersistOutcome, EndTurnOnReturn, CallEnds
    <3>2. NamesKnown(w)'
      BY <1>3, <2>2, <3>1 DEF NamesKnown, Known
    <3>3. QED
      BY <2>1, <2>2, <3>2, OthersKnown
  <2>5. QED
    BY <2>3, <2>4
<1>14. ASSUME NEW w \in Workers, PassThrough(w) PROVE \A v \in Workers : NamesKnown(v)'
  <2>1. UNCHANGED <<pc, call>> /\ call[w] = NoCall /\ pc[w] = "idle"
    BY <1>1, <1>14 DEF PassThrough, storeVars, StagesMatch, TypeOK
  <2>2. EndTurn(w) /\ CallEnds(w)
    BY <1>14, <2>1 DEF PassThrough, CallEnds
  <2>3. Undisturbed(w)
    BY <2>2 DEF EndTurn, Undisturbed
  <2>4. QED
    BY <1>2, <1>5, <2>1, <2>2, <2>3, OthersKnown
<1>15. ASSUME NEW w \in Workers, RecordStep(w) PROVE \A v \in Workers : NamesKnown(v)'
  <2>1. Local(w) /\ (CallEnds(w) \/ CallGoesOn(w))
    BY <1>1, <1>15, AccessEndsOrGoesOn DEF RecordStep
  <2>2. Undisturbed(w)
    BY <1>15 DEF RecordStep, EndTurnOnReturn, EndTurn, Undisturbed
  <2>3. CASE pc'[w] = "idle"
    BY <1>5, <1>15, <2>1, <2>2, <2>3, OthersKnown
    DEF RecordStep, EndTurnOnReturn, CallGoesOn, Accesses
  <2>4. CASE pc'[w] # "idle"
    BY <1>15, <2>1, <2>2, <2>4, NamesStayKnown, OthersKnown
    DEF RecordStep, EndTurnOnReturn, CallEnds, CallGoesOn
  <2>5. QED
    BY <2>3, <2>4
<1>16. CASE (Environment /\ UNCHANGED turnVars) \/ UNCHANGED allVars
  BY <1>16, NamesStayKnown DEF Environment, Tick, Reclaim, workerVars, turnVars, allVars
<1>17. ASSUME NEW i \in Ids, AgentEndsTask(i) PROVE \A v \in Workers : NamesKnown(v)'
  BY <1>17, NamesStayKnown DEF AgentEndsTask, storeVars
<1>18. QED
  BY <1>6, <1>7, <1>8, <1>10, <1>11, <1>12, <1>13, <1>14, <1>15, <1>16, <1>17
  DEF TurnsNext, TurnStep

LEMMA EntriesAreKnown ==
  ASSUME TurnsIInv, [TurnsNext]_allVars, IInv', NEW k \in Keys, Holds(k)'
  PROVE  Known(slots[k].item.ids, k)'
<1>1. TypeOK /\ slots[k].item \in Entry \cup {NoItem} /\ lastVersion \in Nat
  BY DEF TurnsIInv, IInv, TypeOK
<1>2. ASSUME NEW i \in Continuations, Known(i, k)
      PROVE  i # NoIds => task'[i] # "none" /\ owner'[i] = k
  BY <1>2, TasksPersist DEF TurnsIInv, Known, Continuations
<1>3. slots'[k] = slots[k] \/ slots'[k] = VacantSlot \/ NewSlot(k)
  BY <1>1, TurnStepIsStoreStep, StepLeaves DEF TurnsIInv
<1>4. CASE slots'[k] = slots[k]
  <2>1. Holds(k) /\ slots[k].item.ids \in Continuations
    BY <1>1, <1>4 DEF Holds, TypeOK, Entry
  <2>2. Known(slots[k].item.ids, k)
    BY <2>1 DEF TurnsIInv, TasksKnown
  <2>3. QED
    BY <1>2, <1>4, <2>1, <2>2 DEF Known
<1>5. CASE slots'[k] = VacantSlot
  BY <1>5 DEF Holds, IsItem, VacantSlot
<1>6. CASE NewSlot(k)
  <2>1. PICK w \in Workers :
          \/ slots'[k].item = Tombstone(call[w])
          \/ /\ pc[w] \in Upserting /\ call[w].key = k
             /\ slots'[k].item = LiveEntry(call[w])
    BY <1>6 DEF NewSlot
  <2>2. CASE slots'[k].item = Tombstone(call[w])
    BY <2>2 DEF Tombstone, Known
  <2>3. CASE /\ pc[w] \in Upserting /\ call[w].key = k
             /\ slots'[k].item = LiveEntry(call[w])
    <3>1. call[w].ids \in Continuations /\ Known(call[w].ids, k)
      BY <1>1, <2>3 DEF TurnsIInv, StagesMatch, TasksKnown, TypeOK, Calls, NoCall,
                        Continuations, Upserting
    <3>2. QED
      BY <1>2, <2>3, <3>1 DEF LiveEntry, Known
  <2>4. QED
    BY <2>1, <2>2, <2>3
<1>7. QED
  BY <1>3, <1>4, <1>5, <1>6

LEMMA TurnsInductive == TurnsIInv /\ [TurnsNext]_allVars => TurnsIInv'
<1> SUFFICES ASSUME TurnsIInv, [TurnsNext]_allVars PROVE TurnsIInv'
  OBVIOUS
<1>1. IInv'
  BY TurnStepIsStoreStep, IInvNext DEF TurnsIInv
<1>2. TasksKnown'
  BY <1>1, NamesAreKnown, EntriesAreKnown DEF TasksKnown, NamesKnown
<1>3. QED
  BY <1>1, <1>2, TurnsStayTyped, StagesStayMatched DEF TurnsIInv

-----------------------------------------------------------------------------
(* A call that records stands for the reply of its turn *)

(* What a step of worker w touches: its own call and turn, and the slot of *)
(* its own conversation.                                                   *)
LEMMA StepIsLocal ==
  ASSUME TurnsIInv, NEW w \in Workers, TurnStep(w)
  PROVE  Local(w) /\ Undisturbed(w)
<1>1. TypeOK /\ TurnsTyped
  BY DEF TurnsIInv, IInv
<1>2. ASSUME UNCHANGED <<pc, call>> PROVE Local(w)
  BY <1>2 DEF Local
<1>3. Undisturbed(w)
  BY <1>1
  DEF TurnStep, StartTurn, StartSingleShot, ResolveTurn, AgentCreatesTask, AgentContinuesTask,
      AgentAnswersOtherwise, Answer, PersistOutcome, PassThrough, RecordStep, EndTurnOnReturn,
      EndTurn, Undisturbed, TurnsTyped
<1>4. CASE \E k \in Keys : StartTurn(w, k)
  BY <1>1, <1>3, <1>4, LookupBegins DEF StartTurn
<1>5. CASE PersistOutcome(w)
  BY <1>1, <1>3, <1>5, ReplyFits, OutcomeBegins DEF PersistOutcome
<1>6. CASE ResolveTurn(w) \/ RecordStep(w)
  BY <1>1, <1>3, <1>6, AccessEndsOrGoesOn DEF ResolveTurn, RecordStep, Access
<1>7. CASE \/ StartSingleShot(w) \/ PassThrough(w)
           \/ AgentCreatesTask(w) \/ AgentContinuesTask(w) \/ AgentAnswersOtherwise(w)
  BY <1>2, <1>3, <1>7
  DEF StartSingleShot, PassThrough, AgentCreatesTask, AgentContinuesTask,
      AgentAnswersOtherwise, Answer, storeVars
<1>8. QED
  BY <1>4, <1>5, <1>6, <1>7 DEF TurnStep

(* An upsert stays an upsert, an evict an evict, until the call returns. *)
LEMMA CallKeepsItsKind ==
  ASSUME TypeOK, NEW w \in Workers, Access(w), pc'[w] # "idle"
  PROVE  pc'[w] \in Upserting <=> pc[w] \in Upserting
<1>1. ASSUME NEW ids, NEW r, Return(w, ids, r) PROVE FALSE
  BY <1>1 DEF Return, TypeOK
<1>2. ASSUME NEW access, Goto(w, access) \/ Retry(w, access) PROVE pc'[w] = access
  BY <1>1, <1>2 DEF Goto, Retry, TypeOK
<1>3. QED
  BY <1>1, <1>2
  DEF Access, Get, GetOf, GetError, UpsertCreate, UpsertRead, UpsertReadOf, UpsertRecreate,
      UpsertUpdate, EvictDelete, EvictRead, EvictReadOf, EvictUpdate, UpdateError, Write,
      Acknowledge, Upserting

(* What CallsMatchReplies says of worker w. *)
CallMatches(w) ==
  /\ stage[w] \in {"answered", "recording"} => reply[w].kind # "none"
  /\ reply[w].kind = "message" => reply[w].class = "Terminal"
  /\ reply[w].kind \in {"none", "error", "opaque"} => reply[w].class = "Unknown"
  /\ stage[w] = "recording" =>
       /\ HasResult(reply[w])
       /\ ClassOf(reply[w]) = IF pc[w] \in Upserting THEN "Continuable" ELSE "Terminal"
  /\ pc[w] \in Upserting => call[w].ids = reply[w].ids

LEMMA CallMatchesKept ==
  ASSUME TurnsIInv, CallsMatchReplies, NEW w \in Workers, TurnStep(w)
  PROVE  CallMatches(w)'
<1>1. TypeOK /\ TurnsTyped /\ StagesMatch /\ CallMatches(w)
  BY DEF TurnsIInv, IInv, CallsMatchReplies, CallMatches
<1>2. ASSUME reply'[w] = NoReply, stage'[w] \in {"idle", "resolving", "sent"},
             pc'[w] \notin Upserting
      PROVE  CallMatches(w)'
  BY <1>2 DEF CallMatches, NoReply
<1>3. CASE \E k \in Keys : StartTurn(w, k)
  <2>1. pc'[w] = "get"
    BY <1>1, <1>3, LookupBegins DEF StartTurn
  <2>2. reply'[w] = NoReply /\ stage'[w] = "resolving"
    BY <1>1, <1>3 DEF StartTurn, StagesMatch, TurnsTyped
  <2>3. QED
    BY <1>2, <2>1, <2>2 DEF Upserting
<1>4. CASE StartSingleShot(w)
  BY <1>1, <1>2, <1>4 DEF StartSingleShot, StagesMatch, TurnsTyped, storeVars, Upserting
<1>5. CASE ResolveTurn(w)
  <2>1. pc'[w] = "idle"
    BY <1>1, <1>5, AccessEndsOrGoesOn
    DEF ResolveTurn, Access, CallEnds, CallGoesOn, StagesMatch
  <2>2. reply'[w] = NoReply /\ stage'[w] \in {"sent", "idle"}
    BY <1>1, <1>5 DEF ResolveTurn, StagesMatch, TurnsTyped
  <2>3. QED
    BY <1>2, <2>1, <2>2 DEF Upserting
<1>6. ASSUME NEW kind, NEW ids, NEW class, Answer(w, kind, ids, class),
             <<kind, class>> \in {<<"message", "Terminal">>, <<"error", "Unknown">>,
                                <<"opaque", "Unknown">>} \/ kind = "task"
      PROVE  CallMatches(w)'
  BY <1>1, <1>6 DEF Answer, StagesMatch, TurnsTyped, storeVars, Upserting, CallMatches
<1>7. CASE AgentCreatesTask(w) \/ AgentContinuesTask(w) \/ AgentAnswersOtherwise(w)
  BY <1>6, <1>7 DEF AgentCreatesTask, AgentContinuesTask, AgentAnswersOtherwise
<1>8. ASSUME EndTurn(w), pc'[w] = "idle" PROVE CallMatches(w)'
  BY <1>1, <1>2, <1>8 DEF EndTurn, TurnsTyped, Upserting
<1>9. CASE PassThrough(w)
  BY <1>1, <1>8, <1>9 DEF PassThrough, StagesMatch, storeVars
<1>10. CASE PersistOutcome(w)
  <2>1. CASE pc'[w] = "idle"
    BY <1>8, <1>10, <2>1 DEF PersistOutcome, EndTurnOnReturn
  <2>2. CASE pc'[w] # "idle"
    <3>1. stage'[w] = "recording" /\ reply'[w] = reply[w]
      BY <1>1, <1>10, <2>2 DEF PersistOutcome, EndTurnOnReturn, TurnsTyped
    <3>2. /\ stage[w] = "answered" /\ HasResult(reply[w])
          /\ RecordOutcome(w, turn[w].key, ClassOf(reply[w]), reply[w].ids)
      BY <1>10 DEF PersistOutcome, Persists
    <3>3. \/ /\ ClassOf(reply[w]) = "Continuable" /\ pc'[w] = "create"
             /\ call'[w].ids = reply[w].ids
          \/ /\ ClassOf(reply[w]) = "Terminal" /\ pc'[w] \in {"evictRead", "delete"}
      BY <1>1, <2>2, <3>2 DEF RecordOutcome, Start, Return, TypeOK
    <3>4. QED
      BY <1>1, <3>1, <3>2, <3>3 DEF CallMatches, Upserting
  <2>3. QED
    BY <2>1, <2>2
<1>11. CASE RecordStep(w)
  <2>1. CASE pc'[w] = "idle"
    BY <1>8, <1>11, <2>1 DEF RecordStep, EndTurnOnReturn
  <2>2. CASE pc'[w] # "idle"
    <3>1. stage'[w] = "recording" /\ stage[w] = "recording" /\ reply'[w] = reply[w]
      BY <1>1, <1>11, <2>2 DEF RecordStep, EndTurnOnReturn, TurnsTyped
    <3>2. call'[w] = call[w]
      BY <1>1, <1>11, <2>2, AccessEndsOrGoesOn DEF RecordStep, CallEnds, CallGoesOn
    <3>3. pc'[w] \in Upserting <=> pc[w] \in Upserting
      BY <1>1, <1>11, <2>2, CallKeepsItsKind DEF RecordStep
    <3>4. QED
      BY <1>1, <3>1, <3>2, <3>3 DEF CallMatches
  <2>3. QED
    BY <2>1, <2>2
<1>12. QED
  BY <1>3, <1>4, <1>5, <1>7, <1>9, <1>10, <1>11 DEF TurnStep

LEMMA RepliesInductive ==
  TurnsIInv /\ CallsMatchReplies /\ [TurnsNext]_allVars => CallsMatchReplies'
<1> SUFFICES ASSUME TurnsIInv, CallsMatchReplies, [TurnsNext]_allVars PROVE CallsMatchReplies'
  OBVIOUS
<1>1. CASE \E w \in Workers : TurnStep(w)
  <2>1. PICK w \in Workers : TurnStep(w)
    BY <1>1
  <2>2. ASSUME NEW v \in Workers, v # w PROVE CallMatches(v)'
    BY <2>1, <2>2, StepIsLocal
    DEF CallsMatchReplies, CallMatches, Local, Undisturbed
  <2>3. QED
    BY <2>1, <2>2, CallMatchesKept DEF CallsMatchReplies, CallMatches
<1>2. CASE ~ \E w \in Workers : TurnStep(w)
  <2>1. UNCHANGED <<pc, call, stage, reply>>
    BY <1>2 DEF TurnsNext, AgentEndsTask, Environment, Tick, Reclaim, workerVars, storeVars,
                turnVars, allVars
  <2>2. QED
    BY <2>1 DEF CallsMatchReplies
<1>3. QED
  BY <1>1, <1>2

-----------------------------------------------------------------------------
(* The filters and the store agree on how far a turn is, and whoever names *)
(* a task names one of its conversation.                                   *)
THEOREM TurnsInvariant == TurnsSpec => []TurnsIInv
  BY TurnsInitially, TurnsInductive, PTL DEF TurnsSpec

(* README.md, spec.md: a turn never carries the task of another            *)
(* conversation, nor a turn without a conversation any task, however turns *)
(* overlap and whatever storage calls fail.                                *)
THEOREM TurnsAreIsolated == TurnsSpec => []KeyIsolation
<1>1. TurnsIInv => KeyIsolation
  BY DEF TurnsIInv, TasksKnown, Known, KeyIsolation
<1>2. QED
  BY <1>1, TurnsInvariant, PTL

(* The filters call the store as its specification expects. *)
THEOREM TurnsUseTheStore == TurnsSpec => Spec
<1>1. TurnsInit => Init
  BY DEF TurnsInit
<1>2. TurnsIInv /\ [TurnsNext]_allVars => [Next]_vars
  BY TurnStepIsStoreStep DEF TurnsIInv
<1>3. QED
  BY <1>1, <1>2, TurnsInvariant, PTL DEF TurnsSpec, Spec

(* So whole turns, too, find the store answering at one instant.           *)
THEOREM TurnsLinearizable == TurnsSpec => ImplementsAtomic
  BY TurnsUseTheStore, Linearizable, PTL

-----------------------------------------------------------------------------
(* What leaves the cache, and what is not to come back *)

(* An access changes no slot, or puts what it was asked for into its own.  *)
LEMMA AccessWrites ==
  ASSUME TypeOK, NEW w \in Workers, Access(w)
  PROVE  /\ UNCHANGED clock
         /\ \/ UNCHANGED slots
            \/ pc[w] \in Upserting /\ Put(call[w].key, LiveEntry(call[w]), TTL)
            \/ pc[w] = "delete" /\ Vacate(call[w].key)
            \/ pc[w] = "evictUpdate" /\ Put(call[w].key, Tombstone(call[w]), TTL)
  BY DEF Access, Get, GetOf, GetError, UpsertCreate, UpsertRead, UpsertReadOf, UpsertRecreate,
         UpsertUpdate, EvictDelete, EvictRead, EvictReadOf, EvictUpdate, UpdateError, Write,
         storageVars, Upserting

LEMMA OnlyRecordingChangesSlots ==
  ASSUME TurnsIInv, NEW w \in Workers, TurnStep(w), NEW k \in Keys, slots'[k] # slots[k]
  PROVE  RecordStep(w) /\ call[w].key = k /\ turn[w].key = k
<1>1. TypeOK /\ StagesMatch
  BY DEF TurnsIInv, IInv
<1>2. RecordStep(w)
  BY DEF TurnStep, StartTurn, GetContinuation, StartSingleShot, ResolveTurn, Get, GetOf, GetError,
         AgentCreatesTask, AgentContinuesTask, AgentAnswersOtherwise, Answer, PersistOutcome,
         RecordOutcome, PassThrough, storeVars, storageVars
<1>3. pc[w] # "idle" /\ call[w].key = turn[w].key
  BY <1>1, <1>2 DEF RecordStep, StagesMatch
<1>4. call[w].key = k
  BY <1>1, <1>2, <1>3, AccessWrites DEF RecordStep, Put, Vacate, TypeOK
<1>5. QED
  BY <1>2, <1>3, <1>4

(* A live entry leaves by its TTL, because the backend loses it, or when    *)
(* the reply that a task ended is recorded under its key.                  *)
LEMMA OnlyEndedLeave ==
  ASSUME Binding = "JsonRpc", TurnsIInv, CallsMatchReplies, [TurnsNext]_allVars,
         NEW k \in Keys, Live(k), ~Live(k)'
  PROVE  \/ IsExpired(slots[k].item, clock)
         \/ Lossy /\ slots'[k] = VacantSlot
         \/ \E w \in Workers : /\ stage[w] = "recording"
                               /\ turn[w].key = k
                               /\ reply[w].class = "Terminal"
<1>1. TypeOK /\ SlotOutlivesEntry /\ slots'[k] # slots[k]
  BY DEF TurnsIInv, IInv, Live, Holds, IsItem
<1>2. CASE \E w \in Workers : TurnStep(w)
  <2>1. PICK w \in Workers : TurnStep(w)
    BY <1>2
  <2>2. RecordStep(w) /\ call[w].key = k /\ turn[w].key = k
    BY <1>1, <2>1, OnlyRecordingChangesSlots
  <2>3. pc[w] \notin Upserting
    <3>1. ~ Put(k, LiveEntry(call[w]), TTL)
      BY <1>1 DEF Put, LiveEntry, Live, Holds, IsItem, IsContinuable, TypeOK
    <3>2. QED
      BY <1>1, <2>2, <3>1, AccessWrites DEF RecordStep, Upserting
  <2>4. ClassOf(reply[w]) = "Terminal" /\ reply[w].kind \in {"task", "message"}
    BY <2>2, <2>3 DEF CallsMatchReplies, RecordStep, HasResult
  <2>5. stage[w] = "recording" /\ reply[w].class = "Terminal"
    BY <2>2, <2>4 DEF CallsMatchReplies, RecordStep, ClassOf
  <2>6. QED
    BY <2>2, <2>5
<1>3. CASE Environment /\ UNCHANGED turnVars
  <2>1. Reclaim(k)
    BY <1>1, <1>3 DEF Environment, Tick, Reclaim, Vacate, TypeOK
  <2>2. CASE Lossy
    BY <1>1, <2>1, <2>2 DEF Reclaim, Vacate, TypeOK
  <2>3. CASE ~Lossy
    <3>1. /\ slots[k].item.expires <= slots[k].reclaim /\ clock >= slots[k].reclaim
          /\ slots[k].item \in Entry
      BY <1>1, <2>1, <2>3 DEF Reclaim, SlotOutlivesEntry, TypeOK
    <3>2. clock \in Nat /\ slots[k].reclaim \in Nat /\ slots[k].item.expires \in Nat
      BY <1>1, <3>1 DEF TypeOK, Entry
    <3>3. QED
      BY <3>1, <3>2 DEF IsExpired
  <2>4. QED
    BY <2>2, <2>3
<1>4. CASE (\E i \in Ids : AgentEndsTask(i)) \/ UNCHANGED allVars
  BY <1>1, <1>4 DEF AgentEndsTask, storeVars, allVars
<1>5. QED
  BY <1>2, <1>3, <1>4 DEF TurnsNext

(* A record_outcome under way stands for the reply of its turn: an upsert   *)
(* for one that leaves the task open, an evict for one that ends it.       *)
THEOREM RepliesInvariant == TurnsSpec => []CallsMatchReplies
<1>1. TurnsInit => CallsMatchReplies
  BY DEF TurnsInit, Init, CallsMatchReplies, NoReply, Upserting
<1>2. QED
  BY <1>1, RepliesInductive, TurnsInvariant, PTL DEF TurnsSpec

(* What makes a closed task stay closed on the gossip backend. *)
RetiredIInv == TurnsIInv /\ CallsMatchReplies /\ NoResultYet /\ TombstonesHold

LEMMA NoResultYetKept ==
  TurnsIInv /\ NoResultYet /\ [TurnsNext]_allVars => NoResultYet'
<1> SUFFICES ASSUME TurnsIInv, NoResultYet, [TurnsNext]_allVars, NEW w \in Workers, pc'[w] # "idle"
             PROVE  result'[w] = "none"
  BY DEF NoResultYet
<1> USE DEF TypeOK
<1>1. TypeOK /\ TurnsTyped
  BY DEF TurnsIInv, IInv
<1>2. ASSUME NEW v \in Workers, NEW ids, NEW r, Return(v, ids, r) PROVE result'[w] = "none"
  BY <1>1, <1>2 DEF Return, NoResultYet
<1>3. ASSUME NEW v \in Workers, NEW access, NEW k, NEW ids, Start(v, access, k, ids)
      PROVE  result'[w] = "none"
  BY <1>1, <1>3 DEF Start, NoResultYet
<1>4. ASSUME NEW v \in Workers, NEW access, Goto(v, access), pc[v] # "idle"
      PROVE  result'[w] = "none"
  BY <1>1, <1>4 DEF Goto, NoResultYet
<1>5. ASSUME NEW v \in Workers, NEW access, Retry(v, access), pc[v] # "idle"
      PROVE  result'[w] = "none"
  BY <1>2, <1>4, <1>5 DEF Retry
<1>6. ASSUME UNCHANGED <<pc, result>> PROVE result'[w] = "none"
  BY <1>6 DEF NoResultYet
<1>7. ASSUME NEW v \in Workers, Access(v) PROVE result'[w] = "none"
  BY <1>2, <1>4, <1>5, <1>7
  DEF Access, Get, GetOf, GetError, UpsertCreate, UpsertRead, UpsertReadOf, UpsertRecreate,
      UpsertUpdate, EvictDelete, EvictRead, EvictReadOf, EvictUpdate, UpdateError, Write,
      Acknowledge, Accesses
<1>8. [Next]_vars
  BY <1>1, TurnStepIsStoreStep
<1>9. QED
  BY <1>2, <1>3, <1>6, <1>7, <1>8
  DEF Next, GetContinuation, RecordOutcome, Environment, Tick, Reclaim, workerVars, vars

(* An eviction that met an entry and is acknowledged leaves a tombstone    *)
(* that holds as long as the task is retired.                              *)
LEMMA RetiringLeavesTombstone ==
  ASSUME Distributed, RetiredIInv, NEW w \in Workers, RecordStep(w), NEW r \in Retires(w)
  PROVE  LET k == turn[w].key
         IN  /\ r.task = turn[w].ids /\ r.task \in Ids /\ k \in Keys
             /\ IsClosed(slots'[k]) /\ r.until = slots'[k].item.expires
             /\ r.until \in Nat
<1> DEFINE k == turn[w].key
<1>1. /\ TypeOK /\ TurnsTyped /\ EvictsByBackend
      /\ pc[w] # "idle" /\ call[w].key = k /\ k \in Keys /\ result[w] = "none"
  BY DEF RetiredIInv, TurnsIInv, IInv, RecordStep, StagesMatch, NoResultYet, TypeOK
<1>2. /\ result'[w] = "Ok" /\ reply[w].class = "Terminal" /\ turn[w].ids # NoIds /\ Holds(k)
      /\ r = [task |-> turn[w].ids,
             until |-> IF slots'[k] = VacantSlot THEN call[w].now + TTL
                       ELSE slots'[k].item.expires]
  BY DEF Retires
<1>3. r.task = turn[w].ids /\ r.task \in Ids
  BY <1>1, <1>2 DEF TurnsTyped, Continuations
<1>4. pc[w] \notin Upserting
  BY <1>2 DEF RetiredIInv, CallsMatchReplies, RecordStep, ClassOf
<1>5. CASE EvictRead(w)
  <2>1. UNCHANGED slots /\ Closed(k)
    BY <1>1, <1>2, <1>5 DEF EvictRead, EvictReadOf, Goto, storageVars, Closed, Holds
  <2>2. IsClosed(slots'[k]) /\ slots'[k].version # 0 /\ slots'[k].item \in Entry
    <3>1. slots'[k] = slots[k]
      BY <2>1
    <3>2. slots[k].version # 0 /\ slots[k].item \in Entry
      BY <1>1, <1>2 DEF TypeOK, Holds, IsItem
    <3>3. QED
      BY <2>1, <3>1, <3>2 DEF Closed
  <2>3. QED
    BY <1>1, <1>2, <1>3, <2>2 DEF VacantSlot, Entry
<1>6. CASE EvictUpdate(w)
  <2>1. Write(w, Tombstone(call[w]))
    BY <1>1, <1>2, <1>6 DEF EvictUpdate, Retry, Goto, Return, TypeOK
  <2>2. slots'[k] = [item |-> Tombstone(call[w]), version |-> lastVersion + 1,
                     reclaim |-> clock + TTL]
    BY <1>1, <2>1 DEF Write, Put, TypeOK
  <2>3. IsClosed(slots'[k]) /\ slots'[k].version # 0
    <3>1. slots'[k].version # 0
      BY <1>1, <2>2 DEF TypeOK
    <3>2. IsClosed(slots'[k])
      BY <2>2, <3>1 DEF IsClosed, IsItem, IsTerminal, Tombstone
    <3>3. QED
      BY <3>1, <3>2 DEF Closed
  <2>4. slots'[k].item.expires = call[w].now + TTL /\ call[w].now + TTL \in Nat
    BY <1>1, <2>2, EntryAssumption DEF Tombstone, TypeOK, Calls, NoCall
  <2>5. QED
    BY <1>1, <1>2, <1>3, <2>3, <2>4 DEF VacantSlot
<1>7. QED
  BY <1>1, <1>2, <1>4, <1>5, <1>6
  DEF RecordStep, Access, Get, GetOf, GetError, UpsertCreate, UpsertRead, UpsertReadOf,
      UpsertRecreate, UpsertUpdate, EvictDelete, UpdateError, Upserting, EvictsByBackend, Return,
      TypeOK, StagesMatch, RetiredIInv, TurnsIInv

LEMMA TombstonesHoldKept ==
  ASSUME Distributed, ~Lossy, RetiredIInv, [TurnsNext]_allVars
  PROVE  TombstonesHold'
<1>1. /\ TypeOK /\ TurnsTyped /\ TombstonesHold /\ IInv /\ [Next]_vars
      /\ TurnsIInv' /\ TypeOK'
  BY TurnStepIsStoreStep, TurnsInductive DEF RetiredIInv, TurnsIInv, IInv
<1>2. clock \in Nat /\ clock' \in Nat /\ clock <= clock'
  <2>1. ASSUME NEW w \in Workers, TurnStep(w) PROVE UNCHANGED clock
    BY <1>1, <2>1, AccessWrites
    DEF TurnStep, StartTurn, GetContinuation, StartSingleShot, ResolveTurn, Get, GetOf, GetError,
        AgentCreatesTask, AgentContinuesTask, AgentAnswersOtherwise, Answer, PersistOutcome,
        RecordOutcome, PassThrough, RecordStep, storeVars, storageVars
  <2>2. QED
    BY <1>1, <2>1 DEF TypeOK, TurnsNext, AgentEndsTask, Environment, Tick, Reclaim, storeVars,
                      allVars
<1>3. ASSUME NEW r \in retired
      PROVE  LET k == owner'[r.task] IN
             /\ r.task \in Ids /\ task'[r.task] # "none" /\ k \in Keys
             /\ clock' < r.until => IsClosed(slots'[k]) /\ r.until <= slots'[k].item.expires
  <2> DEFINE k == owner[r.task]
  <2>1. r.task \in Ids /\ task'[r.task] # "none" /\ owner'[r.task] = k /\ k \in Keys
    BY <1>1, TasksPersist DEF TombstonesHold
  <2>2. SUFFICES ASSUME clock' < r.until
                 PROVE  IsClosed(slots'[k]) /\ r.until <= slots'[k].item.expires
    BY <2>1
  <2>3. r.until \in Nat
    BY <1>1 DEF TombstonesHold
  <2>4. clock < r.until
    BY <1>2, <2>2, <2>3
  <2>5. Closed(k) /\ r.until <= slots[k].item.expires
    BY <1>1, <2>4 DEF TombstonesHold
  <2>6. slots[k].item.expires \in Nat
    BY <1>1, <2>1, <2>5 DEF TypeOK, Closed, IsClosed, Holds, Entry
  <2>7. ~IsExpired(slots[k].item, clock)
    BY <1>2, <2>3, <2>4, <2>5, <2>6 DEF IsExpired
  <2>8. slots'[k] = slots[k]
    BY <1>1, <2>1, <2>5, <2>7, ClosedStep DEF StaysClosed
  <2>9. QED
    BY <2>5, <2>8 DEF Closed
<1>4. CASE \E w \in Workers : RecordStep(w)
  <2>1. PICK w \in Workers : RecordStep(w)
    BY <1>4
  <2>2. ASSUME NEW r \in Retires(w)
        PROVE  LET k == owner'[r.task] IN
               /\ r.task \in Ids /\ task'[r.task] # "none" /\ k \in Keys
               /\ r.until \in Nat
               /\ clock' < r.until => IsClosed(slots'[k]) /\ r.until <= slots'[k].item.expires
    <3> DEFINE k == turn[w].key
    <3>1. /\ r.task = turn[w].ids /\ r.task \in Ids /\ k \in Keys
          /\ IsClosed(slots'[k]) /\ r.until = slots'[k].item.expires /\ r.until \in Nat
      BY <2>1, RetiringLeavesTombstone
    <3>2. task[r.task] # "none" /\ owner[r.task] = k
      BY <3>1, EntryAssumption DEF RetiredIInv, TurnsIInv, TasksKnown, Known
    <3>3. task'[r.task] # "none" /\ owner'[r.task] = k
      BY <1>1, <3>1, <3>2, TasksPersist
    <3>4. QED
      BY <3>1, <3>3
  <2>3. retired' = retired \cup Retires(w)
    BY <2>1 DEF RecordStep
  <2>4. QED
    BY <1>1, <1>3, <2>2, <2>3 DEF TombstonesHold, Closed
<1>5. CASE retired' = retired
  BY <1>1, <1>3, <1>5 DEF TombstonesHold, Closed
<1>6. QED
  BY <1>4, <1>5
  DEF TurnsNext, TurnStep, StartTurn, StartSingleShot, ResolveTurn, AgentCreatesTask,
      AgentContinuesTask, AgentAnswersOtherwise, Answer, PersistOutcome, PassThrough,
      AgentEndsTask, turnVars, allVars

LEMMA RetiredTasksAreNotFound ==
  ASSUME Distributed, RetiredIInv, [TurnsNext]_allVars, NEW w \in Workers, Resolves(w),
         NEW r \in retired, r.task = turn'[w].ids
  PROVE  ~(clock < r.until)
<1>1. /\ TypeOK /\ TurnsTyped /\ StagesMatch /\ r.task \in Ids /\ r.task # NoIds
      /\ pc[w] = "get" /\ call[w].key = turn[w].key /\ call[w].key \in Keys
  BY EntryAssumption
  DEF RetiredIInv, TurnsIInv, IInv, TypeOK, StagesMatch, Resolves, TombstonesHold
<1>2. ResolveTurn(w)
  <2>1. ASSUME NEW v \in Workers, TurnStep(v), v # w PROVE FALSE
    BY <2>1, StepIsLocal DEF RetiredIInv, Undisturbed, Resolves
  <2>2. TurnStep(w)
    BY <2>1 DEF TurnsNext, AgentEndsTask, turnVars, allVars, Resolves
  <2>3. QED
    BY <2>2 DEF TurnStep, StartTurn, StartSingleShot, AgentCreatesTask, AgentContinuesTask,
                AgentAnswersOtherwise, Answer, PersistOutcome, PassThrough, RecordStep, Resolves
<1>3. turn'[w].ids = found'[w]
  BY <1>1, <1>2 DEF ResolveTurn, Resolves, TurnsTyped
<1>4. owner[r.task] = call[w].key
  BY <1>1, <1>2, <1>3, FoundIsKnown DEF ResolveTurn, RetiredIInv, Known
<1>5. ~Closed(call[w].key)
  BY <1>1, <1>2, <1>3
  DEF ResolveTurn, Get, GetOf, GetError, Return, TypeOK, Closed, IsClosed, IsTerminal,
      IsContinuable, Continuation
<1>6. QED
  BY <1>4, <1>5 DEF RetiredIInv, TombstonesHold

(* A task whose eviction met its entry keeps its tombstone while retired,  *)
(* on a backend that keeps an item for its TTL.                            *)
THEOREM RetiredInvariant ==
  ASSUME Distributed, ~Lossy
  PROVE  TurnsSpec => []RetiredIInv
<1>1. TurnsInit => NoResultYet /\ TombstonesHold
  BY DEF TurnsInit, Init, NoResultYet, TombstonesHold
<1>2. RetiredIInv /\ [TurnsNext]_allVars => NoResultYet' /\ TombstonesHold'
  BY NoResultYetKept, TombstonesHoldKept DEF RetiredIInv
<1>3. QED
  BY <1>1, <1>2, TurnsInvariant, RepliesInvariant, PTL DEF TurnsSpec, RetiredIInv

(* cache.rs:12-15, 183-186: on the gossip backend no late reply brings a   *)
(* task back whose eviction met its entry and was acknowledged, while the  *)
(* tombstone holds, however turns overlap and whatever calls fail.  The    *)
(* backend is taken to keep an item for its TTL: one that loses the        *)
(* tombstone (docs/spec.md:184-194) lets a late reply through.             *)
THEOREM RetiredTasksStayClosed ==
  ASSUME Distributed, ~Lossy
  PROVE  TurnsSpec => ClosedStaysClosed
<1>1. RetiredIInv /\ [TurnsNext]_allVars =>
        [\A w \in Workers : Resolves(w) =>
           ~ \E r \in retired : r.task = turn'[w].ids /\ clock < r.until]_allVars
  BY RetiredTasksAreNotFound
<1>2. QED
  BY <1>1, RetiredInvariant, PTL DEF TurnsSpec, ClosedStaysClosed

=============================================================================
