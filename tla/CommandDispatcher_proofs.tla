----------------------- MODULE CommandDispatcher_proofs -----------------------
(***************************************************************************)
(* Proofs about CommandDispatcher and DispatcherRestart, for any number of *)
(* callers, streams, answers, commands and restarts.  DispatcherCore holds *)
(* whoever answers what, so it is kept across restarts too; DispatcherInv  *)
(* and RestartInv add to it what answers are worth in one process, and     *)
(* when the client may still answer a command of an earlier one.           *)
(***************************************************************************)
EXTENDS DispatcherRestart, TLAPS

-----------------------------------------------------------------------------
(* DispatcherCore, one lemma per kind of action *)

\* The id handed out is fresh: nobody owns it or has answered it.
LEMMA AssignIdKeepsCore ==
    ASSUME DispatcherCore, NEW t \in Callers, AssignId(t)
    PROVE  DispatcherCore'
<1> USE DEF DispatcherCore, TypeOK, AssignId, streamVars, clientVars
<1>1. TypeOK'
  BY MaxCommandsAssumption DEF Places, IdsAreOwned, Busy, Statuses, LocalStatuses, Ids
<1>2. IdsAreOwned'
  BY MaxCommandsAssumption, NoStatusAssumption DEF IdsAreOwned, Busy, FreshIsOpen, Ids
<1>3. FreshIsOpen'
  BY MaxCommandsAssumption DEF FreshIsOpen, Ids
<1>4. PendingIsOwned'
  BY DEF PendingIsOwned, Registered, IdsAreOwned, Busy
<1>5. UnsentIsUnseen'
  BY MaxCommandsAssumption DEF UnsentIsUnseen, Unseen, IdsAreOwned, Busy, Ids
<1>6. MutexProtects' /\ NewestStreamServes' /\ OutcomeIsCaused'
  BY DEF MutexProtects, HoldsWriterMutex, NewestStreamServes, OutcomeIsCaused, Unseen
<1> QED
  BY <1>1, <1>2, <1>3, <1>4, <1>5, <1>6

\* The caller's command becomes pending, and nobody has answered it yet.
LEMMA InsertPendingKeepsCore ==
    ASSUME DispatcherCore, NEW t \in Callers, InsertPending(t)
    PROVE  DispatcherCore'
<1> USE DEF DispatcherCore, TypeOK, InsertPending, streamVars, clientVars
<1>1. TypeOK'
  BY DEF Places, IdsAreOwned, Busy
<1>2. PendingIsOwned'
  BY DEF PendingIsOwned, Registered, IdsAreOwned, Busy, FreshIsOpen
<1>3. /\ IdsAreOwned' /\ FreshIsOpen' /\ UnsentIsUnseen' /\ MutexProtects'
      /\ NewestStreamServes' /\ OutcomeIsCaused'
  BY DEF IdsAreOwned, Busy, FreshIsOpen, UnsentIsUnseen, Unseen, MutexProtects,
     HoldsWriterMutex, NewestStreamServes, OutcomeIsCaused
<1> QED
  BY <1>1, <1>2, <1>3

\* The mutex was free, so its new owner is alone; a written command has left
\* the unsent ones, and belongs to a caller that has no outcome yet.
LEMMA LockWriterKeepsCore ==
    ASSUME DispatcherCore, NEW t \in Callers, LockWriter(t)
    PROVE  DispatcherCore'
<1> USE DEF DispatcherCore, TypeOK, LockWriter, streamVars, clientVars
<1>1. TypeOK'
  BY NoWriterAssumption DEF Places, IdsAreOwned, Busy
<1>2. MutexProtects'
  BY NoWriterAssumption DEF MutexProtects, WriterMutexFree, HoldsWriterMutex
<1>3. IdsAreOwned' /\ FreshIsOpen' /\ PendingIsOwned' /\ NewestStreamServes'
  BY DEF IdsAreOwned, Busy, FreshIsOpen, PendingIsOwned, Registered, NewestStreamServes
<1>4. UnsentIsUnseen'
  BY MaxCommandsAssumption DEF UnsentIsUnseen, Unseen, IdsAreOwned, Busy, Ids
<1>5. OutcomeIsCaused'
  BY DEF OutcomeIsCaused, Unseen, IdsAreOwned, Busy
<1> QED
  BY <1>1, <1>2, <1>3, <1>4, <1>5

\* Only the caller's place changes: the promise stays in pending_.
LEMMA PlaceKeepsCore ==
    ASSUME DispatcherCore, NEW t \in Callers,
           WriteSucceeds(t) \/ WriteFails(t) \/ WaitTimesOut(t)
    PROVE  DispatcherCore'
BY DEF DispatcherCore, TypeOK, WriteSucceeds, WriteFails, WaitTimesOut, streamVars,
   clientVars, Places, IdsAreOwned, Busy, FreshIsOpen, UnsentIsUnseen, Unseen,
   PendingIsOwned, Registered, MutexProtects, HoldsWriterMutex, NewestStreamServes,
   OutcomeIsCaused

\* A failing path takes the caller's own promise out of pending_ and no other,
\* and the rejected command is one the client has never seen.
LEMMA EraseAndReturnKeepsCore ==
    ASSUME DispatcherCore, NEW t \in Callers, NEW status \in LocalStatuses,
           \/ pc[t] = "rejected" /\ status = "NOT_SUPPORTED"
           \/ pc[t] \in {"failed", "expired"} /\ status # "NOT_SUPPORTED",
           EraseAndReturn(t, status)
    PROVE  DispatcherCore'
<1> USE DEF DispatcherCore, TypeOK, EraseAndReturn, streamVars, clientVars
<1>1. TypeOK'
  BY DEF Places, IdsAreOwned, Busy, Statuses
<1>2. IdsAreOwned' /\ FreshIsOpen'
  BY MaxCommandsAssumption, NoStatusAssumption
     DEF IdsAreOwned, Busy, FreshIsOpen, Statuses, Ids
<1>3. PendingIsOwned'
  BY DEF PendingIsOwned, Registered, IdsAreOwned, Busy
<1>4. UnsentIsUnseen' /\ OutcomeIsCaused'
  BY NoStatusAssumption, MaxCommandsAssumption
     DEF UnsentIsUnseen, Unseen, OutcomeIsCaused, IdsAreOwned, Busy, LocalStatuses, Ids
<1>5. MutexProtects' /\ NewestStreamServes'
  BY DEF MutexProtects, HoldsWriterMutex, NewestStreamServes
<1> QED
  BY <1>1, <1>2, <1>3, <1>4, <1>5

\* An answered command is not pending any more: fulfill() erased it.
LEMMA ReturnAnswerKeepsCore ==
    ASSUME DispatcherCore, NEW t \in Callers, ReturnAnswer(t)
    PROVE  DispatcherCore'
<1> USE DEF DispatcherCore, TypeOK, ReturnAnswer, streamVars, clientVars
<1>1. TypeOK'
  BY DEF Places, IdsAreOwned, Busy, Statuses
<1>2. IdsAreOwned' /\ FreshIsOpen'
  BY MaxCommandsAssumption, NoStatusAssumption DEF IdsAreOwned, Busy, FreshIsOpen, Ids
<1>3. PendingIsOwned'
  BY DEF PendingIsOwned, Registered, IdsAreOwned, Busy
<1>4. UnsentIsUnseen' /\ OutcomeIsCaused'
  BY NoStatusAssumption, MaxCommandsAssumption
     DEF UnsentIsUnseen, Unseen, OutcomeIsCaused, IdsAreOwned, Busy, LocalStatuses, Ids
<1>5. MutexProtects' /\ NewestStreamServes'
  BY DEF MutexProtects, HoldsWriterMutex, NewestStreamServes
<1> QED
  BY <1>1, <1>2, <1>3, <1>4, <1>5

LEMMA DispatchKeepsCore ==
    ASSUME DispatcherCore, NEW t \in Callers, DispatchStep(t)
    PROVE  DispatcherCore'
<1>1. CASE RejectNoWriter(t)
  BY <1>1, EraseAndReturnKeepsCore DEF RejectNoWriter, LocalStatuses
<1>2. CASE FailWrite(t)
  BY <1>2, EraseAndReturnKeepsCore DEF FailWrite, LocalStatuses
<1>3. CASE Expire(t)
  BY <1>3, EraseAndReturnKeepsCore DEF Expire, LocalStatuses
<1> QED
  BY <1>1, <1>2, <1>3, AssignIdKeepsCore, InsertPendingKeepsCore, LockWriterKeepsCore,
     PlaceKeepsCore, ReturnAnswerKeepsCore DEF DispatchStep

\* No caller is inside Write() while the writer is replaced or cleared, and the
\* token clears its own writer only.
LEMMA StreamKeepsCore ==
    ASSUME DispatcherCore, NEW w \in Writers, StreamStep(w)
    PROVE  DispatcherCore'
<1> USE DEF DispatcherCore, StreamStep, OpenStream, RegisterWriter, CancelStream,
            ReleaseToken, callerVars, clientVars
<1>1. TypeOK'
  BY DEF TypeOK
<1>2. MutexProtects'
  BY NoWriterAssumption DEF TypeOK, MutexProtects, WriterMutexFree, HoldsWriterMutex
<1>3. NewestStreamServes'
  BY NoWriterAssumption DEF TypeOK, NewestStreamServes, MutexProtects
<1>4. /\ IdsAreOwned' /\ FreshIsOpen' /\ UnsentIsUnseen' /\ PendingIsOwned'
      /\ OutcomeIsCaused'
  BY DEF IdsAreOwned, Busy, FreshIsOpen, UnsentIsUnseen, Unseen, PendingIsOwned,
     OutcomeIsCaused
<1> QED
  BY <1>1, <1>2, <1>3, <1>4

\* An answer, whoever gives it, sets the promise of a caller that alone owns it.
LEMMA FulfillKeepsCore ==
    ASSUME DispatcherCore, NEW id \in Ids, NEW status \in Answers, Fulfill(id, status),
           UNCHANGED <<callerVars, streamVars, inflight, received, outcome>>
    PROVE  DispatcherCore'
<1> USE DEF DispatcherCore, Fulfill, callerVars, streamVars
<1>1. TypeOK'
  BY DEF TypeOK
<1>2. IdsAreOwned' /\ UnsentIsUnseen' /\ MutexProtects' /\ NewestStreamServes'
  BY DEF IdsAreOwned, Busy, UnsentIsUnseen, Unseen, MutexProtects, NewestStreamServes
<1>3. CASE id \in pending_
  <2>1. /\ pending_' = pending_ \ {id}
        /\ promise' = [promise EXCEPT ![id] = status]
        /\ UNCHANGED <<pc, command_id, next_id_, outcome>>
    BY <1>3
  <2>2. PICK o \in Callers : pc[o] \in Registered /\ command_id[o] = id
    BY <1>3 DEF PendingIsOwned
  <2>3. id < next_id_ /\ \A t \in Callers : Busy(t) /\ command_id[t] = id => t = o
    BY <2>2 DEF IdsAreOwned, Busy, Registered
  <2>4. FreshIsOpen'
    BY <2>1, <2>2, <2>3 DEF TypeOK, FreshIsOpen, Busy, Ids, Registered, IdsAreOwned
  <2>5. ASSUME NEW t \in Callers, pc[t] \in Registered,
               promise'[command_id[t]] = NoStatus
        PROVE  command_id[t] \in pending_'
    <3>1. command_id[t] \in Ids
      BY <2>5 DEF IdsAreOwned, Busy, Registered
    <3>2. command_id[t] # id
      BY <2>1, <2>5, NoStatusAssumption DEF TypeOK, Statuses
    <3> QED
      BY <2>1, <2>5, <3>1, <3>2 DEF TypeOK, PendingIsOwned
  <2>6. ASSUME NEW i \in pending_'
        PROVE  \E t \in Callers : /\ pc[t] \in Registered
                                  /\ command_id[t] = i
                                  /\ promise'[i] = NoStatus
    BY <2>1 DEF TypeOK, PendingIsOwned
  <2>7. OutcomeIsCaused'
    BY <2>1, <2>2 DEF TypeOK, OutcomeIsCaused, Unseen, IdsAreOwned, Busy, Registered
  <2> QED
    BY <1>1, <1>2, <2>1, <2>4, <2>5, <2>6, <2>7 DEF PendingIsOwned
<1>4. CASE id \notin pending_
  BY <1>1, <1>2, <1>4 DEF FreshIsOpen, PendingIsOwned, OutcomeIsCaused, Unseen
<1> QED
  BY <1>3, <1>4

\* Only a written command can be delivered.
LEMMA DeliverKeepsCore ==
    ASSUME DispatcherCore, NEW id \in Ids, NEW w \in Writers, Deliver(id, w)
    PROVE  DispatcherCore'
<1> USE DEF DispatcherCore, Deliver, callerVars, streamVars
<1>1. UnsentIsUnseen'
  BY DEF TypeOK, UnsentIsUnseen, Unseen, IdsAreOwned, Busy
<1>2. OutcomeIsCaused'
  BY DEF TypeOK, OutcomeIsCaused, Unseen
<1>3. /\ TypeOK' /\ IdsAreOwned' /\ FreshIsOpen' /\ PendingIsOwned' /\ MutexProtects'
      /\ NewestStreamServes'
  BY DEF TypeOK, IdsAreOwned, Busy, FreshIsOpen, PendingIsOwned, MutexProtects,
     NewestStreamServes
<1> QED
  BY <1>1, <1>2, <1>3

\* Every step of the dispatcher, its streams and its client keeps the core.
LEMMA NextKeepsCore == DispatcherCore /\ [Next]_vars => DispatcherCore'
<1> SUFFICES ASSUME DispatcherCore, [Next]_vars PROVE DispatcherCore'
  OBVIOUS
<1>1. CASE ClientStep
  BY <1>1, DeliverKeepsCore, FulfillKeepsCore DEF ClientStep, RespondToCommand
<1>2. CASE UNCHANGED vars
  BY <1>2 DEF vars, DispatcherCore, TypeOK, IdsAreOwned, Busy, FreshIsOpen,
     UnsentIsUnseen, Unseen, PendingIsOwned, MutexProtects, NewestStreamServes,
     OutcomeIsCaused
<1> QED
  BY <1>1, <1>2, DispatchKeepsCore, StreamKeepsCore DEF Next

\* A process starts with no command, no stream and no promise.
LEMMA InitEstablishesCore == Init => DispatcherCore
  BY MaxCommandsAssumption, NoWriterAssumption DEF Init, DispatcherCore, TypeOK,
     Ids, Places, IdsAreOwned, Busy, FreshIsOpen, UnsentIsUnseen, Unseen,
     PendingIsOwned, Registered, MutexProtects, HoldsWriterMutex, NewestStreamServes,
     OutcomeIsCaused

-----------------------------------------------------------------------------
(* What answers are worth *)

\* What is received but not settled is pending: its caller has written it.
LEMMA ReceivedIsPending ==
    ASSUME DispatcherCore, NEW id \in Ids, id \in received,
           promise[id] = NoStatus, outcome[id] = NoStatus
    PROVE  id \in pending_
<1>1. id < next_id_
  BY MaxCommandsAssumption DEF DispatcherCore, TypeOK, UnsentIsUnseen, Unseen, Ids
<1>2. PICK t \in Callers : Busy(t) /\ command_id[t] = id
  BY <1>1 DEF DispatcherCore, IdsAreOwned
<1>3. pc[t] \in Registered
  BY <1>2 DEF DispatcherCore, TypeOK, UnsentIsUnseen, Unseen, Busy, Places, Registered
<1> QED
  BY <1>2, <1>3 DEF DispatcherCore, PendingIsOwned

\* No step takes an accepted answer or a returned outcome back.
LEMMA NextKeepsAnswers ==
    ASSUME DispatcherCore, [Next]_vars
    PROVE  \A id \in Ids :
            /\ promise[id] # NoStatus => promise'[id] = promise[id]
            /\ outcome[id] # NoStatus => outcome'[id] = outcome[id]
<1> DEFINE Kept == \A id \in Ids :
        /\ promise[id] # NoStatus => promise'[id] = promise[id]
        /\ outcome[id] # NoStatus => outcome'[id] = outcome[id]
<1>1. ASSUME NEW t \in Callers, NEW status, Busy(t), UNCHANGED promise,
             outcome' = [outcome EXCEPT ![command_id[t]] = status]
      PROVE  Kept
  BY <1>1 DEF DispatcherCore, TypeOK, IdsAreOwned
<1>2. ASSUME NEW t \in Callers, DispatchStep(t) PROVE Kept
  BY <1>1, <1>2 DEF DispatchStep, Busy, AssignId, InsertPending, LockWriter,
     RejectNoWriter, WriteSucceeds, WriteFails, FailWrite, ReturnAnswer,
     WaitTimesOut, Expire, EraseAndReturn
<1>3. ASSUME NEW w \in Writers, StreamStep(w) PROVE Kept
  BY <1>3 DEF StreamStep, OpenStream, RegisterWriter, CancelStream, ReleaseToken
<1>4. ASSUME NEW id \in Ids, NEW status \in Answers, RespondToCommand(id, status)
      PROVE  Kept
  BY <1>4 DEF DispatcherCore, TypeOK, PendingIsOwned, RespondToCommand, Fulfill
<1>5. CASE ClientStep
  BY <1>4, <1>5 DEF ClientStep, Deliver
<1> QED
  BY <1>2, <1>3, <1>5 DEF Next, vars

\* What no step but RespondToCommand() does to answers.
LEMMA NextAnswers ==
    ASSUME DispatcherCore, [Next]_vars
    PROVE  \/ \E id \in Ids, status \in Answers : RespondToCommand(id, status)
           \/ UNCHANGED <<promise, refused>> /\ received \subseteq received'
<1>1. ASSUME NEW t \in Callers, DispatchStep(t) PROVE UNCHANGED <<promise, clientVars>>
  BY <1>1 DEF DispatchStep, AssignId, InsertPending, LockWriter, RejectNoWriter,
     WriteSucceeds, WriteFails, FailWrite, ReturnAnswer, WaitTimesOut, Expire,
     EraseAndReturn, clientVars
<1>2. ASSUME NEW w \in Writers, StreamStep(w) PROVE UNCHANGED <<promise, clientVars>>
  BY <1>2 DEF StreamStep, OpenStream, RegisterWriter, CancelStream, ReleaseToken,
     clientVars
<1> QED
  BY <1>1, <1>2 DEF Next, ClientStep, Deliver, vars, clientVars

\* Every step of the dispatcher, its streams and its client preserves the
\* inductive invariant of one process.
LEMMA NextPreserves == DispatcherInv /\ [Next]_vars => DispatcherInv'
<1> SUFFICES ASSUME DispatcherInv, [Next]_vars PROVE DispatcherInv'
  OBVIOUS
<1>1. DispatcherCore'
  BY NextKeepsCore DEF DispatcherInv
<1>2. CASE \E id \in Ids, status \in Answers : RespondToCommand(id, status)
  <2>1. PICK id \in Ids, status \in Answers : RespondToCommand(id, status)
    BY <1>2
  <2>2. AnsweredWasReceived'
    BY <2>1 DEF DispatcherInv, DispatcherCore, TypeOK, AnsweredWasReceived,
       RespondToCommand, Fulfill
  <2>3. id \notin pending_ => promise[id] # NoStatus \/ outcome[id] # NoStatus
    BY <2>1, ReceivedIsPending DEF DispatcherInv, RespondToCommand
  <2>4. RefusedIsSettled'
    BY <2>1, <2>3, NoStatusAssumption DEF DispatcherInv, DispatcherCore, TypeOK,
       RespondToCommand, Fulfill, RefusedIsSettled, Statuses
  <2> QED
    BY <1>1, <2>2, <2>4 DEF DispatcherInv
<1>3. CASE UNCHANGED <<promise, refused>> /\ received \subseteq received'
  <2>1. RefusedIsSettled'
    BY <1>3, NextKeepsAnswers DEF DispatcherInv, DispatcherCore, TypeOK, RefusedIsSettled
  <2> QED
    BY <1>1, <1>3, <2>1 DEF DispatcherInv, AnsweredWasReceived
<1> QED
  BY <1>2, <1>3, NextAnswers DEF DispatcherInv

LEMMA InitEstablishes == Init => DispatcherInv
  BY InitEstablishesCore DEF Init, DispatcherInv, AnsweredWasReceived, RefusedIsSettled

-----------------------------------------------------------------------------
(* Theorems about one process *)

\* The inductive invariant holds in every reachable state.
THEOREM DispatcherInvariant == Spec => []DispatcherInv
  BY InitEstablishes, NextPreserves, PTL DEF Spec

\* Every variable keeps its type through dispatch(), registerWriter(),
\* release(), fulfill() and whatever the client does.
THEOREM TypeCorrect == Spec => []TypeOK
<1>1. DispatcherInv => TypeOK
  BY DEF DispatcherInv, DispatcherCore
<1> QED
  BY <1>1, DispatcherInvariant, PTL

\* No leak in pending_ and no promise withdrawn early, on any path of
\* dispatch(), for any number of concurrent commands.
THEOREM PendingCorrect == Spec => []PendingIsInFlight
<1>1. DispatcherInv => PendingIsInFlight
  BY DEF DispatcherInv, DispatcherCore, PendingIsOwned, PendingIsInFlight
<1> QED
  BY <1>1, DispatcherInvariant, PTL

\* dispatch() sends on the newest stream and on no other, and never on a
\* writer whose handler has returned.
THEOREM NewestStreamCorrect == Spec => []NewestStreamServes
<1>1. DispatcherInv => NewestStreamServes
  BY DEF DispatcherInv, DispatcherCore
<1> QED
  BY <1>1, DispatcherInvariant, PTL

\* writer_mutex_ keeps two Write() calls apart and the writer alive during one.
THEOREM WritesCorrect == Spec => []WritesAreSafe
<1>1. DispatcherInv => WritesAreSafe
  BY NoWriterAssumption DEF DispatcherInv, DispatcherCore, MutexProtects,
     NewestStreamServes, HoldsWriterMutex, WritesAreSafe
<1> QED
  BY <1>1, DispatcherInvariant, PTL

\* What SCADA is told is the accepted answer or a failure of the dispatcher's
\* own, after which no answer is accepted.
THEOREM OutcomeCorrect == Spec => []OutcomeIsExplained
<1>1. DispatcherInv => OutcomeIsExplained
  BY DEF DispatcherInv, DispatcherCore, AnsweredWasReceived, OutcomeIsExplained,
     OutcomeIsCaused, Unseen, PendingIsOwned, IdsAreOwned, Busy, Registered, TypeOK
<1> QED
  BY <1>1, DispatcherInvariant, PTL

\* fulfill() refuses no answer to a command that is still open.
THEOREM RefusedCorrect == Spec => []RefusedIsSettled
<1>1. DispatcherInv => RefusedIsSettled
  BY DEF DispatcherInv
<1> QED
  BY <1>1, DispatcherInvariant, PTL

\* No step overwrites an accepted answer or a returned outcome.
THEOREM AnswersFinal == Spec => AnswersAreFinal
<1> DEFINE Final == \A id \in Ids :
        /\ promise[id] # NoStatus => promise'[id] = promise[id]
        /\ outcome[id] # NoStatus => outcome'[id] = outcome[id]
<1>1. DispatcherInv /\ [Next]_vars => [Final]_<<promise, outcome>>
  BY NextKeepsAnswers DEF DispatcherInv
<1> QED
  BY <1>1, DispatcherInvariant, PTL DEF Spec, AnswersAreFinal

-----------------------------------------------------------------------------
(* The dispatcher across restarts *)

\* A new process begins as the first one did.
LEMMA RestartKeepsCore == Restart => DispatcherCore'
<1>1. Restart => Init'
  BY DEF Restart, Init
<1>2. Init' => DispatcherCore'
  BY InitEstablishesCore, PTL
<1> QED
  BY <1>1, <1>2

\* A stale answer sets no promise but that of a pending command.
LEMMA StaleAnswerKeepsAnswers ==
    ASSUME DispatcherCore, NEW id \in Ids, NEW status \in Answers,
           RespondToStaleCommand(id, status)
    PROVE  \A i \in Ids :
            /\ promise[i] # NoStatus => promise'[i] = promise[i]
            /\ outcome[i] # NoStatus => outcome'[i] = outcome[i]
BY DEF DispatcherCore, TypeOK, PendingIsOwned, RespondToStaleCommand, Fulfill

LEMMA RestartPreserves == RestartInv /\ [RestartNext]_restartVars => RestartInv'
<1> SUFFICES ASSUME RestartInv, [RestartNext]_restartVars PROVE RestartInv'
  OBVIOUS
<1> USE DEF RestartInv
<1>1. CASE [Next]_vars /\ UNCHANGED <<restarts, stale, crossed>>
  <2>1. DispatcherCore'
    BY <1>1, NextKeepsCore
  <2>2. CASE \E id \in Ids, status \in Answers : RespondToCommand(id, status)
    <3>1. PICK id \in Ids, status \in Answers : RespondToCommand(id, status)
      BY <2>2
    <3>2. AnsweredWasReceivedOrCrossed'
      BY <1>1, <3>1 DEF DispatcherCore, TypeOK, AnsweredWasReceivedOrCrossed,
         RespondToCommand, Fulfill
    <3>3. id \notin pending_ => promise[id] # NoStatus \/ outcome[id] # NoStatus
      BY <3>1, ReceivedIsPending DEF RespondToCommand
    <3>4. RefusedIsSettledOrStale'
      BY <1>1, <3>1, <3>3, NoStatusAssumption DEF DispatcherCore, TypeOK,
         RespondToCommand, Fulfill, RefusedIsSettledOrStale, Statuses
    <3> QED
      BY <1>1, <2>1, <3>2, <3>4
  <2>3. CASE UNCHANGED <<promise, refused>> /\ received \subseteq received'
    <3>1. RefusedIsSettledOrStale'
      BY <1>1, <2>3, NextKeepsAnswers DEF DispatcherCore, TypeOK, RefusedIsSettledOrStale
    <3> QED
      BY <1>1, <2>1, <2>3, <3>1 DEF AnsweredWasReceivedOrCrossed
  <2> QED
    BY <1>1, <2>2, <2>3, NextAnswers
<1>2. CASE Restart
  <2>1. restarts' \in Nat /\ AnsweredWasReceivedOrCrossed' /\ RefusedIsSettledOrStale'
    BY <1>2 DEF Restart, AnsweredWasReceivedOrCrossed, RefusedIsSettledOrStale
  <2> QED
    BY <1>2, <2>1, RestartKeepsCore
<1>3. ASSUME NEW id \in Ids, NEW status \in Answers, RespondToStaleCommand(id, status)
      PROVE  RestartInv'
  <2>1. DispatcherCore'
    BY <1>3, FulfillKeepsCore DEF RespondToStaleCommand
  <2>2. AnsweredWasReceivedOrCrossed'
    BY <1>3 DEF DispatcherCore, TypeOK, AnsweredWasReceivedOrCrossed,
       RespondToStaleCommand, Fulfill
  <2>3. RefusedIsSettledOrStale'
    BY <1>3, NoStatusAssumption DEF DispatcherCore, TypeOK, RespondToStaleCommand,
       Fulfill, RefusedIsSettledOrStale, Statuses
  <2> QED
    BY <1>3, <2>1, <2>2, <2>3 DEF RespondToStaleCommand
<1> QED
  BY <1>1, <1>2, <1>3 DEF RestartNext, restartVars

\* The inductive invariant of the restarted dispatcher holds in every reachable
\* state.
THEOREM RestartInvariant == RestartSpec => []RestartInv
<1>1. RestartInit => RestartInv
  BY InitEstablishesCore DEF RestartInit, RestartInv, Init,
     AnsweredWasReceivedOrCrossed, RefusedIsSettledOrStale
<1> QED
  BY <1>1, RestartPreserves, PTL DEF RestartSpec

\* However often the process is killed and whatever the client still answers of
\* its commands, dispatch() leaks no promise and withdraws none early, sends on
\* the newest stream of the present process, and never calls Write() twice at a
\* time or on a writer that is gone.
THEOREM RestartsAreSafe ==
    RestartSpec => [](PendingIsInFlight /\ NewestStreamServes /\ WritesAreSafe)
<1>1. RestartInv => PendingIsInFlight
  BY DEF RestartInv, DispatcherCore, PendingIsOwned, PendingIsInFlight
<1>2. RestartInv => NewestStreamServes /\ WritesAreSafe
  BY NoWriterAssumption DEF RestartInv, DispatcherCore, MutexProtects,
     NewestStreamServes, HoldsWriterMutex, WritesAreSafe
<1> QED
  BY <1>1, <1>2, RestartInvariant, PTL

\* What SCADA is told is explained in every process: by an answer that
\* fulfill() accepted, or by a failure after which it accepts none.  A command
\* reported NOT_SUPPORTED never left the process, and if it has an answer all
\* the same, that was one to a command of an earlier process.
THEOREM OutcomeAcrossRestarts == RestartSpec => []OutcomeIsExplainedOrCrossed
<1>1. RestartInv => OutcomeIsExplainedOrCrossed
  BY DEF RestartInv, DispatcherCore, TypeOK, AnsweredWasReceivedOrCrossed,
     OutcomeIsExplainedOrCrossed, OutcomeIsCaused, Unseen, PendingIsOwned,
     IdsAreOwned, Busy, Registered
<1> QED
  BY <1>1, RestartInvariant, PTL

\* fulfill() refuses no answer to an open command of its own process.
THEOREM RefusedAcrossRestarts == RestartSpec => []RefusedIsSettledOrStale
<1>1. RestartInv => RefusedIsSettledOrStale
  BY DEF RestartInv
<1> QED
  BY <1>1, RestartInvariant, PTL

\* Nothing but a restart takes an accepted answer or a returned outcome back; a
\* stale answer overwrites neither.
THEOREM AnswersFinalUntilRestart == RestartSpec => AnswersAreFinalUntilRestart
<1> DEFINE Final == restarts' = restarts =>
        \A id \in Ids :
            /\ promise[id] # NoStatus => promise'[id] = promise[id]
            /\ outcome[id] # NoStatus => outcome'[id] = outcome[id]
<1>1. RestartInv /\ [RestartNext]_restartVars => [Final]_restartVars
  <2> SUFFICES ASSUME RestartInv, RestartNext, restarts' = restarts PROVE Final
    BY DEF restartVars
  <2>1. CASE Next
    BY <2>1, NextKeepsAnswers DEF RestartInv
  <2>2. CASE Restart
    BY <2>2 DEF Restart, RestartInv
  <2>3. ASSUME NEW id \in Ids, NEW status \in Answers, RespondToStaleCommand(id, status)
        PROVE  Final
    BY <2>3, StaleAnswerKeepsAnswers DEF RestartInv
  <2> QED
    BY <2>1, <2>2, <2>3 DEF RestartNext
<1> QED
  BY <1>1, RestartInvariant, PTL DEF RestartSpec, AnswersAreFinalUntilRestart

=============================================================================
