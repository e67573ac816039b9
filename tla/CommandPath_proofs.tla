-------------------------- MODULE CommandPath_proofs --------------------------
(***************************************************************************)
(* Theorems about CommandPath, for any streams, commands, faults and       *)
(* bounds.  Each lemma shows that one kind of step preserves PathInv.      *)
(***************************************************************************)
EXTENDS CommandPath, CommandDispatcher_proofs, FiniteSetTheorems

\* What the steps of the two threads that look at commands do not touch.
coreVars == <<command_mode, tasks, results, awaited, requests, operating, forwarded,
              seen, next_id_, pc, command_id, outcome>>

\* Nothing that the order of commands depends on changes.
LEMMA CoreUnchanged ==
    ASSUME PathInv, UNCHANGED coreVars
    PROVE  /\ RequestsInOrder' /\ ForwardedInOrder' /\ SeenInOrder'
           /\ NotSent' <=> NotSent
           /\ \A n : NotRefused(n)' <=> NotRefused(n)
<1>1. /\ command_mode' = command_mode /\ tasks' = tasks /\ results' = results
      /\ awaited' = awaited /\ requests' = requests /\ operating' = operating
      /\ forwarded' = forwarded /\ seen' = seen /\ next_id_' = next_id_ /\ pc' = pc
      /\ command_id' = command_id /\ outcome' = outcome
  BY DEF coreVars
<1>2. /\ NotSent' <=> NotSent
      /\ \A n : NotRefused(n)' <=> NotRefused(n)
      /\ \A n : Begun(n)' <=> Begun(n)
      /\ \A f : Genuine(f)' <=> Genuine(f)
  BY <1>1 DEF NotSent, NotRefused, Begun, Genuine, Running
<1>3. RequestsInOrder'
  BY <1>1, <1>2 DEF PathInv, RequestsInOrder, Running
<1>4. ForwardedInOrder'
  BY <1>1, <1>2 DEF PathInv, ForwardedInOrder
<1>5. SeenInOrder'
  BY <1>1, <1>2 DEF PathInv, SeenInOrder
<1> QED
  BY <1>2, <1>3, <1>4, <1>5

LEMMA PathInitEstablishes == PathInit => PathInv
<1> SUFFICES ASSUME PathInit PROVE PathInv
  OBVIOUS
<1> USE DEF PathInit, RestartInit, Init
<1>1. PathTypes
  BY OneCaller, MaxCommandsAssumption DEF PathTypes, Ids, Places
<1>2. RequestsInOrder /\ SeenInOrder
  BY DEF RequestsInOrder, SeenInOrder
<1>3. ForwardedInOrder
  BY OneCaller DEF ForwardedInOrder
<1>4. OnTheWire
  BY DEF OnTheWire
<1>5. AnswersAreOurs
  BY OneCaller DEF AnswersAreOurs, SuccessIsTheClientsAnswer, NotSent
<1>6. DialoguesAccount
  <2>1. OwnTasks = {}
    BY DEF OwnTasks
  <2> QED
    BY <2>1, FS_EmptySet DEF DialoguesAccount
<1> QED
  BY <1>1, <1>2, <1>3, <1>4, <1>5, <1>6 DEF PathInv

\* The steps of the user interface and of timers change neither a command nor a
\* stream.
LEMMA QuietKeeps ==
    ASSUME PathInv, opened' \in Nat,
           UNCHANGED <<command_mode, masterVars, requests, operating, forwarded,
                       listenerVars, vars>>
    PROVE  /\ PathTypes' /\ RequestsInOrder' /\ ForwardedInOrder' /\ OnTheWire'
           /\ SeenInOrder' /\ AnswersAreOurs' /\ OwnTasks' = OwnTasks
<1>1. /\ UNCHANGED coreVars
      /\ hears' = hears /\ listened' = listened /\ holding' = holding
      /\ confirmed' = confirmed
      /\ promise' = promise /\ pending_' = pending_ /\ stream' = stream
      /\ active_writer_' = active_writer_ /\ cancelled' = cancelled
      /\ inflight' = inflight
  BY DEF coreVars, masterVars, listenerVars, vars
<1>2. /\ command_mode' = command_mode /\ tasks' = tasks /\ results' = results
      /\ awaited' = awaited /\ requests' = requests /\ operating' = operating
      /\ forwarded' = forwarded /\ seen' = seen /\ next_id_' = next_id_ /\ pc' = pc
      /\ command_id' = command_id /\ outcome' = outcome
  BY <1>1 DEF coreVars
<1>3. PathTypes'
  BY <1>1, <1>2 DEF PathInv, PathTypes
<1>4. /\ RequestsInOrder' /\ ForwardedInOrder' /\ SeenInOrder'
      /\ NotSent' <=> NotSent
      /\ \A n : NotRefused(n)' <=> NotRefused(n)
  BY <1>1, CoreUnchanged
<1>5. OnTheWire'
  BY <1>1, <1>2, <1>4 DEF PathInv, OnTheWire
<1>6. AnswersAreOurs'
  BY <1>1, <1>2, <1>4 DEF PathInv, AnswersAreOurs, NoStream, SuccessIsTheClientsAnswer
<1>7. OwnTasks' = OwnTasks
  BY <1>2 DEF OwnTasks
<1> QED
  BY <1>3, <1>4, <1>5, <1>6, <1>7

LEMMA DialogueKeeps ==
    ASSUME PathInv,
           \/ \E dialogue \in {"crob", "analog"} : OpenDialogue(dialogue) \/ Escape(dialogue)
           \/ Redraw \/ SelectExpires
    PROVE  PathInv'
<1> USE DEF restartVars, outstationVars
<1>1. /\ UNCHANGED <<command_mode, masterVars, requests, operating, forwarded,
                     listenerVars, vars>>
      /\ \/ modal = "none" /\ opened' = opened + 1
         \/ modal' \in {modal, "none"} /\ opened' = opened
  BY DEF OpenDialogue, Escape, CloseDialogue, Redraw, SelectExpires, uiVars
<1>2. opened \in Nat /\ IsFiniteSet(OwnTasks) /\ Cardinality(OwnTasks) \in Nat
      /\ Cardinality(OwnTasks) + (IF modal = "none" THEN 0 ELSE 1) <= opened
  BY FS_CardinalityType DEF PathInv, PathTypes, DialoguesAccount
<1>3. opened' \in Nat
  BY <1>1, <1>2
<1>4. /\ PathTypes' /\ RequestsInOrder' /\ ForwardedInOrder' /\ OnTheWire'
      /\ SeenInOrder' /\ AnswersAreOurs' /\ OwnTasks' = OwnTasks
  BY <1>1, <1>3, QuietKeeps
<1>5. DialoguesAccount'
  BY <1>1, <1>2, <1>4 DEF DialoguesAccount
<1> QED
  BY <1>4, <1>5 DEF PathInv

\* A command given to a master starts nothing by itself.
LEMMA SubmitKeeps ==
    ASSUME PathInv, NEW style \in {"select", "direct"}, NEW command \in Commands,
           Submit(style, command)
    PROVE  /\ RequestsInOrder' /\ ForwardedInOrder' /\ OnTheWire' /\ SeenInOrder'
           /\ AnswersAreOurs'
           /\ opened' \in Nat => PathTypes'
           /\ tasks' = Append(tasks, [style |-> style, command |-> command])
<1>1. /\ command_mode' = command_mode /\ results' = results
      /\ awaited' = awaited /\ requests' = requests /\ operating' = operating
      /\ forwarded' = forwarded /\ seen' = seen /\ next_id_' = next_id_ /\ pc' = pc
      /\ command_id' = command_id /\ outcome' = outcome
      /\ hears' = hears /\ listened' = listened /\ holding' = holding
      /\ confirmed' = confirmed
      /\ promise' = promise /\ pending_' = pending_ /\ stream' = stream
      /\ active_writer_' = active_writer_ /\ cancelled' = cancelled
      /\ inflight' = inflight
      /\ tasks' = Append(tasks, [style |-> style, command |-> command])
  BY DEF Submit, outstationVars, listenerVars, restartVars, vars
<1>2. /\ PathTypes /\ RequestsInOrder /\ ForwardedInOrder /\ OnTheWire /\ SeenInOrder
      /\ AnswersAreOurs
  BY DEF PathInv
<1>3. tasks \in Seq(TaskSet)
  BY <1>2 DEF PathTypes
<1>4. /\ tasks' \in Seq(TaskSet)
      /\ DOMAIN tasks \subseteq DOMAIN tasks'
      /\ \A n \in DOMAIN tasks : tasks'[n] = tasks[n]
  <2>1. [style |-> style, command |-> command] \in TaskSet
    BY DEF TaskSet
  <2> QED
    BY <1>1, <1>3, <2>1
<1>5. /\ NotSent' <=> NotSent
      /\ \A n : NotRefused(n)' <=> NotRefused(n)
      /\ \A n : Begun(n) => Begun(n)'
      /\ \A f : Genuine(f) => Genuine(f)'
  BY <1>1, <1>4 DEF NotSent, NotRefused, Begun, Genuine, Running
<1>6. RequestsInOrder'
  <2>1. awaited' # "none" => Running' \in DOMAIN tasks'
    BY <1>1, <1>2, <1>4 DEF RequestsInOrder, Running
  <2>2. ASSUME NEW k \in DOMAIN requests
        PROVE  /\ Begun(requests[k].n)' /\ NotRefused(requests[k].n)'
               /\ requests[k].command = tasks'[requests[k].n].command
               /\ requests[k].func = "direct" <=> tasks'[requests[k].n].style = "direct"
    BY <1>1, <1>2, <1>4, <1>5 DEF RequestsInOrder, Begun
  <2> QED
    BY <1>1, <1>2, <2>1, <2>2 DEF RequestsInOrder
<1>7. ForwardedInOrder'
  BY <1>1, <1>2, <1>5 DEF ForwardedInOrder
<1>8. OnTheWire'
  BY <1>1, <1>2, <1>5 DEF OnTheWire
<1>9. SeenInOrder'
  BY <1>1, <1>2, <1>5 DEF SeenInOrder
<1>10. AnswersAreOurs'
  BY <1>1, <1>2, <1>5 DEF AnswersAreOurs, NoStream, SuccessIsTheClientsAnswer
<1>11. opened' \in Nat => PathTypes'
  BY <1>1, <1>2, <1>4 DEF PathTypes
<1> QED
  BY <1>1, <1>6, <1>7, <1>8, <1>9, <1>10, <1>11

\* The dialogue that sends a command is closed by it; another master's command
\* is not the operator's.
LEMMA CommandsSubmitted ==
    ASSUME PathInv, SendCrob \/ SendAnalog \/ OtherMaster
    PROVE  PathInv'
<1>1. /\ opened \in Nat /\ IsFiniteSet(OwnTasks) /\ Cardinality(OwnTasks) \in Nat
      /\ Cardinality(OwnTasks) + (IF modal = "none" THEN 0 ELSE 1) <= opened
      /\ tasks \in Seq(TaskSet)
  BY FS_CardinalityType DEF PathInv, PathTypes, DialoguesAccount
<1>2. CASE OtherMaster
  <2>1. PICK task \in OtherTasks : Submit(task.style, task.command)
    BY <1>2 DEF OtherMaster
  <2>2. /\ task.style \in {"select", "direct"} /\ task.command \in Commands
        /\ task = [style |-> task.style, command |-> task.command]
    BY TasksAssumption DEF Commands
  <2>3. opened' = opened /\ modal' = modal
    BY <1>2 DEF OtherMaster, uiVars
  <2>4. /\ RequestsInOrder' /\ ForwardedInOrder' /\ OnTheWire' /\ SeenInOrder'
        /\ AnswersAreOurs' /\ PathTypes' /\ tasks' = Append(tasks, task)
    BY <1>1, <2>1, <2>2, <2>3, SubmitKeeps
  <2>5. OwnTasks' = OwnTasks
    BY <1>1, <2>4 DEF OwnTasks
  <2>6. DialoguesAccount'
    BY <1>1, <2>3, <2>5 DEF DialoguesAccount
  <2> QED
    BY <2>4, <2>6 DEF PathInv
<1>3. CASE SendCrob \/ SendAnalog
  <2>1. modal # "none" /\ modal' = "none" /\ opened' = opened
    BY <1>3 DEF SendCrob, SendAnalog, CloseDialogue, Reaches
  <2>2. CASE UNCHANGED <<command_mode, masterVars, outstationVars, listenerVars,
                         restartVars>>
    <3>1. /\ PathTypes' /\ RequestsInOrder' /\ ForwardedInOrder' /\ OnTheWire'
          /\ SeenInOrder' /\ AnswersAreOurs' /\ OwnTasks' = OwnTasks
      BY <1>1, <2>1, <2>2, QuietKeeps DEF outstationVars, restartVars
    <3>2. DialoguesAccount'
      BY <1>1, <2>1, <3>1 DEF DialoguesAccount
    <3> QED
      BY <3>1, <3>2 DEF PathInv
  <2>3. CASE \E style \in {"select", "direct"}, command \in Commands : Submit(style, command)
    <3>1. PICK style \in {"select", "direct"}, command \in Commands : Submit(style, command)
      BY <2>3
    <3>2. /\ RequestsInOrder' /\ ForwardedInOrder' /\ OnTheWire' /\ SeenInOrder'
          /\ AnswersAreOurs' /\ PathTypes'
          /\ tasks' = Append(tasks, [style |-> style, command |-> command])
      BY <1>1, <2>1, <3>1, SubmitKeeps
    <3>3. OwnTasks' \subseteq OwnTasks \cup {Len(tasks) + 1}
      BY <1>1, <3>2 DEF OwnTasks
    <3>4. /\ IsFiniteSet(OwnTasks \cup {Len(tasks) + 1})
          /\ Cardinality(OwnTasks \cup {Len(tasks) + 1}) <= Cardinality(OwnTasks) + 1
      <4>1. ASSUME NEW x PROVE /\ IsFiniteSet(OwnTasks \cup {x})
                               /\ Cardinality(OwnTasks \cup {x}) <= Cardinality(OwnTasks) + 1
        <5>1. /\ IsFiniteSet(OwnTasks \cup {x})
              /\ Cardinality(OwnTasks \cup {x}) =
                    IF x \in OwnTasks THEN Cardinality(OwnTasks)
                    ELSE Cardinality(OwnTasks) + 1
          BY <1>1, FS_AddElement
        <5> QED
          BY <1>1, <5>1
      <4> QED
        BY <4>1
    <3>5. IsFiniteSet(OwnTasks') /\ Cardinality(OwnTasks') <= Cardinality(OwnTasks) + 1
          /\ Cardinality(OwnTasks') \in Nat
      BY <1>1, <3>3, <3>4, FS_Subset, FS_CardinalityType
    <3>6. DialoguesAccount'
      BY <1>1, <2>1, <3>5 DEF DialoguesAccount
    <3> QED
      BY <3>2, <3>6 DEF PathInv
  <2> QED
    BY <1>3, <2>2, <2>3 DEF SendCrob, SendAnalog, Commands
<1> QED
  BY <1>2, <1>3

-----------------------------------------------------------------------------
(* Streams and the client *)

\* Streams come and go, and what they carry is only ever lost.
LEMMA StreamsKeep ==
    ASSUME PathInv, NEW w \in Writers,
           OpenStreamAgain(w) \/ NoticeLeft(w) \/ RegisterStep(w) \/ ReleaseStep(w)
    PROVE  PathInv'
<1> USE DEF OpenStreamAgain, NoticeLeft, RegisterStep, ReleaseStep, OpenStream,
            CancelStream, RegisterWriter, ReleaseToken
<1>1. /\ command_mode' = command_mode /\ tasks' = tasks /\ results' = results
      /\ awaited' = awaited /\ requests' = requests /\ operating' = operating
      /\ forwarded' = forwarded /\ seen' = seen /\ next_id_' = next_id_ /\ pc' = pc
      /\ command_id' = command_id /\ outcome' = outcome /\ opened' = opened
      /\ modal' = modal
      /\ holding' = holding /\ confirmed' = confirmed
      /\ promise' = promise /\ pending_' = pending_
  BY DEF pathVars, uiVars, masterVars, outstationVars, listenerVars, callerVars,
         clientVars
<1>2. UNCHANGED coreVars
  BY <1>1 DEF coreVars
<1>3. /\ PathTypes /\ OnTheWire /\ AnswersAreOurs /\ DialoguesAccount
      /\ RequestsInOrder' /\ ForwardedInOrder' /\ SeenInOrder'
      /\ NotSent' <=> NotSent
      /\ \A n : NotRefused(n)' <=> NotRefused(n)
  BY <1>2, CoreUnchanged DEF PathInv
<1>4. /\ inflight' \subseteq inflight
      /\ stream' \in [Writers -> {"free", "called", "open"}]
      /\ active_writer_' \in Writers \cup {NoWriter}
      /\ \/ hears' = hears /\ listened' = listened
         \/ /\ hears = NoWriter /\ hears' = w /\ listened'
            /\ listened => pc[Strand] \notin {"insert", "send"}
  BY <1>3 DEF PathTypes, pathVars, listenerVars, Paused, streamVars
<1>5. PathTypes'
  BY <1>1, <1>3, <1>4 DEF PathTypes
<1>6. OnTheWire'
  <2>1. CASE OpenStreamAgain(w)
    <3>1. /\ stream[w] = "free" /\ hears' = w
          /\ stream' = [stream EXCEPT ![w] = "called"]
          /\ inflight' = inflight /\ cancelled' = cancelled
          /\ active_writer_' = active_writer_
      BY <2>1
    <3>2. \A m \in inflight : m[2] \in Writers /\ m[2] # w
      BY <1>3, <3>1 DEF PathTypes, OnTheWire
    <3>3. active_writer_ # w
      BY <1>3, <3>1, NoWriterAssumption DEF OnTheWire
    <3> QED
      BY <1>1, <1>3, <3>1, <3>2, <3>3 DEF OnTheWire, PathTypes
  <2>2. CASE NoticeLeft(w)
    <3>1. /\ inflight' = {m \in inflight : m[2] # w} /\ cancelled' = cancelled \cup {w}
          /\ stream' = stream /\ active_writer_' = active_writer_ /\ hears' = hears
      BY <2>2 DEF pathVars, listenerVars
    <3> QED
      BY <1>1, <1>3, <3>1 DEF OnTheWire
  <2>3. CASE RegisterStep(w)
    <3>1. /\ inflight' = inflight /\ cancelled' = cancelled /\ hears' = hears
          /\ stream' = [stream EXCEPT ![w] = "open"] /\ active_writer_' = w
      BY <2>3 DEF pathVars, listenerVars
    <3> QED
      BY <1>1, <1>3, <3>1 DEF OnTheWire, PathTypes
  <2>4. CASE ReleaseStep(w)
    <3>1. /\ inflight' = inflight /\ cancelled' = cancelled \ {w} /\ hears' = hears
          /\ stream' = [stream EXCEPT ![w] = "free"] /\ w \in cancelled
          /\ active_writer_' = IF active_writer_ = w THEN NoWriter ELSE active_writer_
      BY <2>4 DEF pathVars, listenerVars
    <3>2. \A m \in inflight : m[2] \in Writers /\ m[2] # w
      BY <1>3, <3>1 DEF PathTypes, OnTheWire
    <3> QED
      BY <1>1, <1>3, <3>1, <3>2 DEF OnTheWire, PathTypes
  <2> QED
    BY <2>1, <2>2, <2>3, <2>4
<1>7. AnswersAreOurs'
  <2>1. (listened /\ pc[Strand] = "send") \/ hears # NoWriter => (NoStream => NoStream')
    BY <1>1, <1>3 DEF NoStream, Paused, PathTypes, pathVars, listenerVars
  <2>2. /\ hears # NoWriter => hears' # NoWriter
        /\ listened => listened'
        /\ hears' # NoWriter => listened'
    BY <1>3, <1>4 DEF AnswersAreOurs
  <2> QED
    BY <1>1, <1>3, <2>1, <2>2 DEF AnswersAreOurs, SuccessIsTheClientsAnswer
<1>8. DialoguesAccount'
  BY <1>1, <1>3 DEF DialoguesAccount, OwnTasks
<1> QED
  BY <1>3, <1>5, <1>6, <1>7, <1>8 DEF PathInv

\* The listener leaves a stream only between two commands.
LEMMA ListenerKeeps ==
    ASSUME PathInv, SkipAnswer \/ LeaveStream \/ StreamBreaks
    PROVE  PathInv'
<1> USE DEF SkipAnswer, LeaveStream, StreamBreaks
<1>1. /\ command_mode' = command_mode /\ tasks' = tasks /\ results' = results
      /\ awaited' = awaited /\ requests' = requests /\ operating' = operating
      /\ forwarded' = forwarded /\ seen' = seen /\ next_id_' = next_id_ /\ pc' = pc
      /\ command_id' = command_id /\ outcome' = outcome /\ opened' = opened
      /\ modal' = modal /\ confirmed' = confirmed
      /\ promise' = promise /\ pending_' = pending_ /\ stream' = stream
      /\ active_writer_' = active_writer_ /\ cancelled' = cancelled
      /\ inflight' = inflight
      /\ hears' \in {hears, NoWriter} /\ listened' = listened /\ holding' = Nothing
  BY DEF uiVars, masterVars, outstationVars, restartVars, vars
<1>2. UNCHANGED coreVars
  BY <1>1 DEF coreVars
<1>3. /\ PathTypes /\ OnTheWire /\ AnswersAreOurs /\ DialoguesAccount
      /\ RequestsInOrder' /\ ForwardedInOrder' /\ SeenInOrder'
      /\ NotSent' <=> NotSent
      /\ \A n : NotRefused(n)' <=> NotRefused(n)
  BY <1>2, CoreUnchanged DEF PathInv
<1>4. PathTypes'
  BY <1>1, <1>3 DEF PathTypes
<1>5. OnTheWire'
  BY <1>1, <1>3, NoWriterAssumption DEF OnTheWire, PathTypes
<1>6. AnswersAreOurs'
  BY <1>1, <1>3 DEF AnswersAreOurs, NoStream, SuccessIsTheClientsAnswer
<1>7. DialoguesAccount'
  BY <1>1, <1>3 DEF DialoguesAccount, OwnTasks
<1> QED
  BY <1>3, <1>4, <1>5, <1>6, <1>7 DEF PathInv

\* An answer completes the command being dispatched, which is the one answered
\* unless it will never be sent.
LEMMA AnswerKeeps ==
    ASSUME PathInv, AnswerCommand
    PROVE  PathInv'
<1> USE DEF AnswerCommand, RespondToCommand, RespondToStaleCommand, Fulfill
<1>1. /\ command_mode' = command_mode /\ tasks' = tasks /\ results' = results
      /\ awaited' = awaited /\ requests' = requests /\ operating' = operating
      /\ forwarded' = forwarded /\ seen' = seen /\ next_id_' = next_id_ /\ pc' = pc
      /\ command_id' = command_id /\ outcome' = outcome /\ opened' = opened
      /\ modal' = modal /\ confirmed' = confirmed \cup {holding.n}
      /\ stream' = stream /\ hears' = hears /\ listened' = listened
      /\ active_writer_' = active_writer_ /\ cancelled' = cancelled
      /\ inflight' = inflight /\ holding' = Nothing /\ holding # Nothing
  BY DEF uiVars, masterVars, outstationVars, callerVars, streamVars
<1>2. UNCHANGED coreVars
  BY <1>1 DEF coreVars
<1>3. /\ PathTypes /\ OnTheWire /\ AnswersAreOurs /\ DialoguesAccount /\ ForwardedInOrder
      /\ RequestsInOrder' /\ ForwardedInOrder' /\ SeenInOrder'
      /\ NotSent' <=> NotSent
      /\ \A n : NotRefused(n)' <=> NotRefused(n)
  BY <1>2, CoreUnchanged DEF PathInv
<1>4. \/ holding.id \in pending_ /\ promise' = [promise EXCEPT ![holding.id] = "SUCCESS"]
         /\ pending_' = pending_ \ {holding.id}
      \/ promise' = promise /\ pending_' = pending_
  OBVIOUS
<1>5. PathTypes'
  BY <1>1, <1>3, <1>4 DEF PathTypes
<1>6. OnTheWire'
  BY <1>1, <1>3 DEF OnTheWire
<1>7. AnswersAreOurs'
  <2>1. CASE promise' = promise /\ pending_' = pending_
    BY <1>1, <1>3, <2>1 DEF AnswersAreOurs, NoStream, SuccessIsTheClientsAnswer
  <2>2. CASE holding.id \in pending_ /\ promise' = [promise EXCEPT ![holding.id] = "SUCCESS"]
             /\ pending_' = pending_ \ {holding.id}
    <3>1. /\ holding.id = operating /\ pc[Strand] \in Registered /\ listened
          /\ IF holding.old THEN NoStream /\ (operating # 0 => NotSent)
             ELSE holding.n = forwarded[operating].n
      BY <1>1, <1>3, <2>2 DEF AnswersAreOurs
    <3>2. pc[Strand] # "idle" /\ pc[Strand] # "insert" /\ operating # 0
      BY <1>3, <3>1 DEF Registered, ForwardedInOrder
    <3>3. operating = next_id_ - 1 /\ next_id_ \in Nat /\ promise \in [Ids -> {NoStatus, "SUCCESS"}]
      BY <1>3, <3>2 DEF ForwardedInOrder, PathTypes
    <3>4. \A id \in Ids : id >= next_id_ => promise'[id] = NoStatus
      BY <1>3, <2>2, <3>1, <3>3 DEF AnswersAreOurs, Ids
    <3>5. \A id \in pending_' : FALSE
      BY <1>3, <2>2, <3>1 DEF AnswersAreOurs
    <3>6. \/ forwarded[operating].n \in confirmed'
          \/ NotSent /\ listened /\ (pc[Strand] = "send" => NoStream)
      BY <1>1, <3>1, <3>2
    <3> QED
      BY <1>1, <1>3, <3>2, <3>4, <3>5, <3>6
         DEF AnswersAreOurs, NoStream, SuccessIsTheClientsAnswer
  <2> QED
    BY <1>4, <2>1, <2>2
<1>8. DialoguesAccount'
  BY <1>1, <1>3 DEF DialoguesAccount, OwnTasks
<1> QED
  BY <1>3, <1>5, <1>6, <1>7, <1>8 DEF PathInv

\* The client takes the oldest command of its stream, which is newer than all
\* it has seen.
LEMMA ReceiveKeeps ==
    ASSUME PathInv, ReceiveCommand
    PROVE  PathInv'
<1> USE DEF ReceiveCommand, Deliver
<1>1. /\ command_mode' = command_mode /\ tasks' = tasks /\ results' = results
      /\ awaited' = awaited /\ requests' = requests /\ operating' = operating
      /\ forwarded' = forwarded /\ next_id_' = next_id_ /\ pc' = pc
      /\ command_id' = command_id /\ outcome' = outcome /\ opened' = opened
      /\ modal' = modal /\ confirmed' = confirmed
      /\ promise' = promise /\ pending_' = pending_ /\ stream' = stream
      /\ active_writer_' = active_writer_ /\ cancelled' = cancelled
      /\ hears' = hears /\ listened' = listened /\ holding = Nothing
  BY DEF uiVars, masterVars, outstationVars, callerVars, streamVars
<1>2. PICK id \in Ids :
        /\ \A earlier \in Ids : earlier < id => <<earlier, hears>> \notin inflight
        /\ <<id, hears>> \in inflight /\ inflight' = inflight \ {<<id, hears>>}
        /\ holding' = [id |-> id, n |-> forwarded[id].n, old |-> FALSE]
        /\ seen' = Append(seen, forwarded[id])
  OBVIOUS
<1>3. /\ PathTypes /\ RequestsInOrder /\ ForwardedInOrder /\ OnTheWire /\ SeenInOrder
      /\ AnswersAreOurs /\ DialoguesAccount
  BY DEF PathInv
<1>4. /\ NotSent' <=> NotSent
      /\ \A n : NotRefused(n)' <=> NotRefused(n)
      /\ \A n : Begun(n)' <=> Begun(n)
      /\ \A f : Genuine(f)' <=> Genuine(f)
  BY <1>1 DEF NotSent, NotRefused, Begun, Genuine, Running
<1>5. /\ id \in 1 .. next_id_ - 1 /\ hears \in Writers /\ hears # NoWriter
      /\ id = operating => ~NotSent
      /\ NotRefused(forwarded[id].n)
      /\ \A j \in DOMAIN seen : seen[j].n < forwarded[id].n
      /\ forwarded[id] \in Forwards /\ Genuine(forwarded[id])
  BY <1>2, <1>3, NoWriterAssumption DEF PathTypes, OnTheWire, ForwardedInOrder, Ids
<1>6. /\ seen' \in Seq(Forwards)
      /\ DOMAIN seen' = DOMAIN seen \cup {Len(seen) + 1}
      /\ \A j \in DOMAIN seen : seen'[j] = seen[j]
      /\ seen'[Len(seen) + 1] = forwarded[id]
      /\ Len(seen) \in Nat /\ DOMAIN seen = 1 .. Len(seen)
  BY <1>2, <1>3, <1>5 DEF PathTypes
<1>7. PathTypes'
  BY <1>1, <1>2, <1>3, <1>6 DEF PathTypes
<1>8. RequestsInOrder'
  BY <1>1, <1>3, <1>4 DEF RequestsInOrder, Running
<1>9. ForwardedInOrder'
  BY <1>1, <1>3, <1>4 DEF ForwardedInOrder
<1>10. OnTheWire'
  <2>1. ASSUME NEW m \in inflight', m[2] = hears
        PROVE  forwarded[id].n < forwarded[m[1]].n /\ m[1] \in 1 .. next_id_ - 1
    <3>1. /\ m[1] \in Ids /\ m = <<m[1], hears>> /\ m # <<id, hears>>
          /\ m[1] < next_id_
      BY <1>2, <1>3, <2>1 DEF PathTypes, OnTheWire
    <3>2. m[1] \in id + 1 .. next_id_ - 1
      BY <1>2, <1>3, <2>1, <3>1 DEF Ids, PathTypes
    <3> QED
      BY <1>3, <1>5, <3>1, <3>2 DEF ForwardedInOrder, Ids
  <2>2. ASSUME NEW m \in inflight', m[2] = hears, NEW j \in DOMAIN seen'
        PROVE  seen'[j].n < forwarded[m[1]].n
    <3>1. CASE j \in DOMAIN seen
      BY <1>2, <1>3, <1>6, <2>2, <3>1 DEF OnTheWire
    <3>2. CASE j = Len(seen) + 1
      BY <1>6, <2>1, <2>2, <3>2
    <3> QED
      BY <1>6, <3>1, <3>2
  <2> QED
    BY <1>1, <1>2, <1>3, <1>4, <2>2 DEF OnTheWire
<1>11. SeenInOrder'
  <2>1. \A j, k \in DOMAIN seen' : j < k => seen'[j].n < seen'[k].n
    BY <1>3, <1>5, <1>6 DEF SeenInOrder
  <2>2. ASSUME NEW k \in DOMAIN requests
        PROVE  /\ forwarded[id].n <= requests[k].n
               /\ forwarded[id].n = requests[k].n => k = 1 /\ operating # 0 /\ ~NotSent
    <3>1. /\ requests[k].n \in Nat /\ forwarded[id].n \in Nat
          /\ DOMAIN requests = 1 .. Len(requests) /\ Len(requests) \in Nat
      <4>1. requests \in Seq(RequestSet)
        BY <1>3 DEF PathTypes
      <4>2. requests[k] \in RequestSet
        BY <4>1
      <4>3. forwarded[id].n \in Nat
        BY <1>5 DEF Forwards
      <4> QED
        BY <4>1, <4>2, <4>3 DEF RequestSet
    <3>2. CASE id # operating
      BY <1>3, <1>5, <3>1, <3>2 DEF ForwardedInOrder
    <3>3. CASE id = operating
      <4>1. operating # 0 /\ requests[1].n = forwarded[id].n /\ 1 \in DOMAIN requests
        BY <1>3, <1>5, <3>1, <3>3 DEF ForwardedInOrder
      <4>2. k # 1 => requests[1].n < requests[k].n
        BY <1>3, <3>1, <4>1 DEF RequestsInOrder
      <4> QED
        BY <1>5, <3>1, <3>3, <4>1, <4>2
    <3> QED
      BY <3>2, <3>3
  <2>3. ASSUME NEW j \in DOMAIN seen'
        PROVE  /\ Genuine(seen'[j]) /\ NotRefused(seen'[j].n)
               /\ \A k \in DOMAIN requests :
                    /\ seen'[j].n <= requests[k].n
                    /\ seen'[j].n = requests[k].n => k = 1 /\ operating # 0 /\ ~NotSent
    <3>1. CASE j \in DOMAIN seen
      BY <1>3, <1>6, <3>1 DEF SeenInOrder
    <3>2. CASE j = Len(seen) + 1
      BY <1>5, <1>6, <2>2, <3>2
    <3> QED
      BY <1>6, <3>1, <3>2
  <2> QED
    BY <1>1, <1>4, <2>1, <2>3 DEF SeenInOrder
<1>12. AnswersAreOurs'
  BY <1>1, <1>2, <1>3, <1>4, <1>5
     DEF AnswersAreOurs, NoStream, SuccessIsTheClientsAnswer
<1>13. DialoguesAccount'
  BY <1>1, <1>3 DEF DialoguesAccount, OwnTasks
<1> QED
  BY <1>7, <1>8, <1>9, <1>10, <1>11, <1>12, <1>13 DEF PathInv

-----------------------------------------------------------------------------
(* The master and the outstation *)

-----------------------------------------------------------------------------
(* The master and the outstation *)

\* What the requests are.
LEMMA RequestFacts ==
    ASSUME PathInv
    PROVE  /\ Len(requests) \in Nat /\ DOMAIN requests = 1 .. Len(requests)
           /\ Len(results) \in Nat /\ DOMAIN results = 1 .. Len(results)
           /\ Len(tasks) \in Nat /\ DOMAIN tasks = 1 .. Len(tasks)
           /\ Running = Len(results) + 1
           /\ \A k \in DOMAIN requests : requests[k] \in RequestSet /\ requests[k].n \in Nat
           /\ \A id \in 1 .. next_id_ - 1 : forwarded[id] \in Forwards /\ forwarded[id].n \in Nat
           /\ \A j \in DOMAIN seen : seen[j] \in Forwards /\ seen[j].n \in Nat
<1>1. /\ requests \in Seq(RequestSet) /\ tasks \in Seq(TaskSet) /\ seen \in Seq(Forwards)
      /\ \A id \in 1 .. next_id_ - 1 : forwarded[id] \in Forwards
  BY DEF PathInv, PathTypes
<1>2. Len(results) \in Nat /\ DOMAIN results = 1 .. Len(results)
  BY DEF PathInv, PathTypes
<1>3. \A r \in RequestSet : r.n \in Nat
  BY DEF RequestSet
<1>4. \A f \in Forwards : f.n \in Nat
  BY DEF Forwards
<1>5. \A k \in DOMAIN requests : requests[k] \in RequestSet
  BY <1>1
<1>6. \A j \in DOMAIN seen : seen[j] \in Forwards
  BY <1>1
<1> QED
  BY <1>1, <1>2, <1>3, <1>4, <1>5, <1>6 DEF Running

\* The first request is the oldest: whoever waits for it waits for nothing after.
LEMMA RunningIsLast ==
    ASSUME PathInv, requests # <<>>, requests[1].n = Running
    PROVE  Len(requests) = 1
<1>1. /\ Len(requests) \in Nat /\ DOMAIN requests = 1 .. Len(requests)
      /\ \A k \in DOMAIN requests : requests[k].n \in Nat
      /\ Running \in Nat /\ requests \in Seq(RequestSet)
  BY RequestFacts DEF PathInv, PathTypes
<1>2. Len(requests) # 0
  BY <1>1
<1>3. CASE 2 \in DOMAIN requests
  <2>1. 1 \in DOMAIN requests
    BY <1>1, <1>3
  <2>2. requests[1].n < requests[2].n /\ requests[2].n <= Running
    BY <1>3, <2>1 DEF PathInv, RequestsInOrder, Begun
  <2> QED
    BY <1>1, <1>3, <2>1, <2>2
<1> QED
  BY <1>1, <1>2, <1>3

LEMMA SendRequestKeeps ==
    ASSUME PathInv, SendRequest
    PROVE  PathInv'
<1> USE DEF SendRequest
<1> DEFINE func == IF tasks[Running].style = "select" THEN "select" ELSE "direct"
           sent == [func |-> func, command |-> tasks[Running].command, n |-> Running]
<1>1. /\ command_mode' = command_mode /\ tasks' = tasks /\ results' = results
      /\ awaited' \in {"select", "operate"} /\ requests' = Append(requests, sent)
      /\ operating' = operating /\ awaited = "none" /\ Running <= Len(tasks)
      /\ forwarded' = forwarded /\ seen' = seen /\ next_id_' = next_id_ /\ pc' = pc
      /\ command_id' = command_id /\ outcome' = outcome /\ opened' = opened
      /\ modal' = modal
      /\ hears' = hears /\ listened' = listened /\ holding' = holding
      /\ confirmed' = confirmed
      /\ promise' = promise /\ pending_' = pending_ /\ stream' = stream
      /\ active_writer_' = active_writer_ /\ cancelled' = cancelled
      /\ inflight' = inflight
  BY DEF uiVars, listenerVars, restartVars, vars
<1>2. /\ PathTypes /\ RequestsInOrder /\ ForwardedInOrder /\ OnTheWire /\ SeenInOrder
      /\ AnswersAreOurs /\ DialoguesAccount
  BY DEF PathInv
<1>3. /\ Len(requests) \in Nat /\ DOMAIN requests = 1 .. Len(requests)
      /\ Len(results) \in Nat /\ DOMAIN results = 1 .. Len(results)
      /\ Len(tasks) \in Nat /\ DOMAIN tasks = 1 .. Len(tasks)
      /\ Running = Len(results) + 1
      /\ \A k \in DOMAIN requests : requests[k] \in RequestSet /\ requests[k].n \in Nat
      /\ \A id \in 1 .. next_id_ - 1 : forwarded[id].n \in Nat
      /\ \A j \in DOMAIN seen : seen[j].n \in Nat
  BY RequestFacts
<1>4. Running \in DOMAIN tasks /\ tasks[Running] \in TaskSet
  BY <1>1, <1>2, <1>3 DEF PathTypes
<1>5. sent \in RequestSet /\ sent.n = Running
  BY <1>3, <1>4 DEF RequestSet, TaskSet
<1>6. /\ sent.command = tasks[Running].command
      /\ sent.func = "direct" <=> tasks[Running].style = "direct"
      /\ sent.func # "operate"
  BY <1>4 DEF TaskSet
<1> HIDE DEF sent
<1>7. /\ requests' \in Seq(RequestSet) /\ requests' # <<>>
      /\ DOMAIN requests' = DOMAIN requests \cup {Len(requests) + 1}
      /\ \A k \in DOMAIN requests : requests'[k] = requests[k]
      /\ requests'[Len(requests) + 1] = sent
  <2>1. requests \in Seq(RequestSet)
    BY <1>2 DEF PathTypes
  <2> QED
    BY <1>1, <1>3, <1>5, <2>1
<1>8. /\ NotSent' <=> NotSent
      /\ \A n : NotRefused(n)' <=> NotRefused(n)
      /\ \A n : Begun(n) => Begun(n)' /\ n < Running
      /\ \A f : Genuine(f) => Genuine(f)' /\ f.n < Running
      /\ \A n : n = Running => Begun(n)' /\ NotRefused(n)
  BY <1>1, <1>3, <1>4 DEF NotSent, NotRefused, Begun, Genuine, Running
<1>9. PathTypes'
  BY <1>1, <1>2, <1>7 DEF PathTypes
<1>10. RequestsInOrder'
  <2>1. ASSUME NEW k \in DOMAIN requests'
        PROVE  /\ Begun(requests[k].n)' /\ NotRefused(requests'[k].n)
               /\ requests'[k].command = tasks[requests'[k].n].command
               /\ requests'[k].func = "direct" <=> tasks[requests'[k].n].style = "direct"
               /\ requests'[k].func = "operate" => command_mode # "direct_operate"
    <3>1. CASE k \in DOMAIN requests
      BY <1>2, <1>7, <1>8, <3>1 DEF RequestsInOrder
    <3>2. CASE k = Len(requests) + 1
      BY <1>5, <1>6, <1>7, <1>8, <3>2
    <3> QED
      BY <1>7, <3>1, <3>2
  <2>2. ASSUME NEW j \in DOMAIN requests', NEW k \in DOMAIN requests', j < k
        PROVE  requests'[j].n < requests'[k].n
    <3>1. j \in DOMAIN requests
      BY <1>3, <1>7, <2>2
    <3>2. requests[j].n < Running
      BY <1>2, <1>8, <3>1 DEF RequestsInOrder
    <3> QED
      BY <1>2, <1>5, <1>7, <2>2, <3>1, <3>2 DEF RequestsInOrder
  <2>3. Running' \in DOMAIN tasks'
    BY <1>1, <1>4 DEF Running
  <2> QED
    BY <1>1, <1>8, <2>1, <2>2, <2>3 DEF RequestsInOrder
<1>11. ForwardedInOrder'
  <2>1. operating # 0 => 1 \in DOMAIN requests /\ requests'[1] = requests[1]
    BY <1>2, <1>3, <1>7 DEF ForwardedInOrder, PathTypes
  <2>2. \A id \in 1 .. next_id_ - 1 :
            id # operating => \A k \in DOMAIN requests' : forwarded[id].n < requests'[k].n
    BY <1>2, <1>5, <1>7, <1>8 DEF ForwardedInOrder
  <2> QED
    BY <1>1, <1>2, <1>7, <1>8, <2>1, <2>2 DEF ForwardedInOrder
<1>12. OnTheWire'
  BY <1>1, <1>2, <1>8 DEF OnTheWire
<1>13. SeenInOrder'
  <2>1. ASSUME NEW j \in DOMAIN seen, NEW k \in DOMAIN requests'
        PROVE  /\ seen[j].n <= requests'[k].n
               /\ seen[j].n = requests'[k].n => k = 1 /\ operating # 0 /\ ~NotSent
    <3>1. seen[j].n < Running
      BY <1>2, <1>8 DEF SeenInOrder
    <3> QED
      BY <1>2, <1>3, <1>5, <1>7, <3>1 DEF SeenInOrder
  <2> QED
    BY <1>1, <1>2, <1>8, <2>1 DEF SeenInOrder
<1>14. AnswersAreOurs'
  BY <1>1, <1>2, <1>8 DEF AnswersAreOurs, NoStream, SuccessIsTheClientsAnswer
<1>15. DialoguesAccount'
  BY <1>1, <1>2 DEF DialoguesAccount, OwnTasks
<1> QED
  BY <1>9, <1>10, <1>11, <1>12, <1>13, <1>14, <1>15 DEF PathInv

\* The next task runs while the outstation still handles this one's request.
LEMMA GiveUpKeeps ==
    ASSUME PathInv, GiveUp
    PROVE  PathInv'
<1> USE DEF GiveUp, Finish
<1>1. /\ command_mode' = command_mode /\ tasks' = tasks
      /\ results' = Append(results, "NO_RESPONSE")
      /\ awaited' = "none" /\ requests' = requests
      /\ operating' = operating
      /\ forwarded' = forwarded /\ seen' = seen /\ next_id_' = next_id_ /\ pc' = pc
      /\ command_id' = command_id /\ outcome' = outcome /\ opened' = opened
      /\ modal' = modal
      /\ hears' = hears /\ listened' = listened /\ holding' = holding
      /\ confirmed' = confirmed
      /\ promise' = promise /\ pending_' = pending_ /\ stream' = stream
      /\ active_writer_' = active_writer_ /\ cancelled' = cancelled
      /\ inflight' = inflight
  BY DEF uiVars, listenerVars, outstationVars, restartVars, vars
<1>2. /\ PathTypes /\ RequestsInOrder /\ ForwardedInOrder /\ OnTheWire /\ SeenInOrder
      /\ AnswersAreOurs /\ DialoguesAccount
  BY DEF PathInv
<1>3. /\ Len(results) \in Nat /\ DOMAIN results = 1 .. Len(results)
      /\ Len(tasks) \in Nat /\ DOMAIN tasks = 1 .. Len(tasks)
      /\ Running = Len(results) + 1
  BY RequestFacts
<1>4. /\ DOMAIN results' = DOMAIN results \cup {Running} /\ Running' = Running + 1
      /\ \A n \in DOMAIN results : results'[n] = results[n]
      /\ results'[Running] = "NO_RESPONSE"
  BY <1>1, <1>2, <1>3 DEF PathTypes, Running
<1>5. PathTypes'
  BY <1>1, <1>2 DEF PathTypes
<1>6. /\ NotSent' <=> NotSent
      /\ \A n : NotRefused(n) => NotRefused(n)'
      /\ \A n : Begun(n) => Begun(n)'
      /\ \A f : Genuine(f) => Genuine(f)'
  BY <1>1, <1>3, <1>4 DEF NotSent, NotRefused, Begun, Genuine, Refusals
<1>7. RequestsInOrder'
  BY <1>1, <1>2, <1>6 DEF RequestsInOrder
<1>8. ForwardedInOrder'
  BY <1>1, <1>2, <1>6 DEF ForwardedInOrder
<1>9. OnTheWire' /\ SeenInOrder'
  BY <1>1, <1>2, <1>6 DEF OnTheWire, SeenInOrder
<1>10. AnswersAreOurs'
  BY <1>1, <1>2, <1>4, <1>6 DEF AnswersAreOurs, NoStream, SuccessIsTheClientsAnswer
<1>11. DialoguesAccount'
  BY <1>1, <1>2 DEF DialoguesAccount, OwnTasks
<1> QED
  BY <1>5, <1>7, <1>8, <1>9, <1>10, <1>11 DEF PathInv

\* The response to the first request: it is gone, and if the master still waits
\* for it, the task is over or has become the OPERATE after its SELECT.
LEMMA ReplyKeeps ==
    ASSUME PathInv, requests # <<>>, pc[Strand] = "idle",
           NEW status \in {"SUCCESS", "NO_SELECT"} \cup LocalStatuses, Reply(status),
           operating' = 0, status \in Refusals => operating = 0 \/ NotSent,
           status = "SUCCESS" =>
                \/ requests[1].func = "select" /\ command_mode # "direct_operate"
                \/ requests[1].func # "select" /\ requests[1].n \in confirmed,
           UNCHANGED <<command_mode, uiVars, tasks, forwarded, listenerVars, vars>>
    PROVE  PathInv'
<1> DEFINE first == requests[1]
           operate == [first EXCEPT !.func = "operate"]
           proceed == first.func = "select" /\ status = "SUCCESS"
<1>1. /\ command_mode' = command_mode /\ tasks' = tasks
      /\ forwarded' = forwarded /\ seen' = seen /\ next_id_' = next_id_ /\ pc' = pc
      /\ command_id' = command_id /\ outcome' = outcome /\ opened' = opened
      /\ modal' = modal
      /\ hears' = hears /\ listened' = listened /\ holding' = holding
      /\ confirmed' = confirmed
      /\ promise' = promise /\ pending_' = pending_ /\ stream' = stream
      /\ active_writer_' = active_writer_ /\ cancelled' = cancelled
      /\ inflight' = inflight
  BY DEF uiVars, listenerVars, vars
<1>2. /\ PathTypes /\ RequestsInOrder /\ ForwardedInOrder /\ OnTheWire /\ SeenInOrder
      /\ AnswersAreOurs /\ DialoguesAccount
  BY DEF PathInv
<1>3. /\ Len(requests) \in Nat /\ DOMAIN requests = 1 .. Len(requests)
      /\ Len(results) \in Nat /\ DOMAIN results = 1 .. Len(results)
      /\ Len(tasks) \in Nat /\ DOMAIN tasks = 1 .. Len(tasks)
      /\ Running = Len(results) + 1
      /\ \A k \in DOMAIN requests : requests[k] \in RequestSet /\ requests[k].n \in Nat
      /\ \A id \in 1 .. next_id_ - 1 : forwarded[id].n \in Nat
      /\ \A j \in DOMAIN seen : seen[j].n \in Nat
  BY RequestFacts
<1>4. /\ 1 \in DOMAIN requests /\ first \in RequestSet /\ requests \in Seq(RequestSet)
      /\ Head(requests) = first
  BY <1>2, <1>3 DEF PathTypes
<1>5. /\ Tail(requests) \in Seq(RequestSet)
      /\ DOMAIN Tail(requests) = 1 .. Len(requests) - 1
      /\ \A k \in DOMAIN Tail(requests) :
            k + 1 \in DOMAIN requests /\ Tail(requests)[k] = requests[k + 1]
  BY <1>3, <1>4
<1>6. /\ operate \in RequestSet /\ operate.func = "operate"
      /\ operate.command = first.command /\ operate.n = first.n
  BY <1>4 DEF RequestSet
\* The three ways a response can go.
<1>7. \/ /\ requests' = Tail(requests) /\ results' = results /\ awaited' = awaited
         /\ first.n # Running
      \/ /\ proceed /\ first.n = Running
         /\ requests' = Append(Tail(requests), operate)
         /\ results' = results /\ awaited' = "operate"
      \/ /\ ~proceed /\ first.n = Running
         /\ requests' = Tail(requests)
         /\ results' = Append(results, status) /\ awaited' = "none"
  BY <1>4 DEF Reply, Finish
<1>8. proceed => operating = 0
  BY <1>2 DEF ForwardedInOrder
<1>9. proceed /\ first.n = Running =>
        /\ awaited # "none" /\ Running \in DOMAIN tasks
        /\ requests' = <<operate>> /\ requests' \in Seq(RequestSet)
        /\ DOMAIN requests' = {1} /\ requests'[1] = operate
  <2> SUFFICES ASSUME proceed, first.n = Running
               PROVE  /\ awaited # "none" /\ Running \in DOMAIN tasks
                      /\ requests' = <<operate>> /\ requests' \in Seq(RequestSet)
                      /\ DOMAIN requests' = {1} /\ requests'[1] = operate
    OBVIOUS
  <2>1. Len(requests) = 1
    BY RunningIsLast
  <2>2. Tail(requests) = <<>>
    BY <1>4, <1>5, <2>1
  <2>3. Begun(first.n)
    BY <1>2, <1>4 DEF RequestsInOrder
  <2>4. awaited # "none" /\ Running \in DOMAIN tasks
    BY <1>3, <2>3 DEF Begun
  <2> HIDE DEF operate
  <2>5. requests' = <<operate>>
    BY <1>7, <2>2
  <2> QED
    BY <1>6, <2>4, <2>5
<1> HIDE DEF operate
<1>20. \A k \in DOMAIN requests : k # 1 => first.n < requests[k].n
  BY <1>2, <1>3, <1>4 DEF RequestsInOrder
\* What is left is older than nothing but the first request.
<1>10. /\ requests' \in Seq(RequestSet)
       /\ \A k \in DOMAIN requests' :
            \/ /\ k + 1 \in DOMAIN requests /\ requests'[k] = requests[k + 1]
               /\ k \in Nat \ {0}
            \/ k = 1 /\ requests'[k] = operate /\ proceed /\ DOMAIN requests' = {1}
               /\ first.n = Running
  <2>1. CASE requests' = Tail(requests)
    BY <1>3, <1>5, <2>1
  <2>2. CASE proceed /\ first.n = Running
    BY <1>9, <2>2
  <2> QED
    BY <1>7, <2>1, <2>2
<1>11. /\ Len(results') \in Nat /\ Running' \in {Running, Running + 1}
       /\ DOMAIN results \subseteq DOMAIN results'
       /\ \A n \in DOMAIN results : results'[n] = results[n]
       /\ \A n \in DOMAIN results' \ DOMAIN results :
            n = Running /\ n = first.n /\ ~proceed /\ results'[n] = status
       /\ awaited' = "none" => awaited = "none" \/ Running' = Running + 1
       /\ results' \in Seq({"SUCCESS", "NO_RESPONSE"} \cup Refusals \cup LocalStatuses)
       /\ awaited' \in {"none", "select", "operate"}
  <2>1. /\ results \in Seq({"SUCCESS", "NO_RESPONSE"} \cup Refusals \cup LocalStatuses)
        /\ awaited \in {"none", "select", "operate"}
        /\ status \in {"SUCCESS", "NO_RESPONSE"} \cup Refusals \cup LocalStatuses
    BY <1>2 DEF PathTypes, Refusals
  <2>2. CASE results' = results /\ awaited' \in {awaited, "operate"}
    BY <1>3, <2>1, <2>2 DEF Running
  <2>3. CASE ~proceed /\ first.n = Running /\ results' = Append(results, status)
             /\ awaited' = "none"
    BY <1>3, <2>1, <2>3 DEF Running
  <2> QED
    BY <1>7, <2>2, <2>3
<1>12. PathTypes'
  BY <1>1, <1>2, <1>10, <1>11 DEF PathTypes
<1>13. /\ \A n : NotRefused(n) /\ (n = first.n => status \notin Refusals) => NotRefused(n)'
       /\ \A n : Begun(n) => Begun(n)'
       /\ \A f : Genuine(f) => Genuine(f)'
  <2>1. \A n : NotRefused(n) /\ (n = first.n => status \notin Refusals) => NotRefused(n)'
    BY <1>11 DEF NotRefused, Refusals
  <2>2. \A n : Begun(n) => Begun(n)'
    BY <1>1, <1>3, <1>11 DEF Begun
  <2>3. \A f : Genuine(f) => Genuine(f)'
    BY <1>1, <2>2 DEF Genuine
  <2> QED
    BY <2>1, <2>2, <2>3
<1>14. RequestsInOrder'
  <2>1. ASSUME NEW k \in DOMAIN requests'
        PROVE  /\ Begun(requests[k].n)' /\ NotRefused(requests[k].n)'
               /\ requests'[k].command = tasks[requests'[k].n].command
               /\ requests'[k].func = "direct" <=> tasks[requests'[k].n].style = "direct"
               /\ requests'[k].func = "operate" => command_mode # "direct_operate"
    <3>1. CASE k + 1 \in DOMAIN requests /\ requests'[k] = requests[k + 1] /\ k \in Nat \ {0}
      <4>1. first.n < requests[k + 1].n
        BY <1>20, <3>1
      <4> QED
        BY <1>2, <1>3, <1>4, <1>13, <3>1, <4>1 DEF RequestsInOrder
    <3>2. CASE k = 1 /\ requests'[k] = operate /\ proceed
      BY <1>2, <1>4, <1>6, <1>13, <3>2 DEF RequestsInOrder, Refusals
    <3> QED
      BY <1>10, <3>1, <3>2
  <2>2. ASSUME NEW j \in DOMAIN requests', NEW k \in DOMAIN requests', j < k
        PROVE  requests'[j].n < requests'[k].n
    <3>1. \/ k = 1 /\ j = 1
          \/ /\ j + 1 \in DOMAIN requests /\ requests'[j] = requests[j + 1]
             /\ k + 1 \in DOMAIN requests /\ requests'[k] = requests[k + 1]
             /\ j \in Nat \ {0} /\ k \in Nat \ {0}
      BY <1>10, <2>2
    <3>2. j + 1 < k + 1
      BY <2>2, <3>1
    <3> QED
      BY <1>2, <2>2, <3>1, <3>2 DEF RequestsInOrder
  <2>3. awaited' # "none" => Running' \in DOMAIN tasks
    BY <1>2, <1>3, <1>7, <1>9 DEF RequestsInOrder, Running
  <2> QED
    BY <1>1, <2>1, <2>2, <2>3 DEF RequestsInOrder
<1>15. ForwardedInOrder'
  <2>1. ASSUME NEW id \in 1 .. next_id_ - 1, NEW k \in DOMAIN requests'
        PROVE  forwarded[id].n < requests'[k].n
    <3>1. CASE k + 1 \in DOMAIN requests /\ requests'[k] = requests[k + 1] /\ k \in Nat \ {0}
      <4>1. first.n < requests[k + 1].n
        BY <1>20, <3>1
      <4>2. id = operating => forwarded[id].n = first.n
        BY <1>2 DEF ForwardedInOrder, PathTypes
      <4>3. id # operating => forwarded[id].n < requests[k + 1].n
        BY <1>2, <3>1 DEF ForwardedInOrder
      <4> QED
        BY <1>3, <1>4, <3>1, <4>1, <4>2, <4>3
    <3>2. CASE k = 1 /\ requests'[k] = operate /\ proceed
      <4>1. operating = 0 /\ id # operating
        BY <1>8, <3>2
      <4>2. forwarded[id].n < requests[1].n
        BY <1>2, <1>4, <4>1 DEF ForwardedInOrder
      <4> QED
        BY <1>6, <3>2, <4>2
    <3> QED
      BY <1>10, <3>1, <3>2
  <2>2. command_id[Strand] = 0
    BY <1>2 DEF ForwardedInOrder
  <2> QED
    BY <1>1, <1>2, <1>13, <2>1, <2>2 DEF ForwardedInOrder
<1>16. OnTheWire'
  <2>1. ASSUME NEW m \in inflight
        PROVE  m[1] # 0 /\ NotRefused(forwarded[m[1]].n)'
    <3>1. m[1] \in Ids /\ m[1] \in 1 .. next_id_ - 1
      BY <1>2 DEF PathTypes, OnTheWire, Ids
    <3>2. CASE m[1] = operating
      <4>1. operating # 0 /\ ~NotSent
        BY <1>2, <3>1, <3>2 DEF OnTheWire, Ids
      <4> QED
        BY <1>1, <1>2, <1>13, <3>1, <4>1 DEF OnTheWire, Ids
    <3>3. CASE m[1] # operating
      <4>1. forwarded[m[1]].n < first.n
        BY <1>2, <1>4, <3>1, <3>3 DEF ForwardedInOrder
      <4> QED
        BY <1>1, <1>2, <1>3, <1>4, <1>13, <3>1, <4>1 DEF OnTheWire, Ids
    <3> QED
      BY <3>2, <3>3
  <2> QED
    BY <1>1, <1>2, <2>1 DEF OnTheWire
<1>17. SeenInOrder'
  <2>1. ASSUME NEW j \in DOMAIN seen
        PROVE  NotRefused(seen[j].n)'
    <3>1. seen[j].n = first.n => operating # 0 /\ ~NotSent
      BY <1>2, <1>4 DEF SeenInOrder
    <3> QED
      BY <1>1, <1>2, <1>13, <3>1 DEF SeenInOrder
  <2>2. ASSUME NEW j \in DOMAIN seen, NEW k \in DOMAIN requests'
        PROVE  seen[j].n < requests'[k].n
    <3>1. CASE k + 1 \in DOMAIN requests /\ requests'[k] = requests[k + 1] /\ k \in Nat \ {0}
      BY <1>2, <1>3, <3>1 DEF SeenInOrder
    <3>2. CASE k = 1 /\ requests'[k] = operate /\ proceed
      BY <1>2, <1>3, <1>4, <1>6, <1>8, <3>2 DEF SeenInOrder
    <3> QED
      BY <1>10, <3>1, <3>2
  <2>3. \A j \in DOMAIN seen, k \in DOMAIN requests' :
            seen[j].n <= requests'[k].n /\ seen[j].n # requests'[k].n
    <3>1. \A k \in DOMAIN requests' : requests'[k].n \in Nat
      BY <1>3, <1>4, <1>6, <1>10
    <3> QED
      BY <1>3, <2>2, <3>1
  <2> QED
    BY <1>1, <1>2, <1>13, <2>1, <2>3 DEF SeenInOrder
<1>18. AnswersAreOurs'
  <2>1. pending_ = {}
    BY <1>2 DEF AnswersAreOurs, Registered
  <2>2. SuccessIsTheClientsAnswer'
    <3>1. ASSUME NEW n \in DOMAIN results', results'[n] = "SUCCESS"
          PROVE  n \in confirmed
      <4>1. CASE n \in DOMAIN results
        BY <1>2, <1>11, <3>1, <4>1 DEF AnswersAreOurs, SuccessIsTheClientsAnswer
      <4>2. CASE n \notin DOMAIN results
        BY <1>11, <3>1, <4>2
      <4> QED
        BY <4>1, <4>2
    <3> QED
      BY <1>1, <3>1 DEF SuccessIsTheClientsAnswer
  <2> QED
    BY <1>1, <1>2, <2>1, <2>2 DEF AnswersAreOurs, NoStream
<1>19. DialoguesAccount'
  BY <1>1, <1>2 DEF DialoguesAccount, OwnTasks
<1> QED
  BY <1>12, <1>14, <1>15, <1>16, <1>17, <1>18, <1>19 DEF PathInv

LEMMA HandleSelectKeeps ==
    ASSUME PathInv, HandleSelect
    PROVE  PathInv'
<1>1. /\ requests # <<>> /\ pc[Strand] = "idle" /\ operating = 0 /\ operating' = 0
      /\ Reply(Select) /\ Head(requests).func = "select"
      /\ UNCHANGED <<command_mode, uiVars, tasks, forwarded, listenerVars, vars>>
  BY DEF HandleSelect, StrandIdle, restartVars
<1>2. requests[1].func = "select"
  BY <1>1 DEF PathInv, PathTypes
<1>3. /\ Select \in {"SUCCESS", "NO_SELECT"} \cup LocalStatuses
      /\ Select = "SUCCESS" => command_mode # "direct_operate"
  BY DEF Select, LocalStatuses
<1> QED
  BY <1>1, <1>2, <1>3, ReplyKeeps

LEMMA OperateReturnsKeeps ==
    ASSUME PathInv, OperateReturns
    PROVE  PathInv'
<1>1. /\ operating # 0 /\ pc[Strand] = "idle" /\ operating' = 0
      /\ Reply(outcome[operating])
      /\ UNCHANGED <<command_mode, uiVars, tasks, forwarded, listenerVars, vars>>
  BY DEF OperateReturns, restartVars
<1>2. /\ requests # <<>> /\ requests[1].n = forwarded[operating].n
      /\ requests[1].func # "select"
      /\ outcome[operating] \in {"SUCCESS"} \cup LocalStatuses
      /\ outcome[operating] = "SUCCESS" => forwarded[operating].n \in confirmed
  BY <1>1 DEF PathInv, ForwardedInOrder, AnswersAreOurs
<1>3. outcome[operating] \in Refusals => NotSent
  BY <1>1, <1>2 DEF NotSent, Refusals, LocalStatuses
<1> QED
  BY <1>1, <1>2, <1>3, ReplyKeeps

\* The first request becomes a command with a new id.
LEMMA HandleOperateKeeps ==
    ASSUME PathInv, HandleOperate
    PROVE  PathInv'
<1>1. /\ requests # <<>> /\ pc[Strand] = "idle" /\ operating = 0
      /\ Head(requests).func \in {"operate", "direct"}
      /\ UNCHANGED <<command_mode, uiVars, tasks, listenerVars>>
      /\ \/ Operate(Head(requests)) /\ UNCHANGED <<requests, results, awaited>>
         \/ Reply("NO_SELECT") /\ UNCHANGED <<operating, forwarded, restartVars>>
  BY DEF HandleOperate, StrandIdle
<1>2. /\ PathTypes /\ RequestsInOrder /\ ForwardedInOrder /\ OnTheWire /\ SeenInOrder
      /\ AnswersAreOurs /\ DialoguesAccount
  BY DEF PathInv
<1>3. CASE Reply("NO_SELECT") /\ UNCHANGED <<operating, forwarded, restartVars>>
  BY <1>1, <1>3, ReplyKeeps DEF restartVars
<1>4. CASE Operate(Head(requests)) /\ UNCHANGED <<requests, results, awaited>>
  <2>1. /\ Len(requests) \in Nat /\ DOMAIN requests = 1 .. Len(requests)
        /\ Len(tasks) \in Nat /\ DOMAIN tasks = 1 .. Len(tasks)
        /\ \A k \in DOMAIN requests : requests[k] \in RequestSet /\ requests[k].n \in Nat
        /\ requests \in Seq(RequestSet)
    BY <1>2, RequestFacts DEF PathTypes
  <2> DEFINE first == requests[1]
             made == [request |-> ToRequest(first.command), n |-> first.n]
  <2>2. /\ 1 \in DOMAIN requests /\ first \in RequestSet /\ Head(requests) = first
        /\ first.func \in {"operate", "direct"}
    BY <1>1, <2>1
  <2>3. made \in Forwards
    BY <2>2 DEF RequestSet, Forwards
  <2>4. /\ command_mode' = command_mode /\ tasks' = tasks /\ results' = results
        /\ awaited' = awaited /\ requests' = requests /\ seen' = seen
        /\ outcome' = outcome /\ opened' = opened /\ modal' = modal
        /\ hears' = hears /\ listened' = listened /\ holding' = holding
        /\ confirmed' = confirmed
        /\ promise' = promise /\ pending_' = pending_ /\ stream' = stream
        /\ active_writer_' = active_writer_ /\ cancelled' = cancelled
        /\ inflight' = inflight
        /\ next_id_ \in Ids /\ operating' = next_id_ /\ next_id_' = next_id_ + 1
        /\ command_id' = [command_id EXCEPT ![Strand] = next_id_]
        /\ pc' = [pc EXCEPT ![Strand] = "insert"]
        /\ forwarded' = [forwarded EXCEPT ![next_id_] = made]
    BY <1>1, <1>4, <2>2 DEF Operate, AssignId, uiVars, listenerVars, streamVars,
       clientVars
  <2> HIDE DEF made
  <2>5. /\ next_id_ \in 1 .. MaxCommands /\ MaxCommands \in Nat /\ Strand \in Callers
        /\ forwarded'[next_id_] = made
        /\ \A id \in 1 .. next_id_ - 1 : forwarded'[id] = forwarded[id]
        /\ pc'[Strand] = "insert" /\ command_id'[Strand] = next_id_ /\ next_id_ # 0
        /\ DOMAIN forwarded' = Ids
    BY <1>2, <2>4, MaxCommandsAssumption, OneCaller DEF PathTypes, Ids
  <2>6. /\ NotSent'
        /\ \A n : NotRefused(n)' <=> NotRefused(n)
        /\ \A n : Begun(n)' <=> Begun(n)
        /\ \A f : Genuine(f)' <=> Genuine(f)
    BY <2>4, <2>5 DEF NotSent, NotRefused, Begun, Genuine, Running
  <2>7. made.n = first.n /\ made.request = ToRequest(first.command)
    BY DEF made
  <2>8. Genuine(made)
    <3>1. /\ Begun(first.n) /\ first.command = tasks[first.n].command
          /\ first.func = "direct" <=> tasks[first.n].style = "direct"
          /\ first.func = "operate" => command_mode # "direct_operate"
      BY <1>2, <2>2 DEF RequestsInOrder
    <3> QED
      BY <2>2, <2>7, <3>1 DEF Genuine
  <2>9. PathTypes'
    <3>1. \A id \in 1 .. next_id_' - 1 : forwarded'[id] \in Forwards
      BY <1>2, <2>3, <2>4, <2>5 DEF PathTypes
    <3>2. /\ pc' \in [Callers -> Places] /\ command_id' \in [Callers -> {0} \cup Ids]
          /\ next_id_' \in 1 .. MaxCommands + 1
      BY <1>2, <2>4, <2>5 DEF PathTypes, Places
    <3> QED
      BY <1>2, <2>4, <2>5, <3>1, <3>2 DEF PathTypes
  <2>10. RequestsInOrder'
    BY <1>2, <2>4, <2>6 DEF RequestsInOrder, Running
  <2>11. ForwardedInOrder'
    <3>1. ASSUME NEW id \in 1 .. next_id_
          PROVE  /\ Genuine(forwarded'[id])
                 /\ id # next_id_ => \A k \in DOMAIN requests : forwarded'[id].n < requests[k].n
                 /\ \A later \in id + 1 .. next_id_ : forwarded'[id].n < forwarded'[later].n
      <4>1. CASE id = next_id_
        BY <2>5, <2>8, <4>1
      <4>2. CASE id # next_id_
        <5>1. /\ id \in 1 .. next_id_ - 1 /\ id # operating
              /\ forwarded'[id] = forwarded[id]
          BY <1>1, <2>5, <4>2
        <5>2. \A k \in DOMAIN requests : forwarded[id].n < requests[k].n
          BY <1>2, <5>1 DEF ForwardedInOrder
        <5>3. forwarded[id].n < made.n
          BY <2>2, <2>7, <5>2
        <5>4. ASSUME NEW later \in id + 1 .. next_id_
              PROVE  forwarded'[id].n < forwarded'[later].n
          <6>1. CASE later = next_id_
            BY <2>5, <5>1, <5>3, <6>1
          <6>2. CASE later # next_id_
            <7>1. later \in id + 1 .. next_id_ - 1 /\ later \in 1 .. next_id_ - 1
              BY <2>5, <5>1, <6>2
            <7> QED
              BY <1>2, <2>5, <5>1, <7>1 DEF ForwardedInOrder
          <6> QED
            BY <6>1, <6>2
        <5> QED
          BY <1>2, <5>1, <5>2, <5>4 DEF ForwardedInOrder
      <4> QED
        BY <4>1, <4>2
    <3>2. next_id_' - 1 = next_id_
      BY <2>4, <2>5
    <3>3. \A id \in 1 .. next_id_ : Genuine(forwarded[id])'
      BY <2>6, <3>1
    <3> QED
      BY <1>1, <2>2, <2>4, <2>5, <2>7, <3>1, <3>2, <3>3 DEF ForwardedInOrder
  <2>12. OnTheWire'
    <3>1. \A m \in inflight : m[1] \in 1 .. next_id_ - 1
      BY <1>2 DEF PathTypes, OnTheWire, Ids
    <3>2. \A m \in inflight : forwarded'[m[1]] = forwarded[m[1]] /\ m[1] # next_id_
                              /\ m[1] < next_id_ + 1
      BY <2>5, <3>1
    <3>3. \A m \in inflight : NotRefused(forwarded[m[1]].n)'
      BY <1>2, <2>6, <3>2 DEF OnTheWire
    <3> QED
      BY <1>2, <2>4, <3>2, <3>3 DEF OnTheWire
  <2>13. SeenInOrder'
    BY <1>1, <1>2, <2>4, <2>6 DEF SeenInOrder
  <2>14. AnswersAreOurs'
    <3>1. pending_ = {}
      BY <1>1, <1>2 DEF AnswersAreOurs, Registered
    <3>2. promise[next_id_] = NoStatus /\ NoStatus # "SUCCESS"
      BY <1>2, <2>4, <2>5, NoStatusAssumption, AnswersAssumption
         DEF AnswersAreOurs, Statuses
    <3>3. \A id \in Ids : id >= next_id_ + 1 => promise[id] = NoStatus
      BY <1>2, <2>5 DEF AnswersAreOurs, Ids
    <3>4. holding # Nothing =>
            /\ hears # NoWriter
            /\ IF holding.old THEN NoStream
               ELSE /\ holding.id \in 1 .. next_id_ - 1 /\ holding.id \in 1 .. next_id_
                    /\ holding.n = forwarded'[holding.id].n
      BY <1>2, <2>5 DEF AnswersAreOurs
    <3>5. next_id_' - 1 = next_id_
      BY <2>4, <2>5
    <3>6. NoStream' <=> NoStream
      BY <2>4 DEF NoStream
    <3>7. SuccessIsTheClientsAnswer'
      BY <1>2, <2>4 DEF AnswersAreOurs, SuccessIsTheClientsAnswer
    <3>8. hears' # NoWriter => listened'
      BY <1>2, <2>4 DEF AnswersAreOurs
    <3> QED
      BY <2>4, <2>5, <2>6, <3>1, <3>2, <3>3, <3>4, <3>5, <3>6, <3>7, <3>8
         DEF AnswersAreOurs
  <2>15. DialoguesAccount'
    BY <1>2, <2>4 DEF DialoguesAccount, OwnTasks
  <2> QED
    BY <2>9, <2>10, <2>11, <2>12, <2>13, <2>14, <2>15 DEF PathInv
<1> QED
  BY <1>1, <1>3, <1>4

\* dispatch() sends a command once, and only on a stream that is served.
LEMMA DispatchingKeeps ==
    ASSUME PathInv, Dispatching
    PROVE  PathInv'
<1>1. /\ PathTypes /\ RequestsInOrder /\ ForwardedInOrder /\ OnTheWire /\ SeenInOrder
      /\ AnswersAreOurs /\ DialoguesAccount
  BY DEF PathInv
<1>2. /\ operating # 0 /\ command_id[Strand] = operating /\ pc[Strand] # "idle"
      /\ Strand \in Callers /\ operating = next_id_ - 1 /\ operating \in Ids
      /\ pc \in [Callers -> Places] /\ command_id \in [Callers -> {0} \cup Ids]
      /\ DOMAIN outcome = Ids /\ promise \in [Ids -> {NoStatus, "SUCCESS"}]
      /\ \A id \in pending_ : id = operating /\ promise[id] = NoStatus
      /\ pc[Strand] = "insert" => promise[operating] = NoStatus
  BY <1>1, OneCaller DEF Dispatching, ForwardedInOrder, PathTypes, AnswersAreOurs
<1>3. /\ command_mode' = command_mode /\ tasks' = tasks /\ results' = results
      /\ awaited' = awaited /\ requests' = requests /\ operating' = operating
      /\ forwarded' = forwarded /\ seen' = seen /\ opened' = opened /\ modal' = modal
      /\ hears' = hears /\ listened' = listened /\ holding' = holding
      /\ confirmed' = confirmed
  BY DEF Dispatching, pathVars, uiVars, masterVars, outstationVars, listenerVars
<1>4. /\ next_id_' = next_id_ /\ promise' = promise /\ stream' = stream
      /\ active_writer_' = active_writer_ /\ cancelled' = cancelled
      /\ pc' \in [Callers -> Places] /\ pc'[Strand] # "insert"
      /\ command_id' \in [Callers -> {0} \cup Ids]
      /\ command_id'[Strand] = IF pc'[Strand] = "idle" THEN 0 ELSE operating
      /\ DOMAIN outcome' = Ids
      /\ pc'[Strand] = "idle" => outcome'[operating] \in {"SUCCESS"} \cup LocalStatuses
      /\ \/ inflight' = inflight
         \/ /\ inflight' = inflight \cup {<<operating, active_writer_>>}
            /\ active_writer_ # NoWriter /\ active_writer_ \notin cancelled
            /\ NotSent /\ pc'[Strand] = "writing"
      /\ \A id \in pending_' :
            id = operating /\ pc'[Strand] \in Registered /\ promise[id] = NoStatus
      \* A command that was sent does not become one that was not.
      /\ \/ pc[Strand] = "insert" /\ pc'[Strand] = "send"
         \/ pc[Strand] = "send" /\ pc'[Strand] = "rejected"
         \/ pc[Strand] = "send" /\ pc'[Strand] = "writing" /\ active_writer_ # NoWriter
         \/ /\ pc[Strand] = "rejected" /\ pc'[Strand] = "idle"
            /\ outcome'[operating] = "NOT_SUPPORTED"
         \/ /\ pc[Strand] \in {"writing", "failed", "wait", "expired"}
            /\ pc'[Strand] \in {"failed", "wait", "expired"}
         \/ /\ pc[Strand] \in {"failed", "wait", "expired"} /\ pc'[Strand] = "idle"
            /\ outcome'[operating] \in {"SUCCESS", "DOWNSTREAM_FAIL", "TIMEOUT"}
            /\ outcome'[operating] = "SUCCESS" => promise[operating] = "SUCCESS"
  <2> USE <1>2 DEF callerVars, streamVars, clientVars, Places, Registered, LocalStatuses, NotSent
  <2>1. CASE InsertPending(Strand)
    BY <2>1 DEF InsertPending
  <2>2. CASE LockWriter(Strand)
    BY <2>2 DEF LockWriter
  <2>3. CASE RejectNoWriter(Strand)
    BY <2>3 DEF RejectNoWriter, EraseAndReturn
  <2>4. CASE WriteSucceeds(Strand)
    BY <2>4 DEF WriteSucceeds
  <2>5. CASE WriteFails(Strand)
    BY <2>5 DEF WriteFails
  <2>6. CASE FailWrite(Strand)
    BY <2>6 DEF FailWrite, EraseAndReturn
  <2>7. CASE ReturnAnswer(Strand)
    BY <2>7 DEF ReturnAnswer
  <2>8. CASE WaitTimesOut(Strand)
    BY <2>8 DEF WaitTimesOut
  <2>9. CASE Expire(Strand)
    BY <2>9 DEF Expire, EraseAndReturn
  <2>10. ~AssignId(Strand)
    BY DEF AssignId
  <2> QED
    BY <2>1, <2>2, <2>3, <2>4, <2>5, <2>6, <2>7, <2>8, <2>9, <2>10
       DEF Dispatching, DispatchStep
<1>5. /\ ~NotSent => ~NotSent'
      /\ NotSent /\ ~NotSent' => active_writer_ # NoWriter /\ pc[Strand] = "send"
  BY <1>2, <1>3, <1>4 DEF NotSent
<1>6. /\ \A n : NotRefused(n)' <=> NotRefused(n)
      /\ \A n : Begun(n)' <=> Begun(n)
      /\ \A f : Genuine(f)' <=> Genuine(f)
  BY <1>3 DEF NotRefused, Begun, Genuine, Running
<1>7. /\ NoStream' <=> NoStream
      /\ NoStream => active_writer_ = NoWriter
  BY <1>1, <1>4 DEF NoStream, OnTheWire, PathTypes
<1>8. PathTypes'
  BY <1>1, <1>2, <1>3, <1>4 DEF PathTypes
<1>9. RequestsInOrder'
  BY <1>1, <1>3, <1>6 DEF RequestsInOrder, Running
<1>10. ForwardedInOrder'
  BY <1>1, <1>2, <1>3, <1>4, <1>6 DEF ForwardedInOrder
<1>11. OnTheWire'
  <2>1. CASE inflight' = inflight
    BY <1>1, <1>3, <1>4, <1>5, <1>6, <2>1 DEF OnTheWire
  <2>2. CASE /\ inflight' = inflight \cup {<<operating, active_writer_>>}
             /\ active_writer_ # NoWriter /\ active_writer_ \notin cancelled
             /\ NotSent /\ pc'[Strand] = "writing"
    <3>1. /\ ~NotSent'
          /\ operating < next_id_ /\ stream[active_writer_] # "free"
      BY <1>1, <1>2, <2>2 DEF OnTheWire, NotSent, PathTypes
    <3>2. requests # <<>> /\ 1 \in DOMAIN requests /\ requests[1].n = forwarded[operating].n
      BY <1>1, <1>2, RequestFacts DEF ForwardedInOrder, PathTypes
    <3>3. NotRefused(forwarded[operating].n)
      BY <1>1, <3>2 DEF RequestsInOrder
    <3>4. ASSUME NEW j \in DOMAIN seen PROVE seen[j].n < forwarded[operating].n
      <4>1. seen[j].n \in Nat /\ requests[1].n \in Nat
        BY <3>2, RequestFacts
      <4>2. seen[j].n <= requests[1].n /\ seen[j].n # requests[1].n
        BY <1>1, <2>2, <3>2 DEF SeenInOrder
      <4> QED
        BY <3>2, <4>1, <4>2
    <3> QED
      BY <1>1, <1>3, <1>4, <1>5, <1>6, <2>2, <3>1, <3>3, <3>4 DEF OnTheWire
  <2> QED
    BY <1>4, <2>1, <2>2
<1>12. SeenInOrder'
  BY <1>1, <1>3, <1>5, <1>6 DEF SeenInOrder
<1>13. AnswersAreOurs'
  <2>1. ASSUME promise[operating] = "SUCCESS"
        PROVE  \/ forwarded[operating].n \in confirmed
               \/ NotSent' /\ listened /\ (pc'[Strand] = "send" => NoStream)
    <3>1. CASE forwarded[operating].n \notin confirmed
      <4>1. /\ NotSent /\ listened /\ pc[Strand] # "insert"
            /\ pc[Strand] = "send" => NoStream
        BY <1>1, <1>2, <2>1, <3>1, NoStatusAssumption, AnswersAssumption
           DEF AnswersAreOurs, Statuses
      <4> QED
        BY <1>4, <1>5, <1>7, <4>1
    <3> QED
      BY <3>1
  <2>2. ASSUME pc'[Strand] = "idle", outcome'[operating] = "SUCCESS"
        PROVE  forwarded[operating].n \in confirmed
    <3>1. promise[operating] = "SUCCESS" /\ ~NotSent
      BY <1>4, <2>2 DEF NotSent
    <3> QED
      BY <1>1, <1>2, <3>1 DEF AnswersAreOurs
  <2>3. holding # Nothing /\ holding.old => NoStream /\ NotSent'
    BY <1>1, <1>2, <1>5, <1>7 DEF AnswersAreOurs
  <2> QED
    BY <1>1, <1>2, <1>3, <1>4, <1>7, <2>1, <2>2, <2>3
       DEF AnswersAreOurs, SuccessIsTheClientsAnswer
<1>14. DialoguesAccount'
  BY <1>1, <1>3 DEF DialoguesAccount, OwnTasks
<1> QED
  BY <1>8, <1>9, <1>10, <1>11, <1>12, <1>13, <1>14 DEF PathInv

\* A new process knows no command and no stream of the old one.
LEMMA RestartKeeps ==
    ASSUME PathInv, RestartBridge
    PROVE  PathInv'
<1>1. /\ PathTypes /\ RequestsInOrder /\ ForwardedInOrder /\ OnTheWire /\ SeenInOrder
      /\ AnswersAreOurs /\ DialoguesAccount
  BY DEF PathInv
<1>2. /\ command_mode' = command_mode /\ tasks' = tasks /\ results' = results
      /\ awaited' = awaited /\ requests' = <<>> /\ operating' = 0
      /\ forwarded' = forwarded /\ seen' = seen /\ opened' = opened /\ modal' = modal
      /\ hears' = hears /\ listened' = listened /\ confirmed' = confirmed
      /\ holding' = IF holding = Nothing THEN Nothing ELSE [holding EXCEPT !.old = TRUE]
      /\ next_id_' = 1 /\ pending_' = {} /\ promise' = [id \in Ids |-> NoStatus]
      /\ active_writer_' = NoWriter /\ pc' = [t \in Callers |-> "idle"]
      /\ command_id' = [t \in Callers |-> 0]
      /\ stream' = [w \in Writers |-> "free"] /\ cancelled' = {} /\ inflight' = {}
      /\ outcome' = [id \in Ids |-> NoStatus]
  BY DEF RestartBridge, Restart, uiVars, masterVars
<1>3. /\ \A n : NotRefused(n)' <=> NotRefused(n)
      /\ \A n : Begun(n)' <=> Begun(n)
      /\ \A f : Genuine(f)' <=> Genuine(f)
  BY <1>2 DEF NotRefused, Begun, Genuine, Running
<1>4. PathTypes'
  BY <1>1, <1>2, MaxCommandsAssumption DEF PathTypes, Places
<1>5. RequestsInOrder'
  BY <1>1, <1>2 DEF RequestsInOrder, Running
<1>6. ForwardedInOrder'
  BY <1>2, OneCaller DEF ForwardedInOrder
<1>7. OnTheWire'
  BY <1>2 DEF OnTheWire
<1>8. SeenInOrder'
  BY <1>1, <1>2, <1>3 DEF SeenInOrder
<1>9. AnswersAreOurs'
  <2>1. NoStream'
    BY <1>2 DEF NoStream
  <2>2. holding' # Nothing => hears # NoWriter /\ holding'.old
    <3>1. CASE holding = Nothing
      BY <1>2, <3>1
    <3>2. CASE holding # Nothing
      BY <1>1, <1>2, <3>2 DEF AnswersAreOurs
    <3> QED
      BY <3>1, <3>2
  <2> QED
    BY <1>1, <1>2, <2>1, <2>2, OneCaller DEF AnswersAreOurs, SuccessIsTheClientsAnswer
<1>10. DialoguesAccount'
  BY <1>1, <1>2 DEF DialoguesAccount, OwnTasks
<1> QED
  BY <1>4, <1>5, <1>6, <1>7, <1>8, <1>9, <1>10 DEF PathInv

-----------------------------------------------------------------------------
(* The path seen from the dispatcher *)

\* Each step of the path is a step of the dispatcher, a restart or an answer to a
\* command of an earlier process, or leaves the dispatcher alone.
LEMMA StepOfRestart ==
    PathInv /\ HoldsCommand /\ [PathNext]_<<restartVars, pathVars>>
        => [RestartNext]_restartVars
<1> SUFFICES ASSUME PathInv, HoldsCommand, [PathNext]_<<restartVars, pathVars>>
             PROVE  RestartNext \/ UNCHANGED restartVars
  OBVIOUS
<1>1. CASE \/ UiStep \/ OtherMaster \/ SendRequest \/ GiveUp \/ HandleSelect
           \/ OperateReturns \/ SelectExpires \/ SkipAnswer \/ LeaveStream
           \/ StreamBreaks \/ UNCHANGED <<restartVars, pathVars>>
  BY <1>1 DEF UiStep, OpenDialogue, Escape, SendCrob, SendAnalog, Submit, Redraw,
     OtherMaster, SendRequest, GiveUp, HandleSelect, OperateReturns, SelectExpires,
     SkipAnswer, LeaveStream, StreamBreaks
<1>2. CASE HandleOperate \/ Dispatching
  BY <1>2, OneCaller
     DEF HandleOperate, Operate, Dispatching, DispatchStep, RestartNext, Next
<1>3. ASSUME NEW w \in Writers,
             OpenStreamAgain(w) \/ NoticeLeft(w) \/ RegisterStep(w) \/ ReleaseStep(w)
      PROVE  RestartNext
  BY <1>3 DEF OpenStreamAgain, NoticeLeft, RegisterStep, ReleaseStep, StreamStep,
     RestartNext, Next
<1>4. CASE ReceiveCommand
  <2>1. PICK id \in Ids : Deliver(id, hears)
    BY <1>4 DEF ReceiveCommand
  <2>2. hears \in Writers
    BY <2>1 DEF PathInv, PathTypes, Deliver
  <2> QED
    BY <1>4, <2>1, <2>2 DEF ReceiveCommand, ClientStep, RestartNext, Next
<1>5. CASE AnswerCommand
  <2>1. holding.id \in Ids /\ "SUCCESS" \in Answers
    BY <1>5, AnswersAssumption DEF AnswerCommand, HoldsCommand
  <2> QED
    BY <1>5, <2>1 DEF AnswerCommand, ClientStep, RestartNext, Next
<1>6. CASE RestartBridge
  BY <1>6 DEF RestartBridge, RestartNext
<1> QED
  BY <1>1, <1>2, <1>3, <1>4, <1>5, <1>6 DEF PathNext, OutstationStep, ListenerStep

LEMMA HoldsCommandKept ==
    ASSUME HoldsCommand, [PathNext]_<<restartVars, pathVars>>
    PROVE  HoldsCommand'
<1>1. CASE ReceiveCommand
  BY <1>1 DEF ReceiveCommand, HoldsCommand
<1>2. CASE RestartBridge
  BY <1>2 DEF RestartBridge, HoldsCommand
<1>3. CASE AnswerCommand \/ SkipAnswer
  BY <1>3 DEF AnswerCommand, SkipAnswer, HoldsCommand
<1>4. CASE UNCHANGED holding
  BY <1>4 DEF HoldsCommand
<1>5. CASE \/ UiStep \/ OtherMaster \/ SendRequest \/ GiveUp \/ OutstationStep
           \/ SelectExpires \/ LeaveStream \/ StreamBreaks
           \/ \E w \in Writers : OpenStreamAgain(w) \/ NoticeLeft(w) \/ RegisterStep(w)
                                 \/ ReleaseStep(w)
           \/ UNCHANGED <<restartVars, pathVars>>
  <2>1. UNCHANGED holding
    BY <1>5 DEF UiStep, OpenDialogue, Escape, SendCrob, SendAnalog, Submit, Redraw,
       OtherMaster, SendRequest, GiveUp, OutstationStep, HandleSelect, HandleOperate,
       Dispatching, OperateReturns, SelectExpires, LeaveStream, StreamBreaks,
       OpenStreamAgain, NoticeLeft, RegisterStep, ReleaseStep, listenerVars, pathVars
  <2> QED
    BY <1>4, <2>1
<1> QED
  BY <1>1, <1>2, <1>3, <1>5 DEF PathNext, ListenerStep

-----------------------------------------------------------------------------
(* Theorems *)

\* The inductive invariant holds in every reachable state.
THEOREM PathInvariant == PathSpec => []PathInv
<1>1. PathInv /\ [PathNext]_<<restartVars, pathVars>> => PathInv'
  <2> SUFFICES ASSUME PathInv, [PathNext]_<<restartVars, pathVars>> PROVE PathInv'
    OBVIOUS
  <2>1. CASE UNCHANGED <<restartVars, pathVars>>
    <3>1. /\ PathTypes' /\ RequestsInOrder' /\ ForwardedInOrder' /\ OnTheWire'
          /\ SeenInOrder' /\ AnswersAreOurs' /\ OwnTasks' = OwnTasks
      BY <2>1, QuietKeeps
         DEF restartVars, pathVars, outstationVars, uiVars, PathInv, PathTypes
    <3> QED
      BY <2>1, <3>1 DEF PathInv, DialoguesAccount, pathVars, uiVars
  <2>2. CASE UiStep \/ OtherMaster \/ SelectExpires
    BY <2>2, DialogueKeeps, CommandsSubmitted DEF UiStep
  <2>3. CASE SendRequest \/ GiveUp
    BY <2>3, SendRequestKeeps, GiveUpKeeps
  <2>4. CASE OutstationStep
    BY <2>4, HandleSelectKeeps, HandleOperateKeeps, DispatchingKeeps, OperateReturnsKeeps
       DEF OutstationStep
  <2>5. CASE ListenerStep
    BY <2>5, StreamsKeep, ReceiveKeeps, AnswerKeeps, ListenerKeeps DEF ListenerStep
  <2>6. CASE \E w \in Writers : NoticeLeft(w) \/ RegisterStep(w) \/ ReleaseStep(w)
    BY <2>6, StreamsKeep
  <2>7. CASE RestartBridge
    BY <2>7, RestartKeeps
  <2> QED
    BY <2>1, <2>2, <2>3, <2>4, <2>5, <2>6, <2>7 DEF PathNext
<1> QED
  BY <1>1, PathInitEstablishes, PTL DEF PathSpec

\* The client sees each command at most once, in order, and none that was refused.
THEOREM ClientSeesOnce == PathSpec => []ClientSeesOperatesOnce
<1>1. PathInv => ClientSeesOperatesOnce
  BY DEF PathInv, SeenInOrder, Genuine, NotRefused, Refusals, ClientSeesOperatesOnce
<1> QED
  BY <1>1, PathInvariant, PTL

\* SCADA is told SUCCESS only of what the client has answered itself, restarts
\* notwithstanding.
THEOREM SuccessIsOurs == PathSpec => []SuccessIsTheClientsAnswer
<1>1. PathInv => SuccessIsTheClientsAnswer
  BY DEF PathInv, AnswersAreOurs
<1> QED
  BY <1>1, PathInvariant, PTL

\* A dialogue sends at most one command.
THEOREM OnePerDialogue == PathSpec => []OneCommandPerDialogue
<1>1. PathInv => OneCommandPerDialogue
  BY FS_CardinalityType
     DEF PathInv, PathTypes, DialoguesAccount, OwnTasks, OneCommandPerDialogue
<1> QED
  BY <1>1, PathInvariant, PTL

\* The path implements the restarted dispatcher: masters, the outstation and the
\* listener drive it through dispatch(), streams and answers only, stale ones
\* among them.
THEOREM DispatcherUnderPath == PathSpec => RestartSpec
<1>1. PathInit => RestartInit /\ HoldsCommand
  BY DEF PathInit, HoldsCommand
<1>2. HoldsCommand /\ [PathNext]_<<restartVars, pathVars>> => HoldsCommand'
  BY HoldsCommandKept
<1> QED
  BY <1>1, <1>2, StepOfRestart, PathInvariant, PTL DEF PathSpec, RestartSpec

\* So a command on its way keeps the promises of the dispatcher, whatever the
\* masters submit, the client answers and the restarts interrupt.
THEOREM PathIsSafe ==
    PathSpec => [](PendingIsInFlight /\ NewestStreamServes /\ WritesAreSafe)
  BY DispatcherUnderPath, RestartsAreSafe

=============================================================================
