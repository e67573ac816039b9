------------------------------ MODULE CommandPath ------------------------------
(***************************************************************************)
(* The way of a command: a dialogue of the master simulator, the opendnp3  *)
(* master and outstation, ForwardingCommandHandler, CommandDispatcher, and *)
(* the command listener of dsp_sim.py; with restarts of the bridge.        *)
(*                                                                         *)
(* External: opendnp3.  The master runs its tasks one at a time and gives  *)
(* up on one whose response does not come; the outstation handles its      *)
(* requests in order, on one strand, and lets an OPERATE through only      *)
(* after the SELECT of the same command.                                   *)
(***************************************************************************)
EXTENDS DispatcherRestart, Integers, Sequences

CONSTANTS
    Strand,         \* the thread that runs opendnp3's outstation
    Crobs,          \* the commands the CROB dialogue may send
    Typed,          \* what may be typed in the analog dialogue
    OtherTasks,     \* the tasks of a master other than the simulator
    MaxDialogues,   \* bound on the number of dialogues opened
    MaxTasks,       \* bound on the number of commands submitted
    MaxFaults,      \* bound on the number of restarts and of broken streams
    Int16Range,     \* 2^16
    Invalid,        \* a text that stoi() throws on
    Nothing         \* no command, no selection

ASSUME OneCaller == Callers = {Strand}
ASSUME AnswersAssumption == "SUCCESS" \in Answers
ASSUME TasksAssumption ==
    \A task \in OtherTasks :
        task = [style |-> task.style, command |-> task.command]
        /\ task.style \in {"select", "direct"}

VARIABLES
    command_mode,   \* "direct_operate" or "select_before_operate"
    modal,          \* show_crob_modal, show_analog_modal: "none", "crob", "analog"
    tab_index,      \* the child that is drawn: the same three
    opened,         \* how many dialogues were opened
    tasks,          \* every command submitted to a master: [style, command]
    results,        \* the result of every task that is over; the next one runs
    awaited,        \* what the running task awaits: "none", "select", "operate"
    requests,       \* the requests at the outstation: [func, command, n]
    selected,       \* the outstation's selection: [command, n]
    operating,      \* the id of the command the strand is dispatching, or 0
    forwarded,      \* the CommandRequest of each id, with its task's number n
    hears,          \* the stream the client listens on, or NoWriter
    listened,       \* history: the client has had a stream
    holding,        \* the command its loop body works on: [id, n, old]
    seen,           \* history: every command the client received
    confirmed,      \* history: the tasks whose command the client answered
    breaks          \* how many streams broke for no reason

uiVars == <<modal, tab_index, opened>>
masterVars == <<tasks, results, awaited>>
outstationVars == <<requests, selected, operating, forwarded>>
listenerVars == <<hears, listened, holding, seen, confirmed, breaks>>
pathVars == <<command_mode, uiVars, masterVars, outstationVars, listenerVars>>

PathInit ==
    /\ RestartInit
    /\ command_mode \in {"direct_operate", "select_before_operate"}
    /\ modal = "none" /\ tab_index = "none" /\ opened = 0
    /\ tasks = <<>> /\ results = <<>> /\ awaited = "none"
    /\ requests = <<>> /\ selected = Nothing /\ operating = 0
    /\ forwarded = [id \in Ids |-> Nothing]
    /\ hears = NoWriter /\ listened = FALSE /\ holding = Nothing
    /\ seen = <<>> /\ confirmed = {} /\ breaks = 0

-----------------------------------------------------------------------------
(* The master simulator: buildRoot() *)

Submit(style, command) ==
    /\ Len(tasks) < MaxTasks
    /\ tasks' = Append(tasks, [style |-> style, command |-> command])
    /\ UNCHANGED <<command_mode, results, awaited, outstationVars, listenerVars,
                   restartVars>>

\* A key opens a dialogue when none is open.
OpenDialogue(dialogue) ==
    /\ modal = "none"
    /\ opened < MaxDialogues
    /\ modal' = dialogue
    /\ tab_index' = dialogue
    /\ opened' = opened + 1
    /\ UNCHANGED <<command_mode, masterVars, outstationVars, listenerVars, restartVars>>

\* Variant: an event goes to the child that is drawn.
ReachesDrawn(dialogue) == tab_index = dialogue

\* An event reaches a dialogue through the root, which first sets tab_index from
\* the flags: what is still drawn of a closed dialogue gets no event.
Reaches(dialogue) == modal = dialogue

CloseDialogue(dialogue) ==
    /\ Reaches(dialogue)
    /\ modal' = "none"
    /\ tab_index' = dialogue
    /\ UNCHANGED opened

Escape(dialogue) ==
    /\ CloseDialogue(dialogue)
    /\ UNCHANGED <<command_mode, masterVars, outstationVars, listenerVars, restartVars>>

\* Return in the CROB dialogue.  The arrows reach every point, the radio box
\* every operation.
SendCrob ==
    /\ CloseDialogue("crob")
    /\ \E command \in Crobs : Submit("select", command)

ToInt16(n) == ((n + Int16Range \div 2) % Int16Range) - (Int16Range \div 2)

\* Return in the analog dialogue: an invalid text is only logged.
SendAnalog ==
    /\ CloseDialogue("analog")
    /\ \E typed \in Typed :
        \/ /\ typed = Invalid
           /\ UNCHANGED <<command_mode, masterVars, outstationVars, listenerVars,
                          restartVars>>
        \/ /\ typed # Invalid
           /\ Submit("direct", [kind |-> "INT16", payload |-> ToInt16(typed)])

\* Any other event, notify()'s among them: the closed dialogue disappears.
Redraw ==
    /\ tab_index # modal
    /\ tab_index' = modal
    /\ UNCHANGED <<modal, opened, command_mode, masterVars, outstationVars,
                   listenerVars, restartVars>>

\* A master that is not the simulator.
OtherMaster ==
    /\ \E task \in OtherTasks : Submit(task.style, task.command)
    /\ UNCHANGED uiVars

-----------------------------------------------------------------------------
(* The opendnp3 master and outstation *)

Running == Len(results) + 1

SendRequest ==
    /\ awaited = "none"
    /\ Running <= Len(tasks)
    /\ LET func == IF tasks[Running].style = "select" THEN "select" ELSE "operate"
       IN  /\ awaited' = func
           /\ requests' = Append(requests,
                    [func |-> IF func = "select" THEN func ELSE "direct",
                     command |-> tasks[Running].command, n |-> Running])
    /\ UNCHANGED <<command_mode, uiVars, tasks, results, selected, operating,
                   forwarded, listenerVars, restartVars>>

Finish(status) == results' = Append(results, status) /\ awaited' = "none"

\* A response timeout, or the connection is gone.  What was sent may still be
\* handled.
GiveUp ==
    /\ awaited # "none"
    /\ Finish("NO_RESPONSE")
    /\ UNCHANGED <<command_mode, uiVars, tasks, outstationVars, listenerVars, restartVars>>

\* The response to the first request: the master has it, unless it gave up.
\* After a successful SELECT it sends the OPERATE.
Reply(status) ==
    LET request == Head(requests)
        proceed == request.func = "select" /\ status = "SUCCESS"
    IN  IF request.n # Running
        THEN requests' = Tail(requests) /\ UNCHANGED <<results, awaited>>
        ELSE IF proceed
        THEN /\ requests' = Append(Tail(requests), [request EXCEPT !.func = "operate"])
             /\ awaited' = "operate"
             /\ UNCHANGED results
        ELSE requests' = Tail(requests) /\ Finish(status)

StrandIdle == pc[Strand] = "idle" /\ operating = 0

\* Select(), the same for all five kinds of command.
Select == IF command_mode = "direct_operate" THEN "NOT_SUPPORTED" ELSE "SUCCESS"

HandleSelect ==
    /\ StrandIdle
    /\ requests # <<>>
    /\ Head(requests).func = "select"
    /\ selected' = IF Select = "SUCCESS"
                   THEN [command |-> Head(requests).command, n |-> Head(requests).n]
                   ELSE selected
    /\ Reply(Select)
    /\ UNCHANGED <<command_mode, uiVars, tasks, operating, forwarded, listenerVars,
                   restartVars>>

SelectExpires ==
    /\ selected # Nothing
    /\ selected' = Nothing
    /\ UNCHANGED <<command_mode, uiVars, masterVars, requests, operating, forwarded,
                   listenerVars, restartVars>>

CrobOperations == {"NUL", "PULSE_ON", "PULSE_OFF", "LATCH_ON", "LATCH_OFF"}

toCrobOperation(op) == IF op \in CrobOperations THEN op ELSE "NUL"

\* Operate() and dispatchAnalog(): the CommandRequest made of a command.
ToRequest(command) ==
    IF command.kind = "CROB" THEN [command EXCEPT !.payload = toCrobOperation(@)]
    ELSE command

\* Operate(), which asks neither for the mode nor for the OperateType, calls
\* dispatch().
Operate(request) ==
    /\ AssignId(Strand)
    /\ operating' = next_id_
    /\ forwarded' = [forwarded EXCEPT ![next_id_] =
                        [request |-> ToRequest(request.command), n |-> request.n]]
    /\ UNCHANGED <<restarts, stale, crossed>>

\* OPERATE without its SELECT is answered by opendnp3 itself.
HandleOperate ==
    /\ StrandIdle
    /\ requests # <<>>
    /\ Head(requests).func \in {"operate", "direct"}
    /\ LET request == Head(requests)
           allowed == request.func = "direct"
                      \/ selected = [command |-> request.command, n |-> request.n]
       IN  \/ /\ allowed
              /\ Operate(request)
              /\ selected' = Nothing
              /\ UNCHANGED <<requests, results, awaited>>
           \/ /\ ~allowed
              /\ Reply("NO_SELECT")
              /\ UNCHANGED <<selected, operating, forwarded, restartVars>>
    /\ UNCHANGED <<command_mode, uiVars, tasks, listenerVars>>

\* Variant: a command that was not answered in time is dispatched again.
OperateReturnsRetry ==
    /\ operating # 0
    /\ pc[Strand] = "idle"
    /\ IF outcome[operating] = "TIMEOUT" /\ next_id_ \in Ids
       THEN Operate(Head(requests)) /\ UNCHANGED <<requests, results, awaited, selected>>
       ELSE /\ operating' = 0
            /\ Reply(outcome[operating])
            /\ UNCHANGED <<selected, forwarded, restartVars>>
    /\ UNCHANGED <<command_mode, uiVars, tasks, listenerVars>>

\* dispatch() has returned: opendnp3 responds with its status.
OperateReturns ==
    /\ operating # 0
    /\ pc[Strand] = "idle"
    /\ operating' = 0
    /\ Reply(outcome[operating])
    /\ UNCHANGED <<command_mode, uiVars, tasks, selected, forwarded, listenerVars,
                   restartVars>>

\* The steps of dispatch() after AssignId.
Dispatching ==
    /\ operating # 0
    /\ DispatchStep(Strand)
    /\ command_id[Strand] # 0
    /\ UNCHANGED <<restarts, stale, crossed, pathVars>>

-----------------------------------------------------------------------------
(* The client: command_listener() of dsp_sim.py, and gRPC below it *)

\* The pause of two seconds is over, long enough for the few instructions from
\* a handler's start to its registration, and from pending_ to active_writer_.
Paused ==
    /\ \A v \in Writers : stream[v] # "called"
    /\ pc[Strand] \notin {"insert", "send"}

\* The stream is opened: at once when the client starts, after the pause when it
\* has lost one.
OpenStreamAgain(w) ==
    /\ hears = NoWriter
    /\ listened => Paused
    /\ OpenStream(w)
    /\ hears' = w
    /\ listened' = TRUE
    /\ UNCHANGED <<restarts, stale, crossed, command_mode, uiVars, masterVars,
                   outstationVars, holding, seen, confirmed, breaks>>

\* The loop takes the next command of its stream.
ReceiveCommand ==
    /\ holding = Nothing
    /\ \E id \in Ids :
        /\ \A earlier \in Ids : earlier < id => <<earlier, hears>> \notin inflight
        /\ Deliver(id, hears)
        /\ holding' = [id |-> id, n |-> forwarded[id].n, old |-> FALSE]
        /\ seen' = Append(seen, forwarded[id])
    /\ UNCHANGED <<restarts, stale, crossed, command_mode, uiVars, masterVars,
                   outstationVars, hears, listened, confirmed, breaks>>

\* It answers SUCCESS, be it to a process that never sent the command.
AnswerCommand ==
    /\ holding # Nothing
    /\ \/ /\ ~holding.old
          /\ RespondToCommand(holding.id, "SUCCESS")
          /\ UNCHANGED <<restarts, stale, crossed>>
       \/ /\ holding.old
          /\ RespondToStaleCommand(holding.id, "SUCCESS")
    /\ confirmed' = confirmed \cup {holding.n}
    /\ holding' = Nothing
    /\ UNCHANGED <<command_mode, uiVars, masterVars, outstationVars, hears, listened,
                   seen, breaks>>

\* Automatic answers are off, or the call fails.
SkipAnswer ==
    /\ holding # Nothing
    /\ holding' = Nothing
    /\ UNCHANGED <<command_mode, uiVars, masterVars, outstationVars, hears, listened,
                   seen, confirmed, breaks, restartVars>>

\* The server no longer serves stream w.
Dead(w) == stream[w] = "free" \/ w \in cancelled

\* Variant: commands are answered on a thread of their own, and the stream is
\* opened again while an answer is still to come.
LeaveStreamAnswering ==
    /\ hears # NoWriter
    /\ Dead(hears)
    /\ hears' = NoWriter
    /\ UNCHANGED <<command_mode, uiVars, masterVars, outstationVars, listened, holding,
                   seen, confirmed, breaks, restartVars>>

\* Between two commands the loop meets the end of its stream.
LeaveStream ==
    /\ hears # NoWriter
    /\ holding = Nothing
    /\ Dead(hears)
    /\ hears' = NoWriter
    /\ UNCHANGED <<command_mode, uiVars, masterVars, outstationVars, listened, holding,
                   seen, confirmed, breaks, restartVars>>

\* The same, of a connection that broke and the server has yet to notice.
StreamBreaks ==
    /\ hears # NoWriter
    /\ holding = Nothing
    /\ breaks + restarts < MaxFaults
    /\ breaks' = breaks + 1
    /\ hears' = NoWriter
    /\ UNCHANGED <<command_mode, uiVars, masterVars, outstationVars, listened, holding,
                   seen, confirmed, restartVars>>

\* gRPC notices that a client has left its stream.
NoticeLeft(w) ==
    /\ w # hears
    /\ CancelStream(w)
    /\ UNCHANGED <<restarts, stale, crossed, pathVars>>

RegisterStep(w) == RegisterWriter(w) /\ UNCHANGED <<restarts, stale, crossed, pathVars>>
ReleaseStep(w) == ReleaseToken(w) /\ UNCHANGED <<restarts, stale, crossed, pathVars>>

\* The bridge is killed and starts again: the masters' connection and the
\* streams are gone; the client goes on with what it holds.
RestartBridge ==
    /\ breaks + restarts < MaxFaults
    /\ Restart
    /\ requests' = <<>> /\ selected' = Nothing /\ operating' = 0
    /\ holding' = IF holding = Nothing THEN Nothing ELSE [holding EXCEPT !.old = TRUE]
    /\ UNCHANGED <<command_mode, uiVars, masterVars, forwarded, hears, listened, seen,
                   confirmed, breaks>>

-----------------------------------------------------------------------------

UiStep ==
    \/ \E dialogue \in {"crob", "analog"} : OpenDialogue(dialogue) \/ Escape(dialogue)
    \/ SendCrob \/ SendAnalog
    \/ Redraw

OutstationStep ==
    HandleSelect \/ HandleOperate \/ Dispatching \/ OperateReturns

ListenerStep ==
    \/ \E w \in Writers : OpenStreamAgain(w)
    \/ ReceiveCommand \/ AnswerCommand \/ SkipAnswer
    \/ LeaveStream \/ StreamBreaks

PathNext ==
    \/ UiStep
    \/ OtherMaster
    \/ SendRequest \/ GiveUp
    \/ OutstationStep \/ SelectExpires
    \/ ListenerStep
    \/ \E w \in Writers : NoticeLeft(w) \/ RegisterStep(w) \/ ReleaseStep(w)
    \/ RestartBridge

PathSpec == PathInit /\ [][PathNext]_<<restartVars, pathVars>>

\* The strand runs, Write() and wait_for() return, writer_mutex_ starves no
\* handler, gRPC notices that a stream was left, and the client's loop runs.
\* Nothing is assumed of the masters, and the client need not answer.
FairPathSpec ==
    /\ PathSpec
    /\ WF_vars(Dispatching)
    /\ SF_streamVars(\E w \in Writers : RegisterStep(w))
    /\ SF_streamVars(\E w \in Writers : ReleaseStep(w))
    /\ WF_streamVars(\E w \in Writers : NoticeLeft(w))
    /\ WF_listenerVars(\E w \in Writers : OpenStreamAgain(w))
    /\ WF_listenerVars(AnswerCommand \/ SkipAnswer)
    /\ WF_listenerVars(LeaveStream)

-----------------------------------------------------------------------------
(* Properties *)

\* The client receives each command at most once, in the order of submission,
\* as it was submitted, and never one that SCADA was told was not selected or
\* not supported: SELECTs stay inside, and nothing is dispatched again, whatever
\* times out, breaks or restarts in between.
ClientSeesOperatesOnce ==
    /\ \A j, k \in DOMAIN seen : j < k => seen[j].n < seen[k].n
    /\ \A j \in DOMAIN seen :
        /\ seen[j].request = ToRequest(tasks[seen[j].n].command)
        /\ command_mode = "direct_operate" => tasks[seen[j].n].style = "direct"
        /\ seen[j].n \in DOMAIN results =>
            results[seen[j].n] \notin {"NOT_SUPPORTED", "NO_SELECT"}

\* SCADA is told SUCCESS only of a command that the client has answered, itself
\* and not a namesake: ids repeat after a restart, but the listener answers the
\* old command before it opens a stream to the new process.
SuccessIsTheClientsAnswer ==
    \A n \in DOMAIN results : results[n] = "SUCCESS" => n \in confirmed

\* The operator sends at most one command per dialogue opened: a second Return
\* falls on a dialogue that is still drawn, and no longer open.
OneCommandPerDialogue ==
    Cardinality({n \in DOMAIN tasks : tasks[n] \notin OtherTasks}) <= opened

\* Whatever breaks, the client ends up with the stream that dispatch() sends on.
StreamIsRestored == <>[](hears # NoWriter /\ active_writer_ = hears)

-----------------------------------------------------------------------------
(* The inductive invariant that the proofs use *)

Commands ==
    Crobs \cup {task.command : task \in OtherTasks}
    \cup {[kind |-> "INT16", payload |-> ToInt16(typed)] : typed \in Typed \ {Invalid}}

TaskSet == [style : {"select", "direct"}, command : Commands]

RequestSet == [func : {"select", "operate", "direct"}, command : Commands, n : Nat]

Forwards == [request : {ToRequest(command) : command \in Commands}, n : Nat]

Refusals == {"NOT_SUPPORTED", "NO_SELECT"}

PathTypes ==
    /\ command_mode \in {"direct_operate", "select_before_operate"}
    /\ opened \in Nat
    /\ tasks \in Seq(TaskSet)
    /\ results \in Seq({"SUCCESS", "NO_RESPONSE"} \cup Refusals \cup LocalStatuses)
    /\ awaited \in {"none", "select", "operate"}
    /\ requests \in Seq(RequestSet)
    /\ operating \in {0} \cup Ids
    /\ next_id_ \in 1 .. MaxCommands + 1
    /\ DOMAIN forwarded = Ids
    /\ \A id \in 1 .. next_id_ - 1 : forwarded[id] \in Forwards
    /\ seen \in Seq(Forwards)
    /\ pc \in [Callers -> Places]
    /\ command_id \in [Callers -> {0} \cup Ids]
    /\ promise \in [Ids -> {NoStatus, "SUCCESS"}]
    /\ DOMAIN outcome = Ids
    /\ stream \in [Writers -> {"free", "called", "open"}]
    /\ hears \in Writers \cup {NoWriter} /\ active_writer_ \in Writers \cup {NoWriter}
    /\ inflight \subseteq Ids \X Writers

\* The command being dispatched has not been sent and will not be, or not yet.
NotSent ==
    \/ pc[Strand] \in {"insert", "send", "rejected"}
    \/ pc[Strand] = "idle" /\ outcome[operating] = "NOT_SUPPORTED"

\* The task of number n is over, or it is the one that runs.
Begun(n) == n \in DOMAIN tasks /\ n <= Running /\ (awaited = "none" => n < Running)

\* No task that SCADA was told was refused.
NotRefused(n) == n \in DOMAIN results => results[n] \notin Refusals

\* The outstation has the requests in the order of their tasks.
RequestsInOrder ==
    /\ awaited # "none" => Running \in DOMAIN tasks
    /\ \A j, k \in DOMAIN requests : j < k => requests[j].n < requests[k].n
    /\ \A k \in DOMAIN requests :
        /\ Begun(requests[k].n) /\ NotRefused(requests[k].n)
        /\ requests[k].command = tasks[requests[k].n].command
        /\ requests[k].func = "direct" <=> tasks[requests[k].n].style = "direct"
        /\ requests[k].func = "operate" => command_mode # "direct_operate"

\* A CommandRequest made of its task, in a mode that lets it through.
Genuine(f) ==
    /\ Begun(f.n)
    /\ f.request = ToRequest(tasks[f.n].command)
    /\ command_mode = "direct_operate" => tasks[f.n].style = "direct"

\* The strand dispatches the first request, and ids are in the order of tasks.
ForwardedInOrder ==
    /\ operating = 0 => pc[Strand] = "idle"
    /\ command_id[Strand] = IF pc[Strand] = "idle" THEN 0 ELSE operating
    /\ operating # 0 =>
        /\ operating = next_id_ - 1
        /\ requests # <<>> /\ requests[1].n = forwarded[operating].n
        /\ requests[1].func # "select"
        /\ pc[Strand] = "idle" => outcome[operating] \in {"SUCCESS"} \cup LocalStatuses
    /\ \A id \in 1 .. next_id_ - 1 :
        /\ Genuine(forwarded[id])
        /\ id # operating => \A k \in DOMAIN requests : forwarded[id].n < requests[k].n
        /\ \A later \in id + 1 .. next_id_ - 1 : forwarded[id].n < forwarded[later].n

\* What is on the wire of a stream that is served; on the client's, it is newer
\* than all the client has seen.
OnTheWire ==
    /\ active_writer_ # NoWriter => stream[active_writer_] = "open"
    /\ \A m \in inflight :
        /\ m[1] < next_id_
        /\ stream[m[2]] # "free" /\ m[2] \notin cancelled
        /\ m[1] = operating => ~NotSent
        /\ NotRefused(forwarded[m[1]].n)
        /\ m[2] = hears => \A j \in DOMAIN seen : seen[j].n < forwarded[m[1]].n

\* A command that the client has seen is not to be dispatched any more.
SeenInOrder ==
    /\ \A j, k \in DOMAIN seen : j < k => seen[j].n < seen[k].n
    /\ \A j \in DOMAIN seen :
        /\ Genuine(seen[j]) /\ NotRefused(seen[j].n)
        /\ \A k \in DOMAIN requests :
            /\ seen[j].n <= requests[k].n
            /\ seen[j].n = requests[k].n => k = 1 /\ operating # 0 /\ ~NotSent

NoStream == \A w \in Writers : stream[w] = "free"

\* While the listener works on a command of the old process the new one has no
\* stream, so a promise that its answer sets is of a command that is never sent.
AnswersAreOurs ==
    /\ hears # NoWriter => listened
    /\ holding # Nothing =>
        /\ hears # NoWriter
        /\ IF holding.old THEN NoStream /\ (operating # 0 => NotSent)
           ELSE holding.id \in 1 .. next_id_ - 1 /\ holding.n = forwarded[holding.id].n
    /\ \A id \in pending_ :
        id = operating /\ pc[Strand] \in Registered /\ promise[id] = NoStatus
    /\ \A id \in Ids : id >= next_id_ => promise[id] = NoStatus
    /\ pc[Strand] = "insert" => promise[operating] = NoStatus
    /\ operating # 0 /\ promise[operating] = "SUCCESS" =>
        \/ forwarded[operating].n \in confirmed
        \/ NotSent /\ listened /\ (pc[Strand] = "send" => NoStream)
    /\ operating # 0 /\ pc[Strand] = "idle" /\ outcome[operating] = "SUCCESS" =>
        forwarded[operating].n \in confirmed
    /\ SuccessIsTheClientsAnswer

OwnTasks == {n \in DOMAIN tasks : tasks[n] \notin OtherTasks}

\* A dialogue that is open has not sent its command yet.
DialoguesAccount ==
    /\ IsFiniteSet(OwnTasks)
    /\ Cardinality(OwnTasks) + (IF modal = "none" THEN 0 ELSE 1) <= opened

PathInv ==
    /\ PathTypes
    /\ RequestsInOrder
    /\ ForwardedInOrder
    /\ OnTheWire
    /\ SeenInOrder
    /\ AnswersAreOurs
    /\ DialoguesAccount

\* The listener's command, by which CommandPath is seen to implement
\* DispatcherRestart: an answer is to an id that was once handed out.
HoldsCommand ==
    holding # Nothing =>
        /\ holding = [id |-> holding.id, n |-> holding.n, old |-> holding.old]
        /\ holding.id \in Ids

=============================================================================
