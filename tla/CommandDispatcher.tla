-------------------------- MODULE CommandDispatcher --------------------------
(***************************************************************************)
(* dnp3/CommandDispatcher: the rendezvous between a SCADA command, which   *)
(* blocks an opendnp3 thread in dispatch(), and the Python client, which   *)
(* receives the command on its StreamCommands stream and answers it later  *)
(* with RespondToCommand.                                                  *)
(*                                                                         *)
(* Granularity.  writer_mutex_ is held across the call of Write(), which   *)
(* leaves the process, so the sections it protects are split: a caller     *)
(* whose pc is in HoldsWriterMutex owns the mutex.  pending_mutex_ only    *)
(* ever protects a few map operations, is always the innermost lock and is *)
(* never held across a call that blocks: its sections are single steps.    *)
(*                                                                         *)
(* A stream is named by the address of its ServerWriter, which lives in    *)
(* the frame of the gRPC handler and is reused by a later stream once the  *)
(* handler has returned.                                                   *)
(***************************************************************************)
EXTENDS Naturals, FiniteSets

CONSTANTS
    Callers,      \* threads that may be inside dispatch()
    Writers,      \* addresses of ServerWriter objects, one per stream handler
    Answers,      \* the CommandStatus values the Python client answers with
    MaxCommands,  \* bound on the number of commands dispatched
    NoWriter,     \* nullptr
    NoStatus      \* the absence of a CommandStatus

ASSUME NoWriterAssumption == NoWriter \notin Writers
ASSUME MaxCommandsAssumption == MaxCommands \in Nat

LocalStatuses == {"NOT_SUPPORTED", "DOWNSTREAM_FAIL", "TIMEOUT"}
Statuses == Answers \cup LocalStatuses

ASSUME NoStatusAssumption == NoStatus \notin Statuses

Ids == 1 .. MaxCommands

VARIABLES
    next_id_,       \* the id the next command gets
    pending_,       \* ids whose promise is in the map pending_
    promise,        \* promise[id]: the value set in the promise of command id
    active_writer_, \* the writer dispatch() sends on, or NoWriter
    pc,             \* where each caller is in dispatch()
    command_id,     \* each caller's local command_id; 0 outside dispatch()
    stream,         \* each StreamCommands handler: "free", "called", "open"
    cancelled,      \* the streams whose context reports IsCancelled()
    inflight,       \* <<id, w>>: command id is on the wire of stream w
    received,       \* ids the Python client has received
    newest,         \* history: the last writer that was registered
    refused,        \* history: ids of which some answer got success=false
    outcome         \* history: outcome[id] is what dispatch() returned for id

vars == <<next_id_, pending_, promise, active_writer_, pc, command_id, stream,
          cancelled, inflight, received, newest, refused, outcome>>

callerVars == <<pc, command_id, next_id_>>
streamVars == <<stream, cancelled, active_writer_, newest>>
clientVars == <<received, refused>>

Places == {"idle", "insert", "send", "rejected", "writing", "failed", "wait",
           "expired"}
HoldsWriterMutex == {"rejected", "writing", "failed"}

\* Between the insertion into pending_ and the return.
Registered == {"send", "rejected", "writing", "failed", "wait", "expired"}

WriterMutexFree == \A t \in Callers : pc[t] \notin HoldsWriterMutex

Init ==
    /\ next_id_ = 1
    /\ pending_ = {}
    /\ promise = [id \in Ids |-> NoStatus]
    /\ active_writer_ = NoWriter
    /\ pc = [t \in Callers |-> "idle"]
    /\ command_id = [t \in Callers |-> 0]
    /\ stream = [w \in Writers |-> "free"]
    /\ cancelled = {}
    /\ inflight = {}
    /\ received = {}
    /\ newest = NoWriter
    /\ refused = {}
    /\ outcome = [id \in Ids |-> NoStatus]

-----------------------------------------------------------------------------
(* dispatch(), on an opendnp3 thread t *)

\* next_id_.fetch_add(1): the command has its id and is not yet in pending_.
AssignId(t) ==
    /\ pc[t] = "idle"
    /\ next_id_ \in Ids
    /\ command_id' = [command_id EXCEPT ![t] = next_id_]
    /\ next_id_' = next_id_ + 1
    /\ pc' = [pc EXCEPT ![t] = "insert"]
    /\ UNCHANGED <<pending_, promise, streamVars, inflight, clientVars, outcome>>

\* Variant: one pending slot instead of a map, so a second command evicts the first.
InsertPendingSingleSlot(t) ==
    /\ pc[t] = "insert"
    /\ pending_' = {command_id[t]}
    /\ pc' = [pc EXCEPT ![t] = "send"]
    /\ UNCHANGED <<promise, command_id, next_id_, streamVars, inflight,
                   clientVars, outcome>>

\* The promise goes into pending_ before the command can reach the client.
InsertPending(t) ==
    /\ pc[t] = "insert"
    /\ pending_' = pending_ \cup {command_id[t]}
    /\ pc' = [pc EXCEPT ![t] = "send"]
    /\ UNCHANGED <<promise, command_id, next_id_, streamVars, inflight,
                   clientVars, outcome>>

\* Variant: active_writer_ is used without the test for nullptr.
LockWriterUntested(t) ==
    /\ pc[t] = "send"
    /\ WriterMutexFree
    /\ pc' = [pc EXCEPT ![t] = "writing"]
    /\ inflight' = inflight \cup {<<command_id[t], active_writer_>>}
    /\ UNCHANGED <<pending_, promise, command_id, next_id_, streamVars,
                   clientVars, outcome>>

\* writer_mutex_ is taken and active_writer_ is tested; with a writer, Write()
\* is called and the command may reach the client before Write() returns.
LockWriter(t) ==
    /\ pc[t] = "send"
    /\ WriterMutexFree
    /\ \/ /\ active_writer_ = NoWriter
          /\ pc' = [pc EXCEPT ![t] = "rejected"]
          /\ UNCHANGED inflight
       \/ /\ active_writer_ # NoWriter
          /\ pc' = [pc EXCEPT ![t] = "writing"]
          /\ inflight' = IF active_writer_ \in cancelled THEN inflight
                         ELSE inflight \cup {<<command_id[t], active_writer_>>}
    /\ UNCHANGED <<pending_, promise, command_id, next_id_, streamVars,
                   clientVars, outcome>>

\* Variant: a failing path returns without erasing its promise.
ReturnWithoutErase(t, status) ==
    /\ outcome' = [outcome EXCEPT ![command_id[t]] = status]
    /\ pc' = [pc EXCEPT ![t] = "idle"]
    /\ command_id' = [command_id EXCEPT ![t] = 0]
    /\ UNCHANGED <<pending_, promise, next_id_, streamVars, inflight, clientVars>>

\* pending_.erase(command_id) and return status, the end of every failing path.
EraseAndReturn(t, status) ==
    /\ pending_' = pending_ \ {command_id[t]}
    /\ outcome' = [outcome EXCEPT ![command_id[t]] = status]
    /\ pc' = [pc EXCEPT ![t] = "idle"]
    /\ command_id' = [command_id EXCEPT ![t] = 0]
    /\ UNCHANGED <<promise, next_id_, streamVars, inflight, clientVars>>

\* Variant: the promise is withdrawn only on the way in, so the rejected command
\* stays answerable.
RejectWithoutErase(t) ==
    /\ pc[t] = "rejected"
    /\ ReturnWithoutErase(t, "NOT_SUPPORTED")

\* No stream: the command never leaves the process.
RejectNoWriter(t) ==
    /\ pc[t] = "rejected"
    /\ EraseAndReturn(t, "NOT_SUPPORTED")

\* Write() returns true, which promises no delivery; writer_mutex_ is released.
WriteSucceeds(t) ==
    /\ pc[t] = "writing"
    /\ pc' = [pc EXCEPT ![t] = "wait"]
    /\ UNCHANGED <<pending_, promise, command_id, next_id_, streamVars,
                   inflight, clientVars, outcome>>

\* Write() returns false or throws: the stream it wrote on is broken.
WriteFails(t) ==
    /\ pc[t] = "writing"
    /\ active_writer_ \in cancelled
    /\ pc' = [pc EXCEPT ![t] = "failed"]
    /\ UNCHANGED <<pending_, promise, command_id, next_id_, streamVars,
                   inflight, clientVars, outcome>>

\* Variant: the error path takes writer_mutex_ again, which its thread holds.
FailWriteRelock(t) ==
    /\ pc[t] = "failed"
    /\ WriterMutexFree
    /\ EraseAndReturn(t, "DOWNSTREAM_FAIL")

FailWrite(t) ==
    /\ pc[t] = "failed"
    /\ EraseAndReturn(t, "DOWNSTREAM_FAIL")

\* wait_for() finds the future ready; future.get() is returned.
ReturnAnswer(t) ==
    /\ pc[t] = "wait"
    /\ promise[command_id[t]] # NoStatus
    /\ outcome' = [outcome EXCEPT ![command_id[t]] = promise[command_id[t]]]
    /\ pc' = [pc EXCEPT ![t] = "idle"]
    /\ command_id' = [command_id EXCEPT ![t] = 0]
    /\ UNCHANGED <<pending_, promise, next_id_, streamVars, inflight, clientVars>>

\* Variant: wait() in place of wait_for(timeout_).
WaitForever(t) ==
    /\ pc[t] = "wait"
    /\ promise[command_id[t]] # NoStatus
    /\ pc' = [pc EXCEPT ![t] = "expired"]
    /\ UNCHANGED <<pending_, promise, command_id, next_id_, streamVars,
                   inflight, clientVars, outcome>>

\* wait_for() returns future_status::timeout.  pending_ still holds the promise.
WaitTimesOut(t) ==
    /\ pc[t] = "wait"
    /\ promise[command_id[t]] = NoStatus
    /\ pc' = [pc EXCEPT ![t] = "expired"]
    /\ UNCHANGED <<pending_, promise, command_id, next_id_, streamVars,
                   inflight, clientVars, outcome>>

\* Only here, under pending_mutex_, is the command withdrawn.
Expire(t) ==
    /\ pc[t] = "expired"
    /\ EraseAndReturn(t, "TIMEOUT")

-----------------------------------------------------------------------------
(* StreamCommands, on a gRPC handler thread whose writer is w *)

\* The client opens a stream: gRPC calls the handler.
OpenStream(w) ==
    /\ stream[w] = "free"
    /\ stream' = [stream EXCEPT ![w] = "called"]
    /\ UNCHANGED <<cancelled, active_writer_, newest, callerVars, pending_,
                   promise, inflight, clientVars, outcome>>

\* registerWriter(): the newest stream replaces any older one.
RegisterWriter(w) ==
    /\ stream[w] = "called"
    /\ WriterMutexFree
    /\ active_writer_' = w
    /\ newest' = w
    /\ stream' = [stream EXCEPT ![w] = "open"]
    /\ UNCHANGED <<cancelled, callerVars, pending_, promise, inflight,
                   clientVars, outcome>>

\* The client goes away or the server is shutting down: what is still on the
\* wire of this stream is lost.
CancelStream(w) ==
    /\ stream[w] # "free"
    /\ w \notin cancelled
    /\ cancelled' = cancelled \cup {w}
    /\ inflight' = {m \in inflight : m[2] # w}
    /\ UNCHANGED <<stream, active_writer_, newest, callerVars, pending_,
                   promise, clientVars, outcome>>

\* Variant: release() clears active_writer_ whoever is registered.
ReleaseAnyToken(w) ==
    /\ stream[w] = "open"
    /\ w \in cancelled
    /\ WriterMutexFree
    /\ active_writer_' = NoWriter
    /\ stream' = [stream EXCEPT ![w] = "free"]
    /\ cancelled' = cancelled \ {w}
    /\ UNCHANGED <<newest, callerVars, pending_, promise, inflight, clientVars,
                   outcome>>

\* Variant: release() does not take writer_mutex_.
ReleaseTokenUnlocked(w) ==
    /\ stream[w] = "open"
    /\ w \in cancelled
    /\ active_writer_' = IF active_writer_ = w THEN NoWriter ELSE active_writer_
    /\ stream' = [stream EXCEPT ![w] = "free"]
    /\ cancelled' = cancelled \ {w}
    /\ UNCHANGED <<newest, callerVars, pending_, promise, inflight, clientVars,
                   outcome>>

\* The handler sees IsCancelled(), ~StreamToken runs release(), the handler
\* returns and its writer is destroyed.
ReleaseToken(w) ==
    /\ stream[w] = "open"
    /\ w \in cancelled
    /\ WriterMutexFree
    /\ active_writer_' = IF active_writer_ = w THEN NoWriter ELSE active_writer_
    /\ stream' = [stream EXCEPT ![w] = "free"]
    /\ cancelled' = cancelled \ {w}
    /\ UNCHANGED <<newest, callerVars, pending_, promise, inflight, clientVars,
                   outcome>>

-----------------------------------------------------------------------------
(* The Python client and RespondToCommand *)

Deliver(id, w) ==
    /\ <<id, w>> \in inflight
    /\ inflight' = inflight \ {<<id, w>>}
    /\ received' = received \cup {id}
    /\ UNCHANGED <<callerVars, pending_, promise, streamVars, refused, outcome>>

\* Variant: the answered promise stays in the map.
FulfillWithoutErase(id, status) ==
    \/ /\ id \in pending_
       /\ promise' = [promise EXCEPT ![id] = status]
       /\ UNCHANGED <<refused, pending_>>
    \/ /\ id \notin pending_
       /\ refused' = refused \cup {id}
       /\ UNCHANGED <<promise, pending_>>

\* fulfill(): TRUE iff the command was pending; the map entry goes with it.
Fulfill(id, status) ==
    \/ /\ id \in pending_
       /\ promise' = [promise EXCEPT ![id] = status]
       /\ pending_' = pending_ \ {id}
       /\ UNCHANGED refused
    \/ /\ id \notin pending_
       /\ refused' = refused \cup {id}
       /\ UNCHANGED <<promise, pending_>>

\* The client answers a command it has received: at once, late, or again.
RespondToCommand(id, status) ==
    /\ id \in received
    /\ Fulfill(id, status)
    /\ UNCHANGED <<callerVars, streamVars, inflight, received, outcome>>

-----------------------------------------------------------------------------

DispatchStep(t) ==
    \/ AssignId(t)
    \/ InsertPending(t)
    \/ LockWriter(t)
    \/ RejectNoWriter(t)
    \/ WriteSucceeds(t)
    \/ WriteFails(t)
    \/ FailWrite(t)
    \/ ReturnAnswer(t)
    \/ WaitTimesOut(t)
    \/ Expire(t)

StreamStep(w) ==
    \/ OpenStream(w)
    \/ RegisterWriter(w)
    \/ CancelStream(w)
    \/ ReleaseToken(w)

ClientStep ==
    \/ \E id \in Ids, w \in Writers : Deliver(id, w)
    \/ \E id \in Ids, status \in Answers : RespondToCommand(id, status)

Next ==
    \/ \E t \in Callers : DispatchStep(t)
    \/ \E w \in Writers : StreamStep(w)
    \/ ClientStep

Spec == Init /\ [][Next]_vars

\* A thread inside dispatch() keeps running, Write() returns, wait_for() is
\* bounded by timeout_ and a mutex starves nobody.  Nothing is assumed of the
\* client: it need not open a stream, receive, answer or hang up.
Fairness ==
    /\ \A t \in Callers :
        /\ WF_vars(InsertPending(t))
        /\ SF_vars(LockWriter(t))
        /\ WF_vars(RejectNoWriter(t) \/ FailWrite(t))
        /\ WF_vars(WriteSucceeds(t) \/ WriteFails(t))
        /\ WF_vars(ReturnAnswer(t) \/ WaitTimesOut(t))
        /\ WF_vars(Expire(t))
    /\ \A w \in Writers :
        /\ SF_vars(RegisterWriter(w))
        /\ SF_vars(ReleaseToken(w))

FairSpec == Spec /\ Fairness

-----------------------------------------------------------------------------
(* Properties *)

\* The type of every variable.
TypeOK ==
    /\ next_id_ \in 1 .. MaxCommands + 1
    /\ pending_ \subseteq Ids
    /\ promise \in [Ids -> Answers \cup {NoStatus}]
    /\ active_writer_ \in Writers \cup {NoWriter}
    /\ pc \in [Callers -> Places]
    /\ command_id \in [Callers -> Ids \cup {0}]
    /\ stream \in [Writers -> {"free", "called", "open"}]
    /\ cancelled \subseteq Writers
    /\ inflight \subseteq Ids \X Writers
    /\ received \subseteq Ids
    /\ newest \in Writers \cup {NoWriter}
    /\ refused \subseteq Ids
    /\ outcome \in [Ids -> Statuses \cup {NoStatus}]

\* pending_ holds a promise for exactly the commands that a caller still
\* waits for and nobody has answered: no path through dispatch() leaks an
\* entry, and no path withdraws the promise of a command still in flight.
PendingIsInFlight ==
    pending_ = {command_id[t] : t \in {u \in Callers :
                    /\ pc[u] \in Registered
                    /\ promise[command_id[u]] = NoStatus}}

\* dispatch() sends on the newest stream for as long as that stream's handler
\* runs and on no other: the token of a stream that was replaced never clears
\* its successor, and active_writer_ never outlives the handler whose frame
\* holds the writer.
NewestStreamServes ==
    active_writer_ = IF newest \in Writers /\ stream[newest] = "open"
                     THEN newest ELSE NoWriter

\* A ServerWriter allows one Write() at a time, and the handler that owns it
\* may not return during the call: writer_mutex_ must give both.
WritesAreSafe ==
    \A t \in Callers : pc[t] = "writing" =>
        /\ active_writer_ \in Writers
        /\ stream[active_writer_] = "open"
        /\ \A u \in Callers \ {t} : pc[u] # "writing"

\* What SCADA is told is the client's accepted answer, or a failure that the
\* dispatcher itself saw: a command answered NOT_SUPPORTED never reached the
\* client, and after any failure no later answer is accepted.
OutcomeIsExplained ==
    \A id \in Ids : outcome[id] # NoStatus =>
        /\ id \notin pending_
        /\ \/ outcome[id] = promise[id]
           \/ /\ outcome[id] = "NOT_SUPPORTED"
              /\ id \notin received
              /\ promise[id] = NoStatus
           \/ outcome[id] \in {"TIMEOUT", "DOWNSTREAM_FAIL"}

\* RespondToCommand reports success=false only for a command that already has
\* its answer or whose dispatch() has returned: an answer that arrives while
\* the caller is still inside Write() is not lost.
RefusedIsSettled ==
    \A id \in refused : promise[id] # NoStatus \/ outcome[id] # NoStatus

\* An accepted answer is never overwritten by a duplicate, and what dispatch()
\* returned for an id is never returned differently: an id is used once.
AnswersAreFinal ==
    [][\A id \in Ids :
        /\ promise[id] # NoStatus => promise'[id] = promise[id]
        /\ outcome[id] # NoStatus => outcome'[id] = outcome[id]]_<<promise, outcome>>

\* Every dispatch() returns, provided that Write() does: the client may answer,
\* answer twice, leave or do nothing.  The opendnp3 strand that called dispatch()
\* is blocked until then.
DispatchReturns ==
    \A t \in Callers : (pc[t] # "idle") ~> (pc[t] = "idle")

\* The handler of a cancelled stream returns, in spite of commands that keep
\* writer_mutex_ busy: Server::Shutdown() waits for it.
CancelledStreamEnds ==
    \A w \in Writers : (w \in cancelled) ~> (stream[w] = "free")

-----------------------------------------------------------------------------
(* The inductive invariant that the proofs use *)

Busy(t) == pc[t] # "idle"

\* A caller inside dispatch() has an id of its own that was handed out and has
\* no outcome yet; every id handed out is some caller's or has its outcome.
IdsAreOwned ==
    /\ \A t \in Callers : Busy(t) =>
        /\ command_id[t] \in Ids
        /\ command_id[t] < next_id_
        /\ outcome[command_id[t]] = NoStatus
    /\ \A t, u \in Callers :
        Busy(t) /\ Busy(u) /\ command_id[t] = command_id[u] => t = u
    /\ \A id \in Ids : id < next_id_ =>
        \/ outcome[id] # NoStatus
        \/ \E t \in Callers : Busy(t) /\ command_id[t] = id

\* A command whose caller has not put it in pending_ has no answer.
FreshIsOpen ==
    /\ \A id \in Ids : id >= next_id_ => promise[id] = NoStatus /\ outcome[id] = NoStatus
    /\ \A t \in Callers : pc[t] = "insert" => promise[command_id[t]] = NoStatus

\* PendingIsInFlight, one direction at a time.
PendingIsOwned ==
    /\ \A t \in Callers :
        pc[t] \in Registered /\ promise[command_id[t]] = NoStatus
            => command_id[t] \in pending_
    /\ \A id \in pending_ : \E t \in Callers :
        pc[t] \in Registered /\ command_id[t] = id /\ promise[id] = NoStatus

\* writer_mutex_ has one owner, and what its owner read of active_writer_ holds
\* until it is released.
MutexProtects ==
    /\ \A t, u \in Callers :
        pc[t] \in HoldsWriterMutex /\ pc[u] \in HoldsWriterMutex => t = u
    /\ \A t \in Callers : pc[t] \in {"writing", "failed"} => active_writer_ \in Writers

\* A command is unknown to the client until a caller has written it.
Unseen(id) ==
    /\ id \notin received
    /\ \A w \in Writers : <<id, w>> \notin inflight

UnsentIsUnseen ==
    /\ \A id \in Ids : id >= next_id_ => Unseen(id)
    /\ \A t \in Callers :
        pc[t] \in {"insert", "send", "rejected"} => Unseen(command_id[t])

\* What OutcomeIsExplained says, whoever answered.
OutcomeIsCaused ==
    \A id \in Ids : outcome[id] # NoStatus =>
        \/ outcome[id] = promise[id]
        \/ outcome[id] = "NOT_SUPPORTED" /\ Unseen(id)
        \/ outcome[id] \in {"TIMEOUT", "DOWNSTREAM_FAIL"}

\* What holds even if answers come to commands that nobody was sent.
DispatcherCore ==
    /\ TypeOK
    /\ IdsAreOwned
    /\ FreshIsOpen
    /\ UnsentIsUnseen
    /\ PendingIsOwned
    /\ MutexProtects
    /\ NewestStreamServes
    /\ OutcomeIsCaused

AnsweredWasReceived == \A id \in Ids : promise[id] # NoStatus => id \in received

DispatcherInv ==
    /\ DispatcherCore
    /\ AnsweredWasReceived
    /\ RefusedIsSettled

-----------------------------------------------------------------------------
(* What the documentation says of the dispatcher; the code does otherwise *)

\* docs/Guia_integracao_gRPC.md: once a command has timed out, an answer that
\* comes afterwards gets success=false.
LateAnswerIsRefused ==
    \A id \in Ids : outcome[id] = "TIMEOUT" => promise[id] = NoStatus

=============================================================================
