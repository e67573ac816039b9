-------------------------- MODULE DispatcherRestart --------------------------
(***************************************************************************)
(* The dispatcher across a restart of the bridge.  The packaged unit runs  *)
(* the process under Restart=on-failure, next_id_ starts at 1 again in the *)
(* new process, and the Python client survives with commands it received   *)
(* from the old one and may still answer.                                  *)
(***************************************************************************)
EXTENDS CommandDispatcher

CONSTANT MaxRestarts    \* bound on the number of restarts

VARIABLES
    restarts,   \* how often the process was restarted
    stale,      \* ids the client received from an earlier process
    crossed     \* history: ids whose accepted answer was to a stale command

restartVars == <<vars, restarts, stale, crossed>>

RestartInit ==
    /\ Init
    /\ restarts = 0
    /\ stale = {}
    /\ crossed = {}

\* The process dies at any point and starts again with nothing of its state.
Restart ==
    /\ restarts < MaxRestarts
    /\ restarts' = restarts + 1
    /\ stale' = stale \cup received
    /\ crossed' = {}
    /\ next_id_' = 1
    /\ pending_' = {}
    /\ promise' = [id \in Ids |-> NoStatus]
    /\ active_writer_' = NoWriter
    /\ pc' = [t \in Callers |-> "idle"]
    /\ command_id' = [t \in Callers |-> 0]
    /\ stream' = [w \in Writers |-> "free"]
    /\ cancelled' = {}
    /\ inflight' = {}
    /\ received' = {}
    /\ newest' = NoWriter
    /\ refused' = {}
    /\ outcome' = [id \in Ids |-> NoStatus]

\* The client answers a command of an earlier process.
RespondToStaleCommand(id, status) ==
    /\ id \in stale
    /\ Fulfill(id, status)
    /\ crossed' = IF id \in pending_ THEN crossed \cup {id} ELSE crossed
    /\ UNCHANGED <<callerVars, streamVars, inflight, received, outcome,
                   restarts, stale>>

RestartNext ==
    \/ Next /\ UNCHANGED <<restarts, stale, crossed>>
    \/ Restart
    \/ \E id \in Ids, status \in Answers : RespondToStaleCommand(id, status)

RestartSpec == RestartInit /\ [][RestartNext]_restartVars

\* docs/Guia_integracao_gRPC.md: command_id is a "unique" id assigned by the
\* bridge, and RespondToCommand sets the promise of the command it names.  So
\* no command is ever completed by the answer to another one.
CommandIdIsUnique == crossed = {}

-----------------------------------------------------------------------------
(* What restarts leave of the dispatcher's promises *)

\* OutcomeIsExplained, in every process: SCADA is told an answer that fulfill()
\* accepted or a failure of the dispatcher's own, after which it accepts none.
\* Only a command crossed by a stale answer may be refused with its promise set.
OutcomeIsExplainedOrCrossed ==
    \A id \in Ids : outcome[id] # NoStatus =>
        /\ id \notin pending_
        /\ \/ outcome[id] = promise[id]
           \/ /\ outcome[id] = "NOT_SUPPORTED"
              /\ id \notin received
              /\ promise[id] = NoStatus \/ id \in crossed
           \/ outcome[id] \in {"TIMEOUT", "DOWNSTREAM_FAIL"}

\* An answer is refused only if its command is settled, or if it was meant for a
\* command of an earlier process.
RefusedIsSettledOrStale ==
    \A id \in refused : \/ promise[id] # NoStatus \/ outcome[id] # NoStatus
                        \/ id \in stale

\* Within one process, an accepted answer and a returned outcome stay: only a
\* restart takes them away.
AnswersAreFinalUntilRestart ==
    [][restarts' = restarts =>
        \A id \in Ids :
            /\ promise[id] # NoStatus => promise'[id] = promise[id]
            /\ outcome[id] # NoStatus => outcome'[id] = outcome[id]]_restartVars

-----------------------------------------------------------------------------
(* The inductive invariant that the proofs use: as DispatcherInv, but that a   *)
(* stale answer may cross a command of the same id                            *)

AnsweredWasReceivedOrCrossed ==
    \A id \in Ids : promise[id] # NoStatus => id \in received \cup crossed

RestartInv ==
    /\ restarts \in Nat
    /\ DispatcherCore
    /\ AnsweredWasReceivedOrCrossed
    /\ RefusedIsSettledOrStale

=============================================================================
