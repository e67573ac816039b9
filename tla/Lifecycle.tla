------------------------------- MODULE Lifecycle -------------------------------
(***************************************************************************)
(* main.cpp and grpc/GrpcServer on top of Bridge: the order in which the   *)
(* process starts its outstation, its flush thread and its gRPC server,    *)
(* and takes them down after a signal, while handlers, a SCADA command and *)
(* the client are at whatever they are at.                                 *)
(*                                                                         *)
(* main() is the controlling thread of Bridge.  An UpdatePoints call is    *)
(* one point.  A SCADA command is one step into dispatch() and one step    *)
(* out: CommandDispatcher has what happens in between.  External: gRPC's   *)
(* Shutdown(deadline) accepts no more calls, cancels at the deadline those *)
(* still running, and returns when every handler has; DNP3Manager's        *)
(* Shutdown() returns when its threads are idle.                           *)
(***************************************************************************)
EXTENDS Bridge, FiniteSets

CONSTANTS
    Streams     \* StreamCommands calls the client may have open

VARIABLES
    g_shutdown_requested,
    main,           \* where main() is: see MainPlaces
    grpc,           \* grpc_thread: see GrpcPlaces
    server_,        \* TRUE iff the pointer server_ is set
    shuttingDown,   \* gRPC: Shutdown() was called
    deadlinePassed, \* gRPC: the deadline of Shutdown() is over
    updating,       \* each producer: an UpdatePoints call "none", "called" or "pushed"
    answered,       \* history: how many UpdatePoints calls got success=true
    streaming,      \* the StreamCommands calls whose handler runs
    cancelled,      \* those whose context reports IsCancelled()
    outstation_,    \* TRUE iff the pointer outstation_ is set
    dispatching,    \* TRUE iff an opendnp3 thread is inside dispatch()
    dropped         \* history: updates that met a null outstation_

lifeVars == <<g_shutdown_requested, main, grpc, server_, shuttingDown,
              deadlinePassed, updating, answered, streaming, cancelled,
              outstation_, dispatching, dropped>>
processVars == <<vars, lifeVars>>

\* In the order main() goes through them; "join" is ~jthread.
MainPlaces == {"construct", "bridge.start", "spawn", "poll", "server.stop",
               "Shutdown", "bridge.stop", "outstation.shutdown", "manager.Shutdown",
               "join", "exited"}
\* "none": no thread; "build": in BuildAndStart(); "serve": it has returned and
\* server_ is not yet assigned; "wait": at or in Wait(); "returned".
GrpcPlaces == {"none", "build", "serve", "wait", "returned"}

LifecycleInit ==
    /\ Init
    /\ g_shutdown_requested = FALSE
    /\ main = "construct"
    /\ grpc = "none"
    /\ server_ = FALSE
    /\ shuttingDown = FALSE
    /\ deadlinePassed = FALSE
    /\ updating = [p \in Producers |-> "none"]
    /\ answered = 0
    /\ streaming = {}
    /\ cancelled = {}
    /\ outstation_ = FALSE
    /\ dispatching = FALSE
    /\ dropped = 0

grpcVars == <<grpc, server_, shuttingDown, deadlinePassed>>
callVars == <<updating, answered, streaming, cancelled>>
dnp3Vars == <<outstation_, dispatching, dropped>>

-----------------------------------------------------------------------------
(* main() *)

\* SIGINT or SIGTERM: the handlers are installed before anything is started.
Signal ==
    /\ ~g_shutdown_requested
    /\ g_shutdown_requested' = TRUE
    /\ UNCHANGED <<vars, main, grpcVars, callVars, dnp3Vars>>

OutstationStart ==
    /\ main = "construct"
    /\ outstation_' = TRUE
    /\ main' = "bridge.start"
    /\ UNCHANGED <<vars, g_shutdown_requested, grpcVars, callVars, dispatching, dropped>>

\* bridge.start(), the first half and the return.
BridgeStart ==
    /\ main = "bridge.start"
    /\ \/ Start /\ UNCHANGED main
       \/ SpawnFlushThread /\ main' = "spawn"
    /\ UNCHANGED <<g_shutdown_requested, grpcVars, callVars, dnp3Vars>>

SpawnGrpcThread ==
    /\ main = "spawn"
    /\ grpc' = "build"
    /\ main' = "poll"
    /\ UNCHANGED <<vars, g_shutdown_requested, server_, shuttingDown,
                   deadlinePassed, callVars, dnp3Vars>>

\* The loop around sleep_for() sees the flag.
LeavePoll ==
    /\ main = "poll"
    /\ g_shutdown_requested
    /\ main' = "server.stop"
    /\ UNCHANGED <<vars, g_shutdown_requested, grpcVars, callVars, dnp3Vars>>

\* GrpcServer::stop() reads server_, which grpc_thread may be about to set.
\* The two are not synchronised: the read finds the old or the new value.
ServerStop ==
    /\ main = "server.stop"
    /\ \/ server_ /\ shuttingDown' = TRUE /\ main' = "Shutdown"
       \/ ~server_ /\ main' = "bridge.stop" /\ UNCHANGED shuttingDown
    /\ UNCHANGED <<vars, g_shutdown_requested, grpc, server_, deadlinePassed,
                   callVars, dnp3Vars>>

NoHandlerRuns == streaming = {} /\ \A p \in Producers : updating[p] = "none"

\* Variant: stop() does not wait for the handlers.
ShutdownReturnsAtOnce ==
    /\ main = "Shutdown"
    /\ main' = "bridge.stop"
    /\ UNCHANGED <<vars, g_shutdown_requested, grpcVars, callVars, dnp3Vars>>

\* server_->Shutdown(deadline) returns.
ShutdownReturns ==
    /\ main = "Shutdown"
    /\ NoHandlerRuns
    /\ main' = "bridge.stop"
    /\ UNCHANGED <<vars, g_shutdown_requested, grpcVars, callVars, dnp3Vars>>

\* Variant: bridge.stop() does not join the flush thread.
BridgeStopDetached ==
    /\ main = "bridge.stop"
    /\ \/ Stop /\ UNCHANGED main
       \/ NotifyAll /\ main' = "outstation.shutdown"
    /\ UNCHANGED <<g_shutdown_requested, grpcVars, callVars, dnp3Vars>>

\* bridge.stop(): clear running_, notify, join.
BridgeStop ==
    /\ main = "bridge.stop"
    /\ \/ (Stop \/ NotifyAll) /\ UNCHANGED main
       \/ Join /\ main' = "outstation.shutdown"
    /\ UNCHANGED <<g_shutdown_requested, grpcVars, callVars, dnp3Vars>>

\* Variant: the DNP3Manager is dropped while a thread of it is in dispatch().
OutstationShutdownAtOnce ==
    /\ main = "outstation.shutdown"
    /\ outstation_' = FALSE
    /\ main' = "join"
    /\ UNCHANGED <<vars, g_shutdown_requested, grpcVars, callVars, dispatching, dropped>>

\* outstation.shutdown(): the pointer goes first, then manager_->Shutdown() lets
\* no more command in and waits for the thread that may be inside dispatch().
OutstationShutdown ==
    /\ \/ /\ main = "outstation.shutdown" /\ outstation_
          /\ outstation_' = FALSE
          /\ UNCHANGED main
       \/ /\ main = "outstation.shutdown" /\ ~outstation_
          /\ main' = "manager.Shutdown"
          /\ UNCHANGED outstation_
       \/ /\ main = "manager.Shutdown" /\ ~dispatching
          /\ main' = "join"
          /\ UNCHANGED outstation_
    /\ UNCHANGED <<vars, g_shutdown_requested, grpcVars, callVars, dispatching, dropped>>

\* return 0: ~jthread joins grpc_thread.  The other destructors call stop() and
\* shutdown() again, which by now do nothing.
JoinGrpcThread ==
    /\ main = "join"
    /\ grpc = "returned"
    /\ main' = "exited"
    /\ UNCHANGED <<vars, g_shutdown_requested, grpcVars, callVars, dnp3Vars>>

-----------------------------------------------------------------------------
(* GrpcServer::start(), on grpc_thread *)

\* BuildAndStart() returns null, the address is taken say, and start() returns.
BuildFails ==
    /\ grpc = "build"
    /\ grpc' = "returned"
    /\ UNCHANGED <<vars, g_shutdown_requested, main, server_, shuttingDown,
                   deadlinePassed, callVars, dnp3Vars>>

\* BuildAndStart() has started the server: handlers run from here on.
BuildSucceeds ==
    /\ grpc = "build"
    /\ grpc' = "serve"
    /\ UNCHANGED <<vars, g_shutdown_requested, main, server_, shuttingDown,
                   deadlinePassed, callVars, dnp3Vars>>

AssignServer ==
    /\ grpc = "serve"
    /\ server_' = TRUE
    /\ grpc' = "wait"
    /\ UNCHANGED <<vars, g_shutdown_requested, main, shuttingDown,
                   deadlinePassed, callVars, dnp3Vars>>

\* Wait() returns once Shutdown() is through.
WaitReturns ==
    /\ grpc = "wait"
    /\ shuttingDown /\ NoHandlerRuns
    /\ grpc' = "returned"
    /\ UNCHANGED <<vars, g_shutdown_requested, main, server_, shuttingDown,
                   deadlinePassed, callVars, dnp3Vars>>

\* Variant: Shutdown() without a deadline.
NoDeadline ==
    /\ shuttingDown /\ ~deadlinePassed
    /\ streaming = {}
    /\ deadlinePassed' = TRUE
    /\ UNCHANGED <<vars, g_shutdown_requested, main, grpc, server_,
                   shuttingDown, callVars, dnp3Vars>>

\* One second after Shutdown(): what still runs is cancelled.
Deadline ==
    /\ shuttingDown /\ ~deadlinePassed
    /\ deadlinePassed' = TRUE
    /\ cancelled' = streaming
    /\ UNCHANGED <<vars, g_shutdown_requested, main, grpc, server_,
                   shuttingDown, updating, answered, streaming, dnp3Vars>>

-----------------------------------------------------------------------------
(* The handlers *)

Serving == grpc \in {"serve", "wait"} /\ ~shuttingDown

CallUpdatePoints(p) ==
    /\ Serving
    /\ updating[p] = "none"
    /\ Len(pushed) + Cardinality({q \in Producers : updating[q] = "called"}) < MaxUpdates
    /\ updating' = [updating EXCEPT ![p] = "called"]
    /\ UNCHANGED <<vars, g_shutdown_requested, main, grpcVars, answered,
                   streaming, cancelled, dnp3Vars>>

\* The two halves of applyUpdate(), then success=true.
UpdatePoints(p) ==
    /\ \/ /\ updating[p] = "called"
          /\ \E u \in Updates : Push(p, u)
          /\ updating' = [updating EXCEPT ![p] = "pushed"]
          /\ UNCHANGED answered
       \/ /\ NotifyOne(p)
          /\ updating' = [updating EXCEPT ![p] = "none"]
          /\ answered' = answered + 1
    /\ UNCHANGED <<g_shutdown_requested, main, grpcVars, streaming, cancelled,
                   dnp3Vars>>

CallStreamCommands(s) ==
    /\ Serving
    /\ s \notin streaming
    /\ streaming' = streaming \cup {s}
    /\ UNCHANGED <<vars, g_shutdown_requested, main, grpcVars, updating,
                   answered, cancelled, dnp3Vars>>

\* The client hangs up; it need not.
HangUp(s) ==
    /\ s \in streaming \ cancelled
    /\ cancelled' = cancelled \cup {s}
    /\ UNCHANGED <<vars, g_shutdown_requested, main, grpcVars, updating,
                   answered, streaming, dnp3Vars>>

\* Variant: the context outlives its call.
StreamCommandsReturnsAlone(s) ==
    /\ s \in streaming \cap cancelled
    /\ streaming' = streaming \ {s}
    /\ UNCHANGED <<vars, g_shutdown_requested, main, grpcVars, updating,
                   answered, cancelled, dnp3Vars>>

\* The loop on IsCancelled() ends and the token is released.
StreamCommandsReturns(s) ==
    /\ s \in streaming \cap cancelled
    /\ streaming' = streaming \ {s}
    /\ cancelled' = cancelled \ {s}
    /\ UNCHANGED <<vars, g_shutdown_requested, main, grpcVars, updating,
                   answered, dnp3Vars>>

-----------------------------------------------------------------------------
(* The flush thread and the opendnp3 threads *)

\* updateAnalog() and updateBinary() return at once when outstation_ is null.
Flush ==
    /\ FlushStep
    /\ dropped' = IF applied' # applied /\ ~outstation_ THEN dropped + 1 ELSE dropped
    /\ UNCHANGED <<g_shutdown_requested, main, grpcVars, callVars, outstation_,
                   dispatching>>

FlushWakesSpuriously == SpuriousWakeup /\ UNCHANGED lifeVars

\* opendnp3's threads hand commands on from start() to manager_->Shutdown(), a
\* little longer than outstation_ is set.
Operating == outstation_ \/ main = "outstation.shutdown"

\* A SCADA command comes in and later leaves dispatch() by answer or timeout.
CommandArrives ==
    /\ Operating
    /\ ~dispatching
    /\ dispatching' = TRUE
    /\ UNCHANGED <<vars, g_shutdown_requested, main, grpcVars, callVars,
                   outstation_, dropped>>

CommandReturns ==
    /\ dispatching
    /\ dispatching' = FALSE
    /\ UNCHANGED <<vars, g_shutdown_requested, main, grpcVars, callVars,
                   outstation_, dropped>>

-----------------------------------------------------------------------------

MainStep ==
    \/ OutstationStart \/ BridgeStart \/ SpawnGrpcThread \/ LeavePoll
    \/ ServerStop \/ ShutdownReturns \/ BridgeStop \/ OutstationShutdown
    \/ JoinGrpcThread

GrpcStep == BuildFails \/ BuildSucceeds \/ AssignServer \/ WaitReturns

LifecycleNext ==
    \/ Signal
    \/ MainStep
    \/ GrpcStep
    \/ Deadline
    \/ \E p \in Producers : CallUpdatePoints(p) \/ UpdatePoints(p)
    \/ \E s \in Streams : CallStreamCommands(s) \/ HangUp(s) \/ StreamCommandsReturns(s)
    \/ Flush \/ FlushWakesSpuriously
    \/ CommandArrives \/ CommandReturns

LifecycleSpec == LifecycleInit /\ [][LifecycleNext]_processVars

\* Threads that are not blocked keep running, a deadline passes, dispatch()
\* returns (CommandDispatcher!DispatchReturns).  Nobody has to send a signal,
\* call, hang up or operate.
LifecycleFairSpec ==
    /\ LifecycleSpec
    /\ WF_processVars(MainStep)
    /\ WF_processVars(GrpcStep)
    /\ WF_processVars(Deadline)
    /\ \A p \in Producers : WF_processVars(UpdatePoints(p))
    /\ \A s \in Streams : WF_processVars(StreamCommandsReturns(s))
    /\ WF_processVars(Flush)
    /\ WF_processVars(CommandReturns)

-----------------------------------------------------------------------------
(* Properties *)

\* The types of the variables this module adds, and those of Bridge.
LifecycleTypeOK ==
    /\ TypeOK
    /\ g_shutdown_requested \in BOOLEAN
    /\ main \in MainPlaces
    /\ grpc \in GrpcPlaces
    /\ server_ \in BOOLEAN
    /\ shuttingDown \in BOOLEAN
    /\ deadlinePassed \in BOOLEAN
    /\ updating \in [Producers -> {"none", "called", "pushed"}]
    /\ answered \in 0 .. MaxUpdates
    /\ cancelled \subseteq streaming /\ streaming \subseteq Streams
    /\ outstation_ \in BOOLEAN
    /\ dispatching \in BOOLEAN
    /\ dropped \in Nat

\* No update meets a null outstation_, and nothing the flush thread still holds
\* can: the pointer is set before the thread exists and outlives it, so its
\* unsynchronised accesses never race.
OutstationOutlivesFlush ==
    /\ dropped = 0
    /\ flush # "none" => outstation_

\* An update whose call was answered has reached the outstation when main()
\* returns: the server goes before the flush thread.
AnsweredIsApplied == main = "exited" => Len(applied) >= answered

\* No handler touches the bridge or the dispatcher after main() has begun to
\* destroy them.
NoHandlerAfterExit == main = "exited" => NoHandlerRuns /\ ~dispatching

\* A signal that finds the server up, or finds that it failed to start, ends
\* the process: open streams, full queues and commands in progress cannot hold
\* it up.
SignalEndsServingProcess ==
    (g_shutdown_requested /\ main \in {"poll", "server.stop"}
        /\ (server_ \/ grpc = "returned")) ~> (main = "exited")

\* GrpcServer.hpp: start() "blocks until stop() is called".  So a signal ends
\* the process: stop() is called, start() returns and grpc_thread is joined.
StartReturnsAfterStop == (main = "bridge.stop") ~> (grpc \in {"none", "returned"})

-----------------------------------------------------------------------------
(* The inductive invariant that the proofs use *)

\* Where main() is decides what exists: the outstation before the flush thread
\* and after it, the thread between bridge.start() and bridge.stop().
MainOrder ==
    /\ main = "construct" => flush = "none" /\ control = "idle" /\ ~running_
    /\ main = "bridge.start" => control = "spawn" \/ (control = "idle" /\ ~running_)
    /\ main \in {"spawn", "poll", "server.stop", "Shutdown"} => control = "idle" /\ running_
    /\ main = "bridge.stop" => control \in {"notify", "join"} \/ (control = "idle" /\ running_)
    /\ main \in {"outstation.shutdown", "manager.Shutdown", "join", "exited"} =>
        control = "idle" /\ ~running_
    /\ main \notin {"construct", "outstation.shutdown", "manager.Shutdown", "join",
                    "exited"} => outstation_
    /\ main \in {"manager.Shutdown", "join", "exited"} => ~outstation_
    /\ main \in {"join", "exited"} => ~dispatching

\* Handlers run only while the server is up, and updates come only from them.
ServerOrder ==
    /\ grpc \in {"none", "build", "returned"} => NoHandlerRuns
    /\ grpc \in {"none", "build"} => pushed = <<>> /\ ~shuttingDown
    /\ grpc = "returned" /\ ~shuttingDown => pushed = <<>>
    /\ shuttingDown => main \in {"Shutdown", "bridge.stop", "outstation.shutdown",
                                 "manager.Shutdown", "join", "exited"}
    /\ shuttingDown /\ main # "Shutdown" => NoHandlerRuns
    /\ main \in {"construct", "bridge.start", "spawn"} => grpc = "none"
    /\ server_ => grpc \in {"wait", "returned"}
    /\ main = "exited" => grpc = "returned"

\* What was answered was pushed, and stop() comes after the last push once the
\* server has been shut down.
PushedHandlers == {p \in Producers : updating[p] = "pushed"}

AnsweredWasPushed ==
    /\ \A p \in Producers : producer[p] = "notify" <=> updating[p] = "pushed"
    /\ IsFiniteSet(PushedHandlers)
    /\ answered \in Nat
    /\ answered + Cardinality(PushedHandlers) = Len(pushed)
    /\ Len(pushed) <= MaxUpdates
    /\ shuttingDown /\ main = "bridge.stop" /\ control # "idle" => stopMark = Len(pushed)
    /\ shuttingDown /\ main \in {"outstation.shutdown", "manager.Shutdown", "join",
                                 "exited"} =>
        Len(applied) >= Len(pushed)

LifecycleInv ==
    /\ BridgeInv
    /\ LifecycleTypeOK
    /\ MainOrder
    /\ ServerOrder
    /\ AnsweredWasPushed
    /\ dropped = 0

=============================================================================
