---------------------------- MODULE Lifecycle_proofs ----------------------------
(***************************************************************************)
(* Proofs about Lifecycle, for any number of handlers, streams and         *)
(* updates: nobody uses an object that is gone, and what was answered is   *)
(* applied.  Every step of the process is a step of Bridge or leaves it    *)
(* alone, so BridgeInv comes with Bridge_proofs.                           *)
(***************************************************************************)
EXTENDS Lifecycle, Bridge_proofs, FiniteSetTheorems

\* No step outside the bridge touches it; what is called of it is its own.
LEMMA StepOfBridge == [LifecycleNext]_processVars => [Next]_vars
<1> SUFFICES ASSUME [LifecycleNext]_processVars PROVE Next \/ UNCHANGED vars
  OBVIOUS
<1>1. CASE BridgeStart \/ BridgeStop
  BY <1>1 DEF BridgeStart, BridgeStop, Next
<1>2. CASE \E p \in Producers : CallUpdatePoints(p) \/ UpdatePoints(p)
  BY <1>2 DEF CallUpdatePoints, UpdatePoints, Next
<1>3. CASE Flush \/ FlushWakesSpuriously
  BY <1>3 DEF Flush, FlushWakesSpuriously, Next
<1>4. CASE \/ OutstationStart \/ SpawnGrpcThread \/ LeavePoll \/ ServerStop
           \/ ShutdownReturns \/ OutstationShutdown \/ JoinGrpcThread
           \/ GrpcStep \/ Signal \/ Deadline \/ CommandArrives \/ CommandReturns
           \/ \E s \in Streams : CallStreamCommands(s) \/ HangUp(s)
                                 \/ StreamCommandsReturns(s)
           \/ UNCHANGED processVars
  BY <1>4 DEF OutstationStart, SpawnGrpcThread, LeavePoll, ServerStop,
     ShutdownReturns, OutstationShutdown, JoinGrpcThread, GrpcStep, BuildFails,
     BuildSucceeds, AssignServer, WaitReturns, Signal, Deadline, CommandArrives,
     CommandReturns, CallStreamCommands, HangUp, StreamCommandsReturns, processVars
<1> QED
  BY <1>1, <1>2, <1>3, <1>4 DEF LifecycleNext, MainStep

LEMMA LifecycleInitEstablishes == LifecycleInit => LifecycleInv
<1> SUFFICES ASSUME LifecycleInit PROVE LifecycleInv
  OBVIOUS
<1>1. BridgeInv
  BY InitEstablishes DEF LifecycleInit
<1>2. PushedHandlers = {} /\ NoHandlerRuns
  BY DEF LifecycleInit, PushedHandlers, NoHandlerRuns
<1>3. IsFiniteSet(PushedHandlers) /\ Cardinality(PushedHandlers) = 0
  BY <1>2, FS_EmptySet
<1>4. pushed = <<>> /\ Len(pushed) = 0 /\ answered = 0
  BY EmptySeq DEF LifecycleInit, Init
<1>5. AnsweredWasPushed
  BY <1>3, <1>4, MaxUpdatesAssumption DEF AnsweredWasPushed, LifecycleInit, Init
<1>6. LifecycleTypeOK
  <2>1. answered \in 0 .. MaxUpdates /\ dropped \in Nat
    BY <1>4, MaxUpdatesAssumption DEF LifecycleInit
  <2> QED
    BY <1>1, <2>1, Zenon DEF BridgeInv, LifecycleTypeOK, LifecycleInit,
       MainPlaces, GrpcPlaces
<1>7. MainOrder /\ ServerOrder
  BY <1>2, <1>4 DEF MainOrder, ServerOrder, LifecycleInit, Init
<1> QED
  BY <1>1, <1>5, <1>6, <1>7 DEF LifecycleInv, LifecycleInit

-----------------------------------------------------------------------------
(* What is pushed and what is answered *)

\* The steps that push nothing, answer nothing and leave the server as it was.
LEMMA QuietAnswered ==
    ASSUME LifecycleInv, UNCHANGED <<pushed, updating, producer, answered>>,
           UNCHANGED shuttingDown, UNCHANGED <<main, control, stopMark>>,
           Len(applied') >= Len(applied)
    PROVE  AnsweredWasPushed'
BY LenProperties DEF LifecycleInv, BridgeInv, TypeOK, AnsweredWasPushed, PushedHandlers

\* A call whose update is pushed but not yet answered counts as such.
LEMMA UpdatePointsAnswered ==
    ASSUME LifecycleInv, NEW p \in Producers, UpdatePoints(p)
    PROVE  AnsweredWasPushed'
<1>1. /\ IsFiniteSet(PushedHandlers) /\ answered \in Nat
      /\ answered + Cardinality(PushedHandlers) = Len(pushed)
      /\ updating \in [Producers -> {"none", "called", "pushed"}]
      /\ producer \in [Producers -> {"idle", "notify"}]
      /\ pushed \in Seq(Updates) /\ Len(pushed) \in Nat
      /\ \A q \in Producers : producer[q] = "notify" <=> updating[q] = "pushed"
  BY LenProperties DEF LifecycleInv, AnsweredWasPushed, LifecycleTypeOK, TypeOK
<1>2. Cardinality(PushedHandlers) \in Nat
  BY <1>1, FS_CardinalityType
<1>3. UNCHANGED <<applied, shuttingDown, main, control, stopMark>>
  BY DEF UpdatePoints, Push, NotifyOne, grpcVars
<1>4. ~(shuttingDown /\ main # "Shutdown")
  BY DEF UpdatePoints, NotifyOne, LifecycleInv, ServerOrder, NoHandlerRuns,
     AnsweredWasPushed
<1>5. CASE \E u \in Updates : updating[p] = "called" /\ Push(p, u)
  <2>1. /\ updating' = [updating EXCEPT ![p] = "pushed"]
        /\ producer' = [producer EXCEPT ![p] = "notify"]
        /\ answered' = answered /\ p \notin PushedHandlers
    BY <1>1, <1>5 DEF UpdatePoints, Push, NotifyOne, PushedHandlers
  <2>2. PushedHandlers' = PushedHandlers \cup {p}
    BY <1>1, <2>1 DEF PushedHandlers
  <2>3. /\ IsFiniteSet(PushedHandlers')
        /\ Cardinality(PushedHandlers') = Cardinality(PushedHandlers) + 1
    BY <1>1, <2>1, <2>2, FS_AddElement
  <2>4. Len(pushed') = Len(pushed) + 1 /\ Len(pushed) < MaxUpdates
    BY <1>1, <1>5, AppendProperties DEF Push
  <2> QED
    BY <1>1, <1>2, <1>3, <1>4, <2>1, <2>3, <2>4, MaxUpdatesAssumption
    DEF AnsweredWasPushed
<1>6. CASE NotifyOne(p) /\ updating[p] # "called"
  <2>1. /\ updating' = [updating EXCEPT ![p] = "none"]
        /\ producer' = [producer EXCEPT ![p] = "idle"]
        /\ answered' = answered + 1 /\ p \in PushedHandlers
        /\ UNCHANGED pushed
    BY <1>1, <1>6 DEF UpdatePoints, NotifyOne, PushedHandlers
  <2>2. PushedHandlers' = PushedHandlers \ {p}
    BY <1>1, <2>1 DEF PushedHandlers
  <2>3. /\ IsFiniteSet(PushedHandlers')
        /\ Cardinality(PushedHandlers') = Cardinality(PushedHandlers) - 1
    BY <1>1, <2>1, <2>2, FS_RemoveElement
  <2>4. Len(pushed) <= MaxUpdates
    BY DEF LifecycleInv, AnsweredWasPushed
  <2> QED
    BY <1>1, <1>2, <1>3, <1>4, <2>1, <2>3, <2>4 DEF AnsweredWasPushed
<1> QED
  BY <1>1, <1>5, <1>6 DEF UpdatePoints, NotifyOne

\* A call that has only just come in has pushed nothing.
LEMMA CallUpdatePointsAnswered ==
    ASSUME LifecycleInv, NEW p \in Producers, CallUpdatePoints(p)
    PROVE  AnsweredWasPushed'
<1>1. /\ updating' = [updating EXCEPT ![p] = "called"] /\ updating[p] = "none"
      /\ updating \in [Producers -> {"none", "called", "pushed"}]
  BY DEF CallUpdatePoints, LifecycleInv, LifecycleTypeOK
<1>2. \A q \in Producers : updating'[q] = "pushed" <=> updating[q] = "pushed"
  BY <1>1
<1>3. PushedHandlers' = PushedHandlers
  BY <1>2 DEF PushedHandlers
<1> QED
  BY <1>2, <1>3 DEF CallUpdatePoints, LifecycleInv, AnsweredWasPushed, vars, grpcVars

\* stop() comes after the last push of a server that was shut down, and has
\* applied it when it returns.
LEMMA BridgeStopAnswered ==
    ASSUME LifecycleInv, BridgeStop
    PROVE  AnsweredWasPushed'
<1>1. /\ UNCHANGED <<pushed, applied, updating, producer, answered, shuttingDown>>
      /\ main = "bridge.stop"
      /\ \/ Stop /\ main' = main
         \/ NotifyAll /\ main' = main
         \/ Join /\ main' = "outstation.shutdown"
  BY DEF BridgeStop, Stop, NotifyAll, Join, grpcVars, callVars
<1>2. PushedHandlers' = PushedHandlers
  BY <1>1 DEF PushedHandlers
<1>3. Len(applied) \in Nat /\ Len(pushed) \in Nat /\ stopMark \in Nat
  BY LenProperties DEF LifecycleInv, LifecycleTypeOK, TypeOK
<1>4. (shuttingDown /\ main = "bridge.stop" /\ control # "idle" => stopMark = Len(pushed))'
  BY <1>1 DEF Stop, NotifyAll, Join, LifecycleInv, AnsweredWasPushed
<1>5. (shuttingDown /\ main \in {"outstation.shutdown", "manager.Shutdown", "join",
                              "exited"} =>
        Len(applied) >= Len(pushed))'
  <2> SUFFICES ASSUME shuttingDown, Join PROVE Len(applied) >= Len(pushed)
    BY <1>1
  <2>1. stopMark = Len(pushed)
    BY <1>1 DEF Join, LifecycleInv, AnsweredWasPushed
  <2>2. Len(applied) >= stopMark
    BY DEF Join, LifecycleInv, BridgeInv, StopDrains
  <2> QED
    BY <2>1, <2>2
<1> QED
  BY <1>1, <1>2, <1>4, <1>5 DEF LifecycleInv, AnsweredWasPushed

\* The other steps of main(): none of them changes what was pushed or applied.
LEMMA MainAnswered ==
    ASSUME LifecycleInv,
           \/ OutstationStart \/ BridgeStart \/ SpawnGrpcThread \/ LeavePoll
           \/ ServerStop \/ ShutdownReturns \/ OutstationShutdown \/ JoinGrpcThread
    PROVE  AnsweredWasPushed'
<1>1. UNCHANGED <<pushed, applied, updating, producer, answered, stopMark>>
  BY DEF OutstationStart, BridgeStart, Start, SpawnFlushThread, SpawnGrpcThread,
     LeavePoll, ServerStop, ShutdownReturns, OutstationShutdown, JoinGrpcThread,
     vars, callVars
<1>2. PushedHandlers' = PushedHandlers
  BY <1>1 DEF PushedHandlers
<1>3. (shuttingDown /\ main = "bridge.stop" /\ control # "idle" => stopMark = Len(pushed))'
  BY DEF OutstationStart, BridgeStart, SpawnGrpcThread, LeavePoll, ServerStop,
     ShutdownReturns, OutstationShutdown, JoinGrpcThread, LifecycleInv, MainOrder,
     vars
<1>4. (shuttingDown /\ main \in {"outstation.shutdown", "manager.Shutdown", "join",
                              "exited"} =>
        Len(applied) >= Len(pushed))'
  BY <1>1 DEF OutstationStart, BridgeStart, SpawnGrpcThread, LeavePoll, ServerStop,
     ShutdownReturns, OutstationShutdown, JoinGrpcThread, LifecycleInv,
     AnsweredWasPushed, grpcVars
<1> QED
  BY <1>1, <1>2, <1>3, <1>4 DEF LifecycleInv, AnsweredWasPushed

LEMMA AnsweredKept ==
    LifecycleInv /\ [LifecycleNext]_processVars => AnsweredWasPushed'
<1> SUFFICES ASSUME LifecycleInv, [LifecycleNext]_processVars PROVE AnsweredWasPushed'
  OBVIOUS
<1>1. CASE Flush
  <2>1. Len(applied') >= Len(applied)
    BY <1>1, AppendProperties, HeadTailProperties, LenProperties
    DEF Flush, FlushStep, WaitAndSwap, ApplyHead, BatchDone, LifecycleInv,
        LifecycleTypeOK, TypeOK
  <2>2. UNCHANGED <<pushed, updating, producer, answered, shuttingDown, main, control, stopMark>>
    BY <1>1 DEF Flush, FlushStep, WaitAndSwap, ApplyHead, BatchDone, grpcVars, callVars
  <2> QED
    BY <2>1, <2>2, QuietAnswered
<1>2. CASE \/ FlushWakesSpuriously \/ GrpcStep \/ Signal \/ Deadline
           \/ CommandArrives \/ CommandReturns
           \/ \E s \in Streams : CallStreamCommands(s) \/ HangUp(s)
                                 \/ StreamCommandsReturns(s)
           \/ UNCHANGED processVars
  <2>1. UNCHANGED <<pushed, applied, updating, producer, answered, shuttingDown, main,
                    control, stopMark>>
    BY <1>2 DEF FlushWakesSpuriously, SpuriousWakeup, GrpcStep, BuildFails,
       BuildSucceeds, AssignServer, WaitReturns, Signal, Deadline, CommandArrives,
       CommandReturns, CallStreamCommands, HangUp, StreamCommandsReturns,
       processVars, lifeVars, vars, grpcVars, callVars
  <2>2. Len(applied') >= Len(applied)
    BY <2>1, LenProperties DEF LifecycleInv, LifecycleTypeOK, TypeOK
  <2> QED
    BY <2>1, <2>2, QuietAnswered
<1> QED
  BY <1>1, <1>2, UpdatePointsAnswered, CallUpdatePointsAnswered,
     BridgeStopAnswered, MainAnswered DEF LifecycleNext, MainStep

-----------------------------------------------------------------------------
(* Who exists when *)

\* bridge.start() and bridge.stop() are the only steps of main() that touch the
\* flush thread.
LEMMA BridgeControlOrder ==
    ASSUME LifecycleInv, BridgeStart \/ BridgeStop
    PROVE  MainOrder'
BY DEF BridgeStart, BridgeStop, Start, SpawnFlushThread, Stop, NotifyAll, Join,
   LifecycleInv, BridgeInv, OneFlushThread, MainOrder, dnp3Vars

LEMMA MainOrderKept == LifecycleInv /\ [LifecycleNext]_processVars => MainOrder'
<1> SUFFICES ASSUME LifecycleInv, [LifecycleNext]_processVars PROVE MainOrder'
  OBVIOUS
<1>1. CASE \/ OutstationStart \/ SpawnGrpcThread \/ LeavePoll \/ ServerStop
           \/ ShutdownReturns \/ OutstationShutdown \/ JoinGrpcThread
  BY <1>1 DEF OutstationStart, SpawnGrpcThread, LeavePoll, ServerStop,
     ShutdownReturns, OutstationShutdown, JoinGrpcThread, LifecycleInv, MainOrder,
     vars, dnp3Vars
<1>2. CASE CommandArrives \/ CommandReturns
  BY <1>2 DEF CommandArrives, Operating, CommandReturns, LifecycleInv, MainOrder, vars
<1>3. CASE Flush \/ FlushWakesSpuriously
  <2>1. UNCHANGED <<main, control, running_, outstation_, dispatching>>
    BY <1>3 DEF Flush, FlushWakesSpuriously, FlushStep, WaitAndSwap, ApplyHead,
       BatchDone, SpuriousWakeup, lifeVars, dnp3Vars
  <2>2. main = "construct" => flush = "none" /\ flush' = flush
    BY <1>3 DEF Flush, FlushWakesSpuriously, FlushStep, WaitAndSwap, ApplyHead,
       BatchDone, SpuriousWakeup, LifecycleInv, MainOrder
  <2> QED
    BY <2>1, <2>2 DEF LifecycleInv, MainOrder
<1>4. CASE \E p \in Producers : CallUpdatePoints(p) \/ UpdatePoints(p)
  <2>1. UNCHANGED <<main, control, running_, outstation_, dispatching>>
    BY <1>4 DEF CallUpdatePoints, UpdatePoints, Push, NotifyOne, vars, dnp3Vars
  <2>2. main = "construct" => flush = "none" /\ flush' = flush
    BY <1>4 DEF CallUpdatePoints, UpdatePoints, Push, NotifyOne, Wake, vars,
       LifecycleInv, MainOrder
  <2> QED
    BY <2>1, <2>2 DEF LifecycleInv, MainOrder
<1>5. CASE \/ GrpcStep \/ Signal \/ Deadline
           \/ \E s \in Streams : CallStreamCommands(s) \/ HangUp(s)
                                 \/ StreamCommandsReturns(s)
           \/ UNCHANGED processVars
  BY <1>5 DEF GrpcStep, BuildFails, BuildSucceeds, AssignServer, WaitReturns,
     Signal, Deadline, CallStreamCommands, HangUp, StreamCommandsReturns,
     LifecycleInv, MainOrder, processVars, lifeVars, vars, dnp3Vars
<1> QED
  BY <1>1, <1>2, <1>3, <1>4, <1>5, BridgeControlOrder DEF LifecycleNext, MainStep

\* A call may begin only while the server is up, and the server goes down only
\* with no call left.
LEMMA CallsServerOrder ==
    ASSUME LifecycleInv,
           \/ \E p \in Producers : CallUpdatePoints(p) \/ UpdatePoints(p)
           \/ \E s \in Streams : CallStreamCommands(s) \/ HangUp(s)
                                 \/ StreamCommandsReturns(s)
    PROVE  ServerOrder'
<1>1. UNCHANGED <<main, grpc, server_, shuttingDown>>
  BY DEF CallUpdatePoints, UpdatePoints, CallStreamCommands, HangUp,
     StreamCommandsReturns, grpcVars
<1>2. CASE NoHandlerRuns
  <2>1. Serving
    <3>1. \A p \in Producers : ~UpdatePoints(p)
      BY <1>2 DEF NoHandlerRuns, UpdatePoints, NotifyOne, LifecycleInv, AnsweredWasPushed
    <3>2. \A s \in Streams : ~HangUp(s) /\ ~StreamCommandsReturns(s)
      BY <1>2 DEF NoHandlerRuns, HangUp, StreamCommandsReturns
    <3> QED
      BY <3>1, <3>2 DEF CallUpdatePoints, CallStreamCommands
  <2> QED
    BY <1>1, <2>1 DEF Serving, LifecycleInv, ServerOrder
<1>3. CASE ~NoHandlerRuns
  BY <1>1, <1>3 DEF LifecycleInv, ServerOrder
<1> QED
  BY <1>2, <1>3

LEMMA ServerOrderKept == LifecycleInv /\ [LifecycleNext]_processVars => ServerOrder'
<1> SUFFICES ASSUME LifecycleInv, [LifecycleNext]_processVars PROVE ServerOrder'
  OBVIOUS
<1>1. CASE \/ OutstationStart \/ SpawnGrpcThread \/ LeavePoll \/ ServerStop
           \/ ShutdownReturns \/ OutstationShutdown \/ JoinGrpcThread
           \/ BridgeStart \/ BridgeStop
  <2>1. UNCHANGED <<pushed, updating, streaming>>
    BY <1>1 DEF OutstationStart, SpawnGrpcThread, LeavePoll, ServerStop,
       ShutdownReturns, OutstationShutdown, JoinGrpcThread, BridgeStart, BridgeStop,
       Start, SpawnFlushThread, Stop, NotifyAll, Join, vars, callVars
  <2>2. NoHandlerRuns' <=> NoHandlerRuns
    BY <2>1 DEF NoHandlerRuns
  <2>3. CASE SpawnGrpcThread \/ ServerStop
    BY <2>1, <2>2, <2>3 DEF SpawnGrpcThread, ServerStop, LifecycleInv, ServerOrder
  <2>4. CASE ShutdownReturns \/ BridgeStop \/ OutstationShutdown \/ JoinGrpcThread
    BY <2>1, <2>2, <2>4 DEF ShutdownReturns, BridgeStop, OutstationShutdown,
       JoinGrpcThread, LifecycleInv, ServerOrder, grpcVars
  <2>5. CASE OutstationStart \/ BridgeStart \/ LeavePoll
    BY <2>1, <2>2, <2>5 DEF OutstationStart, BridgeStart, LeavePoll, LifecycleInv,
       ServerOrder, grpcVars
  <2> QED
    BY <1>1, <2>3, <2>4, <2>5
<1>2. CASE GrpcStep
  <2>1. UNCHANGED <<pushed, updating, streaming, main, shuttingDown>>
    BY <1>2 DEF GrpcStep, BuildFails, BuildSucceeds, AssignServer, WaitReturns, vars, callVars
  <2>2. NoHandlerRuns' <=> NoHandlerRuns
    BY <2>1 DEF NoHandlerRuns
  <2> QED
    BY <1>2, <2>1, <2>2 DEF GrpcStep, BuildFails, BuildSucceeds, AssignServer,
       WaitReturns, LifecycleInv, ServerOrder
<1>3. CASE \/ Flush \/ FlushWakesSpuriously \/ Signal \/ Deadline
           \/ CommandArrives \/ CommandReturns \/ UNCHANGED processVars
  <2>1. UNCHANGED <<pushed, updating, streaming, main, grpc, server_,
                    shuttingDown>>
    BY <1>3 DEF Flush, FlushWakesSpuriously, FlushStep, WaitAndSwap, ApplyHead,
       BatchDone, SpuriousWakeup, Signal, Deadline, CommandArrives, CommandReturns,
       processVars, lifeVars, vars, grpcVars, callVars
  <2>2. NoHandlerRuns' <=> NoHandlerRuns
    BY <2>1 DEF NoHandlerRuns
  <2> QED
    BY <2>1, <2>2 DEF LifecycleInv, ServerOrder
<1> QED
  BY <1>1, <1>2, <1>3, CallsServerOrder DEF LifecycleNext, MainStep

\* The flush thread finds the outstation whenever it has something to apply.
LEMMA NothingDropped ==
    LifecycleInv /\ [LifecycleNext]_processVars => dropped' = 0
<1> SUFFICES ASSUME LifecycleInv, [LifecycleNext]_processVars PROVE dropped' = 0
  OBVIOUS
<1>1. flush # "none" => outstation_
  BY DEF LifecycleInv, BridgeInv, OneFlushThread, MainOrder
<1>2. CASE Flush
  <2>1. flush # "none"
    BY <1>2 DEF Flush, FlushStep, WaitAndSwap, ApplyHead, BatchDone
  <2> QED
    BY <1>1, <1>2, <2>1 DEF Flush, LifecycleInv
<1>3. CASE ~Flush
  BY <1>3 DEF LifecycleNext, MainStep, GrpcStep, OutstationStart, SpawnGrpcThread,
     LeavePoll, ServerStop, ShutdownReturns, OutstationShutdown, JoinGrpcThread,
     BridgeStart, BridgeStop, BuildFails, BuildSucceeds, AssignServer, WaitReturns,
     Signal, Deadline, CommandArrives, CommandReturns, FlushWakesSpuriously,
     CallUpdatePoints, UpdatePoints, CallStreamCommands, HangUp,
     StreamCommandsReturns, processVars, lifeVars, dnp3Vars, LifecycleInv
<1> QED
  BY <1>2, <1>3

-----------------------------------------------------------------------------
(* Types *)

LEMMA HandlerTypes ==
    LifecycleInv /\ [LifecycleNext]_processVars =>
        /\ (updating \in [Producers -> {"none", "called", "pushed"}])'
        /\ (cancelled \subseteq streaming /\ streaming \subseteq Streams)'
<1> SUFFICES ASSUME LifecycleInv, [LifecycleNext]_processVars
             PROVE  /\ (updating \in [Producers -> {"none", "called", "pushed"}])'
                    /\ (cancelled \subseteq streaming /\ streaming \subseteq Streams)'
  OBVIOUS
<1>1. /\ updating \in [Producers -> {"none", "called", "pushed"}]
      /\ cancelled \subseteq streaming /\ streaming \subseteq Streams
  BY DEF LifecycleInv, LifecycleTypeOK
<1>2. CASE \E p \in Producers : CallUpdatePoints(p) \/ UpdatePoints(p)
  BY <1>1, <1>2 DEF CallUpdatePoints, UpdatePoints
<1>3. CASE \/ \E s \in Streams : CallStreamCommands(s) \/ HangUp(s)
                                 \/ StreamCommandsReturns(s)
           \/ Deadline
  BY <1>1, <1>3 DEF CallStreamCommands, HangUp, StreamCommandsReturns, Deadline
<1>4. CASE \/ MainStep \/ GrpcStep \/ Signal \/ CommandArrives \/ CommandReturns
           \/ Flush \/ FlushWakesSpuriously \/ UNCHANGED processVars
  BY <1>1, <1>4 DEF MainStep, GrpcStep, OutstationStart, SpawnGrpcThread,
     LeavePoll, ServerStop, ShutdownReturns, OutstationShutdown, JoinGrpcThread,
     BridgeStart, BridgeStop, BuildFails, BuildSucceeds, AssignServer, WaitReturns,
     Signal, CommandArrives, CommandReturns, Flush, FlushWakesSpuriously,
     processVars, lifeVars, callVars
<1> QED
  BY <1>2, <1>3, <1>4 DEF LifecycleNext

\* The Booleans and the two program counters.
LEMMA PlaceTypes ==
    LifecycleInv /\ [LifecycleNext]_processVars =>
        (/\ g_shutdown_requested \in BOOLEAN /\ server_ \in BOOLEAN
         /\ shuttingDown \in BOOLEAN /\ deadlinePassed \in BOOLEAN
         /\ outstation_ \in BOOLEAN /\ dispatching \in BOOLEAN
         /\ main \in MainPlaces /\ grpc \in GrpcPlaces)'
<1> SUFFICES ASSUME LifecycleInv, [LifecycleNext]_processVars
             PROVE  (/\ g_shutdown_requested \in BOOLEAN /\ server_ \in BOOLEAN
                     /\ shuttingDown \in BOOLEAN /\ deadlinePassed \in BOOLEAN
                     /\ outstation_ \in BOOLEAN /\ dispatching \in BOOLEAN
                     /\ main \in MainPlaces /\ grpc \in GrpcPlaces)'
  OBVIOUS
<1>1. LifecycleTypeOK
  BY DEF LifecycleInv
<1>2. CASE MainStep
  BY <1>1, <1>2, Zenon DEF MainStep, OutstationStart, SpawnGrpcThread, LeavePoll,
     ServerStop, ShutdownReturns, OutstationShutdown, JoinGrpcThread, BridgeStart,
     BridgeStop, LifecycleTypeOK, MainPlaces, GrpcPlaces, grpcVars, dnp3Vars
<1>3. CASE \/ GrpcStep \/ Signal \/ Deadline \/ CommandArrives \/ CommandReturns
  BY <1>1, <1>3, Zenon DEF GrpcStep, BuildFails, BuildSucceeds, AssignServer,
     WaitReturns, Signal, Deadline, CommandArrives, CommandReturns,
     LifecycleTypeOK, GrpcPlaces, grpcVars, dnp3Vars
<1>4. CASE \/ Flush \/ FlushWakesSpuriously
           \/ \E p \in Producers : CallUpdatePoints(p) \/ UpdatePoints(p)
           \/ \E s \in Streams : CallStreamCommands(s) \/ HangUp(s)
                                 \/ StreamCommandsReturns(s)
           \/ UNCHANGED processVars
  BY <1>1, <1>4, Zenon DEF Flush, FlushWakesSpuriously, CallUpdatePoints,
     UpdatePoints, CallStreamCommands, HangUp, StreamCommandsReturns,
     LifecycleTypeOK, processVars, lifeVars, grpcVars, dnp3Vars
<1> QED
  BY <1>2, <1>3, <1>4 DEF LifecycleNext

LEMMA LifecycleTypesKept ==
    LifecycleInv /\ [LifecycleNext]_processVars => LifecycleTypeOK'
<1> SUFFICES ASSUME LifecycleInv, [LifecycleNext]_processVars PROVE LifecycleTypeOK'
  OBVIOUS
<1>1. TypeOK'
  BY StepOfBridge, NextPreserves DEF LifecycleInv, BridgeInv
<1>2. (answered \in 0 .. MaxUpdates)'
  <2>1. AnsweredWasPushed'
    BY AnsweredKept
  <2>2. Cardinality(PushedHandlers') \in Nat
    BY <2>1, FS_CardinalityType DEF AnsweredWasPushed
  <2> QED
    BY <2>1, <2>2, MaxUpdatesAssumption DEF AnsweredWasPushed
<1>3. (dropped \in Nat)'
  BY NothingDropped
<1> QED
  BY <1>1, <1>2, <1>3, HandlerTypes, PlaceTypes DEF LifecycleTypeOK

-----------------------------------------------------------------------------
(* Theorems *)

\* The inductive invariant holds in every reachable state.
THEOREM LifecycleInvariant == LifecycleSpec => []LifecycleInv
<1>1. LifecycleInv /\ [LifecycleNext]_processVars => LifecycleInv'
  <2>1. LifecycleInv /\ [LifecycleNext]_processVars => BridgeInv'
    BY StepOfBridge, NextPreserves DEF LifecycleInv
  <2> QED
    BY <2>1, LifecycleTypesKept, MainOrderKept, ServerOrderKept, AnsweredKept,
       NothingDropped DEF LifecycleInv
<1> QED
  BY <1>1, LifecycleInitEstablishes, PTL DEF LifecycleSpec

\* The process implements Bridge: main() starts and stops it as start() and
\* stop() allow, and handlers reach it through applyUpdate() only.
THEOREM BridgeUnderLifecycle == LifecycleSpec => Spec
<1>1. LifecycleInit => Init
  BY DEF LifecycleInit
<1> QED
  BY <1>1, StepOfBridge, PTL DEF LifecycleSpec, Spec

\* From the first call to the last apply of a process that is taken down at any
\* moment, updates go through a FIFO channel.
THEOREM LifecycleImplementsChannel == LifecycleSpec => ImplementsChannel
  BY BridgeUnderLifecycle, BridgeImplementsChannel

\* Every variable of the process keeps its type.
THEOREM LifecycleTypeCorrect == LifecycleSpec => []LifecycleTypeOK
<1>1. LifecycleInv => LifecycleTypeOK
  BY DEF LifecycleInv
<1> QED
  BY <1>1, LifecycleInvariant, PTL

\* The flush thread never meets a null outstation_.
THEOREM OutstationOutlives == LifecycleSpec => []OutstationOutlivesFlush
<1>1. LifecycleInv => OutstationOutlivesFlush
  BY DEF LifecycleInv, BridgeInv, OneFlushThread, MainOrder, OutstationOutlivesFlush
<1> QED
  BY <1>1, LifecycleInvariant, PTL

\* A client that was told success=true has its update applied before the
\* process is gone, whenever the signal came.
THEOREM AnsweredApplied == LifecycleSpec => []AnsweredIsApplied
<1>1. LifecycleInv => AnsweredIsApplied
  <2> SUFFICES ASSUME LifecycleInv, main = "exited" PROVE Len(applied) >= answered
    BY DEF AnsweredIsApplied
  <2>1. /\ answered \in Nat /\ answered + Cardinality(PushedHandlers) = Len(pushed)
        /\ IsFiniteSet(PushedHandlers)
    BY DEF LifecycleInv, AnsweredWasPushed
  <2>2. /\ Cardinality(PushedHandlers) \in Nat
        /\ Len(applied) \in Nat /\ Len(pushed) \in Nat
    BY <2>1, FS_CardinalityType, LenProperties DEF LifecycleInv, LifecycleTypeOK, TypeOK
  <2>3. CASE shuttingDown
    BY <2>1, <2>2, <2>3 DEF LifecycleInv, AnsweredWasPushed
  <2>4. CASE ~shuttingDown
    <3>1. Len(pushed) = 0
      BY <2>4, EmptySeq DEF LifecycleInv, ServerOrder
    <3> QED
      BY <2>1, <2>2, <3>1
  <2> QED
    BY <2>3, <2>4
<1> QED
  BY <1>1, LifecycleInvariant, PTL

\* No handler and no command is inside an object that main() destroys.
THEOREM NoHandlerLeft == LifecycleSpec => []NoHandlerAfterExit
<1>1. LifecycleInv => NoHandlerAfterExit
  BY DEF LifecycleInv, MainOrder, ServerOrder, NoHandlerAfterExit
<1> QED
  BY <1>1, LifecycleInvariant, PTL

=============================================================================
