# TLA+ models of dnp3-bridge

`dnp3-bridge` is a C++ service between a Python application (gRPC) and a SCADA
master (DNP3, through opendnp3). These modules model its own logic: what it adds
to gRPC and opendnp3. Both libraries appear only through how `src/` uses them;
such definitions are marked external in `PROJECT.json`. Source paths below are
relative to the repository root.

## The system

```
 Python client                         dnp3-bridge                            SCADA
 UpdatePoints ------> BridgeServiceImpl -> Bridge queue -> flush thread
                                                            -> OutstationManager -> events, polls
 StreamCommands <---- CommandDispatcher <- ForwardingCommandHandler <---------- commands
 RespondToCommand --> CommandDispatcher (completes the blocked dispatch()) ---> status
```

Threads: `main()`, `grpc_thread`, gRPC's handler threads, the flush thread, and
the two threads of opendnp3.

| Component | State it keeps | Operations | Interacts with |
|---|---|---|---|
| `CommandDispatcher` | `next_id_`, `pending_` (id to promise), `active_writer_`, two mutexes | `registerWriter`, `~StreamToken`, `dispatch`, `fulfill` | called from opendnp3 (`dispatch`) and from gRPC handlers (the others) |
| `Bridge` | `queue_`, `running_`, `mutex_`, `cv_`, the flush thread and its batch | `applyUpdate`, `start`, `stop`, `flushLoop` | handlers push; the flush thread calls `OutstationManager` |
| `BridgeServiceImpl` | `last_update_ms_` | `UpdatePoints`, `GetStatus`, `StreamCommands`, `RespondToCommand` | calls the two above |
| `OutstationManager` | the opendnp3 objects, `analog_deadband_`, `analog_state_`, `binary_state_`, `connected_` | `start`, `shutdown`, `updateAnalog`, `updateBinary`, `isConnected` | called by the flush thread and `main()` |
| Point database (in `OutstationManager.cpp`) | `DatabaseConfig` while it is built | `validatePointDatabase`, `configure...` | called by `main()` and `start()` |
| Lifecycle: `main.cpp`, `GrpcServer` | `g_shutdown_requested`, `server_` | start and shutdown of everything | owns every component |
| `ForwardingCommandHandler` | `mode_` | `Select`, `Operate` of five kinds of command | called by opendnp3's outstation; calls `dispatch` |
| `ConfigLoader` | none | `load`: defaults, file, environment | called by `main()` |
| `dsp_sim.py`, the reference client | its stream, the command it works on | `command_listener`, which reconnects | the other end of `StreamCommands` and `RespondToCommand` |
| The master simulator (`tools/dnp3-master-sim`) | the flags of its dialogues, the points it received | dialogues, polls, `Process` | the other end of DNP3 |
| `tui.py`, `PointMap` | | | manual tests; unused tables |

What is hard in it, and what makes each part correct:

- **Dispatcher.** A timeout races a late answer; the client may answer before
  `Write()` has returned, twice, or never; it may reconnect before its old stream
  is noticed to be dead; `Write()` uses a pointer into another thread's frame and
  is called under a mutex. Correct means: no promise is leaked or withdrawn too
  early, commands go to the newest stream, no write overlaps another or outlives
  its handler, SCADA is told what happened, and `dispatch()` returns.
- **Bridge.** Push and notification are two steps; the queue is swapped as a
  whole; `stop()` may come at any moment. Correct means: a FIFO channel, no lost
  wakeup, everything pushed before `stop()` is applied, `stop()` returns.
- **Events.** Which updates become DNP3 events is decided from a reference value
  per point that has to survive drift, NaN and restarts. Correct means: a master
  that reads events only is never off by more than the deadband, and quality
  alone makes no event.
- **Point database.** Entries overlap, set some fields each, and are ranges over
  16-bit indices. Correct means: the last entry that sets a field decides, no
  unknown name is applied as if it were another, the loops end.
- **Configuration.** Defaults, file and environment override each other, numbers
  are cut to the width of their members, and there are two kinds of error.
  Correct means: what was said last of each setting holds, and the errors that the
  code looks for, and only those, end the process before it has an outstation.
- **The way of a command.** Between the operator's key and the Python listener
  lie a dialogue, two DNP3 stacks, two command modes, a timeout on either side
  of the dispatcher, and a client that reconnects. Correct means: each command
  reaches the client at most once and in order, SUCCESS is the client's own
  answer, and the client ends up with the stream that commands are sent on.
- **The way of a value.** Events wait in bounded buffers, responses and
  confirmations get lost, and polls mix static values with events. Correct means:
  a master that was told everything sees the present values, within what the
  deadbands allow.
- **Lifecycle.** Four kinds of threads are taken down in order, from a signal
  that may come before the server exists. Correct means: nobody uses an object
  that is gone, what was answered is applied, a signal ends the process.

## The modules

| Module | Models | Notes |
|---|---|---|
| `CommandDispatcher` | `dnp3/CommandDispatcher`, with the `StreamCommands` and `RespondToCommand` handlers and any client | the core |
| `DispatcherRestart` | the same across a restart of the process | extends `CommandDispatcher` |
| `UpdateChannel` | the abstract promise of the bridge: a FIFO channel | |
| `Bridge` | `bridge/Bridge` | implements `UpdateChannel` |
| `UpdatePoints` | the `UpdatePoints` handlers on top of the queue | extends `Bridge` |
| `OutstationManager` | `updateAnalog`, `updateBinary`, `start`, `shutdown` | |
| `MasterView` | event buffer, responses, connection, the master simulator's points | extends `OutstationManager` |
| `PointDatabase` | validation and construction of the point database | sequential |
| `ConfigLoader` | `load()` in front of it, `logDatabaseSummary()` after it | extends `PointDatabase` |
| `Lifecycle` | `main.cpp` and `GrpcServer`, with handlers, stream, command and signal | extends `Bridge`, whose controlling thread is `main()` |
| `CommandPath` | dialogue, master, outstation, `ForwardingCommandHandler`, `dispatch()`, the listener of `dsp_sim.py`, restarts | extends `DispatcherRestart` |
| `*_proofs` | theorems, checked by TLAPS | one for each module it is named after |
| `MC*` | constants for TLC | |

Variables carry the names of the members they model; operators that are not a
whole function say in their comment which part of it they are. Variables that
no code keeps are marked "history". Definitions whose comment begins with
*Variant* change one action or helper the way a plausible bug would; no
specification uses them. They are there to see that each property notices: put
in place of the definition that follows, the property is violated.

**Granularity.** Sections under a mutex that only touch memory (`pending_mutex_`,
`Bridge::mutex_`) are single steps. `writer_mutex_` is held across `Write()`, so
its sections in `dispatch()` are several steps with an explicit owner
(`HoldsWriterMutex`), and everyone else who takes it waits for
`WriterMutexFree`. Whatever happens between two lock sections is a step of its
own: between the assignment of an id and the insertion of its promise, between
the timeout and the erase, between a push and its notification, between
`BuildAndStart()` and the assignment of `server_`.

**Correspondence, in short.**

- `CommandDispatcher`: `pc[t]` is where the thread is in `dispatch()`: `insert`
  (line 77), `send` (84), `rejected` (86), `writing` (93), `failed` (94 and the two
  handlers of exceptions, which do the same), `wait` (112), `expired` (113). A
  stream is the address of its `ServerWriter`, so it is *reused*: `free` after the
  handler has returned, then perhaps another call's. `promise[id]` survives its map
  entry, as the future does.
- `Bridge`: `flush` is the position of the flush thread; `check` is the evaluation
  of `cv_.wait()`'s predicate with the mutex held, and the test and swap after it.
  `control` is the position of the thread inside `start()` or `stop()`.
- `OutstationManager`: `Apply()` and opendnp3's database and event list are one
  step, because opendnp3 runs what is posted to it in order. A number is an
  integer; NaN and the infinities are values that fail every comparison.
- `PointDatabase`: `phase`, `section`, `entry` and `i` are the position in the
  nested loops. The widths of an index and of the loop counter are constants.
- `ConfigLoader`: `stage` is how far `main()` is with the configuration. A setting
  is a key of the file; `Width` says to how many values its member is cut. A wrong
  type is a value on which `get<>()` throws: nobody catches it, so the process is
  `terminated`; a file that cannot be read is `failed`, and `main()` returns 1.
  `runs` holds, for each section, the runs that `logPointRuns()` has printed and, as
  its last element, the one in its local variables; one step is one turn of its loop.
- `CommandPath`: `modal` holds the flags of the two dialogues, `tab_index` the
  child that is drawn. `tasks` are the commands given to a master and `results`
  what it reported of them; `requests` and `selected` belong to opendnp3's
  outstation, `operating` is the command its strand is dispatching. `hears` is the
  stream the listener reads and `holding` the command its loop body works on. The
  steps inside `dispatch()` are those of `CommandDispatcher`, on the one strand.
- `MasterView`: an event is in `events` from `Apply()` until its confirmation, under
  the number of the update that made it, and `written` while a response with it is
  unconfirmed; `line` is the response on its way, `confirm` the confirmation. `view`
  is what `Process()` stored last.
- `Lifecycle`: `main` and `grpc` are the positions of the two threads. The gRPC
  server accepts calls from the end of `BuildAndStart()` to `Shutdown()`. The
  outstation's `shutdown()` is three steps: `outstation_` is reset,
  `manager_->Shutdown()` is called (until then a command may still come in), and it
  returns when no command is being dispatched (`manager.Shutdown`).

## The runs

All under TLC with two workers; the number of distinct states is in brackets.

| Run | Result | Shows |
|---|---|---|
| `dispatcher_safety` | passes [587,803] | the safety of the dispatcher |
| `dispatcher_liveness` | passes [66,931] | `dispatch()` returns, cancelled streams end |
| `bridge` | passes [59,804] | under the calls of `UpdatePoints`: the FIFO channel, no lost wakeup, `stop()` drains, joins and returns, points answered before `stop()` are applied |
| `outstation_events` | passes [62,263] | events follow values; quality alone makes none |
| `master_view` | passes [1,126,889] | what a master sees, through full buffers, losses and restarts |
| `point_database` | passes [141,588] | from file and environment to the database and its summary in the log; which errors end the process |
| `lifecycle` | passes [37,523] | order of start and shutdown; a served process ends on a signal |
| `command_path` | passes [674,772] | commands from the dialogue to the listener and back, with a restart or a broken stream |
| `late_answer` | violation | an answer accepted after SCADA was told TIMEOUT |
| `id_reuse` | violation | ids repeat after a restart |
| `request_batch` | violation | a request can be applied in two batches |
| `early_signal` | violation | a signal during start-up leaves the process running for ever |

**Bounds and why they are enough.** Every counter that grows is bounded by a
constant named in its module (`MaxCommands`, `MaxUpdates`, `MaxStarts`,
`MaxCalls`, `MaxRestarts`, `MaxDialogues`, `MaxTasks`, `MaxPolls`, `MaxFaults`) and in the guard of the action that
increments it.

- *Dispatcher*: two callers, two writer addresses, three commands, two answers:
  one thread can be in every window of `dispatch()` while the other is in
  another; both addresses can be reused; a third command can follow two others.
  The liveness run has one answer and two commands, and no symmetry. The program
  has one outstation, whose strand calls `dispatch()` one command at a time; more
  callers are what the class is written for, and cover it. The violation runs use
  one caller, so that they are about the program as it is.
- *Bridge with UpdatePoints*: two handlers, two calls of two points, two starts,
  indices of one bit: a push can fall into every window of the flush thread and of
  `stop()`, two calls can interleave, and a second start meets what was pushed
  after the first stop.
- *OutstationManager*: values 0..4 with deadband 1, so that two steps within the
  deadband leave it, NaN, all four qualities, an index without a point, two starts.
- *MasterView*: two analog points, one with deadband 1 and one with 0, and a binary
  point; room for one event of each kind, so that the second analog event
  overflows; values 0..3, three updates, one poll, one fault (a broken connection
  or a confirmation that is late), two starts. Quality is left at Good:
  `outstation_events` has the others.
- *ConfigLoader and PointDatabase*: two sections with up to two entries; indices
  0..3 under a counter of 8, so that a range reaches the largest index and an
  index in the file can exceed it; every pair of ranges, reversed ones, misspelt
  names and wrong types included; three settings, one a text (`command_mode`, misspelt
  in the file, misspelt or empty in the environment), one a number that the
  environment can override, one that it cannot.
- *Lifecycle*: two handlers and two streams, two updates, one command at a time.
- *CommandPath*: one strand, as in the program; two writer addresses, since the
  listener's new stream may meet the old one; two commands, one dialogue and one
  other master, so that a command can follow one that timed out; one fault, a
  restart or a broken stream; four-bit integers, of which one typed does not fit.

`CHECK_DEADLOCK FALSE` stands where the system may stop: a stopped bridge, a
database that is built, a process that has exited, a path whose commands and
faults are used up. The dispatcher never stops (a client may always open a
stream), so there deadlock is checked.

**Fairness.** Assumed only for what the code's own threads do when nothing blocks
them. In the dispatcher, the steps of `dispatch()` are weakly fair: `wait_for()` is
bounded by `timeout_`, and `Write()` returns. The last is gRPC's: it returns
when the message is handed to the transport, and fails when the call is cancelled;
a stream whose client neither reads nor hangs up can delay it, with `writer_mutex_`
held, and that delay is not in the model. Taking `writer_mutex_` is strongly fair,
since others may take it in between. In the bridge and in the lifecycle every
thread's own steps are weakly fair; no spurious wakeup is counted on. Nothing is
assumed of the client, of SCADA or of signals: they need not act, and they need
not hang up. The deadline of `Shutdown()` passes, and `dispatch()` returns, which is
`DispatchReturns`.

`FairPathSpec` adds that gRPC notices when a client has left its stream and that
the loop of the listener runs: it meets the end of its stream, and it opens
another. It need not answer what it receives, and the masters need do nothing.
It opens its first stream at once. Its pause of two seconds before it *re*connects
is modelled by what it outlasts (`Paused`): the few instructions between the start of a `StreamCommands` handler
and its registration, and those between the insertion into `pending_` and the read
of `active_writer_`. The code relies on both. A handler that registered later than
the next one would replace it, and commands would go to a stream that nobody
reads (`StreamIsRestored`); an answer to an old command that fell between insertion
and send would complete a new command with the same id
(`SuccessIsTheClientsAnswer`).

`FairViewSpec` has the channel connect again, responses and confirmations arrive
unless the connection breaks, and the outstation send what it has; faults are
bounded, and nothing is assumed of updates and polls.

## Where code and documentation differ

- *A late answer.* `docs/Guia_integracao_gRPC.md:358` says an answer after the
  timeout gets `success=false`. `dispatch()` gives up in `wait_for()` and erases
  the promise afterwards; in between the answer is accepted (`late_answer`). The
  client then believes that SCADA has its result.
- *Unique ids.* Line 234 calls the id unique. It is unique within one process:
  the service is restarted on failure and counts from 1 again, and an answer to
  the old command 1 completes the new one (`id_reuse`).
- *One batch per request.* Line 315 says the points of a request are queued
  together and applied in one batch. They are queued one by one (`request_batch`).
- *`GrpcServer::start()`* "blocks until stop() is called". A `stop()` before
  `server_` is assigned has no effect, and `start()` then blocks for ever;
  `main()` joins its thread (`early_signal`). Until somebody kills the process
  it answers `UpdatePoints` with `success=true` and applies nothing.

More that needs no run:

- Without a stream `dispatch()` returns `NOT_SUPPORTED`, where lines 677-679 say
  `DOWNSTREAM_FAIL` (`CommandDispatcher.cpp:86`).
- The counters of a request are ignored, where `README.md:17` has them written to
  the database (`BridgeServiceImpl.cpp:61-79`).
- At a value that is not finite a quality change does make an event, where
  `OutstationManager.hpp:46` says it never can (`OutstationManager.cpp:473`; the
  property checked is therefore about finite values).
- Line 529 says `last_update_timestamp_ms` is the time of the last call; calls that
  overlap may store their times in the wrong order (`BridgeServiceImpl.cpp:85`).
- Line 514 has the bridge answer every SELECT with SUCCESS. In the default mode,
  `direct_operate`, it answers `NOT_SUPPORTED` (`ForwardingCommandHandler.cpp:40`),
  so a CROB of the master simulator, which always selects first (`Ui.cpp:293`),
  never gets through by default. In the other mode `Operate()` does not look at its
  `OperateType` (`ForwardingCommandHandler.cpp:47`): a DIRECT OPERATE passes without
  a SELECT.
- `ConfigLoader.hpp:14` has environment variables always take precedence; one whose
  number cannot be read leaves the file's value (`ConfigLoader.cpp:21`).
- Not everything wrong in a file is noticed. A misspelt `command_mode` is
  `direct_operate` (`OutstationManager.cpp:434`), an unknown name in a class mask
  enables no class (`OutstationManager.cpp:105-112`), a misspelt `log_level` is left
  to spdlog (`main.cpp:47`), a name given to a field that its section does not apply
  is not looked at, and neither is a key that nobody reads. The bridge starts with
  such a file. `RefusalIsExact` says which errors do stop it.
- A value of the wrong type in the file terminates the process, where a malformed
  file makes `load()` return an error (`ConfigLoader.cpp:97`).
- An index of a request above 65535 is cut and updates another point
  (`BridgeServiceImpl.cpp:65`; `ToUpdate` in `UpdatePoints`).

## The proofs

TLAPS checks all of them for any value of the constants, from the `ASSUME`s of the
modules only: `nullptr` is no writer, an absent status is no status, the bounds
are natural numbers, the points are among the indices, the deadbands are integers
(negative ones included), and NaN is no integer; what a request queues are updates
(`RequestsAssumption`); SUCCESS is among the answers of the listener
(`AnswersAssumption`), and another master's task selects first or operates directly
(`TasksAssumption`); the client sends qualities (`UpdatedAssumption`), and a point
that was never received is none that an outstation has (`NothingAssumption`); and of
the configuration: an index is narrower than the
loop counter (`WidthAssumption`), there are finitely many sections
(`SectionsAssumption`), the defaults fit
their members (`DefaultsAssumption`), an absent value is not one of a wrong type
(`AbsentAssumption`), a file has sections of entries whose indices and deadbands are
numbers, not given or of a wrong type (`LaunchesAssumption`), and a new point and the
default database have values of their fields and 16-bit indices
(`FieldValuesAssumption`). TLC evaluates all of them.

- **`CommandDispatcher_proofs`**: every safety property of `dispatcher_safety`, for
  any number of threads, streams and commands, and what is left of them across
  restarts. None of them is inductive. `DispatcherCore` is what holds whoever
  answers: each thread inside `dispatch()` owns a fresh id that nobody else has
  (`IdsAreOwned`); a command that is not yet in `pending_` has no answer
  (`FreshIsOpen`), since `fulfill()` sets no other promise; a command is unknown to
  the client until it is written (`UnsentIsUnseen`); `writer_mutex_` has one owner,
  and what its owner has read of `active_writer_` stays true (`MutexProtects`); and
  the outcomes are explained together with the messages still on the wire
  (`OutcomeIsCaused`), for otherwise a command rejected with NOT_SUPPORTED could
  still be delivered. One lemma per kind of action, one step per conjunct that it can
  disturb.

  In one process, `DispatcherInv` adds that only what was received is answered
  (`AnsweredWasReceived`). Across restarts that is false: ids begin at 1 again, and
  the client may answer a command of the earlier process, which is the finding of
  `id_reuse`. `RestartInv` says how far the damage goes. The core holds
  all the same, because a stale answer is one more call of `fulfill()` and a new
  process starts like the first; so `pending_` leaks nothing, dispatch() sends on the
  newest stream and `Write()` is safe (`RestartsAreSafe`), and no accepted answer is
  overwritten but by a restart (`AnswersFinalUntilRestart`). What fails is confined
  to the crossed commands: a command that was never sent may have an answer
  (`OutcomeAcrossRestarts`), and an answer may be refused before its id is handed out
  again (`RefusedAcrossRestarts`).
- **`Bridge_proofs`**: no update lost, repeated or reordered, no lost wakeup,
  `stop()` drains, and the refinement: each step of `Bridge` is a step of
  `UpdateChannel` or changes nothing there. `BridgeInv` adds when the flush
  thread exists and when it has a batch (`OneFlushThread`). That `ApplyHead` is a
  `Deliver` needs it: the head of the batch is the next update pushed, because
  what is applied, the batch and the queue together are what was pushed.
- **`OutstationManager_proofs`**: `AnalogEventsFollow` and `BinaryEventsFollow`.
  `EventsInv` adds `StateIsLastEvent`: while the outstation exists, the
  `PointState` of a point that was updated has the value of the point's last
  event. Then an update that is no event is within the deadband of that event,
  and one that is an event is equal to it.

  `QualityIsNoEvent` follows from the same invariant: a value is within the
  deadband of the last event, so the same value with another quality still is.
- **`UpdatePoints_proofs`**: `AnsweredBeforeStopIsApplied`, for any handlers,
  requests and interleavings. `HandlersAccount` counts for each handler: what it
  pushed is what it answered and what it did of its present call. With
  `StopDrains`, what was answered before `stop()` is in the first `stopMark`
  updates, and these are applied when the flush thread is gone.
  The composition implements `Bridge`: the handlers reach it with updates only, by
  the same count. So the FIFO channel goes from the RPC to the outstation
  (`UpdatePointsImplementsChannel`).
- **`Lifecycle_proofs`**: `OutstationOutlivesFlush`, `AnsweredIsApplied` and
  `NoHandlerAfterExit`. `LifecycleInv` takes `BridgeInv` over, by the lemmas of
  `Bridge_proofs`, and adds what the position of `main()` says of the bridge
  (`MainOrder`), what the server's says of the handlers (`ServerOrder`), and that
  an answer means a push (`AnsweredWasPushed`). The order of shutdown enters there:
  once the server is down, `stop()` finds every update pushed.
  Every step of the process is a step of `Bridge` or leaves it alone, so a process
  that is taken down at any moment still is a FIFO channel for its updates
  (`LifecycleImplementsChannel`).
- **`ConfigLoader_proofs`**: `TypeOK` of the database, `EffectiveSettings`,
  `FallbackIsUnreachable`, `LastSetterWins`, `NoEntryIsVoid`, `RefusalIsExact`
  and `LoggedRunsAreExact`, for any sections, fields, entries and widths. `DatabaseInv` has the loop invariant: the points and
  fields built so far are those of the entries laid so far (`BuiltSoFar`), where
  the entry in progress counts up to the loop's counter. `StagesOK` says what each
  stage of `load()` has taken over from the file. Validation looks at the entries
  after the cut, `RefusalIsExact` speaks of those in the file: `CheckedAsWritten` is
  the step between them. `RunsOK` is the invariant of the
  other loop, in `logPointRuns()`: the runs so far are exact for the points that the
  iterator has passed (`AreExact`), and the next point, which is beyond the last run,
  keeps them so, whether it extends that run or starts another (`AddKeepsExact`). When
  the summary is complete no point is left to pass.
- **`CommandPath_proofs`**: `ClientSeesOperatesOnce`, `SuccessIsTheClientsAnswer`
  and `OneCommandPerDialogue`, for any streams, commands and faults. `PathInv`
  follows a command by the number of its task: the outstation has the requests in
  the order of their tasks (`RequestsInOrder`), ids are given in that order
  (`ForwardedInOrder`), and what is on the wire of the client's stream is newer than
  all it has seen (`OnTheWire`, `SeenInOrder`). `AnswersAreOurs` is the argument
  for repeated ids: while the listener still works on a command of the old process
  the new one has no stream, so a promise that its answer completes belongs to a
  command that is never sent. `DialoguesAccount` says that a dialogue that is open
  has not sent its command yet.
  The path implements `DispatcherRestart` (`DispatcherUnderPath`): the listener's
  answers are to ids that were handed out, by this process or by an earlier one
  (`HoldsCommand`), so what the dispatcher keeps across restarts holds of the path
  (`PathIsSafe`).

- **`MasterView_proofs`**: `ViewFollows`, for any points, deadbands, capacities,
  classes, losses and restarts. First, the composition implements `OutstationManager`
  (`OutstationUnderView`): what a master does, what is lost and what does not fit a
  buffer never changes which updates become events, so `EventsInv` holds of it. Then
  `ViewInv` follows an event to the master. Of each point, either the master's
  *picture*, which is its view once the response on its way has arrived, tells the
  last event, or the latest event is in the buffer and unwritten, so it is still to
  be sent (`PictureOrBuffer`). That the latest event in the buffer is the last event
  there was (`LastIsBuffered`) needs an order: a full buffer drops the oldest, and
  what is written is older than what is not (`BufferOK`), so a confirmation removes
  the older events of a point first. A static value in an integrity poll is within
  the deadband of the last event (`EventsInv`), and so is the present value: hence
  twice the deadband.

Every safety and action property of a passing run is a theorem. Only model-checked
is liveness (`DispatchReturns`, `CancelledStreamEnds`, `RunningBridgeApplies`,
`ControlReturns`, `ConfigurationEnds`, `SignalEndsServingProcess`,
`StreamIsRestored`, `EventsAreDelivered`), which is out of the prover's reach. The
four statements that a violation run refutes are false, so nothing is proved of
them.

## Not modelled

- `PointMap`, tables of constants that the service does not use; `tui.py`, a screen
  for manual tests; the generated gRPC code; build and packaging, save for the
  restart policy, which is in `DispatcherRestart`.
- Of the parts modelled: `GetStatus` and the time it reports; the tables that rename
  status and quality; the race of `connected_` with the channel listener during
  `shutdown()`, after which nobody reads it; the set-up of the logger and every log
  line but the summary of the database; error texts; how the master simulator draws
  and names its points, and its output statuses, which the bridge never updates; the
  values that `dsp_sim.py` generates.
- opendnp3 and gRPC themselves. `CommandPath` and `MasterView` state what they use
  of opendnp3 in the comment they begin with.

## Plan

Done, the most important behaviour first: the dispatcher, the bridge with its
abstract channel, the `UpdatePoints` handlers, the events, the point database and
the lifecycle, then the configuration, the way of a command and the way of a value,
and the proofs listed above. What is left:

- the channel listener of the outstation, which may set `connected_` after
  `shutdown()` has cleared it;
- larger instances of `CommandPath`, with two faults, so that a restart can follow
  a broken stream.
