-------------------------------- MODULE Bridge --------------------------------
(***************************************************************************)
(* bridge/Bridge: the queue between the gRPC handlers, which call          *)
(* applyUpdate(), and the flush thread, which applies the updates to the   *)
(* outstation in batches.  One controlling thread calls start() and stop().*)
(*                                                                         *)
(* Granularity.  Each section that mutex_ protects is one step: none of    *)
(* them blocks.  Everything the code does after it has released the mutex, *)
(* the notifications above all, is a step of its own.                      *)
(***************************************************************************)
EXTENDS Naturals, Sequences

CONSTANTS
    Producers,      \* the threads that call applyUpdate()
    Updates,        \* the point updates
    MaxUpdates,     \* bound on the number of updates queued
    MaxStarts       \* bound on the number of start() calls that start the thread

ASSUME MaxUpdatesAssumption == MaxUpdates \in Nat
ASSUME MaxStartsAssumption == MaxStarts \in Nat

VARIABLES
    queue_,         \* updates waiting for the flush thread
    running_,
    flush,          \* the flush thread: see FlushStates
    batch,          \* the flush thread's local batch
    producer,       \* each producer: "idle", or "notify" between push and notify
    control,        \* the controlling thread inside start() or stop()
    starts,         \* how often the flush thread was started
    pushed,         \* history: every update pushed, in order
    applied,        \* every update handed to the outstation, in order
    stopMark        \* history: Len(pushed) when stop() cleared running_

vars == <<queue_, running_, flush, batch, producer, control, starts, pushed,
          applied, stopMark>>

\* "none": no thread; "check": about to evaluate the predicate of cv_.wait();
\* "waiting": asleep in cv_.wait(); "drain": applying its batch outside the
\* lock; "exited": flushLoop() has returned and the thread is not yet joined.
FlushStates == {"none", "check", "waiting", "drain", "exited"}
ControlStates == {"idle", "spawn", "notify", "join"}

Init ==
    /\ queue_ = <<>>
    /\ running_ = FALSE
    /\ flush = "none"
    /\ batch = <<>>
    /\ producer = [p \in Producers |-> "idle"]
    /\ control = "idle"
    /\ starts = 0
    /\ pushed = <<>>
    /\ applied = <<>>
    /\ stopMark = 0

\* What a notification does: a thread asleep in cv_.wait() evaluates its
\* predicate again; with nobody asleep it is lost.
Wake == flush' = IF flush = "waiting" THEN "check" ELSE flush

-----------------------------------------------------------------------------
(* applyUpdate() *)

\* Variant: applyUpdate() pushes and returns without notifying.
PushQuietly(p, u) ==
    /\ producer[p] = "idle"
    /\ Len(pushed) < MaxUpdates
    /\ queue_' = Append(queue_, u)
    /\ pushed' = Append(pushed, u)
    /\ UNCHANGED <<running_, flush, batch, producer, control, starts, applied,
                   stopMark>>

Push(p, u) ==
    /\ producer[p] = "idle"
    /\ Len(pushed) < MaxUpdates
    /\ queue_' = Append(queue_, u)
    /\ pushed' = Append(pushed, u)
    /\ producer' = [producer EXCEPT ![p] = "notify"]
    /\ UNCHANGED <<running_, flush, batch, control, starts, applied, stopMark>>

\* Variant: the notification goes to a condition variable nobody waits on.
NotifyNobody(p) ==
    /\ producer[p] = "notify"
    /\ producer' = [producer EXCEPT ![p] = "idle"]
    /\ UNCHANGED <<queue_, running_, flush, batch, control, starts, pushed,
                   applied, stopMark>>

NotifyOne(p) ==
    /\ producer[p] = "notify"
    /\ producer' = [producer EXCEPT ![p] = "idle"]
    /\ Wake
    /\ UNCHANGED <<queue_, running_, batch, control, starts, pushed, applied,
                   stopMark>>

-----------------------------------------------------------------------------
(* start() and stop(); calling either in the state it establishes returns   *)
(* at once and changes nothing                                              *)

Start ==
    /\ control = "idle"
    /\ ~running_
    /\ starts < MaxStarts
    /\ running_' = TRUE
    /\ starts' = starts + 1
    /\ control' = "spawn"
    /\ UNCHANGED <<queue_, flush, batch, producer, pushed, applied, stopMark>>

SpawnFlushThread ==
    /\ control = "spawn"
    /\ flush' = "check"
    /\ control' = "idle"
    /\ UNCHANGED <<queue_, running_, batch, producer, starts, pushed, applied,
                   stopMark>>

\* Variant: stop() joins without waking the flush thread.
StopQuietly ==
    /\ control = "idle"
    /\ running_
    /\ running_' = FALSE
    /\ stopMark' = Len(pushed)
    /\ control' = "join"
    /\ UNCHANGED <<queue_, flush, batch, producer, starts, pushed, applied>>

Stop ==
    /\ control = "idle"
    /\ running_
    /\ running_' = FALSE
    /\ stopMark' = Len(pushed)
    /\ control' = "notify"
    /\ UNCHANGED <<queue_, flush, batch, producer, starts, pushed, applied>>

NotifyAll ==
    /\ control = "notify"
    /\ Wake
    /\ control' = "join"
    /\ UNCHANGED <<queue_, running_, batch, producer, starts, pushed, applied,
                   stopMark>>

\* Variant: stop() detaches the flush thread.
Detach ==
    /\ control = "join"
    /\ control' = "idle"
    /\ UNCHANGED <<queue_, running_, flush, batch, producer, starts, pushed,
                   applied, stopMark>>

Join ==
    /\ control = "join"
    /\ flush = "exited"
    /\ flush' = "none"
    /\ control' = "idle"
    /\ UNCHANGED <<queue_, running_, batch, producer, starts, pushed, applied,
                   stopMark>>

-----------------------------------------------------------------------------
(* flushLoop() *)

\* Variant: the loop ends as soon as running_ is false, whatever is queued.
WaitAndSwapNoDrain ==
    /\ flush = "check"
    /\ \/ /\ queue_ = <<>> /\ running_
          /\ flush' = "waiting"
          /\ UNCHANGED <<queue_, batch>>
       \/ /\ ~running_
          /\ flush' = "exited"
          /\ UNCHANGED <<queue_, batch>>
       \/ /\ queue_ # <<>> /\ running_
          /\ flush' = "drain"
          /\ batch' = queue_
          /\ queue_' = <<>>
    /\ UNCHANGED <<running_, producer, control, starts, pushed, applied, stopMark>>

\* Variant: the batch is a copy, the queue keeps its updates.
WaitAndCopy ==
    /\ flush = "check"
    /\ \/ /\ queue_ = <<>> /\ running_
          /\ flush' = "waiting"
          /\ UNCHANGED batch
       \/ /\ queue_ = <<>> /\ ~running_
          /\ flush' = "exited"
          /\ UNCHANGED batch
       \/ /\ queue_ # <<>>
          /\ flush' = "drain"
          /\ batch' = queue_
    /\ UNCHANGED <<queue_, running_, producer, control, starts, pushed, applied,
                   stopMark>>

\* cv_.wait() with its predicate, the test for the end and the swap, all under
\* mutex_: sleep, return, or take the whole queue.
WaitAndSwap ==
    /\ flush = "check"
    /\ \/ /\ queue_ = <<>> /\ running_
          /\ flush' = "waiting"
          /\ UNCHANGED <<queue_, batch>>
       \/ /\ queue_ = <<>> /\ ~running_
          /\ flush' = "exited"
          /\ UNCHANGED <<queue_, batch>>
       \/ /\ queue_ # <<>>
          /\ flush' = "drain"
          /\ batch' = queue_
          /\ queue_' = <<>>
    /\ UNCHANGED <<running_, producer, control, starts, pushed, applied, stopMark>>

\* Variant: the newest update of the batch goes first, as from a stack.
ApplyLast ==
    /\ flush = "drain"
    /\ batch # <<>>
    /\ applied' = Append(applied, batch[Len(batch)])
    /\ batch' = SubSeq(batch, 1, Len(batch) - 1)
    /\ UNCHANGED <<queue_, running_, flush, producer, control, starts, pushed,
                   stopMark>>

\* One update of the batch goes to the outstation.
ApplyHead ==
    /\ flush = "drain"
    /\ batch # <<>>
    /\ applied' = Append(applied, Head(batch))
    /\ batch' = Tail(batch)
    /\ UNCHANGED <<queue_, running_, flush, producer, control, starts, pushed,
                   stopMark>>

BatchDone ==
    /\ flush = "drain"
    /\ batch = <<>>
    /\ flush' = "check"
    /\ UNCHANGED <<queue_, running_, batch, producer, control, starts, pushed,
                   applied, stopMark>>

\* A condition variable may wake without a notification.
SpuriousWakeup ==
    /\ flush = "waiting"
    /\ flush' = "check"
    /\ UNCHANGED <<queue_, running_, batch, producer, control, starts, pushed,
                   applied, stopMark>>

-----------------------------------------------------------------------------

FlushStep == WaitAndSwap \/ ApplyHead \/ BatchDone

Next ==
    \/ \E p \in Producers : NotifyOne(p) \/ \E u \in Updates : Push(p, u)
    \/ Start \/ SpawnFlushThread \/ Stop \/ NotifyAll \/ Join
    \/ FlushStep
    \/ SpuriousWakeup

Spec == Init /\ [][Next]_vars

\* Threads that are not blocked keep running.  Nobody has to call applyUpdate(),
\* start() or stop(), and no spurious wakeup is counted on.
Fairness ==
    /\ \A p \in Producers : WF_vars(NotifyOne(p))
    /\ WF_vars(SpawnFlushThread)
    /\ WF_vars(NotifyAll)
    /\ WF_vars(Join)
    /\ WF_vars(FlushStep)

FairSpec == Spec /\ Fairness

-----------------------------------------------------------------------------
(* Properties *)

\* The type of every variable.
TypeOK ==
    /\ queue_ \in Seq(Updates)
    /\ running_ \in BOOLEAN
    /\ flush \in FlushStates
    /\ batch \in Seq(Updates)
    /\ producer \in [Producers -> {"idle", "notify"}]
    /\ control \in ControlStates
    /\ starts \in 0 .. MaxStarts
    /\ pushed \in Seq(Updates)
    /\ applied \in Seq(Updates)
    /\ stopMark \in Nat

\* The flush thread exists between start() and stop(), and only there: it leaves
\* its loop for nobody but the stop() that waits for it, keeps nothing it took,
\* and is gone when stop() returns.  So a later start() never assigns
\* flush_thread_ over a thread that still runs, two of which would share the
\* queue.
OneFlushThread ==
    /\ control = "spawn" => flush = "none" /\ running_
    /\ control = "idle" => (flush = "none" <=> ~running_)
    /\ control \in {"notify", "join"} => flush # "none" /\ ~running_
    /\ flush = "exited" => control \in {"notify", "join"}
    /\ batch # <<>> => flush = "drain"

\* The updates applied, then the rest of the batch, then the queue are the
\* updates pushed: the swap loses nothing, repeats nothing and keeps the order,
\* across any number of starts and stops.
NothingLostOrReordered == applied \o (batch \o queue_) = pushed

\* The flush thread never sleeps on work or on a stop request unless a
\* notification that will wake it is still to come.
NoLostWakeup ==
    flush = "waiting" /\ (queue_ # <<>> \/ ~running_) =>
        control = "notify" \/ \E p \in Producers : producer[p] = "notify"

\* flushLoop() returns only after everything pushed before stop() cleared
\* running_ has been applied.
StopDrains == flush = "exited" => Len(applied) >= stopMark /\ batch = <<>>

\* The bridge is a FIFO channel: see UpdateChannel.
Channel == INSTANCE UpdateChannel WITH accepted <- pushed, delivered <- applied

ImplementsChannel == Channel!Spec

\* An update pushed while the bridge runs is applied, also when stop() comes
\* before the flush thread sees it.
RunningBridgeApplies ==
    \A n \in 1 .. MaxUpdates :
        (running_ /\ Len(pushed) >= n) ~> (Len(applied) >= n)

\* start() and stop() return: the flush thread cannot miss the stop request.
ControlReturns == (control # "idle") ~> (control = "idle")

-----------------------------------------------------------------------------
(* The inductive invariant that the proofs use *)

BridgeInv ==
    /\ TypeOK
    /\ OneFlushThread
    /\ NothingLostOrReordered
    /\ NoLostWakeup
    /\ stopMark <= Len(pushed)
    /\ StopDrains

=============================================================================
