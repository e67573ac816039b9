----------------------------- MODULE UpdatePoints -----------------------------
(***************************************************************************)
(* grpc/BridgeServiceImpl::UpdatePoints on top of Bridge: each gRPC        *)
(* handler thread queues the points of its request one applyUpdate() at a  *)
(* time, then answers success=true.  The time that it stores for GetStatus *)
(* is left out.                                                            *)
(***************************************************************************)
EXTENDS Bridge, FiniteSets

CONSTANTS
    Requests,   \* [analogs, binaries : sequences of points], as the client sends
    IndexWidth, \* 2^16: an index is a uint32 on the wire and a uint16_t here
    MaxCalls    \* bound on the number of calls

VARIABLES
    call,           \* each handler: "none", or "enqueue" while it runs
    todo,           \* what the handler's two loops still have to queue
    calls,          \* how many calls were made
    owner,          \* history: owner[i] is the handler that pushed pushed[i]
    current,        \* history: the request each handler works on
    answered,       \* history: how many updates of each handler were answered
    answeredAtStop  \* history: answered, when stop() cleared running_

serviceVars == <<call, todo, calls, owner, current, answered, answeredAtStop>>
allVars == <<vars, serviceVars>>

NoRequest == [analogs |-> <<>>, binaries |-> <<>>]

UpdatePointsInit ==
    /\ Init
    /\ call = [p \in Producers |-> "none"]
    /\ todo = [p \in Producers |-> <<>>]
    /\ calls = 0
    /\ owner = <<>>
    /\ current = [p \in Producers |-> NoRequest]
    /\ answered = [p \in Producers |-> 0]
    /\ answeredAtStop = [p \in Producers |-> 0]

\* The update made of a point: static_cast<uint16_t> cuts the index.
ToUpdate(kind, point) == [kind |-> kind, index |-> point.index % IndexWidth]

\* What the handler queues of a request: the analogs, then the binaries.  The
\* counters of a request are never looked at.
Queued(r) ==
    [n \in DOMAIN r.analogs |-> ToUpdate("analog", r.analogs[n])]
    \o [n \in DOMAIN r.binaries |-> ToUpdate("binary", r.binaries[n])]

ASSUME RequestsAssumption == \A r \in Requests : Queued(r) \in Seq(Updates)

BeginUpdatePoints(p, r) ==
    /\ call[p] = "none"
    /\ calls < MaxCalls
    /\ calls' = calls + 1
    /\ call' = [call EXCEPT ![p] = "enqueue"]
    /\ todo' = [todo EXCEPT ![p] = Queued(r)]
    /\ current' = [current EXCEPT ![p] = r]
    /\ UNCHANGED <<vars, owner, answered, answeredAtStop>>

\* The next point of the request goes through applyUpdate().
EnqueueNext(p) ==
    /\ call[p] = "enqueue"
    /\ todo[p] # <<>>
    /\ Push(p, Head(todo[p]))
    /\ todo' = [todo EXCEPT ![p] = Tail(todo[p])]
    /\ owner' = Append(owner, p)
    /\ UNCHANGED <<call, calls, current, answered, answeredAtStop>>

\* Variant: the call is answered before its points are queued.
AnswerEarly(p) ==
    /\ call[p] = "enqueue"
    /\ producer[p] = "idle"
    /\ call' = [call EXCEPT ![p] = "none"]
    /\ answered' = [answered EXCEPT ![p] = @ + Len(Queued(current[p]))]
    /\ UNCHANGED <<vars, todo, calls, owner, current, answeredAtStop>>

\* Once every applyUpdate() of the request has returned, success=true.
Answer(p) ==
    /\ call[p] = "enqueue"
    /\ todo[p] = <<>>
    /\ producer[p] = "idle"
    /\ call' = [call EXCEPT ![p] = "none"]
    /\ answered' = [answered EXCEPT ![p] = @ + Len(Queued(current[p]))]
    /\ UNCHANGED <<vars, todo, calls, owner, current, answeredAtStop>>

\* The steps of the bridge that are neither applyUpdate()'s push nor stop().
BridgeStep ==
    /\ \/ \E p \in Producers : NotifyOne(p)
       \/ Start \/ SpawnFlushThread \/ NotifyAll \/ Join
       \/ FlushStep
       \/ SpuriousWakeup
    /\ UNCHANGED serviceVars

StopBridge ==
    /\ Stop
    /\ answeredAtStop' = answered
    /\ UNCHANGED <<call, todo, calls, owner, current, answered>>

UpdatePointsNext ==
    \/ \E p \in Producers :
        \/ \E r \in Requests : BeginUpdatePoints(p, r)
        \/ EnqueueNext(p)
        \/ Answer(p)
    \/ BridgeStep
    \/ StopBridge

UpdatePointsSpec == UpdatePointsInit /\ [][UpdatePointsNext]_allVars

\* The bridge's own fairness is all that is needed: a handler may be descheduled
\* for ever between two points.
FairUpdatePointsSpec == UpdatePointsSpec /\ Fairness

-----------------------------------------------------------------------------
(* Properties; those of Bridge are checked of this composition too *)

\* How many of the first n updates pushed are p's.
CountOf(s, p, n) == Cardinality({i \in 1 .. n : s[i] = p})

AppliedOf(p) == CountOf(owner, p, Len(applied))

\* A point whose UpdatePoints call was answered before stop() has reached the
\* outstation by the time the flush thread is gone: success=true is kept
\* through shutdown.
AnsweredBeforeStopIsApplied ==
    flush = "exited" => \A p \in Producers : AppliedOf(p) >= answeredAtStop[p]

(* What the documentation says of UpdatePoints; the code does otherwise *)

\* docs/Guia_integracao_gRPC.md: the points of one UpdateRequest are queued
\* together and applied in the same batch.  So no batch is taken while a
\* handler has queued a part of its request only.
RequestIsOneBatch ==
    [][flush = "check" /\ flush' = "drain" =>
        \A p \in Producers : call[p] = "enqueue" =>
            todo[p] \in {<<>>, Queued(current[p])}]_allVars

-----------------------------------------------------------------------------
(* The inductive invariant that the proofs use *)

\* What a handler has pushed is what it was answered, and of the call it is in
\* all but what is still to do; and of that, what was answered before stop() was
\* pushed before it.
HandlersAccount ==
    /\ call \in [Producers -> {"none", "enqueue"}]
    /\ todo \in [Producers -> Seq(Updates)]
    /\ current \in [Producers -> Requests \cup {NoRequest}]
    /\ owner \in Seq(Producers) /\ Len(owner) = Len(pushed)
    /\ answered \in [Producers -> Nat]
    /\ answeredAtStop \in [Producers -> Nat]
    /\ \A p \in Producers :
        /\ call[p] = "none" => answered[p] = CountOf(owner, p, Len(pushed))
        /\ call[p] = "enqueue" =>
            /\ Queued(current[p]) \in Seq(Updates)
            /\ answered[p] + Len(Queued(current[p]))
                = CountOf(owner, p, Len(pushed)) + Len(todo[p])
        /\ answered[p] <= CountOf(owner, p, Len(pushed))
        /\ answeredAtStop[p] <= CountOf(owner, p, stopMark)

UpdatePointsInv == BridgeInv /\ HandlersAccount

=============================================================================
