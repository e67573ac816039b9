-------------------------- MODULE UpdatePoints_proofs --------------------------
(***************************************************************************)
(* Proofs about UpdatePoints, for any number of handlers and any requests: *)
(* a point answered before stop() is applied.                              *)
(***************************************************************************)
EXTENDS UpdatePoints, Bridge_proofs, FiniteSetTheorems

-----------------------------------------------------------------------------
(* Counting in a sequence *)

LEMMA CountType ==
    ASSUME NEW s, NEW p, NEW n \in Nat
    PROVE  /\ IsFiniteSet({i \in 1 .. n : s[i] = p})
           /\ CountOf(s, p, n) \in Nat
<1>1. IsFiniteSet(1 .. n)
  BY FS_Interval
<1>2. IsFiniteSet({i \in 1 .. n : s[i] = p})
  BY <1>1, FS_Subset
<1> QED
  BY <1>2, FS_CardinalityType DEF CountOf

\* A longer prefix has at least as many.
LEMMA CountGrows ==
    ASSUME NEW s, NEW p, NEW m \in Nat, NEW n \in Nat, m <= n
    PROVE  CountOf(s, p, m) <= CountOf(s, p, n)
<1> DEFINE A == {i \in 1 .. m : s[i] = p}
           B == {i \in 1 .. n : s[i] = p}
<1>1. A \in SUBSET B
  OBVIOUS
<1>2. IsFiniteSet(B)
  BY CountType
<1> HIDE DEF A, B
<1>3. Cardinality(A) <= Cardinality(B)
  BY <1>1, <1>2, FS_Subset
<1> QED
  BY <1>3 DEF A, B, CountOf

\* What is appended leaves the prefixes alone.
LEMMA CountPrefix ==
    ASSUME NEW S, NEW s \in Seq(S), NEW q \in S, NEW p, NEW n \in 0 .. Len(s)
    PROVE  CountOf(Append(s, q), p, n) = CountOf(s, p, n)
<1>1. \A i \in 1 .. n : Append(s, q)[i] = s[i]
  BY AppendProperties
<1>2. {i \in 1 .. n : Append(s, q)[i] = p} = {i \in 1 .. n : s[i] = p}
  BY <1>1
<1> QED
  BY <1>2 DEF CountOf

\* It counts for the one who appended it.
LEMMA CountAppend ==
    ASSUME NEW S, NEW s \in Seq(S), NEW q \in S, NEW p
    PROVE  CountOf(Append(s, q), p, Len(s) + 1)
            = CountOf(s, p, Len(s)) + (IF p = q THEN 1 ELSE 0)
<1> DEFINE n == Len(s)
           A == {i \in 1 .. n : s[i] = p}
           B == {i \in 1 .. n + 1 : Append(s, q)[i] = p}
<1>1. n \in Nat
  BY LenProperties
<1>2. (\A i \in 1 .. n : Append(s, q)[i] = s[i]) /\ Append(s, q)[n + 1] = q
  BY AppendProperties
<1>3. IsFiniteSet(A) /\ Cardinality(A) = CountOf(s, p, n) /\ Cardinality(A) \in Nat
  BY <1>1, CountType DEF CountOf
<1> HIDE DEF n
<1>4. B = IF p = q THEN A \cup {n + 1} ELSE A
  <2>1. 1 .. n + 1 = (1 .. n) \cup {n + 1}
    BY <1>1
  <2>2. \A i \in 1 .. n : i \in B <=> i \in A
    BY <1>2, <2>1
  <2>3. n + 1 \in B <=> p = q
    BY <1>2, <2>1
  <2> QED
    BY <2>1, <2>2, <2>3
<1>5. n + 1 \notin A
  BY <1>1
<1>6. Cardinality(B) = Cardinality(A) + (IF p = q THEN 1 ELSE 0)
  <2> HIDE DEF A, B
  <2>1. Cardinality(A \cup {n + 1}) = Cardinality(A) + 1
    BY <1>3, <1>5, FS_AddElement
  <2> QED
    BY <1>3, <1>4, <2>1
<1> QED
  BY <1>3, <1>6 DEF CountOf, n

-----------------------------------------------------------------------------
(* The inductive invariant *)

LEMMA UpdatePointsInitEstablishes == UpdatePointsInit => UpdatePointsInv
<1> SUFFICES ASSUME UpdatePointsInit PROVE UpdatePointsInv
  OBVIOUS
<1>1. BridgeInv
  BY InitEstablishes DEF UpdatePointsInit
<1>2. /\ Len(pushed) = 0 /\ stopMark = 0 /\ Len(owner) = 0
      /\ <<>> \in Seq(Updates) /\ owner \in Seq(Producers)
  BY EmptySeq DEF UpdatePointsInit, Init
<1>3. \A p \in Producers : CountOf(owner, p, 0) = 0
  <2>1. \A p \in Producers : {i \in 1 .. 0 : owner[i] = p} = {}
    OBVIOUS
  <2> QED
    BY <2>1, FS_EmptySet DEF CountOf
<1>4. HandlersAccount
  BY <1>2, <1>3 DEF UpdatePointsInit, HandlersAccount
<1> QED
  BY <1>1, <1>4 DEF UpdatePointsInv

LEMMA BeginPreserves ==
    ASSUME UpdatePointsInv, NEW p \in Producers, NEW r \in Requests,
           BeginUpdatePoints(p, r)
    PROVE  HandlersAccount'
<1>1. Queued(r) \in Seq(Updates) /\ Len(Queued(r)) \in Nat
  BY RequestsAssumption, LenProperties
<1>2. Len(pushed) \in Nat
  BY LenProperties DEF UpdatePointsInv, BridgeInv, TypeOK
<1> QED
  BY <1>1, <1>2 DEF BeginUpdatePoints, UpdatePointsInv, HandlersAccount, vars

\* The point goes from what is to do to what is pushed.
LEMMA EnqueuePreserves ==
    ASSUME UpdatePointsInv, NEW p \in Producers, EnqueueNext(p)
    PROVE  HandlersAccount'
<1>1. /\ pushed \in Seq(Updates) /\ Len(pushed) \in Nat
      /\ owner \in Seq(Producers) /\ Len(owner) = Len(pushed)
      /\ stopMark \in 0 .. Len(pushed)
      /\ todo \in [Producers -> Seq(Updates)]
  <2>1. /\ pushed \in Seq(Updates) /\ owner \in Seq(Producers)
        /\ Len(owner) = Len(pushed) /\ todo \in [Producers -> Seq(Updates)]
        /\ stopMark \in Nat /\ stopMark <= Len(pushed)
    BY DEF UpdatePointsInv, HandlersAccount, BridgeInv, TypeOK
  <2> QED
    BY <2>1, LenProperties
<1>2. /\ Head(todo[p]) \in Updates /\ Tail(todo[p]) \in Seq(Updates)
      /\ Len(Tail(todo[p])) = Len(todo[p]) - 1
  BY <1>1, HeadTailProperties DEF EnqueueNext
<1>3. /\ Len(pushed') = Len(pushed) + 1 /\ UNCHANGED stopMark
      /\ owner' \in Seq(Producers) /\ Len(owner') = Len(owner) + 1
      /\ todo' = [todo EXCEPT ![p] = Tail(todo[p])]
      /\ owner' = Append(owner, p)
      /\ UNCHANGED <<call, current, answered, answeredAtStop>>
  BY <1>1, <1>2, AppendProperties DEF EnqueueNext, Push
<1>4. \A q \in Producers :
        /\ CountOf(owner', q, Len(pushed')) =
            CountOf(owner, q, Len(pushed)) + (IF q = p THEN 1 ELSE 0)
        /\ CountOf(owner', q, stopMark') = CountOf(owner, q, stopMark)
        /\ CountOf(owner, q, Len(pushed)) \in Nat
  <2> TAKE q \in Producers
  <2>1. CountOf(Append(owner, p), q, Len(owner) + 1)
          = CountOf(owner, q, Len(owner)) + (IF q = p THEN 1 ELSE 0)
    BY <1>1, CountAppend
  <2>2. CountOf(Append(owner, p), q, stopMark) = CountOf(owner, q, stopMark)
    <3>1. stopMark \in 0 .. Len(owner)
      BY <1>1
    <3> QED
      BY <1>1, <3>1, CountPrefix
  <2>3. CountOf(owner, q, Len(pushed)) \in Nat
    BY <1>1, CountType
  <2> QED
    BY <1>1, <1>3, <2>1, <2>2, <2>3
<1>5. \A q \in Producers : Len(todo[q]) \in Nat
  BY <1>1, LenProperties
<1>6. \A q \in Producers \ {p} : todo'[q] = todo[q]
  BY <1>1, <1>3
<1>7. Len(todo'[p]) = Len(todo[p]) - 1 /\ todo' \in [Producers -> Seq(Updates)]
  BY <1>1, <1>2, <1>3
<1>8. call[p] = "enqueue"
  BY DEF EnqueueNext
<1>9. ASSUME NEW q \in Producers
      PROVE  (/\ call[q] = "none" => answered[q] = CountOf(owner, q, Len(pushed))
              /\ call[q] = "enqueue" =>
                  /\ Queued(current[q]) \in Seq(Updates)
                  /\ answered[q] + Len(Queued(current[q]))
                      = CountOf(owner, q, Len(pushed)) + Len(todo[q])
              /\ answered[q] <= CountOf(owner, q, Len(pushed))
              /\ answeredAtStop[q] <= CountOf(owner, q, stopMark))'
  <2>1. /\ answered[q] \in Nat
        /\ call[q] = "enqueue" => Len(Queued(current[q])) \in Nat
    BY LenProperties DEF UpdatePointsInv, HandlersAccount
  <2>2. CASE q = p
    BY <1>3, <1>4, <1>5, <1>7, <1>8, <2>1, <2>2 DEF UpdatePointsInv, HandlersAccount
  <2>3. CASE q # p
    BY <1>3, <1>4, <1>5, <1>6, <2>1, <2>3 DEF UpdatePointsInv, HandlersAccount
  <2> QED
    BY <2>2, <2>3
<1> QED
  BY <1>1, <1>3, <1>7, <1>9 DEF UpdatePointsInv, HandlersAccount

\* With nothing left to do, what is answered is what was pushed.
LEMMA AnswerPreserves ==
    ASSUME UpdatePointsInv, NEW p \in Producers, Answer(p)
    PROVE  HandlersAccount'
<1>1. /\ call[p] = "enqueue" /\ todo[p] = <<>>
      /\ call' = [call EXCEPT ![p] = "none"]
      /\ answered' = [answered EXCEPT ![p] = @ + Len(Queued(current[p]))]
      /\ UNCHANGED <<pushed, stopMark, todo, owner, current, answeredAtStop>>
  BY DEF Answer, vars
<1>2. /\ Len(todo[p]) = 0 /\ Len(pushed) \in Nat
      /\ Len(Queued(current[p])) \in Nat
  BY <1>1, EmptySeq, LenProperties
  DEF UpdatePointsInv, HandlersAccount, BridgeInv, TypeOK
<1>3. CountOf(owner, p, Len(pushed)) \in Nat
  BY <1>2, CountType
<1> QED
  BY <1>1, <1>2, <1>3 DEF UpdatePointsInv, HandlersAccount

\* stop() marks the present end of what was pushed.
LEMMA StopBridgePreserves ==
    ASSUME UpdatePointsInv, StopBridge
    PROVE  HandlersAccount'
BY DEF StopBridge, Stop, UpdatePointsInv, HandlersAccount

\* The handlers use the bridge through applyUpdate() only, with updates.
LEMMA StepOfBridge == HandlersAccount /\ [UpdatePointsNext]_allVars => [Next]_vars
<1> SUFFICES ASSUME HandlersAccount, [UpdatePointsNext]_allVars
             PROVE  Next \/ UNCHANGED vars
  OBVIOUS
<1>1. CASE \E p \in Producers : EnqueueNext(p)
  <2>1. PICK p \in Producers : EnqueueNext(p)
    BY <1>1
  <2>2. Head(todo[p]) \in Updates
    BY <2>1, HeadTailProperties DEF EnqueueNext, HandlersAccount
  <2> QED
    BY <2>1, <2>2 DEF EnqueueNext, Next
<1>2. CASE BridgeStep \/ StopBridge
  BY <1>2 DEF BridgeStep, StopBridge, Next
<1>3. CASE \/ \E p \in Producers : Answer(p) \/ \E r \in Requests : BeginUpdatePoints(p, r)
           \/ UNCHANGED allVars
  BY <1>3 DEF Answer, BeginUpdatePoints, allVars
<1> QED
  BY <1>1, <1>2, <1>3 DEF UpdatePointsNext

LEMMA UpdatePointsPreserves ==
    UpdatePointsInv /\ [UpdatePointsNext]_allVars => UpdatePointsInv'
<1> SUFFICES ASSUME UpdatePointsInv, [UpdatePointsNext]_allVars PROVE UpdatePointsInv'
  OBVIOUS
<1>1. BridgeInv'
  BY StepOfBridge, NextPreserves DEF UpdatePointsInv
<1>2. HandlersAccount'
  <2>1. CASE BridgeStep \/ UNCHANGED allVars
    BY <2>1 DEF BridgeStep, NotifyOne, Start, SpawnFlushThread, NotifyAll, Join,
       FlushStep, WaitAndSwap, ApplyHead, BatchDone, SpuriousWakeup, allVars, vars,
       serviceVars, UpdatePointsInv, HandlersAccount
  <2> QED
    BY <2>1, BeginPreserves, EnqueuePreserves, AnswerPreserves, StopBridgePreserves
    DEF UpdatePointsNext
<1> QED
  BY <1>1, <1>2 DEF UpdatePointsInv

-----------------------------------------------------------------------------
(* Theorems *)

\* The inductive invariant holds in every reachable state.
THEOREM UpdatePointsInvariant == UpdatePointsSpec => []UpdatePointsInv
  BY UpdatePointsInitEstablishes, UpdatePointsPreserves, PTL DEF UpdatePointsSpec

\* The composition implements Bridge: whatever requests the handlers work on,
\* the bridge does nothing that applyUpdate() calls alone would not make it do.
THEOREM BridgeUnderUpdatePoints == UpdatePointsSpec => Spec
<1>1. UpdatePointsInit => Init
  BY DEF UpdatePointsInit
<1>2. UpdatePointsInv /\ [UpdatePointsNext]_allVars => [Next]_vars
  BY StepOfBridge DEF UpdatePointsInv
<1> QED
  BY <1>1, <1>2, UpdatePointsInvariant, PTL DEF UpdatePointsSpec, Spec

\* The points of the requests go to the outstation in the order in which their
\* handlers queued them, each once: the FIFO channel, from the RPC to the
\* outstation.
THEOREM UpdatePointsImplementsChannel == UpdatePointsSpec => ImplementsChannel
  BY BridgeUnderUpdatePoints, BridgeImplementsChannel

\* success=true is kept through stop(): what was answered before it is among
\* the updates it found, and flushLoop() returns only when those are applied.
THEOREM AnsweredBeforeStopApplied == UpdatePointsSpec => []AnsweredBeforeStopIsApplied
<1>1. UpdatePointsInv => AnsweredBeforeStopIsApplied
  <2> SUFFICES ASSUME UpdatePointsInv, flush = "exited", NEW p \in Producers
               PROVE  AppliedOf(p) >= answeredAtStop[p]
    BY DEF AnsweredBeforeStopIsApplied
  <2>1. Len(applied) \in Nat /\ stopMark \in Nat /\ stopMark <= Len(applied)
    BY LenProperties DEF UpdatePointsInv, BridgeInv, TypeOK, StopDrains
  <2>2. CountOf(owner, p, stopMark) <= CountOf(owner, p, Len(applied))
    BY <2>1, CountGrows
  <2>3. answeredAtStop[p] <= CountOf(owner, p, stopMark) /\ answeredAtStop[p] \in Nat
    BY DEF UpdatePointsInv, HandlersAccount
  <2>4. CountOf(owner, p, stopMark) \in Nat /\ CountOf(owner, p, Len(applied)) \in Nat
    BY <2>1, CountType
  <2> QED
    BY <2>2, <2>3, <2>4 DEF AppliedOf
<1> QED
  BY <1>1, UpdatePointsInvariant, PTL

=============================================================================
