----------------------------- MODULE Bridge_proofs -----------------------------
(***************************************************************************)
(* Proofs about Bridge, for any number of producers, updates, starts and   *)
(* stops: the inductive invariant BridgeInv, and that the bridge           *)
(* implements UpdateChannel.                                               *)
(***************************************************************************)
EXTENDS Bridge, SequenceTheorems, TLAPS

-----------------------------------------------------------------------------
(* Three facts about a sequence kept in three parts *)

\* Appending to the last part appends to the whole: a push is at the very end.
LEMMA AppendToWhole ==
    \A s, b, q \in Seq(Updates) : \A u \in Updates :
        s \o (b \o Append(q, u)) = Append(s \o (b \o q), u)
<1> SUFFICES ASSUME NEW s \in Seq(Updates), NEW b \in Seq(Updates),
                    NEW q \in Seq(Updates), NEW u \in Updates
             PROVE  s \o (b \o Append(q, u)) = Append(s \o (b \o q), u)
  OBVIOUS
<1>1. /\ b \o q \in Seq(Updates) /\ Len(b \o q) = Len(b) + Len(q)
      /\ s \o (b \o q) \in Seq(Updates) /\ <<u>> \in Seq(Updates)
  BY ConcatProperties
<1>2. b \o (q \o <<u>>) = (b \o q) \o <<u>>
  BY <1>1, ConcatAssociative
<1>3. s \o ((b \o q) \o <<u>>) = (s \o (b \o q)) \o <<u>>
  BY <1>1, ConcatAssociative
<1> QED
  BY <1>1, <1>2, <1>3, AppendIsConcat

\* Moving the head of the middle part to the end of the first changes nothing.
LEMMA MoveHead ==
    ASSUME NEW S, NEW s \in Seq(S), NEW b \in Seq(S), NEW q \in Seq(S), b # <<>>
    PROVE  Append(s, Head(b)) \o (Tail(b) \o q) = s \o (b \o q)
<1>1. /\ Head(b) \in S /\ Tail(b) \in Seq(S)
      /\ <<Head(b)>> \in Seq(S)
      /\ Tail(b) \o q \in Seq(S)
  BY HeadTailProperties, ConcatProperties
<1>2. b = <<Head(b)>> \o Tail(b)
  BY <1>1
<1>3. (s \o <<Head(b)>>) \o (Tail(b) \o q) = s \o (<<Head(b)>> \o (Tail(b) \o q))
  BY <1>1, ConcatAssociative
<1>4. <<Head(b)>> \o (Tail(b) \o q) = (<<Head(b)>> \o Tail(b)) \o q
  BY <1>1, ConcatAssociative
<1> QED
  BY <1>1, <1>2, <1>3, <1>4, AppendIsConcat

\* The head of the middle part is the first element after the first part.
LEMMA HeadOfRest ==
    ASSUME NEW S, NEW s \in Seq(S), NEW b \in Seq(S), NEW q \in Seq(S), b # <<>>
    PROVE  /\ Len(s) < Len(s \o (b \o q))
           /\ (s \o (b \o q))[Len(s) + 1] = Head(b)
<1>1. Len(b) \in Nat \ {0} /\ Len(q) \in Nat /\ Len(s) \in Nat
  BY EmptySeq, LenProperties
<1>2. /\ b \o q \in Seq(S)
      /\ Len(b \o q) = Len(b) + Len(q)
      /\ (b \o q)[1] = b[1]
  BY <1>1, ConcatProperties
<1>3. /\ Len(s \o (b \o q)) = Len(s) + Len(b \o q)
      /\ (s \o (b \o q))[Len(s) + 1] = (b \o q)[1]
  BY <1>1, <1>2, ConcatProperties
<1> QED
  BY <1>1, <1>2, <1>3

-----------------------------------------------------------------------------
(* The inductive invariant *)

LEMMA InitEstablishes == Init => BridgeInv
<1> SUFFICES ASSUME Init PROVE BridgeInv
  OBVIOUS
<1>1. TypeOK
  <2>1. starts \in 0 .. MaxStarts /\ stopMark \in Nat
    BY MaxStartsAssumption DEF Init
  <2>2. /\ queue_ \in Seq(Updates) /\ batch \in Seq(Updates)
        /\ pushed \in Seq(Updates) /\ applied \in Seq(Updates)
    BY EmptySeq DEF Init
  <2>3. running_ \in BOOLEAN
    BY DEF Init
  <2> QED
    BY <2>1, <2>2, <2>3 DEF Init, TypeOK, FlushStates, ControlStates
<1>2. NothingLostOrReordered
  BY <1>1, ConcatEmptySeq DEF Init, TypeOK, NothingLostOrReordered
<1>3. OneFlushThread /\ NoLostWakeup /\ StopDrains /\ stopMark <= Len(pushed)
  BY EmptySeq DEF Init, OneFlushThread, NoLostWakeup, StopDrains
<1> QED
  BY <1>1, <1>2, <1>3 DEF BridgeInv

\* applyUpdate() adds at the end of the queue and owes a notification.
LEMMA PushPreserves ==
    ASSUME BridgeInv, NEW p \in Producers, NEW u \in Updates, Push(p, u)
    PROVE  BridgeInv'
<1>1. TypeOK' /\ Len(pushed') = Len(pushed) + 1
  BY AppendProperties DEF BridgeInv, TypeOK, Push
<1>2. NothingLostOrReordered'
  <2>1. /\ applied \in Seq(Updates) /\ batch \in Seq(Updates)
        /\ queue_ \in Seq(Updates)
    BY DEF BridgeInv, TypeOK
  <2>2. applied \o (batch \o Append(queue_, u)) = Append(applied \o (batch \o queue_), u)
    BY <2>1, AppendToWhole, ZenonT(60)
  <2> QED
    BY <2>2 DEF BridgeInv, NothingLostOrReordered, Push
<1>3. NoLostWakeup'
  BY DEF BridgeInv, TypeOK, NoLostWakeup, Push
<1>4. OneFlushThread' /\ StopDrains' /\ (stopMark <= Len(pushed))'
  BY <1>1, LenProperties DEF BridgeInv, TypeOK, OneFlushThread, StopDrains, Push
<1> QED
  BY <1>1, <1>2, <1>3, <1>4 DEF BridgeInv

\* A notification is given up only when the thread it was for is awake.
LEMMA NotifyPreserves ==
    ASSUME BridgeInv, NotifyAll \/ \E p \in Producers : NotifyOne(p)
    PROVE  BridgeInv'
<1>1. TypeOK'
  BY DEF BridgeInv, TypeOK, FlushStates, ControlStates, NotifyAll, NotifyOne, Wake
<1>2. NoLostWakeup'
  BY DEF NoLostWakeup, NotifyAll, NotifyOne, Wake
<1>3. NothingLostOrReordered' /\ (stopMark <= Len(pushed))'
  BY DEF BridgeInv, NothingLostOrReordered, NotifyAll, NotifyOne
<1>4. OneFlushThread' /\ StopDrains'
  BY DEF BridgeInv, TypeOK, OneFlushThread, StopDrains, NotifyAll, NotifyOne, Wake
<1> QED
  BY <1>1, <1>2, <1>3, <1>4 DEF BridgeInv

\* start() and stop() touch neither the queue nor the batch; stop() owes a
\* notification from the moment it clears running_.
LEMMA ControlPreserves ==
    ASSUME BridgeInv, Start \/ SpawnFlushThread \/ Stop \/ Join
    PROVE  BridgeInv'
<1>1. TypeOK'
  <2>1. Len(pushed) \in Nat
    BY LenProperties DEF BridgeInv, TypeOK
  <2>2. starts' \in 0 .. MaxStarts /\ stopMark' \in Nat
    BY <2>1, MaxStartsAssumption DEF BridgeInv, TypeOK, Start,
       SpawnFlushThread, Stop, Join
  <2>3. running_' \in BOOLEAN
    BY Zenon DEF BridgeInv, TypeOK, Start, SpawnFlushThread, Stop, Join
  <2> QED
    BY <2>2, <2>3, Zenon DEF BridgeInv, TypeOK, FlushStates, ControlStates,
       Start, SpawnFlushThread, Stop, Join
<1>2. NoLostWakeup'
  BY DEF BridgeInv, OneFlushThread, NoLostWakeup, Start, SpawnFlushThread, Stop, Join
<1>3. NothingLostOrReordered' /\ (stopMark <= Len(pushed))'
  <2>1. Len(pushed) \in Nat
    BY LenProperties DEF BridgeInv, TypeOK
  <2>2. NothingLostOrReordered'
    BY Zenon DEF BridgeInv, NothingLostOrReordered, Start, SpawnFlushThread,
       Stop, Join
  <2>3. UNCHANGED pushed /\ stopMark' \in {stopMark, Len(pushed)}
    BY Zenon DEF Start, SpawnFlushThread, Stop, Join
  <2> QED
    BY <2>1, <2>2, <2>3 DEF BridgeInv
<1>4. OneFlushThread' /\ StopDrains'
  BY DEF BridgeInv, TypeOK, OneFlushThread, StopDrains, Start, SpawnFlushThread,
     Stop, Join
<1> QED
  BY <1>1, <1>2, <1>3, <1>4 DEF BridgeInv

\* The swap moves the whole queue into the empty batch; the loop is left only
\* with both empty, when everything pushed has been applied.
LEMMA WaitAndSwapPreserves ==
    ASSUME BridgeInv, WaitAndSwap
    PROVE  BridgeInv'
<1>1. TypeOK'
  BY EmptySeq DEF BridgeInv, TypeOK, FlushStates, WaitAndSwap
<1>2. batch = <<>>
  BY DEF BridgeInv, OneFlushThread, WaitAndSwap
<1>3. NothingLostOrReordered'
  BY <1>2, ConcatEmptySeq DEF BridgeInv, TypeOK, NothingLostOrReordered, WaitAndSwap
<1>4. StopDrains'
  <2>1. queue_ = <<>> => applied = pushed
    BY <1>2, ConcatEmptySeq DEF BridgeInv, TypeOK, NothingLostOrReordered
  <2> QED
    BY <1>2, <2>1 DEF BridgeInv, StopDrains, WaitAndSwap
<1>5. OneFlushThread' /\ (stopMark <= Len(pushed))'
  BY <1>2 DEF BridgeInv, TypeOK, ControlStates, OneFlushThread, WaitAndSwap
<1>6. NoLostWakeup'
  BY DEF NoLostWakeup, WaitAndSwap
<1> QED
  BY <1>1, <1>3, <1>4, <1>5, <1>6 DEF BridgeInv

\* Draining moves one update from the batch to the outstation.
LEMMA ApplyHeadPreserves ==
    ASSUME BridgeInv, ApplyHead
    PROVE  BridgeInv'
<1>1. /\ Head(batch) \in Updates /\ Tail(batch) \in Seq(Updates)
      /\ Append(applied, Head(batch)) \in Seq(Updates)
  BY HeadTailProperties, AppendProperties DEF BridgeInv, TypeOK, ApplyHead
<1>2. TypeOK'
  BY <1>1 DEF BridgeInv, TypeOK, ApplyHead
<1>3. NothingLostOrReordered'
  <2>1. Append(applied, Head(batch)) \o (Tail(batch) \o queue_) = applied \o (batch \o queue_)
    <3>1. /\ applied \in Seq(Updates) /\ batch \in Seq(Updates)
          /\ queue_ \in Seq(Updates) /\ batch # <<>>
      BY DEF BridgeInv, TypeOK, ApplyHead
    <3> QED
      BY <3>1, MoveHead, SMTT(60)
  <2> QED
    BY <2>1 DEF BridgeInv, NothingLostOrReordered, ApplyHead
<1>4. /\ OneFlushThread' /\ NoLostWakeup' /\ StopDrains'
      /\ (stopMark <= Len(pushed))'
  BY DEF BridgeInv, OneFlushThread, NoLostWakeup, StopDrains, ApplyHead
<1> QED
  BY <1>2, <1>3, <1>4 DEF BridgeInv

\* Steps of the flush thread that move no update.
LEMMA LoopPreserves ==
    ASSUME BridgeInv, BatchDone \/ SpuriousWakeup \/ UNCHANGED vars
    PROVE  BridgeInv'
<1>1. TypeOK' /\ NothingLostOrReordered' /\ (stopMark <= Len(pushed))'
  BY DEF BridgeInv, TypeOK, FlushStates, NothingLostOrReordered, BatchDone,
     SpuriousWakeup, vars
<1>2. OneFlushThread' /\ NoLostWakeup' /\ StopDrains'
  BY DEF BridgeInv, OneFlushThread, NoLostWakeup, StopDrains, BatchDone,
     SpuriousWakeup, vars
<1> QED
  BY <1>1, <1>2 DEF BridgeInv

\* Every step of the producers, the controlling thread and the flush thread
\* preserves the inductive invariant.
LEMMA NextPreserves == BridgeInv /\ [Next]_vars => BridgeInv'
  BY PushPreserves, NotifyPreserves, ControlPreserves, WaitAndSwapPreserves,
     ApplyHeadPreserves, LoopPreserves DEF Next, FlushStep

\* The inductive invariant holds in every reachable state.
THEOREM BridgeInvariant == Spec => []BridgeInv
  BY InitEstablishes, NextPreserves, PTL DEF Spec

\* Whenever start() spawns the flush thread the one before it has been joined.
THEOREM ThreadJoined == Spec => []OneFlushThread
<1>1. BridgeInv => OneFlushThread
  BY DEF BridgeInv
<1> QED
  BY <1>1, BridgeInvariant, PTL

\* No update is lost, repeated or reordered between applyUpdate() and the
\* outstation.
THEOREM NothingLost == Spec => []NothingLostOrReordered
<1>1. BridgeInv => NothingLostOrReordered
  BY DEF BridgeInv
<1> QED
  BY <1>1, BridgeInvariant, PTL

\* The flush thread never sleeps through work or through stop().
THEOREM NoWakeupLost == Spec => []NoLostWakeup
<1>1. BridgeInv => NoLostWakeup
  BY DEF BridgeInv
<1> QED
  BY <1>1, BridgeInvariant, PTL

\* The flush thread returns only after it has applied all that stop() found.
THEOREM StopDrainsAll == Spec => []StopDrains
<1>1. BridgeInv => StopDrains
  BY DEF BridgeInv
<1> QED
  BY <1>1, BridgeInvariant, PTL

-----------------------------------------------------------------------------
(* Refinement *)

\* The bridge implements the FIFO channel: a push is an Accept, the head of a
\* batch applied is a Deliver, every other step is a stutter.
THEOREM BridgeImplementsChannel == Spec => ImplementsChannel
<1>1. Init => Channel!Init
  BY DEF Init, Channel!Init
<1>2. BridgeInv /\ [Next]_vars => [Channel!Next]_<<pushed, applied>>
  <2> SUFFICES ASSUME BridgeInv, [Next]_vars
               PROVE  Channel!Next \/ UNCHANGED <<pushed, applied>>
    OBVIOUS
  <2>1. ASSUME NEW p \in Producers, NEW u \in Updates, Push(p, u) PROVE Channel!Next
    BY <2>1 DEF Push, Channel!Next, Channel!Accept
  <2>2. CASE ApplyHead
    <3>0. /\ applied \in Seq(Updates) /\ batch \in Seq(Updates)
          /\ queue_ \in Seq(Updates) /\ batch # <<>>
          /\ applied \o (batch \o queue_) = pushed
      BY <2>2 DEF BridgeInv, TypeOK, NothingLostOrReordered, ApplyHead
    <3>1. /\ Len(applied) < Len(pushed)
          /\ pushed[Len(applied) + 1] = Head(batch)
      BY <3>0, HeadOfRest, SMTT(60)
    <3> QED
      BY <2>2, <3>1 DEF ApplyHead, Channel!Next, Channel!Deliver
  <2>3. CASE \/ \E p \in Producers : NotifyOne(p)
             \/ Start \/ SpawnFlushThread \/ Stop \/ NotifyAll \/ Join
             \/ WaitAndSwap \/ BatchDone \/ SpuriousWakeup \/ UNCHANGED vars
    BY <2>3 DEF NotifyOne, Start, SpawnFlushThread, Stop, NotifyAll, Join,
       WaitAndSwap, BatchDone, SpuriousWakeup, vars
  <2> QED
    BY <2>1, <2>2, <2>3 DEF Next, FlushStep
<1> QED
  BY <1>1, <1>2, BridgeInvariant, PTL DEF Spec, ImplementsChannel, Channel!Spec

=============================================================================
