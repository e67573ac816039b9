----------------------- MODULE OutstationManager_proofs -----------------------
(***************************************************************************)
(* Proofs about OutstationManager, for any points, deadbands (negative     *)
(* ones included) and values.                                              *)
(***************************************************************************)
EXTENDS OutstationManager, TLAPS

\* An assigned point is not the point that was never assigned.
LEMMA PointTypes ==
    /\ \A v \in AnalogValues, q \in Qualities :
        /\ [value |-> v, flags |-> toFlagBits(q)] \in PointsOf(AnalogValues)
        /\ [value |-> v, flags |-> toFlagBits(q)] # NoPoint
    /\ \A v \in BOOLEAN, q \in Qualities :
        /\ [value |-> v, flags |-> toFlagBits(q)] \in PointsOf(BOOLEAN)
        /\ [value |-> v, flags |-> toFlagBits(q)] # NoPoint
<1>1. \A q \in Qualities : toFlagBits(q) \in FlagSets
  BY DEF Qualities, toFlagBits, FlagSets
<1>2. \A f \in FlagSets : f \in SUBSET {"ONLINE", "RESTART"}
  BY DEF FlagSets
<1> QED
  BY <1>1, <1>2, NoPointAssumption DEF PointsOf, AnalogValues

LEMMA InitEstablishes == Init => EventsInv
<1> SUFFICES ASSUME Init PROVE EventsInv
  OBVIOUS
<1>1. TypeOK
  <2>1. 0 \in AnalogValues /\ starts \in 0 .. MaxStarts
    BY ValuesAssumption, MaxStartsAssumption DEF Init, AnalogValues
  <2> QED
    BY <2>1 DEF Init, TypeOK, PointsOf
<1>2. StateIsLastEvent /\ AnalogEventsFollow /\ BinaryEventsFollow
  BY PointsAssumption DEF Init, StateIsLastEvent, AnalogEventsFollow, BinaryEventsFollow
<1> QED
  BY <1>1, <1>2 DEF EventsInv

\* An update either is an event, and then event, state and database agree, or
\* its value is within the deadband of the last event's.
LEMMA UpdateAnalogPreserves ==
    ASSUME EventsInv, NEW i \in AnalogIndices, NEW v \in AnalogValues,
           NEW q \in Qualities, updateAnalog(i, v, q)
    PROVE  EventsInv'
<1> DEFINE e == IsAnalogEvent(analog_state_[i], v, DeadbandOf(i))
           x == [value |-> v, flags |-> toFlagBits(q)]
<1>1. x \in PointsOf(AnalogValues) /\ x # NoPoint /\ x.value = v
  BY PointTypes
<1> HIDE DEF x
<1>2. /\ analog_db' = Assign(analog_db, i, x)
      /\ analog_event' = IF e THEN Assign(analog_event, i, x) ELSE analog_event
      /\ analog_state_' = [analog_state_ EXCEPT ![i] = Remember(analog_state_[i], v, e)]
      /\ mode' \in {"Force", "Suppress"}
      /\ outstation_
      /\ UNCHANGED <<outstation_, starts, binary_state_, binary_db, binary_event>>
  BY DEF updateAnalog, x
<1>3. /\ analog_db' \in [AnalogPoints -> PointsOf(AnalogValues)]
      /\ analog_event' \in [AnalogPoints -> PointsOf(AnalogValues)]
      /\ \A j \in AnalogPoints :
          /\ analog_db'[j] = IF j = i THEN x ELSE analog_db[j]
          /\ analog_event'[j] = IF j = i /\ e THEN x ELSE analog_event[j]
  <2>1. /\ analog_db \in [AnalogPoints -> PointsOf(AnalogValues)]
        /\ analog_event \in [AnalogPoints -> PointsOf(AnalogValues)]
    BY DEF EventsInv, TypeOK
  <2> HIDE DEF e
  <2>2. /\ Assign(analog_db, i, x) \in [AnalogPoints -> PointsOf(AnalogValues)]
        /\ \A j \in AnalogPoints :
            Assign(analog_db, i, x)[j] = IF j = i THEN x ELSE analog_db[j]
    BY <1>1, <2>1 DEF Assign
  <2>3. /\ Assign(analog_event, i, x) \in [AnalogPoints -> PointsOf(AnalogValues)]
        /\ \A j \in AnalogPoints :
            Assign(analog_event, i, x)[j] = IF j = i THEN x ELSE analog_event[j]
    BY <1>1, <2>1 DEF Assign
  <2> QED
    BY <1>2, <2>1, <2>2, <2>3
<1>4. /\ analog_state_' \in [AnalogIndices -> [seen : BOOLEAN, last_evented : AnalogValues]]
      /\ \A j \in AnalogIndices \ {i} : analog_state_'[j] = analog_state_[j]
      /\ analog_state_'[i].seen
      /\ analog_state_'[i].last_evented = IF e THEN v ELSE analog_state_[i].last_evented
  BY <1>2 DEF EventsInv, TypeOK, Remember
<1>5. ~e => /\ analog_state_[i].seen
            /\ i \in AnalogPoints => Within(v, analog_state_[i].last_evented, Deadband[i])
  <2> DEFINE w == analog_state_[i].last_evented
  <2>1. w \in AnalogValues
    BY DEF EventsInv, TypeOK
  <2> HIDE DEF w
  <2> SUFFICES ASSUME ~e, analog_state_[i].seen PROVE i \in AnalogPoints => Within(v, w, Deadband[i])
    BY DEF IsAnalogEvent, w
  <2>2. /\ v \in FiniteValues /\ w \in FiniteValues
        /\ ~(Distance(v, w) > DeadbandOf(i))
    BY <2>1 DEF IsAnalogEvent, AnalogValues, w
  <2>3. Distance(v, w) \in Int
    BY <2>2, ValuesAssumption DEF Distance
  <2> QED
    BY <2>2, <2>3, DeadbandAssumption DEF DeadbandOf, Within
<1> HIDE DEF e
<1>6. TypeOK'
  BY <1>2, <1>3, <1>4 DEF EventsInv, TypeOK
<1>7. StateIsLastEvent'
  BY <1>1, <1>2, <1>3, <1>4, <1>5, PointsAssumption DEF EventsInv, StateIsLastEvent
<1>8. AnalogEventsFollow'
  <2> SUFFICES ASSUME NEW j \in AnalogPoints, analog_db'[j] # NoPoint
               PROVE  /\ analog_event'[j] # NoPoint
                      /\ Within(analog_db'[j].value, analog_event'[j].value, Deadband[j])
    BY DEF AnalogEventsFollow, Within
  <2>1. CASE j # i
    BY <1>3, <2>1 DEF EventsInv, AnalogEventsFollow
  <2>2. CASE j = i /\ e
    BY <1>1, <1>3, <2>2 DEF Within
  <2>3. CASE j = i /\ ~e
    BY <1>1, <1>2, <1>3, <1>5, <2>3 DEF EventsInv, StateIsLastEvent
  <2> QED
    BY <2>1, <2>2, <2>3
<1>9. BinaryEventsFollow'
  BY <1>2 DEF EventsInv, BinaryEventsFollow
<1> QED
  BY <1>6, <1>7, <1>8, <1>9 DEF EventsInv

\* The same for a binary point, whose deadband is none.
LEMMA UpdateBinaryPreserves ==
    ASSUME EventsInv, NEW i \in BinaryIndices, NEW v \in BOOLEAN,
           NEW q \in Qualities, updateBinary(i, v, q)
    PROVE  EventsInv'
<1> DEFINE e == IsBinaryEvent(binary_state_[i], v)
           x == [value |-> v, flags |-> toFlagBits(q)]
<1>1. x \in PointsOf(BOOLEAN) /\ x # NoPoint /\ x.value = v
  BY PointTypes
<1> HIDE DEF x
<1>2. /\ binary_db' = Assign(binary_db, i, x)
      /\ binary_event' = IF e THEN Assign(binary_event, i, x) ELSE binary_event
      /\ binary_state_' = [binary_state_ EXCEPT ![i] = Remember(binary_state_[i], v, e)]
      /\ mode' \in {"Force", "Suppress"}
      /\ outstation_
      /\ UNCHANGED <<outstation_, starts, analog_state_, analog_db, analog_event>>
  BY DEF updateBinary, x
<1>3. /\ binary_db' \in [BinaryPoints -> PointsOf(BOOLEAN)]
      /\ binary_event' \in [BinaryPoints -> PointsOf(BOOLEAN)]
      /\ \A j \in BinaryPoints :
          /\ binary_db'[j] = IF j = i THEN x ELSE binary_db[j]
          /\ binary_event'[j] = IF j = i /\ e THEN x ELSE binary_event[j]
  <2>1. /\ binary_db \in [BinaryPoints -> PointsOf(BOOLEAN)]
        /\ binary_event \in [BinaryPoints -> PointsOf(BOOLEAN)]
    BY DEF EventsInv, TypeOK
  <2> HIDE DEF e
  <2>2. /\ Assign(binary_db, i, x) \in [BinaryPoints -> PointsOf(BOOLEAN)]
        /\ \A j \in BinaryPoints :
            Assign(binary_db, i, x)[j] = IF j = i THEN x ELSE binary_db[j]
    BY <1>1, <2>1 DEF Assign
  <2>3. /\ Assign(binary_event, i, x) \in [BinaryPoints -> PointsOf(BOOLEAN)]
        /\ \A j \in BinaryPoints :
            Assign(binary_event, i, x)[j] = IF j = i THEN x ELSE binary_event[j]
    BY <1>1, <2>1 DEF Assign
  <2> QED
    BY <1>2, <2>1, <2>2, <2>3
<1>4. /\ binary_state_' \in [BinaryIndices -> [seen : BOOLEAN, last_evented : BOOLEAN]]
      /\ \A j \in BinaryIndices \ {i} : binary_state_'[j] = binary_state_[j]
      /\ binary_state_'[i].seen
      /\ binary_state_'[i].last_evented = IF e THEN v ELSE binary_state_[i].last_evented
  BY <1>2 DEF EventsInv, TypeOK, Remember
<1>5. ~e => binary_state_[i].seen /\ v = binary_state_[i].last_evented
  BY DEF IsBinaryEvent
<1> HIDE DEF e
<1>6. TypeOK'
  BY <1>2, <1>3, <1>4 DEF EventsInv, TypeOK
<1>7. StateIsLastEvent'
  BY <1>1, <1>2, <1>3, <1>4, <1>5, PointsAssumption DEF EventsInv, StateIsLastEvent
<1>8. BinaryEventsFollow'
  <2> SUFFICES ASSUME NEW j \in BinaryPoints, binary_db'[j] # NoPoint
               PROVE  /\ binary_event'[j] # NoPoint
                      /\ binary_event'[j].value = binary_db'[j].value
    BY DEF BinaryEventsFollow
  <2>1. CASE j # i
    BY <1>3, <2>1 DEF EventsInv, BinaryEventsFollow
  <2>2. CASE j = i /\ e
    BY <1>1, <1>3, <2>2
  <2>3. CASE j = i /\ ~e
    BY <1>1, <1>2, <1>3, <1>5, <2>3 DEF EventsInv, StateIsLastEvent
  <2> QED
    BY <2>1, <2>2, <2>3
<1>9. AnalogEventsFollow'
  BY <1>2 DEF EventsInv, AnalogEventsFollow
<1> QED
  BY <1>6, <1>7, <1>8, <1>9 DEF EventsInv

\* The database is new and empty, and so are the point states once it is used.
LEMMA StartShutdownPreserves ==
    ASSUME EventsInv, start \/ shutdown
    PROVE  EventsInv'
<1>1. TypeOK'
  <2>1. 0 \in AnalogValues /\ starts' \in 0 .. MaxStarts
    BY ValuesAssumption, MaxStartsAssumption DEF EventsInv, TypeOK, start,
       shutdown, AnalogValues
  <2>2. /\ analog_db' \in [AnalogPoints -> PointsOf(AnalogValues)]
        /\ binary_db' \in [BinaryPoints -> PointsOf(BOOLEAN)]
        /\ analog_event' \in [AnalogPoints -> PointsOf(AnalogValues)]
        /\ binary_event' \in [BinaryPoints -> PointsOf(BOOLEAN)]
    BY DEF start, shutdown, NewDatabase, PointsOf
  <2>3. /\ analog_state_' \in [AnalogIndices -> [seen : BOOLEAN, last_evented : AnalogValues]]
        /\ binary_state_' \in [BinaryIndices -> [seen : BOOLEAN, last_evented : BOOLEAN]]
    <3>1. CASE start
      BY <2>1, <3>1 DEF start
    <3>2. CASE shutdown
      BY <3>2 DEF EventsInv, TypeOK, shutdown, stateVars
    <3> QED
      BY <3>1, <3>2
  <2>4. outstation_' \in BOOLEAN /\ mode' \in {"Force", "Suppress"}
    BY DEF EventsInv, TypeOK, start, shutdown
  <2> QED
    BY <2>1, <2>2, <2>3, <2>4 DEF TypeOK
<1>2. StateIsLastEvent'
  BY PointsAssumption DEF StateIsLastEvent, start, shutdown, NewDatabase
<1>3. AnalogEventsFollow' /\ BinaryEventsFollow'
  BY DEF AnalogEventsFollow, BinaryEventsFollow, start, shutdown, NewDatabase
<1> QED
  BY <1>1, <1>2, <1>3 DEF EventsInv

LEMMA NextPreserves == EventsInv /\ [Next]_vars => EventsInv'
<1> SUFFICES ASSUME EventsInv, [Next]_vars PROVE EventsInv'
  OBVIOUS
<1>1. CASE UNCHANGED vars
  BY <1>1 DEF vars, stateVars, databaseVars, EventsInv, TypeOK,
     StateIsLastEvent, AnalogEventsFollow, BinaryEventsFollow
<1> QED
  BY <1>1, UpdateAnalogPreserves, UpdateBinaryPreserves, StartShutdownPreserves DEF Next

\* The inductive invariant holds in every reachable state.
THEOREM EventsInvariant == Spec => []EventsInv
  BY InitEstablishes, NextPreserves, PTL DEF Spec

\* No drift, no latch at NaN: the last event of an assigned analog point is
\* within its deadband of the present value.
THEOREM AnalogEventsCorrect == Spec => []AnalogEventsFollow
<1>1. EventsInv => AnalogEventsFollow
  BY DEF EventsInv
<1> QED
  BY <1>1, EventsInvariant, PTL

\* The last event of an assigned binary point has its present value.
THEOREM BinaryEventsCorrect == Spec => []BinaryEventsFollow
<1>1. EventsInv => BinaryEventsFollow
  BY DEF EventsInv
<1> QED
  BY <1>1, EventsInvariant, PTL

\* Every variable keeps its type, and the flags of a point are never RESTART alone.
THEOREM TypeCorrect == Spec => []TypeOK
<1>1. EventsInv => TypeOK
  BY DEF EventsInv
<1> QED
  BY <1>1, EventsInvariant, PTL

-----------------------------------------------------------------------------
(* Quality changes *)

\* What an update does to the database, by index.
LEMMA AnalogDatabaseStep ==
    ASSUME EventsInv, NEW j \in AnalogIndices, NEW v \in AnalogValues,
           NEW q \in Qualities, updateAnalog(j, v, q), NEW i \in AnalogPoints
    PROVE  /\ i # j => analog_db'[i] = analog_db[i]
           /\ i = j => analog_db'[i].value = v
<1>1. analog_db \in [AnalogPoints -> PointsOf(AnalogValues)]
  BY DEF EventsInv, TypeOK
<1> QED
  BY <1>1 DEF updateAnalog, Assign

LEMMA BinaryDatabaseStep ==
    ASSUME EventsInv, NEW j \in BinaryIndices, NEW v \in BOOLEAN,
           NEW q \in Qualities, updateBinary(j, v, q), NEW i \in BinaryPoints
    PROVE  /\ i # j => binary_db'[i] = binary_db[i]
           /\ i = j => binary_db'[i].value = v
<1>1. binary_db \in [BinaryPoints -> PointsOf(BOOLEAN)]
  BY DEF EventsInv, TypeOK
<1> QED
  BY <1>1 DEF updateBinary, Assign

\* An update with the present finite value of a point is no event: the last
\* event, which is the PointState, is within the deadband of that value.
LEMMA SameAnalogIsNoEvent ==
    ASSUME EventsInv, outstation_, NEW i \in AnalogPoints, analog_db[i] # NoPoint,
           analog_db[i].value \in FiniteValues, Deadband[i] >= 0
    PROVE  ~IsAnalogEvent(analog_state_[i], analog_db[i].value, DeadbandOf(i))
<1> DEFINE v == analog_db[i].value
           w == analog_state_[i].last_evented
<1>1. analog_state_[i].seen /\ Within(v, w, Deadband[i])
  BY DEF EventsInv, StateIsLastEvent, AnalogEventsFollow
<1>2. v \in FiniteValues /\ w \in FiniteValues
  BY <1>1 DEF Within
<1>3. v \in Int /\ w \in Int /\ Deadband[i] \in Int /\ DeadbandOf(i) = Deadband[i]
  BY <1>2, ValuesAssumption, DeadbandAssumption DEF DeadbandOf
<1>4. v \notin NonFiniteValues /\ w \notin NonFiniteValues
  BY <1>3, ValuesAssumption
<1> HIDE DEF v, w
<1>5. ~(Distance(v, w) > Deadband[i])
  BY <1>1, <1>3 DEF Within, Distance
<1> QED
  BY <1>1, <1>3, <1>4, <1>5 DEF IsAnalogEvent, v, w

\* A step that changes only the quality of an analog point is suppressed.
LEMMA AnalogQualityStep ==
    ASSUME EventsInv, Next, NEW i \in AnalogPoints, AnalogQualityChange(i),
           analog_db[i].value \in FiniteValues, Deadband[i] >= 0
    PROVE  mode' = "Suppress"
<1>1. analog_db'[i] # analog_db[i] /\ analog_db'[i] # NoPoint
  BY DEF AnalogQualityChange
<1>2. PICK j \in AnalogIndices, v \in AnalogValues, q \in Qualities : updateAnalog(j, v, q)
  <2>1. ~start /\ ~shutdown
    BY <1>1 DEF start, shutdown, NewDatabase
  <2>2. ~\E j \in BinaryIndices, v \in BOOLEAN, q \in Qualities : updateBinary(j, v, q)
    BY <1>1 DEF updateBinary
  <2> QED
    BY <2>1, <2>2 DEF Next
<1>3. i = j /\ v = analog_db[i].value
  BY <1>1, <1>2, AnalogDatabaseStep DEF AnalogQualityChange
<1>4. ~IsAnalogEvent(analog_state_[j], v, DeadbandOf(j))
  BY <1>2, <1>3, SameAnalogIsNoEvent DEF AnalogQualityChange, updateAnalog
<1> QED
  BY <1>2, <1>4 DEF updateAnalog

\* The same for a binary point.
LEMMA BinaryQualityStep ==
    ASSUME EventsInv, Next, NEW i \in BinaryPoints, BinaryQualityChange(i)
    PROVE  mode' = "Suppress"
<1>1. binary_db'[i] # binary_db[i] /\ binary_db'[i] # NoPoint
  BY DEF BinaryQualityChange
<1>2. PICK j \in BinaryIndices, v \in BOOLEAN, q \in Qualities : updateBinary(j, v, q)
  <2>1. ~start /\ ~shutdown
    BY <1>1 DEF start, shutdown, NewDatabase
  <2>2. ~\E j \in AnalogIndices, v \in AnalogValues, q \in Qualities : updateAnalog(j, v, q)
    BY <1>1 DEF updateAnalog
  <2> QED
    BY <2>1, <2>2 DEF Next
<1>3. i = j /\ v = binary_db[i].value
  BY <1>1, <1>2, BinaryDatabaseStep DEF BinaryQualityChange
<1>4. outstation_ /\ binary_db[i] # NoPoint
  BY <1>2 DEF updateBinary, BinaryQualityChange
<1>5. ~IsBinaryEvent(binary_state_[j], v)
  BY <1>3, <1>4 DEF EventsInv, StateIsLastEvent, BinaryEventsFollow, IsBinaryEvent
<1> QED
  BY <1>2, <1>5 DEF updateBinary

\* A quality change at an unchanged finite value makes no event, whatever the
\* drift since the last one.
THEOREM QualityIsNoEvent == Spec => FiniteQualityChangeIsNoEvent
<1> DEFINE A == /\ \A i \in AnalogPoints :
                    (AnalogQualityChange(i) /\ analog_db[i].value \in FiniteValues
                     /\ Deadband[i] >= 0) => mode' = "Suppress"
                /\ \A i \in BinaryPoints : BinaryQualityChange(i) => mode' = "Suppress"
<1>1. EventsInv /\ [Next]_vars => [A]_vars
  BY AnalogQualityStep, BinaryQualityStep
<1> HIDE DEF A
<1>2. Spec => [][A]_vars
  BY <1>1, EventsInvariant, PTL DEF Spec
<1> QED
  BY <1>2 DEF A, FiniteQualityChangeIsNoEvent

=============================================================================
