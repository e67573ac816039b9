-------------------------- MODULE OutstationManager --------------------------
(***************************************************************************)
(* dnp3/OutstationManager: which point updates become DNP3 events.  The    *)
(* manager compares each value with the last one it made an event of, and  *)
(* hands the update to opendnp3 with EventMode Force or Suppress.          *)
(*                                                                         *)
(* External: opendnp3's database and event list.  Apply() posts to the     *)
(* outstation's strand, which runs what is posted in order; the database   *)
(* and the event list change in the same step of the strand, so the delay  *)
(* is not visible to the properties below and Apply() is one step here.    *)
(* The event buffer is taken as large enough: opendnp3 evicts the oldest   *)
(* event of a full one.                                                    *)
(***************************************************************************)
EXTENDS Integers

CONSTANTS
    AnalogIndices, BinaryIndices,   \* the indices the client updates
    AnalogPoints, BinaryPoints,     \* those that the database has, with events
    Deadband,                       \* analog_deadband_
    FiniteValues, NonFiniteValues,  \* the analog values: numbers; NaN, infinities
    NoPoint,                        \* a point that was never assigned
    MaxStarts                       \* bound on the number of start() calls

ASSUME PointsAssumption ==
    AnalogPoints \subseteq AnalogIndices /\ BinaryPoints \subseteq BinaryIndices
ASSUME DeadbandAssumption == Deadband \in [AnalogPoints -> Int]
ASSUME ValuesAssumption ==
    /\ FiniteValues \subseteq Int
    /\ 0 \in FiniteValues
    /\ \A v \in NonFiniteValues : v \notin Int
ASSUME NoPointAssumption ==
    \A flags \in SUBSET {"ONLINE", "RESTART"} :
        /\ \A v \in FiniteValues \cup NonFiniteValues :
            NoPoint # [value |-> v, flags |-> flags]
        /\ \A v \in BOOLEAN : NoPoint # [value |-> v, flags |-> flags]
ASSUME MaxStartsAssumption == MaxStarts \in Nat

AnalogValues == FiniteValues \cup NonFiniteValues
Qualities == {"Good", "Uncertain", "Bad", "Restart"}

VARIABLES
    outstation_,    \* TRUE iff the pointer outstation_ is set
    starts,         \* how often start() was called
    analog_state_,  \* for each index: [seen, last_evented]
    binary_state_,
    analog_db,      \* opendnp3: the static value and flags of each point
    binary_db,
    analog_event,   \* opendnp3: the last event of each point
    binary_event,
    mode            \* history: the EventMode of the last update

stateVars == <<analog_state_, binary_state_>>
databaseVars == <<analog_db, binary_db, analog_event, binary_event>>
vars == <<outstation_, starts, stateVars, databaseVars, mode>>

Init ==
    /\ outstation_ = FALSE
    /\ starts = 0
    /\ analog_state_ = [i \in AnalogIndices |-> [seen |-> FALSE, last_evented |-> 0]]
    /\ binary_state_ = [i \in BinaryIndices |-> [seen |-> FALSE, last_evented |-> FALSE]]
    /\ analog_db = [i \in AnalogPoints |-> NoPoint]
    /\ binary_db = [i \in BinaryPoints |-> NoPoint]
    /\ analog_event = [i \in AnalogPoints |-> NoPoint]
    /\ binary_event = [i \in BinaryPoints |-> NoPoint]
    /\ mode = "Suppress"

-----------------------------------------------------------------------------
(* Helpers *)

\* Variant: RESTART without ONLINE.
RestartOnlyFlagBits(q) ==
    CASE q \in {"Good", "Uncertain"} -> {"ONLINE"}
      [] q = "Bad" -> {}
      [] q = "Restart" -> {"RESTART"}

\* The DNP3 flags of a quality.
toFlagBits(q) ==
    CASE q \in {"Good", "Uncertain"} -> {"ONLINE"}
      [] q = "Bad" -> {}
      [] q = "Restart" -> {"ONLINE", "RESTART"}

Distance(v, w) == IF v >= w THEN v - w ELSE w - v

\* The deadband that applies to an index: 0 where the database has none.
DeadbandOf(i) == IF i \in AnalogPoints THEN Deadband[i] ELSE 0

\* Variant: no test for finite values; every comparison with NaN is false.
AnalogEventUnguarded(s, v, d) ==
    \/ ~s.seen
    \/ /\ v \in FiniteValues
       /\ s.last_evented \in FiniteValues
       /\ Distance(v, s.last_evented) > d

\* is_event of updateAnalog(), in the order the code evaluates it.
IsAnalogEvent(s, v, d) ==
    \/ ~s.seen
    \/ v \in NonFiniteValues
    \/ s.last_evented \in NonFiniteValues
    \/ Distance(v, s.last_evented) > d

\* Variant: the first update of a point is compared with the default value.
BinaryEventUnseen(s, v) == v # s.last_evented

\* is_event of updateBinary().
IsBinaryEvent(s, v) == ~s.seen \/ v # s.last_evented

\* Variant: every update moves the reference value, so slow changes drift by.
RememberAlways(s, v, is_event) == [seen |-> TRUE, last_evented |-> v]

\* Variant: an event does not become the reference value.
RememberNothing(s, v, is_event) == [seen |-> TRUE, last_evented |-> s.last_evented]

\* The PointState after an update.
Remember(s, v, is_event) ==
    [seen |-> TRUE, last_evented |-> IF is_event THEN v ELSE s.last_evented]

\* What opendnp3 does with an update: an index it does not have is dropped.
Assign(f, i, x) == IF i \in DOMAIN f THEN [f EXCEPT ![i] = x] ELSE f

-----------------------------------------------------------------------------
(* Operations; an update while outstation_ is null returns at once *)

updateAnalog(i, value, quality) ==
    LET is_event == IsAnalogEvent(analog_state_[i], value, DeadbandOf(i))
        point == [value |-> value, flags |-> toFlagBits(quality)]
    IN  /\ outstation_
        /\ mode' = IF is_event THEN "Force" ELSE "Suppress"
        /\ analog_db' = Assign(analog_db, i, point)
        /\ analog_event' = IF is_event THEN Assign(analog_event, i, point)
                           ELSE analog_event
        /\ analog_state_' = [analog_state_ EXCEPT
                                ![i] = Remember(analog_state_[i], value, is_event)]
        /\ UNCHANGED <<outstation_, starts, binary_state_, binary_db, binary_event>>

updateBinary(i, value, quality) ==
    LET is_event == IsBinaryEvent(binary_state_[i], value)
        point == [value |-> value, flags |-> toFlagBits(quality)]
    IN  /\ outstation_
        /\ mode' = IF is_event THEN "Force" ELSE "Suppress"
        /\ binary_db' = Assign(binary_db, i, point)
        /\ binary_event' = IF is_event THEN Assign(binary_event, i, point)
                           ELSE binary_event
        /\ binary_state_' = [binary_state_ EXCEPT
                                ![i] = Remember(binary_state_[i], value, is_event)]
        /\ UNCHANGED <<outstation_, starts, analog_state_, analog_db, analog_event>>

\* A new database, with no value and no event; the point states start afresh.
NewDatabase ==
    /\ analog_db' = [i \in AnalogPoints |-> NoPoint]
    /\ binary_db' = [i \in BinaryPoints |-> NoPoint]
    /\ analog_event' = [i \in AnalogPoints |-> NoPoint]
    /\ binary_event' = [i \in BinaryPoints |-> NoPoint]

\* Variant: start() keeps the point states of the previous outstation.
startKeepsState ==
    /\ ~outstation_
    /\ starts < MaxStarts
    /\ starts' = starts + 1
    /\ outstation_' = TRUE
    /\ NewDatabase
    /\ UNCHANGED <<stateVars, mode>>

start ==
    /\ ~outstation_
    /\ starts < MaxStarts
    /\ starts' = starts + 1
    /\ outstation_' = TRUE
    /\ analog_state_' = [i \in AnalogIndices |-> [seen |-> FALSE, last_evented |-> 0]]
    /\ binary_state_' = [i \in BinaryIndices |-> [seen |-> FALSE, last_evented |-> FALSE]]
    /\ NewDatabase
    /\ UNCHANGED mode

\* The point states survive, the database does not.
shutdown ==
    /\ outstation_
    /\ outstation_' = FALSE
    /\ NewDatabase
    /\ UNCHANGED <<starts, stateVars, mode>>

Next ==
    \/ \E i \in AnalogIndices, v \in AnalogValues, q \in Qualities : updateAnalog(i, v, q)
    \/ \E i \in BinaryIndices, v \in BOOLEAN, q \in Qualities : updateBinary(i, v, q)
    \/ start
    \/ shutdown

Spec == Init /\ [][Next]_vars

-----------------------------------------------------------------------------
(* Properties *)

FlagSets == {{}, {"ONLINE"}, {"ONLINE", "RESTART"}}
PointsOf(values) == [value : values, flags : FlagSets] \cup {NoPoint}

\* The type of every variable.  The flags of an assigned point are never
\* RESTART alone: that is opendnp3's mark of a point without a value.
TypeOK ==
    /\ outstation_ \in BOOLEAN
    /\ starts \in 0 .. MaxStarts
    /\ analog_state_ \in [AnalogIndices -> [seen : BOOLEAN, last_evented : AnalogValues]]
    /\ binary_state_ \in [BinaryIndices -> [seen : BOOLEAN, last_evented : BOOLEAN]]
    /\ analog_db \in [AnalogPoints -> PointsOf(AnalogValues)]
    /\ binary_db \in [BinaryPoints -> PointsOf(BOOLEAN)]
    /\ analog_event \in [AnalogPoints -> PointsOf(AnalogValues)]
    /\ binary_event \in [BinaryPoints -> PointsOf(BOOLEAN)]
    /\ mode \in {"Force", "Suppress"}

Within(v, w, d) ==
    \/ v = w
    \/ v \in FiniteValues /\ w \in FiniteValues /\ Distance(v, w) <= d

\* A master that only reads events is never off by more than the deadband,
\* however slowly a value drifts, after NaN as well as before, and across
\* shutdown() and start(): every assigned point has an event, and its value is
\* within the deadband of the last one.
AnalogEventsFollow ==
    \A i \in AnalogPoints : analog_db[i] # NoPoint =>
        /\ analog_event[i] # NoPoint
        /\ Within(analog_db[i].value, analog_event[i].value, Deadband[i])

\* The last event of a binary point always carries its present value.
BinaryEventsFollow ==
    \A i \in BinaryPoints : binary_db[i] # NoPoint =>
        /\ binary_event[i] # NoPoint
        /\ binary_event[i].value = binary_db[i].value

\* Only the quality of point i changes.
AnalogQualityChange(i) ==
    /\ analog_db[i] # NoPoint
    /\ analog_db'[i] # NoPoint
    /\ analog_db'[i].value = analog_db[i].value
    /\ analog_db'[i].flags # analog_db[i].flags

BinaryQualityChange(i) ==
    /\ binary_db[i] # NoPoint
    /\ binary_db'[i] # NoPoint
    /\ binary_db'[i].value = binary_db[i].value
    /\ binary_db'[i].flags # binary_db[i].flags

\* A quality change at an unchanged finite value makes no event, also when the
\* value had moved within the deadband since the last event.  At a value that
\* is not finite the code forces an event whatever changed.
FiniteQualityChangeIsNoEvent ==
    [][/\ \A i \in AnalogPoints :
            (AnalogQualityChange(i) /\ analog_db[i].value \in FiniteValues
             /\ Deadband[i] >= 0) => mode' = "Suppress"
       /\ \A i \in BinaryPoints : BinaryQualityChange(i) => mode' = "Suppress"]_vars

-----------------------------------------------------------------------------
(* The inductive invariant that the proofs use *)

\* The PointState of a point with a value has the value of its last event.
StateIsLastEvent ==
    outstation_ =>
        /\ \A i \in AnalogPoints : analog_state_[i].seen =>
            /\ analog_event[i] # NoPoint
            /\ analog_event[i].value = analog_state_[i].last_evented
        /\ \A i \in AnalogPoints : analog_db[i] # NoPoint => analog_state_[i].seen
        /\ \A i \in BinaryPoints : binary_state_[i].seen =>
            /\ binary_event[i] # NoPoint
            /\ binary_event[i].value = binary_state_[i].last_evented
        /\ \A i \in BinaryPoints : binary_db[i] # NoPoint => binary_state_[i].seen

EventsInv ==
    /\ TypeOK
    /\ StateIsLastEvent
    /\ AnalogEventsFollow
    /\ BinaryEventsFollow

=============================================================================
