------------------------------ MODULE MasterView ------------------------------
(***************************************************************************)
(* What a SCADA master comes to see of the points: OutstationManager, the  *)
(* event buffer and the responses that opendnp3 makes of it, a connection  *)
(* that breaks, and the master simulator's DataModel.                      *)
(*                                                                         *)
(* External: opendnp3.  A full buffer drops its oldest event of the kind,  *)
(* and one without room for a kind stores none of it.  A response has the  *)
(* selected events first, oldest first, then the static values.  The       *)
(* events of a response stay in the buffer, written, until the master has  *)
(* confirmed it; meanwhile nothing else is sent, and without confirmation  *)
(* they are sent again.                                                    *)
(***************************************************************************)
EXTENDS OutstationManager, Sequences, FiniteSetsExt, Functions

CONSTANTS
    eventBufferConfig,  \* the capacity for each kind of event
    allowUnsolicited,   \* unsolicited.enabled
    class_mask,         \* unsolicited.class_mask, a sequence of names
    ClassOf,            \* the event class of each kind of point
    Updated,            \* the qualities that the client sends
    MaxUpdates,         \* bound on the number of updates
    MaxPolls,           \* bound on the number of polls by key
    MaxFaults,          \* bound on the number of broken connections and timeouts
    Nothing             \* no request, no value

ASSUME UpdatedAssumption == Updated \subseteq Qualities
ASSUME NothingAssumption ==
    \A flags \in SUBSET {"ONLINE", "RESTART"} :
        /\ \A v \in FiniteValues \cup NonFiniteValues :
            Nothing # [value |-> v, flags |-> flags]
        /\ \A v \in BOOLEAN : Nothing # [value |-> v, flags |-> flags]

Kinds == {"binary", "analog"}
PointsOfKind(kind) == IF kind = "analog" THEN AnalogPoints ELSE BinaryPoints

VARIABLES
    connected,      \* connected_, and model.connected of the master
    events,         \* the event buffer: [kind, index, point, written] for the
                    \* number of each update that made one
    request,        \* the classes the master has asked for
    line,           \* the response on its way, if any:
                    \* <<[events, integrity, static, startup, timely]>>
    confirm,        \* TRUE iff a confirmation is on its way
    view,           \* binary_inputs, analog_inputs: Nothing until received
    fresh,          \* the startup poll of this connection was answered
    dropped,        \* history: an event was dropped since the last integrity poll
    updates, polls, faults

linkVars == <<connected, request, line, confirm, fresh>>
viewVars == <<linkVars, events, view, dropped, updates, polls, faults>>

NothingReceived == [kind \in Kinds |-> [i \in PointsOfKind(kind) |-> Nothing]]

ViewInit ==
    /\ Init
    /\ connected = FALSE
    /\ events = <<>>
    /\ request = Nothing
    /\ line = <<>>
    /\ confirm = FALSE
    /\ view = NothingReceived
    /\ fresh = FALSE
    /\ dropped = FALSE
    /\ updates = 0 /\ polls = 0 /\ faults = 0

-----------------------------------------------------------------------------
(* The outstation *)

Classes == {"class0", "class1", "class2", "class3"}

\* Variant: the first name ends the search.
buildClassMaskFirst(mask) == {mask[1]} \cap Classes

\* Names that are no class are ignored.
buildClassMask(mask) == Range(mask) \cap Classes

OfKind(kind) == {k \in DOMAIN events : events[k].kind = kind}

\* The number of the oldest event of a kind, if there is one.
Oldest(kind) == {k \in OfKind(kind) : \A j \in OfKind(kind) : k <= j}

\* Apply() with EventMode::Force.
Buffer(kind, i, point) ==
    LET capacity == eventBufferConfig[kind]
        full == Cardinality(OfKind(kind)) >= capacity
        kept == DOMAIN events \ (IF full THEN Oldest(kind) ELSE {})
        stored == IF capacity = 0 THEN {} ELSE {updates'}
    IN  /\ events' = [k \in kept \cup stored |->
                        IF k \in kept THEN events[k]
                        ELSE [kind |-> kind, index |-> i, point |-> point,
                              written |-> FALSE]]
        /\ dropped' = (dropped \/ full)

\* A point of the bridge's client arrives at the outstation.
Update(kind, i) ==
    /\ updates < MaxUpdates
    /\ updates' = updates + 1
    /\ \E q \in Updated :
        \/ kind = "analog" /\ \E v \in AnalogValues : updateAnalog(i, v, q)
        \/ kind = "binary" /\ \E v \in BOOLEAN : updateBinary(i, v, q)
    /\ IF mode' = "Suppress" THEN UNCHANGED <<events, dropped>>
       ELSE Buffer(kind, i, IF kind = "analog" THEN analog_db'[i] ELSE binary_db'[i])
    /\ UNCHANGED <<linkVars, view, polls, faults>>

Unconfirmed == \E k \in DOMAIN events : events[k].written

\* A response with the events of some classes, and with the static values if
\* class 0 is among them: a complete picture, whatever was dropped before.
Send(classes, startup) ==
    LET selected == {k \in DOMAIN events : ClassOf[events[k].kind] \in classes}
        integrity == "class0" \in classes
    IN  /\ line' = <<[events |-> Restrict(events, selected),
                      integrity |-> integrity,
                      static |-> IF integrity
                                 THEN [binary |-> binary_db, analog |-> analog_db]
                                 ELSE NothingReceived,
                      startup |-> startup, timely |-> TRUE]>>
        /\ events' = [k \in DOMAIN events |->
                        [events[k] EXCEPT !.written = (k \in selected)]]
        /\ dropped' = (dropped /\ ~integrity)

Respond ==
    /\ request # Nothing
    /\ line = <<>> /\ ~Unconfirmed
    /\ Send(request.classes, request.startup)
    /\ request' = Nothing
    /\ UNCHANGED <<vars, connected, confirm, view, fresh, updates, polls, faults>>

SendUnsolicited ==
    /\ connected /\ allowUnsolicited
    /\ line = <<>> /\ ~Unconfirmed
    /\ LET classes == buildClassMask(class_mask) \ {"class0"}
       IN  /\ \E k \in DOMAIN events : ClassOf[events[k].kind] \in classes
           /\ Send(classes, FALSE)
    /\ UNCHANGED <<vars, connected, request, confirm, view, fresh, updates, polls,
                   faults>>

Confirmed ==
    /\ confirm
    /\ confirm' = FALSE
    /\ events' = Restrict(events, {k \in DOMAIN events : ~events[k].written})
    /\ UNCHANGED <<vars, connected, request, line, view, fresh, dropped, updates,
                   polls, faults>>

Unwritten == [k \in DOMAIN events |-> [events[k] EXCEPT !.written = FALSE]]

Late(response) ==
    [events |-> response.events, integrity |-> response.integrity,
     static |-> response.static, startup |-> response.startup, timely |-> FALSE]

\* No confirmation in time: one that still comes is for a response given up.
ConfirmTimesOut ==
    /\ Unconfirmed
    /\ faults < MaxFaults
    /\ faults' = faults + 1
    /\ events' = Unwritten
    /\ confirm' = FALSE
    /\ line' = IF line = <<>> THEN <<>> ELSE <<Late(line[1])>>
    /\ UNCHANGED <<vars, connected, request, view, fresh, dropped, updates, polls>>

\* What is on the connection is lost with it.
Disconnect ==
    /\ connected' = FALSE
    /\ request' = Nothing
    /\ line' = <<>>
    /\ confirm' = FALSE
    /\ fresh' = FALSE
    /\ UNCHANGED <<view, updates, polls>>

\* OnStateChange() on either side.
ConnectionBreaks ==
    /\ connected
    /\ faults < MaxFaults
    /\ faults' = faults + 1
    /\ Disconnect
    /\ events' = Unwritten
    /\ UNCHANGED <<vars, dropped>>

StartOutstation ==
    /\ start
    /\ UNCHANGED viewVars

\* The buffer is as volatile as the database.
ShutDownOutstation ==
    /\ shutdown
    /\ Disconnect
    /\ events' = <<>>
    /\ dropped' = FALSE
    /\ UNCHANGED faults

-----------------------------------------------------------------------------
(* The master simulator *)

\* Variant: the startup poll asks for events only.
startupIntegrityClassMaskEvents == Classes \ {"class0"}

startupIntegrityClassMask == Classes

\* The channels meet, and the master's startup tasks begin.
Connect ==
    /\ outstation_ /\ ~connected
    /\ connected' = TRUE
    /\ request' = [classes |-> startupIntegrityClassMask, startup |-> TRUE]
    /\ UNCHANGED <<vars, events, line, confirm, view, fresh, dropped, updates,
                   polls, faults>>

\* The keys I, 1 and 2.
ScanClasses(classes) ==
    /\ connected /\ fresh /\ request = Nothing
    /\ polls < MaxPolls
    /\ polls' = polls + 1
    /\ request' = [classes |-> classes, startup |-> FALSE]
    /\ UNCHANGED <<vars, connected, line, confirm, fresh, events, view, dropped,
                   updates, faults>>

EventsOf(header, kind, i) ==
    {k \in DOMAIN header : header[k].kind = kind /\ header[k].index = i}

\* Process(): the received points overwrite the model's, one after the other,
\* so that the last of each point stays.
Process(points, header) ==
    [kind \in Kinds |-> [i \in PointsOfKind(kind) |->
        IF EventsOf(header, kind, i) = {} THEN points[kind][i]
        ELSE header[Max(EventsOf(header, kind, i))].point]]

\* The model after a response: its events, then its static values.
Shown(response) ==
    IF response.integrity THEN response.static ELSE Process(view, response.events)

\* A response arrives.
Receive ==
    /\ line # <<>>
    /\ view' = Shown(line[1])
    /\ fresh' = (fresh \/ line[1].startup)
    /\ confirm' = (line[1].timely /\ DOMAIN line[1].events # {})
    /\ line' = <<>>
    /\ UNCHANGED <<vars, connected, request, events, dropped, updates, polls, faults>>

-----------------------------------------------------------------------------

ViewNext ==
    \/ \E i \in AnalogPoints : Update("analog", i)
    \/ \E i \in BinaryPoints : Update("binary", i)
    \/ Respond \/ SendUnsolicited
    \/ Confirmed \/ ConfirmTimesOut
    \/ ConnectionBreaks
    \/ StartOutstation \/ ShutDownOutstation
    \/ Connect
    \/ \E classes \in {Classes, {"class1"}, {"class2"}} : ScanClasses(classes)
    \/ Receive

ViewSpec == ViewInit /\ [][ViewNext]_<<vars, viewVars>>

\* The master connects again, and the two stacks keep talking.
FairViewSpec ==
    /\ ViewSpec
    /\ WF_viewVars(Connect)
    /\ WF_viewVars(Receive)
    /\ WF_viewVars(Confirmed)
    /\ WF_viewVars(Respond \/ SendUnsolicited)

-----------------------------------------------------------------------------
(* Properties *)

\* Everything the outstation has to tell was told.
Settled == fresh /\ line = <<>> /\ DOMAIN events = {} /\ ~dropped

\* Then SCADA sees the present binary values, and analog values within twice the
\* deadband: an integrity poll shows a value inside the deadband around the last
\* event, and the value may then move to the other edge without a new event.
\* Of a point without a value since the outstation's start it sees just that,
\* not the value of before; and it recovers from dropped events by an integrity
\* poll.
ViewFollows ==
    Settled =>
        /\ \A i \in AnalogPoints :
            IF analog_db[i] = NoPoint \/ view.analog[i] \in {Nothing, NoPoint}
            THEN view.analog[i] = analog_db[i]
            ELSE Within(analog_db[i].value, view.analog[i].value, 2 * Deadband[i])
        /\ \A i \in BinaryPoints :
            IF binary_db[i] = NoPoint \/ view.binary[i] \in {Nothing, NoPoint}
            THEN view.binary[i] = binary_db[i]
            ELSE view.binary[i].value = binary_db[i].value

\* Unsolicited responses, repeated for as long as it takes, empty the buffer:
\* once nothing changes or breaks any more, the master has every event.
EventsAreDelivered == <>[](outstation_ => fresh /\ DOMAIN events = {})

-----------------------------------------------------------------------------
(* The inductive invariant that the proofs use *)

\* A connection needs an outstation, and everything else a connection.
LinkOK ==
    /\ connected => outstation_
    /\ line # <<>> \/ fresh \/ request # Nothing => connected
    /\ request # Nothing /\ request.startup => "class0" \in request.classes
    /\ line # <<>> =>
        /\ line = <<[events |-> line[1].events, integrity |-> line[1].integrity,
                     static |-> line[1].static, startup |-> line[1].startup,
                     timely |-> line[1].timely]>>
        /\ line[1].startup => line[1].integrity

\* Events are numbered by their updates, and what is written of a point is older
\* than what is not.
BufferOK ==
    /\ updates \in Nat
    /\ DOMAIN events \subseteq 1 .. updates
    /\ ~outstation_ => DOMAIN events = {}
    /\ \A k \in DOMAIN events :
        /\ events[k] = [kind |-> events[k].kind, index |-> events[k].index,
                        point |-> events[k].point, written |-> events[k].written]
        /\ events[k].kind \in Kinds /\ eventBufferConfig[events[k].kind] # 0
        /\ \A j \in DOMAIN events :
            j < k /\ events[j].kind = events[k].kind /\ events[k].written
                => events[j].written

LastEvent(kind, i) == IF kind = "analog" THEN analog_event[i] ELSE binary_event[i]
Static(kind, i) == IF kind = "analog" THEN analog_db[i] ELSE binary_db[i]

\* A point of the database has a value iff it has had an event.
ValueHasEvent ==
    \A kind \in Kinds : \A i \in PointsOfKind(kind) :
        Static(kind, i) = NoPoint <=> LastEvent(kind, i) = NoPoint

IsLatest(k, kind, i) ==
    k \in EventsOf(events, kind, i) /\ \A j \in EventsOf(events, kind, i) : j <= k

\* Of a point that has events in the buffer, the last one is there.
LastIsBuffered ==
    \A kind \in Kinds : \A i \in PointsOfKind(kind) :
        EventsOf(events, kind, i) # {} =>
            \E k \in DOMAIN events :
                IsLatest(k, kind, i) /\ events[k].point = LastEvent(kind, i)

\* The value p tells the last event of a point, within its deadband.
Tells(kind, i, p) ==
    IF LastEvent(kind, i) = NoPoint THEN p = NoPoint
    ELSE /\ p \notin {Nothing, NoPoint}
         /\ IF kind = "analog"
            THEN Within(p.value, LastEvent(kind, i).value, Deadband[i])
            ELSE p.value = LastEvent(kind, i).value

\* What the master has once it has received what is on its way.
Picture == IF line = <<>> THEN view ELSE Shown(line[1])

\* The startup poll was answered, whether or not the answer has arrived.
Polled == fresh \/ (line # <<>> /\ line[1].startup)

\* An event that is not in the master's picture is in the buffer, to be sent.
PictureOrBuffer ==
    Polled /\ ~dropped =>
        \A kind \in Kinds : \A i \in PointsOfKind(kind) :
            \/ Tells(kind, i, Picture[kind][i])
            \/ \E k \in DOMAIN events : IsLatest(k, kind, i) /\ ~events[k].written

ViewInv ==
    /\ EventsInv
    /\ LinkOK
    /\ BufferOK
    /\ ValueHasEvent
    /\ LastIsBuffered
    /\ PictureOrBuffer

=============================================================================
