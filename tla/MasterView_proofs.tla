-------------------------- MODULE MasterView_proofs --------------------------
(***************************************************************************)
(* Theorems about MasterView, for any points, deadbands, buffers, classes  *)
(* and faults.  The outstation of the composition behaves as                *)
(* OutstationManager does; the lemmas after that take one kind of step     *)
(* each and show that it preserves ViewInv.                                *)
(***************************************************************************)
EXTENDS MasterView, OutstationManager_proofs, FiniteSetTheorems

\* An update of the composition is one of OutstationManager.
LEMMA UpdateIsUpdate ==
    ASSUME NEW kind \in Kinds, NEW i \in PointsOfKind(kind), Update(kind, i)
    PROVE  Next
<1>1. i \in AnalogPoints => i \in AnalogIndices
  BY PointsAssumption
<1>2. i \in BinaryPoints => i \in BinaryIndices
  BY PointsAssumption
<1>3. PICK q \in Updated :
        \/ kind = "analog" /\ \E v \in AnalogValues : updateAnalog(i, v, q)
        \/ kind = "binary" /\ \E v \in BOOLEAN : updateBinary(i, v, q)
  BY DEF Update
<1>4. q \in Qualities
  BY UpdatedAssumption
<1>5. CASE kind = "analog"
  <2>1. i \in AnalogIndices /\ \E v \in AnalogValues : updateAnalog(i, v, q)
    BY <1>1, <1>3, <1>5 DEF PointsOfKind
  <2> QED
    BY <1>4, <2>1 DEF Next
<1>6. CASE kind = "binary"
  <2>1. i \in BinaryIndices /\ \E v \in BOOLEAN : updateBinary(i, v, q)
    BY <1>2, <1>3, <1>6 DEF PointsOfKind
  <2> QED
    BY <1>4, <2>1 DEF Next
<1> QED
  BY <1>5, <1>6 DEF Kinds

LEMMA StepOfOutstation == [ViewNext]_<<vars, viewVars>> => [Next]_vars
<1> SUFFICES ASSUME [ViewNext]_<<vars, viewVars>> PROVE [Next]_vars
  OBVIOUS
<1>1. CASE \E i \in AnalogPoints : Update("analog", i)
  BY <1>1, UpdateIsUpdate DEF Kinds, PointsOfKind
<1>2. CASE \E i \in BinaryPoints : Update("binary", i)
  BY <1>2, UpdateIsUpdate DEF Kinds, PointsOfKind
<1>3. CASE StartOutstation \/ ShutDownOutstation
  BY <1>3 DEF StartOutstation, ShutDownOutstation, Next
<1>4. CASE UNCHANGED vars
  BY <1>4
<1>5. CASE \/ Respond \/ SendUnsolicited \/ Confirmed \/ ConfirmTimesOut
           \/ ConnectionBreaks \/ Connect \/ Receive
           \/ \E classes \in {Classes, {"class1"}, {"class2"}} : ScanClasses(classes)
  <2>1. UNCHANGED vars
    BY <1>5 DEF Respond, SendUnsolicited, Confirmed, ConfirmTimesOut, ConnectionBreaks,
       Connect, Receive, ScanClasses
  <2> QED
    BY <2>1
<1> QED
  BY <1>1, <1>2, <1>3, <1>4, <1>5 DEF ViewNext

\* The composition implements OutstationManager: what a master does, what is lost
\* and what does not fit a buffer never changes which updates become events.
THEOREM OutstationUnderView == ViewSpec => Spec
  BY StepOfOutstation, PTL DEF ViewSpec, ViewInit, Spec

-----------------------------------------------------------------------------
(* What the outstation's variables tell *)

\* A point is not the value that a master has before it received one.
LEMMA PointIsSomething ==
    ASSUME NEW p \in PointsOf(AnalogValues) \cup PointsOf(BOOLEAN), p # NoPoint
    PROVE  p # Nothing
<1>1. \A f \in FlagSets : f \in SUBSET {"ONLINE", "RESTART"}
  BY DEF FlagSets
<1> QED
  BY <1>1, NothingAssumption DEF PointsOf, AnalogValues

\* A static value tells the last event of its point.
LEMMA StaticTells ==
    ASSUME EventsInv, ValueHasEvent, NEW kind \in Kinds, NEW i \in PointsOfKind(kind)
    PROVE  Tells(kind, i, Static(kind, i))
<1>1. CASE kind = "analog"
  <2>1. analog_db[i] \in PointsOf(AnalogValues)
    BY <1>1 DEF EventsInv, TypeOK, PointsOfKind
  <2>2. analog_db[i] # NoPoint => analog_db[i] # Nothing
    BY <2>1, PointIsSomething
  <2> QED
    BY <1>1, <2>2 DEF EventsInv, AnalogEventsFollow, ValueHasEvent, Static, LastEvent,
       Tells, PointsOfKind
<1>2. CASE kind = "binary"
  <2>1. binary_db[i] \in PointsOf(BOOLEAN)
    BY <1>2 DEF EventsInv, TypeOK, PointsOfKind
  <2>2. binary_db[i] # NoPoint => binary_db[i] # Nothing
    BY <2>1, PointIsSomething
  <2> QED
    BY <1>2, <2>2 DEF EventsInv, BinaryEventsFollow, ValueHasEvent, Static, LastEvent,
       Tells, PointsOfKind
<1> QED
  BY <1>1, <1>2 DEF Kinds

\* So does the last event itself.
LEMMA EventTells ==
    ASSUME EventsInv, NEW kind \in Kinds, NEW i \in PointsOfKind(kind)
    PROVE  Tells(kind, i, LastEvent(kind, i))
<1>1. CASE kind = "analog"
  <2>1. analog_event[i] \in PointsOf(AnalogValues)
    BY <1>1 DEF EventsInv, TypeOK, PointsOfKind
  <2> QED
    BY <1>1, <2>1, PointIsSomething DEF LastEvent, Tells, Within
<1>2. CASE kind = "binary"
  <2>1. binary_event[i] \in PointsOf(BOOLEAN)
    BY <1>2 DEF EventsInv, TypeOK, PointsOfKind
  <2> QED
    BY <1>2, <2>1, PointIsSomething DEF LastEvent, Tells
<1> QED
  BY <1>1, <1>2 DEF Kinds

\* Nothing of it changes while the outstation does nothing.
LEMMA QuietOutstation ==
    ASSUME UNCHANGED vars
    PROVE  /\ EventsInv => EventsInv'
           /\ outstation_' = outstation_
           /\ ValueHasEvent => ValueHasEvent'
           /\ \A kind, i : LastEvent(kind, i)' = LastEvent(kind, i)
           /\ \A kind, i : Static(kind, i)' = Static(kind, i)
           /\ \A kind, i, p : Tells(kind, i, p)' <=> Tells(kind, i, p)
<1>1. /\ outstation_' = outstation_
      /\ analog_event' = analog_event /\ binary_event' = binary_event
      /\ analog_db' = analog_db /\ binary_db' = binary_db
  BY DEF vars, databaseVars
<1>2. EventsInv => EventsInv'
  BY NextPreserves
<1> QED
  BY <1>1, <1>2 DEF ValueHasEvent, LastEvent, Static, Tells, Within

-----------------------------------------------------------------------------
(* The event buffer *)

LEMMA MaxIs ==
    ASSUME NEW S \in SUBSET Int, NEW m \in S, \A x \in S : x <= m
    PROVE  Max(S) = m
<1>1. \A x \in S : (\A y \in S : x >= y) => x = m
  <2> SUFFICES ASSUME NEW x \in S, \A y \in S : x >= y PROVE x = m
    OBVIOUS
  <2>1. x >= m /\ x <= m /\ x \in Int /\ m \in Int
    OBVIOUS
  <2> QED
    BY <2>1
<1>2. \E x \in S : \A y \in S : x >= y
  OBVIOUS
<1> QED
  BY <1>1, <1>2 DEF Max

\* Marking events as written, or not, moves none of them.
LEMMA SameEvents ==
    ASSUME DOMAIN events' = DOMAIN events,
           \A k \in DOMAIN events :
                /\ events'[k].kind = events[k].kind
                /\ events'[k].index = events[k].index
                /\ events'[k].point = events[k].point,
           UNCHANGED vars
    PROVE  /\ \A kind, i : EventsOf(events', kind, i) = EventsOf(events, kind, i)
           /\ \A k, kind, i : IsLatest(k, kind, i)' <=> IsLatest(k, kind, i)
           /\ LastIsBuffered => LastIsBuffered'
<1>1. \A kind, i : EventsOf(events', kind, i) = EventsOf(events, kind, i)
  BY DEF EventsOf
<1>2. \A k, kind, i : IsLatest(k, kind, i)' <=> IsLatest(k, kind, i)
  BY <1>1 DEF IsLatest
<1>3. \A kind, i : LastEvent(kind, i)' = LastEvent(kind, i)
  BY QuietOutstation
<1>4. LastIsBuffered => LastIsBuffered'
  <2> SUFFICES ASSUME LastIsBuffered, NEW kind \in Kinds, NEW i \in PointsOfKind(kind),
                      EventsOf(events', kind, i) # {}
               PROVE  \E k \in DOMAIN events' :
                        IsLatest(k, kind, i)' /\ events'[k].point = LastEvent(kind, i)'
    BY DEF LastIsBuffered
  <2>1. PICK k \in DOMAIN events :
            IsLatest(k, kind, i) /\ events[k].point = LastEvent(kind, i)
    BY <1>1 DEF LastIsBuffered
  <2> QED
    BY <1>2, <1>3, <2>1
<1> QED
  BY <1>1, <1>2, <1>4

\* The last event of a point is what Process() leaves of it.
LEMMA ProcessShows ==
    ASSUME NEW points, NEW header, NEW kind \in Kinds, NEW i \in PointsOfKind(kind)
    PROVE  Process(points, header)[kind][i] =
                IF EventsOf(header, kind, i) = {} THEN points[kind][i]
                ELSE header[Max(EventsOf(header, kind, i))].point
BY DEF Process

\* A response has, of each point, the last event in the buffer or a later static
\* value, or the event waits in the buffer.
LEMMA SendKeeps ==
    ASSUME EventsInv, BufferOK, ValueHasEvent, LastIsBuffered, PictureOrBuffer,
           UNCHANGED <<vars, view, fresh, updates>>, line = <<>>,
           NEW classes, NEW startup, startup => "class0" \in classes,
           Send(classes, startup)
    PROVE  BufferOK' /\ LastIsBuffered' /\ PictureOrBuffer'
<1> DEFINE selected == {k \in DOMAIN events : ClassOf[events[k].kind] \in classes}
           response == [events |-> Restrict(events, selected),
                        integrity |-> "class0" \in classes,
                        static |-> IF "class0" \in classes
                                   THEN [binary |-> binary_db, analog |-> analog_db]
                                   ELSE NothingReceived,
                        startup |-> startup, timely |-> TRUE]
<1>1. /\ line' = <<response>>
      /\ events' = [k \in DOMAIN events |->
                        [events[k] EXCEPT !.written = (k \in selected)]]
      /\ dropped' = (dropped /\ ~("class0" \in classes))
  BY DEF Send
<1>2. \A k \in DOMAIN events :
        /\ events'[k] = [kind |-> events[k].kind, index |-> events[k].index,
                         point |-> events[k].point, written |-> (k \in selected)]
        /\ events'[k].kind = events[k].kind /\ events'[k].index = events[k].index
        /\ events'[k].point = events[k].point /\ events'[k].written = (k \in selected)
  <2> SUFFICES ASSUME NEW k \in DOMAIN events
               PROVE  events'[k] = [kind |-> events[k].kind, index |-> events[k].index,
                                    point |-> events[k].point, written |-> (k \in selected)]
    OBVIOUS
  <2> HIDE DEF selected
  <2>1. events'[k] = [events[k] EXCEPT !.written = (k \in selected)]
    BY <1>1
  <2>2. events[k] = [kind |-> events[k].kind, index |-> events[k].index,
                     point |-> events[k].point, written |-> events[k].written]
    BY DEF BufferOK
  <2> QED
    BY <2>1, <2>2
<1>3. DOMAIN events' = DOMAIN events
  BY <1>1
<1>4. /\ \A kind, i : EventsOf(events', kind, i) = EventsOf(events, kind, i)
      /\ \A k, kind, i : IsLatest(k, kind, i)' <=> IsLatest(k, kind, i)
      /\ LastIsBuffered'
  BY <1>2, <1>3, SameEvents
<1>5. \A j, k \in DOMAIN events :
        events[j].kind = events[k].kind /\ k \in selected => j \in selected
  OBVIOUS
<1> HIDE DEF selected
<1>6. BufferOK'
  <2>1. updates' = updates /\ outstation_' = outstation_
    BY DEF vars
  <2> SUFFICES ASSUME NEW k \in DOMAIN events
               PROVE  /\ events'[k] = [kind |-> events'[k].kind, index |-> events'[k].index,
                                       point |-> events'[k].point,
                                       written |-> events'[k].written]
                      /\ events'[k].kind \in Kinds
                      /\ eventBufferConfig[events'[k].kind] # 0
                      /\ \A j \in DOMAIN events :
                            j < k /\ events'[j].kind = events'[k].kind /\ events'[k].written
                                => events'[j].written
    BY <1>3, <2>1 DEF BufferOK
  <2>2. events'[k] = [kind |-> events'[k].kind, index |-> events'[k].index,
                      point |-> events'[k].point, written |-> events'[k].written]
    BY <1>2
  <2>3. events'[k].kind \in Kinds /\ eventBufferConfig[events'[k].kind] # 0
    BY <1>2 DEF BufferOK
  <2>4. ASSUME NEW j \in DOMAIN events, events'[j].kind = events'[k].kind,
               events'[k].written
        PROVE  events'[j].written
    BY <1>2, <1>5, <2>4
  <2> QED
    BY <2>2, <2>3, <2>4
<1>7. /\ line' # <<>> /\ line'[1] = response
      /\ response.integrity = ("class0" \in classes)
      /\ response.startup = startup
      /\ response.events = Restrict(events, selected)
      /\ "class0" \in classes =>
            response.static = [binary |-> binary_db, analog |-> analog_db]
  BY <1>1
<1> HIDE DEF response
<1>8. /\ Picture = view
      /\ Polled' => fresh \/ startup
      /\ Picture' = IF "class0" \in classes
                    THEN [binary |-> binary_db, analog |-> analog_db]
                    ELSE Process(view, Restrict(events, selected))
  <2>1. Picture' = IF response.integrity THEN response.static
                   ELSE Process(view, response.events)
    BY <1>7 DEF Picture, Shown, Process
  <2> QED
    BY <1>7, <2>1 DEF Picture, Polled
<1>9. ASSUME Polled', ~dropped', NEW kind \in Kinds, NEW i \in PointsOfKind(kind)
      PROVE  \/ Tells(kind, i, Picture'[kind][i])
             \/ \E k \in DOMAIN events' : IsLatest(k, kind, i)' /\ ~events'[k].written
  <2>1. CASE "class0" \in classes
    <3>1. Picture'[kind][i] = Static(kind, i)
      BY <1>8, <2>1 DEF Static, Kinds
    <3> QED
      BY <3>1, StaticTells
  <2>2. CASE "class0" \notin classes
    <3> DEFINE header == Restrict(events, selected)
    <3>1. Picture'[kind][i] = IF EventsOf(header, kind, i) = {} THEN view[kind][i]
                              ELSE header[Max(EventsOf(header, kind, i))].point
      BY <1>8, <2>2, ProcessShows
    <3>2. \/ Tells(kind, i, view[kind][i])
          \/ \E k \in DOMAIN events : IsLatest(k, kind, i) /\ ~events[k].written
      BY <1>1, <1>8, <1>9, <2>2 DEF PictureOrBuffer, Polled
    <3>3. CASE EventsOf(events, kind, i) = {}
      <4>1. EventsOf(header, kind, i) = {}
        BY <3>3 DEF EventsOf, Restrict, selected
      <4> QED
        BY <3>1, <3>2, <3>3, <4>1 DEF IsLatest
    <3>4. CASE EventsOf(events, kind, i) # {}
      <4>1. PICK k \in DOMAIN events :
                IsLatest(k, kind, i) /\ events[k].point = LastEvent(kind, i)
        BY <3>4 DEF LastIsBuffered
      <4>2. CASE ClassOf[kind] \in classes
        <5>1. EventsOf(header, kind, i) = EventsOf(events, kind, i)
          BY <4>2 DEF EventsOf, Restrict, selected
        <5>2. /\ k \in EventsOf(events, kind, i)
              /\ \A j \in EventsOf(events, kind, i) : j <= k
          BY <4>1 DEF IsLatest
        <5>3. EventsOf(events, kind, i) \in SUBSET Int
          BY DEF EventsOf, BufferOK
        <5>4. Max(EventsOf(events, kind, i)) = k
          BY <5>2, <5>3, MaxIs
        <5>5. header[k] = events[k]
          BY <5>1, <5>2 DEF EventsOf, Restrict
        <5> QED
          BY <3>1, <4>1, <5>1, <5>2, <5>4, <5>5, EventTells
      <4>3. CASE ClassOf[kind] \notin classes
        <5>1. k \notin selected
          BY <4>1, <4>3 DEF IsLatest, EventsOf, selected
        <5> QED
          BY <1>2, <1>3, <1>4, <4>1, <5>1
      <4> QED
        BY <4>2, <4>3
    <3> QED
      BY <3>3, <3>4
  <2> QED
    BY <2>1, <2>2
<1>10. \A kind, i, p : Tells(kind, i, p)' <=> Tells(kind, i, p)
  BY QuietOutstation
<1> QED
  BY <1>4, <1>6, <1>9, <1>10 DEF PictureOrBuffer

\* A confirmation takes what is written, and that the picture has.
LEMMA ConfirmedKeeps ==
    ASSUME BufferOK, LastIsBuffered, PictureOrBuffer, Confirmed
    PROVE  BufferOK' /\ LastIsBuffered' /\ PictureOrBuffer'
<1>1. /\ events' = Restrict(events, {k \in DOMAIN events : ~events[k].written})
      /\ UNCHANGED vars /\ UNCHANGED <<line, view, fresh, dropped, updates>>
  BY DEF Confirmed
<1>2. /\ DOMAIN events' = {k \in DOMAIN events : ~events[k].written}
      /\ \A k \in DOMAIN events' : events'[k] = events[k]
  BY <1>1 DEF Restrict
<1>3. \A kind, i : EventsOf(events', kind, i) =
        {k \in EventsOf(events, kind, i) : ~events[k].written}
  BY <1>2 DEF EventsOf
<1>4. ASSUME NEW kind, NEW i, NEW k, IsLatest(k, kind, i), ~events[k].written
      PROVE  k \in DOMAIN events' /\ IsLatest(k, kind, i)'
  <2>1. k \in DOMAIN events /\ k \in EventsOf(events, kind, i)
    BY <1>4 DEF IsLatest, EventsOf
  <2>2. k \in EventsOf(events', kind, i)
    BY <1>3, <1>4, <2>1
  <2> QED
    BY <1>2, <1>3, <1>4, <2>1, <2>2 DEF IsLatest
<1>5. /\ \A kind, i : LastEvent(kind, i)' = LastEvent(kind, i)
      /\ \A kind, i, p : Tells(kind, i, p)' <=> Tells(kind, i, p)
      /\ outstation_' = outstation_
  BY <1>1, QuietOutstation
<1>6. BufferOK'
  <2>1. DOMAIN events' \subseteq DOMAIN events
    BY <1>2
  <2> QED
    BY <1>1, <1>2, <1>5, <2>1 DEF BufferOK
<1>7. LastIsBuffered'
  <2> SUFFICES ASSUME NEW kind \in Kinds, NEW i \in PointsOfKind(kind),
                      EventsOf(events', kind, i) # {}
               PROVE  \E k \in DOMAIN events' :
                        IsLatest(k, kind, i)' /\ events'[k].point = LastEvent(kind, i)'
    BY DEF LastIsBuffered
  <2>1. PICK j \in EventsOf(events, kind, i) : ~events[j].written
    BY <1>3
  <2>2. PICK k \in DOMAIN events :
            IsLatest(k, kind, i) /\ events[k].point = LastEvent(kind, i)
    BY <2>1 DEF LastIsBuffered
  <2>3. /\ j \in DOMAIN events /\ events[j].kind = events[k].kind
        /\ j <= k /\ j \in Int /\ k \in Int
    BY <2>1, <2>2 DEF IsLatest, EventsOf, BufferOK
  <2>4. ~events[k].written
    <3>1. j = k \/ j < k
      BY <2>3
    <3> QED
      BY <2>1, <2>2, <2>3, <3>1 DEF BufferOK
  <2> QED
    BY <1>2, <1>4, <1>5, <2>2, <2>4
<1>8. PictureOrBuffer'
  <2>1. Picture' = Picture /\ (Polled' <=> Polled) /\ dropped' = dropped
    BY <1>1 DEF Picture, Polled, Shown, Process
  <2> QED
    BY <1>2, <1>4, <1>5, <2>1 DEF PictureOrBuffer
<1> QED
  BY <1>6, <1>7, <1>8

\* Without a confirmation nothing is lost: what was written waits again.
LEMMA UnwrittenKeeps ==
    ASSUME BufferOK, LastIsBuffered, UNCHANGED vars, UNCHANGED <<dropped, updates>>,
           events' = Unwritten, Polled' => Polled /\ Picture' = Picture, PictureOrBuffer
    PROVE  BufferOK' /\ LastIsBuffered' /\ PictureOrBuffer'
<1>1. \A k \in DOMAIN events :
        /\ events'[k] = [kind |-> events[k].kind, index |-> events[k].index,
                         point |-> events[k].point, written |-> FALSE]
        /\ events'[k].kind = events[k].kind /\ events'[k].index = events[k].index
        /\ events'[k].point = events[k].point /\ ~events'[k].written
  <2> SUFFICES ASSUME NEW k \in DOMAIN events
               PROVE  events'[k] = [kind |-> events[k].kind, index |-> events[k].index,
                                    point |-> events[k].point, written |-> FALSE]
    OBVIOUS
  <2>1. events'[k] = [events[k] EXCEPT !.written = FALSE]
    BY DEF Unwritten
  <2>2. events[k] = [kind |-> events[k].kind, index |-> events[k].index,
                     point |-> events[k].point, written |-> events[k].written]
    BY DEF BufferOK
  <2> QED
    BY <2>1, <2>2
<1>2. DOMAIN events' = DOMAIN events
  BY DEF Unwritten
<1>3. /\ \A kind, i : EventsOf(events', kind, i) = EventsOf(events, kind, i)
      /\ \A k, kind, i : IsLatest(k, kind, i)' <=> IsLatest(k, kind, i)
      /\ LastIsBuffered'
  BY <1>1, <1>2, SameEvents
<1>4. /\ \A kind, i, p : Tells(kind, i, p)' <=> Tells(kind, i, p)
      /\ outstation_' = outstation_
  BY QuietOutstation
<1>5. BufferOK'
  BY <1>1, <1>2, <1>4 DEF BufferOK
<1>6. PictureOrBuffer'
  BY <1>1, <1>2, <1>3, <1>4 DEF PictureOrBuffer
<1> QED
  BY <1>3, <1>5, <1>6

\* The same if the response is late, or gone with the connection.
LEMMA FaultKeeps ==
    ASSUME LinkOK, BufferOK, LastIsBuffered, PictureOrBuffer,
           ConfirmTimesOut \/ ConnectionBreaks
    PROVE  BufferOK' /\ LastIsBuffered' /\ PictureOrBuffer'
<1>1. UNCHANGED vars /\ UNCHANGED <<dropped, updates>> /\ events' = Unwritten
  BY DEF ConfirmTimesOut, ConnectionBreaks, Disconnect
<1>2. Polled' => Polled /\ Picture' = Picture
  <2>1. CASE ConnectionBreaks
    BY <2>1 DEF ConnectionBreaks, Disconnect, Polled
  <2>2. CASE ConfirmTimesOut /\ line = <<>>
    BY <2>2 DEF ConfirmTimesOut, Polled, Picture
  <2>3. CASE ConfirmTimesOut /\ line # <<>>
    <3>1. line' = <<Late(line[1])>> /\ fresh' = fresh /\ view' = view
      BY <2>3 DEF ConfirmTimesOut
    <3>2. /\ Late(line[1]).events = line[1].events
          /\ Late(line[1]).integrity = line[1].integrity
          /\ Late(line[1]).static = line[1].static
          /\ Late(line[1]).startup = line[1].startup
      BY DEF Late
    <3>4. /\ line' # <<>> /\ line'[1].events = line[1].events
          /\ line'[1].integrity = line[1].integrity /\ line'[1].static = line[1].static
          /\ line'[1].startup = line[1].startup
          /\ fresh' = fresh /\ view' = view
      BY <3>1, <3>2
    <3>5. Polled' => Polled
      BY <2>3, <3>4 DEF Polled
    <3>6. Picture' = Picture
      BY <2>3, <3>4 DEF Picture, Shown, Process
    <3> QED
      BY <3>5, <3>6
  <2> QED
    BY <2>1, <2>2, <2>3
<1> QED
  BY <1>1, <1>2, UnwrittenKeeps

\* The master's own steps, and the arrival of a response, leave the picture as it
\* is: it was on its way.
LEMMA MasterKeeps ==
    ASSUME BufferOK, LastIsBuffered, PictureOrBuffer,
           Connect \/ Receive \/ \E classes \in {Classes, {"class1"}, {"class2"}} :
                                    ScanClasses(classes)
    PROVE  BufferOK' /\ LastIsBuffered' /\ PictureOrBuffer'
<1>1. UNCHANGED vars /\ UNCHANGED <<events, dropped, updates>>
  BY DEF Connect, Receive, ScanClasses
<1>2. /\ \A k, kind, i : IsLatest(k, kind, i)' <=> IsLatest(k, kind, i)
      /\ LastIsBuffered'
  BY <1>1, SameEvents
<1>3. /\ \A kind, i, p : Tells(kind, i, p)' <=> Tells(kind, i, p)
      /\ outstation_' = outstation_
  BY <1>1, QuietOutstation
<1>4. Picture' = Picture /\ (Polled' <=> Polled)
  <2>1. CASE Receive
    <3>1. line # <<>> /\ line' = <<>> /\ view' = Shown(line[1])
      BY <2>1 DEF Receive
    <3>2. Polled' <=> Polled
      BY <2>1, <3>1 DEF Receive, Polled
    <3> QED
      BY <3>1, <3>2 DEF Picture
  <2>2. CASE UNCHANGED <<line, view, fresh>>
    BY <2>2 DEF Picture, Polled, Shown, Process
  <2> QED
    BY <2>1, <2>2 DEF Connect, ScanClasses
<1>5. BufferOK'
  BY <1>1, <1>3 DEF BufferOK
<1> QED
  BY <1>1, <1>2, <1>3, <1>4, <1>5 DEF PictureOrBuffer

\* With the outstation goes everything that a master could have been told of.
LEMMA StartShutdownKeeps ==
    ASSUME LinkOK, BufferOK, StartOutstation \/ ShutDownOutstation
    PROVE  BufferOK' /\ LastIsBuffered' /\ PictureOrBuffer' /\ ValueHasEvent'
<1>1. DOMAIN events' = {} /\ updates' = updates /\ ~Polled'
  BY DEF StartOutstation, ShutDownOutstation, start, shutdown, Disconnect, viewVars,
     linkVars, LinkOK, BufferOK, Polled
<1>2. BufferOK' /\ LastIsBuffered' /\ PictureOrBuffer'
  <2>1. \A kind, i : EventsOf(events', kind, i) = {}
    BY <1>1 DEF EventsOf
  <2> QED
    BY <1>1, <2>1 DEF BufferOK, LastIsBuffered, PictureOrBuffer
<1>3. ValueHasEvent'
  BY DEF StartOutstation, ShutDownOutstation, start, shutdown, NewDatabase, ValueHasEvent,
     Static, LastEvent, PointsOfKind
<1> QED
  BY <1>2, <1>3

\* Every response is one that Send() makes; the answer to a startup poll has the
\* static values.
LEMMA ResponseIsSent ==
    ASSUME LinkOK, Respond \/ SendUnsolicited
    PROVE  \E classes, startup :
                Send(classes, startup) /\ (startup => "class0" \in classes)
<1>1. CASE Respond
  <2>1. /\ Send(request.classes, request.startup)
        /\ request.startup => "class0" \in request.classes
    BY <1>1 DEF Respond, LinkOK
  <2> QED
    BY <2>1
<1>2. CASE SendUnsolicited
  <2>1. Send(buildClassMask(class_mask) \ {"class0"}, FALSE)
    BY <1>2 DEF SendUnsolicited
  <2> QED
    BY <2>1
<1> QED
  BY <1>1, <1>2

\* What is connected to what.
LEMMA LinkKept == LinkOK /\ ViewNext => LinkOK'
<1> SUFFICES ASSUME LinkOK, ViewNext PROVE LinkOK'
  OBVIOUS
<1>1. CASE \E kind \in Kinds : \E i \in PointsOfKind(kind) : Update(kind, i)
  <2>1. UNCHANGED linkVars /\ outstation_' = outstation_
    BY <1>1 DEF Update, updateAnalog, updateBinary
  <2> QED
    BY <2>1 DEF LinkOK, linkVars
<1>2. CASE Respond \/ SendUnsolicited
  <2>1. \E classes, startup : Send(classes, startup) /\ (startup => "class0" \in classes)
    BY <1>2, ResponseIsSent
  <2>2. /\ UNCHANGED <<connected, fresh>> /\ outstation_' = outstation_
        /\ request' # Nothing => request' = request
        /\ connected
    BY <1>2 DEF Respond, SendUnsolicited, vars, LinkOK
  <2>3. /\ line' = <<[events |-> line'[1].events, integrity |-> line'[1].integrity,
                      static |-> line'[1].static, startup |-> line'[1].startup,
                      timely |-> line'[1].timely]>>
        /\ line'[1].startup => line'[1].integrity
    <3>1. PICK classes, startup :
            Send(classes, startup) /\ (startup => "class0" \in classes)
      BY <2>1
    <3> QED
      BY <3>1 DEF Send
  <2> QED
    BY <2>2, <2>3 DEF LinkOK
<1>3. CASE Confirmed \/ Receive
  BY <1>3 DEF Confirmed, Receive, LinkOK, vars
<1>4. CASE ConfirmTimesOut
  <2>1. UNCHANGED <<connected, request, fresh>> /\ outstation_' = outstation_
    BY <1>4 DEF ConfirmTimesOut, vars
  <2>2. CASE line = <<>>
    BY <1>4, <2>1, <2>2 DEF ConfirmTimesOut, LinkOK
  <2>3. CASE line # <<>>
    <3>1. line' = <<Late(line[1])>>
      BY <1>4, <2>3 DEF ConfirmTimesOut
    <3>2. /\ line' = <<[events |-> line'[1].events, integrity |-> line'[1].integrity,
                        static |-> line'[1].static, startup |-> line'[1].startup,
                        timely |-> line'[1].timely]>>
          /\ line'[1].startup = line[1].startup /\ line'[1].integrity = line[1].integrity
      BY <3>1 DEF Late
    <3> QED
      BY <2>1, <2>3, <3>2 DEF LinkOK
  <2> QED
    BY <2>2, <2>3
<1>5. CASE ConnectionBreaks \/ ShutDownOutstation
  BY <1>5 DEF ConnectionBreaks, ShutDownOutstation, Disconnect, LinkOK
<1>6. CASE StartOutstation
  BY <1>6 DEF StartOutstation, start, viewVars, linkVars, LinkOK
<1>7. CASE Connect
  <2>1. /\ request' = [classes |-> Classes, startup |-> TRUE] /\ connected' /\ outstation_'
        /\ line' = line
    BY <1>7 DEF Connect, vars, startupIntegrityClassMask
  <2>2. "class0" \in request'.classes
    BY <2>1 DEF Classes
  <2> QED
    BY <2>1, <2>2 DEF LinkOK
<1>8. CASE \E classes \in {Classes, {"class1"}, {"class2"}} : ScanClasses(classes)
  <2>1. /\ ~request'.startup /\ connected' /\ outstation_' = outstation_ /\ line' = line
        /\ connected
    BY <1>8 DEF ScanClasses, vars
  <2> QED
    BY <2>1 DEF LinkOK
<1> QED
  BY <1>1, <1>2, <1>3, <1>4, <1>5, <1>6, <1>7, <1>8 DEF ViewNext, Kinds, PointsOfKind

-----------------------------------------------------------------------------
(* Updates *)

\* An update gives its point a value.  The last event of the point is then that
\* value, or the one it was; the other points keep theirs.
LEMMA UpdateOfPoint ==
    ASSUME EventsInv, NEW kind \in Kinds, NEW i \in PointsOfKind(kind), Update(kind, i)
    PROVE  /\ Static(kind, i)' # NoPoint /\ LastEvent(kind, i)' # NoPoint
           /\ IF mode' = "Suppress"
              THEN LastEvent(kind, i)' = LastEvent(kind, i)
              ELSE Static(kind, i)' = LastEvent(kind, i)'
           /\ \A other \in Kinds : \A j \in PointsOfKind(other) : other # kind \/ j # i =>
                /\ Static(other, j)' = Static(other, j)
                /\ LastEvent(other, j)' = LastEvent(other, j)
<1>1. PICK q \in Updated :
        \/ kind = "analog" /\ \E v \in AnalogValues : updateAnalog(i, v, q)
        \/ kind = "binary" /\ \E v \in BOOLEAN : updateBinary(i, v, q)
  BY DEF Update
<1>2. q \in Qualities
  BY UpdatedAssumption
<1>3. EventsInv'
  BY UpdateIsUpdate, NextPreserves
<1>4. CASE kind = "analog"
  <2>1. PICK v \in AnalogValues : updateAnalog(i, v, q)
    BY <1>1, <1>4
  <2> DEFINE x == [value |-> v, flags |-> toFlagBits(q)]
             e == IsAnalogEvent(analog_state_[i], v, DeadbandOf(i))
  <2>2. x # NoPoint
    BY <1>2, PointTypes
  <2>3. /\ analog_db' = Assign(analog_db, i, x)
        /\ analog_event' = IF e THEN Assign(analog_event, i, x) ELSE analog_event
        /\ mode' = IF e THEN "Force" ELSE "Suppress"
        /\ UNCHANGED <<binary_db, binary_event>>
    BY <2>1 DEF updateAnalog
  <2> HIDE DEF x, e
  <2>4. /\ analog_db \in [AnalogPoints -> PointsOf(AnalogValues)]
        /\ analog_event \in [AnalogPoints -> PointsOf(AnalogValues)]
        /\ i \in AnalogPoints
    BY <1>4 DEF EventsInv, TypeOK, PointsOfKind
  <2>5. /\ analog_db'[i] = x /\ \A j \in AnalogPoints \ {i} : analog_db'[j] = analog_db[j]
        /\ analog_event'[i] = IF e THEN x ELSE analog_event[i]
        /\ \A j \in AnalogPoints \ {i} : analog_event'[j] = analog_event[j]
    BY <2>3, <2>4 DEF Assign
  <2>6. analog_event'[i] # NoPoint
    BY <1>3, <2>2, <2>4, <2>5 DEF EventsInv, AnalogEventsFollow
  <2> QED
    BY <1>4, <2>2, <2>3, <2>4, <2>5, <2>6 DEF Static, LastEvent, PointsOfKind, Kinds
<1>5. CASE kind = "binary"
  <2>1. PICK v \in BOOLEAN : updateBinary(i, v, q)
    BY <1>1, <1>5
  <2> DEFINE x == [value |-> v, flags |-> toFlagBits(q)]
             e == IsBinaryEvent(binary_state_[i], v)
  <2>2. x # NoPoint
    BY <1>2, PointTypes
  <2>3. /\ binary_db' = Assign(binary_db, i, x)
        /\ binary_event' = IF e THEN Assign(binary_event, i, x) ELSE binary_event
        /\ mode' = IF e THEN "Force" ELSE "Suppress"
        /\ UNCHANGED <<analog_db, analog_event>>
    BY <2>1 DEF updateBinary
  <2> HIDE DEF x, e
  <2>4. /\ binary_db \in [BinaryPoints -> PointsOf(BOOLEAN)]
        /\ binary_event \in [BinaryPoints -> PointsOf(BOOLEAN)]
        /\ i \in BinaryPoints
    BY <1>5 DEF EventsInv, TypeOK, PointsOfKind
  <2>5. /\ binary_db'[i] = x /\ \A j \in BinaryPoints \ {i} : binary_db'[j] = binary_db[j]
        /\ binary_event'[i] = IF e THEN x ELSE binary_event[i]
        /\ \A j \in BinaryPoints \ {i} : binary_event'[j] = binary_event[j]
    BY <2>3, <2>4 DEF Assign
  <2>6. binary_event'[i] # NoPoint
    BY <1>3, <2>2, <2>4, <2>5 DEF EventsInv, BinaryEventsFollow
  <2> QED
    BY <1>5, <2>2, <2>3, <2>4, <2>5, <2>6 DEF Static, LastEvent, PointsOfKind, Kinds
<1> QED
  BY <1>4, <1>5 DEF Kinds

\* Only the oldest event of the kind makes room, and the drop is remembered; a
\* kind without room drops every event it gets.
LEMMA BufferStores ==
    ASSUME BufferOK, NEW kind \in Kinds, NEW i, NEW point,
           updates' = updates + 1, Buffer(kind, i, point)
    PROVE  /\ updates' \notin DOMAIN events
           /\ DOMAIN events' \subseteq DOMAIN events \cup {updates'}
           /\ \A k \in DOMAIN events' \ {updates'} : events'[k] = events[k]
           /\ \A k \in DOMAIN events \ DOMAIN events' :
                dropped' /\ \A j \in OfKind(events[k].kind) : k <= j
           /\ updates' \in DOMAIN events' =>
                /\ events'[updates'] = [kind |-> kind, index |-> i, point |-> point,
                                        written |-> FALSE]
                /\ eventBufferConfig[kind] # 0
           /\ updates' \notin DOMAIN events' =>
                dropped' /\ \A k \in DOMAIN events : events[k].kind # kind
<1> DEFINE capacity == eventBufferConfig[kind]
           full == Cardinality(OfKind(kind)) >= capacity
           kept == DOMAIN events \ (IF full THEN Oldest(kind) ELSE {})
           stored == IF capacity = 0 THEN {} ELSE {updates'}
<1>1. /\ events' = [k \in kept \cup stored |->
                        IF k \in kept THEN events[k]
                        ELSE [kind |-> kind, index |-> i, point |-> point,
                              written |-> FALSE]]
      /\ dropped' = (dropped \/ full)
  BY DEF Buffer
<1>2. Cardinality(OfKind(kind)) \in Nat
  <2>1. IsFiniteSet(1 .. updates)
    BY FS_Interval DEF BufferOK
  <2>2. OfKind(kind) \in SUBSET (1 .. updates)
    BY DEF OfKind, BufferOK
  <2> QED
    BY <2>1, <2>2, FS_Subset, FS_CardinalityType
<1>3. updates' \notin DOMAIN events
  BY DEF BufferOK
<1>4. capacity = 0 => full /\ \A k \in DOMAIN events : events[k].kind # kind
  BY <1>2 DEF BufferOK
<1>5. /\ kept \subseteq DOMAIN events
      /\ \A k \in DOMAIN events \ kept :
            full /\ events[k].kind = kind /\ \A j \in OfKind(kind) : k <= j
  BY DEF Oldest, OfKind
<1>6. stored = IF capacity = 0 THEN {} ELSE {updates'}
  OBVIOUS
<1> HIDE DEF kept, stored, full
<1>7. /\ DOMAIN events' = kept \cup stored
      /\ \A k \in kept : events'[k] = events[k]
      /\ \A k \in stored \ kept : events'[k] = [kind |-> kind, index |-> i,
                                               point |-> point, written |-> FALSE]
  BY <1>1
<1> QED
  BY <1>1, <1>3, <1>4, <1>5, <1>6, <1>7

LEMMA BufferKeeps ==
    ASSUME EventsInv, BufferOK, LastIsBuffered, NEW kind \in Kinds,
           NEW i \in PointsOfKind(kind), Update(kind, i), mode' # "Suppress"
    PROVE  /\ BufferOK' /\ LastIsBuffered'
           /\ ~dropped' =>
                /\ \E k \in DOMAIN events' : IsLatest(k, kind, i)' /\ ~events'[k].written
                /\ \A other \in Kinds : \A j \in PointsOfKind(other) :
                    (other # kind \/ j # i) =>
                        \A k \in DOMAIN events :
                            IsLatest(k, other, j) /\ ~events[k].written =>
                                /\ k \in DOMAIN events' /\ IsLatest(k, other, j)'
                                /\ ~events'[k].written
<1> DEFINE n == updates'
           point == LastEvent(kind, i)'
<1>1. /\ Buffer(kind, i, point) /\ n = updates + 1 /\ outstation_'
  <2>1. n = updates + 1 /\ outstation_'
    <3>1. n = updates + 1
      BY DEF Update
    <3>2. outstation_ /\ outstation_' = outstation_
      BY DEF Update, updateAnalog, updateBinary
    <3> QED
      BY <3>1, <3>2
  <2>3. Buffer(kind, i, IF kind = "analog" THEN analog_db'[i] ELSE binary_db'[i])
    BY DEF Update
  <2>2. point = IF kind = "analog" THEN analog_db'[i] ELSE binary_db'[i]
    BY UpdateOfPoint DEF Static
  <2> QED
    BY <2>1, <2>2, <2>3
<1> HIDE DEF n, point
<1>2. /\ n \notin DOMAIN events
      /\ DOMAIN events' \subseteq DOMAIN events \cup {n}
      /\ \A k \in DOMAIN events' \ {n} : events'[k] = events[k]
      /\ \A k \in DOMAIN events \ DOMAIN events' :
            dropped' /\ \A j \in OfKind(events[k].kind) : k <= j
      /\ n \in DOMAIN events' =>
            /\ events'[n] = [kind |-> kind, index |-> i, point |-> point,
                             written |-> FALSE]
            /\ eventBufferConfig[kind] # 0
      /\ n \notin DOMAIN events' =>
            dropped' /\ \A k \in DOMAIN events : events[k].kind # kind
  BY <1>1, BufferStores DEF n
<1>3. n \in DOMAIN events' =>
        /\ events'[n].kind = kind /\ events'[n].index = i /\ events'[n].point = point
        /\ ~events'[n].written
  BY <1>2
<1>4. \A k \in DOMAIN events : k \in 1 .. updates /\ k \in Int /\ k < n
  BY <1>1 DEF BufferOK
<1>5. updates \in Nat /\ n \in Nat
  BY <1>1 DEF BufferOK
<1>6. BufferOK'
  <2>1. DOMAIN events' \subseteq 1 .. n
    BY <1>1, <1>2, <1>4, <1>5
  <2>2. ASSUME NEW k \in DOMAIN events'
        PROVE  /\ events'[k] = [kind |-> events'[k].kind, index |-> events'[k].index,
                                point |-> events'[k].point, written |-> events'[k].written]
               /\ events'[k].kind \in Kinds /\ eventBufferConfig[events'[k].kind] # 0
    <3>1. CASE k = n
      BY <1>2, <1>3, <3>1
    <3>2. CASE k # n
      BY <1>2, <3>2 DEF BufferOK
    <3> QED
      BY <3>1, <3>2
  <2>3. ASSUME NEW k \in DOMAIN events', NEW j \in DOMAIN events', j < k,
               events'[j].kind = events'[k].kind, events'[k].written
        PROVE  events'[j].written
    <3>1. k # n /\ k \in DOMAIN events
      BY <1>2, <1>3, <2>3
    <3>2. j # n /\ j \in DOMAIN events
      BY <1>2, <1>4, <1>5, <2>3, <3>1
    <3> QED
      BY <1>2, <2>3, <3>1, <3>2 DEF BufferOK
  <2> QED
    BY <1>1, <1>5, <2>1, <2>2, <2>3 DEF BufferOK, n
<1>7. ASSUME NEW other \in Kinds, NEW j \in PointsOfKind(other), other # kind \/ j # i
      PROVE  EventsOf(events', other, j) = EventsOf(events, other, j) \cap DOMAIN events'
  BY <1>2, <1>3, <1>7 DEF EventsOf
<1>8. ASSUME n \in DOMAIN events'
      PROVE  \E k \in DOMAIN events' : k = n /\ IsLatest(k, kind, i)'
  <2>1. \A k \in DOMAIN events' : k <= n
    BY <1>2, <1>4, <1>5
  <2>2. n \in EventsOf(events', kind, i)
    BY <1>3, <1>8 DEF EventsOf
  <2>3. \A k \in EventsOf(events', kind, i) : k <= n
    BY <2>1 DEF EventsOf
  <2> QED
    BY <1>8, <2>2, <2>3 DEF IsLatest
<1>9. ASSUME NEW other \in Kinds, NEW j \in PointsOfKind(other), other # kind \/ j # i,
             NEW k, IsLatest(k, other, j), k \in DOMAIN events'
      PROVE  IsLatest(k, other, j)'
  BY <1>7, <1>9 DEF IsLatest
<1>10. LastIsBuffered'
  <2> SUFFICES ASSUME NEW other \in Kinds, NEW j \in PointsOfKind(other),
                      EventsOf(events', other, j) # {}
               PROVE  \E k \in DOMAIN events' :
                        IsLatest(k, other, j)' /\ events'[k].point = LastEvent(other, j)'
    BY DEF LastIsBuffered
  <2>1. CASE other = kind /\ j = i
    <3>1. n \in DOMAIN events'
      BY <1>2, <2>1 DEF EventsOf
    <3> QED
      BY <1>3, <1>8, <2>1, <3>1 DEF point
  <2>2. CASE other # kind \/ j # i
    <3>1. PICK x : x \in EventsOf(events, other, j) /\ x \in DOMAIN events'
      BY <1>7, <2>2
    <3>2. PICK k \in DOMAIN events :
              IsLatest(k, other, j) /\ events[k].point = LastEvent(other, j)
      BY <3>1 DEF LastIsBuffered
    <3>3. k \in DOMAIN events'
      <4> SUFFICES ASSUME k \notin DOMAIN events' PROVE FALSE
        OBVIOUS
      <4>1. x \in OfKind(events[k].kind) /\ x <= k /\ x \in Int /\ k \in Int
        BY <1>4, <3>1, <3>2 DEF OfKind, EventsOf, IsLatest
      <4>2. k <= x
        BY <1>2, <3>2, <4>1
      <4> QED
        BY <3>1, <4>1, <4>2
    <3>4. events'[k] = events[k]
      BY <1>2, <3>2, <3>3
    <3> QED
      BY <1>9, <2>2, <3>2, <3>3, <3>4, UpdateOfPoint
  <2> QED
    BY <2>1, <2>2
<1>11. ASSUME ~dropped'
       PROVE  n \in DOMAIN events' /\ DOMAIN events \subseteq DOMAIN events'
  BY <1>2, <1>11
<1> QED
  BY <1>2, <1>3, <1>6, <1>8, <1>9, <1>10, <1>11

\* An update keeps the master's picture true, or leaves its event in the buffer.
LEMMA UpdateKeeps ==
    ASSUME ViewInv, NEW kind \in Kinds, NEW i \in PointsOfKind(kind), Update(kind, i)
    PROVE  BufferOK' /\ LastIsBuffered' /\ PictureOrBuffer' /\ ValueHasEvent'
<1> USE DEF ViewInv
<1>1. ValueHasEvent'
  BY UpdateOfPoint DEF ValueHasEvent, Static, LastEvent, PointsOfKind, Kinds
<1>2. /\ Picture' = Picture /\ (Polled' <=> Polled)
      /\ updates' = updates + 1 /\ outstation_' = outstation_ /\ outstation_
  BY DEF Update, linkVars, Picture, Polled, Shown, Process, updateAnalog, updateBinary
<1>3. \A other \in Kinds : \A j \in PointsOfKind(other) : \A p :
        LastEvent(other, j)' = LastEvent(other, j) =>
            (Tells(other, j, p)' <=> Tells(other, j, p))
  BY DEF Tells, LastEvent, Within
<1>4. CASE mode' = "Suppress"
  <2>1. /\ UNCHANGED <<events, dropped>>
        /\ \A other \in Kinds : \A j \in PointsOfKind(other) :
                LastEvent(other, j)' = LastEvent(other, j)
    BY <1>4, UpdateOfPoint DEF Update
  <2>2. \A k, other, j : IsLatest(k, other, j)' <=> IsLatest(k, other, j)
    BY <2>1 DEF IsLatest, EventsOf
  <2>3. BufferOK'
    BY <1>2, <2>1 DEF BufferOK
  <2>4. LastIsBuffered'
    BY <2>1, <2>2 DEF LastIsBuffered
  <2>5. PictureOrBuffer'
    BY <1>2, <1>3, <2>1, <2>2 DEF PictureOrBuffer
  <2> QED
    BY <1>1, <2>3, <2>4, <2>5
<1>5. CASE mode' # "Suppress"
  <2>1. BufferOK' /\ LastIsBuffered'
    BY <1>5, BufferKeeps
  <2>2. ASSUME Polled', ~dropped', NEW other \in Kinds, NEW j \in PointsOfKind(other)
        PROVE  \/ Tells(other, j, Picture[other][j])'
               \/ \E k \in DOMAIN events' : IsLatest(k, other, j)' /\ ~events'[k].written
    <3>1. CASE other = kind /\ j = i
      BY <1>5, <2>2, <3>1, BufferKeeps
    <3>2. CASE other # kind \/ j # i
      <4>1. ~dropped
        BY <1>5, <2>2 DEF Update, Buffer
      <4>2. \/ Tells(other, j, Picture[other][j])
            \/ \E k \in DOMAIN events : IsLatest(k, other, j) /\ ~events[k].written
        BY <1>2, <2>2, <4>1 DEF PictureOrBuffer
      <4>3. LastEvent(other, j)' = LastEvent(other, j)
        BY <3>2, UpdateOfPoint
      <4> QED
        BY <1>2, <1>3, <1>5, <2>2, <3>2, <4>2, <4>3, BufferKeeps
    <3> QED
      BY <3>1, <3>2
  <2> QED
    BY <1>1, <2>1, <2>2 DEF PictureOrBuffer
<1> QED
  BY <1>4, <1>5

-----------------------------------------------------------------------------
(* The invariant *)

LEMMA ViewInitEstablishes == ViewInit => ViewInv
<1> SUFFICES ASSUME ViewInit PROVE ViewInv
  OBVIOUS
<1>1. EventsInv
  BY InitEstablishes DEF ViewInit
<1>2. ~connected /\ request = Nothing /\ line = <<>> /\ ~fresh /\ DOMAIN events = {}
  BY DEF ViewInit
<1>3. LinkOK
  BY <1>2 DEF LinkOK
<1>4. BufferOK
  BY <1>2 DEF ViewInit, BufferOK
<1>5. ValueHasEvent
  BY DEF ViewInit, Init, ValueHasEvent, Static, LastEvent, PointsOfKind
<1>6. LastIsBuffered
  BY <1>2 DEF LastIsBuffered, EventsOf
<1>7. PictureOrBuffer
  BY <1>2 DEF PictureOrBuffer, Polled
<1> QED
  BY <1>1, <1>3, <1>4, <1>5, <1>6, <1>7 DEF ViewInv

\* Nothing that the outstation, the network or the master does breaks it.
LEMMA ViewNextPreserves == ViewInv /\ [ViewNext]_<<vars, viewVars>> => ViewInv'
<1> SUFFICES ASSUME ViewInv, [ViewNext]_<<vars, viewVars>> PROVE ViewInv'
  OBVIOUS
<1>1. EventsInv'
  BY StepOfOutstation, NextPreserves DEF ViewInv
<1>2. CASE UNCHANGED <<vars, viewVars>>
  <2>1. UNCHANGED <<events, line, view, fresh, dropped, updates, connected, request>>
    BY <1>2 DEF viewVars, linkVars
  <2>2. /\ \A k, kind, i : IsLatest(k, kind, i)' <=> IsLatest(k, kind, i)
        /\ LastIsBuffered'
    BY <1>2, <2>1, SameEvents DEF ViewInv
  <2>3. LinkOK' /\ BufferOK' /\ ValueHasEvent'
    BY <1>2, <2>1, QuietOutstation DEF ViewInv, LinkOK, BufferOK
  <2>4. Picture' = Picture /\ (Polled' <=> Polled)
    BY <2>1 DEF Picture, Polled, Shown, Process
  <2>5. PictureOrBuffer'
    BY <1>2, <2>1, <2>2, <2>4, QuietOutstation DEF ViewInv, PictureOrBuffer
  <2> QED
    BY <1>1, <2>2, <2>3, <2>5 DEF ViewInv
<1>3. CASE ViewNext
  <2>1. LinkOK'
    BY <1>3, LinkKept DEF ViewInv
  <2>2. CASE \E kind \in Kinds : \E i \in PointsOfKind(kind) : Update(kind, i)
    BY <1>1, <2>1, <2>2, UpdateKeeps DEF ViewInv
  <2>3. CASE StartOutstation \/ ShutDownOutstation
    BY <1>1, <2>1, <2>3, StartShutdownKeeps DEF ViewInv
  <2>4. CASE Respond \/ SendUnsolicited
    <3>1. PICK classes, startup :
            Send(classes, startup) /\ (startup => "class0" \in classes)
      BY <2>4, ResponseIsSent DEF ViewInv
    <3>2. UNCHANGED <<vars, view, fresh, updates>> /\ line = <<>>
      BY <2>4 DEF Respond, SendUnsolicited
    <3>3. ValueHasEvent'
      BY <3>2, QuietOutstation DEF ViewInv
    <3> QED
      BY <1>1, <2>1, <3>1, <3>2, <3>3, SendKeeps DEF ViewInv
  <2>5. CASE Confirmed \/ ConfirmTimesOut \/ ConnectionBreaks \/ Connect \/ Receive
             \/ \E classes \in {Classes, {"class1"}, {"class2"}} : ScanClasses(classes)
    <3>1. UNCHANGED vars
      BY <2>5 DEF Confirmed, ConfirmTimesOut, ConnectionBreaks, Connect, Receive,
         ScanClasses
    <3>2. ValueHasEvent'
      BY <3>1, QuietOutstation DEF ViewInv
    <3> QED
      BY <1>1, <2>1, <2>5, <3>2, ConfirmedKeeps, FaultKeeps, MasterKeeps DEF ViewInv
  <2> QED
    BY <1>3, <2>2, <2>3, <2>4, <2>5 DEF ViewNext, Kinds, PointsOfKind
<1> QED
  BY <1>2, <1>3

\* The inductive invariant holds in every reachable state of the composition.
THEOREM ViewInvariant == ViewSpec => []ViewInv
  BY ViewInitEstablishes, ViewNextPreserves, PTL DEF ViewSpec

\* Two values near a third are near each other.
LEMMA WithinTwice ==
    ASSUME NEW x, NEW y, NEW z, NEW d \in Int, Within(x, z, d), Within(y, z, d)
    PROVE  Within(x, y, 2 * d)
<1>1. CASE z \in FiniteValues
  <2>1. x \in FiniteValues /\ y \in FiniteValues
    BY <1>1 DEF Within
  <2>2. x \in Int /\ y \in Int /\ z \in Int
    BY <1>1, <2>1, ValuesAssumption
  <2> QED
    BY <2>1, <2>2 DEF Within, Distance
<1>2. CASE z \notin FiniteValues
  BY <1>2 DEF Within
<1> QED
  BY <1>1, <1>2

\* When everything was told, SCADA sees the present binary values, and analog
\* values within twice the deadband; of a point without a value it sees that.
THEOREM ViewFollowsOutstation == ViewSpec => []ViewFollows
<1>1. ViewInv => ViewFollows
  <2> SUFFICES ASSUME ViewInv, Settled PROVE ViewFollows
    BY DEF ViewFollows
  <2>1. \A kind \in Kinds : \A i \in PointsOfKind(kind) : Tells(kind, i, view[kind][i])
    <3>1. Polled /\ ~dropped /\ Picture = view
      BY DEF Settled, Polled, Picture
    <3>2. \A k, kind, i : ~IsLatest(k, kind, i)
      BY DEF Settled, IsLatest, EventsOf
    <3> QED
      BY <3>1, <3>2 DEF ViewInv, PictureOrBuffer
  <2>2. ASSUME NEW i \in AnalogPoints
        PROVE  IF analog_db[i] = NoPoint \/ view.analog[i] \in {Nothing, NoPoint}
               THEN view.analog[i] = analog_db[i]
               ELSE Within(analog_db[i].value, view.analog[i].value, 2 * Deadband[i])
    <3>1. /\ Tells("analog", i, view.analog[i])
          /\ analog_db[i] = NoPoint <=> analog_event[i] = NoPoint
      BY <2>1 DEF ViewInv, ValueHasEvent, Static, LastEvent, Kinds, PointsOfKind
    <3>2. analog_event[i] = NoPoint => view.analog[i] = NoPoint
      BY <3>1 DEF Tells, LastEvent
    <3>3. analog_event[i] # NoPoint =>
            /\ view.analog[i] \notin {Nothing, NoPoint}
            /\ Within(view.analog[i].value, analog_event[i].value, Deadband[i])
      BY <3>1 DEF Tells, LastEvent
    <3>4. analog_db[i] # NoPoint =>
            Within(analog_db[i].value, analog_event[i].value, Deadband[i])
      BY DEF ViewInv, EventsInv, AnalogEventsFollow
    <3>5. Deadband[i] \in Int
      BY DeadbandAssumption
    <3> QED
      BY <3>1, <3>2, <3>3, <3>4, <3>5, WithinTwice
  <2>3. ASSUME NEW i \in BinaryPoints
        PROVE  IF binary_db[i] = NoPoint \/ view.binary[i] \in {Nothing, NoPoint}
               THEN view.binary[i] = binary_db[i]
               ELSE view.binary[i].value = binary_db[i].value
    <3>1. /\ Tells("binary", i, view.binary[i])
          /\ binary_db[i] = NoPoint <=> binary_event[i] = NoPoint
      BY <2>1 DEF ViewInv, ValueHasEvent, Static, LastEvent, Kinds, PointsOfKind
    <3>2. binary_event[i] = NoPoint => view.binary[i] = NoPoint
      BY <3>1 DEF Tells, LastEvent
    <3>3. binary_event[i] # NoPoint =>
            /\ view.binary[i] \notin {Nothing, NoPoint}
            /\ view.binary[i].value = binary_event[i].value
      BY <3>1 DEF Tells, LastEvent
    <3>4. binary_db[i] # NoPoint => binary_event[i].value = binary_db[i].value
      BY DEF ViewInv, EventsInv, BinaryEventsFollow
    <3> QED
      BY <3>1, <3>2, <3>3, <3>4
  <2> QED
    BY <2>2, <2>3 DEF ViewFollows
<1> QED
  BY <1>1, ViewInvariant, PTL

=============================================================================
