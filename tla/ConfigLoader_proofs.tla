-------------------------- MODULE ConfigLoader_proofs --------------------------
(***************************************************************************)
(* Proofs about ConfigLoader and PointDatabase, for any file, environment, *)
(* sections, fields and widths: the settings that take effect, the         *)
(* database that overlapping entries make, and the summary of it.          *)
(***************************************************************************)
EXTENDS ConfigLoader, TLAPS

LEMMA MaxIs ==
    ASSUME NEW S \in SUBSET Int, NEW m \in S, \A x \in S : x <= m
    PROVE  Max(S) = m
<1>1. m \in S /\ \A y \in S : m >= y
  OBVIOUS
<1>2. \A x \in S : (\A y \in S : x >= y) => x = m
  <2> SUFFICES ASSUME NEW x \in S, \A y \in S : x >= y PROVE x = m
    OBVIOUS
  <2>1. x >= m /\ x <= m /\ x \in Int /\ m \in Int
    OBVIOUS
  <2> QED
    BY <2>1
<1>3. \E x \in S : \A y \in S : x >= y
  BY <1>1
<1> QED
  BY <1>2, <1>3 DEF Max

LEMMA SmallMod == ASSUME NEW a \in Nat, NEW b \in Nat, a < b PROVE a % b = a
OBVIOUS

-----------------------------------------------------------------------------
(* PointDatabase: the position in the loops *)

LEMMA LoopsKept ==
    ASSUME DatabaseInv, Next
    PROVE  ConfigOK' /\ LoopsOK'
<1>1. cfg' = cfg
  BY DEF Next, validatePointDatabase, configureDefaultDatabase, NextEntry,
     ConfigurePoint, RangeDone
<1>2. /\ ConfigOK'
      /\ Empty' <=> Empty
      /\ \A s \in 1 .. Len(Sections) : checkSection(s)' <=> checkSection(s)
  BY <1>1 DEF DatabaseInv, ConfigOK, Empty, checkSection
<1>3. /\ Len(Sections) \in Nat /\ IndexRange \in Nat \ {0} /\ CounterRange \in Nat
      /\ IndexRange < CounterRange
  BY SectionsAssumption, WidthAssumption
<1>4. LoopsOK
  BY DEF DatabaseInv
<1>5. \A s \in 1 .. Len(Sections) : Len(cfg[s]) \in Nat
  BY DEF DatabaseInv, ConfigOK
<1>6. CASE validatePointDatabase
  <2>1. /\ phase = "validate" /\ UNCHANGED <<section, entry, i, db, fellBack>>
        /\ phase' = IF \A s \in 1 .. Len(Sections) : checkSection(s)
                    THEN "entry" ELSE "rejected"
    BY <1>6 DEF validatePointDatabase
  <2> QED
    BY <1>1, <1>2, <1>4, <2>1 DEF LoopsOK
<1>7. CASE configureDefaultDatabase
  <2>1. /\ phase = "entry" /\ Empty /\ phase' = "done"
        /\ UNCHANGED <<section, entry, i, fellBack>>
    BY <1>7 DEF configureDefaultDatabase
  <2> QED
    BY <1>1, <1>2, <1>4, <2>1 DEF LoopsOK
<1>8. CASE NextEntry
  <2>1. /\ UNCHANGED <<db, fellBack>> /\ phase = "entry" /\ ~Empty
        /\ section \in 1 .. Len(Sections) + 1 /\ entry \in Nat \ {0}
        /\ i \in 0 .. IndexRange
    BY <1>4, <1>8 DEF NextEntry, LoopsOK
  <2>2. CASE section > Len(Sections) /\ phase' = "done" /\ UNCHANGED <<section, entry, i>>
    <3>1. section' = Len(Sections) + 1 /\ section = section'
      BY <1>3, <2>1, <2>2
    <3> QED
      BY <1>1, <1>2, <1>3, <1>4, <2>1, <2>2, <3>1 DEF LoopsOK
  <2>3. CASE section <= Len(Sections) /\ entry > Len(cfg[section])
             /\ section' = section + 1 /\ entry' = 1 /\ UNCHANGED <<phase, i>>
    <3>1. section' \in 1 .. Len(Sections) + 1
      BY <1>3, <2>1, <2>3
    <3>2. section' <= Len(Sections) => 1 <= Len(cfg[section']) + 1
      <4>1. section' <= Len(Sections) => section' \in 1 .. Len(Sections)
        BY <1>3, <3>1
      <4> QED
        BY <1>5, <4>1
    <3> QED
      BY <1>1, <1>2, <1>3, <1>4, <2>1, <2>3, <3>1, <3>2 DEF LoopsOK
  <2>4. CASE section <= Len(Sections) /\ entry <= Len(cfg[section])
             /\ i' = cfg[section][entry].start /\ phase' = "range"
             /\ UNCHANGED <<section, entry>>
    <3>1. section \in 1 .. Len(Sections)
      BY <1>3, <2>1, <2>4
    <3>2. entry \in 1 .. Len(cfg[section])
      BY <1>5, <2>1, <2>4, <3>1
    <3>3. /\ cfg[section][entry].start \in 0 .. IndexRange - 1
          /\ cfg[section][entry].end \in 0 .. IndexRange - 1
      BY <3>1, <3>2 DEF DatabaseInv, ConfigOK
    <3>4. cfg[section][entry].start <= cfg[section][entry].end
      <4>1. checkSection(section)
        BY <1>4, <2>1, <3>1 DEF LoopsOK
      <4> QED
        BY <3>2, <4>1 DEF checkSection, checkRange
    <3>5. /\ i' \in 0 .. IndexRange /\ i' >= cfg[section][entry].start
          /\ i' <= cfg[section][entry].end + 1
      BY <1>3, <2>4, <3>3, <3>4
    <3> QED
      BY <1>1, <1>2, <1>4, <2>1, <2>4, <3>5 DEF LoopsOK
  <2> QED
    BY <1>8, <2>2, <2>3, <2>4 DEF NextEntry
<1>9. CASE ConfigurePoint
  <2>1. /\ phase = "range" /\ i <= cfg[section][entry].end
        /\ UNCHANGED <<phase, section, entry>>
        /\ section \in 1 .. Len(Sections) + 1 /\ section <= Len(Sections)
        /\ entry \in Nat \ {0} /\ entry <= Len(cfg[section]) /\ i \in 0 .. IndexRange
        /\ i >= cfg[section][entry].start
    BY <1>4, <1>9 DEF ConfigurePoint, LoopsOK
  <2>2. section \in 1 .. Len(Sections)
    BY <1>3, <2>1
  <2>3. entry \in 1 .. Len(cfg[section])
    BY <1>5, <2>1, <2>2
  <2>4. /\ cfg[section][entry].start \in 0 .. IndexRange - 1
        /\ cfg[section][entry].end \in 0 .. IndexRange - 1
    BY <2>2, <2>3 DEF DatabaseInv, ConfigOK
  <2>5. i' = i + 1 /\ i' \in 0 .. IndexRange
    <3>1. i + 1 \in 0 .. CounterRange - 1 /\ i + 1 \in 0 .. IndexRange
      BY <1>3, <2>1, <2>4
    <3> QED
      BY <1>3, <1>9, <3>1, SmallMod DEF ConfigurePoint, Count
  <2>6. fellBack' = FALSE
    <3>1. checkSection(section) /\ fellBack = FALSE
      BY <1>4, <2>1, <2>2 DEF LoopsOK
    <3>2. \A f \in Fields[section] \cap EnumFields :
            checkEnum(f, cfg[section][entry].set[f])
      BY <2>3, <3>1 DEF checkSection
    <3> QED
      BY <1>9, <3>1, <3>2 DEF ConfigurePoint, checkEnum
  <2>7. i' >= cfg[section][entry].start /\ i' <= cfg[section][entry].end + 1
    BY <1>3, <2>1, <2>4, <2>5
  <2> QED
    BY <1>1, <1>2, <1>4, <2>1, <2>5, <2>6, <2>7 DEF LoopsOK
<1>10. CASE RangeDone
  <2>1. /\ phase = "range" /\ phase' = "entry" /\ entry' = entry + 1
        /\ UNCHANGED <<section, i, db, fellBack>>
        /\ section \in 1 .. Len(Sections) + 1 /\ section <= Len(Sections)
        /\ entry \in Nat \ {0} /\ entry <= Len(cfg[section])
    BY <1>4, <1>10 DEF RangeDone, LoopsOK
  <2>2. Len(cfg[section]) \in Nat
    <3>1. section \in 1 .. Len(Sections)
      BY <1>3, <2>1
    <3> QED
      BY <1>5, <3>1
  <2>3. entry' \in Nat \ {0} /\ entry' <= Len(cfg[section]) + 1
    BY <2>1, <2>2
  <2> QED
    BY <1>1, <1>2, <1>4, <2>1, <2>3 DEF LoopsOK
<1> QED
  BY <1>2, <1>6, <1>7, <1>8, <1>9, <1>10 DEF Next

-----------------------------------------------------------------------------
(* PointDatabase: what has been built *)

\* A step that lays nothing changes nothing that is built.
LEMMA BuiltUnchanged ==
    ASSUME BuiltSoFar, ~(phase = "done" /\ Empty), UNCHANGED <<cfg, db>>,
           \A s \in 1 .. Len(Sections) : \A k \in 1 .. Len(cfg[s]) :
                \A j \in 0 .. IndexRange - 1 : Laid(s, k, j)' <=> Laid(s, k, j)
    PROVE  BuiltSoFar'
<1>1. \A s \in 1 .. Len(Sections), j \in 0 .. IndexRange - 1, f \in DOMAIN Initial :
        SettersSoFar(s, j, f)' = SettersSoFar(s, j, f)
  BY DEF SettersSoFar
<1>2. /\ DOMAIN db = 1 .. Len(Sections)
      /\ \A s \in 1 .. Len(Sections) :
            DOMAIN db[s] = {j \in 0 .. IndexRange - 1 :
                                \E k \in 1 .. Len(cfg[s]) : Laid(s, k, j)}
  BY DEF BuiltSoFar
<1>3. \A s \in 1 .. Len(Sections) :
        {j \in 0 .. IndexRange - 1 : \E k \in 1 .. Len(cfg[s]) : Laid(s, k, j)'}
            = DOMAIN db[s]
  BY <1>2
<1>4. \A s \in 1 .. Len(Sections) : \A j \in DOMAIN db[s] :
        /\ DOMAIN db[s][j] = DOMAIN Initial
        /\ \A f \in DOMAIN Initial :
            db[s][j][f] = IF SettersSoFar(s, j, f)' = {} THEN Initial[f]
                          ELSE cfg[s][Max(SettersSoFar(s, j, f)')].set[f]
  BY <1>1, <1>2 DEF BuiltSoFar
<1> QED
  BY <1>2, <1>3, <1>4 DEF BuiltSoFar

LEMMA PositionBuilds ==
    ASSUME DatabaseInv, validatePointDatabase \/ NextEntry \/ RangeDone
    PROVE  BuiltSoFar'
<1> USE SectionsAssumption, WidthAssumption
<1>1. ~(phase = "done" /\ Empty) /\ UNCHANGED <<cfg, db>>
  BY DEF validatePointDatabase, NextEntry, RangeDone
<1>2. ASSUME NEW s \in 1 .. Len(Sections), NEW k \in 1 .. Len(cfg[s]),
             NEW j \in 0 .. IndexRange - 1
      PROVE  Laid(s, k, j)' <=> Laid(s, k, j)
  <2>1. /\ Covers(cfg[s][k], j)' <=> Covers(cfg[s][k], j)
        /\ Covers(cfg[s][k], j) <=> cfg[s][k].start <= j /\ j <= cfg[s][k].end
        /\ cfg[s][k].start \in Int /\ cfg[s][k].end \in Int
        /\ section \in Int /\ entry \in Nat \ {0} /\ i \in Int
        /\ Len(cfg[s]) \in Nat
    BY <1>1 DEF Covers, DatabaseInv, LoopsOK, ConfigOK
  <2>2. CASE validatePointDatabase
    BY <2>1, <2>2 DEF validatePointDatabase, Laid, DatabaseInv, LoopsOK
  <2>3. CASE NextEntry
    BY <2>1, <2>3 DEF NextEntry, Laid, DatabaseInv, LoopsOK
  <2>4. CASE RangeDone
    <3>1. /\ phase = "range" /\ phase' = "entry" /\ entry' = entry + 1
          /\ section' = section /\ i > cfg[section][entry].end
      BY <2>4 DEF RangeDone
    <3>2. s = section /\ k = entry => (Covers(cfg[s][k], j) => j < i)
      BY <2>1, <3>1
    <3>3. k < entry' <=> k < entry \/ k = entry
      BY <2>1, <3>1
    <3> QED
      BY <2>1, <3>1, <3>2, <3>3 DEF Laid
  <2> QED
    BY <2>2, <2>3, <2>4
<1> QED
  BY <1>1, <1>2, BuiltUnchanged DEF DatabaseInv

\* The body of the loop lays one entry over one point.
LEMMA ConfigurePointBuilds ==
    ASSUME DatabaseInv, ConfigurePoint, NEW s0, NEW k0, NEW n,
           s0 = section, k0 = entry, n = i
    PROVE  BuiltSoFar'
<1> DEFINE pc == cfg[s0][k0]
           point == Overlay(PointAt(s0, n), s0, pc)
<1>1. /\ Len(Sections) \in Nat /\ IndexRange \in Nat \ {0} /\ CounterRange \in Nat
      /\ IndexRange < CounterRange
  BY SectionsAssumption, WidthAssumption
<1>2. /\ s0 \in 1 .. Len(Sections) /\ Len(cfg[s0]) \in Nat /\ k0 \in 1 .. Len(cfg[s0])
      /\ phase = "range" /\ phase' = "range" /\ n <= pc.end
      /\ UNCHANGED <<cfg, section, entry>>
  BY <1>1 DEF ConfigurePoint, DatabaseInv, ConfigOK, LoopsOK
<1>3. /\ pc.start \in 0 .. IndexRange - 1 /\ pc.end \in 0 .. IndexRange - 1
      /\ n \in 0 .. IndexRange - 1 /\ n >= pc.start
  BY <1>1, <1>2 DEF DatabaseInv, ConfigOK, LoopsOK
<1>4. n % IndexRange = n /\ i' = n + 1
  <2>1. n \in Nat /\ n + 1 \in Nat /\ n < IndexRange /\ n + 1 < CounterRange
    BY <1>1, <1>3
  <2> QED
    BY <1>1, <2>1, SmallMod DEF ConfigurePoint, Count
<1>5. db' = [db EXCEPT ![s0] =
                [j \in DOMAIN db[s0] \cup {n} |-> IF j = n THEN point ELSE db[s0][j]]]
  BY <1>4 DEF ConfigurePoint
<1>6. checkSection(s0)
  BY <1>2 DEF DatabaseInv, LoopsOK
<1>7. /\ DOMAIN db = 1 .. Len(Sections)
      /\ \A s \in 1 .. Len(Sections) :
            /\ DOMAIN db[s] = {j \in 0 .. IndexRange - 1 :
                                \E k \in 1 .. Len(cfg[s]) : Laid(s, k, j)}
            /\ \A j \in DOMAIN db[s] :
                /\ DOMAIN db[s][j] = DOMAIN Initial
                /\ \A f \in DOMAIN Initial :
                    db[s][j][f] =
                        IF SettersSoFar(s, j, f) = {} THEN Initial[f]
                        ELSE cfg[s][Max(SettersSoFar(s, j, f))].set[f]
  BY <1>2 DEF DatabaseInv, BuiltSoFar
<1>8. \A s \in 1 .. Len(Sections) : \A k \in 1 .. Len(cfg[s]) : \A j \in 0 .. IndexRange - 1 :
        Laid(s, k, j)' <=> Laid(s, k, j) \/ (s = s0 /\ k = k0 /\ j = n)
  <2> SUFFICES ASSUME NEW s \in 1 .. Len(Sections), NEW k \in 1 .. Len(cfg[s]),
                      NEW j \in 0 .. IndexRange - 1
               PROVE  Laid(s, k, j)' <=> Laid(s, k, j) \/ (s = s0 /\ k = k0 /\ j = n)
    OBVIOUS
  <2>1. Covers(cfg[s][k], j)' <=> Covers(cfg[s][k], j)
    BY <1>2 DEF Covers
  <2>2. Covers(pc, n)
    BY <1>2, <1>3 DEF Covers
  <2>3. j < i' <=> j < n \/ j = n
    BY <1>1, <1>3, <1>4
  <2> QED
    BY <1>2, <2>1, <2>2, <2>3 DEF Laid
<1>9. \A k \in 1 .. Len(cfg[s0]) : Laid(s0, k, n) => k < k0
  BY <1>1, <1>2, <1>3 DEF Laid
<1>10. \A s \in 1 .. Len(Sections), j \in 0 .. IndexRange - 1, f \in DOMAIN Initial :
        SettersSoFar(s, j, f)' =
            IF s = s0 /\ j = n /\ f \in Fields[s0] /\ pc.set[f] # Unset
            THEN SettersSoFar(s, j, f) \cup {k0} ELSE SettersSoFar(s, j, f)
  <2> SUFFICES ASSUME NEW s \in 1 .. Len(Sections), NEW j \in 0 .. IndexRange - 1,
                      NEW f \in DOMAIN Initial
               PROVE  SettersSoFar(s, j, f)' =
                        IF s = s0 /\ j = n /\ f \in Fields[s0] /\ pc.set[f] # Unset
                        THEN SettersSoFar(s, j, f) \cup {k0} ELSE SettersSoFar(s, j, f)
    OBVIOUS
  <2>1. cfg' = cfg
    BY <1>2
  <2>2. SettersSoFar(s, j, f)' =
            {k \in 1 .. Len(cfg[s]) : /\ f \in Fields[s]
                                      /\ Laid(s, k, j) \/ (s = s0 /\ k = k0 /\ j = n)
                                      /\ cfg[s][k].set[f] # Unset}
    BY <1>8, <2>1 DEF SettersSoFar
  <2> QED
    BY <1>2, <2>2 DEF SettersSoFar
\* The new point.
<1>11. /\ DOMAIN PointAt(s0, n) = DOMAIN Initial
       /\ \A f \in DOMAIN Initial :
            PointAt(s0, n)[f] = IF SettersSoFar(s0, n, f) = {} THEN Initial[f]
                                ELSE cfg[s0][Max(SettersSoFar(s0, n, f))].set[f]
  <2>1. CASE n \in DOMAIN db[s0]
    BY <1>2, <1>7, <2>1 DEF PointAt
  <2>2. CASE n \notin DOMAIN db[s0]
    <3>1. \A k \in 1 .. Len(cfg[s0]) : ~Laid(s0, k, n)
      BY <1>2, <1>3, <1>7, <2>2
    <3>2. \A f \in DOMAIN Initial : SettersSoFar(s0, n, f) = {}
      BY <3>1 DEF SettersSoFar
    <3> QED
      BY <2>2, <3>2 DEF PointAt
  <2> QED
    BY <2>1, <2>2
<1>12. /\ DOMAIN point = DOMAIN Initial
       /\ \A f \in DOMAIN Initial :
            point[f] = IF SettersSoFar(s0, n, f)' = {} THEN Initial[f]
                       ELSE cfg[s0][Max(SettersSoFar(s0, n, f)')].set[f]
  <2>1. DOMAIN point = DOMAIN Initial
    BY <1>11 DEF Overlay
  <2> SUFFICES ASSUME NEW f \in DOMAIN Initial
               PROVE  point[f] = IF SettersSoFar(s0, n, f)' = {} THEN Initial[f]
                                 ELSE cfg[s0][Max(SettersSoFar(s0, n, f)')].set[f]
    BY <2>1
  <2>2. CASE f \in Fields[s0] /\ pc.set[f] # Unset
    <3>1. SettersSoFar(s0, n, f)' = SettersSoFar(s0, n, f) \cup {k0}
      BY <1>2, <1>3, <1>10, <2>2
    <3>2. SettersSoFar(s0, n, f)' \in SUBSET Int
      BY <1>2, <3>1 DEF SettersSoFar
    <3>3. \A k \in SettersSoFar(s0, n, f)' : k <= k0
      BY <1>1, <1>2, <1>9, <3>1 DEF SettersSoFar
    <3>4. Max(SettersSoFar(s0, n, f)') = k0
      BY <3>1, <3>2, <3>3, MaxIs
    <3>5. f \in EnumFields => toEnum(f, pc.set[f]) = pc.set[f]
      BY <1>2, <1>6, <2>2 DEF checkSection, checkEnum, toEnum
    <3>6. point[f] = pc.set[f]
      BY <1>11, <2>2, <3>5 DEF Overlay
    <3> QED
      BY <3>1, <3>4, <3>6
  <2>3. CASE ~(f \in Fields[s0] /\ pc.set[f] # Unset)
    <3>1. point[f] = PointAt(s0, n)[f]
      BY <1>11, <2>3 DEF Overlay
    <3>2. SettersSoFar(s0, n, f)' = SettersSoFar(s0, n, f)
      BY <1>2, <1>3, <1>10, <2>3
    <3> QED
      BY <1>11, <3>1, <3>2
  <2> QED
    BY <2>2, <2>3
<1> HIDE DEF point, pc
\* The rest is as it was.
<1>13. /\ DOMAIN db' = 1 .. Len(Sections)
       /\ DOMAIN db'[s0] = DOMAIN db[s0] \cup {n}
       /\ db'[s0][n] = point
       /\ \A j \in DOMAIN db[s0] \ {n} : db'[s0][j] = db[s0][j]
       /\ \A s \in 1 .. Len(Sections) \ {s0} : db'[s] = db[s]
  BY <1>2, <1>5, <1>7
<1>14. ASSUME NEW s \in 1 .. Len(Sections)
       PROVE  DOMAIN db'[s] = {j \in 0 .. IndexRange - 1 :
                                \E k \in 1 .. Len(cfg[s]) : Laid(s, k, j)'}
  <2>1. CASE s = s0
    BY <1>2, <1>3, <1>7, <1>8, <1>13, <2>1
  <2>2. CASE s # s0
    BY <1>7, <1>8, <1>13, <2>2
  <2> QED
    BY <2>1, <2>2
<1>15. ASSUME NEW s \in 1 .. Len(Sections), NEW j \in DOMAIN db'[s]
       PROVE  /\ DOMAIN db'[s][j] = DOMAIN Initial
              /\ \A f \in DOMAIN Initial :
                    db'[s][j][f] =
                        IF SettersSoFar(s, j, f)' = {} THEN Initial[f]
                        ELSE cfg[s][Max(SettersSoFar(s, j, f)')].set[f]
  <2>1. j \in 0 .. IndexRange - 1
    BY <1>14
  <2>2. CASE s = s0 /\ j = n
    BY <1>12, <1>13, <2>2
  <2>3. CASE ~(s = s0 /\ j = n)
    <3>1. j \in DOMAIN db[s] /\ db'[s][j] = db[s][j]
      BY <1>2, <1>13, <2>3
    <3>2. \A f \in DOMAIN Initial : SettersSoFar(s, j, f)' = SettersSoFar(s, j, f)
      BY <1>10, <2>1, <2>3
    <3> QED
      BY <1>7, <3>1, <3>2
  <2> QED
    BY <2>2, <2>3
<1>16. cfg' = cfg
  BY <1>2
<1> QED
  BY <1>13, <1>14, <1>15, <1>16 DEF BuiltSoFar

\* An entry gives a point the names that were checked, or numbers.
LEMMA OverlayValues ==
    ASSUME NEW s \in 1 .. Len(Sections), NEW k \in 1 .. Len(cfg[s]), ConfigOK,
           checkSection(s), NEW point, DOMAIN point = DOMAIN Initial,
           \A f \in DOMAIN Initial : point[f] \in Value(f)
    PROVE  /\ DOMAIN Overlay(point, s, cfg[s][k]) = DOMAIN Initial
           /\ \A f \in DOMAIN Initial : Overlay(point, s, cfg[s][k])[f] \in Value(f)
<1>1. DOMAIN Overlay(point, s, cfg[s][k]) = DOMAIN Initial
  BY DEF Overlay
<1>2. ASSUME NEW f \in DOMAIN Initial
      PROVE  Overlay(point, s, cfg[s][k])[f] \in Value(f)
  <2>1. CASE f \notin Fields[s] \/ cfg[s][k].set[f] = Unset
    BY <2>1 DEF Overlay
  <2>2. CASE f \in Fields[s] /\ cfg[s][k].set[f] # Unset /\ f \in EnumFields
    <3>1. cfg[s][k].set[f] \in Names[f]
      BY <2>2 DEF checkSection, checkEnum
    <3> QED
      BY <2>2, <3>1 DEF Overlay, toEnum, Value
  <2>3. CASE f \in Fields[s] /\ cfg[s][k].set[f] # Unset /\ f \notin EnumFields
    <3>1. cfg[s][k].set[f] \in Int
      BY <2>3 DEF ConfigOK
    <3> QED
      BY <2>3, <3>1 DEF Overlay, Value
  <2> QED
    BY <2>1, <2>2, <2>3
<1> QED
  BY <1>1, <1>2

LEMMA ConfigurePointValues ==
    ASSUME DatabaseInv, ConfigurePoint, NEW s0, NEW k0, NEW n,
           s0 = section, k0 = entry, n = i % IndexRange
    PROVE  PointsOK'
<1> DEFINE pc == cfg[s0][k0]
           point == Overlay(PointAt(s0, n), s0, pc)
<1>1. /\ Len(Sections) \in Nat /\ IndexRange \in Nat \ {0}
  BY SectionsAssumption, WidthAssumption
<1>2. /\ s0 \in 1 .. Len(Sections) /\ Len(cfg[s0]) \in Nat /\ k0 \in 1 .. Len(cfg[s0])
      /\ phase = "range" /\ i \in Nat
  BY <1>1 DEF ConfigurePoint, DatabaseInv, ConfigOK, LoopsOK
<1>3. n \in 0 .. IndexRange - 1
  BY <1>1, <1>2
<1>4. db' = [db EXCEPT ![s0] =
                [j \in DOMAIN db[s0] \cup {n} |-> IF j = n THEN point ELSE db[s0][j]]]
  BY DEF ConfigurePoint
<1>5. /\ DOMAIN PointAt(s0, n) = DOMAIN Initial
      /\ \A f \in DOMAIN Initial : PointAt(s0, n)[f] \in Value(f)
  <2>1. CASE n \in DOMAIN db[s0]
    BY <1>2, <2>1 DEF PointAt, DatabaseInv, BuiltSoFar, PointsOK
  <2>2. CASE n \notin DOMAIN db[s0]
    BY <2>2, FieldValuesAssumption DEF PointAt
  <2> QED
    BY <2>1, <2>2
<1>6. \A f \in DOMAIN Initial : point[f] \in Value(f)
  BY <1>2, <1>5, OverlayValues DEF DatabaseInv, LoopsOK
<1> HIDE DEF point, pc
<1>7. DOMAIN db = 1 .. Len(Sections)
  BY <1>2 DEF DatabaseInv, BuiltSoFar
<1>8. /\ DOMAIN db'[s0] = DOMAIN db[s0] \cup {n}
      /\ db'[s0][n] = point
      /\ \A j \in DOMAIN db[s0] \ {n} : db'[s0][j] = db[s0][j]
      /\ \A s \in 1 .. Len(Sections) \ {s0} : db'[s] = db[s]
  BY <1>2, <1>4, <1>7
<1>9. ASSUME NEW s \in 1 .. Len(Sections)
      PROVE  /\ DOMAIN db'[s] \subseteq 0 .. IndexRange - 1
             /\ \A j \in DOMAIN db'[s], f \in DOMAIN Initial : db'[s][j][f] \in Value(f)
  <2>1. CASE s = s0
    BY <1>2, <1>3, <1>6, <1>8, <2>1 DEF DatabaseInv, PointsOK
  <2>2. CASE s # s0
    BY <1>8, <2>2 DEF DatabaseInv, PointsOK
  <2> QED
    BY <2>1, <2>2
<1> QED
  BY <1>9 DEF PointsOK

\* Every step of validation and construction preserves the invariant.
LEMMA DatabaseKept == DatabaseInv /\ Next => DatabaseInv'
<1> SUFFICES ASSUME DatabaseInv, Next PROVE PointsOK' /\ BuiltSoFar'
  BY LoopsKept DEF DatabaseInv
<1>1. CASE configureDefaultDatabase
  <2>1. BuiltSoFar'
    BY <1>1 DEF configureDefaultDatabase, BuiltSoFar, Empty
  <2>2. \A s \in 1 .. Len(Sections) :
            db'[s] = [j \in 0 .. DefaultLast[s] |-> DefaultPoint[s]]
    BY <1>1 DEF configureDefaultDatabase
  <2>3. \A s \in 1 .. Len(Sections) :
            /\ DOMAIN db'[s] = 0 .. DefaultLast[s]
            /\ \A j \in DOMAIN db'[s] : db'[s][j] = DefaultPoint[s]
    BY <2>2
  <2>4. \A s \in 1 .. Len(Sections) : 0 .. DefaultLast[s] \subseteq 0 .. IndexRange - 1
    BY FieldValuesAssumption, WidthAssumption
  <2> QED
    BY <2>1, <2>3, <2>4, FieldValuesAssumption DEF PointsOK
<1>2. CASE validatePointDatabase \/ NextEntry \/ RangeDone
  <2>1. db' = db
    BY <1>2 DEF validatePointDatabase, NextEntry, RangeDone
  <2> QED
    BY <1>2, <2>1, PositionBuilds DEF DatabaseInv, PointsOK
<1> QED
  BY <1>1, <1>2, ConfigurePointBuilds, ConfigurePointValues DEF Next

\* Before the first entry nothing is laid.
LEMMA NothingLaid ==
    ConfigOK /\ phase # "range" /\ section = 1 /\ entry = 1 /\ db = NoPoints => BuiltSoFar
<1> SUFFICES ASSUME ConfigOK, phase # "range", section = 1, entry = 1, db = NoPoints
             PROVE  BuiltSoFar
  OBVIOUS
<1>1. Len(Sections) \in Nat
  BY SectionsAssumption
<1>2. \A s \in 1 .. Len(Sections) : \A k \in 1 .. Len(cfg[s]) : \A j : ~Laid(s, k, j)
  BY <1>1 DEF Laid, ConfigOK
<1>3. \A s \in 1 .. Len(Sections) : DOMAIN db[s] = {}
  BY DEF NoPoints
<1>4. DOMAIN db = 1 .. Len(Sections)
  BY DEF NoPoints
<1> QED
  BY <1>2, <1>3, <1>4 DEF BuiltSoFar

-----------------------------------------------------------------------------
(* ConfigLoader *)

\* What parsePointConfigs() returns.
LEMMA ParseProperties ==
    ASSUME NEW raws, raws \in Seq(Range(raws))
    PROVE  /\ DOMAIN parsePointConfigs(raws) = DOMAIN raws
           /\ DOMAIN raws = 1 .. Len(raws) /\ Len(raws) \in Nat
           /\ Len(parsePointConfigs(raws)) = Len(raws)
           /\ \A n \in DOMAIN raws :
                /\ parsePointConfigs(raws)[n].start = Named(raws[n])[1] % IndexRange
                /\ parsePointConfigs(raws)[n].end = Named(raws[n])[2] % IndexRange
                /\ parsePointConfigs(raws)[n].set = raws[n].set
<1> DEFINE parsed == parsePointConfigs(raws)
           S == {parsed[n] : n \in 1 .. Len(raws)}
<1>1. DOMAIN raws = 1 .. Len(raws) /\ Len(raws) \in Nat
  OBVIOUS
<1>2. parsed \in [1 .. Len(raws) -> S]
  BY <1>1 DEF parsePointConfigs
<1>3. parsed \in Seq(S)
  BY <1>1, <1>2
<1>4. DOMAIN parsed = 1 .. Len(raws)
  BY <1>2
<1>5. Len(parsed) = Len(raws)
  <2> HIDE DEF parsed, S
  <2> QED
    BY <1>1, <1>3, <1>4
<1>6. \A n \in DOMAIN raws :
        /\ parsed[n].start = Named(raws[n])[1] % IndexRange
        /\ parsed[n].end = Named(raws[n])[2] % IndexRange
        /\ parsed[n].set = raws[n].set
  BY DEF parsePointConfigs
<1> QED
  BY <1>1, <1>4, <1>5, <1>6

LEMMA LoaderInitEstablishes == LoaderInit => LoaderInv
<1> SUFFICES ASSUME LoaderInit PROVE LoaderInv
  OBVIOUS
<1>1. Len(Sections) \in Nat /\ IndexRange \in Nat \ {0}
  BY SectionsAssumption, WidthAssumption
<1>2. /\ DOMAIN cfg = 1 .. Len(Sections)
      /\ \A s \in 1 .. Len(Sections) : cfg[s] = <<>> /\ Len(cfg[s]) = 0
      /\ phase = "validate" /\ section = 1 /\ entry = 1 /\ i = 0
      /\ db = NoPoints /\ fellBack = FALSE
  BY DEF LoaderInit, Init, NoPoints
<1>3. ConfigOK
  BY <1>2 DEF ConfigOK
<1>4. LoopsOK
  BY <1>1, <1>2 DEF LoopsOK
<1>5. BuiltSoFar
  BY <1>2, <1>3, NothingLaid
<1>6. PointsOK
  BY <1>2 DEF PointsOK, NoPoints
<1>7. RunsOK
  <2>1. DOMAIN runs = 1 .. Len(Sections) /\ stage # "logged"
    BY DEF LoaderInit
  <2>2. \A s \in 1 .. Len(Sections) : runs[s] = <<>> /\ DOMAIN db[s] = {}
    BY <1>2 DEF LoaderInit, NoPoints
  <2>3. \A S : <<>> \in Seq(S)
    OBVIOUS
  <2>4. ASSUME NEW s \in 1 .. Len(Sections)
        PROVE  /\ runs[s] \in Seq([first : Int, last : Int, desc : Range(Described(s))])
               /\ DOMAIN runs[s] = {}
               /\ AreExact(runs[s], DOMAIN db[s] \ Unlogged(s), Described(s))
    <3>1. DOMAIN runs[s] = {}
      BY <2>2
    <3> QED
      BY <2>2, <2>3, <3>1 DEF AreExact
  <2> QED
    BY <2>1, <2>2, <2>4 DEF RunsOK
<1>8. StagesOK /\ EffectiveSettings
  BY <1>2 DEF StagesOK, EffectiveSettings, LoaderInit, Empty
<1> QED
  BY <1>3, <1>4, <1>5, <1>6, <1>7, <1>8 DEF LoaderInv, DatabaseInv

\* Parsing replaces the configuration before anything was built of it.
LEMMA ParseKeepsDatabase ==
    ASSUME LoaderInv, parsePointDatabase
    PROVE  DatabaseInv'
<1>1. Len(Sections) \in Nat /\ IndexRange \in Nat \ {0}
  BY SectionsAssumption, WidthAssumption
<1>2. /\ UNCHANGED <<phase, section, entry, i, db, fellBack>>
      /\ phase = "validate" /\ section = 1 /\ entry = 1 /\ db = NoPoints
      /\ i \in 0 .. IndexRange /\ fellBack = FALSE /\ ConfigOK
  BY DEF parsePointDatabase, LoaderInv, StagesOK, DatabaseInv, LoopsOK
<1>3. launch \in Launches
  BY DEF LoaderInv, StagesOK
<1>4. ConfigOK'
  <2>1. CASE UNCHANGED cfg
    BY <1>2, <2>1 DEF ConfigOK
  <2>2. CASE /\ cfg' = [s \in DOMAIN cfg |-> parsePointConfigs(launch.file.points[s])]
             /\ \A s \in DOMAIN cfg : \A n \in DOMAIN launch.file.points[s] :
                    ~Throws(launch.file.points[s][n])
    <3>1. DOMAIN cfg' = 1 .. Len(Sections) /\ DOMAIN cfg = 1 .. Len(Sections)
      BY <1>2, <2>2 DEF ConfigOK
    <3>2. ASSUME NEW s \in 1 .. Len(Sections)
          PROVE  /\ Len(cfg'[s]) \in Nat
                 /\ \A k \in 1 .. Len(cfg'[s]) :
                    /\ cfg'[s][k].start \in 0 .. IndexRange - 1
                    /\ cfg'[s][k].end \in 0 .. IndexRange - 1
                    /\ \A f \in Fields[s] \ EnumFields :
                        cfg'[s][k].set[f] \in Int \cup {Unset}
      <4> DEFINE raws == launch.file.points[s]
      <4>1. /\ cfg'[s] = parsePointConfigs(raws)
            /\ raws \in Seq(Range(raws))
            /\ \A n \in DOMAIN raws :
                Named(raws[n])[1] \in Nat \cup {WrongType}
                /\ Named(raws[n])[2] \in Nat \cup {WrongType}
                /\ Fields[s] \subseteq DOMAIN raws[n].set
                /\ \A f \in Fields[s] \ EnumFields :
                    raws[n].set[f] \in Int \cup {Unset, WrongType}
        BY <1>3, <2>2, <3>1, LaunchesAssumption
      <4>2. \A n \in DOMAIN raws : ~Throws(raws[n])
        BY <2>2, <3>1
      <4> HIDE DEF raws
      <4>3. /\ Len(cfg'[s]) = Len(raws) /\ Len(raws) \in Nat
            /\ DOMAIN raws = 1 .. Len(raws)
            /\ \A n \in DOMAIN raws :
                /\ cfg'[s][n].start = Named(raws[n])[1] % IndexRange
                /\ cfg'[s][n].end = Named(raws[n])[2] % IndexRange
                /\ cfg'[s][n].set = raws[n].set
        BY <4>1, ParseProperties
      <4>4. \A n \in DOMAIN raws : Named(raws[n])[1] \in Nat /\ Named(raws[n])[2] \in Nat
        BY <4>1, <4>2 DEF Throws
      <4>5. \A x \in Nat : x % IndexRange \in 0 .. IndexRange - 1
        BY <1>1
      <4>6. \A n \in DOMAIN raws : \A f \in Fields[s] \ EnumFields :
                raws[n].set[f] \in Int \cup {Unset}
        BY <4>1, <4>2 DEF Throws
      <4> QED
        BY <4>3, <4>4, <4>5, <4>6
    <3> QED
      BY <3>1, <3>2 DEF ConfigOK
  <2> QED
    BY <2>1, <2>2 DEF parsePointDatabase
<1>5. LoopsOK'
  <2>1. section' <= Len(Sections) => entry' <= Len(cfg'[section']) + 1
    <3> SUFFICES ASSUME 1 <= Len(Sections) PROVE 1 <= Len(cfg'[1]) + 1
      BY <1>2
    <3>1. Len(cfg'[1]) \in Nat
      BY <1>1, <1>4 DEF ConfigOK
    <3> QED
      BY <3>1
  <2> QED
    BY <1>1, <1>2, <2>1 DEF LoopsOK
<1>6. BuiltSoFar'
  <2>1. (ConfigOK /\ phase # "range" /\ section = 1 /\ entry = 1 /\ db = NoPoints)'
    BY <1>2, <1>4 DEF NoPoints
  <2> QED
    BY <2>1, NothingLaid, PTL
<1>7. PointsOK'
  BY <1>2 DEF LoaderInv, DatabaseInv, PointsOK
<1> QED
  BY <1>4, <1>5, <1>6, <1>7 DEF DatabaseInv

loaderAllVars == <<vars, loaderVars>>

\* Outside start() and parsing, nothing of the database changes.
LEMMA LoaderKeepsDatabase ==
    LoaderInv /\ [LoaderNext]_loaderAllVars => DatabaseInv'
<1> SUFFICES ASSUME LoaderInv, [LoaderNext]_loaderAllVars PROVE DatabaseInv'
  OBVIOUS
<1>1. CASE UNCHANGED vars
  <2>1. /\ ConfigOK /\ LoopsOK /\ PointsOK /\ BuiltSoFar
        /\ UNCHANGED <<cfg, phase, section, entry, i, db, fellBack>>
    BY <1>1 DEF LoaderInv, DatabaseInv, vars
  <2>2. (Empty' <=> Empty) /\ \A s : checkSection(s)' <=> checkSection(s)
    BY <2>1 DEF Empty, checkSection, checkRange, checkEnum
  <2>3. ConfigOK'
    BY <2>1 DEF ConfigOK
  <2>4. LoopsOK'
    BY <2>1, <2>2 DEF LoopsOK
  <2>5. \A s, k, j : Laid(s, k, j)' <=> Laid(s, k, j)
    BY <2>1 DEF Laid, Covers
  <2>6. BuiltSoFar'
    <3>1. CASE phase = "done" /\ Empty
      BY <2>1, <2>2, <3>1 DEF BuiltSoFar
    <3>2. CASE ~(phase = "done" /\ Empty)
      BY <2>1, <2>5, <3>2, BuiltUnchanged
    <3> QED
      BY <3>1, <3>2
  <2>7. PointsOK'
    BY <2>1 DEF PointsOK
  <2> QED
    BY <2>3, <2>4, <2>6, <2>7 DEF DatabaseInv
<1>2. CASE stage = "loaded" /\ Next
  BY <1>2, DatabaseKept DEF LoaderInv
<1>3. \/ OpenFile \/ load_from_json \/ ApplyEnvironment \/ logDatabaseSummary
      \/ \E s \in 1 .. Len(Sections) : logPointRuns(s)
      => UNCHANGED vars
  BY DEF OpenFile, load_from_json, ApplyEnvironment, logDatabaseSummary, logPointRuns
<1> QED
  BY <1>1, <1>2, <1>3, ParseKeepsDatabase DEF LoaderNext, loaderAllVars

\* A setting has the file's value from the end of load_from_json() on, and the
\* environment's, if it says something, from then on.
LEMMA LoaderKeepsSettings ==
    LoaderInv /\ [LoaderNext]_loaderAllVars => EffectiveSettings'
<1> SUFFICES ASSUME LoaderInv, [LoaderNext]_loaderAllVars PROVE EffectiveSettings'
  OBVIOUS
<1>1. CASE ApplyEnvironment
  <2>1. /\ stage = "env" /\ app' = [k \in Settings |-> EnvOr(k)]
        /\ UNCHANGED launch
        /\ \A k \in Settings : app[k] = FromFile(k)
    BY <1>1 DEF ApplyEnvironment, LoaderInv, StagesOK
  <2>2. ASSUME NEW k \in Settings PROVE EnvOr(k) = Cut(k, LastSaid(k))
    BY <2>1, DefaultsAssumption DEF EnvOr, LastSaid, FromFile, IsDocument
  <2>3. \A k \in Settings : LastSaid(k)' = LastSaid(k)
    BY <2>1 DEF LastSaid
  <2> QED
    BY <2>1, <2>2, <2>3 DEF EffectiveSettings
<1>2. CASE OpenFile \/ load_from_json \/ parsePointDatabase
  <2>1. stage' \notin {"loaded", "logged"}
    <3>1. CASE OpenFile
      <4>1. launch.file.state \in {"none", "unreadable", "malformed", "document"}
        BY LaunchesAssumption DEF LoaderInv, StagesOK
      <4> QED
        BY <3>1, <4>1 DEF OpenFile
    <3>2. CASE load_from_json
      BY <3>2 DEF load_from_json
    <3>3. CASE parsePointDatabase
      BY <3>3 DEF parsePointDatabase
    <3> QED
      BY <1>2, <3>1, <3>2, <3>3
  <2> QED
    BY <2>1 DEF EffectiveSettings
<1>3. CASE \/ logDatabaseSummary \/ UNCHANGED loaderVars
           \/ \E s \in 1 .. Len(Sections) : logPointRuns(s)
  <2>1. /\ stage' \in {"loaded", "logged"} => stage \in {"loaded", "logged"}
        /\ UNCHANGED <<launch, app>>
    BY <1>3 DEF logDatabaseSummary, logPointRuns, loaderVars
  <2>2. \A k : LastSaid(k)' = LastSaid(k)
    BY <2>1 DEF LastSaid
  <2>3. EffectiveSettings
    BY DEF LoaderInv
  <2> QED
    BY <2>1, <2>2, <2>3 DEF EffectiveSettings
<1> QED
  BY <1>1, <1>2, <1>3 DEF LoaderNext, loaderAllVars

LEMMA LoaderKeepsStages ==
    LoaderInv /\ [LoaderNext]_loaderAllVars => StagesOK'
<1> SUFFICES ASSUME LoaderInv, [LoaderNext]_loaderAllVars PROVE StagesOK'
  OBVIOUS
<1>1. StagesOK /\ ConfigOK
  BY DEF LoaderInv, DatabaseInv
<1>2. UNCHANGED launch
  BY DEF LoaderNext, OpenFile, load_from_json, parsePointDatabase, ApplyEnvironment,
     logPointRuns, logDatabaseSummary, loaderVars, loaderAllVars
<1>3. /\ IsDocument' <=> IsDocument
      /\ Given' = Given
      /\ \A k \in Settings : FromFile(k)' = FromFile(k)
      /\ (Unreadable' <=> Unreadable) /\ (IllTyped' <=> IllTyped)
  BY <1>2 DEF IsDocument, Given, FromFile, Cut, Unreadable, IllTyped
<1>4. CASE OpenFile
  <2>1. launch.file.state \in {"none", "unreadable", "malformed", "document"}
    BY <1>1, LaunchesAssumption DEF StagesOK
  <2>2. UNCHANGED <<cfg, phase, app>> /\ stage = "file"
    BY <1>4 DEF OpenFile, vars
  <2>3. \/ stage' = "env" /\ launch.file.state = "none"
        \/ stage' = "failed" /\ Unreadable
        \/ stage' = "settings" /\ IsDocument
    BY <1>4, <2>1 DEF OpenFile, IsDocument, Unreadable
  <2>4. phase = "validate" /\ app = DefaultOf
    BY <1>1, <2>2 DEF StagesOK
  <2>5. Empty'
    BY <1>1, <2>2 DEF StagesOK, Empty
  <2> QED
    BY <1>1, <1>2, <1>3, <2>2, <2>3, <2>4, <2>5 DEF StagesOK, FromFile, IsDocument
<1>5. CASE load_from_json
  <2>1. UNCHANGED <<cfg, phase>> /\ stage = "settings"
    BY <1>5 DEF load_from_json, vars
  <2>2. \/ stage' = "terminated" /\ UNCHANGED app /\ IllTyped
        \/ /\ stage' = "points"
           /\ \A k \in Given : launch.file.settings[k] # WrongType
           /\ \A k \in Settings : app'[k] = FromFile(k)
    BY <1>1, <1>5 DEF load_from_json, StagesOK, FromFile, Given, IllTyped
  <2> QED
    BY <1>1, <1>2, <1>3, <2>1, <2>2 DEF StagesOK, Empty
<1>6. CASE parsePointDatabase
  <2>1. UNCHANGED <<phase, app>> /\ stage = "points" /\ DOMAIN cfg = 1 .. Len(Sections)
    BY <1>1, <1>6 DEF parsePointDatabase, ConfigOK
  <2>2. \/ stage' = "terminated" /\ IllTyped
        \/ /\ stage' = "env"
           /\ \A s \in 1 .. Len(Sections) :
                /\ cfg'[s] = parsePointConfigs(launch.file.points[s])
                /\ \A n \in DOMAIN launch.file.points[s] :
                    ~Throws(launch.file.points[s][n])
    BY <1>1, <1>6, <2>1 DEF parsePointDatabase, StagesOK, IllTyped
  <2> QED
    BY <1>1, <1>2, <1>3, <2>1, <2>2 DEF StagesOK, IsDocument
<1>7. CASE \/ ApplyEnvironment \/ logDatabaseSummary
           \/ \E s \in 1 .. Len(Sections) : logPointRuns(s)
  <2>1. /\ UNCHANGED <<cfg, phase>> /\ stage \in {"env", "loaded"}
        /\ stage' \in {"loaded", "logged"}
    BY <1>7 DEF ApplyEnvironment, logPointRuns, logDatabaseSummary, vars
  <2>2. Empty' <=> Empty
    BY <2>1 DEF Empty
  <2> QED
    BY <1>1, <1>2, <1>3, <2>1, <2>2 DEF StagesOK
<1>8. CASE UNCHANGED loaderVars /\ ((stage = "loaded" /\ Next) \/ UNCHANGED vars)
  <2>1. UNCHANGED <<stage, app>> /\ (stage = "loaded" \/ UNCHANGED phase)
    BY <1>8 DEF loaderVars, vars
  <2>2. UNCHANGED cfg
    BY <1>8 DEF vars, Next, validatePointDatabase, configureDefaultDatabase,
       NextEntry, ConfigurePoint, RangeDone
  <2>3. Empty' <=> Empty
    BY <2>2 DEF Empty
  <2> QED
    BY <1>1, <1>2, <1>3, <2>1, <2>2, <2>3 DEF StagesOK
<1> QED
  BY <1>4, <1>5, <1>6, <1>7, <1>8 DEF LoaderNext, loaderAllVars

-----------------------------------------------------------------------------
(* The summary in the log *)

RunsOver(T) == [first : Int, last : Int, desc : T]

\* What a sequence of runs is, by index.
LEMMA RunsAreRecords ==
    ASSUME NEW T, NEW r \in Seq(RunsOver(T)), NEW L, L = Len(r)
    PROVE  /\ L \in Nat /\ DOMAIN r = 1 .. L /\ (r # <<>> <=> L # 0)
           /\ \A n \in 1 .. L : r[n] \in RunsOver(T)
           /\ \A n \in 1 .. L : r[n].first \in Int /\ r[n].last \in Int
<1>1. /\ L \in Nat /\ DOMAIN r = 1 .. L /\ (r # <<>> <=> L # 0)
      /\ \A n \in 1 .. L : r[n] \in RunsOver(T)
  OBVIOUS
<1> QED
  BY <1>1 DEF RunsOver

\* The runs q are the runs r and the next point j, which extends the last run if it
\* can, and starts another otherwise.
Added(q, r, L, j, d) ==
    IF L # 0 /\ r[L].last + 1 = j /\ r[L].desc = d
    THEN /\ Len(q) = L
         /\ \A n \in 1 .. L : n # L => q[n] = r[n]
         /\ q[L].first = r[L].first /\ q[L].last = j /\ q[L].desc = r[L].desc
    ELSE /\ Len(q) = L + 1
         /\ \A n \in 1 .. L : q[n] = r[n]
         /\ q[L + 1].first = j /\ q[L + 1].last = j /\ q[L + 1].desc = d

\* That is what AddToRuns() does.
LEMMA AddedRun ==
    ASSUME NEW s, NEW j \in Int, NEW T, NEW d \in T, d = Describe(s, j),
           NEW r \in Seq(RunsOver(T)), NEW L, L = Len(r), NEW q, q = AddToRuns(s, r, j)
    PROVE  /\ q \in Seq(RunsOver(T))
           /\ Added(q, r, L, j, d)
<1>1. /\ L \in Nat /\ DOMAIN r = 1 .. L /\ (r # <<>> <=> L # 0)
      /\ \A n \in 1 .. L : r[n] \in RunsOver(T)
  BY RunsAreRecords
<1>2. CASE L # 0 /\ r[L].last + 1 = j /\ r[L].desc = d
  <2>1. q = [r EXCEPT ![L] = [r[L] EXCEPT !.last = j]]
    BY <1>1, <1>2 DEF AddToRuns, Last
  <2>2. r[L] \in RunsOver(T)
    BY <1>1, <1>2
  <2> DEFINE x == [r[L] EXCEPT !.last = j]
  <2>3. /\ x \in RunsOver(T)
        /\ x.first = r[L].first /\ x.last = j /\ x.desc = r[L].desc
    BY <2>2 DEF RunsOver
  <2> HIDE DEF x
  <2>4. /\ [r EXCEPT ![L] = x] \in Seq(RunsOver(T))
        /\ Len([r EXCEPT ![L] = x]) = L
        /\ \A n \in 1 .. L : [r EXCEPT ![L] = x][n] = IF n = L THEN x ELSE r[n]
    BY <1>1, <1>2, <2>3
  <2> QED
    BY <1>1, <1>2, <2>1, <2>3, <2>4 DEF x, Added
<1>3. CASE ~(L # 0 /\ r[L].last + 1 = j /\ r[L].desc = d)
  <2> DEFINE x == [first |-> j, last |-> j, desc |-> d]
  <2>1. q = Append(r, x)
    BY <1>1, <1>3 DEF AddToRuns, Last
  <2>2. x \in RunsOver(T) /\ x.first = j /\ x.last = j /\ x.desc = d
    BY DEF RunsOver
  <2> HIDE DEF x
  <2> QED
    BY <1>1, <1>3, <2>1, <2>2 DEF Added
<1> QED
  BY <1>2, <1>3 DEF Added

\* What exact runs are, by index.
ExactByIndex(r, L, points, described) ==
    /\ \A x \in Int : x \in points <=>
            \E n \in 1 .. L : r[n].first <= x /\ x <= r[n].last
    /\ \A n \in 1 .. L : \A x \in Int :
            r[n].first <= x /\ x <= r[n].last => r[n].desc = described[x]
    /\ \A m, n \in 1 .. L : m < n => r[m].last < r[n].first
    /\ \A n \in 1 .. L : n # 1 /\ r[n - 1].last + 1 = r[n].first
            => r[n - 1].desc # r[n].desc

\* The two say the same of runs of indices.
LEMMA ExactIsByIndex ==
    ASSUME NEW points \in SUBSET Int, NEW r, NEW L \in Nat, DOMAIN r = 1 .. L,
           \A n \in 1 .. L : r[n].first \in Int /\ r[n].last \in Int, NEW described
    PROVE  AreExact(r, points, described) <=> ExactByIndex(r, L, points, described)
<1> DEFINE In(n) == r[n].first .. r[n].last
<1>1. \A n \in 1 .. L : \A x : x \in In(n) <=>
        x \in Int /\ r[n].first <= x /\ x <= r[n].last
  OBVIOUS
<1>2. AreExact(r, points, described) <=>
        /\ points = UNION {In(n) : n \in 1 .. L}
        /\ \A n \in 1 .. L : \A x \in In(n) : r[n].desc = described[x]
        /\ \A m, n \in 1 .. L : m < n => r[m].last < r[n].first
        /\ \A n \in 1 .. L \ {1} : r[n - 1].last + 1 = r[n].first
                    => r[n - 1].desc # r[n].desc
  BY DEF AreExact
<1> HIDE DEF In
<1>3. points = UNION {In(n) : n \in 1 .. L} <=>
        \A x \in Int : x \in points <=>
            \E n \in 1 .. L : r[n].first <= x /\ x <= r[n].last
  BY <1>1
<1> QED
  BY <1>1, <1>2, <1>3 DEF ExactByIndex

\* A point right after the last run, with its description, extends it.
LEMMA ExtendedIsExact ==
    ASSUME NEW points, NEW described, NEW j \in Int, NEW r, NEW q, NEW L \in Nat, L # 0,
           \A n \in 1 .. L : /\ r[n].first \in Int /\ r[n].last \in Int
                            /\ r[n].first <= r[n].last,
           ExactByIndex(r, L, points, described),
           r[L].last + 1 = j, r[L].desc = described[j],
           \A n \in 1 .. L : n # L => q[n] = r[n],
           q[L].first = r[L].first, q[L].last = j, q[L].desc = r[L].desc
    PROVE  ExactByIndex(q, L, points \cup {j}, described)
<1>1. L \in 1 .. L
  OBVIOUS
<1>2. \A n \in 1 .. L :
        /\ q[n].first = r[n].first /\ q[n].desc = r[n].desc
        /\ q[n].last = IF n = L THEN j ELSE r[n].last
  OBVIOUS
<1>3. ASSUME NEW x \in Int
      PROVE  x \in points \cup {j} <=>
                \E n \in 1 .. L : q[n].first <= x /\ x <= q[n].last
  <2>1. x \in points <=> \E n \in 1 .. L : r[n].first <= x /\ x <= r[n].last
    BY DEF ExactByIndex
  <2>2. \A n \in 1 .. L : (q[n].first <= x /\ x <= q[n].last) <=>
            (r[n].first <= x /\ x <= r[n].last) \/ (n = L /\ x = j)
    BY <1>1, <1>2
  <2> QED
    BY <1>1, <2>1, <2>2
<1>4. ASSUME NEW n \in 1 .. L, NEW x \in Int, q[n].first <= x, x <= q[n].last
      PROVE  q[n].desc = described[x]
  <2>1. (r[n].first <= x /\ x <= r[n].last) \/ (n = L /\ x = j)
    BY <1>1, <1>2, <1>4
  <2> QED
    BY <1>2, <2>1 DEF ExactByIndex
<1>5. ASSUME NEW m \in 1 .. L, NEW n \in 1 .. L, m < n
      PROVE  q[m].last < q[n].first
  BY <1>2, <1>5 DEF ExactByIndex
<1>6. ASSUME NEW n \in 1 .. L, n # 1, q[n - 1].last + 1 = q[n].first
      PROVE  q[n - 1].desc # q[n].desc
  <2>1. n - 1 \in 1 .. L /\ n - 1 # L
    BY <1>6
  <2> QED
    BY <1>2, <1>6, <2>1 DEF ExactByIndex
<1> QED
  BY <1>3, <1>4, <1>5, <1>6 DEF ExactByIndex

\* Any other point beyond the last run starts another.
LEMMA AppendedIsExact ==
    ASSUME NEW points, NEW described, NEW j \in Int, NEW r, NEW q, NEW L \in Nat,
           NEW N, N = L + 1,
           \A n \in 1 .. L : /\ r[n].first \in Int /\ r[n].last \in Int
                            /\ r[n].first <= r[n].last,
           ExactByIndex(r, L, points, described),
           L # 0 => r[L].last < j,
           L # 0 => r[L].last + 1 # j \/ r[L].desc # described[j],
           \A n \in 1 .. L : q[n] = r[n],
           q[N].first = j, q[N].last = j, q[N].desc = described[j]
    PROVE  ExactByIndex(q, N, points \cup {j}, described)
<1>1. /\ N \in 1 .. N /\ \A n \in 1 .. N : n = N \/ n \in 1 .. L
      /\ \A n \in 1 .. L : n \in 1 .. N /\ n # N
  OBVIOUS
<1>2. ASSUME NEW n \in 1 .. L PROVE r[n].last < j
  <2>1. L # 0 /\ L \in 1 .. L /\ r[n].first <= r[n].last
    OBVIOUS
  <2>2. n = L \/ r[n].last < r[L].first
    BY <2>1 DEF ExactByIndex
  <2> QED
    BY <2>1, <2>2
<1>3. ASSUME NEW x \in Int
      PROVE  x \in points \cup {j} <=>
                \E n \in 1 .. N : q[n].first <= x /\ x <= q[n].last
  <2>1. x \in points <=> \E n \in 1 .. L : r[n].first <= x /\ x <= r[n].last
    BY DEF ExactByIndex
  <2>2. (\E n \in 1 .. N : q[n].first <= x /\ x <= q[n].last) <=>
            (\E n \in 1 .. L : r[n].first <= x /\ x <= r[n].last) \/ x = j
    BY <1>1
  <2> QED
    BY <2>1, <2>2
<1>4. ASSUME NEW n \in 1 .. N, NEW x \in Int, q[n].first <= x, x <= q[n].last
      PROVE  q[n].desc = described[x]
  <2>1. CASE n = N
    BY <1>4, <2>1
  <2>2. CASE n \in 1 .. L
    BY <1>4, <2>2 DEF ExactByIndex
  <2> QED
    BY <1>1, <2>1, <2>2
<1>5. ASSUME NEW m \in 1 .. N, NEW n \in 1 .. N, m < n
      PROVE  q[m].last < q[n].first
  <2>1. m \in 1 .. L
    BY <1>5
  <2>2. CASE n = N
    BY <1>2, <2>1, <2>2
  <2>3. CASE n \in 1 .. L
    BY <1>5, <2>1, <2>3 DEF ExactByIndex
  <2> QED
    BY <1>1, <2>2, <2>3
<1>6. ASSUME NEW n \in 1 .. N, n # 1, q[n - 1].last + 1 = q[n].first
      PROVE  q[n - 1].desc # q[n].desc
  <2>1. n - 1 \in 1 .. L
    BY <1>6
  <2>2. CASE n = N
    BY <1>6, <2>1, <2>2
  <2>3. CASE n \in 1 .. L
    BY <1>6, <2>1, <2>3 DEF ExactByIndex
  <2> QED
    BY <1>1, <2>2, <2>3
<1> QED
  BY <1>3, <1>4, <1>5, <1>6 DEF ExactByIndex

\* Exact runs over the indices, whose descriptions are among T.
ExactRuns(r, T, points, described) ==
    /\ r \in Seq(RunsOver(T))
    /\ \A n \in DOMAIN r : r[n].first <= r[n].last
    /\ AreExact(r, points, described)

\* Point j is the next after those of the runs r.
ComesNext(j, r, T, points, described) ==
    /\ points \in SUBSET Int /\ j \in Int /\ described[j] \in T
    /\ ExactRuns(r, T, points, described)
    /\ r # <<>> => Last(r).last < j

\* The next point keeps the runs exact.
LEMMA AddKeepsExact ==
    ASSUME NEW s, NEW points, NEW j, NEW described, NEW T, NEW r, NEW q,
           ComesNext(j, r, T, points, described),
           described[j] = Describe(s, j), q = AddToRuns(s, r, j)
    PROVE  /\ ExactRuns(q, T, points \cup {j}, described)
           /\ q # <<>> /\ Last(q).last = j
<1>1. PICK L, N, d : L = Len(r) /\ N = Len(q) /\ d = described[j]
  OBVIOUS
<1>2. /\ points \in SUBSET Int /\ j \in Int /\ d \in T /\ d = Describe(s, j)
      /\ r \in Seq(RunsOver(T)) /\ \A n \in DOMAIN r : r[n].first <= r[n].last
      /\ AreExact(r, points, described) /\ (r # <<>> => Last(r).last < j)
  BY <1>1 DEF ComesNext, ExactRuns
<1>3. q \in Seq(RunsOver(T)) /\ Added(q, r, L, j, d)
  BY <1>1, <1>2, AddedRun
<1>4. /\ L \in Nat /\ DOMAIN r = 1 .. L /\ (r # <<>> <=> L # 0)
      /\ \A n \in 1 .. L : r[n].first \in Int /\ r[n].last \in Int
  BY <1>1, <1>2, RunsAreRecords
<1>5. /\ N \in Nat /\ DOMAIN q = 1 .. N /\ (q # <<>> <=> N # 0)
      /\ \A n \in 1 .. N : q[n].first \in Int /\ q[n].last \in Int
  BY <1>1, <1>3, RunsAreRecords
<1>6. /\ Last(q).last = q[N].last /\ (L # 0 => r[L].last < j)
  BY <1>1, <1>2, <1>4 DEF Last
<1>7. ExactByIndex(r, L, points, described)
  BY <1>2, <1>4, ExactIsByIndex
<1>8. \A n \in 1 .. L : /\ r[n].first \in Int /\ r[n].last \in Int
                       /\ r[n].first <= r[n].last
  BY <1>2, <1>4
<1>9. /\ N # 0 /\ q[N].last = j /\ \A n \in 1 .. N : q[n].first <= q[n].last
      /\ ExactByIndex(q, N, points \cup {j}, described)
  <2>1. CASE L # 0 /\ r[L].last + 1 = j /\ r[L].desc = d
    <3>1. /\ N = L /\ L # 0 /\ r[L].last + 1 = j /\ r[L].desc = described[j]
          /\ \A n \in 1 .. L : n # L => q[n] = r[n]
          /\ q[L].first = r[L].first /\ q[L].last = j /\ q[L].desc = r[L].desc
      BY <1>1, <1>2, <1>3, <2>1 DEF Added
    <3>2. ExactByIndex(q, L, points \cup {j}, described)
      BY <1>2, <1>4, <1>7, <1>8, <3>1, ExtendedIsExact
    <3>3. L \in 1 .. L /\ r[L].first \in Int /\ r[L].first <= r[L].last /\ r[L].last \in Int
      BY <1>4, <1>8, <3>1
    <3>4. \A n \in 1 .. N : q[n].first <= q[n].last
      BY <1>2, <1>4, <1>8, <3>1, <3>3
    <3> QED
      BY <3>1, <3>2, <3>4
  <2>2. CASE ~(L # 0 /\ r[L].last + 1 = j /\ r[L].desc = d)
    <3>1. /\ N = L + 1 /\ (L # 0 => r[L].last + 1 # j \/ r[L].desc # described[j])
          /\ \A n \in 1 .. L : q[n] = r[n]
          /\ q[N].first = j /\ q[N].last = j /\ q[N].desc = described[j]
      BY <1>1, <1>2, <1>3, <2>2 DEF Added
    <3>2. ExactByIndex(q, N, points \cup {j}, described)
      BY <1>2, <1>4, <1>6, <1>7, <1>8, <3>1, AppendedIsExact
    <3>3. \A n \in 1 .. N : n = N \/ n \in 1 .. L
      BY <1>4, <3>1
    <3>4. \A n \in 1 .. N : q[n].first <= q[n].last
      BY <1>2, <1>8, <3>1, <3>3
    <3> QED
      BY <1>4, <3>1, <3>2, <3>4
  <2> QED
    BY <2>1, <2>2
<1>10. AreExact(q, points \cup {j}, described)
  BY <1>2, <1>5, <1>9, ExactIsByIndex
<1> QED
  BY <1>3, <1>5, <1>6, <1>9, <1>10 DEF ExactRuns

\* One step of the iterator keeps the runs exact for the points it has passed.
LEMMA LogKeepsRuns ==
    ASSUME PointsOK, RunsOK, NEW s \in 1 .. Len(Sections), logPointRuns(s)
    PROVE  RunsOK'
<1> DEFINE T == Range(Described(s))
           D == DOMAIN db[s]
<1>1. PICK j \in Unlogged(s) :
        /\ \A k \in Unlogged(s) : j <= k
        /\ runs' = [runs EXCEPT ![s] = AddToRuns(s, runs[s], j)]
  BY DEF logPointRuns
<1>2. /\ UNCHANGED <<db, stage, phase>> /\ stage = "loaded" /\ phase = "done"
      /\ DOMAIN runs = 1 .. Len(Sections)
  BY DEF logPointRuns, RunsOK, vars
<1>3. /\ DOMAIN runs' = 1 .. Len(Sections) /\ runs'[s] = AddToRuns(s, runs[s], j)
      /\ \A t \in 1 .. Len(Sections) : t # s => runs'[t] = runs[t]
  BY <1>1, <1>2
<1>4. D \in SUBSET Int /\ j \in D /\ D \ Unlogged(s) \in SUBSET Int
  BY <1>1, WidthAssumption DEF PointsOK, Unlogged
<1>5. ExactRuns(runs[s], T, D \ Unlogged(s), Described(s))
  BY DEF RunsOK, RunsOver, ExactRuns
<1>6. Described(s)[j] = Describe(s, j) /\ Describe(s, j) \in T
  BY <1>4 DEF Described, Range
<1>7. runs[s] # <<>> => Last(runs[s]).last < j
  BY <1>1 DEF Unlogged
<1> HIDE DEF T, D
<1>8. /\ ExactRuns(runs'[s], T, (D \ Unlogged(s)) \cup {j}, Described(s))
      /\ runs'[s] # <<>> /\ Last(runs'[s]).last = j
  <2>1. ASSUME NEW r, r = runs[s], NEW q, q = runs'[s], NEW points,
               points = D \ Unlogged(s), NEW described, described = Described(s)
        PROVE  /\ ExactRuns(q, T, points \cup {j}, described)
               /\ q # <<>> /\ Last(q).last = j
    <3>1. ComesNext(j, r, T, points, described)
      BY <1>4, <1>5, <1>6, <1>7, <2>1 DEF ComesNext
    <3>2. described[j] = Describe(s, j) /\ q = AddToRuns(s, r, j)
      BY <1>3, <1>6, <2>1
    <3> QED
      BY <3>1, <3>2, AddKeepsExact
  <2> QED
    BY <2>1
<1>9. Unlogged(s)' = {k \in D : j < k}
  BY <1>2, <1>8 DEF Unlogged, D
<1>10. D \ Unlogged(s)' = (D \ Unlogged(s)) \cup {j}
  <2>1. ASSUME NEW k \in D, ~(j < k), k # j PROVE k \notin Unlogged(s)
    <3>1. k \in Int /\ j \in Int
      BY <1>4
    <3> QED
      BY <1>1, <2>1, <3>1
  <2>2. ASSUME NEW k \in D, k \notin Unlogged(s) PROVE ~(j < k)
    <3>1. /\ runs[s] # <<>> /\ ~(Last(runs[s]).last < k) /\ k \in Int /\ j \in Int
          /\ Last(runs[s]).last < j
      BY <1>4, <1>7, <2>2 DEF Unlogged, D
    <3>2. Last(runs[s]).last \in Int
      BY <1>5, <3>1, RunsAreRecords DEF Last, ExactRuns
    <3> QED
      BY <3>1, <3>2
  <2>3. ~(j < j)
    BY <1>4
  <2> QED
    BY <1>4, <1>9, <2>1, <2>2, <2>3
<1>11. ASSUME NEW t \in 1 .. Len(Sections)
       PROVE  /\ Described(t)' = Described(t)
              /\ DOMAIN db'[t] = DOMAIN db[t]
              /\ t # s => Unlogged(t)' = Unlogged(t)
  BY <1>2, <1>3 DEF Described, Describe, Unlogged
<1>12. ASSUME NEW t \in 1 .. Len(Sections)
       PROVE  /\ runs'[t] \in Seq([first : Int, last : Int, desc : Range(Described(t))])
              /\ \A n \in DOMAIN runs'[t] : runs'[t][n].first <= runs'[t][n].last
              /\ AreExact(runs'[t], DOMAIN db[t] \ Unlogged(t)', Described(t))
  <2>1. CASE t = s
    BY <1>8, <1>10, <2>1 DEF D, T, RunsOver, ExactRuns
  <2>2. CASE t # s
    <3>1. runs'[t] = runs[t]
      BY <1>3, <2>2
    <3>2. Unlogged(t)' = Unlogged(t)
      BY <1>11, <2>2, Zenon
    <3>3. /\ runs[t] \in Seq([first : Int, last : Int, desc : Range(Described(t))])
          /\ \A n \in DOMAIN runs[t] : runs[t][n].first <= runs[t][n].last
          /\ AreExact(runs[t], DOMAIN db[t] \ Unlogged(t), Described(t))
      BY DEF RunsOK
    <3> QED
      BY <3>1, <3>2, <3>3, Zenon
  <2> QED
    BY <2>1, <2>2
<1>13. ASSUME NEW t \in 1 .. Len(Sections)
       PROVE  /\ runs'[t] \in Seq([first : Int, last : Int, desc : Range(Described(t)')])
              /\ \A n \in DOMAIN runs'[t] : runs'[t][n].first <= runs'[t][n].last
              /\ AreExact(runs'[t], DOMAIN db'[t] \ Unlogged(t)', Described(t)')
  <2>1. Described(t)' = Described(t) /\ DOMAIN db'[t] = DOMAIN db[t]
    BY <1>11, Zenon
  <2> QED
    BY <1>12, <2>1, Zenon
<1> QED
  BY <1>2, <1>3, <1>13 DEF RunsOK, AreExact, Range

\* No other step takes an exact run away.
LEMMA LoaderKeepsRuns ==
    LoaderInv /\ [LoaderNext]_loaderAllVars => RunsOK'
<1> SUFFICES ASSUME LoaderInv, [LoaderNext]_loaderAllVars PROVE RunsOK'
  OBVIOUS
<1>1. RunsOK /\ PointsOK
  BY DEF LoaderInv, DatabaseInv
<1>2. CASE \E s \in 1 .. Len(Sections) : logPointRuns(s)
  BY <1>1, <1>2, LogKeepsRuns
\* Until start() has built the database nothing of it is logged.
<1>3. CASE stage = "loaded" /\ Next /\ UNCHANGED loaderVars
  <2>1. phase # "done" /\ stage' = "loaded" /\ runs' = runs
    BY <1>3 DEF Next, validatePointDatabase, configureDefaultDatabase, NextEntry,
       ConfigurePoint, RangeDone, loaderVars
  <2>2. /\ DOMAIN runs = 1 .. Len(Sections)
        /\ \A s \in 1 .. Len(Sections) : runs[s] = <<>>
    BY <1>1, <2>1 DEF RunsOK
  <2>3. ASSUME NEW s \in 1 .. Len(Sections), NEW D, NEW described
        PROVE  /\ runs[s] \in Seq([first : Int, last : Int, desc : Range(described)])
               /\ \A n \in DOMAIN runs[s] : runs[s][n].first <= runs[s][n].last
               /\ AreExact(runs[s], D \ D, described)
    <3>1. runs[s] = <<>> /\ DOMAIN runs[s] = {}
      BY <2>2
    <3> QED
      BY <3>1 DEF AreExact
  <2>4. \A s \in 1 .. Len(Sections) : Unlogged(s)' = DOMAIN db'[s]
    BY <2>1, <2>2 DEF Unlogged
  <2>5. ASSUME NEW s \in 1 .. Len(Sections)
        PROVE  /\ runs'[s] \in Seq([first : Int, last : Int, desc : Range(Described(s)')])
               /\ \A n \in DOMAIN runs'[s] : runs'[s][n].first <= runs'[s][n].last
               /\ AreExact(runs'[s], DOMAIN db'[s] \ Unlogged(s)', Described(s)')
    BY <2>1, <2>3, <2>4, Zenon
  <2> QED
    BY <2>1, <2>2, <2>5 DEF RunsOK, AreExact, Range
\* A step of the loader that logs nothing.
<1>4. CASE /\ UNCHANGED <<runs, db>>
           /\ phase' = phase
           /\ stage' = "logged" => \A s \in 1 .. Len(Sections) : Unlogged(s) = {}
  <2>1. \A s \in 1 .. Len(Sections) :
            /\ Described(s)' = Described(s) /\ Unlogged(s)' = Unlogged(s)
            /\ DOMAIN db'[s] = DOMAIN db[s]
    BY <1>4 DEF Described, Describe, Unlogged
  <2>2. ASSUME NEW s \in 1 .. Len(Sections)
        PROVE  /\ runs[s] \in Seq([first : Int, last : Int, desc : Range(Described(s)')])
               /\ \A n \in DOMAIN runs[s] : runs[s][n].first <= runs[s][n].last
               /\ AreExact(runs[s], DOMAIN db'[s] \ Unlogged(s)', Described(s)')
    <3>1. /\ runs[s] \in Seq([first : Int, last : Int, desc : Range(Described(s))])
          /\ \A n \in DOMAIN runs[s] : runs[s][n].first <= runs[s][n].last
          /\ AreExact(runs[s], DOMAIN db[s] \ Unlogged(s), Described(s))
      BY <1>1 DEF RunsOK
    <3> QED
      BY <2>1, <3>1, Zenon
  <2>3. runs' = runs
    BY <1>4
  <2>4. ASSUME NEW s \in 1 .. Len(Sections)
        PROVE  /\ runs'[s] \in Seq([first : Int, last : Int, desc : Range(Described(s)')])
               /\ \A n \in DOMAIN runs'[s] : runs'[s][n].first <= runs'[s][n].last
               /\ AreExact(runs'[s], DOMAIN db'[s] \ Unlogged(s)', Described(s)')
    BY <2>2, <2>3, Zenon
  <2>5. /\ DOMAIN runs' = 1 .. Len(Sections)
        /\ phase' # "done" => \A s \in 1 .. Len(Sections) : runs'[s] = <<>>
        /\ stage' = "logged" => \A s \in 1 .. Len(Sections) : Unlogged(s)' = {}
    BY <1>1, <1>4, <2>1, <2>3 DEF RunsOK
  <2> QED
    BY <2>4, <2>5 DEF RunsOK, AreExact, Range
<1>5. CASE OpenFile \/ load_from_json \/ parsePointDatabase \/ ApplyEnvironment
  <2>1. launch.file.state \in {"none", "unreadable", "malformed", "document"}
    BY LaunchesAssumption DEF LoaderInv, StagesOK
  <2>2. UNCHANGED <<runs, db, phase>> /\ stage' # "logged"
    BY <1>5, <2>1 DEF OpenFile, load_from_json, parsePointDatabase, ApplyEnvironment, vars
  <2> QED
    BY <1>4, <2>2
<1>6. CASE logDatabaseSummary
  BY <1>4, <1>6 DEF logDatabaseSummary, vars
<1>7. CASE UNCHANGED loaderAllVars
  <2>1. UNCHANGED <<runs, db, phase, stage>>
    BY <1>7 DEF loaderAllVars, vars, loaderVars
  <2> QED
    BY <1>1, <1>4, <2>1 DEF RunsOK
<1> QED
  BY <1>2, <1>3, <1>5, <1>6, <1>7 DEF LoaderNext

-----------------------------------------------------------------------------
(* Theorems *)

\* The inductive invariant holds in every reachable state.
THEOREM LoaderInvariant == LoaderSpec => []LoaderInv
<1>1. LoaderInv /\ [LoaderNext]_loaderAllVars => LoaderInv'
  BY LoaderKeepsDatabase, LoaderKeepsStages, LoaderKeepsSettings, LoaderKeepsRuns
  DEF LoaderInv
<1> QED
  BY <1>1, LoaderInitEstablishes, PTL DEF LoaderSpec, loaderAllVars

\* No index leaves the 16 bits, the counter of a range passes the largest index by
\* one at most, and a field of a point never has a name opendnp3 does not know.
THEOREM DatabaseTypeCorrect == LoaderSpec => []TypeOK
<1>1. LoaderInv => TypeOK
  <2> SUFFICES ASSUME LoaderInv PROVE TypeOK
    OBVIOUS
  <2>1. LoopsOK /\ PointsOK
    BY DEF LoaderInv, DatabaseInv
  <2>2. entry \in Nat /\ fellBack \in BOOLEAN
    BY <2>1 DEF LoopsOK
  <2> QED
    BY <2>1, <2>2 DEF TypeOK, LoopsOK
<1> QED
  BY <1>1, LoaderInvariant, PTL

\* The summary in the log says exactly what opendnp3 got.
THEOREM SummaryCorrect == LoaderSpec => []LoggedRunsAreExact
<1>1. LoaderInv => LoggedRunsAreExact
  <2> SUFFICES ASSUME LoaderInv, stage = "logged", NEW s \in 1 .. Len(Sections)
               PROVE  AreExact(runs[s], DOMAIN db[s], Described(s))
    BY DEF LoggedRunsAreExact
  <2>1. /\ Unlogged(s) = {}
        /\ AreExact(runs[s], DOMAIN db[s] \ Unlogged(s), Described(s))
    BY DEF LoaderInv, RunsOK
  <2>2. DOMAIN db[s] \ Unlogged(s) = DOMAIN db[s]
    BY <2>1
  <2> QED
    BY <2>1, <2>2, Zenon
<1> QED
  BY <1>1, LoaderInvariant, PTL

\* The bridge runs with what was said last of each setting.
THEOREM SettingsCorrect == LoaderSpec => []EffectiveSettings
<1>1. LoaderInv => EffectiveSettings
  BY DEF LoaderInv
<1> QED
  BY <1>1, LoaderInvariant, PTL

\* toEnum() never meets a name it does not know.
THEOREM FallbackUnreached == LoaderSpec => []FallbackIsUnreachable
<1>1. LoaderInv => FallbackIsUnreachable
  BY DEF LoaderInv, DatabaseInv, LoopsOK, FallbackIsUnreachable
<1> QED
  BY <1>1, LoaderInvariant, PTL

\* When the loops end, everything is laid.
LEMMA AllLaid ==
    ASSUME DatabaseInv, phase = "done", ~Empty, NEW s \in 1 .. Len(Sections),
           NEW k \in 1 .. Len(cfg[s]), NEW j
    PROVE  Laid(s, k, j) <=> Covers(cfg[s][k], j)
<1>1. section = Len(Sections) + 1
  BY DEF DatabaseInv, LoopsOK
<1>2. s < section
  BY <1>1, SectionsAssumption
<1> QED
  BY <1>2 DEF Laid

\* Overlapping entries add to each other, and the last to set a field decides.
THEOREM OverlayCorrect == LoaderSpec => []LastSetterWins
<1>1. LoaderInv => LastSetterWins
  <2> SUFFICES ASSUME LoaderInv, phase = "done", ~Empty, NEW s \in 1 .. Len(Sections)
               PROVE  /\ DOMAIN db[s] = {j \in 0 .. IndexRange - 1 :
                            \E k \in 1 .. Len(cfg[s]) : Covers(cfg[s][k], j)}
                      /\ \A j \in DOMAIN db[s], f \in DOMAIN Initial :
                            db[s][j][f] = Effective(s, j, f)
    BY DEF LastSetterWins
  <2>1. DatabaseInv /\ BuiltSoFar
    BY DEF LoaderInv, DatabaseInv
  <2>2. \A k \in 1 .. Len(cfg[s]) : \A j : Laid(s, k, j) <=> Covers(cfg[s][k], j)
    BY <2>1, AllLaid
  <2>3. \A j, f : SettersSoFar(s, j, f) =
            {k \in 1 .. Len(cfg[s]) :
                f \in Fields[s] /\ Covers(cfg[s][k], j) /\ cfg[s][k].set[f] # Unset}
    BY <2>2 DEF SettersSoFar
  <2>4. \A j, f : Effective(s, j, f) =
            IF SettersSoFar(s, j, f) = {} THEN Initial[f]
            ELSE cfg[s][Max(SettersSoFar(s, j, f))].set[f]
    BY <2>3 DEF Effective
  <2> QED
    BY <2>1, <2>2, <2>4 DEF BuiltSoFar
<1> QED
  BY <1>1, LoaderInvariant, PTL

\* Every entry of the file makes points, at exactly the indices it names.
THEOREM EntriesCorrect == LoaderSpec => []NoEntryIsVoid
<1>1. LoaderInv => NoEntryIsVoid
  <2> DEFINE Indices(raw) == Named(raw)[1] % IndexRange .. Named(raw)[2] % IndexRange
  <2> SUFFICES ASSUME LoaderInv, phase = "done", ~Empty, NEW s \in 1 .. Len(Sections)
               PROVE  /\ \A n \in DOMAIN launch.file.points[s] :
                            Indices(launch.file.points[s][n]) # {}
                      /\ DOMAIN db[s] = UNION {Indices(launch.file.points[s][n]) :
                                                n \in DOMAIN launch.file.points[s]}
    BY DEF NoEntryIsVoid
  <2> DEFINE raws == launch.file.points[s]
  <2>1. /\ DatabaseInv /\ BuiltSoFar /\ checkSection(s) /\ ConfigOK
        /\ stage \in {"loaded", "logged"} /\ launch \in Launches
    BY DEF LoaderInv, DatabaseInv, LoopsOK, StagesOK
  <2>2. cfg[s] = parsePointConfigs(raws)
    BY <2>1 DEF LoaderInv, StagesOK
  <2>3. raws \in Seq(Range(raws))
    BY <2>1, LaunchesAssumption
  <2> HIDE DEF raws
  <2>4. /\ DOMAIN raws = 1 .. Len(cfg[s]) /\ Len(cfg[s]) \in Nat
        /\ \A n \in 1 .. Len(cfg[s]) :
            Indices(raws[n]) = cfg[s][n].start .. cfg[s][n].end
    BY <2>2, <2>3, ParseProperties
  <2>5. \A n \in 1 .. Len(cfg[s]) :
            /\ cfg[s][n].start \in 0 .. IndexRange - 1
            /\ cfg[s][n].end \in 0 .. IndexRange - 1
            /\ cfg[s][n].start <= cfg[s][n].end
    BY <2>1 DEF ConfigOK, checkSection, checkRange
  <2> HIDE DEF Indices
  <2>6. \A n \in DOMAIN raws : Indices(raws[n]) # {}
    <3> SUFFICES ASSUME NEW n \in 1 .. Len(cfg[s]) PROVE Indices(raws[n]) # {}
      BY <2>4
    <3>1. cfg[s][n].start \in cfg[s][n].start .. cfg[s][n].end
      BY <2>5, WidthAssumption
    <3> QED
      BY <2>4, <3>1
  <2>7. DOMAIN db[s] = {j \in 0 .. IndexRange - 1 :
                            \E k \in 1 .. Len(cfg[s]) : Covers(cfg[s][k], j)}
    BY <2>1, AllLaid DEF BuiltSoFar
  <2>8. \A j \in 0 .. IndexRange - 1, k \in 1 .. Len(cfg[s]) :
            Covers(cfg[s][k], j) <=> j \in Indices(raws[k])
    BY <2>4, <2>5, WidthAssumption DEF Covers
  <2>9. ASSUME NEW k \in 1 .. Len(cfg[s]), NEW j \in Indices(raws[k])
        PROVE  j \in 0 .. IndexRange - 1
    <3>1. j \in cfg[s][k].start .. cfg[s][k].end
      BY <2>4, <2>9
    <3>2. \A x, y \in 0 .. IndexRange - 1 : x .. y \subseteq 0 .. IndexRange - 1
      BY WidthAssumption
    <3> QED
      BY <2>5, <3>1, <3>2
  <2>10. DOMAIN db[s] = UNION {Indices(raws[n]) : n \in DOMAIN raws}
    BY <2>4, <2>7, <2>8, <2>9
  <2> QED
    BY <2>6, <2>10 DEF raws
<1> QED
  BY <1>1, LoaderInvariant, PTL

\* Validation looks at each entry the way the file has it.
LEMMA CheckedAsWritten ==
    ASSUME LoaderInv, IsDocument, stage \in {"loaded", "logged"},
           NEW s \in 1 .. Len(Sections)
    PROVE  checkSection(s) <=> \A n \in DOMAIN launch.file.points[s] :
                                    ~IsRefused(s, launch.file.points[s][n])
<1> DEFINE raws == launch.file.points[s]
<1>1. cfg[s] = parsePointConfigs(raws) /\ launch \in Launches
  BY DEF LoaderInv, StagesOK
<1>2. raws \in Seq(Range(raws))
  BY <1>1, LaunchesAssumption
<1>3. ASSUME NEW n \in DOMAIN raws
      PROVE  /\ Named(raws[n])[1] % IndexRange \in Int
             /\ Named(raws[n])[2] % IndexRange \in Int
  <2>1. ~Throws(raws[n])
    BY <1>3 DEF LoaderInv, StagesOK
  <2>2. /\ Named(raws[n])[1] \in Nat \cup {WrongType}
        /\ Named(raws[n])[2] \in Nat \cup {WrongType}
    BY <1>1, <1>3, LaunchesAssumption
  <2>3. Named(raws[n])[1] \in Nat /\ Named(raws[n])[2] \in Nat
    BY <2>1, <2>2 DEF Throws
  <2> QED
    BY <2>3, WidthAssumption
<1> HIDE DEF raws
<1>4. /\ DOMAIN raws = 1 .. Len(cfg[s])
      /\ \A n \in DOMAIN raws :
            /\ cfg[s][n].start = Named(raws[n])[1] % IndexRange
            /\ cfg[s][n].end = Named(raws[n])[2] % IndexRange
            /\ cfg[s][n].set = raws[n].set
  BY <1>1, <1>2, ParseProperties
<1>5. ASSUME NEW n \in DOMAIN raws
      PROVE  /\ checkRange(cfg[s][n]) <=>
                    ~(Named(raws[n])[1] % IndexRange > Named(raws[n])[2] % IndexRange)
             /\ \A f \in Fields[s] \cap EnumFields :
                    checkEnum(f, cfg[s][n].set[f]) <=>
                        raws[n].set[f] \in Names[f] \cup {Unset}
  BY <1>3, <1>4, <1>5 DEF checkRange, checkEnum
<1> QED
  BY <1>4, <1>5 DEF checkSection, IsRefused, raws

\* The process ends on exactly the errors that are looked for, each in its own way,
\* before start() has made any part of such a file a database.
THEOREM RefusalCorrect == LoaderSpec => []RefusalIsExact
<1>1. LoaderInv => RefusalIsExact
  <2> SUFFICES ASSUME LoaderInv PROVE RefusalIsExact
    OBVIOUS
  <2>1. /\ stage = "failed" => Unreadable
        /\ stage = "terminated" => IllTyped
        /\ phase # "validate" => stage \in {"loaded", "logged"}
        /\ launch.file.state \in {"none", "document"} \/ phase = "validate"
    BY DEF LoaderInv, StagesOK
\* What is loaded has no value of a wrong type.
  <2>2. phase # "validate" => ~IllTyped
    <3>1. ASSUME phase # "validate", IsDocument
          PROVE  /\ \A k \in Settings : launch.file.settings[k] # WrongType
                 /\ \A s \in 1 .. Len(Sections) :
                        \A n \in DOMAIN launch.file.points[s] :
                            ~Throws(launch.file.points[s][n])
      BY <2>1, <3>1, AbsentAssumption DEF LoaderInv, StagesOK, Given
    <3> QED
      BY <3>1 DEF IllTyped
\* An empty database passes, and one from a file passes as the file has it.
  <2>3. phase # "validate" /\ ~IsDocument => \A s \in 1 .. Len(Sections) : checkSection(s)
    <3> SUFFICES ASSUME phase # "validate", ~IsDocument, NEW s \in 1 .. Len(Sections)
                 PROVE  checkSection(s)
      OBVIOUS
    <3>1. cfg[s] = <<>>
      BY <2>1 DEF LoaderInv, StagesOK, Empty
    <3> QED
      BY <3>1 DEF checkSection
  <2>4. phase # "validate" =>
            (Refused <=> \E s \in 1 .. Len(Sections) : ~checkSection(s))
    <3>1. CASE IsDocument
      BY <2>1, <3>1, CheckedAsWritten DEF Refused
    <3>2. CASE ~IsDocument
      BY <2>3, <3>2 DEF Refused
    <3> QED
      BY <3>1, <3>2
  <2>5. /\ phase \in {"entry", "range", "done"} =>
                \A s \in 1 .. Len(Sections) : checkSection(s)
        /\ phase = "rejected" => \E s \in 1 .. Len(Sections) : ~checkSection(s)
    BY DEF LoaderInv, DatabaseInv, LoopsOK
  <2>6. phase # "validate" => ~Unreadable
    BY <2>1 DEF Unreadable
  <2> QED
    BY <2>1, <2>2, <2>4, <2>5, <2>6 DEF RefusalIsExact
<1> QED
  BY <1>1, LoaderInvariant, PTL

=============================================================================
