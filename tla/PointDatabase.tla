---------------------------- MODULE PointDatabase ----------------------------
(***************************************************************************)
(* dnp3/OutstationManager: from the configured point_database to the       *)
(* database that opendnp3 gets.  main() validates the configuration, then  *)
(* start() lays the entries over each other: section by section, entry by  *)
(* entry, index by index, and a field an entry leaves unset is left as it  *)
(* is.  ConfigLoader supplies the configuration.                           *)
(*                                                                         *)
(* A name in the configuration (a class, a variation) is a value of its    *)
(* field; the width of an index and of the loop counter are constants, so  *)
(* that the loops can be run up to the largest index.                      *)
(***************************************************************************)
EXTENDS Integers, Sequences, FiniteSetsExt

CONSTANTS
    Sections,       \* the sections of point_database, in the order of the code
    Fields,         \* Fields[s]: the fields a section's loop applies
    EnumFields,     \* the fields whose value is a name
    Names,          \* Names[f]: the names the DNP3 layer accepts for field f
    Fallback,       \* toEnum()'s fallback for each field
    Initial,        \* opendnp3: the value of each field of a point just made
    DefaultLast,    \* DefaultLast[s]: the last index of the default database
    DefaultPoint,   \* DefaultPoint[s]: what its points look like
    Unset,          \* an empty string, an empty optional
    IndexRange,     \* 2^16: an index is a uint16_t
    CounterRange    \* 2^32: the loop counter is a uint32_t

ASSUME WidthAssumption == IndexRange \in Nat \ {0} /\ CounterRange \in Nat
                          /\ IndexRange < CounterRange
ASSUME SectionsAssumption == Len(Sections) \in Nat

\* The values of a field: a known name, or a number.
Value(f) == IF f \in EnumFields THEN Names[f] ELSE Int

ASSUME FieldValuesAssumption ==
    /\ \A f \in DOMAIN Initial : Initial[f] \in Value(f)
    /\ \A s \in 1 .. Len(Sections) :
        /\ DefaultLast[s] \in 0 .. IndexRange - 1
        /\ \A f \in DOMAIN Initial : DefaultPoint[s][f] \in Value(f)

VARIABLES
    cfg,        \* point_database: for each section a sequence of PointConfigs
    phase,      \* "validate", "entry", "range", "done", or "rejected"
    section,    \* the loops' position: number of the section,
    entry,      \*   of the entry in it,
    i,          \*   and the counter of the entry's range
    db,         \* db_config: for each section a function from its points
    fellBack    \* history: toEnum() met a name it does not know

vars == <<cfg, phase, section, entry, i, db, fellBack>>

Init ==
    /\ cfg = [s \in 1 .. Len(Sections) |-> <<>>]
    /\ phase = "validate"
    /\ section = 1
    /\ entry = 1
    /\ i = 0
    /\ db = [s \in 1 .. Len(Sections) |-> <<>>]
    /\ fellBack = FALSE

-----------------------------------------------------------------------------
(* validatePointDatabase() *)

checkRange(pc) == pc.start <= pc.end

checkEnum(f, name) == name = Unset \/ name \in Names[f]

\* Variant: no test of the range.
checkSectionUnranged(s) ==
    \A k \in 1 .. Len(cfg[s]) :
        \A f \in Fields[s] \cap EnumFields : checkEnum(f, cfg[s][k].set[f])

\* Variant: the class is the only name checked, in every section.
checkSectionClass(s) ==
    \A k \in 1 .. Len(cfg[s]) :
        checkRange(cfg[s][k]) /\ checkEnum("clazz", cfg[s][k].set["clazz"])

\* checkBinarySection() and checkAnalogSection(): they differ in the fields.
checkSection(s) ==
    \A k \in 1 .. Len(cfg[s]) :
        /\ checkRange(cfg[s][k])
        /\ \A f \in Fields[s] \cap EnumFields : checkEnum(f, cfg[s][k].set[f])

\* main() returns 1 when the configuration is refused.
validatePointDatabase ==
    /\ phase = "validate"
    /\ phase' = IF \A s \in 1 .. Len(Sections) : checkSection(s)
                THEN "entry" ELSE "rejected"
    /\ UNCHANGED <<cfg, section, entry, i, db, fellBack>>

-----------------------------------------------------------------------------
(* start() *)

Empty == \A s \in 1 .. Len(Sections) : cfg[s] = <<>>

\* configureDefaultDatabase(), when no section has an entry.
configureDefaultDatabase ==
    /\ phase = "entry"
    /\ Empty
    /\ db' = [s \in 1 .. Len(Sections) |->
                [j \in 0 .. DefaultLast[s] |-> DefaultPoint[s]]]
    /\ phase' = "done"
    /\ UNCHANGED <<cfg, section, entry, i, fellBack>>

\* The head of the loops of configureDatabaseFromConfig().
NextEntry ==
    /\ phase = "entry"
    /\ ~Empty
    /\ \/ /\ section > Len(Sections)
          /\ phase' = "done"
          /\ UNCHANGED <<section, entry, i>>
       \/ /\ section <= Len(Sections)
          /\ entry > Len(cfg[section])
          /\ section' = section + 1
          /\ entry' = 1
          /\ UNCHANGED <<phase, i>>
       \/ /\ section <= Len(Sections)
          /\ entry <= Len(cfg[section])
          /\ i' = cfg[section][entry].start
          /\ phase' = "range"
          /\ UNCHANGED <<section, entry>>
    /\ UNCHANGED <<cfg, db, fellBack>>

toEnum(f, name) == IF name \in Names[f] THEN name ELSE Fallback[f]

\* Variant: the entry says it all, an unset field goes back to its initial value.
OverlayWhole(point, s, pc) ==
    [f \in DOMAIN point |->
        IF f \notin Fields[s] THEN point[f]
        ELSE IF pc.set[f] = Unset THEN Initial[f]
        ELSE IF f \in EnumFields THEN toEnum(f, pc.set[f]) ELSE pc.set[f]]

\* What an entry does to a point.
Overlay(point, s, pc) ==
    [f \in DOMAIN point |->
        IF f \notin Fields[s] \/ pc.set[f] = Unset THEN point[f]
        ELSE IF f \in EnumFields THEN toEnum(f, pc.set[f]) ELSE pc.set[f]]

\* db_config.<section>[index]: the point is made if it is not there.
PointAt(s, j) == IF j \in DOMAIN db[s] THEN db[s][j] ELSE Initial

\* Variant: the counter is as wide as an index.
NarrowCount(n) == (n + 1) % IndexRange

\* ++i
Count(n) == (n + 1) % CounterRange

\* Variant: the loop runs one past the end of the range.
ConfigurePointPastEnd ==
    LET pc == cfg[section][entry]
        index == i % IndexRange
        point == Overlay(PointAt(section, index), section, pc)
    IN  /\ phase = "range"
        /\ i <= pc.end + 1
        /\ db' = [db EXCEPT ![section] =
                    [j \in DOMAIN @ \cup {index} |-> IF j = index THEN point ELSE @[j]]]
        /\ i' = Count(i)
        /\ UNCHANGED <<cfg, phase, section, entry, fellBack>>

\* The body of the innermost loop.
ConfigurePoint ==
    LET pc == cfg[section][entry]
        index == i % IndexRange
        point == Overlay(PointAt(section, index), section, pc)
    IN  /\ phase = "range"
        /\ i <= pc.end
        /\ db' = [db EXCEPT ![section] =
                    [j \in DOMAIN @ \cup {index} |-> IF j = index THEN point ELSE @[j]]]
        /\ fellBack' = (fellBack \/ \E f \in Fields[section] \cap EnumFields :
                            pc.set[f] # Unset /\ pc.set[f] \notin Names[f])
        /\ i' = Count(i)
        /\ UNCHANGED <<cfg, phase, section, entry>>

RangeDone ==
    /\ phase = "range"
    /\ i > cfg[section][entry].end
    /\ entry' = entry + 1
    /\ phase' = "entry"
    /\ UNCHANGED <<cfg, section, i, db, fellBack>>

Next ==
    \/ validatePointDatabase
    \/ configureDefaultDatabase
    \/ NextEntry
    \/ ConfigurePoint
    \/ RangeDone

-----------------------------------------------------------------------------
(* Properties *)

\* No point has an index or a name that the DNP3 layer does not know.
PointsOK ==
    \A s \in 1 .. Len(Sections) :
        /\ DOMAIN db[s] \subseteq 0 .. IndexRange - 1
        /\ \A j \in DOMAIN db[s], f \in DOMAIN Initial : db[s][j][f] \in Value(f)

\* The type of every variable (cfg is what the loader made of the file).
TypeOK ==
    /\ phase \in {"validate", "entry", "range", "done", "rejected"}
    /\ section \in 1 .. Len(Sections) + 1
    /\ entry \in Nat
    /\ i \in 0 .. IndexRange
    /\ PointsOK
    /\ fellBack \in BOOLEAN

Covers(pc, j) == pc.start <= j /\ j <= pc.end

\* The last entry of the section that covers index j and sets field f decides.
Effective(s, j, f) ==
    LET setters == {k \in 1 .. Len(cfg[s]) :
                        f \in Fields[s] /\ Covers(cfg[s][k], j) /\ cfg[s][k].set[f] # Unset}
    IN  IF setters = {} THEN Initial[f] ELSE cfg[s][Max(setters)].set[f]

\* The database opendnp3 gets has exactly the points some entry covers, and
\* each field has the value of the last entry that sets it: overlapping entries
\* add to each other, whatever they leave unset and however they overlap.
LastSetterWins ==
    phase = "done" /\ ~Empty =>
        \A s \in 1 .. Len(Sections) :
            /\ DOMAIN db[s] = {j \in 0 .. IndexRange - 1 :
                                \E k \in 1 .. Len(cfg[s]) : Covers(cfg[s][k], j)}
            /\ \A j \in DOMAIN db[s], f \in DOMAIN Initial :
                    db[s][j][f] = Effective(s, j, f)

\* OutstationManager.cpp: validation makes toEnum()'s fallback unreachable, so
\* no misspelt name silently becomes another class or variation on the wire.
FallbackIsUnreachable == ~fellBack

-----------------------------------------------------------------------------
(* The inductive invariant that the proofs use *)

NoPoints == [s \in 1 .. Len(Sections) |-> <<>>]

\* What the loader makes of a file: its entries are ranges of indices, and give
\* numbers where no name is wanted.
ConfigOK ==
    /\ DOMAIN cfg = 1 .. Len(Sections)
    /\ \A s \in 1 .. Len(Sections) :
        /\ Len(cfg[s]) \in Nat
        /\ \A k \in 1 .. Len(cfg[s]) :
            /\ cfg[s][k].start \in 0 .. IndexRange - 1
            /\ cfg[s][k].end \in 0 .. IndexRange - 1
            /\ \A f \in Fields[s] \ EnumFields : cfg[s][k].set[f] \in Int \cup {Unset}

\* The position in the loops.
LoopsOK ==
    /\ phase \in {"validate", "entry", "range", "done", "rejected"}
    /\ section \in 1 .. Len(Sections) + 1
    /\ entry \in Nat \ {0}
    /\ i \in 0 .. IndexRange
    /\ phase \in {"validate", "rejected"} => section = 1 /\ entry = 1 /\ db = NoPoints
    /\ phase \in {"entry", "range", "done"} => \A s \in 1 .. Len(Sections) : checkSection(s)
    /\ phase = "rejected" => \E s \in 1 .. Len(Sections) : ~checkSection(s)
    /\ section <= Len(Sections) => entry <= Len(cfg[section]) + 1
    /\ phase = "range" =>
        /\ section <= Len(Sections)
        /\ entry <= Len(cfg[section])
        /\ i >= cfg[section][entry].start /\ i <= cfg[section][entry].end + 1
        /\ ~Empty
    /\ phase = "done" /\ ~Empty => section = Len(Sections) + 1
    /\ fellBack = FALSE

\* Entry k of section s covers index j, and its turn at j has been.
Laid(s, k, j) ==
    /\ Covers(cfg[s][k], j)
    /\ \/ s < section
       \/ s = section /\ k < entry
       \/ s = section /\ k = entry /\ phase = "range" /\ j < i

SettersSoFar(s, j, f) ==
    {k \in 1 .. Len(cfg[s]) : f \in Fields[s] /\ Laid(s, k, j) /\ cfg[s][k].set[f] # Unset}

\* The points and fields built so far are those of the entries laid so far.
BuiltSoFar ==
    ~(phase = "done" /\ Empty) =>
        /\ DOMAIN db = 1 .. Len(Sections)
        /\ \A s \in 1 .. Len(Sections) :
            /\ DOMAIN db[s] = {j \in 0 .. IndexRange - 1 :
                                \E k \in 1 .. Len(cfg[s]) : Laid(s, k, j)}
            /\ \A j \in DOMAIN db[s] :
                /\ DOMAIN db[s][j] = DOMAIN Initial
                /\ \A f \in DOMAIN Initial :
                    db[s][j][f] =
                        IF SettersSoFar(s, j, f) = {} THEN Initial[f]
                        ELSE cfg[s][Max(SettersSoFar(s, j, f))].set[f]

DatabaseInv == ConfigOK /\ LoopsOK /\ PointsOK /\ BuiltSoFar

=============================================================================
