----------------------------- MODULE ConfigLoader -----------------------------
(***************************************************************************)
(* config/ConfigLoader in front of PointDatabase: what main() does of a    *)
(* configuration file and an environment, up to the database that opendnp3 *)
(* gets and the summary of it in the log.                                  *)
(*                                                                         *)
(* An error is one of two kinds.  A file that cannot be opened or is not   *)
(* JSON makes load() return an error, and main() returns 1.  A value of    *)
(* the wrong type makes get<>() throw what nobody catches: the process     *)
(* terminates.                                                             *)
(***************************************************************************)
EXTENDS PointDatabase, SequencesExt

CONSTANTS
    Settings,       \* the keys of the file outside point_database
    EnvSettings,    \* those that an environment variable overrides
    Width,          \* Width[k]: 2^16 or 2^32 for a number, 0 for a text
    DefaultOf,      \* AppConfig's initializers
    Absent,         \* a key the file lacks, a variable that is not set
    WrongType,      \* a JSON value that get<>() throws on
    NotANumber,     \* the value of a variable that stoul() throws on
    Launches        \* [file, env]: what the process may be started with

ASSUME EnvAssumption == EnvSettings \subseteq Settings
ASSUME AbsentAssumption == Absent # WrongType

VARIABLES
    launch,     \* the file and the environment
    stage,      \* "file", "settings", "points", "env", "loaded", "logged", or
                \* "failed" (load() returned an error), "terminated"
    app,        \* AppConfig, without the point database
    runs        \* the runs of logPointRuns(), section by section

loaderVars == <<launch, stage, app, runs>>

LoaderInit ==
    /\ Init
    /\ launch \in Launches
    /\ stage = "file"
    /\ app = DefaultOf
    /\ runs = [s \in 1 .. Len(Sections) |-> <<>>]

-----------------------------------------------------------------------------
(* load() *)

\* Variant: a file that cannot be read is no file.
OpenFileLeniently ==
    /\ stage = "file"
    /\ stage' = IF launch.file.state = "document" THEN "settings" ELSE "env"
    /\ UNCHANGED <<vars, launch, app, runs>>

\* Without a path the file is not read at all.
OpenFile ==
    /\ stage = "file"
    /\ stage' = CASE launch.file.state = "none" -> "env"
                  [] launch.file.state \in {"unreadable", "malformed"} -> "failed"
                  [] launch.file.state = "document" -> "settings"
    /\ UNCHANGED <<vars, launch, app, runs>>

\* A number is cut to the width of its member, a text is taken as it is.
Cut(k, value) == IF Width[k] = 0 THEN value ELSE value % Width[k]

\* The initializers fit their members.
ASSUME DefaultsAssumption == \A k \in Settings : Cut(k, DefaultOf[k]) = DefaultOf[k]

\* The settings that the file has, those of event_buffer and unsolicited among
\* them; a list is one setting.
Given == {k \in Settings : launch.file.settings[k] # Absent}

\* They replace the defaults.
load_from_json ==
    /\ stage = "settings"
    /\ \/ /\ \E k \in Given : launch.file.settings[k] = WrongType
          /\ stage' = "terminated"
          /\ UNCHANGED app
       \/ /\ \A k \in Given : launch.file.settings[k] # WrongType
          /\ app' = [k \in Settings |->
                        IF k \in Given THEN Cut(k, launch.file.settings[k]) ELSE app[k]]
          /\ stage' = "points"
    /\ UNCHANGED <<vars, launch, runs>>

\* The first and the last index of an entry, as written: "range" goes before
\* "index", and an entry with neither is point 0.
Named(raw) ==
    IF raw.range # Absent THEN raw.range
    ELSE IF raw.index # Absent THEN <<raw.index, raw.index>> ELSE <<0, 0>>

\* What can stand in a file: sections of entries, whose indices and deadbands are
\* numbers or not.
ASSUME LaunchesAssumption ==
    \A l \in Launches :
        /\ l.file.state \in {"none", "unreadable", "malformed", "document"}
        /\ \A s \in 1 .. Len(Sections) :
            /\ l.file.points[s] \in Seq(Range(l.file.points[s]))
            /\ \A n \in DOMAIN l.file.points[s] :
                /\ Named(l.file.points[s][n])[1] \in Nat \cup {WrongType}
                /\ Named(l.file.points[s][n])[2] \in Nat \cup {WrongType}
                /\ Fields[s] \subseteq DOMAIN l.file.points[s][n].set
                /\ \A f \in Fields[s] \ EnumFields :
                    l.file.points[s][n].set[f] \in Int \cup {Unset, WrongType}

Throws(raw) ==
    \/ WrongType \in {Named(raw)[1], Named(raw)[2]}
    \/ \E f \in DOMAIN raw.set : raw.set[f] = WrongType

parsePointConfigs(raws) ==
    [n \in DOMAIN raws |->
        [start |-> Named(raws[n])[1] % IndexRange,
         end |-> Named(raws[n])[2] % IndexRange,
         set |-> raws[n].set]]

parsePointDatabase ==
    /\ stage = "points"
    /\ \/ /\ \E s \in DOMAIN cfg : \E n \in DOMAIN launch.file.points[s] :
                Throws(launch.file.points[s][n])
          /\ stage' = "terminated"
          /\ UNCHANGED cfg
       \/ /\ \A s \in DOMAIN cfg : \A n \in DOMAIN launch.file.points[s] :
                ~Throws(launch.file.points[s][n])
          /\ cfg' = [s \in DOMAIN cfg |-> parsePointConfigs(launch.file.points[s])]
          /\ stage' = "env"
    /\ UNCHANGED <<phase, section, entry, i, db, fellBack, launch, app, runs>>

\* Variant: a number that cannot be read sets the default again.
EnvOrDefault(k) ==
    IF k \notin EnvSettings \/ launch.env[k] = Absent THEN app[k]
    ELSE IF launch.env[k] = NotANumber THEN DefaultOf[k]
    ELSE Cut(k, launch.env[k])

\* env_or(), env_uint16(), env_uint32(): a variable that is set overrides, an
\* empty text included; a number that stoul() does not read leaves what was there.
EnvOr(k) ==
    IF k \in EnvSettings /\ launch.env[k] \notin {Absent, NotANumber}
    THEN Cut(k, launch.env[k]) ELSE app[k]

ApplyEnvironment ==
    /\ stage = "env"
    /\ app' = [k \in Settings |-> EnvOr(k)]
    /\ stage' = "loaded"
    /\ UNCHANGED <<vars, launch, runs>>

-----------------------------------------------------------------------------
(* logDatabaseSummary() *)

\* What the summary says of a point.
Describe(s, j) == [f \in Fields[s] |-> db[s][j][f]]

\* Variant: a gap in the indices does not end a run.
AddToRunsGaps(s, logged, j) ==
    IF logged # <<>> /\ Last(logged).desc = Describe(s, j)
    THEN [logged EXCEPT ![Len(logged)].last = j]
    ELSE Append(logged, [first |-> j, last |-> j, desc |-> Describe(s, j)])

\* The next point extends the run, or starts another.
AddToRuns(s, logged, j) ==
    IF logged # <<>> /\ Last(logged).last + 1 = j /\ Last(logged).desc = Describe(s, j)
    THEN [logged EXCEPT ![Len(logged)].last = j]
    ELSE Append(logged, [first |-> j, last |-> j, desc |-> Describe(s, j)])

\* The points that the iterator has not reached.
Unlogged(s) == {j \in DOMAIN db[s] : runs[s] = <<>> \/ Last(runs[s]).last < j}

\* One step of the iterator, which takes the points of a section in their order,
\* after those of the sections before.  The last run is printed once it is over.
logPointRuns(s) ==
    /\ stage = "loaded"
    /\ phase = "done"
    /\ \A before \in 1 .. s - 1 : Unlogged(before) = {}
    /\ \E j \in Unlogged(s) :
        /\ \A k \in Unlogged(s) : j <= k
        /\ runs' = [runs EXCEPT ![s] = AddToRuns(s, @, j)]
    /\ UNCHANGED <<vars, launch, stage, app>>

\* Every section is logged.
logDatabaseSummary ==
    /\ stage = "loaded"
    /\ phase = "done"
    /\ \A s \in 1 .. Len(Sections) : Unlogged(s) = {}
    /\ stage' = "logged"
    /\ UNCHANGED <<vars, launch, app, runs>>

-----------------------------------------------------------------------------

LoaderNext ==
    \/ OpenFile
    \/ load_from_json
    \/ parsePointDatabase
    \/ ApplyEnvironment
    \/ stage = "loaded" /\ Next /\ UNCHANGED loaderVars
    \/ \E s \in 1 .. Len(Sections) : logPointRuns(s)
    \/ logDatabaseSummary

\* The program is sequential and nothing blocks it.
LoaderSpec ==
    /\ LoaderInit
    /\ [][LoaderNext]_<<vars, loaderVars>>
    /\ WF_<<vars, loaderVars>>(LoaderNext)

-----------------------------------------------------------------------------
(* Properties; those of PointDatabase are checked of this composition too *)

\* What the operator said last of a setting: in the environment, unless it is
\* unreadable there, in the file, or not at all.
LastSaid(k) ==
    IF k \in EnvSettings /\ launch.env[k] \notin {Absent, NotANumber} THEN launch.env[k]
    ELSE IF launch.file.state = "document" /\ launch.file.settings[k] # Absent
         THEN launch.file.settings[k] ELSE DefaultOf[k]

\* The bridge runs with what was said last of each setting, cut to its width:
\* a variable that cannot be read never takes the file's value away.
EffectiveSettings ==
    stage \in {"loaded", "logged"} => \A k \in Settings : app[k] = Cut(k, LastSaid(k))

IsDocument == launch.file.state = "document"

\* The errors that some step looks for.  The file is not there, or not JSON.
Unreadable == launch.file.state \in {"unreadable", "malformed"}

\* A value that the code reads has another type than the code wants.
IllTyped ==
    /\ IsDocument
    /\ \/ \E k \in Settings : launch.file.settings[k] = WrongType
       \/ \E s \in 1 .. Len(Sections) : \E n \in DOMAIN launch.file.points[s] :
            Throws(launch.file.points[s][n])

\* An entry's range is reversed once it is cut, or a field that its section
\* applies has a name the DNP3 layer does not know.
IsRefused(s, raw) ==
    \/ Named(raw)[1] % IndexRange > Named(raw)[2] % IndexRange
    \/ \E f \in Fields[s] \cap EnumFields : raw.set[f] \notin Names[f] \cup {Unset}

Refused ==
    /\ IsDocument
    /\ \E s \in 1 .. Len(Sections) : \E n \in DOMAIN launch.file.points[s] :
            IsRefused(s, launch.file.points[s][n])

\* Each of these errors, and nothing else, ends the process, and each in its own
\* way: load() returns an error, nobody catches what get<>() throws, or the
\* validation of the point database fails.  start() begins only after a file
\* with none of them, so no part of such a file reaches an outstation.  Whatever
\* else may be wrong starts: a misspelt command_mode or log_level is a text like
\* any other, a misspelt class_mask is a list of texts, and a variation in a
\* section that does not apply it is not looked at.
RefusalIsExact ==
    /\ stage = "failed" => Unreadable
    /\ stage = "terminated" => IllTyped
    /\ phase = "rejected" => ~IllTyped /\ Refused
    /\ phase \in {"entry", "range", "done"} => ~Unreadable /\ ~IllTyped /\ ~Refused

\* The database has exactly the indices that the entries of the file name, cut
\* to 16 bits, and no entry is void: one reversed by the cut is refused too.
NoEntryIsVoid ==
    phase = "done" /\ ~Empty =>
        \A s \in 1 .. Len(Sections) :
            LET Indices(raw) == Named(raw)[1] % IndexRange .. Named(raw)[2] % IndexRange
                raws == launch.file.points[s]
            IN  /\ \A n \in DOMAIN raws : Indices(raws[n]) # {}
                /\ DOMAIN db[s] = UNION {Indices(raws[n]) : n \in DOMAIN raws}

\* Runs of exactly these points, with what is said of each.
AreExact(logged, points, described) ==
    LET In(n) == logged[n].first .. logged[n].last
    IN  /\ points = UNION {In(n) : n \in DOMAIN logged}
        /\ \A n \in DOMAIN logged : \A j \in In(n) : logged[n].desc = described[j]
        /\ \A m, n \in DOMAIN logged : m < n => logged[m].last < logged[n].first
        /\ \A n \in DOMAIN logged \ {1} :
                logged[n - 1].last + 1 = logged[n].first
                    => logged[n - 1].desc # logged[n].desc

Described(s) == [j \in DOMAIN db[s] |-> Describe(s, j)]

\* The summary is what opendnp3 got: each point is in exactly one run, with its
\* own description, in order, and no two runs could be one.
LoggedRunsAreExact ==
    stage = "logged" => \A s \in 1 .. Len(Sections) :
        AreExact(runs[s], DOMAIN db[s], Described(s))

\* Every launch ends: in an outstation with its database, or with the process.
\* An entry that ends at the largest index is included: the counter of the
\* range is wider than an index.
ConfigurationEnds ==
    <>(stage \in {"failed", "terminated", "logged"} \/ phase = "rejected")

-----------------------------------------------------------------------------
(* The inductive invariant that the proofs use *)

FromFile(k) ==
    IF IsDocument /\ launch.file.settings[k] # Absent
    THEN Cut(k, launch.file.settings[k]) ELSE DefaultOf[k]

\* How far load() is, and what it has by then.
StagesOK ==
    /\ launch \in Launches
    /\ stage \in {"file", "settings", "points", "env", "loaded", "logged", "failed",
                  "terminated"}
    /\ stage \in {"file", "settings"} => app = DefaultOf
    /\ stage \in {"file", "settings", "points"} => Empty
    /\ stage \in {"settings", "points"} => IsDocument
    /\ stage \in {"points", "env"} => \A k \in Settings : app[k] = FromFile(k)
    /\ stage \in {"env", "loaded", "logged"} =>
        /\ launch.file.state \in {"none", "document"}
        /\ IsDocument =>
            /\ \A k \in Given : launch.file.settings[k] # WrongType
            /\ \A s \in 1 .. Len(Sections) :
                /\ cfg[s] = parsePointConfigs(launch.file.points[s])
                /\ \A n \in DOMAIN launch.file.points[s] : ~Throws(launch.file.points[s][n])
        /\ ~IsDocument => Empty
    /\ stage = "points" => \A k \in Given : launch.file.settings[k] # WrongType
    /\ stage = "failed" => Unreadable
    /\ stage = "terminated" => IllTyped
    /\ stage \notin {"loaded", "logged"} => phase = "validate"

\* The runs so far are exact for the points that the iterator has passed.
RunsOK ==
    /\ DOMAIN runs = 1 .. Len(Sections)
    /\ phase # "done" => \A s \in 1 .. Len(Sections) : runs[s] = <<>>
    /\ stage = "logged" => \A s \in 1 .. Len(Sections) : Unlogged(s) = {}
    /\ \A s \in 1 .. Len(Sections) :
        /\ runs[s] \in Seq([first : Int, last : Int, desc : Range(Described(s))])
        /\ \A n \in DOMAIN runs[s] : runs[s][n].first <= runs[s][n].last
        /\ AreExact(runs[s], DOMAIN db[s] \ Unlogged(s), Described(s))

LoaderInv == DatabaseInv /\ StagesOK /\ EffectiveSettings /\ RunsOK

=============================================================================
