---------------------------- MODULE MCConfigLoader ----------------------------
(***************************************************************************)
(* ConfigLoader for TLC: a binary and an analog section, indices of two    *)
(* bits and a counter of three; a text, misspelt or empty, and two numbers *)
(* as settings, one of the numbers without a variable.  Every pair of      *)
(* entries of the analog section, every pair of the binary one, entries in *)
(* every form the file allows, and every combination of a file with an     *)
(* environment.                                                            *)
(***************************************************************************)
EXTENDS ConfigLoader

CONSTANTS Class1, Class2, Var1, Var2, Typo, Default, NoText

MCSections == <<"binary_input", "analog_input">>
MCEnumFields == {"clazz", "evariation"}
MCAllFields == MCEnumFields \cup {"deadband"}
MCFields == <<{"clazz"}, MCAllFields>>
MCNames == [clazz |-> {Class1, Class2}, evariation |-> {Var1, Var2}]
MCFallback == [clazz |-> Class1, evariation |-> Var1]
MCInitial == [clazz |-> Class1, evariation |-> Var1, deadband |-> 0]
MCDefaultLast == <<1, 3>>
MCDefaultPoint == <<MCInitial, [MCInitial EXCEPT !.clazz = Class2, !.evariation = Var2]>>

MCSettings == {"command_mode", "dnp3_channel_port", "max_analog_events"}
MCEnvSettings == {"command_mode", "dnp3_channel_port"}
MCWidth == [command_mode |-> 0, dnp3_channel_port |-> 4, max_analog_events |-> 4]
MCDefaultOf == [command_mode |-> Default, dnp3_channel_port |-> 2, max_analog_events |-> 3]

Index == 0 .. IndexRange - 1
Ranges == {[range |-> <<x, y>>, index |-> Absent] : x \in Index, y \in Index}
Unchanged == [clazz |-> Unset, evariation |-> Unset, deadband |-> Unset]
Entry(place, set) == [range |-> place.range, index |-> place.index, set |-> set]
Entries(places, classes, variations, deadbands) ==
    {Entry(place, set) : place \in places,
        set \in [clazz : classes, evariation : variations, deadband : deadbands]}

Analogs == Entries(Ranges, {Unset, Class2, Typo}, {Unset}, {Unset, 1})
Varied == Entries(Ranges, {Unset, Class2}, {Unset, Var2, Typo}, {Unset})
Binaries == Entries(Ranges, {Unset, Class2, Typo}, {Unset}, {Unset})

\* Indices that do not fit, an index instead of a range, both, neither.
Places == [range : {Absent, <<3, IndexRange>>, <<IndexRange, IndexRange + 1>>,
                    <<WrongType, 1>>, <<1, 2>>},
           index : {Absent, 0, 2, IndexRange + 1, WrongType}]
Written == Entries(Places, {Unset, Class2, WrongType}, {Unset}, {Unset})

\* A variation of a binary entry is neither checked nor applied.
Ignored == Entry([range |-> <<1, 2>>, index |-> Absent],
                 [clazz |-> Class2, evariation |-> Typo, deadband |-> 1])

Databases ==
    {<<<<>>, <<x, y>>>> : x \in Analogs, y \in Analogs}
    \cup {<<<<x, y>>, <<>>>> : x \in Binaries, y \in Binaries}
    \cup {<<<<x>>, <<y>>>> : x \in Written, y \in Written}
    \cup {<<<<Ignored>>, <<x>>>> : x \in Varied}

NoSettings == [k \in MCSettings |-> Absent]
NoEnv == [k \in MCEnvSettings |-> Absent]
Files(state, settings, points) ==
    [state : {state}, settings : settings, points : points]

Numbers == {Absent, WrongType, 1, 5}
Documents == Files("document", [command_mode : {Absent, WrongType, Typo},
                                dnp3_channel_port : Numbers,
                                max_analog_events : Numbers], {<<<<>>, <<>>>>})
NoFiles == Files("none", {NoSettings}, {<<<<>>, <<>>>>})
           \cup Files("unreadable", {NoSettings}, {<<<<>>, <<>>>>})
           \cup Files("malformed", {NoSettings}, {<<<<>>, <<>>>>})
Environments == [command_mode : {Absent, NoText, Typo},
                 dnp3_channel_port : {Absent, NotANumber, 0, 6}]

MCLaunches ==
    [file : Files("document", {NoSettings}, Databases), env : {NoEnv}]
    \cup [file : Documents \cup NoFiles, env : Environments]

=============================================================================
