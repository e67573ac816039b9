------------------------- MODULE MCOutstationManager -------------------------
(***************************************************************************)
(* OutstationManager for TLC: an analog point with a deadband, one index   *)
(* the database does not have, one binary point.                           *)
(***************************************************************************)
EXTENDS OutstationManager

CONSTANTS NaN

MCFinite == 0 .. 4
MCNonFinite == {NaN}
MCDeadband == [i \in AnalogPoints |-> 1]

=============================================================================
