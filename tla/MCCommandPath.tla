---------------------------- MODULE MCCommandPath ----------------------------
(***************************************************************************)
(* CommandPath for TLC: 4-bit integers in place of 16-bit ones, of which   *)
(* the operator types one that does not fit.                               *)
(***************************************************************************)
EXTENDS CommandPath

MCCrobs == {[kind |-> "CROB", payload |-> "LATCH_ON"]}
MCTyped == {9, Invalid}
MCOtherTasks ==
    {[style |-> "direct", command |-> [kind |-> "CROB", payload |-> "UNDEFINED"]]}

=============================================================================
