----------------------------- MODULE MCMasterView -----------------------------
(***************************************************************************)
(* MasterView for TLC: two analog points, of which one has a deadband, and *)
(* one binary point; room for one event of each kind.                      *)
(***************************************************************************)
EXTENDS MasterView

MCDeadband == [i \in 1 .. 2 |-> 2 - i]
MCEventBufferConfig == [kind \in Kinds |-> 1]
MCClassMask == <<"class1", "class2">>
MCClassOf == [kind \in Kinds |-> IF kind = "binary" THEN "class1" ELSE "class2"]

=============================================================================
