---------------------------- MODULE MCUpdatePoints ----------------------------
(***************************************************************************)
(* UpdatePoints for TLC: a request has one analog, with an index that does *)
(* not fit, and one binary.                                                *)
(***************************************************************************)
EXTENDS UpdatePoints

MCUpdates == [kind : {"analog", "binary"}, index : 0 .. IndexWidth - 1]
MCRequests ==
    {[analogs |-> <<[index |-> IndexWidth]>>, binaries |-> <<[index |-> 1]>>]}

=============================================================================
