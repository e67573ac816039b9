------------------------ MODULE MCCommandDispatcher ------------------------
(***************************************************************************)
(* CommandDispatcher for TLC: symmetry over the callers, the writers and   *)
(* the answers, which the specification only compares for equality.        *)
(***************************************************************************)
EXTENDS CommandDispatcher, TLC

Symmetry ==
    Permutations(Callers) \cup Permutations(Writers) \cup Permutations(Answers)

=============================================================================
