------------------------------ MODULE MCMerge ------------------------------
(***************************************************************************)
(* Small instances of Merge for TLC.                                       *)
(***************************************************************************)
EXTENDS MergeLogInvariant, TLC

CONSTANTS k1, k2, v1, v2, d1, b1

Symmetry == Permutations(Keys) \cup Permutations(Values)
=============================================================================
