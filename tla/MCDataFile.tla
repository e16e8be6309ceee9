----------------------------- MODULE MCDataFile -----------------------------
(***************************************************************************)
(* Small instances of DataFile for TLC.                                    *)
(***************************************************************************)
EXTENDS DataFileInvariant, TLC

CONSTANTS k1, k2, v1, v2

Symmetry == Permutations(Keys) \cup Permutations(Values)
=============================================================================
