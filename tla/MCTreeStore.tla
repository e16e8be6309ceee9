---------------------------- MODULE MCTreeStore ----------------------------
(***************************************************************************)
(* Small instances of TreeStore for TLC.                                   *)
(***************************************************************************)
EXTENDS TreeInvariant, TLC

CONSTANTS k1, k2, k3, v1, d1, b1

\* No key has two writers: d1 writes k1, the batch the other keys.
Disjoint == [c \in Clients |-> IF c = d1 THEN {k1} ELSE Keys \ {k1}]
=============================================================================
