------------------------------ MODULE MCRedis ------------------------------
(***************************************************************************)
(* Small instances of Redis for TLC.                                       *)
(***************************************************************************)
EXTENDS RedisInvariant, TLC

CONSTANTS k1, m1, m2, x1, e1, w1, r1

\* Every writer uses every key.
Shared == [c \in Writers |-> Keys]

IndexFloor == -2
IndexCeiling == -1

Symmetry == Permutations(Members) \cup Permutations(Values)
=============================================================================
