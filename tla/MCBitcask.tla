----------------------------- MODULE MCBitcask -----------------------------
(***************************************************************************)
(* Small instances of Bitcask for TLC.                                     *)
(***************************************************************************)
EXTENDS AgreeInvariant, TLC

CONSTANTS k1, k2, k3, v1, v2, d1, d2, b1

\* Every client writes every key.
Shared == [c \in Clients |-> Keys]

Symmetry == Permutations(Keys) \cup Permutations(DirectClients)

\* No key has two writers: d1 and d2 write k1 and k2, the batches the rest.
Disjoint == [c \in Clients |-> IF c = d1 THEN {k1} ELSE IF c = d2 THEN {k2}
                               ELSE Keys \ ({k1} \cup IF d2 \in Clients THEN {k2} ELSE {})]

\* With Disjoint and without d2 the keys of the batch are alike.
BatchSymmetry == Permutations(Keys \ {k1})
=============================================================================
