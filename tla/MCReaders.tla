----------------------------- MODULE MCReaders -----------------------------
(***************************************************************************)
(* A small instance of Readers for TLC.                                    *)
(***************************************************************************)
EXTENDS ReadersInvariant

\* In order: 1, 1.2, 2; nothing is put with the key 1.1.
OnePut == {<<1, 2>>}
TwoInBatch == {<<1>>, <<2>>}
AllOrOne == {<<>>, <<1>>}
BetweenAndOn == {<<1, 1>>, <<2>>}
=============================================================================
