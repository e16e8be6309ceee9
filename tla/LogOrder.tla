------------------------------ MODULE LogOrder ------------------------------
(***************************************************************************)
(* The order in which Open reads the records of the data files: by file    *)
(* (loadDataFiles sorts the ids), then by offset.                          *)
(***************************************************************************)
EXTENDS Integers

Before(p, q) == p.fid < q.fid \/ (p.fid = q.fid /\ p.off < q.off)

First(S) == CHOOSE p \in S : \A q \in S \ {p} : Before(p, q)
Last(S) == CHOOSE p \in S : \A q \in S \ {p} : Before(q, p)
=============================================================================
