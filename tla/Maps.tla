-------------------------------- MODULE Maps --------------------------------
(***************************************************************************)
(* Functions with a finite domain taken as maps: the map with one entry,   *)
(* and f laid over g.                                                      *)
(***************************************************************************)
Entry(e, x) == [f \in {e} |-> x]
f ++ g == [e \in DOMAIN f \cup DOMAIN g |-> IF e \in DOMAIN f THEN f[e] ELSE g[e]]
=============================================================================
