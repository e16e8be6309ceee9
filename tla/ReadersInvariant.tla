-------------------------- MODULE ReadersInvariant --------------------------
(***************************************************************************)
(* The inductive invariants behind FoldWhole (who holds db.mu, and what    *)
(* the index holds of a Commit) and IterationComplete (where an iterator   *)
(* is, and what it has yielded).                                           *)
(***************************************************************************)
EXTENDS Readers

WriterCalls == {NoCall} \cup
    [step : {"lock", "drain", "unlock", "index"}, todo : SUBSET Keys, puts : BOOLEAN]

CallsTypeOK ==
    /\ call = [g \in Writers \cup Readers |-> call[g]]
    /\ \A w \in Writers : call[w] \in WriterCalls
    /\ \A r \in Readers : "step" \in DOMAIN call[r]

\* The writer that has shut the readers out, and the one that is alone.
Holds(w) == call[w].step \in {"drain", "unlock"} \/ (At(w, "index") /\ KeepsLock(w))
Alone(w) == At(w, "unlock") \/ (At(w, "index") /\ KeepsLock(w))

LockInv == \A w \in Writers :
    /\ Holds(w) <=> writer = w
    /\ Alone(w) => readers = {}
    /\ At(w, "unlock") => ~KeepsLock(w)

\* Putters leave the keys of the batches alone; a Commit has updated those it
\* need not visit any more.
TodoInv ==
    /\ \A w \in Putters : ~At(w, "idle") => call[w].todo \subseteq PutKeys
    /\ \A w \in Committers :
          /\ call[w].step \in {"lock", "drain"} => call[w].todo = BatchKeys
          /\ At(w, "index") =>
                IF call[w].puts THEN BatchKeys \ call[w].todo \subseteq index
                ELSE (BatchKeys \ call[w].todo) \cap index = {}

Whole(keys) == BatchKeys \subseteq keys \/ BatchKeys \cap keys = {}
WholeInv == (\A w \in Committers : ~At(w, "index")) => Whole(index)

FoldInv == CallsTypeOK /\ LockInv /\ TodoInv /\ WholeInv /\ FoldWhole

-----------------------------------------------------------------------------
\* The inductive invariant behind IterationComplete.

IteratorCalls ==
    [step : {"iterate", "value"}, items : Seq(Keys), reverse : BOOLEAN,
     prefix : IterPrefixes, from : SUBSET SeekKeys, yielded : Seq(Keys), currIndex : Nat]

\* An iterator has yielded what is wanted before currIndex, and stands at a key
\* that is wanted, or at the end.
IteratorOK(c) ==
    /\ c \in IteratorCalls
    /\ InOrder(c.reverse, c.items) /\ InOrder(c.reverse, c.yielded)
    /\ c.currIndex =< Len(c.items)
    /\ ToSet(c.yielded) = Wanted(c) \cap {c.items[i] : i \in 1 .. c.currIndex}
    /\ c.currIndex < Len(c.items) => c.items[c.currIndex + 1] \in Wanted(c)

IterInv ==
    /\ IsFiniteSet(index) /\ index \subseteq Keys
    /\ \A r \in Readers :
          /\ call[r].step \in {"iterate", "value"} => IteratorOK(call[r])
          /\ At(r, "value") => Valid(r)
=============================================================================
