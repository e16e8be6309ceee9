------------------------------- MODULE Readers -------------------------------
(***************************************************************************)
(* Readers beside writers: Get, Fold and Iterator (db.go, iterator.go)     *)
(* over the index in memory (index/btree.go, index/art.go), and the        *)
(* read-write lock db.mu that Put, Delete and Commit write under.          *)
(*                                                                         *)
(* A key is the sequence of its bytes.  What a record says is left out:    *)
(* the index is the set of the keys it has.  Commits put all of BatchKeys  *)
(* or delete them all, and nobody else writes these keys.                  *)
(*                                                                         *)
(* The index locks itself (bt.lock) for one operation, which is one step   *)
(* here; a snapshot for an iterator is one as well.  db.mu is Go's         *)
(* RWMutex: a writer first shuts new readers out, then waits for those     *)
(* that are in; its Unlock lets in all who came meanwhile.                 *)
(*                                                                         *)
(* SeekIgnoresReverse, NeverSkips, NeverKeepsLock and LeaksOnMiss are      *)
(* faulty variants of what they stand before; Spec does not use them.      *)
(***************************************************************************)
EXTENDS Integers, Sequences, FiniteSets, SequencesExt

CONSTANTS
    PutKeys, BatchKeys,
    IterPrefixes, SeekKeys,         \* what iterators are asked for
    Putters, Committers, Readers,   \* goroutines
    Iterating,                      \* the readers that use iterators
    NoWriter

Writers == Putters \cup Committers
Keys == PutKeys \cup BatchKeys

ASSUME ReadersAssumption ==
    /\ PutKeys \cap BatchKeys = {} /\ Cardinality(Committers) =< 1
    /\ Putters \cap Committers = {} /\ Writers \cap Readers = {}
    /\ Iterating \subseteq Readers /\ NoWriter \notin Writers
    /\ \A k \in Keys \cup SeekKeys \cup IterPrefixes : k \in Seq(Nat)

VARIABLES
    index,      \* the keys the index has
    \* db.mu
    writer,     \* who holds it for writing, or waits for the readers to leave
    readers,    \* who holds it for reading
    blocked,    \* who asked for it after that writer
    call        \* call[g] : the locals of goroutine g

mu == <<writer, readers, blocked>>
vars == <<index, mu, call>>

NoCall == [step |-> "idle"]
At(g, step) == call[g].step = step
Goto(g, step) == call' = [call EXCEPT ![g].step = step]
Finish(g) == call' = [call EXCEPT ![g] = NoCall]

RLock(r) ==
    /\ IF writer = NoWriter THEN readers' = readers \cup {r} /\ UNCHANGED blocked
       ELSE blocked' = blocked \cup {r} /\ UNCHANGED readers
    /\ UNCHANGED writer

RUnlock(who) == readers' = readers \ who /\ UNCHANGED <<writer, blocked>>

Unlock ==
    /\ writer' = NoWriter
    /\ readers' = readers \cup blocked
    /\ blocked' = {}

-----------------------------------------------------------------------------
\* Writers.  Put and Delete update the index after they have released db.mu,
\* Commit before.

NeverKeepsLock(w) == FALSE
KeepsLock(w) == w \in Committers

WriteStart(w, keys, puts) ==
    /\ At(w, "idle")
    /\ puts \/ keys \subseteq index
    /\ call' = [call EXCEPT ![w] = [step |-> "lock", todo |-> keys, puts |-> puts]]
    /\ UNCHANGED <<index, mu>>

Put(w) == \E k \in PutKeys : WriteStart(w, {k}, TRUE)
Delete(w) == \E k \in PutKeys : WriteStart(w, {k}, FALSE)
CommitStart(w) == \E puts \in BOOLEAN : WriteStart(w, BatchKeys, puts)

\* The writers' own mutex: from here on no reader gets in.
Announce(w) ==
    /\ At(w, "lock") /\ writer = NoWriter
    /\ writer' = w
    /\ Goto(w, "drain")
    /\ UNCHANGED <<index, readers, blocked>>

AppendRecords(w) ==
    /\ At(w, "drain") /\ readers = {}
    /\ Goto(w, IF KeepsLock(w) THEN "index" ELSE "unlock")
    /\ UNCHANGED <<index, mu>>

UnlockEarly(w) ==
    /\ At(w, "unlock")
    /\ Unlock
    /\ Goto(w, "index")
    /\ UNCHANGED index

UpdateIndex(w) ==
    /\ At(w, "index")
    /\ \E k \in call[w].todo :
          /\ index' = IF call[w].puts THEN index \cup {k} ELSE index \ {k}
          /\ call' = [call EXCEPT ![w].todo = @ \ {k}]
    /\ UNCHANGED mu

WriteReturn(w) ==
    /\ At(w, "index") /\ call[w].todo = {}
    /\ IF KeepsLock(w) THEN Unlock ELSE UNCHANGED mu
    /\ Finish(w)
    /\ UNCHANGED index

-----------------------------------------------------------------------------
\* Get and Fold.  What Fold's callback does takes no step here: it is taken to
\* return and to stay away from the store.

LeaksOnMiss(r, k) == IF k \in index THEN {r} ELSE {}
Leaving(r, k) == {r}

ReadStart(r) ==
    /\ At(r, "idle")
    /\ \E op \in {"Get", "Fold"} :
          call' = [call EXCEPT ![r] = [step |-> op]]
    /\ RLock(r)
    /\ UNCHANGED index

GetReturn(r) ==
    /\ At(r, "Get") /\ r \in readers
    /\ \E k \in Keys : RUnlock(Leaving(r, k))
    /\ Finish(r)
    /\ UNCHANGED index

FoldSnapshot(r) ==
    /\ At(r, "Fold") /\ r \in readers
    /\ call' = [call EXCEPT ![r] = [step |-> "visit", seen |-> index]]
    /\ UNCHANGED <<index, mu>>

FoldReturn(r) ==
    /\ At(r, "visit")
    /\ RUnlock({r})
    /\ Finish(r)
    /\ UNCHANGED index

-----------------------------------------------------------------------------
\* Iterators

\* bytes.Compare(a, b) < 0
Less(a, b) ==
    \E i \in 1 .. Len(b) :
        /\ Len(a) >= i - 1 /\ \A j \in 1 .. i - 1 : a[j] = b[j]
        /\ Len(a) = i - 1 \/ a[i] < b[i]

\* a comes before b in the direction of the iterator.
Ahead(reverse, a, b) == IF reverse THEN Less(b, a) ELSE Less(a, b)
InOrder(reverse, s) ==
    \A i, j \in 1 .. Len(s) : i < j => Ahead(reverse, s[i], s[j])

\* The values of newBtreeIterator and newARTIterator.
Items(keys, reverse) ==
    CHOOSE s \in [1 .. Cardinality(keys) -> keys] :
        ToSet(s) = keys /\ InOrder(reverse, s)

\* sort.Search of Go: bisection for the least index in hits, which the test of
\* Seek accepts.
Search(n, hits) ==
    LET s[p \in (0 .. n) \X (0 .. n)] ==
            LET i == p[1]  j == p[2]  h == (i + j) \div 2
            IN  IF i >= j THEN i
                ELSE IF h \in hits THEN s[<<i, h>>] ELSE s[<<h + 1, j>>]
    IN  s[<<0, n>>]

SeekIgnoresReverse(items, reverse, key) ==
    Search(Len(items), {i \in 0 .. Len(items) - 1 : ~Ahead(FALSE, items[i + 1], key)})
SeekIndex(items, reverse, key) ==
    Search(Len(items), {i \in 0 .. Len(items) - 1 : ~Ahead(reverse, items[i + 1], key)})

\* skipToNext, from index i on; indexes count from 0.
NeverSkips(items, prefix, i) == i
SkipToNext(items, prefix, i) ==
    LET found == {j \in i .. (Len(items) - 1) : IsPrefix(prefix, items[j + 1])}
    IN  IF prefix = <<>> THEN i
        ELSE IF found = {} THEN Len(items) ELSE Min(found)

Valid(r) == call[r].currIndex < Len(call[r].items)

\* NewIterator, which does not take db.mu, and Rewind or Seek.
IterateFrom(r, reverse, prefix, from, start) ==
    LET items == Items(index, reverse)
    IN  /\ At(r, "idle")
        /\ call' = [call EXCEPT ![r] =
                      [step |-> "iterate", items |-> items, reverse |-> reverse,
                       prefix |-> prefix, from |-> from, yielded |-> <<>>,
                       currIndex |-> SkipToNext(items, prefix, start)]]
        /\ UNCHANGED <<index, mu>>

Rewind(r) == \E reverse \in BOOLEAN, prefix \in IterPrefixes :
    IterateFrom(r, reverse, prefix, {}, 0)
Seek(r) == \E reverse \in BOOLEAN, prefix \in IterPrefixes, key \in SeekKeys :
    IterateFrom(r, reverse, prefix, {key}, SeekIndex(Items(index, reverse), reverse, key))

\* Value reads under db.mu.
Value(r) ==
    /\ At(r, "iterate") /\ Valid(r)
    /\ RLock(r)
    /\ Goto(r, "value")
    /\ UNCHANGED index

NextKey(r) ==
    /\ At(r, "value") /\ r \in readers
    /\ RUnlock({r})
    /\ call' = [call EXCEPT
                  ![r].step = "iterate",
                  ![r].yielded = Append(@, call[r].items[call[r].currIndex + 1]),
                  ![r].currIndex =
                      SkipToNext(call[r].items, call[r].prefix, @ + 1)]
    /\ UNCHANGED index

IterateEnd(r) ==
    /\ At(r, "iterate") /\ ~Valid(r)
    /\ Finish(r)
    /\ UNCHANGED <<index, mu>>

-----------------------------------------------------------------------------
Init ==
    /\ index = {}
    /\ writer = NoWriter
    /\ readers = {}
    /\ blocked = {}
    /\ call = [g \in Writers \cup Readers |-> NoCall]

Started(w) ==
    AppendRecords(w) \/ UnlockEarly(w) \/ UpdateIndex(w) \/ WriteReturn(w)
Reading(r) ==
    \/ GetReturn(r) \/ FoldSnapshot(r) \/ FoldReturn(r)
    \/ Value(r) \/ NextKey(r) \/ IterateEnd(r)

Next ==
    \/ \E w \in Putters : Put(w) \/ Delete(w)
    \/ \E w \in Committers : CommitStart(w)
    \/ \E w \in Writers : Announce(w) \/ Started(w)
    \/ \E r \in Readers : ReadStart(r) \/ Reading(r)
    \/ \E r \in Iterating : Rewind(r) \/ Seek(r)

\* The Go scheduler runs every goroutine that can run.  The mutex of the
\* writers goes to the one that has waited for a millisecond (starvation mode
\* of sync.Mutex), so nobody is passed by for ever.  Nobody has to call.
Fairness ==
    /\ \A w \in Writers : WF_vars(Started(w)) /\ SF_vars(Announce(w))
    /\ \A r \in Readers : WF_vars(Reading(r))

Spec == Init /\ [][Next]_vars /\ Fairness

-----------------------------------------------------------------------------
\* Properties

\* Fold never shows a part of a Commit: it takes its snapshot under db.mu,
\* under which Commit updates the index (db.go:291, batch.go:127-141).
FoldWhole ==
    \A r \in Readers : At(r, "visit") =>
        BatchKeys \subseteq call[r].seen \/ BatchKeys \cap call[r].seen = {}

\* An iterator yields the keys of its snapshot that have the prefix and lie at
\* or behind the key of Seek in its direction, all of them, in that direction's
\* order (iterator.go; the contract of Iterator, index/index.go:60-77).
Wanted(c) ==
    {k \in ToSet(c.items) :
        /\ IsPrefix(c.prefix, k)
        /\ \A f \in c.from : ~Ahead(c.reverse, k, f)}

IterationComplete ==
    \A r \in Iterating : At(r, "iterate") /\ ~Valid(r) =>
        /\ ToSet(call[r].yielded) = Wanted(call[r])
        /\ InOrder(call[r].reverse, call[r].yielded)

\* Every call returns, although readers and writers shut one another out.
EveryCallReturns ==
    \A g \in Writers \cup Readers : ~At(g, "idle") ~> At(g, "idle")
=============================================================================
