---------------------------- MODULE ReadersProofs ----------------------------
(***************************************************************************)
(* Fold shows every Commit as a whole, and an iteration yields what it is  *)
(* asked for, for every value of the constants: any keys, any number of    *)
(* goroutines.                                                             *)
(***************************************************************************)
EXTENDS ReadersInvariant, TLAPS, FiniteSetTheorems, WellFoundedInduction

USE ReadersAssumption DEF Writers, Keys

-----------------------------------------------------------------------------
\* Steps of a reader

\* Only g's call goes on.
OneCall(g) ==
    /\ call' = [h \in Writers \cup Readers |-> call'[h]]
    /\ \A h \in (Writers \cup Readers) \ {g} : call'[h] = call[h]

LEMMA OneCallChanged ==
    ASSUME FoldInv, NEW g \in Writers \cup Readers, NEW v, call' = [call EXCEPT ![g] = v]
    PROVE  OneCall(g) /\ call'[g] = v
  BY DEF OneCall, FoldInv, CallsTypeOK

\* A reader's step leaves the writers alone; it goes in only when no writer
\* holds the lock.
LEMMA ReaderStep ==
    ASSUME FoldInv, NEW r \in Readers, OneCall(r),
           "step" \in DOMAIN call'[r],
           call'[r].step = "visit" => Whole(call'[r].seen),
           UNCHANGED <<index, writer>>,
           readers' \subseteq readers \/ writer = NoWriter
    PROVE  FoldInv'
  <1>2. /\ \A w \in Writers : call'[w] = call[w]
        /\ \A q \in Readers \ {r} : call'[q] = call[q]
        /\ call' = [g \in Writers \cup Readers |-> call'[g]]
    BY DEF OneCall
  <1>3. \A w \in Writers : /\ Holds(w)' <=> Holds(w)
                           /\ Alone(w)' <=> Alone(w)
                           /\ \A s : At(w, s)' <=> At(w, s)
    BY <1>2 DEF Holds, Alone, At, KeepsLock
  <1>4. CallsTypeOK'
    BY <1>2 DEF FoldInv, CallsTypeOK, WriterCalls, NoCall
  <1>5. LockInv'
    <2> SUFFICES ASSUME NEW w \in Writers
                 PROVE  /\ Holds(w)' <=> writer' = w
                        /\ Alone(w)' => readers' = {}
                        /\ At(w, "unlock")' => ~KeepsLock(w)'
      BY DEF LockInv
    <2>1. Alone(w) => writer = w /\ readers = {}
      BY DEF FoldInv, LockInv, Alone, Holds, At
    <2> QED BY <1>3, <2>1 DEF FoldInv, LockInv, KeepsLock
  <1>6. TodoInv'
    BY <1>2 DEF FoldInv, TodoInv, At
  <1>7. WholeInv'
    BY <1>2 DEF FoldInv, WholeInv, Whole, At
  <1>8. FoldWhole'
    BY <1>2 DEF FoldInv, FoldWhole, Whole, At
  <1> QED BY <1>4, <1>5, <1>6, <1>7, <1>8 DEF FoldInv

\* A reader that is in keeps every Commit out of the index.
LEMMA NoCommit ==
    ASSUME FoldInv, readers # {}
    PROVE  Whole(index)
  BY DEF FoldInv, LockInv, WholeInv, Alone, KeepsLock

LEMMA ReadingKeepsFoldInv ==
    ASSUME FoldInv, NEW r \in Readers, Reading(r) \/ ReadStart(r)
    PROVE  FoldInv'
  <1>0. /\ call = [g \in Writers \cup Readers |-> call[g]]
        /\ "step" \in DOMAIN call[r]
        /\ At(r, "visit") => Whole(call[r].seen)
    BY DEF FoldInv, CallsTypeOK, FoldWhole, Whole
  <1>1. CASE ReadStart(r)
    <2>1. PICK op \in {"Get", "Fold"} : call' = [call EXCEPT ![r] = [step |-> op]]
      BY <1>1 DEF ReadStart
    <2>2. OneCall(r) /\ call'[r] = [step |-> op]
      BY <2>1, OneCallChanged
    <2>3. UNCHANGED <<index, writer>> /\ (readers' \subseteq readers \/ writer = NoWriter)
      BY <1>1 DEF ReadStart, RLock
    <2> QED BY <2>2, <2>3, ReaderStep
  <1>2. CASE GetReturn(r) \/ FoldReturn(r) \/ IterateEnd(r)
    <2>1. call' = [call EXCEPT ![r] = NoCall]
      BY <1>2 DEF GetReturn, FoldReturn, IterateEnd, Finish
    <2>2. OneCall(r) /\ call'[r] = [step |-> "idle"]
      BY <2>1, OneCallChanged DEF NoCall
    <2>3. UNCHANGED <<index, writer>> /\ readers' \subseteq readers
      BY <1>2 DEF GetReturn, FoldReturn, IterateEnd, RUnlock, mu
    <2> QED BY <2>2, <2>3, ReaderStep
  <1>3. CASE FoldSnapshot(r)
    <2>1. /\ OneCall(r) /\ "step" \in DOMAIN call'[r] /\ call'[r].seen = index
          /\ UNCHANGED <<index, writer, readers>> /\ readers # {}
      BY <1>0, <1>3 DEF FoldSnapshot, OneCall, mu
    <2> QED BY <2>1, NoCommit, ReaderStep
  <1>4. CASE Value(r)
    <2>1. /\ OneCall(r) /\ "step" \in DOMAIN call'[r] /\ call'[r].step # "visit"
          /\ UNCHANGED <<index, writer>>
          /\ readers' \subseteq readers \/ writer = NoWriter
      BY <1>0, <1>4 DEF Value, Goto, RLock, OneCall
    <2> QED BY <2>1, ReaderStep
  <1>5. CASE NextKey(r)
    <2>1. /\ OneCall(r) /\ "step" \in DOMAIN call'[r] /\ call'[r].step # "visit"
          /\ UNCHANGED <<index, writer>>
          /\ readers' \subseteq readers
      BY <1>0, <1>5 DEF NextKey, RUnlock, OneCall
    <2> QED BY <2>1, ReaderStep
  <1> QED BY <1>1, <1>2, <1>3, <1>4, <1>5 DEF Reading

LEMMA IteratingKeepsFoldInv ==
    ASSUME FoldInv, NEW r \in Iterating, Rewind(r) \/ Seek(r)
    PROVE  FoldInv'
  <1>1. PICK reverse, prefix, from, start : IterateFrom(r, reverse, prefix, from, start)
    BY DEF Rewind, Seek
  <1>2. /\ OneCall(r) /\ "step" \in DOMAIN call'[r] /\ call'[r].step # "visit"
        /\ UNCHANGED <<index, writer, readers>>
    BY <1>1 DEF IterateFrom, OneCall, mu, FoldInv, CallsTypeOK
  <1> QED BY <1>2, ReaderStep

-----------------------------------------------------------------------------
\* Steps of a writer

\* What a writer's step has to do to the parts of the invariant.
LEMMA WriterStep ==
    ASSUME FoldInv, NEW w \in Writers, OneCall(w), call'[w] \in WriterCalls,
           LockInv', TodoInv', WholeInv'
    PROVE  FoldInv'
  <1>1. \A r \in Readers : call'[r] = call[r]
    BY DEF OneCall
  <1>2. CallsTypeOK'
    BY <1>1 DEF OneCall, FoldInv, CallsTypeOK, WriterCalls, NoCall
  <1>3. FoldWhole'
    BY <1>1 DEF FoldInv, FoldWhole, At
  <1> QED BY <1>2, <1>3 DEF FoldInv

\* A step that does not touch the lock, before w holds it or after it has let
\* it go, and leaves the index alone.
LEMMA WriterApart ==
    ASSUME FoldInv, NEW w \in Writers, OneCall(w), call'[w] \in WriterCalls,
           UNCHANGED <<index, mu>>, ~Holds(w), ~Holds(w)',
           w \in Putters /\ call'[w].step # "idle" => call'[w].todo \subseteq PutKeys,
           w \in Committers => call'[w].step \in {"idle", "lock"},
           w \in Committers /\ call'[w].step = "lock" => call'[w].todo = BatchKeys
    PROVE  FoldInv'
  <1>1. \A v \in Writers \ {w} : call'[v] = call[v]
    BY DEF OneCall
  <1>2. LockInv'
    <2> SUFFICES ASSUME NEW v \in Writers
                 PROVE  /\ Holds(v)' <=> writer' = v
                        /\ Alone(v)' => readers' = {}
                        /\ At(v, "unlock")' => ~KeepsLock(v)'
      BY DEF LockInv
    <2>1. CASE v = w
      BY <2>1 DEF FoldInv, LockInv, Holds, Alone, At, mu
    <2>2. CASE v # w
      BY <1>1, <2>2 DEF FoldInv, LockInv, Holds, Alone, At, KeepsLock, mu
    <2> QED BY <2>1, <2>2
  <1>3. TodoInv'
    BY <1>1 DEF FoldInv, TodoInv, At
  <1>4. WholeInv'
    <2>1. w \in Committers => ~At(w, "index")
      BY DEF Holds, KeepsLock
    <2> QED BY <1>1, <2>1 DEF FoldInv, WholeInv, Whole, At
  <1> QED BY <1>2, <1>3, <1>4, WriterStep

LEMMA WriteStartKeepsFoldInv ==
    ASSUME FoldInv, NEW w \in Writers, NEW keys \in SUBSET Keys, NEW puts \in BOOLEAN,
           WriteStart(w, keys, puts),
           w \in Putters => keys \subseteq PutKeys, w \in Committers => keys = BatchKeys
    PROVE  FoldInv'
  <1>1. OneCall(w) /\ call'[w] = [step |-> "lock", todo |-> keys, puts |-> puts]
    BY OneCallChanged DEF WriteStart
  <1>2. call'[w] \in WriterCalls
    BY <1>1 DEF WriterCalls
  <1>3. ~Holds(w) /\ ~Holds(w)' /\ UNCHANGED <<index, mu>>
    BY <1>1 DEF WriteStart, Holds, At
  <1> QED BY <1>1, <1>2, <1>3, WriterApart

\* A call that has started has keys and a kind.
LEMMA CallStarted ==
    ASSUME FoldInv, NEW w \in Writers, ~At(w, "idle")
    PROVE  call[w] \in [step : {"lock", "drain", "unlock", "index"}, todo : SUBSET Keys,
                        puts : BOOLEAN]
  <1>1. call[w] \in WriterCalls
    BY DEF FoldInv, CallsTypeOK
  <1>2. call[w] # NoCall
    BY DEF NoCall, At
  <1> QED BY <1>1, <1>2 DEF WriterCalls

\* What Goto does.
LEMMA Gone ==
    ASSUME FoldInv, NEW w \in Writers, ~At(w, "idle"), NEW s \in {"drain", "unlock", "index"},
           Goto(w, s)
    PROVE  /\ OneCall(w) /\ call'[w] \in WriterCalls
           /\ call'[w].step = s /\ call'[w].todo = call[w].todo /\ call'[w].puts = call[w].puts
  <1>1. call[w] \in [step : {"lock", "drain", "unlock", "index"}, todo : SUBSET Keys,
                     puts : BOOLEAN]
    BY CallStarted
  <1>2. OneCall(w) /\ call'[w] = [call[w] EXCEPT !.step = s]
    BY OneCallChanged DEF Goto
  <1> QED BY <1>1, <1>2 DEF WriterCalls

\* Nobody but w holds the lock, before or after.
LEMMA WriterLock ==
    ASSUME FoldInv, NEW w \in Writers, OneCall(w),
           writer \in {w, NoWriter}, Holds(w)' <=> writer' = w, writer' \in {w, NoWriter},
           Alone(w)' => readers' = {}, At(w, "unlock")' => ~KeepsLock(w)
    PROVE  LockInv' /\ \A v \in Writers \ {w} : ~Holds(v) /\ call'[v] = call[v]
  <1>1. \A v \in Writers \ {w} : ~Holds(v) /\ call'[v] = call[v]
    BY DEF FoldInv, LockInv, OneCall
  <1>2. ASSUME NEW v \in Writers
        PROVE  /\ Holds(v)' <=> writer' = v
               /\ Alone(v)' => readers' = {}
               /\ At(v, "unlock")' => ~KeepsLock(v)'
    <2>1. CASE v = w
      BY <2>1 DEF KeepsLock
    <2>2. CASE v # w
      BY <1>1, <2>2 DEF Holds, Alone, At, KeepsLock
    <2> QED BY <2>1, <2>2
  <1> QED BY <1>1, <1>2 DEF LockInv

\* A step on the way to the index or out of the lock that leaves the index
\* alone.
LEMMA WriterOnItsWay ==
    ASSUME FoldInv, NEW w \in Writers, OneCall(w), call'[w] \in WriterCalls,
           LockInv', UNCHANGED index, ~At(w, "idle"), ~(At(w, "index") /\ w \in Committers),
           call'[w].todo = call[w].todo, call'[w].puts = call[w].puts,
           w \in Committers => /\ call[w].step \in {"lock", "drain"}
                               /\ call'[w].step \in {"drain", "index"}
    PROVE  FoldInv'
  <1>1. \A v \in Writers \ {w} : call'[v] = call[v]
    BY DEF OneCall
  <1>2. TodoInv'
    <2>1. \A v \in Putters : ~At(v, "idle")' => call'[v].todo \subseteq PutKeys
      BY <1>1 DEF FoldInv, TodoInv, At
    <2>2. ASSUME NEW v \in Committers
          PROVE  /\ call'[v].step \in {"lock", "drain"} => call'[v].todo = BatchKeys
                 /\ At(v, "index")' =>
                       IF call'[v].puts THEN BatchKeys \ call'[v].todo \subseteq index
                       ELSE (BatchKeys \ call'[v].todo) \cap index = {}
      <3>1. CASE v = w
        <4>1. call'[w].todo = BatchKeys
          BY <3>1 DEF FoldInv, TodoInv
        <4> QED BY <3>1, <4>1
      <3>2. CASE v # w
        BY <1>1, <3>2 DEF FoldInv, TodoInv, At
      <3> QED BY <3>1, <3>2
    <2> QED BY <2>1, <2>2 DEF TodoInv
  <1>3. WholeInv'
    <2>1. w \in Committers => ~At(w, "index")
      OBVIOUS
    <2> QED BY <1>1, <2>1 DEF FoldInv, WholeInv, Whole, At
  <1> QED BY <1>2, <1>3, WriterStep

LEMMA AnnounceKeepsFoldInv ==
    ASSUME FoldInv, NEW w \in Writers, Announce(w)
    PROVE  FoldInv'
  <1>1. At(w, "lock") /\ writer = NoWriter /\ writer' = w /\ Goto(w, "drain") /\ index' = index
    BY DEF Announce
  <1>2. /\ OneCall(w) /\ call'[w] \in WriterCalls /\ call'[w].step = "drain"
        /\ call'[w].todo = call[w].todo /\ call'[w].puts = call[w].puts
    BY <1>1, Gone DEF At
  <1>3. LockInv'
    BY <1>1, <1>2, WriterLock DEF Holds, Alone, At
  <1> QED BY <1>1, <1>2, <1>3, WriterOnItsWay DEF At

LEMMA AppendKeepsFoldInv ==
    ASSUME FoldInv, NEW w \in Writers, AppendRecords(w)
    PROVE  FoldInv'
  <1>1. PICK s \in {"index", "unlock"} : s = IF KeepsLock(w) THEN "index" ELSE "unlock"
    OBVIOUS
  <1>2. /\ At(w, "drain") /\ readers = {} /\ Goto(w, s) /\ UNCHANGED <<index, mu>>
        /\ writer = w
    BY <1>1 DEF AppendRecords, FoldInv, LockInv, Holds, At
  <1>3. /\ OneCall(w) /\ call'[w] \in WriterCalls /\ call'[w].step = s
        /\ call'[w].todo = call[w].todo /\ call'[w].puts = call[w].puts
    BY <1>2, Gone DEF At
  <1>4. LockInv'
    BY <1>1, <1>2, <1>3, WriterLock DEF Holds, Alone, At, KeepsLock, mu
  <1> QED BY <1>1, <1>2, <1>3, <1>4, WriterOnItsWay DEF At, KeepsLock

LEMMA UnlockEarlyKeepsFoldInv ==
    ASSUME FoldInv, NEW w \in Writers, UnlockEarly(w)
    PROVE  FoldInv'
  <1>1. /\ At(w, "unlock") /\ writer = w /\ writer' = NoWriter /\ Goto(w, "index")
        /\ index' = index /\ ~KeepsLock(w)
    BY DEF UnlockEarly, Unlock, FoldInv, LockInv, Holds, At
  <1>2. /\ OneCall(w) /\ call'[w] \in WriterCalls /\ call'[w].step = "index"
        /\ call'[w].todo = call[w].todo /\ call'[w].puts = call[w].puts
    BY <1>1, Gone DEF At
  <1>3. LockInv'
    BY <1>1, <1>2, WriterLock DEF Holds, Alone, At, KeepsLock
  <1> QED BY <1>1, <1>2, <1>3, WriterOnItsWay DEF At, KeepsLock

\* The keys of a batch change one by one, under the lock; the others are not
\* the batch's.
LEMMA UpdateIndexKeepsFoldInv ==
    ASSUME FoldInv, NEW w \in Writers, UpdateIndex(w)
    PROVE  FoldInv'
  <1>1. PICK k \in call[w].todo :
          /\ index' = IF call[w].puts THEN index \cup {k} ELSE index \ {k}
          /\ call' = [call EXCEPT ![w].todo = @ \ {k}]
    BY DEF UpdateIndex
  <1>2. /\ At(w, "index") /\ UNCHANGED mu
        /\ call[w] \in [step : {"lock", "drain", "unlock", "index"}, todo : SUBSET Keys,
                        puts : BOOLEAN]
    BY CallStarted DEF UpdateIndex, At
  <1>3. OneCall(w) /\ call'[w] = [call[w] EXCEPT !.todo = @ \ {k}]
    BY <1>1, OneCallChanged
  <1>4. /\ call'[w] \in WriterCalls /\ call'[w].step = "index"
        /\ call'[w].todo = call[w].todo \ {k} /\ call'[w].puts = call[w].puts
    BY <1>2, <1>3 DEF WriterCalls, At
  <1>5. \A v \in Writers \ {w} : call'[v] = call[v]
    BY <1>3 DEF OneCall
  <1>6. LockInv'
    <2> SUFFICES ASSUME NEW v \in Writers
                 PROVE  /\ Holds(v)' <=> writer' = v
                        /\ Alone(v)' => readers' = {}
                        /\ At(v, "unlock")' => ~KeepsLock(v)'
      BY DEF LockInv
    <2>1. call'[v].step = call[v].step
      BY <1>2, <1>4, <1>5 DEF At
    <2> QED BY <1>2, <2>1 DEF FoldInv, LockInv, Holds, Alone, At, KeepsLock, mu
  <1>7. CASE w \in Putters
    <2>1. k \in PutKeys /\ k \notin BatchKeys /\ w \notin Committers
      BY <1>1, <1>2, <1>7 DEF FoldInv, TodoInv, At
    <2>2. \A j \in BatchKeys : j \in index' <=> j \in index
      BY <1>1, <2>1
    <2>3. TodoInv'
      <3>1. \A v \in Committers : call'[v] = call[v]
        BY <1>5, <2>1
      <3>2. \A v \in Putters : ~At(v, "idle")' => call'[v].todo \subseteq PutKeys
        BY <1>2, <1>4, <1>5 DEF FoldInv, TodoInv, At
      <3>3. \A v \in Committers :
               /\ call'[v].step \in {"lock", "drain"} => call'[v].todo = BatchKeys
               /\ At(v, "index")' =>
                     IF call'[v].puts THEN BatchKeys \ call'[v].todo \subseteq index'
                     ELSE (BatchKeys \ call'[v].todo) \cap index' = {}
        BY <3>1, <2>2 DEF FoldInv, TodoInv, At
      <3> QED BY <3>2, <3>3 DEF TodoInv
    <2>4. WholeInv'
      BY <1>5, <2>1, <2>2 DEF FoldInv, WholeInv, Whole, At
    <2> QED BY <1>3, <1>4, <1>6, <2>3, <2>4, WriterStep
  <1>8. CASE w \in Committers
    <2>1. writer = w /\ \A v \in Committers \ {w} : ~At(v, "index")
      BY <1>2, <1>8 DEF FoldInv, LockInv, Holds, KeepsLock, At
    <2>2. TodoInv'
      <3>1. \A v \in Putters : call'[v] = call[v]
        BY <1>5, <1>8
      <3>2. \A v \in Committers \ {w} : call'[v] = call[v]
        BY <1>5
      <3>3. IF call'[w].puts THEN BatchKeys \ call'[w].todo \subseteq index'
            ELSE (BatchKeys \ call'[w].todo) \cap index' = {}
        BY <1>1, <1>2, <1>4, <1>8 DEF FoldInv, TodoInv
      <3>4. \A v \in Putters : ~At(v, "idle")' => call'[v].todo \subseteq PutKeys
        BY <3>1 DEF FoldInv, TodoInv, At
      <3>5. \A v \in Committers \ {w} :
               /\ call'[v].step \in {"lock", "drain"} => call'[v].todo = BatchKeys
               /\ ~At(v, "index")'
        BY <2>1, <3>2 DEF FoldInv, TodoInv, At
      <3> QED BY <1>4, <3>3, <3>4, <3>5 DEF TodoInv, At
    <2>3. WholeInv'
      BY <1>4, <1>8 DEF WholeInv, At
    <2> QED BY <1>3, <1>4, <1>6, <2>2, <2>3, WriterStep
  <1> QED BY <1>7, <1>8

\* The last key has been visited: the index holds the Commit as a whole.
LEMMA WriteReturnKeepsFoldInv ==
    ASSUME FoldInv, NEW w \in Writers, WriteReturn(w)
    PROVE  FoldInv'
  <1>1. /\ At(w, "index") /\ call[w].todo = {} /\ index' = index
        /\ IF KeepsLock(w) THEN Unlock ELSE UNCHANGED mu
        /\ call' = [call EXCEPT ![w] = NoCall]
    BY DEF WriteReturn, Finish
  <1>2. OneCall(w) /\ call'[w] = [step |-> "idle"]
    BY <1>1, OneCallChanged DEF NoCall
  <1>3. call'[w] \in WriterCalls
    BY <1>2 DEF WriterCalls, NoCall
  <1>4. CASE w \in Putters
    <2>1. ~Holds(w) /\ ~Holds(w)' /\ UNCHANGED mu /\ w \notin Committers
      BY <1>1, <1>2, <1>4 DEF Holds, At, KeepsLock
    <2> QED BY <1>1, <1>2, <1>3, <1>4, <2>1, WriterApart
  <1>5. CASE w \in Committers
    <2>1. writer = w /\ writer' = NoWriter
      BY <1>1, <1>5 DEF FoldInv, LockInv, Holds, KeepsLock, Unlock
    <2>2. LockInv' /\ \A v \in Writers \ {w} : ~Holds(v) /\ call'[v] = call[v]
      BY <1>2, <2>1, WriterLock DEF Holds, Alone, At
    <2>3. TodoInv'
      BY <1>1, <1>2, <2>2 DEF FoldInv, TodoInv, At
    <2>4. Whole(index)
      BY <1>1, <1>5 DEF FoldInv, TodoInv, Whole
    <2>5. WholeInv'
      BY <1>1, <2>4 DEF WholeInv, Whole
    <2> QED BY <1>2, <1>3, <2>2, <2>3, <2>5, WriterStep
  <1> QED BY <1>4, <1>5

-----------------------------------------------------------------------------
\* The invariant

LEMMA InitFoldInv ==
    ASSUME Init
    PROVE  FoldInv
  <1>1. \A g \in Writers \cup Readers : call[g] = [step |-> "idle"]
    BY DEF Init, NoCall
  <1>2. CallsTypeOK
    BY <1>1 DEF Init, CallsTypeOK, WriterCalls, NoCall
  <1>3. LockInv
    BY <1>1 DEF Init, LockInv, Holds, Alone, At
  <1>4. TodoInv
    BY <1>1 DEF TodoInv, At
  <1>5. WholeInv /\ FoldWhole
    BY <1>1 DEF Init, WholeInv, Whole, FoldWhole, At
  <1> QED BY <1>2, <1>3, <1>4, <1>5 DEF FoldInv

LEMMA NextKeepsFoldInv ==
    ASSUME FoldInv, [Next]_vars
    PROVE  FoldInv'
  <1>1. CASE \E w \in Putters : Put(w) \/ Delete(w)
    <2>1. PICK w \in Putters, k \in PutKeys, puts \in BOOLEAN : WriteStart(w, {k}, puts)
      BY <1>1 DEF Put, Delete
    <2>2. /\ w \in Writers /\ {k} \in SUBSET Keys /\ {k} \subseteq PutKeys
          /\ w \notin Committers
      OBVIOUS
    <2> QED BY <2>1, <2>2, WriteStartKeepsFoldInv
  <1>2. CASE \E w \in Committers : CommitStart(w)
    <2>1. PICK w \in Committers, puts \in BOOLEAN : WriteStart(w, BatchKeys, puts)
      BY <1>2 DEF CommitStart
    <2>2. w \in Writers /\ BatchKeys \in SUBSET Keys /\ w \notin Putters
      OBVIOUS
    <2> QED BY <2>1, <2>2, WriteStartKeepsFoldInv
  <1>3. CASE \E w \in Writers : Announce(w) \/ Started(w)
    BY <1>3, AnnounceKeepsFoldInv, AppendKeepsFoldInv, UnlockEarlyKeepsFoldInv,
       UpdateIndexKeepsFoldInv, WriteReturnKeepsFoldInv DEF Started
  <1>4. CASE \E r \in Readers : ReadStart(r) \/ Reading(r)
    BY <1>4, ReadingKeepsFoldInv
  <1>5. CASE \E r \in Iterating : Rewind(r) \/ Seek(r)
    BY <1>5, IteratingKeepsFoldInv
  <1>6. CASE UNCHANGED vars
    BY <1>6 DEF vars, mu, FoldInv, CallsTypeOK, LockInv, Holds, Alone, At, KeepsLock, TodoInv,
                WholeInv, Whole, FoldWhole
  <1> QED BY <1>1, <1>2, <1>3, <1>4, <1>5, <1>6 DEF Next

\* Who holds db.mu, and what the index holds of a Commit that is under way, in
\* every state (db.go:367, batch.go:89-147).
THEOREM FoldInvariance == Spec => []FoldInv
  BY InitFoldInv, NextKeepsFoldInv, PTL DEF Spec

\* Fold never shows a part of a Commit, whatever Puts, Deletes and reads run
\* beside it, when one goroutine commits, as ReadersAssumption has it
\* (db.go:291, batch.go:127-141).
THEOREM FoldAlwaysWhole == Spec => []FoldWhole
  <1>1. FoldInv => FoldWhole
    BY DEF FoldInv
  <1> QED BY <1>1, FoldInvariance, PTL

-----------------------------------------------------------------------------
\* The order of the keys

LEMMA SmallestOf ==
    ASSUME NEW S, S \subseteq Nat, S # {}
    PROVE  \E m \in S : \A x \in S : m =< x
  <1>1. PICK m \in S : \A x \in S : ~ (<<x, m>> \in OpToRel(<, Nat))
    BY NatLessThanWellFounded, WFMin, Zenon
  <1>2. ASSUME NEW x \in S
        PROVE  m =< x
    <2>1. x \in Nat /\ m \in Nat
      OBVIOUS
    <2>2. ~ (x < m)
      BY <1>1, <2>1 DEF OpToRel
    <2> QED BY <2>1, <2>2
  <1> QED BY <1>2

LEMMA LessIrreflexive ==
    ASSUME NEW a \in Seq(Nat)
    PROVE  ~Less(a, a)
  BY DEF Less

LEMMA ElementOf ==
    ASSUME NEW S, NEW s \in Seq(S), NEW i \in 1 .. Len(s)
    PROVE  s[i] \in S
  OBVIOUS

\* Keys that agree before i, and a ends there or is less at i.
LEMMA LessAt ==
    ASSUME NEW a \in Seq(Nat), NEW b \in Seq(Nat), NEW i \in 1 .. Len(b),
           Len(a) >= i - 1, \A j \in 1 .. i - 1 : a[j] = b[j],
           Len(a) = i - 1 \/ a[i] < b[i]
    PROVE  Less(a, b)
  BY DEF Less

LEMMA LessTransitive ==
    ASSUME NEW a \in Seq(Nat), NEW b \in Seq(Nat), NEW c \in Seq(Nat),
           Less(a, b), Less(b, c)
    PROVE  Less(a, c)
  <1>1. PICK i \in 1 .. Len(b) :
            /\ Len(a) >= i - 1 /\ \A j \in 1 .. i - 1 : a[j] = b[j]
            /\ Len(a) = i - 1 \/ a[i] < b[i]
    BY DEF Less
  <1>2. PICK k \in 1 .. Len(c) :
            /\ Len(b) >= k - 1 /\ \A j \in 1 .. k - 1 : b[j] = c[j]
            /\ Len(b) = k - 1 \/ b[k] < c[k]
    BY DEF Less
  <1>3. CASE i < k
    <2>1. i \in 1 .. Len(c) /\ b[i] = c[i] /\ \A j \in 1 .. i - 1 : a[j] = c[j]
      BY <1>1, <1>2, <1>3
    <2> QED BY <1>1, <2>1, LessAt
  <1>4. CASE i > k
    <2>1. k \in 1 .. i - 1 /\ Len(b) # k - 1
      BY <1>1, <1>2, <1>4
    <2>2. a[k] = b[k]
      BY <1>1, <2>1
    <2>3. b[k] < c[k]
      BY <1>2, <2>1
    <2>4. Len(a) >= k - 1
      BY <1>1, <2>1
    <2>5. \A j \in 1 .. k - 1 : j \in 1 .. i - 1
      BY <2>1
    <2>6. \A j \in 1 .. k - 1 : a[j] = c[j]
      BY <1>1, <1>2, <2>5, Zenon
    <2>7. a[k] < c[k]
      BY <2>2, <2>3, Zenon
    <2> QED BY <2>4, <2>6, <2>7, LessAt
  <1>5. CASE i = k
    <2>1. b[i] < c[i] /\ \A j \in 1 .. i - 1 : a[j] = c[j]
      BY <1>1, <1>2, <1>5
    <2>2. b[i] \in Nat /\ c[i] \in Nat
      BY <1>1, <1>2, <1>5
    <2>3. Len(a) = i - 1 \/ a[i] < c[i]
      <3> SUFFICES ASSUME Len(a) # i - 1
                   PROVE  a[i] < c[i]
        OBVIOUS
      <3>1. i \in 1 .. Len(a)
        BY <1>1
      <3>2. a[i] < b[i]
        BY <1>1, Zenon
      <3>3. a[i] \in Nat
        BY <3>1, ElementOf, Zenon
      <3>4. \A x, y, z \in Nat : x < y /\ y < z => x < z
        OBVIOUS
      <3> QED BY <2>1, <2>2, <3>2, <3>3, <3>4, Zenon
    <2> QED BY <1>1, <1>2, <1>5, <2>1, <2>3, LessAt
  <1> QED BY <1>3, <1>4, <1>5

LEMMA LessTotal ==
    ASSUME NEW a \in Seq(Nat), NEW b \in Seq(Nat), a # b
    PROVE  Less(a, b) \/ Less(b, a)
  <1> DEFINE D == {i \in 1 .. Len(a) : i =< Len(b) /\ a[i] # b[i]}
  <1>1. CASE D = {}
    <2>1. \A i \in 1 .. Len(a) : i =< Len(b) => a[i] = b[i]
      BY <1>1
    <2>2. Len(a) # Len(b)
      BY <2>1
    <2>3. CASE Len(a) < Len(b)
      <3> DEFINE i == Len(a) + 1
      <3>1. /\ i \in 1 .. Len(b) /\ Len(a) = i - 1 /\ Len(a) >= i - 1
            /\ \A j \in 1 .. i - 1 : a[j] = b[j]
        BY <2>1, <2>3
      <3> HIDE DEF i
      <3>2. Less(a, b)
        BY <3>1, LessAt, Zenon
      <3> QED BY <3>2
    <2>4. CASE Len(b) < Len(a)
      <3> DEFINE i == Len(b) + 1
      <3>1. /\ i \in 1 .. Len(a) /\ Len(b) = i - 1 /\ Len(b) >= i - 1
            /\ \A j \in 1 .. i - 1 : b[j] = a[j]
        BY <2>1, <2>4
      <3> HIDE DEF i
      <3>2. Less(b, a)
        BY <3>1, LessAt, Zenon
      <3> QED BY <3>2
    <2> QED BY <2>2, <2>3, <2>4
  <1>2. CASE D # {}
    <2>1. PICK m \in D : \A x \in D : m =< x
      <3>1. D \subseteq Nat
        OBVIOUS
      <3> HIDE DEF D
      <3> QED BY <1>2, <3>1, SmallestOf
    <2>2. /\ m \in 1 .. Len(a) /\ m \in 1 .. Len(b)
          /\ a[m] \in Nat /\ b[m] \in Nat /\ a[m] # b[m]
      <3>1. m \in 1 .. Len(a) /\ m =< Len(b) /\ a[m] # b[m]
        BY <2>1
      <3>2. m \in 1 .. Len(b)
        BY <3>1
      <3> QED BY <3>1, <3>2
    <2>3. \A j \in 1 .. m - 1 : a[j] = b[j]
      <3> SUFFICES ASSUME NEW j \in 1 .. m - 1 PROVE a[j] = b[j]
        OBVIOUS
      <3>1. j \in 1 .. Len(a) /\ j =< Len(b) /\ ~(m =< j)
        BY <2>2
      <3>2. j \notin D
        BY <2>1, <3>1
      <3> QED BY <3>1, <3>2
    <2>4. a[m] < b[m] \/ b[m] < a[m]
      BY <2>2
    <2>5. Len(a) >= m - 1 /\ Len(b) >= m - 1
      BY <2>2
    <2>6. CASE a[m] < b[m]
      BY <2>2, <2>3, <2>5, <2>6, LessAt
    <2>7. CASE b[m] < a[m]
      BY <2>2, <2>3, <2>5, <2>7, LessAt
    <2> QED BY <2>4, <2>6, <2>7
  <1> QED BY <1>1, <1>2

\* Either direction is a strict total order of the keys.
LEMMA AheadOrder ==
    ASSUME NEW reverse, NEW a \in Seq(Nat), NEW b \in Seq(Nat)
    PROVE  /\ ~Ahead(reverse, a, a)
           /\ a # b => Ahead(reverse, a, b) \/ Ahead(reverse, b, a)
           /\ ~(Ahead(reverse, a, b) /\ Ahead(reverse, b, a))
           /\ \A c \in Seq(Nat) :
                 Ahead(reverse, a, b) /\ Ahead(reverse, b, c) => Ahead(reverse, a, c)
  <1>1. ~Ahead(reverse, a, a)
    BY LessIrreflexive DEF Ahead
  <1>2. a # b => Ahead(reverse, a, b) \/ Ahead(reverse, b, a)
    BY LessTotal DEF Ahead
  <1>3. \A c \in Seq(Nat) :
            Ahead(reverse, a, b) /\ Ahead(reverse, b, c) => Ahead(reverse, a, c)
    BY LessTransitive DEF Ahead
  <1> QED BY <1>1, <1>2, <1>3

-----------------------------------------------------------------------------
\* The values of an iterator: every finite set of keys has its sequence.

Enumerates(s, keys, reverse) ==
    /\ s \in [1 .. Cardinality(keys) -> keys]
    /\ ToSet(s) = keys /\ InOrder(reverse, s)

\* Insertion of a key.
LEMMA Insertion ==
    ASSUME NEW keys, IsFiniteSet(keys), keys \subseteq Seq(Nat), NEW reverse,
           NEW x \in keys, NEW s, Enumerates(s, keys \ {x}, reverse)
    PROVE  \E t : Enumerates(t, keys, reverse)
  <1> DEFINE n == Cardinality(keys)
             Behind == {i \in 1 .. n : i = n \/ Ahead(reverse, x, s[i])}
  <1>1. n \in Nat \ {0} /\ Cardinality(keys \ {x}) = n - 1
    <2>1. n \in Nat /\ Cardinality(keys \ {x}) \in Nat /\ Cardinality(keys \ {x}) = n - 1
      BY FS_RemoveElement, FS_CardinalityType
    <2> QED BY <2>1
  <1>2. /\ s \in [1 .. n - 1 -> keys \ {x}] /\ Len(s) = n - 1
        /\ \A k \in keys \ {x} : \E i \in 1 .. n - 1 : s[i] = k
        /\ \A i, j \in 1 .. n - 1 : i < j => Ahead(reverse, s[i], s[j])
    <2> HIDE DEF n
    <2>1. s \in [1 .. n - 1 -> keys \ {x}] /\ DOMAIN s = 1 .. n - 1
      BY <1>1 DEF Enumerates
    <2>2. Len(s) = n - 1
      BY <1>1, <2>1
    <2> QED BY <2>1, <2>2 DEF Enumerates, ToSet, InOrder
  <1> HIDE DEF n
  <1>3. PICK p \in Behind : \A i \in Behind : p =< i
    <2>1. Behind \subseteq Nat /\ n \in Behind
      BY <1>1
    <2> HIDE DEF Behind
    <2> QED BY <2>1, SmallestOf
  <1>4. p \in 1 .. n
    OBVIOUS
  <1>5. \A i \in 1 .. n - 1 : i < p => Ahead(reverse, s[i], x)
    <2> SUFFICES ASSUME NEW i \in 1 .. n - 1, i < p
                 PROVE  Ahead(reverse, s[i], x)
      OBVIOUS
    <2>1. i \notin Behind /\ s[i] \in keys \ {x}
      BY <1>1, <1>2, <1>3, <1>4
    <2>2. ~Ahead(reverse, x, s[i])
      BY <1>1, <2>1
    <2> QED BY <2>1, <2>2, AheadOrder
  <1>6. \A i \in 1 .. n - 1 : i >= p => Ahead(reverse, x, s[i])
    <2> SUFFICES ASSUME NEW i \in 1 .. n - 1, i >= p
                 PROVE  Ahead(reverse, x, s[i])
      OBVIOUS
    <2>1. p \in 1 .. n - 1 /\ Ahead(reverse, x, s[p])
      BY <1>1, <1>3, <1>4
    <2>2. s[p] \in Seq(Nat) /\ s[i] \in Seq(Nat) /\ x \in Seq(Nat)
      BY <1>2, <2>1
    <2>3. p = i \/ Ahead(reverse, s[p], s[i])
      BY <1>2, <2>1
    <2> QED BY <2>1, <2>2, <2>3, AheadOrder
  <1> DEFINE t == [i \in 1 .. n |-> IF i < p THEN s[i] ELSE IF i = p THEN x ELSE s[i - 1]]
  <1> HIDE DEF Behind
  <1>7. t \in [1 .. n -> keys] /\ Len(t) = n
    <2>1. ASSUME NEW i \in 1 .. n PROVE t[i] \in keys
      BY <1>1, <1>2, <1>4
    <2>2. t \in [1 .. n -> keys]
      BY <2>1
    <2> QED BY <1>1, <2>2
  <1>8. ToSet(t) = keys
    <2>1. ASSUME NEW k \in keys PROVE \E i \in 1 .. n : t[i] = k
      <3>1. CASE k = x
        BY <1>4, <3>1
      <3>2. CASE k # x
        <4>1. PICK i \in 1 .. n - 1 : s[i] = k
          BY <1>2, <3>2
        <4>2. CASE i < p
          BY <1>1, <4>1, <4>2
        <4>3. CASE i >= p
          <5>1. i + 1 \in 1 .. n /\ i + 1 > p /\ (i + 1) - 1 = i
            BY <1>1, <1>4, <4>3
          <5>2. t[i + 1] = s[i]
            BY <1>4, <5>1
          <5> QED BY <4>1, <5>1, <5>2
        <4> QED BY <1>1, <1>4, <4>2, <4>3
      <3> QED BY <3>1, <3>2
    <2> HIDE DEF t
    <2> QED BY <1>7, <2>1 DEF ToSet
  <1>9. InOrder(reverse, t)
    <2> SUFFICES ASSUME NEW i \in 1 .. n, NEW j \in 1 .. n, i < j
                 PROVE  Ahead(reverse, t[i], t[j])
      BY <1>7 DEF InOrder
    <2>1. CASE j < p
      BY <1>1, <1>2, <1>4, <2>1
    <2>2. CASE j = p
      BY <1>1, <1>4, <1>5, <2>2
    <2>3. CASE i = p
      BY <1>1, <1>4, <1>6, <2>3
    <2>4. CASE i < p /\ p < j
      <3>1. /\ i \in 1 .. n - 1 /\ j - 1 \in 1 .. n - 1
            /\ t[i] = s[i] /\ t[j] = s[j - 1] /\ j - 1 >= p
        BY <1>1, <1>4, <2>4
      <3>2. Ahead(reverse, s[i], x) /\ Ahead(reverse, x, s[j - 1])
        BY <1>5, <1>6, <2>4, <3>1
      <3>3. s[i] \in Seq(Nat) /\ s[j - 1] \in Seq(Nat) /\ x \in Seq(Nat)
        BY <1>2, <3>1
      <3> HIDE DEF t
      <3> QED BY <3>1, <3>2, <3>3, AheadOrder
    <2>5. CASE p < i
      <3>1. /\ i - 1 \in 1 .. n - 1 /\ j - 1 \in 1 .. n - 1 /\ i - 1 < j - 1
            /\ t[i] = s[i - 1] /\ t[j] = s[j - 1]
        BY <1>1, <1>4, <2>5
      <3> HIDE DEF t
      <3> QED BY <1>2, <3>1
    <2> QED BY <1>1, <1>4, <2>1, <2>2, <2>3, <2>4, <2>5
  <1> HIDE DEF t
  <1> QED BY <1>7, <1>8, <1>9 DEF Enumerates, n

LEMMA EnumerationExists ==
    ASSUME NEW keys, IsFiniteSet(keys), keys \subseteq Seq(Nat), NEW reverse
    PROVE  \E s : Enumerates(s, keys, reverse)
  <1> DEFINE Bad == {T \in SUBSET keys : ~\E s : Enumerates(s, T, reverse)}
             Sizes == {Cardinality(T) : T \in Bad}
  <1>1. \A T \in SUBSET keys : IsFiniteSet(T) /\ Cardinality(T) \in Nat
    BY FS_Subset, FS_CardinalityType
  <1>2. SUFFICES ASSUME Bad # {} PROVE FALSE
    BY <1>2
  <1>3. PICK m \in Sizes : \A x \in Sizes : m =< x
    <2>1. Sizes \subseteq Nat /\ Sizes # {}
      BY <1>1, <1>2
    <2> HIDE DEF Sizes
    <2> QED BY <2>1, SmallestOf
  <1>4. PICK T \in Bad : m = Cardinality(T)
    BY <1>3
  <1>5. CASE T = {}
    <2>1. Cardinality(T) = 0
      BY <1>5, FS_EmptySet
    <2> DEFINE e == [i \in 1 .. 0 |-> i]
    <2>2. e \in [1 .. Cardinality(T) -> T] /\ Len(e) = 0 /\ DOMAIN e = {}
      BY <1>5, <2>1
    <2>3. Enumerates(e, T, reverse)
      BY <1>5, <2>2 DEF Enumerates, ToSet, InOrder
    <2> QED BY <1>4, <2>3
  <1>6. CASE T # {}
    <2>1. PICK x \in T : TRUE
      BY <1>6
    <2>2. T \subseteq keys /\ IsFiniteSet(T)
      BY <1>1, <1>4
    <2>3. Cardinality(T \ {x}) = m - 1 /\ m \in Nat
      BY <1>1, <1>4, <2>1, <2>2, FS_RemoveElement
    <2>4. T \ {x} \notin Bad
      <3>1. Cardinality(T \ {x}) \notin Sizes
        BY <1>1, <1>3, <2>3
      <3> QED BY <3>1
    <2>5. \E s : Enumerates(s, T \ {x}, reverse)
      BY <2>2, <2>4
    <2>6. \E t : Enumerates(t, T, reverse)
      <3> HIDE DEF Bad, Sizes
      <3> QED BY <2>1, <2>2, <2>5, Insertion
    <2> QED BY <1>4, <2>6
  <1> QED BY <1>5, <1>6

LEMMA ItemsInOrder ==
    ASSUME NEW keys, IsFiniteSet(keys), keys \subseteq Keys, NEW reverse
    PROVE  LET items == Items(keys, reverse)
           IN  items \in Seq(Keys) /\ ToSet(items) = keys /\ InOrder(reverse, items)
  <1>1. PICK s : Enumerates(s, keys, reverse)
    BY EnumerationExists
  <1>2. Enumerates(Items(keys, reverse), keys, reverse)
    BY <1>1 DEF Enumerates, Items
  <1>3. Items(keys, reverse) \in Seq(Keys)
    <2>1. Cardinality(keys) \in Nat
      BY FS_CardinalityType
    <2>2. Items(keys, reverse) \in [1 .. Cardinality(keys) -> Keys]
      BY <1>2 DEF Enumerates
    <2> QED BY <2>1, <2>2
  <1> QED BY <1>2, <1>3 DEF Enumerates

-----------------------------------------------------------------------------
\* The bisection

\* m is the least index in hits from lo on, or hi.
IsLeast(m, lo, hi, hits) ==
    /\ m \in lo .. hi
    /\ m = hi \/ m \in hits
    /\ \A k \in lo .. m - 1 : k \notin hits

LEMMA LeastExists ==
    ASSUME NEW lo \in Nat, NEW hi \in Nat, lo =< hi, NEW hits
    PROVE  \E m : IsLeast(m, lo, hi, hits)
  <1> DEFINE M == {m \in lo .. hi : m = hi \/ m \in hits}
  <1>1. PICK m \in M : \A k \in M : m =< k
    <2>1. M \subseteq Nat /\ hi \in M
      OBVIOUS
    <2> HIDE DEF M
    <2> QED BY <2>1, SmallestOf
  <1>2. ASSUME NEW k \in lo .. m - 1, k \in hits PROVE FALSE
    <2>1. m \in lo .. hi /\ k \in lo .. hi /\ ~(m =< k)
      OBVIOUS
    <2> QED BY <1>1, <1>2, <2>1
  <1> QED BY <1>2 DEF IsLeast

LEMMA LeastUnique ==
    ASSUME NEW lo \in Nat, NEW hi \in Nat, NEW hits,
           NEW a, IsLeast(a, lo, hi, hits), NEW b, IsLeast(b, lo, hi, hits)
    PROVE  a = b
  <1>1. a \in lo .. hi /\ b \in lo .. hi
    BY DEF IsLeast
  <1>2. ~(a < b)
    BY <1>1 DEF IsLeast
  <1>3. ~(b < a)
    BY <1>1 DEF IsLeast
  <1> QED BY <1>1, <1>2, <1>3

\* Either half of an interval has the least index of all of it.
LEMMA LeastOfHalf ==
    ASSUME NEW lo \in Nat, NEW hi \in Nat, NEW h \in lo .. hi - 1, NEW hits,
           \A g \in hits, k \in lo .. hi - 1 : g =< k => k \in hits, hits \subseteq Nat
    PROVE  /\ \A m : h \in hits /\ IsLeast(m, lo, h, hits) => IsLeast(m, lo, hi, hits)
           /\ \A m : h \notin hits /\ IsLeast(m, h + 1, hi, hits) => IsLeast(m, lo, hi, hits)
  <1>1. ASSUME NEW m, h \in hits, IsLeast(m, lo, h, hits)
        PROVE  IsLeast(m, lo, hi, hits)
    <2>1. m \in lo .. h /\ m \in hits /\ \A k \in lo .. m - 1 : k \notin hits
      BY <1>1 DEF IsLeast
    <2>2. m \in lo .. hi
      BY <2>1
    <2> QED BY <2>1, <2>2 DEF IsLeast
  <1>2. ASSUME NEW m, h \notin hits, IsLeast(m, h + 1, hi, hits)
        PROVE  IsLeast(m, lo, hi, hits)
    <2>1. /\ m \in h + 1 .. hi
          /\ m = hi \/ m \in hits
          /\ \A k \in h + 1 .. m - 1 : k \notin hits
      BY <1>2 DEF IsLeast
    <2>2. \A k \in lo .. h : k \notin hits
      <3> SUFFICES ASSUME NEW k \in lo .. h, k \in hits PROVE FALSE
        OBVIOUS
      <3> QED BY <1>2
    <2>3. \A k \in lo .. m - 1 : k \in lo .. h \/ k \in h + 1 .. m - 1
      BY <2>1
    <2>4. m \in lo .. hi
      BY <2>1
    <2> QED BY <2>1, <2>2, <2>3, <2>4 DEF IsLeast
  <1> QED BY <1>1, <1>2

\* Search returns the least index in hits, or n, when all behind an index in hits
\* are in it as well.
LEMMA SearchIs ==
    ASSUME NEW n \in Nat, NEW hits \in SUBSET (0 .. n - 1),
           \A h \in hits, k \in 0 .. n - 1 : h =< k => k \in hits
    PROVE  /\ Search(n, hits) \in 0 .. n
           /\ \A k \in 0 .. n - 1 : k \in hits <=> Search(n, hits) =< k
  <1> DEFINE D == (0 .. n) \X (0 .. n)
             Half(p) == (p[1] + p[2]) \div 2
             Step(f, p) == IF p[1] >= p[2] THEN p[1]
                           ELSE IF Half(p) \in hits THEN f[<<p[1], Half(p)>>]
                                ELSE f[<<Half(p) + 1, p[2]>>]
             Good(p, m) == IsLeast(m, p[1], p[2], hits)
             F == [p \in D |-> IF p[1] >= p[2] THEN p[1] ELSE CHOOSE m : Good(p, m)]
             s == CHOOSE f : f = [p \in D |-> Step(f, p)]
  <1>1. Search(n, hits) = s[<<0, n>>]
    BY DEF Search
  <1>2. \A p \in D : p[1] \in 0 .. n /\ p[2] \in 0 .. n
    OBVIOUS
  <1>3. ASSUME NEW p \in D, p[1] < p[2]
        PROVE  LET h == Half(p)  q == <<p[1], h>>  r == <<h + 1, p[2]>>
               IN  /\ q \in D /\ q[1] =< q[2] /\ q[2] - q[1] < p[2] - p[1]
                   /\ r \in D /\ r[1] =< r[2] /\ r[2] - r[1] < p[2] - p[1]
                   /\ \A m : h \in hits /\ Good(q, m) => Good(p, m)
                   /\ \A m : h \notin hits /\ Good(r, m) => Good(p, m)
    <2> DEFINE h == Half(p)  lo == p[1]  hi == p[2]
    <2>1. lo \in 0 .. n /\ hi \in 0 .. n /\ lo < hi
      BY <1>2, <1>3
    <2> HIDE DEF lo, hi
    <2>2. h \in lo .. hi - 1
      BY <2>1 DEF lo, hi
    <2> HIDE DEF h
    <2>3. /\ \A m : h \in hits /\ IsLeast(m, lo, h, hits) => IsLeast(m, lo, hi, hits)
          /\ \A m : h \notin hits /\ IsLeast(m, h + 1, hi, hits) => IsLeast(m, lo, hi, hits)
      <3>1. /\ hits \subseteq Nat /\ lo \in Nat /\ hi \in Nat
            /\ \A g \in hits, k \in lo .. hi - 1 : g =< k => k \in hits
        BY <2>1
      <3> QED BY <2>2, <3>1, LeastOfHalf
    <2>4. /\ <<lo, h>> \in D /\ lo =< h /\ h - lo < hi - lo
          /\ <<h + 1, hi>> \in D /\ h + 1 =< hi /\ hi - (h + 1) < hi - lo
      BY <2>1, <2>2
    <2> QED BY <2>3, <2>4 DEF h, lo, hi
  <1>4. ASSUME NEW p \in D, p[1] =< p[2]
        PROVE  Good(p, F[p])
    <2> DEFINE lo == p[1]  hi == p[2]
    <2>1. lo \in Nat /\ hi \in Nat /\ lo =< hi
      BY <1>2, <1>4
    <2>2. CASE lo < hi
      <3>1. F[p] = CHOOSE m : Good(p, m)
        BY <2>1, <2>2
      <3>2. \E m : Good(p, m)
        <4> HIDE DEF lo, hi
        <4>1. \E m : IsLeast(m, lo, hi, hits)
          BY <2>1, LeastExists
        <4> QED BY <4>1 DEF lo, hi
      <3> HIDE DEF Good, F
      <3> QED BY <3>1, <3>2
    <2>3. CASE lo = hi
      <3>1. F[p] = hi
        BY <2>1, <2>3
      <3> HIDE DEF F, lo, hi
      <3>2. IsLeast(hi, lo, hi, hits)
        BY <2>1, <2>3 DEF IsLeast
      <3> QED BY <3>1, <3>2 DEF lo, hi
    <2> QED BY <2>1, <2>2, <2>3
  <1>5. ASSUME NEW p \in D, NEW a, NEW b, Good(p, a), Good(p, b)
        PROVE  a = b
    <2>1. p[1] \in Nat /\ p[2] \in Nat
      BY <1>2
    <2> HIDE DEF D
    <2> QED BY <1>5, <2>1, LeastUnique
  <1>6. F = [p \in D |-> Step(F, p)]
    <2>1. ASSUME NEW p \in D PROVE F[p] = Step(F, p)
      <3>1. p[1] \in Nat /\ p[2] \in Nat
        BY <1>2
      <3>2. CASE p[1] >= p[2]
        BY <3>2
      <3>3. CASE p[1] < p[2]
        <4> HIDE DEF F, Good, D, Half
        <4>1. Good(p, F[p])
          BY <1>4, <3>1, <3>3
        <4>2. Good(p, Step(F, p))
          BY <1>3, <1>4, <3>1, <3>3
        <4> QED BY <1>5, <4>1, <4>2
      <3> QED BY <3>1, <3>2, <3>3
    <2> HIDE DEF Step
    <2> QED BY <2>1
  <1>7. s = [p \in D |-> Step(s, p)]
    <2> HIDE DEF F, Step
    <2> QED BY <1>6
  <1> HIDE DEF F, s
  <1>8. \A p \in D : p[1] =< p[2] => Good(p, s[p])
    <2> DEFINE Bad == {p \in D : p[1] =< p[2] /\ ~Good(p, s[p])}
               Widths == {p[2] - p[1] : p \in Bad}
    <2> HIDE DEF Good, Half
    <2> SUFFICES ASSUME Bad # {} PROVE FALSE
      OBVIOUS
    <2>1. PICK w \in Widths : \A x \in Widths : w =< x
      <3>1. Widths \subseteq Nat /\ Widths # {}
        BY <1>2
      <3> HIDE DEF Widths
      <3> QED BY <3>1, SmallestOf
    <2>2. PICK p \in Bad : w = p[2] - p[1]
      OBVIOUS
    <2>3. p \in D /\ p[1] \in Nat /\ p[2] \in Nat /\ p[1] =< p[2] /\ ~Good(p, s[p])
      BY <1>2
    <2>4. ASSUME NEW q \in D, q[1] =< q[2], q[2] - q[1] < p[2] - p[1]
          PROVE  Good(q, s[q])
      <3> SUFFICES ASSUME ~Good(q, s[q]) PROVE FALSE
        OBVIOUS
      <3>1. q \in Bad
        BY <2>4
      <3> HIDE DEF Bad
      <3>2. w =< q[2] - q[1]
        BY <2>1, <3>1
      <3>3. q[1] \in Nat /\ q[2] \in Nat
        BY <1>2
      <3> QED BY <2>2, <2>3, <2>4, <3>2, <3>3
    <2>5. s[p] = Step(s, p)
      <3> HIDE DEF Step
      <3> QED BY <1>7, <2>3
    <2> HIDE DEF Bad, Widths, D
    <2>6. CASE p[1] >= p[2]
      <3>1. s[p] = p[2] /\ p[1] = p[2]
        BY <2>3, <2>5, <2>6
      <3>2. Good(p, s[p])
        BY <2>3, <3>1 DEF Good, IsLeast
      <3> QED BY <2>3, <3>2
    <2>7. CASE p[1] < p[2]
      <3>1. Good(p, Step(s, p))
        BY <1>3, <2>3, <2>4, <2>7
      <3> QED BY <2>3, <2>5, <3>1
    <2> QED BY <2>3, <2>6, <2>7
  <1> DEFINE m == s[<<0, n>>]
  <1>9. m \in 0 .. n /\ (m = n \/ m \in hits) /\ \A k \in 0 .. m - 1 : k \notin hits
    <2>1. <<0, n>> \in D
      OBVIOUS
    <2>2. Good(<<0, n>>, m)
      <3> HIDE DEF D, Good
      <3> QED BY <1>8, <2>1
    <2> QED BY <2>2 DEF IsLeast
  <1> HIDE DEF m
  <1>10. ASSUME NEW k \in 0 .. n - 1
         PROVE  k \in hits <=> m =< k
    <2>1. k \in hits => ~(k < m)
      BY <1>9
    <2>2. m =< k => k \in hits
      BY <1>9
    <2> QED BY <1>9, <2>1, <2>2
  <1> QED BY <1>1, <1>9, <1>10 DEF m

-----------------------------------------------------------------------------
\* Where Seek and the prefix filter go

LEMMA SeekIndexIs ==
    ASSUME NEW items \in Seq(Keys), NEW reverse, InOrder(reverse, items),
           NEW key \in SeekKeys
    PROVE  LET i == SeekIndex(items, reverse, key)
           IN  /\ i \in 0 .. Len(items)
               /\ \A j \in 1 .. Len(items) : ~Ahead(reverse, items[j], key) <=> i < j
  <1> DEFINE n == Len(items)
             hits == {i \in 0 .. n - 1 : ~Ahead(reverse, items[i + 1], key)}
  <1>1. \A h \in hits, k \in 0 .. n - 1 : h =< k => k \in hits
    <2> SUFFICES ASSUME NEW h \in hits, NEW k \in 0 .. n - 1, h =< k,
                        Ahead(reverse, items[k + 1], key)
                 PROVE  FALSE
      OBVIOUS
    <2> DEFINE i == h + 1  j == k + 1
    <2>1. /\ i \in 1 .. n /\ j \in 1 .. n /\ ~Ahead(reverse, items[i], key)
          /\ i = j \/ i < j
      OBVIOUS
    <2>2. Ahead(reverse, items[j], key)
      OBVIOUS
    <2> HIDE DEF hits, i, j, n
    <2>3. items[i] \in Seq(Nat) /\ items[j] \in Seq(Nat) /\ key \in Seq(Nat)
      BY <2>1 DEF n
    <2>4. i = j \/ Ahead(reverse, items[i], items[j])
      BY <2>1 DEF InOrder, n
    <2> QED BY <2>1, <2>2, <2>3, <2>4, AheadOrder
  <1>2. SeekIndex(items, reverse, key) = Search(n, hits)
    BY DEF SeekIndex
  <1>3. n \in Nat /\ hits \in SUBSET (0 .. n - 1)
    OBVIOUS
  <1> HIDE DEF hits
  <1>4. /\ Search(n, hits) \in 0 .. n
        /\ \A k \in 0 .. n - 1 : k \in hits <=> Search(n, hits) =< k
    BY <1>1, <1>3, SearchIs
  <1>5. ASSUME NEW j \in 1 .. n
        PROVE  ~Ahead(reverse, items[j], key) <=> Search(n, hits) < j
    <2>1. j - 1 \in 0 .. n - 1 /\ (j - 1) + 1 = j
      OBVIOUS
    <2>2. j - 1 \in hits <=> ~Ahead(reverse, items[j], key)
      BY <2>1 DEF hits
    <2>3. j - 1 \in hits <=> Search(n, hits) =< j - 1
      BY <1>4, <2>1
    <2> QED BY <1>4, <2>2, <2>3
  <1> QED BY <1>2, <1>4, <1>5

LEMMA SkipToNextIs ==
    ASSUME NEW items \in Seq(Keys), NEW prefix \in IterPrefixes, NEW i \in 0 .. Len(items)
    PROVE  LET k == SkipToNext(items, prefix, i)
           IN  /\ k \in i .. Len(items)
               /\ \A j \in i + 1 .. k : ~IsPrefix(prefix, items[j])
               /\ k < Len(items) => IsPrefix(prefix, items[k + 1])
  <1> DEFINE n == Len(items)
             found == {j \in i .. n - 1 : IsPrefix(prefix, items[j + 1])}
             k == SkipToNext(items, prefix, i)
  <1>1. CASE prefix = <<>>
    <2>1. k = i
      BY <1>1 DEF SkipToNext
    <2>2. \A t \in Seq(Nat) : IsPrefix(<<>>, t)
      BY DEF IsPrefix
    <2>3. i < n => items[i + 1] \in Seq(Nat)
      OBVIOUS
    <2> QED BY <1>1, <2>1, <2>2, <2>3
  <1>2. CASE prefix # <<>> /\ found = {}
    <2>1. k = n
      BY <1>2 DEF SkipToNext
    <2>2. ASSUME NEW j \in i + 1 .. n PROVE ~IsPrefix(prefix, items[j])
      <3>1. j - 1 \in i .. n - 1 /\ (j - 1) + 1 = j
        OBVIOUS
      <3>2. j - 1 \notin found
        BY <1>2
      <3> QED BY <3>1, <3>2
    <2> QED BY <2>1, <2>2
  <1>3. CASE prefix # <<>> /\ found # {}
    <2>1. k = Min(found)
      BY <1>3 DEF SkipToNext
    <2>2. found \subseteq Nat
      OBVIOUS
    <2>3. k \in found /\ \A j \in found : k =< j
      <3> HIDE DEF found, k
      <3>1. \E m \in found : \A x \in found : m =< x
        BY <1>3, <2>2, SmallestOf
      <3> QED BY <2>1, <3>1 DEF Min
    <2> HIDE DEF k
    <2>4. k \in i .. n - 1 /\ IsPrefix(prefix, items[k + 1])
      BY <2>3
    <2>5. ASSUME NEW j \in i + 1 .. k PROVE ~IsPrefix(prefix, items[j])
      <3>1. j - 1 \in i .. n - 1 /\ (j - 1) + 1 = j /\ ~(k =< j - 1)
        BY <2>4
      <3>2. j - 1 \notin found
        BY <2>3, <3>1
      <3> QED BY <3>1, <3>2
    <2> QED BY <2>4, <2>5 DEF k
  <1> QED BY <1>1, <1>2, <1>3

-----------------------------------------------------------------------------
\* Steps of an iterator

\* The key at j is wanted: it has the prefix and is not ahead of the key of Seek.
WantedAt(c, j) ==
    /\ IsPrefix(c.prefix, c.items[j])
    /\ \A f \in c.from : ~Ahead(c.reverse, c.items[j], f)

LEMMA WantedIs ==
    ASSUME NEW c \in IteratorCalls, InOrder(c.reverse, c.items),
           NEW j \in 1 .. Len(c.items)
    PROVE  /\ c.items[j] \in Wanted(c) <=> WantedAt(c, j)
           /\ c.items[j] \in Keys
           /\ \A i \in 1 .. Len(c.items) : c.items[i] = c.items[j] => i = j
  <1>1. c.items \in Seq(Keys)
    BY DEF IteratorCalls
  <1>2. c.items[j] \in ToSet(c.items)
    BY <1>1 DEF ToSet
  <1>3. c.items[j] \in Keys
    BY <1>1
  <1>4. ASSUME NEW i \in 1 .. Len(c.items), c.items[i] = c.items[j], i # j PROVE FALSE
    <2>1. Ahead(c.reverse, c.items[i], c.items[j]) \/ Ahead(c.reverse, c.items[j], c.items[i])
      BY <1>1, <1>4 DEF InOrder
    <2>2. c.items[j] \in Seq(Nat)
      BY <1>3
    <2> QED BY <1>4, <2>1, <2>2, AheadOrder
  <1> QED BY <1>2, <1>3, <1>4 DEF Wanted, WantedAt

\* Behind a key at or behind the key of Seek are only such keys.
LEMMA FromOn ==
    ASSUME NEW c \in IteratorCalls, InOrder(c.reverse, c.items),
           NEW i \in 1 .. Len(c.items), \A f \in c.from : ~Ahead(c.reverse, c.items[i], f),
           NEW j \in 1 .. Len(c.items), i =< j
    PROVE  \A f \in c.from : ~Ahead(c.reverse, c.items[j], f)
  <1> SUFFICES ASSUME NEW f \in c.from, Ahead(c.reverse, c.items[j], f) PROVE FALSE
    OBVIOUS
  <1>1. /\ c.items[i] \in Seq(Nat) /\ c.items[j] \in Seq(Nat)
    BY DEF IteratorCalls
  <1>2. f \in Seq(Nat)
    BY DEF IteratorCalls
  <1>3. i = j \/ Ahead(c.reverse, c.items[i], c.items[j])
    BY DEF InOrder, IteratorCalls
  <1> QED BY <1>1, <1>2, <1>3, AheadOrder

\* From where all keys are at or behind the key of Seek, the prefix filter goes to
\* the next key that is wanted, over none that is.
LEMMA SkipGoes ==
    ASSUME NEW c \in IteratorCalls, InOrder(c.reverse, c.items),
           NEW i \in 0 .. Len(c.items),
           \A j \in i + 1 .. Len(c.items) : \A f \in c.from : ~Ahead(c.reverse, c.items[j], f)
    PROVE  LET k == SkipToNext(c.items, c.prefix, i)
           IN  /\ k \in i .. Len(c.items)
               /\ \A j \in i + 1 .. k : c.items[j] \notin Wanted(c)
               /\ k < Len(c.items) => c.items[k + 1] \in Wanted(c)
  <1> DEFINE k == SkipToNext(c.items, c.prefix, i)
             n == Len(c.items)
  <1>1. c.items \in Seq(Keys) /\ c.prefix \in IterPrefixes /\ n \in Nat
    BY DEF IteratorCalls
  <1>2. /\ k \in i .. n
        /\ \A j \in i + 1 .. k : ~IsPrefix(c.prefix, c.items[j])
        /\ k < n => IsPrefix(c.prefix, c.items[k + 1])
    BY <1>1, SkipToNextIs
  <1> HIDE DEF k
  <1>3. ASSUME NEW j \in i + 1 .. k PROVE c.items[j] \notin Wanted(c)
    <2>1. j \in 1 .. n
      BY <1>1, <1>2
    <2> QED BY <1>2, <2>1, WantedIs DEF WantedAt
  <1>4. ASSUME k < n PROVE c.items[k + 1] \in Wanted(c)
    <2>1. k + 1 \in 1 .. n /\ k + 1 \in i + 1 .. n
      BY <1>1, <1>2, <1>4
    <2> QED BY <1>2, <1>4, <2>1, WantedIs DEF WantedAt
  <1> QED BY <1>2, <1>3, <1>4 DEF k

LEMMA StartOK ==
    ASSUME NEW keys, IsFiniteSet(keys), keys \subseteq Keys, NEW reverse \in BOOLEAN,
           NEW prefix \in IterPrefixes, NEW from \in SUBSET SeekKeys,
           NEW items, items = Items(keys, reverse), NEW start \in 0 .. Len(items),
           \A j \in 1 .. Len(items) :
              (\A f \in from : ~Ahead(reverse, items[j], f)) <=> start < j
    PROVE  IteratorOK([step |-> "iterate", items |-> items, reverse |-> reverse,
                       prefix |-> prefix, from |-> from, yielded |-> <<>>,
                       currIndex |-> SkipToNext(items, prefix, start)])
  <1> DEFINE k == SkipToNext(items, prefix, start)
             c == [step |-> "iterate", items |-> items, reverse |-> reverse,
                   prefix |-> prefix, from |-> from, yielded |-> <<>>, currIndex |-> k]
  <1>1. items \in Seq(Keys) /\ InOrder(reverse, items) /\ Len(items) \in Nat
    BY ItemsInOrder
  <1>2. k \in start .. Len(items)
    BY <1>1, SkipToNextIs
  <1>3. /\ c.items = items /\ c.reverse = reverse /\ c.prefix = prefix /\ c.from = from
        /\ c.yielded = <<>> /\ c.currIndex = k
    OBVIOUS
  <1>4. c \in IteratorCalls
    BY <1>1, <1>2 DEF IteratorCalls
  <1>5. SUFFICES IteratorOK(c)
    OBVIOUS
  <1> HIDE DEF c
  <1>6. \A j \in start + 1 .. Len(items) : \A f \in c.from : ~Ahead(c.reverse, c.items[j], f)
    BY <1>1, <1>3
  <1>7. /\ \A j \in start + 1 .. k : c.items[j] \notin Wanted(c)
        /\ k < Len(items) => c.items[k + 1] \in Wanted(c)
    BY <1>1, <1>3, <1>4, <1>6, SkipGoes
  <1> HIDE DEF k
  <1>8. ASSUME NEW j \in 1 .. k, c.items[j] \in Wanted(c) PROVE FALSE
    <2>1. j \in 1 .. Len(items)
      BY <1>1, <1>2
    <2>2. \A f \in from : ~Ahead(reverse, items[j], f)
      BY <1>1, <1>3, <1>4, <1>8, <2>1, WantedIs DEF WantedAt
    <2>3. j \in start + 1 .. k
      BY <1>2, <2>1, <2>2
    <2> QED BY <1>7, <1>8, <2>3
  <1>9. ToSet(c.yielded) = {} /\ InOrder(c.reverse, c.yielded)
    BY <1>3 DEF ToSet, InOrder
  <1>10. ToSet(c.yielded) = Wanted(c) \cap {c.items[i] : i \in 1 .. c.currIndex}
    BY <1>3, <1>8, <1>9
  <1>11. c.currIndex =< Len(c.items)
    BY <1>1, <1>2, <1>3
  <1> QED BY <1>1, <1>3, <1>4, <1>7, <1>9, <1>10, <1>11 DEF IteratorOK

LEMMA ToSetAppend ==
    ASSUME NEW S, NEW s \in Seq(S), NEW x \in S
    PROVE  ToSet(Append(s, x)) = ToSet(s) \cup {x}
  <1> DEFINE t == Append(s, x)
  <1>1. /\ DOMAIN s = 1 .. Len(s) /\ DOMAIN t = 1 .. Len(s) + 1 /\ Len(s) \in Nat
        /\ \A i \in 1 .. Len(s) : t[i] = s[i]
        /\ t[Len(s) + 1] = x
    OBVIOUS
  <1> HIDE DEF t
  <1>2. \A i \in 1 .. Len(s) + 1 : i \in 1 .. Len(s) \/ i = Len(s) + 1
    BY <1>1
  <1>3. \A i \in 1 .. Len(s) : i \in 1 .. Len(s) + 1
    BY <1>1
  <1>4. ToSet(t) \subseteq ToSet(s) \cup {x}
    BY <1>1, <1>2 DEF ToSet
  <1>5. Len(s) + 1 \in 1 .. Len(s) + 1
    BY <1>1
  <1>6. ToSet(s) \cup {x} \subseteq ToSet(t)
    BY <1>1, <1>3, <1>5 DEF ToSet
  <1> QED BY <1>4, <1>6 DEF t

LEMMA NextOK ==
    ASSUME NEW c, IteratorOK(c), c.currIndex < Len(c.items),
           NEW d, d = [c EXCEPT !.step = "iterate",
                                !.yielded = Append(@, c.items[c.currIndex + 1]),
                                !.currIndex = SkipToNext(c.items, c.prefix, @ + 1)]
    PROVE  IteratorOK(d)
  <1> DEFINE i == c.currIndex + 1
             k == SkipToNext(c.items, c.prefix, i)
             n == Len(c.items)
             x == c.items[i]
  <1>1. /\ c \in IteratorCalls /\ c.items \in Seq(Keys) /\ c.yielded \in Seq(Keys)
        /\ c.currIndex \in Nat /\ n \in Nat /\ c.prefix \in IterPrefixes
        /\ InOrder(c.reverse, c.items) /\ InOrder(c.reverse, c.yielded)
        /\ ToSet(c.yielded) = Wanted(c) \cap {c.items[j] : j \in 1 .. c.currIndex}
        /\ x \in Wanted(c)
    BY DEF IteratorOK, IteratorCalls
  <1>2. i \in 1 .. n
    BY <1>1
  <1>3. x \in Keys /\ \A f \in c.from : ~Ahead(c.reverse, x, f)
    BY <1>1, <1>2, WantedIs DEF WantedAt
  <1>4. \A j \in i + 1 .. n : \A f \in c.from : ~Ahead(c.reverse, c.items[j], f)
    <2> SUFFICES ASSUME NEW j \in i + 1 .. n
                 PROVE  \A f \in c.from : ~Ahead(c.reverse, c.items[j], f)
      OBVIOUS
    <2>1. j \in 1 .. n /\ i =< j
      BY <1>2
    <2> QED BY <1>1, <1>2, <1>3, <2>1, FromOn
  <1>5. /\ k \in i .. n
        /\ \A j \in i + 1 .. k : c.items[j] \notin Wanted(c)
        /\ k < n => c.items[k + 1] \in Wanted(c)
    <2>1. i \in 0 .. n
      BY <1>2
    <2> HIDE DEF i
    <2> QED BY <1>1, <1>4, <2>1, SkipGoes
  <1>6. /\ d.step = "iterate" /\ d.items = c.items /\ d.reverse = c.reverse
        /\ d.prefix = c.prefix /\ d.from = c.from
        /\ d.yielded = Append(c.yielded, x) /\ d.currIndex = k
    BY <1>1 DEF IteratorCalls
  <1> HIDE DEF k, x
  <1>7. d.yielded \in Seq(Keys) /\ Len(d.yielded) = Len(c.yielded) + 1
    BY <1>1, <1>3, <1>6
  <1>8. d \in IteratorCalls
    <2>1. k \in Nat
      BY <1>2, <1>5
    <2> QED BY <1>1, <1>6, <1>7, <2>1 DEF IteratorCalls, k, x
  <1>9. Wanted(d) = Wanted(c)
    BY <1>6 DEF Wanted
  <1>10. ToSet(d.yielded) = ToSet(c.yielded) \cup {x}
    <2>1. c.yielded \in Seq(Keys) /\ x \in Keys /\ d.yielded = Append(c.yielded, x)
      BY <1>1, <1>3, <1>6, Zenon
    <2>2. ToSet(Append(c.yielded, x)) = ToSet(c.yielded) \cup {x}
      BY <2>1, ToSetAppend
    <2> QED BY <2>1, <2>2, Zenon
  <1>11. InOrder(d.reverse, d.yielded)
    <2> SUFFICES ASSUME NEW a \in 1 .. Len(d.yielded), NEW b \in 1 .. Len(d.yielded), a < b
                 PROVE  Ahead(c.reverse, d.yielded[a], d.yielded[b])
      BY <1>6 DEF InOrder
    <2>1. a \in 1 .. Len(c.yielded) /\ d.yielded[a] = c.yielded[a]
      BY <1>1, <1>6, <1>7
    <2>2. CASE b \in 1 .. Len(c.yielded)
      <3>1. d.yielded[b] = c.yielded[b]
        BY <1>1, <1>6, <2>2
      <3> QED BY <1>1, <2>1, <2>2, <3>1 DEF InOrder
    <2>3. CASE b = Len(c.yielded) + 1
      <3>1. d.yielded[b] = x
        BY <1>1, <1>6, <2>3
      <3>2. c.yielded[a] \in ToSet(c.yielded)
        BY <1>1, <2>1 DEF ToSet
      <3>3. PICK j \in 1 .. c.currIndex : c.yielded[a] = c.items[j]
        BY <1>1, <3>2
      <3>4. j \in 1 .. n /\ j < i
        BY <1>1, <1>2
      <3> QED BY <1>1, <1>2, <2>1, <3>1, <3>3, <3>4 DEF InOrder, x
    <2> QED BY <1>1, <1>7, <2>2, <2>3
  <1>12. ToSet(d.yielded) = Wanted(d) \cap {d.items[j] : j \in 1 .. d.currIndex}
    <2>1. \A j \in 1 .. k : j \in 1 .. c.currIndex \/ j = i \/ j \in i + 1 .. k
      BY <1>1, <1>2, <1>5
    <2>2. \A j \in 1 .. c.currIndex : j \in 1 .. k
      BY <1>1, <1>5
    <2>3. i \in 1 .. k
      BY <1>2, <1>5
    <2>4. ToSet(d.yielded) \subseteq Wanted(d) \cap {d.items[j] : j \in 1 .. d.currIndex}
      BY <1>1, <1>6, <1>9, <1>10, <2>2, <2>3 DEF x
    <2>5. ASSUME NEW j \in 1 .. k, c.items[j] \in Wanted(c)
          PROVE  c.items[j] \in ToSet(c.yielded) \cup {x}
      BY <1>1, <1>5, <2>1, <2>5 DEF x
    <2> QED BY <1>6, <1>9, <1>10, <2>4, <2>5
  <1>13. d.currIndex =< Len(d.items)
    BY <1>1, <1>2, <1>5, <1>6
  <1> QED BY <1>1, <1>5, <1>6, <1>8, <1>9, <1>11, <1>12, <1>13 DEF IteratorOK

LEMMA ValueOK ==
    ASSUME NEW c, IteratorOK(c), NEW d, d = [c EXCEPT !.step = "value"]
    PROVE  IteratorOK(d) /\ d.currIndex = c.currIndex /\ d.items = c.items
  <1>1. /\ d.items = c.items /\ d.reverse = c.reverse /\ d.prefix = c.prefix
        /\ d.from = c.from /\ d.yielded = c.yielded /\ d.currIndex = c.currIndex
        /\ d \in IteratorCalls
    BY DEF IteratorOK, IteratorCalls
  <1>2. Wanted(d) = Wanted(c)
    BY <1>1 DEF Wanted
  <1> QED BY <1>1, <1>2 DEF IteratorOK

-----------------------------------------------------------------------------
\* The invariant of the iterators

\* What a step of a reader has to do to it.
LEMMA ReaderStepIter ==
    ASSUME IterInv, NEW r \in Readers, OneCall(r), UNCHANGED index,
           call'[r].step \in {"iterate", "value"} => IteratorOK(call'[r]),
           call'[r].step = "value" => call'[r].currIndex < Len(call'[r].items)
    PROVE  IterInv'
  <1>1. \A q \in Readers \ {r} : call'[q] = call[q]
    BY DEF OneCall
  <1>2. \A q \in Readers : call'[q].step \in {"iterate", "value"} => IteratorOK(call'[q])
    BY <1>1 DEF IterInv
  <1>3. \A q \in Readers : call'[q].step = "value" =>
            call'[q].currIndex < Len(call'[q].items)
    BY <1>1 DEF IterInv, At, Valid
  <1>4. IsFiniteSet(index)' /\ (index \subseteq Keys)'
    BY DEF IterInv
  <1> QED BY <1>2, <1>3, <1>4 DEF IterInv, At, Valid

LEMMA ReadingKeepsIterInv ==
    ASSUME FoldInv, IterInv, NEW r \in Readers, Reading(r) \/ ReadStart(r)
    PROVE  IterInv'
  <1>0. /\ call = [g \in Writers \cup Readers |-> call[g]]
        /\ "step" \in DOMAIN call[r]
        /\ call[r].step \in {"iterate", "value"} => IteratorOK(call[r])
        /\ At(r, "value") => Valid(r)
    BY DEF FoldInv, CallsTypeOK, IterInv
  <1>1. CASE ReadStart(r)
    <2>1. PICK op \in {"Get", "Fold"} : call' = [call EXCEPT ![r] = [step |-> op]]
      BY <1>1 DEF ReadStart
    <2>2. OneCall(r) /\ call'[r] = [step |-> op] /\ UNCHANGED index
      BY <1>1, <2>1, OneCallChanged DEF ReadStart
    <2> QED BY <2>2, ReaderStepIter
  <1>2. CASE GetReturn(r) \/ FoldReturn(r) \/ IterateEnd(r)
    <2>1. call' = [call EXCEPT ![r] = NoCall] /\ UNCHANGED index
      BY <1>2 DEF GetReturn, FoldReturn, IterateEnd, Finish
    <2>2. OneCall(r) /\ call'[r] = [step |-> "idle"]
      BY <2>1, OneCallChanged DEF NoCall
    <2> QED BY <2>1, <2>2, ReaderStepIter
  <1>3. CASE FoldSnapshot(r)
    <2>1. OneCall(r) /\ call'[r] = [step |-> "visit", seen |-> index] /\ UNCHANGED index
      BY <1>3, OneCallChanged DEF FoldSnapshot
    <2> QED BY <2>1, ReaderStepIter
  <1>4. CASE Value(r)
    <2> DEFINE d == [call[r] EXCEPT !.step = "value"]
    <2>1. call[r].step = "iterate" /\ Valid(r) /\ UNCHANGED index
      BY <1>4 DEF Value, At
    <2>2. call' = [call EXCEPT ![r] = d]
      BY <1>4 DEF Value, Goto
    <2>3. OneCall(r) /\ call'[r] = d
      BY <2>2, OneCallChanged
    <2>4. IteratorOK(d) /\ d.currIndex = call[r].currIndex /\ d.items = call[r].items
      BY <1>0, <2>1, ValueOK
    <2> HIDE DEF d
    <2> QED BY <2>1, <2>3, <2>4, ReaderStepIter DEF Valid
  <1>5. CASE NextKey(r)
    <2> DEFINE c == call[r]
               d == [c EXCEPT !.step = "iterate",
                              !.yielded = Append(@, c.items[c.currIndex + 1]),
                              !.currIndex = SkipToNext(c.items, c.prefix, @ + 1)]
    <2>1. call[r].step = "value" /\ UNCHANGED index
      BY <1>5 DEF NextKey, At
    <2>2. IteratorOK(c) /\ c.currIndex < Len(c.items)
      BY <1>0, <2>1 DEF At, Valid
    <2>3. call' = [call EXCEPT ![r] = d]
      BY <1>0, <1>5 DEF NextKey
    <2>4. OneCall(r) /\ call'[r] = d
      BY <2>3, OneCallChanged
    <2>5. d.step = "iterate"
      BY <2>2 DEF IteratorOK, IteratorCalls
    <2>6. IteratorOK(d)
      <3> HIDE DEF c
      <3> QED BY <2>2, NextOK
    <2> HIDE DEF d
    <2> QED BY <2>1, <2>4, <2>5, <2>6, ReaderStepIter
  <1> QED BY <1>1, <1>2, <1>3, <1>4, <1>5 DEF Reading

LEMMA IteratingKeepsIterInv ==
    ASSUME FoldInv, IterInv, NEW r \in Iterating, Rewind(r) \/ Seek(r)
    PROVE  IterInv'
  <1>0. r \in Readers /\ IsFiniteSet(index) /\ index \subseteq Keys
    BY DEF IterInv
  <1> DEFINE At0(from, start) == from = {} /\ start = 0
             AtKey(reverse, from, start) == \E key \in SeekKeys :
                from = {key} /\ start = SeekIndex(Items(index, reverse), reverse, key)
  <1>8. PICK reverse \in BOOLEAN, prefix \in IterPrefixes, from \in SUBSET SeekKeys :
            \E start :
                /\ IterateFrom(r, reverse, prefix, from, start)
                /\ (At0(from, start) \/ AtKey(reverse, from, start))
    <2>1. CASE Rewind(r)
      <3>1. PICK reverse \in BOOLEAN, prefix \in IterPrefixes :
                IterateFrom(r, reverse, prefix, {}, 0)
        BY <2>1 DEF Rewind
      <3> QED BY <3>1
    <2>2. CASE Seek(r)
      <3>1. PICK reverse \in BOOLEAN, prefix \in IterPrefixes, key \in SeekKeys :
                IterateFrom(r, reverse, prefix, {key},
                            SeekIndex(Items(index, reverse), reverse, key))
        BY <2>2 DEF Seek
      <3>2. {key} \in SUBSET SeekKeys
                /\ AtKey(reverse, {key}, SeekIndex(Items(index, reverse), reverse, key))
        OBVIOUS
      <3> HIDE DEF AtKey
      <3> QED BY <3>1, <3>2
    <2> QED BY <2>1, <2>2
  <1>1. PICK start :
            /\ IterateFrom(r, reverse, prefix, from, start)
            /\ (At0(from, start) \/ AtKey(reverse, from, start))
    BY <1>8
  <1> DEFINE items == Items(index, reverse)
             c == [step |-> "iterate", items |-> items, reverse |-> reverse,
                   prefix |-> prefix, from |-> from, yielded |-> <<>>,
                   currIndex |-> SkipToNext(items, prefix, start)]
  <1>2. items \in Seq(Keys) /\ InOrder(reverse, items) /\ Len(items) \in Nat
    BY <1>0, ItemsInOrder
  <1>3. /\ start \in 0 .. Len(items)
        /\ \A j \in 1 .. Len(items) :
              (\A f \in from : ~Ahead(reverse, items[j], f)) <=> start < j
    <2>1. CASE At0(from, start)
      <3> HIDE DEF items
      <3> QED BY <1>2, <2>1
    <2>2. CASE AtKey(reverse, from, start)
      <3>1. PICK key \in SeekKeys : from = {key} /\ start = SeekIndex(items, reverse, key)
        BY <2>2
      <3> HIDE DEF items, AtKey, At0
      <3>2. /\ SeekIndex(items, reverse, key) \in 0 .. Len(items)
            /\ \A j \in 1 .. Len(items) :
                  ~Ahead(reverse, items[j], key) <=> SeekIndex(items, reverse, key) < j
        BY <1>2, SeekIndexIs
      <3> QED BY <3>1, <3>2
    <2> QED BY <1>1, <2>1, <2>2
  <1>4. IteratorOK(c)
    BY <1>0, <1>3, StartOK
  <1>5. call' = [call EXCEPT ![r] = c] /\ UNCHANGED index
    BY <1>1 DEF IterateFrom
  <1>6. OneCall(r) /\ call'[r] = c
    BY <1>0, <1>5, OneCallChanged
  <1>7. c.step = "iterate"
    OBVIOUS
  <1> HIDE DEF c
  <1> QED BY <1>0, <1>4, <1>5, <1>6, <1>7, ReaderStepIter

\* A step of a writer leaves the readers alone.
LEMMA WritingKeepsIterInv ==
    ASSUME FoldInv, IterInv, NEW w \in Writers,
           NEW v, call' = [call EXCEPT ![w] = v],
           IsFiniteSet(index)', (index \subseteq Keys)'
    PROVE  IterInv'
  <1>1. \A r \in Readers : call'[r] = call[r]
    BY OneCallChanged DEF OneCall
  <1> QED BY <1>1 DEF IterInv, At, Valid

LEMMA StartedKeepsIterInv ==
    ASSUME FoldInv, IterInv, NEW w \in Writers, Announce(w) \/ Started(w)
    PROVE  IterInv'
  <1>0. /\ call = [g \in Writers \cup Readers |-> call[g]]
        /\ call[w] \in WriterCalls /\ IsFiniteSet(index) /\ index \subseteq Keys
    BY DEF FoldInv, CallsTypeOK, IterInv
  <1>1. CASE Announce(w)
    <2>1. UNCHANGED index /\ call' = [call EXCEPT ![w] = [call[w] EXCEPT !.step = "drain"]]
      BY <1>1 DEF Announce, Goto
    <2> QED BY <1>0, <2>1, WritingKeepsIterInv
  <1>2. CASE AppendRecords(w)
    <2>1. UNCHANGED index /\ \E s : call' = [call EXCEPT ![w] = [call[w] EXCEPT !.step = s]]
      BY <1>2 DEF AppendRecords, Goto
    <2> QED BY <1>0, <2>1, WritingKeepsIterInv
  <1>3. CASE UnlockEarly(w)
    <2>1. UNCHANGED index /\ call' = [call EXCEPT ![w] = [call[w] EXCEPT !.step = "index"]]
      BY <1>3 DEF UnlockEarly, Goto
    <2> QED BY <1>0, <2>1, WritingKeepsIterInv
  <1>4. CASE UpdateIndex(w)
    <2>1. PICK k \in call[w].todo :
              /\ index' = IF call[w].puts THEN index \cup {k} ELSE index \ {k}
              /\ call' = [call EXCEPT ![w] = [call[w] EXCEPT !.todo = call[w].todo \ {k}]]
      BY <1>4 DEF UpdateIndex
    <2>2. k \in Keys
      BY <1>0, <1>4 DEF UpdateIndex, At, WriterCalls, NoCall
    <2>3. IsFiniteSet(index)' /\ (index \subseteq Keys)'
      BY <1>0, <2>1, <2>2, FS_AddElement, FS_RemoveElement
    <2> QED BY <2>1, <2>3, WritingKeepsIterInv
  <1>5. CASE WriteReturn(w)
    <2>1. UNCHANGED index /\ call' = [call EXCEPT ![w] = NoCall]
      BY <1>5 DEF WriteReturn, Finish
    <2> QED BY <1>0, <2>1, WritingKeepsIterInv
  <1> QED BY <1>1, <1>2, <1>3, <1>4, <1>5 DEF Started

LEMMA NextKeepsIterInv ==
    ASSUME FoldInv, IterInv, [Next]_vars
    PROVE  IterInv'
  <1>1. CASE \E w \in Writers, keys \in SUBSET Keys, puts \in BOOLEAN : WriteStart(w, keys, puts)
    <2>1. PICK w \in Writers, keys \in SUBSET Keys, puts \in BOOLEAN : WriteStart(w, keys, puts)
      BY <1>1
    <2>2. UNCHANGED index /\ \E v : call' = [call EXCEPT ![w] = v]
      BY <2>1 DEF WriteStart
    <2>3. IsFiniteSet(index)' /\ (index \subseteq Keys)'
      BY <2>2 DEF IterInv
    <2> QED BY <2>2, <2>3, WritingKeepsIterInv
  <1>2. CASE \E w \in Writers : Announce(w) \/ Started(w)
    BY <1>2, StartedKeepsIterInv
  <1>3. CASE \E r \in Readers : ReadStart(r) \/ Reading(r)
    BY <1>3, ReadingKeepsIterInv
  <1>4. CASE \E r \in Iterating : Rewind(r) \/ Seek(r)
    BY <1>4, IteratingKeepsIterInv
  <1>5. CASE UNCHANGED vars
    BY <1>5 DEF vars, mu, IterInv, At, Valid
  <1> QED BY <1>1, <1>2, <1>3, <1>4, <1>5 DEF Next, Put, Delete, CommitStart

LEMMA InitIterInv ==
    ASSUME Init
    PROVE  IterInv
  <1>1. \A r \in Readers : call[r] = [step |-> "idle"]
    BY DEF Init, NoCall
  <1>2. IsFiniteSet(index) /\ index \subseteq Keys
    BY FS_EmptySet DEF Init
  <1> QED BY <1>1, <1>2 DEF IterInv, At

\* Every iterator has yielded what is wanted before currIndex, and stands at a
\* key that is wanted or at the end, in every state (iterator.go:24-66).
THEOREM IterInvariance == Spec => []IterInv
  <1>1. FoldInv /\ IterInv /\ [Next]_vars => IterInv'
    BY NextKeepsIterInv
  <1>2. Init => IterInv
    BY InitIterInv
  <1> QED BY <1>1, <1>2, FoldInvariance, PTL DEF Spec

\* An iteration that has come to its end has yielded the keys that prefix,
\* direction and the key of Seek ask for, all of them, in order, whatever the
\* writers did meanwhile (iterator.go; btree.go:91-144, art.go:83-140).
THEOREM IterationAlwaysComplete == Spec => []IterationComplete
  <1>1. IterInv => IterationComplete
    <2> SUFFICES ASSUME IterInv, NEW r \in Iterating, At(r, "iterate"), ~Valid(r)
                 PROVE  /\ ToSet(call[r].yielded) = Wanted(call[r])
                        /\ InOrder(call[r].reverse, call[r].yielded)
      BY DEF IterationComplete
    <2> DEFINE c == call[r]
    <2>1. /\ IteratorOK(c) /\ ~(c.currIndex < Len(c.items))
      BY DEF IterInv, At, Valid
    <2> HIDE DEF c
    <2>2. /\ c.items \in Seq(Keys) /\ c.currIndex = Len(c.items)
          /\ InOrder(c.reverse, c.yielded)
          /\ ToSet(c.yielded) = Wanted(c) \cap {c.items[i] : i \in 1 .. c.currIndex}
      BY <2>1 DEF IteratorOK, IteratorCalls
    <2>3. Wanted(c) \subseteq {c.items[i] : i \in 1 .. c.currIndex}
      BY <2>2 DEF Wanted, ToSet
    <2> QED BY <2>2, <2>3 DEF c
  <1> QED BY <1>1, IterInvariance, PTL
=============================================================================
