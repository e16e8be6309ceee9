--------------------------- MODULE MergeLogProofs ---------------------------
(***************************************************************************)
(* What commits beside Merge keep, for every value of the constants: the   *)
(* hint-index and the files that were not merged say the same of every key *)
(* as the log of the running instance.                                     *)
(***************************************************************************)
EXTENDS MergeLogInvariant, MergeProofs

USE DEF NoFile, NoDir, Empty

-----------------------------------------------------------------------------
\* Logs

IsLog(g) == g \in [FileIds -> Seq(Records)] /\ \A f \in FileIds : Len(g[f]) =< DataFileSize

LEMMA PlaceIs ==
    ASSUME NEW g, IsLog(g), NEW n, NEW p \in Places(g, n)
    PROVE  /\ p \in Positions /\ p.fid \in FileIds /\ p.fid >= n
           /\ p.off \in Nat /\ p.off < Len(g[p.fid]) /\ p.off + 1 \in 1 .. Len(g[p.fid])
           /\ Rec(g, p) \in Records
  <1>1. p \in Positions /\ p.fid >= n /\ p.off < Len(g[p.fid])
    BY DEF Places
  <1>2. p.fid \in FileIds /\ p.off \in Nat
    BY <1>1, Sizes
  <1>3. g[p.fid] \in Seq(Records) /\ Len(g[p.fid]) \in Nat
    BY <1>2 DEF IsLog
  <1>4. p.off + 1 \in 1 .. Len(g[p.fid])
    BY <1>1, <1>2, <1>3
  <1> QED BY <1>1, <1>2, <1>3, <1>4 DEF Rec

LEMMA PlacesFrom ==
    ASSUME NEW g, NEW n \in Nat
    PROVE  \A p : p \in Places(g, n) <=> p \in Places(g, 0) /\ p.fid >= n
  BY Sizes DEF Places

\* A file that two logs share has the same places and records in both.
LEMMA SharedFile ==
    ASSUME NEW g, NEW h, NEW p, g[p.fid] = h[p.fid], NEW n
    PROVE  (p \in Places(g, n) <=> p \in Places(h, n)) /\ Rec(g, p) = Rec(h, p)
  BY DEF Places, Rec

\* Logs that share the files from n on say the same from n on.
LEMMA SharedTail ==
    ASSUME NEW g, NEW h, NEW n, \A f \in FileIds : f >= n => g[f] = h[f], NEW k, NEW p
    PROVE  Counts(g, n, k, p) <=> Counts(h, n, k, p)
  <1>1. ASSUME NEW q
        PROVE  /\ q \in Places(g, n) <=> q \in Places(h, n)
               /\ q \in Places(g, n) => Rec(g, q) = Rec(h, q)
    <2>1. q \in Positions /\ q.fid >= n => g[q.fid] = h[q.fid]
      BY Sizes
    <2> QED BY <2>1 DEF Places, Rec
  <1>2. \A s : Ended(g, n, s) <=> Ended(h, n, s)
    BY <1>1, Zenon DEF Ended
  <1> QED BY <1>1, <1>2, Zenon DEF Counts

\* An end counts from any file up to its batch.
LEMMA CountsFrom ==
    ASSUME NEW g, IsLog(g), EndsLast(g), NEW n \in Nat, NEW k, NEW p
    PROVE  Counts(g, n, k, p) <=> Counts(g, 0, k, p) /\ p.fid >= n
  <1>1. \A q : q \in Places(g, n) <=> q \in Places(g, 0) /\ q.fid >= n
    BY PlacesFrom
  <1>2. ASSUME p \in Places(g, 0), p.fid >= n, Rec(g, p).seq # 0,
               NEW q \in Places(g, 0), Rec(g, q).seq = Rec(g, p).seq, Rec(g, q).val = Finished
        PROVE  q \in Places(g, n)
    <2>1. p = q \/ Before(p, q)
      BY <1>2 DEF EndsLast
    <2>2. p.fid \in Nat /\ q.fid \in Nat
      BY <1>2, PlaceIs, Sizes
    <2>3. q.fid >= n
      BY <1>2, <2>1, <2>2 DEF Before
    <2> QED BY <1>1, <2>3
  <1>3. Ended(g, n, Rec(g, p).seq) => Ended(g, 0, Rec(g, p).seq)
    BY <1>1 DEF Ended
  <1>4. p \in Places(g, 0) /\ p.fid >= n /\ Rec(g, p).seq # 0 /\ Ended(g, 0, Rec(g, p).seq)
            => Ended(g, n, Rec(g, p).seq)
    BY <1>2 DEF Ended
  <1> QED BY <1>1, <1>3, <1>4 DEF Counts

-----------------------------------------------------------------------------
\* The newest record of a key

LEMMA NewestExists ==
    ASSUME NEW g, NEW n, NEW k, ~NoneCounts(g, n, k)
    PROVE  \E p \in Positions : IsNewest(g, n, k, p)
  <1>1. PICK S : S = {p \in Positions : Counts(g, n, k, p)}
    OBVIOUS
  <1>2. S \subseteq Positions /\ S # {}
    BY <1>1 DEF NoneCounts
  <1>3. Last(S) \in S /\ \A q \in S \ {Last(S)} : Before(q, Last(S))
    BY <1>2, LastIs
  <1>4. PICK p \in S : \A q \in S \ {p} : Before(q, p)
    BY <1>3
  <1> QED BY <1>1, <1>4 DEF IsNewest

LEMMA NewestUnique ==
    ASSUME NEW g, NEW n, NEW k, NEW p \in Positions, NEW q \in Positions,
           IsNewest(g, n, k, p), IsNewest(g, n, k, q)
    PROVE  p = q
  <1>1. p = q \/ Before(p, q)
    BY DEF IsNewest
  <1>2. p = q \/ Before(q, p)
    BY DEF IsNewest
  <1> QED BY <1>1, <1>2, BeforeIs

LEMMA LastIsNewest ==
    ASSUME NEW g, NEW n, NEW k, NEW S, S = {p \in Positions : Counts(g, n, k, p)}, S # {}
    PROVE  Last(S) \in Positions /\ IsNewest(g, n, k, Last(S))
  <1>1. S \subseteq Positions
    OBVIOUS
  <1>2. Last(S) \in S /\ \A q \in S \ {Last(S)} : Before(q, Last(S))
    BY <1>1, LastIs
  <1>3. PICK p : p = Last(S)
    OBVIOUS
  <1>4. p \in Positions /\ IsNewest(g, n, k, p)
    BY <1>2, <1>3 DEF IsNewest
  <1> QED BY <1>3, <1>4

\* The newest record from file n on is the newest of all.
LEMMA NewestFrom ==
    ASSUME NEW g, IsLog(g), EndsLast(g), NEW n \in Nat, NEW k, NEW p \in Positions,
           IsNewest(g, n, k, p)
    PROVE  IsNewest(g, 0, k, p)
  <1>1. Counts(g, 0, k, p) /\ p.fid >= n
    BY CountsFrom DEF IsNewest
  <1>2. ASSUME NEW q \in Positions, Counts(g, 0, k, q)
        PROVE  q = p \/ Before(q, p)
    <2>1. CASE q.fid >= n
      <3>1. Counts(g, n, k, q)
        BY <1>2, <2>1, CountsFrom
      <3> QED BY <3>1 DEF IsNewest
    <2>2. CASE ~(q.fid >= n)
      <3>1. q.fid \in Nat /\ p.fid \in Nat
        BY Sizes
      <3>2. q.fid < p.fid
        BY <1>1, <2>2, <3>1
      <3> QED BY <3>2 DEF Before
    <2> QED BY <2>1, <2>2
  <1> QED BY <1>1, <1>2 DEF IsNewest

LEMMA TellsOnce ==
    ASSUME NEW g, NEW k, NEW d, NEW e, Tells(g, k, d), Tells(g, k, e)
    PROVE  d = e
  <1>1. \A p \in Positions : IsNewest(g, 0, k, p) => ~NoneCounts(g, 0, k)
    BY DEF IsNewest, NoneCounts
  <1>2. \A p, q \in Positions : IsNewest(g, 0, k, p) /\ IsNewest(g, 0, k, q) => p = q
    BY NewestUnique
  <1>3. CASE NoneCounts(g, 0, k)
    BY <1>1, <1>3 DEF Tells
  <1>4. CASE ~NoneCounts(g, 0, k)
    <2>1. PICK p \in Positions : /\ IsNewest(g, 0, k, p)
                                /\ d = IF Rec(g, p).val = Tombstone THEN NoPos ELSE p
      BY <1>4 DEF Tells
    <2>2. PICK q \in Positions : /\ IsNewest(g, 0, k, q)
                                /\ e = IF Rec(g, q).val = Tombstone THEN NoPos ELSE q
      BY <1>4 DEF Tells
    <2> QED BY <1>2, <2>1, <2>2
  <1> QED BY <1>3, <1>4

\* The record an index entry leads to, by what the log tells.
LEMMA ToldEntry ==
    ASSUME NEW g, NEW k, NEW e, Tells(g, k, e)
    PROVE  e # NoPos => /\ e \in Positions /\ e \in Places(g, 0) /\ IsNewest(g, 0, k, e)
                        /\ Rec(g, e).key = k /\ Rec(g, e).val # Tombstone
  BY DEF Tells, IsNewest, Counts

\* A key has one value, that of its entry.
LEMMA SaysTold ==
    ASSUME NEW g, NEW k, NEW e, NEW v, Tells(g, k, e), Says(g, k, v)
    PROVE  /\ e = NoPos => v = Tombstone
           /\ e # NoPos => Rec(g, e).val = v
  <1>1. \A p \in Positions : IsNewest(g, 0, k, p) => ~NoneCounts(g, 0, k)
    BY DEF IsNewest, NoneCounts
  <1>2. \A p, q \in Positions : IsNewest(g, 0, k, p) /\ IsNewest(g, 0, k, q) => p = q
    BY NewestUnique
  <1>3. CASE NoneCounts(g, 0, k)
    BY <1>1, <1>3 DEF Tells, Says
  <1>4. CASE ~NoneCounts(g, 0, k)
    <2>1. PICK p \in Positions : /\ IsNewest(g, 0, k, p)
                                /\ e = IF Rec(g, p).val = Tombstone THEN NoPos ELSE p
      BY <1>4 DEF Tells
    <2>2. PICK q \in Positions : IsNewest(g, 0, k, q) /\ Rec(g, q).val = v
      BY <1>4 DEF Says
    <2>3. p = q /\ p # NoPos
      BY <1>2, <2>1, <2>2, Sizes
    <2> QED BY <2>1, <2>2, <2>3
  <1> QED BY <1>3, <1>4

\* What a log says of a key depends on the records that count of it alone.
LEMMA SameTold ==
    ASSUME NEW g, NEW h, NEW k, \A p \in Positions : Counts(g, 0, k, p) <=> Counts(h, 0, k, p),
           \A p \in Positions : Counts(g, 0, k, p) => Rec(g, p) = Rec(h, p)
    PROVE  /\ \A e : Tells(g, k, e) <=> Tells(h, k, e)
           /\ \A v : Says(g, k, v) <=> Says(h, k, v)
           /\ NoneCounts(g, 0, k) <=> NoneCounts(h, 0, k)
  <1>1. NoneCounts(g, 0, k) <=> NoneCounts(h, 0, k)
    BY DEF NoneCounts
  <1>2. ASSUME NEW p \in Positions
        PROVE  /\ IsNewest(g, 0, k, p) <=> IsNewest(h, 0, k, p)
               /\ IsNewest(g, 0, k, p) => Rec(g, p) = Rec(h, p)
    BY DEF IsNewest
  <1>3. \A e : Tells(g, k, e) <=> Tells(h, k, e)
    BY <1>1, <1>2 DEF Tells
  <1>4. \A v : Says(g, k, v) <=> Says(h, k, v)
    BY <1>1, <1>2 DEF Says
  <1> QED BY <1>1, <1>3, <1>4

-----------------------------------------------------------------------------
\* Copies

\* Copies speak of the files below n only.
LEMMA SameCopies ==
    ASSUME NEW g, NEW h, NEW n \in Nat, NEW t, Copies(g, t, n),
           \A f \in FileIds : f < n => g[f] = h[f]
    PROVE  Copies(h, t, n)
  <1>1. ASSUME NEW p \in Positions, p.fid < n
        PROVE  (p \in Places(g, 0) <=> p \in Places(h, 0)) /\ Rec(g, p) = Rec(h, p)
    <2>1. g[p.fid] = h[p.fid]
      BY <1>1, Sizes
    <2> QED BY <2>1, SharedFile
  <1>2. ASSUME NEW p \in Places(h, 0), p.fid < n
        PROVE  /\ p \in Places(g, 0) /\ Rec(h, p) = Rec(g, p)
    <2>1. p \in Positions
      BY DEF Places
    <2> QED BY <1>1, <1>2, <2>1
  <1>3. ASSUME t # NoHint, NEW k \in Keys, t[k] # NoPos
        PROVE  t[k] \in Places(h, 0) /\ t[k].fid < n /\ Rec(h, t[k]).key = k
    <2>1. PICK p : p = t[k]
      OBVIOUS
    <2>2. p \in Places(g, 0) /\ p.fid < n /\ Rec(g, p).key = k
      BY <1>3, <2>1 DEF Copies
    <2>3. p \in Positions
      BY <2>2 DEF Places
    <2> QED BY <1>1, <2>1, <2>2, <2>3
  <1>4. ASSUME NEW p \in Places(h, 0), p.fid < n
        PROVE  /\ Rec(h, p).seq = 0 /\ Rec(h, p).key \in Keys /\ Rec(h, p).val \in Values
               /\ t # NoHint /\ t[Rec(h, p).key] # NoPos
               /\ p = t[Rec(h, p).key] \/ Before(p, t[Rec(h, p).key])
    BY <1>2, <1>4 DEF Copies
  <1> QED BY <1>3, <1>4 DEF Copies

\* The copy of a key of which nothing counts behind them is what counts.
LEMMA CopyCounts ==
    ASSUME NEW g, IsLog(g), EndsLast(g), NEW n \in Nat, NEW t, Copies(g, t, n),
           NEW k \in Keys, NoneCounts(g, n, k)
    PROVE  /\ t = NoHint \/ t[k] = NoPos => NoneCounts(g, 0, k)
           /\ t # NoHint /\ t[k] # NoPos =>
                 t[k] \in Positions /\ IsNewest(g, 0, k, t[k]) /\ Rec(g, t[k]).val \in Values
  <1>1. ASSUME NEW p \in Positions, Counts(g, 0, k, p)
        PROVE  /\ t # NoHint /\ t[k] # NoPos
               /\ p = t[k] \/ Before(p, t[k])
    <2>1. p \in Places(g, 0) /\ Rec(g, p).key = k
      BY <1>1 DEF Counts
    <2>2. p.fid \in Nat /\ ~(p.fid >= n)
      BY <1>1, CountsFrom, Sizes DEF NoneCounts
    <2>3. p.fid < n
      BY <2>2
    <2> QED BY <2>1, <2>3 DEF Copies
  <1>2. ASSUME t # NoHint, t[k] # NoPos
        PROVE  t[k] \in Positions /\ IsNewest(g, 0, k, t[k]) /\ Rec(g, t[k]).val \in Values
    <2>1. PICK p : p = t[k]
      OBVIOUS
    <2>2. p \in Places(g, 0) /\ p.fid < n /\ Rec(g, p).key = k
      BY <1>2, <2>1 DEF Copies
    <2>3. p \in Positions /\ Rec(g, p).seq = 0 /\ Rec(g, p).val \in Values
      BY <2>2 DEF Places, Copies
    <2>4. Counts(g, 0, k, p)
      BY <2>2, <2>3 DEF Counts
    <2> QED BY <1>1, <2>1, <2>3, <2>4 DEF IsNewest
  <1> QED BY <1>1, <1>2 DEF NoneCounts

-----------------------------------------------------------------------------
\* A record at the end of a file, and of a log

Adds(g, h, a, rec) ==
    /\ a \in Positions /\ a.off = Len(g[a.fid]) /\ a.off < DataFileSize
    /\ h = [g EXCEPT ![a.fid] = Append(@, rec)]

LEMMA AddedIs ==
    ASSUME NEW g, IsLog(g), NEW h, NEW a, NEW rec \in Records, Adds(g, h, a, rec)
    PROVE  /\ IsLog(h)
           /\ \A q : q \in Places(h, 0) <=> q \in Places(g, 0) \/ q = a
           /\ a \notin Places(g, 0) /\ a \in Positions /\ Rec(h, a) = rec
           /\ \A q \in Places(g, 0) :
                 Rec(h, q) = Rec(g, q) /\ (q.fid =< a.fid => Before(q, a))
  <1>1. PICK f, n, s, t : f = a.fid /\ n = a.off /\ s = g[f] /\ t = Append(s, rec)
    OBVIOUS
  <1>2. f \in FileIds /\ n \in Nat /\ n < DataFileSize /\ n = Len(s)
    BY <1>1, Sizes DEF Adds
  <1>3. s \in Seq(Records) /\ t \in Seq(Records) /\ Len(t) = n + 1 /\ t[n + 1] = rec
        /\ \A i \in 1 .. n : t[i] = s[i]
    BY <1>1, <1>2 DEF IsLog
  <1>4. g \in [FileIds -> Seq(Records)] /\ h = [g EXCEPT ![f] = t]
    BY <1>1 DEF Adds, IsLog
  <1>5. /\ h \in [FileIds -> Seq(Records)] /\ h[f] = t
        /\ \A e \in FileIds : e # f => h[e] = g[e]
    BY <1>2, <1>3, <1>4
  <1>6. n + 1 =< DataFileSize
    BY <1>2, Sizes
  <1>7. IsLog(h)
    <2>1. ASSUME NEW e \in FileIds
          PROVE  Len(h[e]) =< DataFileSize
      BY <1>3, <1>5, <1>6 DEF IsLog
    <2> QED BY <1>5, <2>1 DEF IsLog
  <1>8. ASSUME NEW q \in Positions
        PROVE  /\ q.fid \in FileIds /\ q.off \in Nat /\ q.fid >= 0 /\ q.fid \in Nat
               /\ q.fid = f /\ q.off = n <=> q = a
    <2>1. q.fid \in FileIds /\ q.off \in Nat /\ q.fid >= 0 /\ q.fid \in Nat
      BY Sizes
    <2>2. a \in Positions
      BY DEF Adds
    <2>3. q.fid = f /\ q.off = n <=> q = a
      BY <1>1, <2>2 DEF Positions
    <2> QED BY <2>1, <2>3
  <1>9. ASSUME NEW q \in Positions, q.fid # f
        PROVE  /\ q \in Places(h, 0) <=> q \in Places(g, 0)
               /\ Rec(h, q) = Rec(g, q) /\ q # a
               /\ q.fid =< f => Before(q, a)
    <2>1. h[q.fid] = g[q.fid]
      BY <1>5, <1>8, <1>9
    <2>2. q.fid =< f => q.fid < f
      BY <1>2, <1>8, <1>9, Sizes
    <2> QED BY <1>1, <1>9, <2>1, <2>2 DEF Places, Rec, Before
  <1>10. ASSUME NEW q \in Positions, q.fid = f
         PROVE  /\ q \in Places(h, 0) <=> q.off < n + 1
                /\ q \in Places(g, 0) <=> q.off < n
                /\ q.off < n => Rec(h, q) = Rec(g, q) /\ Before(q, a)
    <2>1. q.off < n => q.off + 1 \in 1 .. n
      BY <1>2, <1>8
    <2>2. q.off < n => Rec(h, q) = Rec(g, q)
      BY <1>1, <1>3, <1>5, <1>10, <2>1 DEF Rec
    <2>3. q.off < n => Before(q, a)
      BY <1>1, <1>10 DEF Before
    <2>4. q \in Places(h, 0) <=> q.off < n + 1
      BY <1>3, <1>5, <1>8, <1>10 DEF Places
    <2>5. q \in Places(g, 0) <=> q.off < n
      BY <1>1, <1>2, <1>8, <1>10 DEF Places
    <2> QED BY <2>2, <2>3, <2>4, <2>5
  <1>11. ASSUME NEW q \in Positions
         PROVE  /\ q \in Places(h, 0) <=> q \in Places(g, 0) \/ q = a
                /\ q \in Places(g, 0) =>
                      Rec(h, q) = Rec(g, q) /\ (q.fid =< f => Before(q, a))
    <2>1. q.off < n + 1 <=> q.off < n \/ q.off = n
      BY <1>2, <1>8
    <2> QED BY <1>8, <1>9, <1>10, <2>1
  <1>12. a \in Positions /\ Rec(h, a) = rec
    BY <1>1, <1>3, <1>5 DEF Adds, Rec
  <1>13. a \notin Places(g, 0)
    <2>1. a \in Places(g, 0) <=> a.off < n
      BY <1>1, <1>10, <1>12
    <2> QED BY <1>1, <1>2, <2>1
  <1>14. \A q : q \in Places(h, 0) \/ q \in Places(g, 0) => q \in Positions
    BY DEF Places
  <1> QED BY <1>1, <1>7, <1>11, <1>12, <1>13, <1>14

Grows(g, h, a, rec) ==
    Adds(g, h, a, rec) /\ \A f \in FileIds : f > a.fid => g[f] = <<>>

LEMMA GrownIs ==
    ASSUME NEW g, IsLog(g), NEW h, NEW a, NEW rec \in Records, Grows(g, h, a, rec)
    PROVE  /\ IsLog(h)
           /\ \A q : q \in Places(h, 0) <=> q \in Places(g, 0) \/ q = a
           /\ a \notin Places(g, 0) /\ Rec(h, a) = rec
           /\ \A q \in Places(g, 0) : Rec(h, q) = Rec(g, q) /\ Before(q, a)
  <1>1. /\ IsLog(h)
        /\ \A q : q \in Places(h, 0) <=> q \in Places(g, 0) \/ q = a
        /\ a \notin Places(g, 0) /\ a \in Positions /\ Rec(h, a) = rec
        /\ \A q \in Places(g, 0) :
              Rec(h, q) = Rec(g, q) /\ (q.fid =< a.fid => Before(q, a))
    BY AddedIs DEF Grows
  <1>2. ASSUME NEW q \in Places(g, 0)
        PROVE  q.fid =< a.fid
    <2>1. q.fid \in FileIds /\ q.off \in Nat /\ q.off < Len(g[q.fid]) /\ a.fid \in FileIds
      BY <1>1, PlaceIs, Sizes
    <2>2. g[q.fid] # <<>>
      BY <2>1
    <2>3. ~(q.fid > a.fid)
      BY <2>1, <2>2 DEF Grows
    <2> QED BY <2>1, <2>3, Sizes
  <1> QED BY <1>1, <1>2

\* The first record of a batch does not count yet.
LEMMA BatchBegins ==
    ASSUME NEW g, IsLog(g), NEW h, NEW a, NEW rec \in Records, Grows(g, h, a, rec),
           EndsLast(g), rec.seq # 0, rec.val # Finished,
           \A q \in Places(g, 0) : Rec(g, q).seq # rec.seq
    PROVE  /\ EndsLast(h)
           /\ \A k, p : Counts(h, 0, k, p) <=> Counts(g, 0, k, p)
  <1>1. /\ \A q : q \in Places(h, 0) <=> q \in Places(g, 0) \/ q = a
        /\ a \notin Places(g, 0) /\ Rec(h, a) = rec
        /\ \A q \in Places(g, 0) : Rec(h, q) = Rec(g, q) /\ Before(q, a)
    BY GrownIs
  <1>2. EndsLast(h)
    BY <1>1 DEF EndsLast
  <1>3. \A s : s # rec.seq => (Ended(h, 0, s) <=> Ended(g, 0, s))
    BY <1>1 DEF Ended
  <1>4. ~Ended(h, 0, rec.seq)
    BY <1>1 DEF Ended
  <1>5. ASSUME NEW k, NEW p
        PROVE  Counts(h, 0, k, p) <=> Counts(g, 0, k, p)
    <2>1. CASE p = a
      BY <1>1, <1>4, <2>1 DEF Counts
    <2>2. CASE p # a
      BY <1>1, <1>3, <2>2 DEF Counts
    <2> QED BY <2>1, <2>2
  <1> QED BY <1>2, <1>5

\* With its end the record at w counts, and nothing else changes.
LEMMA BatchEnds ==
    ASSUME NEW g, IsLog(g), NEW h, NEW a, NEW rec \in Records, Grows(g, h, a, rec),
           EndsLast(g), rec.seq # 0, rec.val = Finished, rec.key \notin Keys,
           NEW w \in Places(g, 0), Rec(g, w).seq = rec.seq, Rec(g, w).val # Finished,
           \A q \in Places(g, 0) : Rec(g, q).seq = rec.seq => q = w
    PROVE  /\ EndsLast(h) /\ Ended(h, 0, rec.seq)
           /\ \A k \in Keys : \A p : Counts(h, 0, k, p) <=>
                 Counts(g, 0, k, p) \/ (p = w /\ Rec(g, w).key = k)
  <1>1. /\ \A q : q \in Places(h, 0) <=> q \in Places(g, 0) \/ q = a
        /\ a \notin Places(g, 0) /\ Rec(h, a) = rec
        /\ \A q \in Places(g, 0) : Rec(h, q) = Rec(g, q) /\ Before(q, a)
    BY GrownIs
  <1>2. EndsLast(h)
    BY <1>1 DEF EndsLast
  <1>3. \A s : s # rec.seq => (Ended(h, 0, s) <=> Ended(g, 0, s))
    BY <1>1 DEF Ended
  <1>4. Ended(h, 0, rec.seq)
    BY <1>1 DEF Ended
  <1>5. ASSUME NEW k \in Keys, NEW p
        PROVE  Counts(h, 0, k, p) <=> Counts(g, 0, k, p) \/ (p = w /\ Rec(g, w).key = k)
    <2>1. CASE p = a
      BY <1>1, <2>1 DEF Counts
    <2>2. CASE p = w
      BY <1>1, <1>4, <2>2 DEF Counts
    <2>3. CASE p # a /\ p # w
      BY <1>1, <1>3, <2>3 DEF Counts
    <2> QED BY <2>1, <2>2, <2>3
  <1> QED BY <1>2, <1>4, <1>5

-----------------------------------------------------------------------------
\* The log of an instance

LogView(D, h) == [f \in FileIds |-> IF h[f] = NoDir THEN <<>> ELSE D[h[f]][f]]

LEMMA ViewIs ==
    ASSUME DirsType, FilesInv, NEW h \in [FileIds -> Dirs \cup {NoDir}]
    PROVE  IsLog(LogView(data, h))
  <1>1. PICK g : g = LogView(data, h)
    OBVIOUS
  <1>2. ASSUME NEW f \in FileIds
        PROVE  g[f] \in Seq(Records) /\ Len(g[f]) =< DataFileSize
    <2>1. CASE h[f] = NoDir
      <3>1. g[f] = <<>>
        BY <1>1, <2>1 DEF LogView
      <3>2. <<>> \in Seq(Records) /\ Len(<<>>) = 0
        OBVIOUS
      <3> QED BY <3>1, <3>2, Sizes
    <2>2. CASE h[f] # NoDir
      <3>1. g[f] = data[h[f]][f] /\ h[f] \in Dirs
        BY <1>1, <2>2 DEF LogView
      <3> QED BY <3>1 DEF DirsType, FilesInv
    <2> QED BY <2>1, <2>2
  <1>3. g = [f \in FileIds |-> g[f]]
    BY <1>1 DEF LogView
  <1> QED BY <1>1, <1>2, <1>3 DEF IsLog

LEMMA LogOfIs ==
    ASSUME NEW h, NEW g, g = LogView(data, h), NEW n
    PROVE  /\ LogOf(h, n) = Places(g, n)
           /\ \A p \in Places(g, n) : At(h, p) = Rec(g, p)
  <1>1. ASSUME NEW p \in Positions
        PROVE  /\ p \in LogOf(h, n) <=> p \in Places(g, n)
               /\ p \in Places(g, n) => At(h, p) = Rec(g, p)
    <2>1. p.fid \in FileIds /\ p.off \in Nat
      BY Sizes
    <2>2. CASE h[p.fid] = NoDir
      <3>1. g[p.fid] = <<>>
        BY <2>1, <2>2 DEF LogView
      <3>2. ~(p.off < Len(g[p.fid]))
        BY <2>1, <3>1
      <3> QED BY <2>2, <3>2 DEF LogOf, Places
    <2>3. CASE h[p.fid] # NoDir
      <3>1. g[p.fid] = data[h[p.fid]][p.fid]
        BY <2>1, <2>3 DEF LogView
      <3> QED BY <2>3, <3>1 DEF LogOf, Places, At, Rec
    <2> QED BY <2>2, <2>3
  <1>2. \A p : p \in LogOf(h, n) \/ p \in Places(g, n) => p \in Positions
    BY DEF LogOf, Places
  <1> QED BY <1>1, <1>2

LEMMA EffectiveIs ==
    ASSUME NEW h, NEW g, g = LogView(data, h), NEW n, NEW k
    PROVE  Effective(h, n, k) = {p \in Positions : Counts(g, n, k, p)}
  <1>1. LogOf(h, n) = Places(g, n) /\ \A p \in Places(g, n) : At(h, p) = Rec(g, p)
    BY LogOfIs
  <1>2. \A s : Ended(g, n, s) <=>
            \E q \in LogOf(h, n) : At(h, q).seq = s /\ At(h, q).val = Finished
    BY <1>1 DEF Ended
  <1>3. \A p : p \in Effective(h, n, k) <=> Counts(g, n, k, p)
    BY <1>1, <1>2 DEF Effective, Counts
  <1>4. \A p : Counts(g, n, k, p) => p \in Positions
    BY DEF Counts, Places
  <1> QED BY <1>3, <1>4

LEMMA RunIs ==
    ASSUME TypeOK, FilesInv
    PROVE  /\ RunLog = LogView(data, dirOf) /\ IsLog(RunLog)
           /\ \A n : LogOf(dirOf, n) = Places(RunLog, n)
           /\ \A p \in Places(RunLog, 0) : RecAt(p) = Rec(RunLog, p)
  <1>1. RunLog = LogView(data, dirOf)
    BY DEF RunLog, LogView
  <1>2. DirsType /\ dirOf \in [FileIds -> Dirs \cup {NoDir}]
    BY TypeIs DEF InstanceType
  <1>3. IsLog(RunLog)
    BY <1>1, <1>2, ViewIs
  <1>4. \A n : LogOf(dirOf, n) = Places(RunLog, n)
    BY <1>1, LogOfIs
  <1>5. \A p \in Places(RunLog, 0) : At(dirOf, p) = Rec(RunLog, p)
    BY <1>1, LogOfIs
  <1> QED BY <1>1, <1>3, <1>4, <1>5 DEF RecAt

\* An instance whose files are left alone has the same log.
LEMMA SameRunLog ==
    ASSUME dirOf' = dirOf,
           \A f \in FileIds : dirOf[f] # NoDir => data'[dirOf[f]][f] = data[dirOf[f]][f]
    PROVE  RunLog' = RunLog
  BY DEF RunLog

\* An append of the instance.
LEMMA AppendGrowsLog ==
    ASSUME TypeOK, FilesInv, OpenInv, phase = "open",
           NEW rec \in Records, NEW s \in BOOLEAN, AppendLogRecord(rec, s)
    PROVE  /\ Grows(RunLog, RunLog', AppendPos, rec)
           /\ AppendPos.fid = AppendFile
  <1>1. DirsType /\ InstanceType
    BY TypeIs
  <1>2. PICK f, d, h : f = AppendFile /\ d = AppendDir /\ h = dirOf'
    OBVIOUS
  <1>3. /\ f \in FileIds /\ d \in Dirs /\ ActiveFile =< f /\ AppendPos \in Positions
        /\ NewFile => f \notin OpenFiles /\ data[d][f] = <<>>
        /\ ~NewFile => d = dirOf[f]
    BY <1>2, AppendPlace DEF AppendLogRecord
  <1>4. dirOf \in [FileIds -> Dirs \cup {NoDir}] /\ data \in [Dirs -> [FileIds -> Seq(Records)]]
    BY <1>1 DEF InstanceType, DirsType
  <1>5. h = [dirOf EXCEPT ![f] = d] /\ data' = [data EXCEPT ![d][f] = Append(@, rec)]
    BY <1>2 DEF AppendLogRecord
  <1>6. AppendPos.fid = f /\ AppendPos.off = Len(data[d][f]) /\ AppendPos.off < DataFileSize
    <2>1. AppendPos = [fid |-> f, off |-> Len(data[d][f])] /\ Len(data[d][f]) < DataFileSize
      BY <1>2, AppendPlace DEF AppendLogRecord
    <2> QED BY <2>1
  <1>7. d # NoDir
    <2>1. d \in Nat
      BY <1>3, Sizes
    <2> QED BY <2>1
  <1>8. PICK g, r : g = RunLog /\ r = RunLog'
    OBVIOUS
  <1>9. g[f] = data[d][f]
    <2>1. CASE NewFile
      BY <1>3, <1>8, <2>1 DEF RunLog, OpenFiles
    <2>2. CASE ~NewFile
      BY <1>3, <1>7, <1>8, <2>2 DEF RunLog
    <2> QED BY <2>1, <2>2
  <1>10. r = [e \in FileIds |-> IF h[e] = NoDir THEN <<>> ELSE data'[h[e]][e]]
    BY <1>2, <1>8 DEF RunLog
  <1>11. r[f] = Append(g[f], rec)
    <2>1. h[f] = d
      BY <1>3, <1>4, <1>5
    <2>2. data'[d][f] = Append(data[d][f], rec)
      BY <1>3, <1>4, <1>5
    <2> QED BY <1>3, <1>7, <1>9, <1>10, <2>1, <2>2
  <1>12. ASSUME NEW e \in FileIds, e # f
         PROVE  r[e] = g[e]
    <2>1. h[e] = dirOf[e] /\ dirOf[e] \in Dirs \cup {NoDir}
      BY <1>4, <1>5, <1>12
    <2>2. dirOf[e] # NoDir => data'[dirOf[e]][e] = data[dirOf[e]][e]
      BY <1>3, <1>4, <1>5, <1>12, <2>1
    <2> QED BY <1>8, <1>10, <2>1, <2>2 DEF RunLog
  <1>13. g = [e \in FileIds |-> g[e]] /\ r = [e \in FileIds |-> r[e]]
    BY <1>8, <1>10 DEF RunLog
  <1>14. r = [g EXCEPT ![f] = Append(@, rec)]
    BY <1>3, <1>11, <1>12, <1>13
  <1>15. ASSUME NEW e \in FileIds, e > f
         PROVE  g[e] = <<>>
    <2>1. e \notin OpenFiles
      <3>1. e \in OpenFiles => e =< ActiveFile
        BY <1>1, ActiveIs
      <3>2. ActiveFile \in Int /\ e \in Nat /\ f \in Nat
        BY <1>1, <1>3, ActiveIs, Sizes
      <3> QED BY <1>3, <1>15, <3>1, <3>2
    <2> QED BY <1>8, <2>1 DEF OpenFiles, RunLog
  <1> QED BY <1>2, <1>3, <1>6, <1>8, <1>9, <1>14, <1>15 DEF Grows, Adds

-----------------------------------------------------------------------------
\* Steps that leave the log, the index and the clients alone

LEMMA SameBatch ==
    ASSUME BatchInv, phase = "open", phase' = "open",
           RunLog' = RunLog, seqNo' = seqNo, pc' = pc, write' = write,
           \A c \in Clients : pc[c] # "idle" =>
               /\ mpc' # "none" => write[c].pos.fid >= nonMergeFileId'
               /\ dirPath' > 0 /\ fin'[dirPath'] \in FileIds =>
                      write[c].pos.fid >= fin'[dirPath']
    PROVE  BatchInv'
  <1>1. PICK g : g = RunLog /\ g = RunLog'
    OBVIOUS
  <1>2. EndsLast(g) /\ \A p \in Places(g, 0) : Rec(g, p).seq =< seqNo
    BY <1>1 DEF BatchInv
  <1>3. ASSUME NEW c \in Clients, pc[c] # "idle"
        PROVE  /\ Rec(g, write[c].pos) =
                      [seq |-> seqNo, key |-> write[c].key, val |-> write[c].val]
               /\ seqNo # 0
               /\ \A q \in Places(g, 0) \ {write[c].pos} :
                     /\ Rec(g, q).key # TxnFinKey => Before(q, write[c].pos)
                     /\ Rec(g, q).seq = seqNo =>
                           pc[c] = "apply" /\ Rec(g, q).key = TxnFinKey
               /\ pc[c] = "apply" => Ended(g, 0, seqNo)
    BY <1>1, <1>3 DEF BatchInv
  <1> QED BY <1>1, <1>2, <1>3 DEF BatchInv

LEMMA SameIndexTold ==
    ASSUME IndexTold, phase = "open", phase' = "open",
           RunLog' = RunLog, index' = index, pc' = pc, write' = write
    PROVE  IndexTold'
  <1>1. PICK g : g = RunLog /\ g = RunLog'
    OBVIOUS
  <1>2. \A k \in Keys : Applying(k)' <=> Applying(k)
    BY DEF Applying
  <1> QED BY <1>1, <1>2 DEF IndexTold

LEMMA QuietKeeps ==
    ASSUME LogApartInv, phase = "open", phase' = "open",
           RunLog' = RunLog, seqNo' = seqNo, mu' = mu, pc' = pc, write' = write, index' = index,
           \A c \in Clients : pc[c] # "idle" =>
               /\ mpc' # "none" => write[c].pos.fid >= nonMergeFileId'
               /\ dirPath' > 0 /\ fin'[dirPath'] \in FileIds =>
                      write[c].pos.fid >= fin'[dirPath']
    PROVE  LockInv' /\ BatchInv' /\ IndexTold' /\ NextInv'
  <1>1. BatchInv' /\ IndexTold'
    BY SameBatch, SameIndexTold DEF LogApartInv, LogInv
  <1>2. LockInv'
    BY DEF LogApartInv, LogInv, LockInv
  <1>3. NextInv'
    BY DEF NextInv
  <1> QED BY <1>1, <1>2, <1>3

LEMMA SyncKeepsLog ==
    ASSUME LogApartInv, Sync
    PROVE  LogInv' /\ RunLog' = RunLog
  <1>1. /\ phase = "open" /\ phase' = "open"
        /\ UNCHANGED <<exists, present, data, hint, fin, dirPath, dirOf, writeOff,
                       index, seqNo, mu, pc, write, mpc, nonMergeFileId, toScan>>
    BY DEF Sync, options, calls, merge
  <1>2. RunLog' = RunLog /\ SwapLog' = SwapLog /\ SwapHint' = SwapHint /\ From0' = From0
        /\ (Waiting' <=> Waiting) /\ OpenFiles' = OpenFiles
    BY <1>1 DEF RunLog, SwapLog, SwapHint, From0, Waiting, OpenFiles
  <1>3. LockInv' /\ BatchInv' /\ IndexTold' /\ NextInv'
    <2>1. BatchInv
      BY DEF LogApartInv, LogInv
    <2>2. \A c \in Clients : pc[c] # "idle" =>
               /\ mpc # "none" => write[c].pos.fid >= nonMergeFileId
               /\ dirPath > 0 /\ fin[dirPath] \in FileIds => write[c].pos.fid >= fin[dirPath]
      BY <1>1, <2>1 DEF BatchInv
    <2> QED BY <1>1, <1>2, <2>2, QuietKeeps
  <1>4. PlacesInv'
    BY <1>1, <1>2 DEF LogApartInv, LogInv, PlacesInv
  <1>5. CopiesInv'
    BY <1>1, <1>2 DEF LogApartInv, LogInv, CopiesInv
  <1>6. ScanInv'
    <2>1. \A k \in Keys : Copied(k)' <=> Copied(k)
      BY <1>1, <1>2 DEF Copied
    <2> QED BY <1>1, <1>2, <2>1 DEF LogApartInv, LogInv, ScanInv
  <1> QED BY <1>3, <1>4, <1>5, <1>6, <1>2 DEF LogInv

\* The boundaries are files the running instance has, so it appends behind them.
LEMMA Boundaries ==
    ASSUME LogApartInv, phase = "open"
    PROVE  /\ From0 \in Nat /\ (From0 # 0 => From0 \in OpenFiles)
           /\ Waiting => fin[1] \in OpenFiles /\ 1 \in Dirs /\ dirPath > 0
           /\ dirPath > 0 /\ fin[dirPath] \in FileIds => fin[dirPath] \in OpenFiles
           /\ mpc # "none" => nonMergeFileId \in OpenFiles
           /\ OpenFiles \subseteq FileIds
  <1>1. TypeOK /\ OpenInv /\ MergeInv /\ SwapInv /\ PlacesInv /\ CopiesInv
    BY DEF LogApartInv, LogInv, ApartInv
  <1>2. From0 \in Nat /\ (From0 # 0 => From0 \in OpenFiles)
    <2>1. phase \notin {"delete", "move"}
      OBVIOUS
    <2>2. fin[0] # NoFile => fin[0] \in FileIds /\ fin[0] \in present[0]
      BY <1>1, <2>1 DEF CopiesInv
    <2>3. fin[0] # NoFile => fin[0] \in Nat /\ fin[0] \in OpenFiles
      BY <1>1, <2>2, Sizes DEF OpenInv
    <2> QED BY <2>3 DEF From0
  <1>3. Waiting => fin[1] \in OpenFiles /\ 1 \in Dirs /\ dirPath > 0
    <2>1. Waiting => fin[1] \in present[0] /\ 1 \in Dirs
      BY <1>1, Sizes DEF SwapInv, Waiting
    <2> QED BY <1>1, <2>1 DEF OpenInv, PlacesInv
  <1> QED BY <1>1, <1>2, <1>3 DEF PlacesInv, MergeInv, OpenFiles

LEMMA BaseKept ==
    ASSUME CopiesInv, phase \notin {"delete", "move"}, fin'[0] = fin[0], hint'[0] = hint[0],
           present[0] \subseteq present'[0], From0 \in Nat,
           \A f \in FileIds : f < From0 => data'[0][f] = data[0][f]
    PROVE  /\ Copies(data'[0], hint'[0], From0')
           /\ fin'[0] \in FileIds \cup {NoFile}
           /\ fin'[0] # NoFile => fin'[0] \in present'[0]
  <1>1. PICK n, t : n = From0 /\ t = hint[0]
    OBVIOUS
  <1>2. From0' = n
    BY <1>1 DEF From0
  <1>3. Copies(data[0], t, n)
    BY <1>1 DEF CopiesInv
  <1>4. PICK g, h : g = data[0] /\ h = data'[0]
    OBVIOUS
  <1>5. Copies(h, t, n)
    <2>1. \A f \in FileIds : f < n => g[f] = h[f]
      BY <1>1, <1>4
    <2>2. Copies(g, t, n) /\ n \in Nat
      BY <1>1, <1>3, <1>4
    <2> QED BY <2>1, <2>2, SameCopies
  <1> QED BY <1>1, <1>2, <1>4, <1>5 DEF CopiesInv

\* What is below the boundary of a finished merge.
LEMMA WaitKept ==
    ASSUME CopiesInv, phase # "move", phase' # "move", Waiting, fin[1] \in Nat,
           fin'[1] = fin[1], hint'[1] = hint[1],
           \A f \in FileIds : f < fin[1] =>
               data'[1][f] = data[1][f] /\ (f \in present'[1] <=> f \in present[1])
    PROVE  Copies(SwapLog', SwapHint', fin'[1])
  <1>1. PICK n, t, g, h : n = fin[1] /\ t = hint[1] /\ g = SwapLog /\ h = SwapLog'
    OBVIOUS
  <1>2. SwapHint = t /\ SwapHint' = t
    BY <1>1 DEF SwapHint
  <1>3. Copies(g, t, n) /\ n \in Nat
    BY <1>1, <1>2 DEF CopiesInv
  <1>4. ASSUME NEW f \in FileIds, f < n
        PROVE  g[f] = h[f]
    <2>1. g[f] = IF f \in present[1] THEN data[1][f] ELSE <<>>
      BY <1>1, <1>4 DEF SwapLog
    <2>2. h[f] = IF f \in present'[1] THEN data'[1][f] ELSE <<>>
      BY <1>1, <1>4 DEF SwapLog
    <2> QED BY <1>1, <1>4, <2>1, <2>2
  <1>5. Copies(h, t, n)
    BY <1>3, <1>4, SameCopies
  <1> QED BY <1>1, <1>2, <1>5

LEMMA MergeStartKeepsLog ==
    ASSUME LogApartInv, MergeStart
    PROVE  LogInv' /\ RunLog' = RunLog
  <1>1. /\ phase = "open" /\ phase' = "open" /\ mpc = "none" /\ mpc' = "prepare" /\ ~Locked
        /\ present' = [present EXCEPT ![dirPath] = @ \cup {NextFile}]
        /\ dirOf' = [dirOf EXCEPT ![NextFile] = dirPath]
        /\ ActiveFile # NoFile /\ NextFile =< MaxFileId
        /\ nonMergeFileId' = NextFile /\ toScan' = LogOf(dirOf, 0)
        /\ UNCHANGED <<exists, data, hint, fin, dirPath, index, seqNo, mu, pc, write>>
    BY DEF MergeStart, options, calls
  <1>2. /\ TypeOK /\ DirsType /\ InstanceType /\ FilesInv /\ OpenInv /\ PlacesInv /\ CopiesInv
        /\ IndexTold /\ ScanInv /\ LockInv
    BY TypeIs DEF LogApartInv, LogInv, ApartInv
  <1>3. PICK n : n = NextFile
    OBVIOUS
  <1>4. /\ n \in FileIds /\ ActiveFile \in FileIds /\ ActiveFile < n
        /\ n \notin OpenFiles /\ n \notin present[dirPath] /\ dirPath \in Dirs
    <2>1. /\ ActiveFile \in FileIds /\ dirPath \in Dirs /\ n = ActiveFile + 1
          /\ \A g \in OpenFiles : g =< ActiveFile
      BY <1>1, <1>2, <1>3, ActiveIs DEF InstanceType, NextFile
    <2>2. n \in FileIds /\ ActiveFile < n
      BY <1>1, <1>3, <2>1, Sizes
    <2> QED BY <1>1, <1>2, <2>1, <2>2, Sizes DEF OpenInv
  <1>5. dirOf[n] = NoDir /\ data[dirPath][n] = <<>> /\ data[0][n] = <<>> /\ n \notin present[0]
    <2>1. dirOf[n] = NoDir
      BY <1>4 DEF OpenFiles
    <2>2. n \notin present[0]
      BY <1>1, <1>2, <1>4 DEF OpenInv
    <2>3. 0 \in Dirs
      BY Sizes
    <2> QED BY <1>2, <1>4, <2>1, <2>2, <2>3 DEF FilesInv
  <1>6. /\ dirOf'[n] = dirPath /\ \A f \in FileIds : f # n => dirOf'[f] = dirOf[f]
        /\ OpenFiles' = OpenFiles \cup {n}
    <2>1. dirOf'[n] = dirPath /\ \A f \in FileIds : f # n => dirOf'[f] = dirOf[f]
      BY <1>1, <1>2, <1>3, <1>4 DEF InstanceType
    <2> QED BY <1>4, <2>1, Sizes DEF OpenFiles
  <1>7. \A e \in Dirs : \A f : f \in present'[e] <=> f \in present[e] \/ (e = dirPath /\ f = n)
    BY <1>1, <1>2, <1>3, <1>4 DEF DirsType
  <1>8. RunLog' = RunLog
    <2>1. ASSUME NEW f \in FileIds
          PROVE  (IF dirOf'[f] = NoDir THEN <<>> ELSE data'[dirOf'[f]][f])
                    = IF dirOf[f] = NoDir THEN <<>> ELSE data[dirOf[f]][f]
      BY <1>1, <1>5, <1>6
    <2> QED BY <2>1 DEF RunLog
  <1>9. /\ From0 \in Nat /\ (From0 # 0 => From0 \in OpenFiles)
        /\ Waiting => fin[1] \in OpenFiles /\ 1 \in Dirs /\ dirPath > 0
        /\ \A f \in OpenFiles : f < n /\ f \in Nat
    <2>1. \A f \in OpenFiles : f =< ActiveFile /\ f \in FileIds
      BY <1>2, ActiveIs
    <2>2. \A f \in OpenFiles : f < n /\ f \in Nat
      BY <1>4, <2>1, Sizes
    <2> QED BY <1>1, <2>2, Boundaries
  <1>10. \A c \in Clients : pc[c] = "idle"
    BY <1>1, <1>2, Constants DEF LockInv, Locked
  <1>11. LockInv' /\ BatchInv' /\ IndexTold' /\ NextInv'
    BY <1>1, <1>8, <1>10, QuietKeeps
  <1>12. PlacesInv'
    <2>1. ASSUME NEW f \in present'[0]
          PROVE  dirOf'[f] = 0
      <3>1. 0 \in Dirs /\ present[0] \subseteq FileIds
        <4>1. 0 \in Dirs
          BY Sizes
        <4> QED BY <1>2, <4>1 DEF DirsType
      <3>2. CASE f = n
        <4>1. n \in present[0] \/ dirPath = 0
          BY <1>7, <2>1, <3>1, <3>2
        <4> QED BY <1>5, <1>6, <3>2, <4>1
      <3>3. CASE f # n
        BY <1>1, <1>2, <1>6, <1>7, <2>1, <3>1, <3>3 DEF PlacesInv
      <3> QED BY <3>2, <3>3
    <2>2. ASSUME Waiting, NEW f \in present'[1], f >= fin[1]
          PROVE  dirOf'[f] = 1
      <3>1. 1 \in Dirs /\ present[1] \subseteq FileIds
        BY <1>2, <1>9, <2>2 DEF DirsType
      <3>2. CASE f = n
        <4>1. n \notin present[1]
          BY <1>1, <1>2, <1>5, <2>2, <3>2 DEF PlacesInv
        <4> QED BY <1>6, <1>7, <2>2, <3>1, <3>2, <4>1
      <3>3. CASE f # n
        BY <1>1, <1>2, <1>6, <1>7, <2>2, <3>1, <3>3 DEF PlacesInv
      <3> QED BY <3>2, <3>3
    <2>3. Waiting' <=> Waiting
      BY <1>1 DEF Waiting
    <2> QED BY <1>1, <1>2, <1>6, <1>9, <2>1, <2>2, <2>3 DEF PlacesInv
  <1>13. CopiesInv'
    <2>1. 0 \in Dirs
      BY Sizes
    <2>2. present[0] \subseteq present'[0]
      BY <1>7, <2>1
    <2>3. /\ Copies(data'[0], hint'[0], From0') /\ fin'[0] \in FileIds \cup {NoFile}
          /\ fin'[0] # NoFile => fin'[0] \in present'[0]
      BY <1>1, <1>2, <1>9, <2>2, BaseKept
    <2>4. ASSUME Waiting
          PROVE  Copies(SwapLog', SwapHint', fin'[1])
      <3>1. fin[1] \in Nat /\ fin[1] < n
        BY <1>9, <2>4
      <3>2. ASSUME NEW f \in FileIds, f < fin[1]
            PROVE  f # n
        BY <1>4, <3>1, <3>2, Sizes
      <3>3. \A f \in FileIds : f < fin[1] =>
               data'[1][f] = data[1][f] /\ (f \in present'[1] <=> f \in present[1])
        BY <1>1, <1>7, <1>9, <2>4, <3>2
      <3> QED BY <1>1, <1>2, <2>4, <3>1, <3>3, WaitKept
    <2>5. Waiting' <=> Waiting
      BY <1>1 DEF Waiting
    <2> QED BY <1>1, <1>2, <2>3, <2>4, <2>5 DEF CopiesInv
  <1>14. ScanInv'
    <2>1. ASSUME NEW k \in Keys
          PROVE  index[k] \in toScan' \/ index[k] = NoPos
      <3>1. Tells(RunLog, k, index[k])
        BY <1>1, <1>2, <1>10 DEF IndexTold, Applying
      <3>2. index[k] # NoPos => index[k] \in Places(RunLog, 0)
        BY <3>1, ToldEntry
      <3> QED BY <1>1, <1>2, <3>2, RunIs
    <2>2. \A k \in Keys : Copied(k)' <=> Copied(k)
      BY <1>1, <1>8 DEF Copied
    <2> QED BY <1>1, <1>2, <1>8, <2>1, <2>2 DEF ScanInv
  <1> QED BY <1>11, <1>12, <1>13, <1>14, <1>8 DEF LogInv

LEMMA MergePrepareKeepsLog ==
    ASSUME LogApartInv, MergePrepare
    PROVE  LogInv' /\ RunLog' = RunLog
  <1>2. /\ TypeOK /\ DirsType /\ InstanceType /\ FilesInv /\ OpenInv /\ MergeInv /\ PlacesInv
        /\ CopiesInv /\ ScanInv /\ BatchInv
    BY TypeIs DEF LogApartInv, LogInv, ApartInv
  <1>0. phase = "open"
    BY DEF LogApartInv, LogInv, ApartInv, ClosedInv, MergePrepare
  <1>3. PICK m, e : m = dirPath /\ e = dirPath + 1
    OBVIOUS
  <1>1. /\ mpc = "prepare" /\ mpc' = "open" /\ phase' = "open"
        /\ exists' = exists \cup {e} /\ dirPath' = e
        /\ hint' = [hint EXCEPT ![e] = NoHint] /\ fin' = [fin EXCEPT ![e] = NoFile]
        /\ present' = [present EXCEPT ![e] = {}]
        /\ data' = [data EXCEPT ![e] = [f \in FileIds |-> <<>>]]
        /\ UNCHANGED <<dirOf, writeOff, index, seqNo, mu, pc, write, nonMergeFileId,
                       toScan>>
    BY <1>0, <1>3 DEF MergePrepare, Emptied, calls
  <1>4. m \in Dirs /\ e \in Dirs /\ e = m + 1 /\ e > 0 /\ m # e /\ 0 \in Dirs /\ m \in Nat
    <2>1. m \in Dirs /\ m < MaxDir /\ e = m + 1
      BY <1>1, <1>2, <1>3 DEF InstanceType, MergeInv
    <2>2. m \in Nat /\ MaxDir \in Nat
      BY <2>1, Sizes
    <2> QED BY <2>1, <2>2, Sizes
  <1>5. /\ fin'[e] = NoFile /\ NoFile \notin FileIds
        /\ \A d \in Dirs : d # e => /\ present'[d] = present[d] /\ data'[d] = data[d]
                                    /\ hint'[d] = hint[d] /\ fin'[d] = fin[d]
    BY <1>1, <1>2, <1>4, Sizes DEF DirsType
  <1>6. \A f \in FileIds : dirOf[f] # NoDir => dirOf[f] \in Dirs /\ dirOf[f] # e
    <2>1. ASSUME NEW f \in FileIds, dirOf[f] # NoDir
          PROVE  dirOf[f] \in Dirs /\ dirOf[f] =< m
      BY <1>0, <1>2, <1>3, <2>1 DEF OpenInv, OpenFiles, InstanceType
    <2> QED BY <1>4, <2>1, Sizes
  <1>7. RunLog' = RunLog
    BY <1>1, <1>5, <1>6, SameRunLog
  <1>8. /\ From0 \in Nat
        /\ Waiting => fin[1] \in OpenFiles /\ 1 \in Dirs /\ dirPath > 0
        /\ OpenFiles \subseteq FileIds
    BY <1>0, Boundaries
  <1>9. \A c \in Clients : pc[c] # "idle" => write[c].pos.fid >= nonMergeFileId
    BY <1>0, <1>1, <1>2 DEF BatchInv
  <1>10. fin'[dirPath'] \notin FileIds
    BY <1>1, <1>5
  <1>11. LockInv' /\ BatchInv' /\ IndexTold' /\ NextInv'
    BY <1>0, <1>1, <1>7, <1>9, <1>10, QuietKeeps
  <1>12. Waiting' => /\ Waiting /\ e # 1 /\ 1 \in Dirs
                     /\ fin'[1] = fin[1] /\ hint'[1] = hint[1] /\ data'[1] = data[1]
                     /\ present'[1] = present[1]
    <2>1. Waiting' => 1 \in Dirs
      BY Sizes DEF Waiting
    <2>2. Waiting' => e # 1
      BY <1>5 DEF Waiting
    <2> QED BY <1>5, <2>1, <2>2 DEF Waiting
  <1>13. PlacesInv'
    <2>1. present'[0] = present[0]
      BY <1>4, <1>5
    <2>2. Waiting' => dirPath' > 0 /\ \A f \in present'[1] : f >= fin'[1] => dirOf'[f] = 1
      BY <1>0, <1>1, <1>2, <1>4, <1>12 DEF PlacesInv
    <2>3. Waiting' => 1 \in exists' /\ hint'[1] # NoHint
      BY <1>0, <1>1, <1>2, <1>12 DEF PlacesInv
    <2>4. e \in exists'
      BY <1>1
    <2> QED BY <1>0, <1>1, <1>2, <1>10, <2>1, <2>2, <2>3, <2>4 DEF PlacesInv
  <1>14. CopiesInv'
    <2>1. /\ fin'[0] = fin[0] /\ hint'[0] = hint[0] /\ present'[0] = present[0]
          /\ data'[0] = data[0]
      BY <1>4, <1>5
    <2>2. /\ Copies(data'[0], hint'[0], From0') /\ fin'[0] \in FileIds \cup {NoFile}
          /\ fin'[0] # NoFile => fin'[0] \in present'[0]
      BY <1>0, <1>2, <1>8, <2>1, BaseKept
    <2>3. Waiting' => Copies(SwapLog', SwapHint', fin'[1])
      <3>1. Waiting => fin[1] \in Nat
        BY Sizes DEF Waiting
      <3> QED BY <1>0, <1>1, <1>2, <1>12, <3>1, WaitKept
    <2> QED BY <1>1, <1>10, <2>2, <2>3 DEF CopiesInv
  <1>15. ScanInv'
    BY <1>1, <1>2, <1>7, <1>10 DEF ScanInv
  <1> QED BY <1>11, <1>13, <1>14, <1>15, <1>7 DEF LogInv

LEMMA MergeOpenKeepsLog ==
    ASSUME LogApartInv, MergeOpen, ~shared'
    PROVE  LogInv' /\ RunLog' = RunLog
  <1>2. /\ TypeOK /\ DirsType /\ InstanceType /\ FilesInv /\ MergeInv /\ PlacesInv
        /\ CopiesInv /\ ScanInv /\ BatchInv
    BY TypeIs DEF LogApartInv, LogInv, ApartInv
  <1>0. phase = "open"
    BY DEF LogApartInv, LogInv, ApartInv, ClosedInv, MergeOpen
  <1>3. PICK m : m = dirPath
    OBVIOUS
  <1>1. /\ mpc = "open" /\ mpc' = "scan" /\ phase' = "open"
        /\ hint' = [hint EXCEPT ![m] = NoHintEntries]
        /\ UNCHANGED <<exists, present, data, fin, dirPath, dirOf, writeOff, index,
                       seqNo, mu, pc, write, nonMergeFileId, toScan>>
    BY <1>0, <1>3 DEF MergeOpen, options, calls
  <1>4. /\ m \in Dirs /\ m > 0 /\ present[m] = {} /\ 0 \in Dirs /\ fin[m] \notin FileIds
        /\ \A f \in FileIds : data[m][f] = <<>>
    <2>1. m \in Dirs /\ m > 0 /\ fin[m] \notin FileIds
      BY <1>1, <1>2, <1>3 DEF InstanceType, MergeInv
    <2>2. present[m] = {}
      BY <1>3 DEF MergeOpen
    <2> QED BY <1>2, <2>1, <2>2, Sizes DEF FilesInv
  <1>5. hint'[m] = NoHintEntries /\ \A d \in Dirs : d # m => hint'[d] = hint[d]
    BY <1>1, <1>2, <1>4 DEF DirsType
  <1>6. NoHintEntries # NoHint /\ \A k \in Keys : NoHintEntries[k] = NoPos
    <2>1. NoHintEntries \in [Keys -> Positions \cup {NoPos}]
      BY DEF NoHintEntries
    <2> QED BY <2>1, Constants DEF NoHintEntries
  <1>7. RunLog' = RunLog
    BY <1>1 DEF RunLog
  <1>8. From0 \in Nat
    BY <1>0, Boundaries
  <1>9. \A c \in Clients : pc[c] # "idle" =>
            /\ write[c].pos.fid >= nonMergeFileId
            /\ dirPath > 0 /\ fin[dirPath] \in FileIds => write[c].pos.fid >= fin[dirPath]
    BY <1>0, <1>1, <1>2 DEF BatchInv
  <1>10. fin'[dirPath'] \notin FileIds
    BY <1>1, <1>3, <1>4
  <1>11. LockInv' /\ BatchInv' /\ IndexTold' /\ NextInv'
    BY <1>0, <1>1, <1>7, <1>9, QuietKeeps
  <1>12. Waiting' => /\ Waiting /\ m # 1 /\ 1 \in Dirs /\ hint'[1] = hint[1]
    <2>1. Waiting' => 1 \in Dirs /\ Waiting
      BY <1>1, Sizes DEF Waiting
    <2>2. Waiting => m # 1
      BY <1>4 DEF Waiting
    <2> QED BY <1>5, <2>1, <2>2
  <1>13. PlacesInv'
    <2>1. Waiting' => dirPath > 0 /\ \A f \in present[1] : f >= fin[1] => dirOf[f] = 1
      BY <1>0, <1>2, <1>12 DEF PlacesInv
    <2>2. Waiting' => 1 \in exists /\ hint'[1] # NoHint
      BY <1>0, <1>2, <1>12 DEF PlacesInv
    <2> QED BY <1>0, <1>1, <1>2, <1>3, <1>4, <2>1, <2>2 DEF PlacesInv
  <1>14. CopiesInv'
    <2>1. hint'[0] = hint[0]
      BY <1>4, <1>5
    <2>2. /\ Copies(data'[0], hint'[0], From0') /\ fin'[0] \in FileIds \cup {NoFile}
          /\ fin'[0] # NoFile => fin'[0] \in present'[0]
      BY <1>0, <1>1, <1>2, <1>8, <2>1, BaseKept
    <2>3. Waiting' => Copies(SwapLog', SwapHint', fin'[1])
      <3>1. Waiting => fin[1] \in Nat
        BY Sizes DEF Waiting
      <3> QED BY <1>0, <1>1, <1>2, <1>12, <3>1, WaitKept
    <2>4. Copies(data'[dirPath'], hint'[dirPath'], nonMergeFileId')
      <3>1. PICK g, t, n : g = data[m] /\ t = NoHintEntries /\ n = nonMergeFileId
        OBVIOUS
      <3>2. ASSUME NEW p
            PROVE  p \notin Places(g, 0)
        <4>1. p \in Positions => Len(g[p.fid]) = 0 /\ p.off \in Nat
          BY <1>4, <3>1, Sizes
        <4> QED BY <4>1 DEF Places
      <3>3. Copies(g, t, n)
        BY <1>6, <3>1, <3>2 DEF Copies
      <3> QED BY <1>1, <1>3, <1>5, <3>1, <3>3
    <2> QED BY <1>1, <1>10, <2>2, <2>3, <2>4 DEF CopiesInv
  <1>15. ScanInv'
    <2>1. \A k \in Keys : hint'[dirPath'][k] = NoPos
      BY <1>1, <1>3, <1>5, <1>6
    <2>2. ASSUME NEW k \in Keys, index[k] = NoPos
          PROVE  Copied(k)'
      BY <1>1, <2>1, <2>2 DEF Copied
    <2>3. ASSUME NEW k \in Keys, NoneCounts(RunLog, nonMergeFileId, k)
          PROVE  index[k] \in toScan \/ index[k] = NoPos
      BY <1>1, <1>2, <2>3 DEF ScanInv
    <2> QED BY <1>1, <1>7, <1>10, <2>2, <2>3 DEF ScanInv
  <1> QED BY <1>11, <1>13, <1>14, <1>15, <1>7 DEF LogInv

LEMMA MergeSyncKeepsLog ==
    ASSUME LogApartInv, MergeSync
    PROVE  LogInv' /\ RunLog' = RunLog
  <1>0. phase = "open" /\ mpc = "scan" /\ toScan = {} /\ mpc' = "finish" /\ phase' = "open"
    BY DEF LogApartInv, LogInv, ApartInv, ClosedInv, MergeSync
  <1>1. /\ fin' = [fin EXCEPT ![dirPath] = Empty]
        /\ UNCHANGED <<exists, present, data, hint, phase, dirPath, dirOf, writeOff, index,
                       seqNo, mu, pc, write, nonMergeFileId, toScan>>
    BY DEF MergeSync, options, calls
  <1>2. /\ DirsType /\ InstanceType /\ MergeInv /\ PlacesInv /\ CopiesInv /\ ScanInv /\ BatchInv
    BY TypeIs DEF LogApartInv, LogInv, ApartInv
  <1>3. PICK m : m = dirPath
    OBVIOUS
  <1>4. /\ m \in Dirs /\ m > 0 /\ fin[m] \notin FileIds
        /\ fin'[m] \notin FileIds /\ 0 \in Dirs
        /\ \A d \in Dirs : d # m => fin'[d] = fin[d]
    <2>1. m \in Dirs /\ m > 0 /\ fin[m] \notin FileIds
      BY <1>0, <1>2, <1>3 DEF InstanceType, MergeInv
    <2>2. fin'[m] = Empty /\ \A d \in Dirs : d # m => fin'[d] = fin[d]
      BY <1>1, <1>2, <1>3, <2>1 DEF DirsType
    <2>3. Empty \notin FileIds /\ 0 \in Dirs
      BY Sizes
    <2> QED BY <2>1, <2>2, <2>3
  <1>5. /\ Waiting' <=> Waiting
        /\ Waiting => fin'[1] = fin[1]
    <2>1. Waiting \/ Waiting' => 1 \in Dirs
      BY Sizes DEF Waiting
    <2>2. 1 \in Dirs /\ m # 1 => fin'[1] = fin[1]
      BY <1>4
    <2>3. m = 1 => ~Waiting /\ ~Waiting'
      BY <1>4 DEF Waiting
    <2> QED BY <2>1, <2>2, <2>3 DEF Waiting
  <1>6. RunLog' = RunLog
    BY <1>1 DEF RunLog
  <1>7. \A c \in Clients : pc[c] # "idle" => write[c].pos.fid >= nonMergeFileId
    BY <1>0, <1>2 DEF BatchInv
  <1>8. fin'[dirPath'] \notin FileIds
    BY <1>1, <1>3, <1>4
  <1>11. LockInv' /\ BatchInv' /\ IndexTold' /\ NextInv'
    BY <1>0, <1>1, <1>6, <1>7, <1>8, QuietKeeps
  <1>12. PlacesInv'
    BY <1>0, <1>1, <1>2, <1>5, <1>8 DEF PlacesInv
  <1>13. CopiesInv'
    <2>1. fin'[0] = fin[0]
      BY <1>4
    <2>2. /\ Copies(data'[0], hint'[0], From0') /\ fin'[0] \in FileIds \cup {NoFile}
          /\ fin'[0] # NoFile => fin'[0] \in present'[0]
      <3>1. From0 \in Nat
        BY <1>0, Boundaries
      <3> QED BY <1>0, <1>1, <1>2, <2>1, <3>1, BaseKept
    <2>3. Waiting' => Copies(SwapLog', SwapHint', fin'[1])
      <3>1. Waiting => fin[1] \in Nat
        BY Sizes DEF Waiting
      <3> QED BY <1>0, <1>1, <1>2, <1>5, <3>1, WaitKept
    <2>4. Copies(data'[dirPath'], hint'[dirPath'], nonMergeFileId')
      BY <1>0, <1>1, <1>2 DEF CopiesInv
    <2> QED BY <1>8, <2>2, <2>3, <2>4 DEF CopiesInv
  <1>14. ScanInv'
    <2>1. \A k \in Keys : Copied(k)' <=> Copied(k)
      BY <1>1, <1>6 DEF Copied
    <2> QED BY <1>0, <1>1, <1>2, <1>6, <1>8, <2>1 DEF ScanInv
  <1> QED BY <1>11, <1>12, <1>13, <1>14, <1>6 DEF LogInv

LEMMA MergeFailsKeepsLog ==
    ASSUME LogApartInv, MergeFails
    PROVE  LogInv' /\ RunLog' = RunLog
  <1>0. phase = "open" /\ mpc # "none" /\ mpc' = "none" /\ phase' = "open" /\ toScan' = {}
    BY DEF LogApartInv, LogInv, ApartInv, ClosedInv, MergeFails
  <1>1. UNCHANGED <<exists, present, data, hint, fin, dirPath, dirOf, writeOff, index,
                    seqNo, mu, pc, write, nonMergeFileId>>
    BY DEF MergeFails, dirs, options, calls
  <1>2. PlacesInv /\ CopiesInv /\ ScanInv /\ BatchInv
    BY DEF LogApartInv, LogInv
  <1>3. RunLog' = RunLog /\ SwapLog' = SwapLog /\ SwapHint' = SwapHint /\ From0' = From0
        /\ (Waiting' <=> Waiting) /\ OpenFiles' = OpenFiles
    BY <1>0, <1>1 DEF RunLog, SwapLog, SwapHint, From0, Waiting, OpenFiles
  <1>4. LockInv' /\ BatchInv' /\ IndexTold' /\ NextInv'
    <2>1. \A c \in Clients : pc[c] # "idle" =>
              (dirPath > 0 /\ fin[dirPath] \in FileIds => write[c].pos.fid >= fin[dirPath])
      BY <1>0, <1>2 DEF BatchInv
    <2> QED BY <1>0, <1>1, <1>3, <2>1, QuietKeeps
  <1>5. PlacesInv'
    BY <1>0, <1>1, <1>2, <1>3 DEF PlacesInv
  <1>6. CopiesInv'
    BY <1>0, <1>1, <1>2, <1>3 DEF CopiesInv
  <1>7. ScanInv'
    <2>1. \A k \in Keys : Copied(k)' <=> Copied(k)
      BY <1>1, <1>3 DEF Copied
    <2> QED BY <1>0, <1>1, <1>2, <1>3, <2>1 DEF ScanInv
  <1> QED BY <1>4, <1>5, <1>6, <1>7, <1>3 DEF LogInv

\* A copy behind the others, and the entry of its key.
LEMMA CopyAdded ==
    ASSUME NEW g, IsLog(g), NEW n \in Nat, NEW t, Copies(g, t, n),
           NEW h, NEW a, NEW rec \in Records, Adds(g, h, a, rec), a.fid < n,
           rec.seq = 0, rec.key \in Keys, rec.val \in Values,
           \A p \in Places(g, 0) : p.fid < n => p.fid =< a.fid,
           t # NoHint, NEW u, u # NoHint, u[rec.key] = a,
           \A k \in Keys : k # rec.key => u[k] = t[k]
    PROVE  Copies(h, u, n)
  <1>1. /\ \A q : q \in Places(h, 0) <=> q \in Places(g, 0) \/ q = a
        /\ a \notin Places(g, 0) /\ a \in Positions /\ Rec(h, a) = rec
        /\ \A q \in Places(g, 0) :
              Rec(h, q) = Rec(g, q) /\ (q.fid =< a.fid => Before(q, a))
    BY AddedIs
  <1>2. a # NoPos
    BY <1>1, Sizes
  <1>3. ASSUME NEW p \in Places(h, 0), p.fid < n
        PROVE  /\ Rec(h, p).seq = 0 /\ Rec(h, p).key \in Keys /\ Rec(h, p).val \in Values
               /\ u[Rec(h, p).key] # NoPos
               /\ p = u[Rec(h, p).key] \/ Before(p, u[Rec(h, p).key])
    <2>1. CASE p = a
      BY <1>1, <1>2, <2>1
    <2>2. CASE p # a
      <3>1. p \in Places(g, 0) /\ Rec(h, p) = Rec(g, p) /\ Before(p, a)
        BY <1>1, <1>3, <2>2
      <3>2. PICK k : k = Rec(g, p).key
        OBVIOUS
      <3>3. /\ Rec(g, p).seq = 0 /\ k \in Keys /\ Rec(g, p).val \in Values
            /\ t[k] # NoPos /\ (p = t[k] \/ Before(p, t[k]))
        BY <1>3, <3>1, <3>2 DEF Copies
      <3>4. u[k] = a \/ u[k] = t[k]
        BY <3>3
      <3> QED BY <1>2, <3>1, <3>2, <3>3, <3>4
    <2> QED BY <2>1, <2>2
  <1>4. ASSUME NEW k \in Keys, u[k] # NoPos
        PROVE  u[k] \in Places(h, 0) /\ u[k].fid < n /\ Rec(h, u[k]).key = k
    <2>1. CASE k = rec.key
      BY <1>1, <2>1
    <2>2. CASE k # rec.key
      <3>1. PICK q : q = t[k] /\ q = u[k]
        BY <2>2
      <3>2. q \in Places(g, 0) /\ q.fid < n /\ Rec(g, q).key = k
        BY <1>4, <3>1 DEF Copies
      <3> QED BY <1>1, <3>1, <3>2
    <2> QED BY <2>1, <2>2
  <1> QED BY <1>3, <1>4 DEF Copies

\* The record of a commit that has ended and is not yet in the index.
LEMMA ApplyingCounts ==
    ASSUME LogApartInv, phase = "open", NEW c \in Clients, pc[c] = "apply",
           NEW w, w = write[c]
    PROVE  /\ w.key \in Keys /\ w.pos \in Positions /\ w.pos \in Places(RunLog, 0)
           /\ Rec(RunLog, w.pos).val = w.val
           /\ IsNewest(RunLog, 0, w.key, w.pos)
           /\ mpc # "none" => ~NoneCounts(RunLog, nonMergeFileId, w.key)
           /\ dirPath > 0 /\ fin[dirPath] \in FileIds =>
                 ~NoneCounts(RunLog, fin[dirPath], w.key)
  <1>1. TypeOK /\ FilesInv /\ WriteInv /\ BatchInv
    BY DEF LogApartInv, LogInv, ApartInv
  <1>2. PICK g, p : g = RunLog /\ p = w.pos
    OBVIOUS
  <1>3. w.key \in Keys /\ p \in Places(g, 0) /\ w.key # TxnFinKey
    <2>1. w.key \in Keys /\ p \in LogOf(dirOf, 0)
      BY <1>1, <1>2 DEF WriteInv
    <2> QED BY <1>1, <1>2, <2>1, RunIs, Constants
  <1>4. /\ Rec(g, p) = [seq |-> seqNo, key |-> w.key, val |-> w.val]
        /\ \A q \in Places(g, 0) \ {p} : Rec(g, q).key # TxnFinKey => Before(q, p)
        /\ Ended(g, 0, seqNo) /\ EndsLast(g)
        /\ mpc # "none" => p.fid >= nonMergeFileId
        /\ dirPath > 0 /\ fin[dirPath] \in FileIds => p.fid >= fin[dirPath]
    BY <1>1, <1>2 DEF BatchInv
  <1>5. IsLog(g) /\ p \in Positions
    BY <1>1, <1>2, <1>3, RunIs, PlaceIs
  <1>6. Counts(g, 0, w.key, p)
    BY <1>3, <1>4 DEF Counts
  <1>7. IsNewest(g, 0, w.key, p)
    <2>1. ASSUME NEW q \in Positions, Counts(g, 0, w.key, q)
          PROVE  q = p \/ Before(q, p)
      BY <1>3, <1>4, <2>1 DEF Counts
    <2> QED BY <1>6, <2>1 DEF IsNewest
  <1>8. ASSUME NEW n \in Nat, p.fid >= n
        PROVE  ~NoneCounts(g, n, w.key)
    <2>1. Counts(g, n, w.key, p)
      BY <1>4, <1>5, <1>6, <1>8, CountsFrom
    <2> QED BY <1>5, <2>1 DEF NoneCounts
  <1>9. /\ mpc # "none" => nonMergeFileId \in Nat
        /\ fin[dirPath] \in FileIds => fin[dirPath] \in Nat
    <2>1. mpc # "none" => nonMergeFileId \in FileIds
      BY Boundaries
    <2> QED BY <2>1, Sizes
  <1> QED BY <1>2, <1>3, <1>4, <1>5, <1>7, <1>8, <1>9

\* A key nothing of which counts behind a merge is in the index as the log has it.
LEMMA MergedTold ==
    ASSUME LogApartInv, phase = "open", NEW k \in Keys,
           \/ mpc # "none" /\ NoneCounts(RunLog, nonMergeFileId, k)
           \/ dirPath > 0 /\ fin[dirPath] \in FileIds /\ NoneCounts(RunLog, fin[dirPath], k)
    PROVE  ~Applying(k) /\ Tells(RunLog, k, index[k])
  <1>1. ASSUME NEW c \in Clients, pc[c] = "apply", write[c].key = k
        PROVE  FALSE
    BY <1>1, ApplyingCounts
  <1>2. ~Applying(k)
    BY <1>1 DEF Applying
  <1> QED BY <1>2 DEF LogApartInv, LogInv, IndexTold

LEMMA MergeFinishKeepsLog ==
    ASSUME LogApartInv, MergeFinish
    PROVE  LogInv' /\ RunLog' = RunLog
  <1>0. phase = "open" /\ mpc = "finish" /\ mpc' = "none" /\ phase' = "open"
    BY DEF LogApartInv, ApartInv, ClosedInv, MergeFinish
  <1>1. /\ fin' = [fin EXCEPT ![dirPath] = nonMergeFileId]
        /\ UNCHANGED <<exists, present, data, hint, dirPath, dirOf, writeOff,
                       index, seqNo, mu, pc, write, nonMergeFileId, toScan>>
    BY DEF MergeFinish, Boundary, options, calls
  <1>2. /\ DirsType /\ InstanceType /\ FilesInv /\ MergeInv /\ PlacesInv /\ CopiesInv /\ ScanInv
        /\ BatchInv
    BY TypeIs DEF LogApartInv, LogInv, ApartInv
  <1>3. PICK m, n : m = dirPath /\ n = nonMergeFileId
    OBVIOUS
  <1>4. /\ m \in Dirs /\ m > 0 /\ fin[m] \notin FileIds /\ n \in FileIds /\ n \in OpenFiles
        /\ mergeFile < n /\ mergeFile \in FileIds \cup {NoFile}
        /\ \A f \in present[m] : f =< mergeFile \/ f > n
        /\ \A f \in present[m] : f > n => dirOf[f] = m
        /\ m \in exists /\ hint[m] # NoHint
    <2>1. /\ m \in Dirs /\ m > 0 /\ fin[m] \notin FileIds /\ n \in FileIds /\ n \in OpenFiles
          /\ mergeFile < n /\ mergeFile \in FileIds \cup {NoFile}
      BY <1>0, <1>2, <1>3 DEF InstanceType, MergeInv, OpenFiles
    <2>2. /\ \A f \in present[m] : f =< mergeFile \/ f > n
          /\ hint[m] # NoHint
      BY <1>0, <1>2, <1>3 DEF MergeInv
    <2>3. m \in exists /\ \A f \in present[m] : f > n => dirOf[f] = m
      BY <1>0, <1>2, <1>3 DEF PlacesInv
    <2> QED BY <2>1, <2>2, <2>3
  <1>5. fin'[m] = n /\ \A d \in Dirs : d # m => fin'[d] = fin[d]
    BY <1>1, <1>2, <1>3, <1>4 DEF DirsType
  <1>6. RunLog' = RunLog /\ OpenFiles' = OpenFiles
    BY <1>1 DEF RunLog, OpenFiles
  <1>7. \A c \in Clients : pc[c] # "idle" => write[c].pos.fid >= n
    BY <1>0, <1>2, <1>3 DEF BatchInv
  <1>8. 0 \in Dirs /\ 0 # m
    BY <1>4, Sizes
  <1>11. LockInv' /\ BatchInv' /\ IndexTold' /\ NextInv'
    BY <1>0, <1>1, <1>3, <1>5, <1>6, <1>7, QuietKeeps
  <1>12. /\ m = 1 => Waiting' /\ fin'[1] = n
         /\ m # 1 => (Waiting' <=> Waiting) /\ (Waiting => fin'[1] = fin[1] /\ 1 \in Dirs)
    <2>1. Waiting \/ Waiting' => 1 \in Dirs
      BY Sizes DEF Waiting
    <2>2. m = 1 => Waiting' /\ fin'[1] = n
      <3>1. m = 1 => MaxDir > 0
        BY <1>4, Sizes
      <3> QED BY <1>4, <1>5, <3>1 DEF Waiting
    <2>3. m # 1 /\ 1 \in Dirs => fin'[1] = fin[1]
      BY <1>5
    <2> QED BY <2>1, <2>2, <2>3 DEF Waiting
  <1>13. PlacesInv'
    <2>1. ASSUME m = 1
          PROVE  /\ dirPath > 0 /\ \A f \in present[1] : f >= fin'[1] => dirOf[f] = 1
                 /\ 1 \in exists /\ hint[1] # NoHint
      <3>1. ASSUME NEW f \in present[1], f >= n
            PROVE  dirOf[f] = 1
        <4>1. f \in FileIds
          BY <1>2, <1>4, <2>1, <3>1 DEF DirsType
        <4>2. f > n
          <5>1. f \in Nat /\ n \in Nat /\ mergeFile \in Int
            BY <1>4, <4>1, Sizes
          <5> QED BY <1>4, <2>1, <3>1, <5>1
        <4> QED BY <1>4, <2>1, <3>1, <4>2
      <3> QED BY <1>3, <1>4, <1>12, <2>1, <3>1
    <2>2. Waiting' => /\ dirPath > 0 /\ \A f \in present[1] : f >= fin'[1] => dirOf[f] = 1
                      /\ 1 \in exists /\ hint[1] # NoHint
      <3>1. CASE m = 1
        BY <2>1, <3>1
      <3>2. CASE m # 1
        BY <1>0, <1>2, <1>12, <3>2 DEF PlacesInv
      <3> QED BY <3>1, <3>2
    <2>3. fin'[dirPath] \in OpenFiles /\ hint[dirPath] # NoHint
      BY <1>3, <1>4, <1>5
    <2> QED BY <1>0, <1>1, <1>2, <1>6, <2>2, <2>3 DEF PlacesInv
  <1>14. Copies(data[m], hint[m], n)
    BY <1>0, <1>2, <1>3 DEF CopiesInv
  <1>15. CopiesInv'
    <2>1. fin'[0] = fin[0]
      BY <1>5, <1>8
    <2>2. /\ Copies(data'[0], hint'[0], From0') /\ fin'[0] \in FileIds \cup {NoFile}
          /\ fin'[0] # NoFile => fin'[0] \in present'[0]
      <3>1. From0 \in Nat
        BY <1>0, Boundaries
      <3> QED BY <1>0, <1>1, <1>2, <2>1, <3>1, BaseKept
    <2>3. Waiting' => Copies(SwapLog', SwapHint', fin'[1])
      <3>1. CASE m = 1
        <4>1. PICK g, h, t : g = data[1] /\ h = SwapLog' /\ t = hint[1]
          OBVIOUS
        <4>2. ASSUME NEW f \in FileIds, f < n
              PROVE  g[f] = h[f]
          <5>1. f \notin present[1] => data[1][f] = <<>>
            BY <1>2, <1>4, <3>1 DEF FilesInv
          <5>2. h[f] = IF f \in present[1] THEN data[1][f] ELSE <<>>
            BY <1>0, <1>1, <1>12, <3>1, <4>1, <4>2 DEF SwapLog
          <5> QED BY <4>1, <5>1, <5>2
        <4>3. Copies(g, t, n) /\ n \in Nat
          BY <1>4, <1>14, <3>1, <4>1, Sizes
        <4>4. Copies(h, t, n)
          BY <4>2, <4>3, SameCopies
        <4>5. SwapHint' = t
          BY <1>0, <1>1, <4>1 DEF SwapHint
        <4> QED BY <1>12, <3>1, <4>1, <4>4, <4>5
      <3>2. CASE m # 1
        <4>1. Waiting => fin[1] \in Nat
          BY Sizes DEF Waiting
        <4> QED BY <1>0, <1>1, <1>2, <1>12, <3>2, <4>1, WaitKept
      <3> QED BY <3>1, <3>2
    <2>4. Copies(data'[dirPath'], hint'[dirPath'], fin'[dirPath'])
      BY <1>1, <1>3, <1>5, <1>14
    <2> QED BY <1>0, <2>2, <2>3, <2>4 DEF CopiesInv
  <1>16. ScanInv'
    <2>1. \A k \in Keys : Copied(k)' <=> Copied(k)
      BY <1>1, <1>6 DEF Copied
    <2>2. ASSUME NEW k \in Keys, NoneCounts(RunLog, n, k)
          PROVE  Copied(k)
      BY <1>0, <1>2, <1>3, <2>2 DEF ScanInv
    <2>3. fin'[dirPath'] = n
      BY <1>1, <1>3, <1>5
    <2> QED BY <1>0, <1>6, <2>1, <2>2, <2>3 DEF ScanInv
  <1> QED BY <1>11, <1>13, <1>15, <1>16, <1>6 DEF LogInv

LEMMA RewriteKeepsLog ==
    ASSUME LogApartInv, MergeRecord, IsLive(First(toScan)), Rewrite(First(toScan))
    PROVE  LogInv' /\ RunLog' = RunLog
  <1>2. /\ TypeOK /\ DirsType /\ InstanceType /\ FilesInv /\ OpenInv /\ IndexInv /\ MergeInv
        /\ PlacesInv /\ CopiesInv /\ ScanInv /\ BatchInv
    BY TypeIs DEF LogApartInv, LogInv, ApartInv
  <1>0. phase = "open" /\ mpc = "scan" /\ toScan # {}
    BY DEF LogApartInv, LogInv, ApartInv, ClosedInv, MergeRecord
  <1>3. PICK p, m, n, e, o : /\ p = First(toScan) /\ m = dirPath /\ n = nonMergeFileId
                             /\ e = MergeAppendFile /\ o = MergeOff
    OBVIOUS
  <1>4. PICK r, rec, a : /\ r = RecAt(p) /\ rec = [r EXCEPT !.seq = 0]
                         /\ a = [fid |-> e, off |-> o]
    OBVIOUS
  <1>1. /\ data' = [data EXCEPT ![m][e] = Append(@, rec)]
        /\ present' = [present EXCEPT ![m] = @ \cup {e}]
        /\ hint' = [hint EXCEPT ![m][r.key] = a]
        /\ e =< MaxFileId /\ toScan' = toScan \ {p} /\ phase' = "open"
        /\ UNCHANGED <<exists, fin, dirPath, dirOf, writeOff, index, seqNo, mu, pc,
                       write, mpc, nonMergeFileId>>
    BY <1>0, <1>3, <1>4 DEF MergeRecord, Rewrite, options, calls
  <1>5. p \in toScan /\ p \in Places(RunLog, 0) /\ p \in LogOf(dirOf, 0) /\ p.fid < n
    <2>1. toScan \subseteq Positions /\ toScan \subseteq {q \in LogOf(dirOf, 0) : q.fid < n}
      BY <1>0, <1>2, <1>3 DEF InstanceType, MergeInv
    <2>2. p \in toScan
      BY <1>0, <1>3, <2>1, FirstIs
    <2>3. p \in LogOf(dirOf, 0) /\ p.fid < n
      BY <2>1, <2>2
    <2> QED BY <1>2, <2>2, <2>3, RunIs
  <1>6. /\ IsLog(RunLog) /\ r = Rec(RunLog, p) /\ r \in Records /\ p \in Positions
        /\ p.fid \in FileIds /\ p # NoPos
    <2>1. IsLog(RunLog) /\ r = Rec(RunLog, p)
      BY <1>2, <1>4, <1>5, RunIs
    <2> QED BY <1>5, <2>1, PlaceIs, Sizes
  <1>7. /\ r.key \in Keys /\ index[r.key] = p /\ r.val \in Values
        /\ rec \in Records /\ rec.seq = 0 /\ rec.key = r.key /\ rec.val = r.val
    <2>1. r.key \in Keys /\ index[r.key] = p
      BY <1>3, <1>4 DEF IsLive
    <2>2. r.val \in Values
      BY <1>0, <1>2, <1>4, <1>5, <1>6, <2>1 DEF IndexInv
    <2>3. rec \in Records /\ rec.seq = 0 /\ rec.key = r.key /\ rec.val = r.val
      BY <1>4, <1>6, Sizes DEF Records
    <2> QED BY <2>1, <2>2, <2>3
  <1>8. /\ e \in FileIds /\ mergeFile =< e /\ o = Len(data[m][e]) /\ o \in Nat /\ o < DataFileSize
        /\ m \in Dirs /\ n \in FileIds /\ mergeFile \in FileIds \cup {NoFile}
    BY <1>0, <1>1, <1>2, <1>3, MergePlace
  <1>9. /\ m > 0 /\ mergeFile < n /\ fin[m] \notin FileIds /\ hint[m] # NoHint
        /\ e < p.fid \/ e = p.fid
        /\ \A f \in OpenFiles : dirOf[f] = m => f > n
        /\ \A f \in present[m] : f =< mergeFile \/ f > n
    BY <1>0, <1>2, <1>3, <1>5 DEF MergeInv
  <1>10. e < n /\ a \in Positions /\ a.fid = e /\ a.off = o
    BY SMTT(20), <1>4, <1>5, <1>6, <1>8, <1>9, Sizes DEF Positions
  <1>11. PICK g, h : g = data[m] /\ h = data'[m]
    OBVIOUS
  <1>12. /\ h = [g EXCEPT ![e] = Append(@, rec)]
         /\ \A d \in Dirs : d # m => data'[d] = data[d] /\ present'[d] = present[d]
         /\ present'[m] = present[m] \cup {e}
         /\ \A f \in FileIds : f # e => h[f] = g[f]
    BY <1>1, <1>2, <1>8, <1>11 DEF DirsType
  <1>13. Adds(g, h, a, rec) /\ IsLog(g)
    <2>1. IsLog(g)
      BY <1>2, <1>8, <1>11 DEF DirsType, FilesInv, IsLog
    <2> QED BY <1>8, <1>10, <1>11, <1>12, <2>1 DEF Adds
  <1>14. /\ hint'[m] # NoHint /\ hint'[m][r.key] = a
         /\ \A k \in Keys : k # r.key => hint'[m][k] = hint[m][k]
         /\ \A d \in Dirs : d # m => hint'[d] = hint[d]
    <2>1. hint[m] \in [Keys -> Positions \cup {NoPos}]
      BY <1>2, <1>8, <1>9 DEF DirsType
    <2>2. PICK y : y = [hint[m] EXCEPT ![r.key] = a]
      OBVIOUS
    <2>3. y \in [Keys -> Positions \cup {NoPos}] /\ y[r.key] = a
          /\ \A k \in Keys : k # r.key => y[k] = hint[m][k]
      BY <1>7, <1>10, <2>1, <2>2
    <2>4. hint' = [hint EXCEPT ![m] = y]
      BY <1>1, <2>2
    <2>5. hint'[m] = y /\ \A d \in Dirs : d # m => hint'[d] = hint[d]
      BY <1>2, <1>8, <2>4 DEF DirsType
    <2> QED BY <2>3, <2>5, Constants
  <1>15. RunLog' = RunLog
    <2>1. ASSUME NEW f \in FileIds, dirOf[f] # NoDir
          PROVE  data'[dirOf[f]][f] = data[dirOf[f]][f]
      <3>1. dirOf[f] \in Dirs /\ f \in OpenFiles /\ f \in Nat /\ e \in Nat /\ n \in Nat
        BY <1>2, <1>8, <2>1, Sizes DEF InstanceType, OpenFiles
      <3>2. dirOf[f] = m => f # e
        BY <1>9, <1>10, <3>1
      <3> QED BY <1>11, <1>12, <3>1, <3>2
    <2> QED BY <1>1, <2>1, SameRunLog
  <1>16. fin'[dirPath'] \notin FileIds
    BY <1>1, <1>3, <1>9
  <1>17. LockInv' /\ BatchInv' /\ IndexTold' /\ NextInv'
    <2>1. \A c \in Clients : pc[c] # "idle" => write[c].pos.fid >= nonMergeFileId
      BY <1>0, <1>2 DEF BatchInv
    <2> QED BY <1>0, <1>1, <1>15, <1>16, <2>1, QuietKeeps
  <1>18. Waiting' => /\ Waiting /\ m # 1 /\ 1 \in Dirs /\ hint'[1] = hint[1]
                     /\ data'[1] = data[1] /\ present'[1] = present[1] /\ fin'[1] = fin[1]
    <2>1. Waiting' => 1 \in Dirs /\ Waiting
      BY <1>1, Sizes DEF Waiting
    <2>2. Waiting => m # 1
      BY <1>9 DEF Waiting
    <2> QED BY <1>1, <1>12, <1>14, <2>1, <2>2
  <1>19. 0 \in Dirs /\ 0 # m
    BY <1>9, Sizes
  <1>20. PlacesInv'
    <2>1. Waiting' => /\ dirPath > 0 /\ \A f \in present'[1] : f >= fin'[1] => dirOf[f] = 1
                      /\ 1 \in exists /\ hint'[1] # NoHint
      BY <1>0, <1>2, <1>18 DEF PlacesInv
    <2>2. ASSUME NEW f \in present'[m], f > n
          PROVE  dirOf[f] = m
      <3>1. f # e
        BY <1>8, <1>10, <2>2, Sizes
      <3> QED BY <1>0, <1>2, <1>3, <1>12, <2>2, <3>1 DEF PlacesInv
    <2>3. present'[0] = present[0]
      BY <1>12, <1>19
    <2> QED BY <1>0, <1>1, <1>2, <1>3, <1>16, <2>1, <2>2, <2>3 DEF PlacesInv
  <1>21. Copies(g, hint[m], n) /\ n \in Nat
    BY <1>0, <1>2, <1>3, <1>8, <1>11, Sizes DEF CopiesInv
  <1>22. Copies(h, hint'[m], n)
    <2>1. ASSUME NEW q \in Places(g, 0), q.fid < n
          PROVE  q.fid =< a.fid
      <3>1. q.fid \in FileIds /\ q.off \in Nat /\ q.off < Len(g[q.fid])
        BY <1>13, PlaceIs
      <3>2. g[q.fid] # <<>>
        BY <3>1
      <3>3. q.fid \in present[m]
        BY <1>2, <1>8, <1>11, <3>1, <3>2 DEF FilesInv
      <3>4. q.fid \in Nat /\ e \in Nat /\ mergeFile \in Int /\ n \in Nat
        BY <1>8, <3>1, Sizes
      <3>5. q.fid =< mergeFile
        BY <1>9, <2>1, <3>3, <3>4
      <3> QED BY <1>8, <1>10, <3>4, <3>5
    <2>2. PICK t, u : t = hint[m] /\ u = hint'[m]
      OBVIOUS
    <2>3. /\ t # NoHint /\ u # NoHint /\ u[rec.key] = a
          /\ \A k \in Keys : k # rec.key => u[k] = t[k]
      BY <1>7, <1>9, <1>14, <2>2
    <2>4. Copies(h, u, n)
      BY <1>7, <1>10, <1>13, <1>21, <2>1, <2>2, <2>3, CopyAdded
    <2> QED BY <2>2, <2>4
  <1>23. CopiesInv'
    <2>1. /\ fin'[0] = fin[0] /\ hint'[0] = hint[0] /\ present'[0] = present[0]
          /\ data'[0] = data[0]
      BY <1>1, <1>12, <1>14, <1>19
    <2>2. /\ Copies(data'[0], hint'[0], From0') /\ fin'[0] \in FileIds \cup {NoFile}
          /\ fin'[0] # NoFile => fin'[0] \in present'[0]
      <3>1. From0 \in Nat
        BY <1>0, Boundaries
      <3> QED BY <1>0, <1>2, <2>1, <3>1, BaseKept
    <2>3. Waiting' => Copies(SwapLog', SwapHint', fin'[1])
      <3>1. Waiting => fin[1] \in Nat
        BY Sizes DEF Waiting
      <3> QED BY <1>0, <1>1, <1>2, <1>18, <3>1, WaitKept
    <2>4. Copies(data'[dirPath'], hint'[dirPath'], nonMergeFileId')
      BY <1>1, <1>3, <1>11, <1>22
    <2> QED BY <1>16, <2>2, <2>3, <2>4 DEF CopiesInv
  <1>24. ScanInv'
    <2>1. /\ \A q : q \in Places(h, 0) <=> q \in Places(g, 0) \/ q = a
          /\ Rec(h, a) = rec
          /\ \A q \in Places(g, 0) : Rec(h, q) = Rec(g, q)
      BY <1>7, <1>13, AddedIs
    <2>2. a # NoPos
      BY <1>10, Sizes
    <2>3. ASSUME NEW k \in Keys, index[k] = p, Tells(RunLog, k, index[k])
          PROVE  Copied(k)'
      <3>1. k = r.key
        BY <1>6, <2>3, ToldEntry
      <3>2. hint'[dirPath'][k] = a
        BY <1>1, <1>3, <1>14, <3>1
      <3>3. Rec(data'[dirPath'], a).val = r.val
        BY <1>1, <1>3, <1>7, <1>11, <2>1
      <3>4. Rec(RunLog', p).val = r.val
        BY <1>6, <1>15
      <3> QED BY <1>1, <1>6, <2>2, <2>3, <3>2, <3>3, <3>4 DEF Copied
    <2>4. ASSUME NEW k \in Keys, k # r.key, Copied(k)
          PROVE  Copied(k)'
      <3>1. PICK q : q = hint[m][k] /\ q = hint'[m][k]
        BY <1>14, <2>4
      <3>2. q # NoPos => Rec(h, q) = Rec(g, q)
        <4>1. q # NoPos => q \in Places(g, 0)
          BY <1>9, <1>21, <2>4, <3>1 DEF Copies
        <4> QED BY <2>1, <4>1
      <3>3. IF index[k] = NoPos THEN q = NoPos
            ELSE q # NoPos /\ Rec(g, q).val = Rec(RunLog, index[k]).val
        BY <1>3, <1>11, <2>4, <3>1 DEF Copied
      <3>4. IF index[k] = NoPos THEN q = NoPos
            ELSE q # NoPos /\ Rec(h, q).val = Rec(RunLog', index[k]).val
        BY <1>15, <3>2, <3>3
      <3> QED BY <1>1, <1>3, <1>11, <3>1, <3>4 DEF Copied
    <2>5. ASSUME NEW k \in Keys, NoneCounts(RunLog, n, k)
          PROVE  index[k] \in toScan' \/ Copied(k)'
      <3>1. Tells(RunLog, k, index[k])
        BY <1>0, <1>3, <2>5, MergedTold
      <3>2. CASE k = r.key
        BY <1>7, <2>3, <3>1, <3>2
      <3>3. CASE k # r.key
        <4>1. index[k] \in toScan \/ Copied(k)
          BY <1>0, <1>2, <1>3, <2>5 DEF ScanInv
        <4>2. index[k] # p
          <5>1. index[k] = p => Rec(RunLog, p).key = k
            BY <1>6, <3>1, ToldEntry
          <5> QED BY <1>6, <3>3, <5>1
        <4> QED BY <1>1, <2>4, <3>3, <4>1, <4>2
      <3> QED BY <3>2, <3>3
    <2> QED BY <1>0, <1>1, <1>3, <1>15, <1>16, <2>5 DEF ScanInv
  <1> QED BY <1>17, <1>20, <1>23, <1>24, <1>15 DEF LogInv

LEMMA SkipKeepsLog ==
    ASSUME LogApartInv, MergeRecord, ~IsLive(First(toScan)),
           UNCHANGED <<dirs, mergeFile, mergeOff>>
    PROVE  LogInv' /\ RunLog' = RunLog
  <1>0. phase = "open" /\ mpc = "scan" /\ toScan # {} /\ phase' = "open"
    BY DEF LogApartInv, LogInv, ApartInv, ClosedInv, MergeRecord
  <1>1. /\ toScan' = toScan \ {First(toScan)}
        /\ UNCHANGED <<exists, present, data, hint, fin, dirPath,
                       dirOf, writeOff, index, seqNo, mu, pc, write, mpc, nonMergeFileId>>
    BY DEF MergeRecord, dirs, options, calls
  <1>2. /\ TypeOK /\ InstanceType /\ FilesInv /\ MergeInv /\ PlacesInv /\ CopiesInv /\ ScanInv
        /\ BatchInv
    BY TypeIs DEF LogApartInv, LogInv, ApartInv
  <1>3. RunLog' = RunLog /\ SwapLog' = SwapLog /\ SwapHint' = SwapHint /\ From0' = From0
        /\ (Waiting' <=> Waiting) /\ OpenFiles' = OpenFiles
    BY <1>0, <1>1 DEF RunLog, SwapLog, SwapHint, From0, Waiting, OpenFiles
  <1>4. LockInv' /\ BatchInv' /\ IndexTold' /\ NextInv'
    <2>1. \A c \in Clients : pc[c] # "idle" =>
              /\ write[c].pos.fid >= nonMergeFileId
              /\ dirPath > 0 /\ fin[dirPath] \in FileIds => write[c].pos.fid >= fin[dirPath]
      BY <1>0, <1>2 DEF BatchInv
    <2> QED BY <1>0, <1>1, <1>3, <2>1, QuietKeeps
  <1>5. PlacesInv'
    BY <1>0, <1>1, <1>2, <1>3 DEF PlacesInv
  <1>6. CopiesInv'
    BY <1>0, <1>1, <1>2, <1>3 DEF CopiesInv
  <1>7. ScanInv'
    <2>1. \A k \in Keys : Copied(k)' <=> Copied(k)
      BY <1>1, <1>3 DEF Copied
    <2>2. ASSUME NEW k \in Keys, NoneCounts(RunLog, nonMergeFileId, k), index[k] \in toScan
          PROVE  index[k] # First(toScan)
      <3>1. Tells(RunLog, k, index[k])
        BY <1>0, <2>2, MergedTold
      <3>2. PICK p : p = index[k]
        OBVIOUS
      <3>3. p \in Positions /\ p # NoPos
        BY <1>2, <2>2, <3>2, Sizes DEF InstanceType
      <3>4. p \in Places(RunLog, 0) /\ Rec(RunLog, p).key = k
        BY <3>1, <3>2, <3>3, ToldEntry
      <3>5. RecAt(p).key = k
        BY <1>2, <3>4, RunIs
      <3>6. IsLive(p)
        BY <3>2, <3>5 DEF IsLive
      <3> QED BY <3>2, <3>6
    <2> QED BY <1>0, <1>1, <1>2, <1>3, <2>1, <2>2 DEF ScanInv
  <1> QED BY <1>4, <1>5, <1>6, <1>7, <1>3 DEF LogInv

LEMMA MergeRecordKeepsLog ==
    ASSUME LogApartInv, MergeRecord
    PROVE  LogInv' /\ RunLog' = RunLog
  <1>1. \/ IsLive(First(toScan)) /\ Rewrite(First(toScan))
        \/ ~IsLive(First(toScan)) /\ UNCHANGED <<dirs, mergeFile, mergeOff>>
    BY DEF MergeRecord
  <1> QED BY <1>1, RewriteKeepsLog, SkipKeepsLog

-----------------------------------------------------------------------------
\* The appends of the running instance

LEMMA AppendKeepsPlaces ==
    ASSUME LogApartInv, phase = "open", phase' = "open",
           NEW rec \in Records, NEW s \in BOOLEAN, AppendLogRecord(rec, s),
           (rec.val = Finished <=> rec.key = TxnFinKey),
           UNCHANGED <<dirPath, mpc, nonMergeFileId>>
    PROVE  /\ PlacesInv' /\ CopiesInv'
           /\ mpc # "none" => AppendPos.fid >= nonMergeFileId
           /\ dirPath > 0 /\ fin[dirPath] \in FileIds => AppendPos.fid >= fin[dirPath]
  <1>1. /\ TypeOK /\ DirsType /\ InstanceType /\ FilesInv /\ OpenInv /\ PlacesInv /\ CopiesInv
        /\ UNCHANGED <<exists, hint, fin>>
    BY TypeIs DEF LogApartInv, LogInv, ApartInv, AppendLogRecord
  <1>2. PICK a, d : a = AppendFile /\ d = AppendDir
    OBVIOUS
  <1>3. /\ a \in FileIds /\ d \in Dirs /\ ActiveFile =< a /\ AppendPos.fid = a
        /\ OpenFiles' = OpenFiles \cup {a}
        /\ \A g \in OpenFiles : dirOf'[g] = dirOf[g]
        /\ dirOf'[a] = d
        /\ \A e \in Dirs : present[e] \subseteq present'[e]
        /\ \A e \in Dirs : \A g : g \in present'[e] => g \in present[e] \/ (g = a /\ e = d)
        /\ \A e \in Dirs, g \in FileIds : e # d \/ g # a => data'[e][g] = data[e][g]
    BY <1>1, <1>2, AppendTypes
  <1>4. \A g \in OpenFiles : g =< a /\ g \in Nat /\ g \in FileIds
    <2>1. \A g \in OpenFiles : g =< ActiveFile /\ g \in FileIds
      BY <1>1, ActiveIs
    <2>2. ActiveFile \in FileIds \cup {NoFile}
      BY <1>1, ActiveIs
    <2> QED BY <1>3, <2>1, <2>2, Sizes
  <1>5. /\ From0 \in Nat /\ From0 =< a
        /\ Waiting => fin[1] \in Nat /\ fin[1] =< a /\ 1 \in Dirs /\ dirPath > 0
        /\ dirPath > 0 /\ fin[dirPath] \in FileIds => fin[dirPath] =< a /\ fin[dirPath] \in Nat
        /\ mpc # "none" => nonMergeFileId =< a /\ nonMergeFileId \in Nat
    <2>1. /\ From0 \in Nat /\ (From0 # 0 => From0 \in OpenFiles)
          /\ Waiting => fin[1] \in OpenFiles /\ 1 \in Dirs /\ dirPath > 0
          /\ dirPath > 0 /\ fin[dirPath] \in FileIds => fin[dirPath] \in OpenFiles
          /\ mpc # "none" => nonMergeFileId \in OpenFiles
      BY Boundaries
    <2>2. 0 =< a
      BY <1>3, Sizes
    <2> QED BY <1>4, <2>1, <2>2
  <1>6. ASSUME NEW n \in Nat, n =< a, NEW f \in FileIds, f < n
        PROVE  f # a
    <2>1. f \in Nat /\ a \in Nat
      BY <1>3, Sizes
    <2> QED BY <1>6, <2>1
  <1>7. ASSUME NEW e \in Dirs, NEW f \in present'[e], dirOf[f] = e \/ f \notin present[e]
        PROVE  dirOf'[f] = e
    <2>1. f \in FileIds /\ e # NoDir
      <3>1. f \in present[e] \/ f = a
        BY <1>3
      <3>2. present[e] \subseteq FileIds
        BY <1>1 DEF DirsType
      <3>3. e \in Nat
        BY Sizes
      <3> QED BY <1>3, <3>1, <3>2, <3>3
    <2>2. CASE dirOf[f] = e
      BY <1>3, <2>1, <2>2 DEF OpenFiles
    <2>3. CASE f \notin present[e]
      BY <1>3, <2>3
    <2> QED BY <1>7, <2>2, <2>3
  <1>8. dirPath \in Dirs /\ 0 \in Dirs
    BY <1>1, Sizes DEF InstanceType
  <1>9. Waiting' <=> Waiting
    BY <1>1 DEF Waiting
  <1>10. PlacesInv'
    <2>1. ASSUME NEW f \in present'[0]
          PROVE  dirOf'[f] = 0
      BY <1>1, <1>7, <1>8, <2>1 DEF PlacesInv
    <2>2. ASSUME Waiting, NEW f \in present'[1], f >= fin[1]
          PROVE  dirOf'[f] = 1
      BY <1>1, <1>5, <1>7, <2>2 DEF PlacesInv
    <2>3. ASSUME mpc \in {"scan", "finish"}, NEW f \in present'[dirPath], f > nonMergeFileId
          PROVE  dirOf'[f] = dirPath
      BY <1>1, <1>7, <1>8, <2>3 DEF PlacesInv
    <2>4. Waiting => dirPath > 0 /\ 1 \in exists /\ hint[1] # NoHint
      BY <1>1 DEF PlacesInv
    <2>5. dirPath > 0 /\ fin[dirPath] \in FileIds =>
              fin[dirPath] \in OpenFiles' /\ hint[dirPath] # NoHint
      BY <1>1, <1>3 DEF PlacesInv
    <2>6. mpc \in {"open", "scan", "finish"} => dirPath \in exists
      BY <1>1 DEF PlacesInv
    <2> QED BY <1>1, <1>9, <2>1, <2>2, <2>3, <2>4, <2>5, <2>6 DEF PlacesInv
  <1>11. ASSUME NEW e \in Dirs, NEW n \in Nat, n =< a, Copies(data[e], hint[e], n)
         PROVE  Copies(data'[e], hint'[e], n)
    <2>1. PICK g, h, t : g = data[e] /\ h = data'[e] /\ t = hint[e]
      OBVIOUS
    <2>2. \A f \in FileIds : f < n => g[f] = h[f]
      BY <1>3, <1>6, <1>11, <2>1
    <2>3. Copies(h, t, n)
      BY <1>11, <2>1, <2>2, SameCopies
    <2> QED BY <1>1, <2>1, <2>3
  <1>12. CopiesInv'
    <2>1. /\ Copies(data'[0], hint'[0], From0') /\ fin'[0] \in FileIds \cup {NoFile}
          /\ fin'[0] # NoFile => fin'[0] \in present'[0]
      <3>1. \A f \in FileIds : f < From0 => data'[0][f] = data[0][f]
        BY <1>3, <1>5, <1>6, <1>8
      <3>2. present[0] \subseteq present'[0]
        BY <1>3, <1>8
      <3> QED BY <1>1, <1>5, <3>1, <3>2, BaseKept
    <2>2. ASSUME Waiting
          PROVE  Copies(SwapLog', SwapHint', fin'[1])
      <3>1. ASSUME NEW f \in FileIds, f < fin[1]
            PROVE  data'[1][f] = data[1][f] /\ (f \in present'[1] <=> f \in present[1])
        <4>1. f # a /\ 1 \in Dirs
          BY <1>5, <1>6, <2>2, <3>1
        <4> QED BY <1>3, <3>1, <4>1
      <3> QED BY <1>1, <1>5, <2>2, <3>1, WaitKept
    <2>3. mpc \in {"scan", "finish"} => Copies(data'[dirPath], hint'[dirPath], nonMergeFileId)
      BY <1>1, <1>5, <1>8, <1>11 DEF CopiesInv
    <2>4. dirPath > 0 /\ fin[dirPath] \in FileIds =>
              Copies(data'[dirPath], hint'[dirPath], fin[dirPath])
      BY <1>1, <1>5, <1>8, <1>11 DEF CopiesInv
    <2> QED BY <1>1, <1>9, <2>1, <2>2, <2>3, <2>4 DEF CopiesInv
  <1> QED BY <1>3, <1>5, <1>10, <1>12

\* No record that counted has stopped to.
LEMMA AppendKeepsScan ==
    ASSUME LogApartInv, phase = "open", phase' = "open", \A c \in Clients : pc[c] # "apply",
           NEW rec \in Records, NEW s \in BOOLEAN, AppendLogRecord(rec, s),
           (rec.val = Finished <=> rec.key = TxnFinKey),
           UNCHANGED <<dirPath, mpc, nonMergeFileId, toScan, index>>, EndsLast(RunLog'),
           \A k \in Keys, p \in Positions : Counts(RunLog, 0, k, p) => Counts(RunLog', 0, k, p)
    PROVE  ScanInv'
  <1>1. /\ TypeOK /\ DirsType /\ InstanceType /\ FilesInv /\ OpenInv /\ PlacesInv /\ CopiesInv
        /\ MergeInv /\ ScanInv /\ BatchInv /\ IndexTold /\ UNCHANGED <<exists, hint, fin>>
    BY TypeIs DEF LogApartInv, LogInv, ApartInv, AppendLogRecord
  <1>2. PICK g, h, a : g = RunLog /\ h = RunLog' /\ a = AppendPos
    OBVIOUS
  <1>3. /\ IsLog(g) /\ IsLog(h) /\ EndsLast(g) /\ EndsLast(h)
        /\ \A q \in Places(g, 0) : Rec(h, q) = Rec(g, q)
    <2>1. IsLog(g) /\ EndsLast(g) /\ EndsLast(h)
      BY <1>1, <1>2, RunIs DEF BatchInv
    <2>2. Grows(g, h, a, rec)
      BY <1>1, <1>2, AppendGrowsLog
    <2> QED BY <2>1, <2>2, GrownIs
  <1>4. ASSUME NEW n \in Nat, NEW k \in Keys, NoneCounts(h, n, k)
        PROVE  NoneCounts(g, n, k)
    <2>1. ASSUME NEW p \in Positions, Counts(g, n, k, p)
          PROVE  FALSE
      <3>1. Counts(g, 0, k, p) /\ p.fid >= n
        BY <1>3, <2>1, CountsFrom
      <3>2. Counts(h, n, k, p)
        BY <1>2, <1>3, <3>1, CountsFrom
      <3> QED BY <1>4, <3>2 DEF NoneCounts
    <2> QED BY <2>1 DEF NoneCounts
  <1>5. /\ mpc # "none" => nonMergeFileId \in Nat
        /\ fin[dirPath] \in FileIds => fin[dirPath] \in Nat
    <2>1. mpc # "none" => nonMergeFileId \in FileIds
      BY Boundaries
    <2> QED BY <2>1, Sizes
  <1>6. DataKept
    BY <1>1, AppendTypes
  <1>7. ASSUME NEW k \in Keys, NEW n, Copies(data[dirPath], hint[dirPath], n),
               hint[dirPath] # NoHint, Copied(k)
        PROVE  Copied(k)'
    <2>1. PICK m, q, e : m = dirPath /\ q = hint[m][k] /\ e = index[k]
      OBVIOUS
    <2>2. m \in Dirs
      BY <1>1, <2>1 DEF InstanceType
    <2>3. PICK D, E : D = data[m] /\ E = data'[m]
      OBVIOUS
    <2>4. q # NoPos => Rec(E, q) = Rec(D, q)
      <3>1. q # NoPos => q \in Places(D, 0)
        BY <1>7, <2>1, <2>3 DEF Copies
      <3>2. IsLog(D)
        BY <1>1, <2>2, <2>3 DEF DirsType, FilesInv, IsLog
      <3>3. q # NoPos => q.fid \in FileIds /\ q.off + 1 \in 1 .. Len(D[q.fid])
        BY <3>1, <3>2, PlaceIs
      <3> QED BY <1>6, <2>2, <2>3, <3>3 DEF DataKept, Rec
    <2>5. e # NoPos => Rec(h, e) = Rec(g, e)
      <3>1. Tells(g, k, e)
        BY <1>1, <1>2, <2>1 DEF IndexTold, Applying
      <3>2. e # NoPos => e \in Places(g, 0)
        BY <3>1, ToldEntry
      <3> QED BY <1>3, <3>2
    <2>6. IF e = NoPos THEN q = NoPos ELSE q # NoPos /\ Rec(D, q).val = Rec(g, e).val
      BY <1>2, <1>7, <2>1, <2>3 DEF Copied
    <2>7. IF e = NoPos THEN q = NoPos ELSE q # NoPos /\ Rec(E, q).val = Rec(h, e).val
      BY <2>4, <2>5, <2>6
    <2> QED BY <1>1, <1>2, <2>1, <2>3, <2>7 DEF Copied
  <1>8. ASSUME mpc # "none", NEW k \in Keys, NoneCounts(h, nonMergeFileId, k)
        PROVE  \/ index[k] \in toScan
               \/ IF mpc \in {"scan", "finish"} THEN Copied(k)' ELSE index[k] = NoPos
    <2>1. NoneCounts(g, nonMergeFileId, k)
      BY <1>4, <1>5, <1>8
    <2>2. \/ index[k] \in toScan
          \/ IF mpc \in {"scan", "finish"} THEN Copied(k) ELSE index[k] = NoPos
      BY <1>1, <1>2, <1>8, <2>1 DEF ScanInv
    <2>3. mpc \in {"scan", "finish"} =>
              Copies(data[dirPath], hint[dirPath], nonMergeFileId) /\ hint[dirPath] # NoHint
      BY <1>1 DEF CopiesInv, MergeInv
    <2> QED BY <1>7, <2>2, <2>3
  <1>9. ASSUME dirPath > 0, fin[dirPath] \in FileIds, NEW k \in Keys,
               NoneCounts(h, fin[dirPath], k)
        PROVE  Copied(k)'
    <2>1. NoneCounts(g, fin[dirPath], k)
      BY <1>4, <1>5, <1>9
    <2>2. Copied(k)
      BY <1>1, <1>2, <1>9, <2>1 DEF ScanInv
    <2>3. Copies(data[dirPath], hint[dirPath], fin[dirPath]) /\ hint[dirPath] # NoHint
      BY <1>1, <1>9 DEF CopiesInv, PlacesInv
    <2> QED BY <1>7, <2>2, <2>3
  <1>10. mpc = "finish" => toScan = {}
    BY <1>1 DEF ScanInv
  <1> QED BY <1>1, <1>2, <1>8, <1>9, <1>10 DEF ScanInv

LEMMA CommitAppendKeepsLog ==
    ASSUME LogApartInv, NEW c \in BatchClients, CommitAppend(c)
    PROVE  LogInv' /\ \A k \in Keys : \A v : Says(RunLog, k, v) => Says(RunLog', k, v)
  <1>1. /\ phase = "open" /\ phase' = "open" /\ pc[c] = "idle" /\ ~Locked /\ c \in Clients
        /\ UNCHANGED <<dirPath, index, mpc, nonMergeFileId, toScan>>
        /\ pc' = [pc EXCEPT ![c] = "finish"] /\ mu' = c /\ seqNo' = seqNo + 1
    BY Constants DEF CommitAppend, Calm, options, merge
  <1>2. PICK w \in Writes :
           /\ AppendLogRecord([seq |-> seqNo + 1, key |-> w.key, val |-> w.val], FALSE)
           /\ write' = [write EXCEPT ![c] = [key |-> w.key, val |-> w.val, pos |-> AppendPos]]
    BY DEF CommitAppend
  <1>3. PICK rec, a, g, h : /\ rec = [seq |-> seqNo + 1, key |-> w.key, val |-> w.val]
                            /\ a = AppendPos /\ g = RunLog /\ h = RunLog'
    OBVIOUS
  <1>4. /\ TypeOK /\ InstanceType /\ FilesInv /\ OpenInv /\ LockInv /\ BatchInv /\ IndexTold
        /\ LockInv
    BY TypeIs DEF LogApartInv, LogInv, ApartInv
  <1>5. /\ w.key \in Keys /\ w.val \in Values \cup {Tombstone} /\ w.key # TxnFinKey
        /\ rec \in Records /\ rec.val # Finished /\ rec.key # TxnFinKey
        /\ seqNo \in Nat /\ rec.seq = seqNo + 1
    <2>1. seqNo \in Nat /\ seqNo + 1 \in 0 .. MaxSeqNo
      BY <1>4, Sizes DEF InstanceType, CommitAppend
    <2>2. w.key \in Keys /\ w.val \in Values \cup {Tombstone}
      BY DEF Writes
    <2> QED BY <1>3, <2>1, <2>2, Constants DEF Records
  <1>6. /\ AppendLogRecord(rec, FALSE) /\ FALSE \in BOOLEAN
        /\ (rec.val = Finished <=> rec.key = TxnFinKey)
    BY <1>2, <1>3, <1>5
  <1>7. \A b \in Clients : pc[b] = "idle"
    BY <1>1, <1>4, Constants DEF LockInv, Locked
  <1>8. /\ pc'[c] = "finish" /\ \A b \in Clients : b # c => pc'[b] = "idle"
        /\ write'[c].key = w.key /\ write'[c].val = w.val /\ write'[c].pos = a
    BY <1>1, <1>2, <1>3, <1>4, <1>7 DEF InstanceType
  <1>9. Grows(g, h, a, rec)
    BY <1>1, <1>3, <1>4, <1>5, <1>6, AppendGrowsLog
  <1>10. IsLog(g) /\ EndsLast(g) /\ \A q \in Places(g, 0) : Rec(g, q).seq =< seqNo
    BY <1>1, <1>3, <1>4, RunIs DEF BatchInv
  <1>11. \A q \in Places(g, 0) : Rec(g, q).seq # rec.seq /\ Rec(g, q).seq =< rec.seq
    <2>1. ASSUME NEW q \in Places(g, 0)
          PROVE  Rec(g, q).seq # rec.seq /\ Rec(g, q).seq =< rec.seq
      <3>1. Rec(g, q) \in Records
        BY <1>10, PlaceIs
      <3>2. Rec(g, q).seq \in Int
        BY <3>1 DEF Records
      <3> QED BY <1>5, <1>10, <3>2
    <2> QED BY <2>1
  <1>12. /\ EndsLast(h) /\ \A k, p : Counts(h, 0, k, p) <=> Counts(g, 0, k, p)
    BY <1>5, <1>9, <1>10, <1>11, BatchBegins
  <1>13. /\ \A q : q \in Places(h, 0) <=> q \in Places(g, 0) \/ q = a
         /\ Rec(h, a) = rec
         /\ \A q \in Places(g, 0) : Rec(h, q) = Rec(g, q) /\ Before(q, a)
    BY <1>5, <1>9, <1>10, GrownIs
  <1>14. /\ PlacesInv' /\ CopiesInv'
         /\ mpc # "none" => a.fid >= nonMergeFileId
         /\ dirPath > 0 /\ fin[dirPath] \in FileIds => a.fid >= fin[dirPath]
    BY <1>1, <1>3, <1>5, <1>6, AppendKeepsPlaces
  <1>15. LockInv'
    BY <1>1, <1>8 DEF LockInv
  <1>16. fin' = fin
    BY <1>6 DEF AppendLogRecord
  <1>17. BatchInv'
    <2>1. ASSUME NEW q \in Places(h, 0)
          PROVE  Rec(h, q).seq =< seqNo'
      <3>1. CASE q = a
        BY <1>1, <1>5, <1>13, <3>1
      <3>2. CASE q # a
        BY <1>1, <1>5, <1>11, <1>13, <2>1, <3>2
      <3> QED BY <3>1, <3>2
    <2>2. ASSUME NEW q \in Places(h, 0) \ {a}
          PROVE  Before(q, a) /\ Rec(h, q).seq # seqNo'
      BY <1>1, <1>5, <1>11, <1>13, <2>2
    <2>3. Rec(h, a) = [seq |-> seqNo', key |-> w.key, val |-> w.val] /\ seqNo' # 0
      BY <1>1, <1>3, <1>5, <1>13
    <2>4. ASSUME NEW b \in Clients, pc'[b] # "idle"
          PROVE  b = c
      BY <1>8, <2>4
    <2> QED BY <1>1, <1>3, <1>8, <1>12, <1>14, <1>16, <2>1, <2>2, <2>3, <2>4 DEF BatchInv
  <1>18. IndexTold' /\ \A k \in Keys : \A v : Says(g, k, v) => Says(h, k, v)
    <2>1. ASSUME NEW k \in Keys
          PROVE  Tells(h, k, index[k]) /\ \A v : Says(g, k, v) => Says(h, k, v)
      <3>1. Tells(g, k, index[k])
        BY <1>1, <1>3, <1>4, <1>7 DEF IndexTold, Applying
      <3>2. \A p \in Positions : Counts(g, 0, k, p) <=> Counts(h, 0, k, p)
        BY <1>12
      <3>3. \A p \in Positions : Counts(g, 0, k, p) => Rec(g, p) = Rec(h, p)
        BY <1>13 DEF Counts
      <3>4. /\ \A e : Tells(g, k, e) <=> Tells(h, k, e)
            /\ \A v : Says(g, k, v) <=> Says(h, k, v)
        BY <3>2, <3>3, SameTold
      <3> QED BY <3>1, <3>4
    <2> QED BY <1>1, <1>3, <2>1 DEF IndexTold
  <1>19. ScanInv'
    <2>1. EndsLast(RunLog') /\
          \A k \in Keys, p \in Positions : Counts(RunLog, 0, k, p) => Counts(RunLog', 0, k, p)
      BY <1>3, <1>12
    <2>2. \A b \in Clients : pc[b] # "apply"
      BY <1>7
    <2> QED BY <1>1, <1>5, <1>6, <2>1, <2>2, AppendKeepsScan
  <1>20. NextInv'
    BY <1>1 DEF NextInv
  <1> QED BY <1>3, <1>14, <1>15, <1>17, <1>18, <1>19, <1>20 DEF LogInv

LEMMA CommitFinishKeepsLog ==
    ASSUME LogApartInv, NEW c \in BatchClients, CommitFinish(c)
    PROVE  /\ LogInv' /\ write[c].key \in Keys
           /\ Says(RunLog', write[c].key, write[c].val)
           /\ \A k \in Keys : \A v : k # write[c].key /\ Says(RunLog, k, v) => Says(RunLog', k, v)
  <1>1. /\ phase = "open" /\ phase' = "open" /\ pc[c] = "finish" /\ c \in Clients
        /\ UNCHANGED <<dirPath, index, seqNo, mu, write, mpc, nonMergeFileId, toScan>>
        /\ pc' = [pc EXCEPT ![c] = "apply"]
    BY Constants DEF CommitFinish, options, merge
  <1>2. PICK rec, a, g, h, w : /\ rec = [seq |-> seqNo, key |-> TxnFinKey, val |-> Finished]
                               /\ a = AppendPos /\ g = RunLog /\ h = RunLog' /\ w = write[c]
    OBVIOUS
  <1>3. /\ TypeOK /\ InstanceType /\ FilesInv /\ OpenInv /\ LockInv /\ BatchInv /\ IndexTold
        /\ WriteInv
    BY TypeIs DEF LogApartInv, LogInv, ApartInv
  <1>4. /\ rec \in Records /\ rec.seq = seqNo /\ rec.val = Finished /\ rec.key = TxnFinKey
        /\ rec.key \notin Keys /\ seqNo \in 0 .. MaxSeqNo
    BY <1>2, <1>3, Constants DEF Records, InstanceType
  <1>5. AppendLogRecord(rec, BatchSync) /\ BatchSync \in BOOLEAN
        /\ (rec.val = Finished <=> rec.key = TxnFinKey)
    BY <1>2, <1>4, Constants DEF CommitFinish
  <1>6. mu = c /\ \A b \in Clients : b # c => pc[b] = "idle"
    BY <1>1, <1>3 DEF LockInv
  <1>7. pc'[c] = "apply" /\ \A b \in Clients : b # c => pc'[b] = "idle"
    BY <1>1, <1>3, <1>6 DEF InstanceType
  <1>8. Grows(g, h, a, rec)
    BY <1>1, <1>2, <1>3, <1>4, <1>5, AppendGrowsLog
  <1>9. IsLog(g) /\ EndsLast(g) /\ \A q \in Places(g, 0) : Rec(g, q).seq =< seqNo
    BY <1>1, <1>2, <1>3, RunIs DEF BatchInv
  <1>10. PICK p : p = w.pos
    OBVIOUS
  <1>11. /\ p \in Places(g, 0) /\ w.key \in Keys /\ w.val \in Values \cup {Tombstone}
    <2>1. p \in LogOf(dirOf, 0) /\ w.key \in Keys /\ w.val \in Values \cup {Tombstone}
      BY <1>1, <1>2, <1>3, <1>10 DEF WriteInv
    <2> QED BY <1>2, <1>3, <2>1, RunIs
  <1>12. /\ Rec(g, p) = [seq |-> seqNo, key |-> w.key, val |-> w.val] /\ seqNo # 0
         /\ \A q \in Places(g, 0) \ {p} :
               /\ Rec(g, q).key # TxnFinKey => Before(q, p)
               /\ Rec(g, q).seq # seqNo
         /\ mpc # "none" => p.fid >= nonMergeFileId
         /\ dirPath > 0 /\ fin[dirPath] \in FileIds => p.fid >= fin[dirPath]
    BY <1>1, <1>2, <1>3, <1>10 DEF BatchInv
  <1>13. /\ EndsLast(h) /\ Ended(h, 0, seqNo)
         /\ \A k \in Keys : \A q : Counts(h, 0, k, q) <=>
               Counts(g, 0, k, q) \/ (q = p /\ Rec(g, p).key = k)
    <2>1. Rec(g, p).seq = rec.seq /\ Rec(g, p).val # Finished /\ rec.seq # 0
      BY <1>4, <1>11, <1>12, Constants
    <2>2. \A q \in Places(g, 0) : Rec(g, q).seq = rec.seq => q = p
      BY <1>4, <1>12
    <2> QED BY <1>4, <1>8, <1>9, <1>11, <2>1, <2>2, BatchEnds
  <1>14. /\ \A q : q \in Places(h, 0) <=> q \in Places(g, 0) \/ q = a
         /\ a \notin Places(g, 0) /\ Rec(h, a) = rec
         /\ \A q \in Places(g, 0) : Rec(h, q) = Rec(g, q) /\ Before(q, a)
    BY <1>4, <1>8, <1>9, GrownIs
  <1>15. PlacesInv' /\ CopiesInv'
    BY <1>1, <1>4, <1>5, AppendKeepsPlaces
  <1>16. LockInv'
    BY <1>1, <1>6, <1>7 DEF LockInv
  <1>17. fin' = fin
    BY <1>5 DEF AppendLogRecord
  <1>18. BatchInv'
    <2>1. ASSUME NEW q \in Places(h, 0)
          PROVE  Rec(h, q).seq =< seqNo
      <3>1. CASE q = a
        BY <1>4, <1>14, <3>1
      <3>2. CASE q # a
        BY <1>9, <1>14, <2>1, <3>2
      <3> QED BY <3>1, <3>2
    <2>2. ASSUME NEW q \in Places(h, 0) \ {p}
          PROVE  /\ Rec(h, q).key # TxnFinKey => Before(q, p)
                 /\ Rec(h, q).seq = seqNo => Rec(h, q).key = TxnFinKey
      <3>1. CASE q = a
        BY <1>4, <1>14, <3>1
      <3>2. CASE q # a
        BY <1>12, <1>14, <2>2, <3>2
      <3> QED BY <3>1, <3>2
    <2>3. Rec(h, p) = [seq |-> seqNo, key |-> w.key, val |-> w.val]
      BY <1>11, <1>12, <1>14
    <2>4. ASSUME NEW b \in Clients, pc'[b] # "idle"
          PROVE  b = c
      BY <1>7, <2>4
    <2> QED BY <1>1, <1>2, <1>7, <1>10, <1>12, <1>13, <1>17, <2>1, <2>2, <2>3, <2>4 DEF BatchInv
  <1>19. IndexTold' /\ \A k \in Keys : \A v : k # w.key /\ Says(g, k, v) => Says(h, k, v)
    <2>1. ASSUME NEW k \in Keys, k # w.key
          PROVE  Tells(h, k, index[k]) /\ \A v : Says(g, k, v) => Says(h, k, v)
      <3>1. Tells(g, k, index[k])
        BY <1>1, <1>2, <1>3, <1>6 DEF IndexTold, Applying
      <3>2. \A q \in Positions : Counts(g, 0, k, q) <=> Counts(h, 0, k, q)
        BY <1>12, <1>13, <2>1
      <3>3. \A q \in Positions : Counts(g, 0, k, q) => Rec(g, q) = Rec(h, q)
        BY <1>14 DEF Counts
      <3>4. /\ \A e : Tells(g, k, e) <=> Tells(h, k, e)
            /\ \A v : Says(g, k, v) <=> Says(h, k, v)
        BY <3>2, <3>3, SameTold
      <3> QED BY <3>1, <3>4
    <2>2. Applying(w.key)'
      BY <1>1, <1>2, <1>7 DEF Applying
    <2>3. ASSUME NEW k \in Keys
          PROVE  Applying(k)' \/ Tells(RunLog', k, index'[k])
      BY <1>1, <1>2, <2>1, <2>2
    <2> QED BY <2>1, <2>3 DEF IndexTold
  <1>22. Says(h, w.key, w.val)
    <2>1. Counts(h, 0, w.key, p) /\ Rec(h, p).val = w.val /\ p \in Positions
      BY <1>9, <1>11, <1>12, <1>13, <1>14, PlaceIs
    <2>2. ASSUME NEW q \in Positions, Counts(h, 0, w.key, q)
          PROVE  q = p \/ Before(q, p)
      <3>1. CASE q = p
        BY <3>1
      <3>2. CASE q # p
        <4>1. q \in Places(g, 0) /\ Rec(g, q).key = w.key
          BY <1>11, <1>13, <2>2, <3>2 DEF Counts
        <4> QED BY <1>11, <1>12, <3>2, <4>1, Constants
      <3> QED BY <3>1, <3>2
    <2>3. IsNewest(h, 0, w.key, p)
      BY <2>1, <2>2 DEF IsNewest
    <2> QED BY <2>1, <2>3 DEF Says
  <1>20. ScanInv'
    <2>1. EndsLast(RunLog') /\
          \A k \in Keys, q \in Positions : Counts(RunLog, 0, k, q) => Counts(RunLog', 0, k, q)
      BY <1>2, <1>13
    <2>2. \A b \in Clients : pc[b] # "apply"
      BY <1>1, <1>6
    <2> QED BY <1>1, <1>4, <1>5, <2>1, <2>2, AppendKeepsScan
  <1>21. NextInv'
    BY <1>1 DEF NextInv
  <1> QED BY <1>2, <1>11, <1>15, <1>16, <1>18, <1>19, <1>20, <1>21, <1>22 DEF LogInv

LEMMA CommitIndexKeepsLog ==
    ASSUME LogApartInv, NEW c \in BatchClients, CommitIndex(c)
    PROVE  LogInv' /\ RunLog' = RunLog
  <1>1. /\ phase = "open" /\ phase' = "open" /\ pc[c] = "apply" /\ c \in Clients
        /\ UNCHANGED <<exists, present, data, hint, fin, dirPath, dirOf, writeOff,
                       seqNo, write, mpc, nonMergeFileId, toScan>>
        /\ pc' = [pc EXCEPT ![c] = "idle"]
        /\ UpdateIndex(write[c], write[c].pos)
    BY Constants DEF CommitIndex, dirs, options, merge
  <1>2. /\ InstanceType /\ LockInv /\ PlacesInv /\ BatchInv /\ IndexTold /\ CopiesInv /\ ScanInv
    BY TypeIs DEF LogApartInv, LogInv, ApartInv
  <1>3. PICK g, w, p, e : /\ g = RunLog /\ w = write[c] /\ p = w.pos
                          /\ e = IF w.val = Tombstone THEN NoPos ELSE p
    OBVIOUS
  <1>4. /\ w.key \in Keys /\ p \in Positions /\ Rec(g, p).val = w.val /\ IsNewest(g, 0, w.key, p)
        /\ mpc # "none" => ~NoneCounts(g, nonMergeFileId, w.key)
        /\ dirPath > 0 /\ fin[dirPath] \in FileIds => ~NoneCounts(g, fin[dirPath], w.key)
    BY <1>1, <1>3, ApplyingCounts
  <1>5. index'[w.key] = e /\ \A k \in Keys : k # w.key => index'[k] = index[k]
    BY <1>1, <1>2, <1>3, <1>4 DEF UpdateIndex, InstanceType
  <1>6. \A b \in Clients : pc'[b] = "idle"
    <2>1. \A b \in Clients : b # c => pc[b] = "idle"
      BY <1>1, <1>2 DEF LockInv
    <2> QED BY <1>1, <1>2, <2>1 DEF InstanceType
  <1>7. /\ RunLog' = g /\ SwapLog' = SwapLog /\ SwapHint' = SwapHint /\ From0' = From0
        /\ (Waiting' <=> Waiting) /\ OpenFiles' = OpenFiles
    BY <1>1, <1>3 DEF RunLog, SwapLog, SwapHint, From0, Waiting, OpenFiles
  <1>8. LockInv'
    BY <1>6 DEF LockInv
  <1>9. PlacesInv'
    BY <1>1, <1>2, <1>7 DEF PlacesInv
  <1>10. CopiesInv'
    BY <1>1, <1>2, <1>7 DEF CopiesInv
  <1>11. BatchInv'
    BY <1>1, <1>2, <1>3, <1>6, <1>7 DEF BatchInv
  <1>12. IndexTold'
    <2>1. Tells(g, w.key, e)
      BY <1>3, <1>4 DEF Tells
    <2>2. ASSUME NEW k \in Keys, k # w.key
          PROVE  Tells(g, k, index[k])
      BY <1>1, <1>2, <1>3, <2>2 DEF IndexTold, Applying, LockInv
    <2>3. \A k \in Keys : Tells(g, k, index'[k])
      BY <1>5, <2>1, <2>2
    <2> QED BY <1>7, <2>3 DEF IndexTold
  <1>13. ScanInv'
    <2>1. ASSUME NEW k \in Keys, k # w.key
          PROVE  index'[k] = index[k] /\ (Copied(k)' <=> Copied(k))
      BY <1>1, <1>3, <1>5, <1>7, <2>1 DEF Copied
    <2> QED BY <1>1, <1>2, <1>3, <1>4, <1>7, <2>1 DEF ScanInv
  <1>14. NextInv'
    BY <1>1 DEF NextInv
  <1> QED BY <1>8, <1>9, <1>10, <1>11, <1>12, <1>13, <1>14, <1>3, <1>7 DEF LogInv

-----------------------------------------------------------------------------
\* The end of an instance

LEMMA OffIs ==
    ASSUME phase' # "open", mpc' = "none", \A c \in Clients : pc'[c] = "idle"
    PROVE  LockInv' /\ BatchInv' /\ IndexTold' /\ ScanInv'
  BY DEF LockInv, BatchInv, IndexTold, ScanInv

\* What Open will find of a file, but for the merged ones.
LEMMA NextShares ==
    ASSUME LogApartInv, phase = "open", NEW f \in FileIds
    PROVE  \/ Waiting /\ f < fin[1]
           \/ NextLog[f] = RunLog[f]
           \/ /\ NextLog[f] = <<>> /\ dirOf[f] \in Dirs
              /\ dirOf[f] # 0 /\ (Waiting => dirOf[f] # 1)
  <1>1. TypeOK /\ DirsType /\ InstanceType /\ FilesInv /\ OpenInv /\ PlacesInv
    BY TypeIs DEF LogApartInv, LogInv, ApartInv
  <1>2. /\ 0 \in Dirs /\ (Waiting => 1 \in Dirs /\ fin[1] \in Nat)
        /\ f \in Nat /\ 0 # NoDir /\ 1 # NoDir
    BY Sizes DEF Waiting
  <1>3. dirOf[f] \in Dirs \/ dirOf[f] = NoDir
    BY <1>1 DEF InstanceType
  <1>4. /\ f \in present[0] => dirOf[f] = 0
        /\ f \notin present[0] => data[0][f] = <<>>
        /\ dirOf[f] = NoDir => f \notin present[0] /\ RunLog[f] = <<>>
        /\ dirOf[f] # NoDir => RunLog[f] = data[dirOf[f]][f] /\ f \in present[dirOf[f]]
    <2>1. f \in present[0] => dirOf[f] = 0
      BY <1>1 DEF PlacesInv
    <2>2. dirOf[f] # NoDir => f \in present[dirOf[f]]
      BY <1>1 DEF OpenInv, OpenFiles
    <2> QED BY <1>1, <1>2, <2>1, <2>2 DEF FilesInv, RunLog
  <1>5. \/ data[0][f] = RunLog[f]
        \/ data[0][f] = <<>> /\ dirOf[f] \in Dirs /\ dirOf[f] # 0
    BY <1>3, <1>4
  <1>6. CASE ~Waiting
    BY <1>5, <1>6 DEF NextLog
  <1>7. CASE Waiting /\ ~(f < fin[1])
    <2>1. f >= fin[1]
      BY <1>2, <1>7
    <2>2. CASE f \in present[1]
      <3>1. dirOf[f] = 1
        BY <1>1, <1>7, <2>1, <2>2 DEF PlacesInv
      <3>2. RunLog[f] = data[1][f]
        BY <1>2, <1>4, <3>1
      <3> QED BY <1>7, <2>2, <3>2 DEF NextLog, SwapLog
    <2>3. CASE f \notin present[1]
      <3>1. NextLog[f] = data[0][f]
        BY <1>7, <2>3 DEF NextLog, SwapLog
      <3>2. dirOf[f] # 1
        BY <1>2, <1>4, <2>3
      <3> QED BY <1>5, <3>1, <3>2
    <2> QED BY <2>2, <2>3
  <1> QED BY <1>6, <1>7

\* A log of which each file with a batch is that of another one.
LEMMA EndsLastOf ==
    ASSUME NEW g, NEW h, EndsLast(g),
           \A p \in Places(h, 0) : Rec(h, p).seq # 0 => h[p.fid] = g[p.fid]
    PROVE  EndsLast(h)
  <1>1. ASSUME NEW p \in Places(h, 0), Rec(h, p).seq # 0
        PROVE  p \in Places(g, 0) /\ Rec(h, p) = Rec(g, p)
    BY <1>1, SharedFile
  <1> QED BY <1>1 DEF EndsLast

LEMMA StopKeepsLog ==
    ASSUME LogApartInv, phase \in {"open", "load"}, Stop, UNCHANGED dirs
    PROVE  LogInv' /\ NextLog' = NextLog
  <1>1. /\ phase' = "closed" /\ dirPath' = 0 /\ mpc' = "none"
        /\ \A c \in Clients : pc'[c] = "idle"
        /\ UNCHANGED <<exists, present, data, hint, fin>>
    BY DEF Stop, dirs
  <1>2. /\ TypeOK /\ DirsType /\ InstanceType /\ FilesInv /\ PlacesInv /\ BatchInv /\ CopiesInv
        /\ NextInv
    BY TypeIs DEF LogApartInv, LogInv, ApartInv
  <1>3. LockInv' /\ BatchInv' /\ IndexTold' /\ ScanInv'
    BY <1>1, OffIs
  <1>4. /\ SwapLog' = SwapLog /\ SwapHint' = SwapHint /\ From0' = From0 /\ (Waiting' <=> Waiting)
        /\ NextLog' = NextLog
    <2>1. (Waiting' <=> Waiting) /\ From0' = From0
      BY <1>1 DEF Waiting, From0
    <2>2. SwapLog' = SwapLog /\ SwapHint' = SwapHint
      BY <1>1 DEF SwapLog, SwapHint
    <2> QED BY <1>1, <2>1, <2>2 DEF NextLog
  <1>5. PlacesInv'
    BY <1>1, <1>2, <1>4 DEF PlacesInv
  <1>6. CopiesInv'
    BY <1>1, <1>2, <1>4 DEF CopiesInv
  <1>7. NextInv'
    <2>1. CASE phase = "load"
      BY <1>2, <1>4, <2>1 DEF NextInv
    <2>2. CASE phase = "open"
      <3>1. PICK g, h : g = RunLog /\ h = NextLog
        OBVIOUS
      <3>2. EndsLast(g)
        BY <1>2, <2>2, <3>1 DEF BatchInv
      <3>3. ASSUME NEW p \in Places(h, 0), Rec(h, p).seq # 0
            PROVE  h[p.fid] = g[p.fid]
        <4>1. p \in Positions /\ p.fid \in FileIds /\ p.off \in Nat /\ p.off < Len(h[p.fid])
          BY Sizes DEF Places
        <4>2. ~(Waiting /\ p.fid < fin[1])
          BY <1>2, <3>1, <3>3 DEF CopiesInv, Copies, NextLog
        <4>3. h[p.fid] # <<>>
          BY <4>1
        <4> QED BY <2>2, <3>1, <4>1, <4>2, <4>3, NextShares
      <3>4. EndsLast(h)
        BY <3>2, <3>3, EndsLastOf
      <3> QED BY <1>4, <3>1, <3>4 DEF NextInv
    <2> QED BY <2>1, <2>2
  <1> QED BY <1>3, <1>4, <1>5, <1>6, <1>7 DEF LogInv

LEMMA CrashKeepsLog ==
    ASSUME LogApartInv, "swap" \notin Faults, ProcessCrash
    PROVE  LogInv' /\ NextLog' = NextLog
  <1>1. TypeOK
    BY DEF LogApartInv, ApartInv
  <1>2. phase \in {"open", "load"}
    BY <1>1 DEF ProcessCrash, Swapping, TypeOK
  <1> QED BY <1>2, StopKeepsLog DEF ProcessCrash

-----------------------------------------------------------------------------
\* Open before Load: what it will load stays as it is

LEMMA OffStep ==
    ASSUME LogApartInv, phase # "open", phase' # "open", OpenUnchanged, NextLog' = NextLog,
           phase' \in {"load", "remove"} => ~Waiting',
           Waiting' => 1 \in exists' /\ (phase' # "move" => hint'[1] # NoHint),
           phase' \notin {"delete", "move"} => Copies(data'[0], hint'[0], From0'),
           fin'[0] \in FileIds \cup {NoFile},
           phase' \notin {"delete", "move"} /\ fin'[0] # NoFile => fin'[0] \in present'[0],
           Waiting' => Copies(SwapLog', SwapHint', fin'[1])
    PROVE  LogInv'
  <1>1. /\ mpc' = "none" /\ \A c \in Clients : pc'[c] = "idle"
    BY DEF LogApartInv, ApartInv, ClosedInv, OpenUnchanged
  <1>2. LockInv' /\ BatchInv' /\ IndexTold' /\ ScanInv'
    BY <1>1, OffIs
  <1>3. PlacesInv'
    BY <1>1 DEF PlacesInv
  <1>4. CopiesInv'
    BY <1>1 DEF CopiesInv
  <1>5. NextInv'
    BY DEF LogApartInv, LogInv, NextInv
  <1> QED BY <1>2, <1>3, <1>4, <1>5 DEF LogInv

LEMMA OpenDBKeepsLog ==
    ASSUME LogApartInv, OpenDB
    PROVE  LogInv' /\ NextLog' = NextLog
  <1>1. /\ phase = "closed"
        /\ phase' = IF 1 \notin exists THEN "load"
                    ELSE IF fin[1] = NoFile THEN "remove" ELSE "delete"
        /\ UNCHANGED <<exists, present, data, hint, fin>>
        /\ OpenUnchanged
    BY DEF OpenDB, dirs, options, calls, merge, history, OpenUnchanged
  <1>2. PlacesInv /\ CopiesInv
    BY DEF LogApartInv, LogInv
  <1>3. /\ SwapLog' = SwapLog /\ SwapHint' = SwapHint /\ From0' = From0 /\ (Waiting' <=> Waiting)
        /\ NextLog' = NextLog
    <2>1. (Waiting' <=> Waiting) /\ From0' = From0
      BY <1>1 DEF Waiting, From0
    <2>2. SwapLog' = SwapLog /\ SwapHint' = SwapHint
      BY <1>1 DEF SwapLog, SwapHint
    <2> QED BY <1>1, <2>1, <2>2 DEF NextLog
  <1>4. phase' \in {"load", "remove"} => ~Waiting'
    <2>1. NoFile \notin FileIds
      BY Sizes
    <2>2. fin[1] = NoFile => ~Waiting
      BY <2>1 DEF Waiting
    <2> QED BY <1>1, <1>2, <1>3, <2>2 DEF PlacesInv
  <1>5. Waiting' => 1 \in exists' /\ (phase' # "move" => hint'[1] # NoHint)
    BY <1>1, <1>2, <1>3 DEF PlacesInv
  <1>6. /\ Copies(data'[0], hint'[0], From0') /\ fin'[0] \in FileIds \cup {NoFile}
        /\ fin'[0] # NoFile => fin'[0] \in present'[0]
        /\ Waiting' => Copies(SwapLog', SwapHint', fin'[1])
    BY <1>1, <1>2, <1>3 DEF CopiesInv
  <1> QED BY <1>1, <1>3, <1>4, <1>5, <1>6, OffStep

\* A merge that is being swapped in.
LEMMA SwapIs ==
    ASSUME LogApartInv, phase \in {"delete", "move"}
    PROVE  /\ 1 \in exists /\ 1 \in Dirs /\ 0 \in Dirs /\ fin[1] \in FileIds /\ Waiting
           /\ fin[1] \in present[0] /\ NextLog = SwapLog
           /\ Copies(SwapLog, SwapHint, fin[1]) /\ fin[0] \in FileIds \cup {NoFile}
           /\ phase = "delete" => hint[1] # NoHint
  <1>1. DirsType /\ SwapInv /\ PlacesInv /\ CopiesInv
    BY TypeIs DEF LogApartInv, LogInv, ApartInv
  <1>2. 1 \in exists /\ fin[1] \in FileIds /\ 1 \in Dirs
    BY <1>1 DEF SwapInv, DirsType
  <1>3. MaxDir > 0 /\ 0 \in Dirs
    BY <1>2, Sizes
  <1>4. Waiting
    BY <1>2, <1>3 DEF Waiting
  <1>5. fin[1] \in present[0]
    BY <1>1, <1>2, <1>3 DEF SwapInv
  <1>6. Copies(SwapLog, SwapHint, fin[1]) /\ fin[0] \in FileIds \cup {NoFile}
    BY <1>1, <1>4 DEF CopiesInv
  <1>7. phase = "delete" => hint[1] # NoHint
    BY <1>1, <1>4 DEF PlacesInv
  <1> QED BY <1>2, <1>3, <1>4, <1>5, <1>6, <1>7 DEF NextLog

\* A step of the swap before the last one.
LEMMA SwapStepKeepsLog ==
    ASSUME LogApartInv, phase \in {"delete", "move"}, phase' \in {"delete", "move"},
           OpenUnchanged, exists' = exists, fin' = fin, SwapHint' = SwapHint,
           phase' # "move" => hint'[1] # NoHint,
           \A f \in FileIds : SwapLog'[f] = SwapLog[f]
    PROVE  LogInv' /\ NextLog' = NextLog
  <1>1. /\ 1 \in exists /\ Waiting /\ NextLog = SwapLog
        /\ Copies(SwapLog, SwapHint, fin[1]) /\ fin[0] \in FileIds \cup {NoFile}
    BY SwapIs
  <1>2. Waiting'
    BY <1>1 DEF Waiting
  <1>3. SwapLog' = SwapLog
    BY DEF SwapLog
  <1>4. NextLog' = NextLog
    BY <1>1, <1>2, <1>3 DEF NextLog
  <1>5. Copies(SwapLog', SwapHint', fin'[1])
    BY <1>1, <1>3
  <1> QED BY <1>1, <1>2, <1>4, <1>5, OffStep

LEMMA DeleteMergedKeepsLog ==
    ASSUME LogApartInv, DeleteMerged
    PROVE  LogInv' /\ NextLog' = NextLog
  <1>1. PICK g \in present[0] :
            /\ g < fin[1]
            /\ present' = [present EXCEPT ![0] = @ \ {g}]
            /\ data' = [data EXCEPT ![0][g] = <<>>]
    BY DEF DeleteMerged
  <1>2. /\ phase = "delete" /\ phase' = "delete"
        /\ exists' = exists /\ hint' = hint /\ fin' = fin
        /\ OpenUnchanged
    BY DEF DeleteMerged, options, calls, merge, history, OpenUnchanged
  <1>3. DirsType
    BY TypeIs DEF LogApartInv, ApartInv
  <1>4. 1 \in Dirs /\ 0 \in Dirs /\ hint[1] # NoHint
    BY <1>2, SwapIs
  <1>5. /\ \A f \in FileIds : f # g => data'[0][f] = data[0][f]
        /\ data'[1] = data[1] /\ present'[1] = present[1]
    BY <1>1, <1>3, <1>4 DEF DirsType
  <1>6. ASSUME NEW f \in FileIds
        PROVE  SwapLog'[f] = SwapLog[f]
    <2>1. SwapLog[f] = IF f \in present[1] THEN data[1][f]
                       ELSE IF f < fin[1] THEN <<>> ELSE data[0][f]
      BY <1>2 DEF SwapLog
    <2>2. SwapLog'[f] = IF f \in present'[1] THEN data'[1][f]
                        ELSE IF f < fin[1] THEN <<>> ELSE data'[0][f]
      BY <1>2 DEF SwapLog
    <2>3. f = g => f < fin[1]
      BY <1>1
    <2> QED BY <1>5, <2>1, <2>2, <2>3
  <1>7. SwapHint' = SwapHint
    BY <1>2, <1>4 DEF SwapHint
  <1> QED BY <1>2, <1>4, <1>6, <1>7, SwapStepKeepsLog

\* The files that could be seen again are gone.
LEMMA MergedDeletedKeepsLog ==
    ASSUME LogApartInv, MergedDeleted
    PROVE  LogInv' /\ NextLog' = NextLog
  <1>1. /\ phase = "delete" /\ phase' = "move" /\ \A f \in present[0] : f >= fin[1]
        /\ UNCHANGED <<exists, present, data, hint, fin>>
        /\ OpenUnchanged
    BY DEF MergedDeleted, dirs, options, calls, merge, history, OpenUnchanged
  <1>2. FilesInv
    BY DEF LogApartInv, ApartInv
  <1>3. 1 \in Dirs /\ 0 \in Dirs /\ hint[1] # NoHint /\ fin[1] \in Nat
    BY <1>1, SwapIs, Sizes
  <1>4. ASSUME NEW f \in FileIds
        PROVE  SwapLog'[f] = SwapLog[f]
    <2>1. SwapLog[f] = IF f \in present[1] THEN data[1][f]
                       ELSE IF f < fin[1] THEN <<>> ELSE data[0][f]
      BY <1>1 DEF SwapLog
    <2>2. SwapLog'[f] = IF f \in present[1] THEN data[1][f] ELSE data[0][f]
      BY <1>1 DEF SwapLog
    <2>3. f < fin[1] => data[0][f] = <<>>
      <3>1. f < fin[1] => ~(f >= fin[1])
        BY <1>3, Sizes
      <3> QED BY <1>1, <1>2, <1>3, <3>1 DEF FilesInv
    <2> QED BY <2>1, <2>2, <2>3
  <1>5. SwapHint' = SwapHint
    BY <1>1, <1>3 DEF SwapHint
  <1> QED BY <1>1, <1>4, <1>5, SwapStepKeepsLog

LEMMA MoveDataFileKeepsLog ==
    ASSUME LogApartInv, MoveDataFile
    PROVE  LogInv' /\ NextLog' = NextLog
  <1>1. PICK f : f = CHOOSE g \in present[1] : \A o \in present[1] : g =< o
    OBVIOUS
  <1>2. /\ phase = "move" /\ phase' = "move" /\ present[1] # {}
        /\ present' = [present EXCEPT ![0] = @ \cup {f}, ![1] = @ \ {f}]
        /\ data' = [data EXCEPT ![0][f] = data[1][f], ![1][f] = <<>>]
        /\ exists' = exists /\ hint' = hint /\ fin' = fin
        /\ OpenUnchanged
    BY <1>1 DEF MoveDataFile, options, calls, merge, history, OpenUnchanged
  <1>3. DirsType /\ FilesInv
    BY TypeIs DEF LogApartInv, ApartInv
  <1>4. 1 \in Dirs /\ 0 \in Dirs
    BY <1>2, SwapIs
  <1>5. f \in present[1] /\ f \in FileIds
    <2>1. PICK S : S = present[1]
      OBVIOUS
    <2>2. S \subseteq FileIds /\ S # {}
      BY <1>2, <1>3, <1>4, <2>1 DEF DirsType
    <2>3. f \in S
      BY <1>1, <2>1, <2>2, SmallestFile
    <2> QED BY <2>1, <2>2, <2>3
  <1>6. /\ data'[0][f] = data[1][f]
        /\ \A g \in FileIds : g # f => data'[0][g] = data[0][g] /\ data'[1][g] = data[1][g]
    <2>1. PICK s : s = data[1][f]
      OBVIOUS
    <2>2. s \in Seq(Records)
      BY <1>3, <1>4, <1>5, <2>1 DEF DirsType
    <2>3. PICK x : x = [data EXCEPT ![0][f] = s]
      OBVIOUS
    <2>4. /\ x \in [Dirs -> [FileIds -> Seq(Records)]] /\ x[0][f] = s
          /\ \A d \in Dirs, g \in FileIds : g # f => x[d][g] = data[d][g]
      BY <1>3, <1>4, <1>5, <2>2, <2>3 DEF DirsType
    <2>5. data' = [x EXCEPT ![1][f] = <<>>]
      BY <1>2, <2>1, <2>3
    <2>6. /\ data'[0][f] = x[0][f]
          /\ \A d \in Dirs, g \in FileIds : g # f => data'[d][g] = x[d][g]
      BY <1>4, <1>5, <2>4, <2>5
    <2> QED BY <1>4, <1>5, <2>1, <2>4, <2>6
  <1>7. present'[1] = present[1] \ {f}
    <2>1. PICK x : x = [present EXCEPT ![0] = @ \cup {f}]
      OBVIOUS
    <2>2. x \in [Dirs -> SUBSET FileIds] /\ x[1] = present[1]
      BY <1>3, <1>4, <1>5, <2>1 DEF DirsType
    <2>3. present' = [x EXCEPT ![1] = @ \ {f}]
      BY <1>2, <2>1
    <2> QED BY <1>4, <2>2, <2>3
  <1>8. ASSUME NEW g \in FileIds
        PROVE  SwapLog'[g] = SwapLog[g]
    <2>1. SwapLog[g] = IF g \in present[1] THEN data[1][g] ELSE data[0][g]
      BY <1>2 DEF SwapLog
    <2>2. SwapLog'[g] = IF g \in present'[1] THEN data'[1][g] ELSE data'[0][g]
      BY <1>2 DEF SwapLog
    <2> QED BY <1>5, <1>6, <1>7, <2>1, <2>2
  <1>9. SwapHint' = SwapHint
    BY <1>2 DEF SwapHint
  <1> QED BY <1>2, <1>8, <1>9, SwapStepKeepsLog

LEMMA MoveHintKeepsLog ==
    ASSUME LogApartInv, MoveHint
    PROVE  LogInv' /\ NextLog' = NextLog
  <1>1. /\ phase = "move" /\ phase' = "move" /\ hint[1] # NoHint
        /\ hint' = [hint EXCEPT ![0] = hint[1], ![1] = NoHint]
        /\ exists' = exists /\ present' = present /\ data' = data /\ fin' = fin
        /\ OpenUnchanged
    BY DEF MoveHint, options, calls, merge, history, OpenUnchanged
  <1>2. DirsType /\ 1 \in Dirs /\ 0 \in Dirs
    BY <1>1, SwapIs, TypeIs DEF LogApartInv, ApartInv
  <1>3. hint'[0] = hint[1] /\ hint'[1] = NoHint
    <2>1. PICK h : h = hint[1]
      OBVIOUS
    <2>2. PICK x : x = [hint EXCEPT ![0] = h]
      OBVIOUS
    <2>3. h \in [Keys -> Positions \cup {NoPos}]
      BY <1>1, <1>2, <2>1 DEF DirsType
    <2>4. x \in [Dirs -> [Keys -> Positions \cup {NoPos}] \cup {NoHint}] /\ x[0] = h
      BY <1>2, <2>2, <2>3 DEF DirsType
    <2>5. hint' = [x EXCEPT ![1] = NoHint]
      BY <1>1, <2>1, <2>2
    <2> QED BY <1>2, <2>1, <2>4, <2>5
  <1>4. SwapHint' = SwapHint
    BY <1>1, <1>3 DEF SwapHint
  <1>5. \A f \in FileIds : SwapLog'[f] = SwapLog[f]
    BY <1>1 DEF SwapLog
  <1> QED BY <1>1, <1>4, <1>5, SwapStepKeepsLog

LEMMA MoveFinishedKeepsLog ==
    ASSUME LogApartInv, MoveFinished
    PROVE  LogInv' /\ NextLog' = NextLog
  <1>1. /\ phase = "move" /\ phase' = "remove" /\ present[1] = {} /\ hint[1] = NoHint
        /\ fin' = [fin EXCEPT ![0] = fin[1], ![1] = NoFile]
        /\ exists' = exists /\ present' = present /\ data' = data /\ hint' = hint
        /\ OpenUnchanged
    BY DEF MoveFinished, options, calls, merge, history, OpenUnchanged
  <1>2. /\ DirsType /\ 1 \in Dirs /\ 0 \in Dirs /\ fin[1] \in FileIds /\ fin[1] \in present[0]
        /\ NextLog = SwapLog /\ Copies(SwapLog, SwapHint, fin[1])
    BY <1>1, SwapIs, TypeIs DEF LogApartInv, ApartInv
  <1>3. fin'[0] = fin[1] /\ fin'[1] = NoFile
    <2>1. PICK n : n = fin[1]
      OBVIOUS
    <2>2. PICK x : x = [fin EXCEPT ![0] = n]
      OBVIOUS
    <2>3. x \in [Dirs -> FileIds \cup {NoFile, Empty}] /\ x[0] = n
      BY <1>2, <2>1, <2>2 DEF DirsType
    <2>4. fin' = [x EXCEPT ![1] = NoFile]
      BY <1>1, <2>1, <2>2
    <2> QED BY <1>2, <2>1, <2>3, <2>4
  <1>4. ~Waiting' /\ NoFile \notin FileIds
    BY <1>3, Sizes DEF Waiting
  <1>5. SwapLog = data[0]
    <2>1. PICK D : D = data[0]
      OBVIOUS
    <2>2. D = [f \in FileIds |-> D[f]]
      BY <1>2, <2>1 DEF DirsType
    <2>3. SwapLog = [f \in FileIds |-> D[f]]
      BY <1>1, <2>1 DEF SwapLog
    <2> QED BY <2>1, <2>2, <2>3
  <1>6. NextLog' = NextLog
    BY <1>1, <1>2, <1>4, <1>5 DEF NextLog
  <1>7. From0' = fin[1]
    BY <1>2, <1>3, <1>4 DEF From0
  <1>8. SwapHint = hint[0]
    BY <1>1 DEF SwapHint
  <1>9. Copies(data'[0], hint'[0], From0')
    BY <1>1, <1>2, <1>5, <1>7, <1>8
  <1> QED BY <1>1, <1>2, <1>3, <1>4, <1>6, <1>9, OffStep

\* The merge directory is removed without a finished merge in it.
LEMMA RemoveKeepsLog ==
    ASSUME LogApartInv, phase \in {"remove", "closed"}, phase' \in {"load", "closed"},
           1 \in exists, ~Waiting, RemoveMergeDir, OpenUnchanged
    PROVE  LogInv' /\ NextLog' = NextLog
  <1>1. /\ exists' = exists \ {1}
        /\ present' = [present EXCEPT ![1] = {}]
        /\ data' = [data EXCEPT ![1] = [f \in FileIds |-> <<>>]]
        /\ fin' = [fin EXCEPT ![1] = NoFile]
        /\ hint' = [hint EXCEPT ![1] = NoHint]
    BY DEF RemoveMergeDir, Emptied
  <1>2. DirsType /\ CopiesInv
    BY TypeIs DEF LogApartInv, LogInv, ApartInv
  <1>3. 1 \in Dirs /\ 0 \in Dirs /\ NoFile \notin FileIds
    <2>1. 1 \in Dirs
      BY <1>2 DEF DirsType
    <2> QED BY <2>1, Sizes
  <1>4. /\ present'[0] = present[0] /\ data'[0] = data[0] /\ hint'[0] = hint[0]
        /\ fin'[0] = fin[0] /\ fin'[1] = NoFile
    BY <1>1, <1>2, <1>3 DEF DirsType
  <1>5. ~Waiting' /\ From0' = From0
    BY <1>3, <1>4 DEF Waiting, From0
  <1>6. NextLog' = NextLog
    BY <1>4, <1>5 DEF NextLog
  <1>7. /\ Copies(data'[0], hint'[0], From0') /\ fin'[0] \in FileIds \cup {NoFile}
        /\ fin'[0] # NoFile => fin'[0] \in present'[0]
    BY <1>2, <1>4, <1>5 DEF CopiesInv
  <1> QED BY <1>5, <1>6, <1>7, OffStep

LEMMA RemoveLeftOverKeepsLog ==
    ASSUME LogApartInv, RemoveLeftOver
    PROVE  LogInv' /\ NextLog' = NextLog
  <1>1. phase = "remove" /\ phase' = "load" /\ RemoveMergeDir /\ OpenUnchanged
    BY DEF RemoveLeftOver, options, calls, merge, history, OpenUnchanged
  <1>2. 1 \in exists /\ ~Waiting
    BY <1>1 DEF LogApartInv, LogInv, ApartInv, SwapInv, PlacesInv
  <1> QED BY <1>1, <1>2, RemoveKeepsLog

LEMMA OpenRefusedKeepsLog ==
    ASSUME LogApartInv, OpenRefused
    PROVE  LogInv' /\ NextLog' = NextLog
  <1>1. /\ phase = "closed" /\ phase' = "closed" /\ 1 \in exists /\ fin[1] = Empty
        /\ RemoveMergeDir /\ OpenUnchanged
    BY DEF OpenRefused, options, calls, merge, history, OpenUnchanged
  <1>2. ~Waiting
    <2>1. Empty \notin FileIds
      BY Sizes
    <2> QED BY <1>1, <2>1 DEF Waiting
  <1> QED BY <1>1, <1>2, RemoveKeepsLog

-----------------------------------------------------------------------------
\* Load

LEMMA LargestSeqIs ==
    ASSUME NEW S, S \subseteq 0 .. MaxSeqNo, 0 \in S,
           NEW m, m = CHOOSE s \in S : \A t \in S : t =< s
    PROVE  m \in S /\ \A t \in S : t =< m
  <1>1. MaxSeqNo \in Nat /\ S \subseteq Nat /\ S # {} /\ \A x \in S : x =< MaxSeqNo
    BY Sizes
  <1>2. \E s \in S : \A t \in S : t =< s
    BY <1>1, LargestOf
  <1> QED BY <1>2

\* What Load makes of the log it finds.
LEMMA LoadIs ==
    ASSUME LogApartInv, Load
    PROVE  /\ phase = "load" /\ phase' = "open" /\ ~Waiting
           /\ RunLog' = data[0] /\ NextLog = data[0]
           /\ \A f \in present[0] : dirOf'[f] = 0
           /\ \A k \in Keys : Tells(data[0], k, index'[k])
           /\ \A p \in Places(data[0], 0) : Rec(data[0], p).seq =< seqNo'
  <1>1. PICK h, from, hinted, seqs, D :
            /\ h = [f \in FileIds |-> IF f \in present[0] THEN 0 ELSE NoDir]
            /\ from = (IF fin[0] = NoFile THEN 0 ELSE fin[0])
            /\ hinted = (IF hint[0] = NoHint THEN NoHintEntries ELSE hint[0])
            /\ seqs = {At(h, p).seq : p \in LogOf(h, from)} \cup {0}
            /\ D = data[0]
    OBVIOUS
  <1>2. /\ phase = "load" /\ phase' = "open" /\ dirOf' = h /\ data' = data
        /\ \A k \in Keys : index'[k] = IF Effective(h, from, k) = {} THEN hinted[k]
                                       ELSE IndexEntry(h, Last(Effective(h, from, k)))
        /\ seqNo' = CHOOSE s \in seqs : \A t \in seqs : t =< s
    BY <1>1 DEF Load, dirs
  <1>3. /\ TypeOK /\ DirsType /\ InstanceType /\ FilesInv /\ ClosedInv /\ PlacesInv /\ CopiesInv
        /\ NextInv /\ 0 \in Dirs
    BY TypeIs, Sizes DEF LogApartInv, LogInv, ApartInv
  <1>4. /\ h \in [FileIds -> Dirs \cup {NoDir}]
        /\ \A f \in FileIds : f \in present[0] => h[f] = 0
        /\ \A f \in FileIds : f \notin present[0] => h[f] = NoDir
        /\ present[0] \subseteq FileIds
    BY <1>1, <1>3, Sizes DEF DirsType
  <1>5. ~Waiting /\ NextLog = D
    BY <1>1, <1>2, <1>3 DEF PlacesInv, NextLog
  <1>6. LogView(data, h) = D
    <2>1. ASSUME NEW f \in FileIds
          PROVE  (IF h[f] = NoDir THEN <<>> ELSE data[h[f]][f]) = D[f]
      <3>1. CASE f \in present[0]
        <4>1. h[f] = 0 /\ 0 # NoDir
          BY <1>4, <3>1
        <4> QED BY <1>1, <4>1
      <3>2. CASE f \notin present[0]
        BY <1>1, <1>3, <1>4, <3>2 DEF FilesInv
      <3> QED BY <3>1, <3>2
    <2>2. D = [f \in FileIds |-> D[f]]
      BY <1>1, <1>3 DEF DirsType
    <2>3. LogView(data, h) = [f \in FileIds |-> D[f]]
      BY <2>1 DEF LogView
    <2> QED BY <2>2, <2>3
  <1>7. RunLog' = D
    <2>1. RunLog' = LogView(data, h)
      BY <1>2 DEF RunLog, LogView
    <2> QED BY <1>6, <2>1
  <1>8. IsLog(D) /\ EndsLast(D)
    <2>1. IsLog(D)
      BY <1>3, <1>4, <1>6, ViewIs
    <2>2. EndsLast(D)
      BY <1>2, <1>3, <1>5 DEF NextInv
    <2> QED BY <2>1, <2>2
  <1>9. Copies(D, hint[0], from) /\ from \in Nat
    <2>1. from = From0 /\ Copies(D, hint[0], from)
      BY <1>1, <1>2, <1>3 DEF From0, CopiesInv
    <2>2. from \in Nat
      BY <1>1, <1>3, Sizes DEF CopiesInv
    <2> QED BY <2>1, <2>2
  <1>10. /\ \A k : Effective(h, from, k) = {p \in Positions : Counts(D, from, k, p)}
         /\ LogOf(h, from) = Places(D, from)
         /\ \A p \in Places(D, from) : At(h, p) = Rec(D, p)
    <2>1. ASSUME NEW k
          PROVE  Effective(h, from, k) = {p \in Positions : Counts(D, from, k, p)}
      BY <1>6, EffectiveIs
    <2>2. LogOf(h, from) = Places(D, from) /\ \A p \in Places(D, from) : At(h, p) = Rec(D, p)
      BY <1>6, LogOfIs
    <2> QED BY <2>1, <2>2
  <1>11. ASSUME NEW k \in Keys
         PROVE  Tells(D, k, index'[k])
    <2>1. PICK S : S = Effective(h, from, k) /\ S = {p \in Positions : Counts(D, from, k, p)}
      BY <1>10
    <2>2. CASE S = {}
      <3>1. NoneCounts(D, from, k)
        BY <2>1, <2>2 DEF NoneCounts
      <3>2. PICK t : t = hint[0]
        OBVIOUS
      <3>3. /\ t = NoHint \/ t[k] = NoPos => NoneCounts(D, 0, k)
            /\ t # NoHint /\ t[k] # NoPos =>
                  t[k] \in Positions /\ IsNewest(D, 0, k, t[k]) /\ Rec(D, t[k]).val \in Values
        BY <1>8, <1>9, <3>1, <3>2, CopyCounts
      <3>4. index'[k] = IF t = NoHint THEN NoPos ELSE t[k]
        BY <1>1, <1>2, <2>1, <2>2, <3>2 DEF NoHintEntries
      <3>5. CASE t = NoHint \/ t[k] = NoPos
        <4>1. index'[k] = NoPos /\ NoneCounts(D, 0, k)
          BY <3>3, <3>4, <3>5
        <4> QED BY <4>1 DEF Tells
      <3>6. CASE t # NoHint /\ t[k] # NoPos
        <4>1. PICK p : p = t[k]
          OBVIOUS
        <4>2. /\ index'[k] = p /\ p \in Positions /\ IsNewest(D, 0, k, p)
              /\ Rec(D, p).val # Tombstone
          BY <3>3, <3>4, <3>6, <4>1, Constants
        <4> QED BY <4>2 DEF Tells
      <3> QED BY <3>5, <3>6
    <2>3. CASE S # {}
      <3>1. PICK l : l = Last(S)
        OBVIOUS
      <3>2. l \in Positions /\ IsNewest(D, from, k, l)
        BY <2>1, <2>3, <3>1, LastIsNewest
      <3>3. IsNewest(D, 0, k, l)
        BY <1>8, <1>9, <3>2, NewestFrom
      <3>4. At(h, l) = Rec(D, l)
        BY <1>10, <3>2 DEF IsNewest, Counts
      <3>5. index'[k] = IF Rec(D, l).val = Tombstone THEN NoPos ELSE l
        BY <1>2, <2>1, <2>3, <3>1, <3>4 DEF IndexEntry
      <3> QED BY <3>2, <3>3, <3>5 DEF Tells
    <2> QED BY <2>2, <2>3
  <1>12. ASSUME NEW p \in Places(D, 0)
         PROVE  Rec(D, p).seq =< seqNo'
    <2>1. /\ p.fid \in Nat /\ \A q \in Places(D, from) : Rec(D, q) \in Records
      BY <1>8, PlaceIs, Sizes
    <2>2. \A q \in Places(D, from) : Rec(D, q).seq \in 0 .. MaxSeqNo
      BY <2>1 DEF Records
    <2>3. seqs = {Rec(D, q).seq : q \in Places(D, from)} \cup {0}
      <3>1. PICK P : P = LogOf(h, from) /\ P = Places(D, from)
        BY <1>10
      <3>2. \A q \in P : At(h, q) = Rec(D, q)
        BY <1>10, <3>1
      <3>3. {At(h, q).seq : q \in P} = {Rec(D, q).seq : q \in P}
        BY <3>2
      <3>4. seqs = {At(h, q).seq : q \in P} \cup {0}
        BY <1>1, <3>1
      <3> QED BY <3>1, <3>3, <3>4
    <2>4. seqs \subseteq 0 .. MaxSeqNo /\ 0 \in seqs
      BY <2>2, <2>3, Sizes
    <2>5. \A t \in seqs : t =< seqNo'
      BY <1>2, <2>4, LargestSeqIs
    <2>6. CASE p.fid >= from
      <3>1. p \in Places(D, from)
        BY <1>9, <2>6, PlacesFrom
      <3> QED BY <2>3, <2>5, <3>1
    <2>7. CASE ~(p.fid >= from)
      <3>1. p.fid < from
        BY <1>9, <2>1, <2>7
      <3>2. Rec(D, p).seq = 0
        BY <1>9, <3>1 DEF Copies
      <3> QED BY <2>4, <2>5, <3>2
    <2> QED BY <2>6, <2>7
  <1> QED BY <1>1, <1>2, <1>4, <1>5, <1>7, <1>11, <1>12

LEMMA LoadKeepsLog ==
    ASSUME LogApartInv, Load
    PROVE  LogInv'
  <1>1. /\ phase = "load" /\ phase' = "open" /\ ~Waiting
        /\ RunLog' = data[0] /\ NextLog = data[0]
        /\ \A f \in present[0] : dirOf'[f] = 0
        /\ \A k \in Keys : Tells(data[0], k, index'[k])
        /\ \A p \in Places(data[0], 0) : Rec(data[0], p).seq =< seqNo'
    BY LoadIs
  <1>2. UNCHANGED <<exists, present, data, hint, fin, dirPath, pc, mpc>>
    BY DEF Load, dirs, options, calls, merge
  <1>3. /\ CopiesInv /\ NextInv /\ dirPath = 0 /\ mpc = "none"
        /\ \A c \in Clients : pc[c] = "idle"
    BY <1>1 DEF LogApartInv, LogInv, ApartInv, ClosedInv
  <1>4. ~Waiting' /\ From0' = From0
    BY <1>1, <1>2 DEF Waiting, From0
  <1>5. LockInv'
    BY <1>2, <1>3 DEF LockInv
  <1>6. PlacesInv'
    BY <1>1, <1>2, <1>3, <1>4 DEF PlacesInv
  <1>7. BatchInv'
    <2>1. EndsLast(data[0])
      BY <1>1, <1>3 DEF NextInv
    <2> QED BY <1>1, <1>2, <1>3, <2>1 DEF BatchInv
  <1>8. IndexTold'
    BY <1>1 DEF IndexTold
  <1>9. CopiesInv'
    BY <1>1, <1>2, <1>3, <1>4 DEF CopiesInv
  <1>10. ScanInv' /\ NextInv'
    BY <1>1, <1>2, <1>3 DEF ScanInv, NextInv
  <1> QED BY <1>5, <1>6, <1>7, <1>8, <1>9, <1>10 DEF LogInv

-----------------------------------------------------------------------------
\* The invariant

LEMMA InitLog == Init => LogApartInv
  <1> SUFFICES ASSUME Init
               PROVE  LogInv
    BY InitMerge DEF LogApartInv
  <1>1. /\ data = [d \in Dirs |-> [f \in FileIds |-> <<>>]]
        /\ hint = [d \in Dirs |-> NoHint] /\ fin = [d \in Dirs |-> NoFile]
        /\ phase = "closed" /\ mpc = "none" /\ pc = [c \in Clients |-> "idle"]
    BY DEF Init
  <1>2. 0 \in Dirs /\ NoFile \notin FileIds
    BY Sizes
  <1>3. ~Waiting
    <2>1. MaxDir > 0 => 1 \in Dirs
      BY Sizes
    <2> QED BY <1>1, <1>2, <2>1 DEF Waiting
  <1>4. PICK D : D = data[0]
    OBVIOUS
  <1>5. ASSUME NEW p
        PROVE  p \notin Places(D, 0)
    <2>1. p \in Positions => p.fid \in FileIds /\ p.off \in Nat
      BY Sizes
    <2>2. p \in Positions => D[p.fid] = <<>>
      BY <1>1, <1>2, <1>4, <2>1
    <2>3. p \in Positions => Len(D[p.fid]) = 0
      BY <2>2
    <2> QED BY <2>1, <2>3 DEF Places
  <1>6. EndsLast(D) /\ Copies(D, NoHint, 0)
    BY <1>5 DEF EndsLast, Copies
  <1>7. From0 = 0 /\ hint[0] = NoHint /\ fin[0] = NoFile
    BY <1>1, <1>2 DEF From0
  <1>8. \A c \in Clients : pc[c] = "idle"
    BY <1>1
  <1>9. LockInv /\ BatchInv /\ IndexTold /\ ScanInv
    BY <1>1, <1>8 DEF LockInv, BatchInv, IndexTold, ScanInv
  <1>10. PlacesInv
    BY <1>1, <1>3 DEF PlacesInv
  <1>11. CopiesInv
    BY <1>1, <1>3, <1>4, <1>6, <1>7 DEF CopiesInv
  <1>12. NextInv
    BY <1>1, <1>3, <1>4, <1>6 DEF NextInv, NextLog
  <1> QED BY <1>9, <1>10, <1>11, <1>12 DEF LogInv

LEMMA StutterKeepsLog ==
    ASSUME LogApartInv, UNCHANGED vars
    PROVE  LogInv' /\ RunLog' = RunLog /\ NextLog' = NextLog
  <1>1. UNCHANGED <<exists, present, data, synced, hint, fin, phase, dirPath,
                    syncWrites, dirOf, writeOff, index, seqNo, mu, pc, write, mpc,
                    nonMergeFileId, toScan, mergeFile, mergeOff, kv, shared>>
    BY DEF vars, dirs, options, calls, merge, history
  <1>2. /\ SwapLog' = SwapLog /\ SwapHint' = SwapHint /\ From0' = From0 /\ (Waiting' <=> Waiting)
        /\ RunLog' = RunLog /\ OpenFiles' = OpenFiles
    BY <1>1 DEF RunLog, SwapLog, SwapHint, From0, Waiting, OpenFiles
  <1>3. NextLog' = NextLog
    BY <1>1, <1>2 DEF NextLog
  <1>4. /\ \A k \in Keys : Copied(k)' <=> Copied(k)
        /\ \A k \in Keys : Applying(k)' <=> Applying(k)
    BY <1>1, <1>2 DEF Copied, Applying
  <1>5. LockInv' /\ PlacesInv'
    BY <1>1, <1>2 DEF LogApartInv, LogInv, LockInv, PlacesInv
  <1>6. BatchInv'
    BY <1>1, <1>2 DEF LogApartInv, LogInv, BatchInv
  <1>7. IndexTold' /\ ScanInv'
    BY <1>1, <1>2, <1>4 DEF LogApartInv, LogInv, IndexTold, ScanInv
  <1>8. CopiesInv' /\ NextInv'
    BY <1>1, <1>2, <1>3 DEF LogApartInv, LogInv, CopiesInv, NextInv
  <1> QED BY <1>2, <1>3, <1>5, <1>6, <1>7, <1>8 DEF LogInv

\* No Put or Delete of its own, and of the faults a crash outside of the swap
\* and a failing call of Merge.
CommitsOnly == DirectClients = {} /\ Faults \subseteq {"crash", "merge"}

LEMMA NextKeepsLog ==
    ASSUME LogApartInv, CommitsOnly, [Next]_vars, ~shared'
    PROVE  LogApartInv'
  <1>1. DirectClients = {} /\ "swap" \notin Faults /\ "rename" \notin Faults
    BY DEF CommitsOnly
  <1>2. ApartInv'
    BY ApartKept DEF LogApartInv
  <1>3. ASSUME MergeStep
        PROVE  LogInv'
    BY <1>3, MergeStartKeepsLog, MergePrepareKeepsLog, MergeOpenKeepsLog, MergeRecordKeepsLog,
       MergeSyncKeepsLog, MergeFinishKeepsLog, MergeFailsKeepsLog DEF MergeStep
  <1>4. ASSUME SwapStep
        PROVE  LogInv'
    BY <1>1, <1>4, DeleteMergedKeepsLog, MergedDeletedKeepsLog, MoveDataFileKeepsLog,
       MoveHintKeepsLog, MoveFinishedKeepsLog, RemoveLeftOverKeepsLog, OpenRefusedKeepsLog
       DEF SwapStep, SwapFails
  <1>5. ASSUME Close \/ ProcessCrash
        PROVE  LogInv'
    BY <1>1, <1>5, StopKeepsLog, CrashKeepsLog DEF Close
  <1>6. LogInv'
    BY <1>1, <1>3, <1>4, <1>5, CommitAppendKeepsLog, CommitFinishKeepsLog, CommitIndexKeepsLog,
       SyncKeepsLog, OpenDBKeepsLog, LoadKeepsLog, StutterKeepsLog DEF Next
  <1> QED BY <1>2, <1>6 DEF LogApartInv

\* The log of the instance, the index, the copies and the log the next Open
\* will find, with any number of merges, failing calls of Merge and crashes
\* outside of the swap, for commits of any number of clients beside it, until
\* mergeDB finds a file of the running instance.
THEOREM LogInvariance ==
    ASSUME CommitsOnly
    PROVE  Spec => []LogIndInv
  <1>1. Init => LogIndInv
    BY InitLog DEF LogIndInv
  <1>2. LogIndInv /\ [Next]_vars => LogIndInv'
    BY NextKeepsLog, SharedStays DEF LogIndInv
  <1> QED BY <1>1, <1>2, PTL DEF Spec

\* What Get answers, by the log.
LEMMA AnswerIs ==
    ASSUME LogApartInv, phase = "open", NEW k \in Keys, Settled(k)
    PROVE  /\ Tells(RunLog, k, index[k])
           /\ Answer(k) = IF index[k] = NoPos THEN Tombstone ELSE Rec(RunLog, index[k]).val
  <1>1. TypeOK /\ FilesInv /\ IndexTold
    BY DEF LogApartInv, LogInv, ApartInv
  <1>2. ~Applying(k)
    BY DEF Settled, Applying
  <1>3. Tells(RunLog, k, index[k])
    BY <1>1, <1>2 DEF IndexTold
  <1>4. index[k] # NoPos =>
            index[k] \in LogOf(dirOf, 0) /\ RecAt(index[k]) = Rec(RunLog, index[k])
    <2>1. index[k] # NoPos => index[k] \in Places(RunLog, 0)
      BY <1>3, ToldEntry
    <2> QED BY <1>1, <2>1, RunIs
  <1> QED BY <1>3, <1>4 DEF Answer

\* Once Merge has finished, hint-index and the files that were not merged say
\* the same of every key as the running index, whatever was committed while
\* Merge ran (merge.go, doMerge): this is what the next Open loads.
THEOREM MergeAlwaysEquivalent ==
    ASSUME CommitsOnly
    PROVE  Spec => []MergeEquivalent
  <1>1. ASSUME LogIndInv
        PROVE  MergeEquivalent
    <2> SUFFICES ASSUME LogApartInv, phase = "open", dirPath > 0, fin[dirPath] \in FileIds,
                        NEW k \in Keys, Settled(k)
                 PROVE  MergedValue(k) = Answer(k)
      BY <1>1 DEF MergeEquivalent, LogIndInv
    <2>1. TypeOK /\ FilesInv /\ BatchInv /\ ScanInv /\ InstanceType
      BY TypeIs DEF LogApartInv, LogInv, ApartInv
    <2>2. PICK g, n, S, e, copy : /\ g = RunLog /\ n = fin[dirPath] /\ S = Effective(dirOf, n, k)
                                  /\ e = index[k] /\ copy = hint[dirPath][k]
      OBVIOUS
    <2>3. n \in Nat /\ IsLog(g) /\ EndsLast(g)
      BY <2>1, <2>2, RunIs, Sizes DEF BatchInv
    <2>4. /\ Tells(g, k, e)
          /\ Answer(k) = IF e = NoPos THEN Tombstone ELSE Rec(g, e).val
      BY <2>2, AnswerIs
    <2>5. S = {p \in Positions : Counts(g, n, k, p)}
      <3>1. RunLog = LogView(data, dirOf)
        BY <2>1, RunIs
      <3> QED BY <2>2, <3>1, EffectiveIs
    <2>6. CASE S # {}
      <3>1. PICK l : l = Last(S)
        OBVIOUS
      <3>2. l \in Positions /\ IsNewest(g, n, k, l)
        BY <2>5, <2>6, <3>1, LastIsNewest
      <3>3. IsNewest(g, 0, k, l)
        BY <2>3, <3>2, NewestFrom
      <3>4. Rec(g, l).val = Answer(k)
        <4>1. Tells(g, k, IF Rec(g, l).val = Tombstone THEN NoPos ELSE l)
          BY <3>2, <3>3 DEF Tells
        <4>2. e = IF Rec(g, l).val = Tombstone THEN NoPos ELSE l
          BY <2>4, <4>1, TellsOnce
        <4>3. l # NoPos
          BY <3>2, Sizes
        <4> QED BY <2>4, <4>2, <4>3
      <3>5. RecAt(l) = Rec(g, l)
        BY <2>1, <2>2, <3>3, RunIs DEF IsNewest, Counts
      <3>6. MergedValue(k) = RecAt(l).val
        BY <2>2, <2>6, <3>1 DEF MergedValue
      <3> QED BY <3>4, <3>5, <3>6
    <2>7. CASE S = {}
      <3>1. NoneCounts(g, n, k)
        BY <2>5, <2>7 DEF NoneCounts
      <3>2. Copied(k)
        BY <2>1, <2>2, <3>1 DEF ScanInv
      <3>3. IF e = NoPos THEN copy = NoPos
            ELSE copy # NoPos /\ Rec(data[dirPath], copy).val = Rec(g, e).val
        BY <2>2, <3>2 DEF Copied
      <3>4. MergedValue(k) = IF copy = NoPos THEN Tombstone ELSE Rec(data[dirPath], copy).val
        BY <2>2, <2>7 DEF MergedValue, Rec
      <3> QED BY <2>4, <3>3, <3>4
    <2> QED BY <2>6, <2>7
  <1> QED BY <1>1, LogInvariance, PTL
-----------------------------------------------------------------------------
\* The log keeps what was written: without faults, with one merge of an instance

LEMMA NextIsLog ==
    ASSUME TypeOK, FilesInv
    PROVE  IsLog(NextLog)
  <1>1. DirsType /\ 0 \in Dirs
    BY TypeIs, Sizes
  <1>2. MaxDir > 0 => 1 \in Dirs
    BY Sizes
  <1>3. /\ \A f \in FileIds : data[0][f] \in Seq(Records) /\ Len(data[0][f]) =< DataFileSize
        /\ data[0] \in [FileIds -> Seq(Records)]
    BY <1>1 DEF DirsType, FilesInv
  <1>4. Waiting => \A f \in FileIds :
            data[1][f] \in Seq(Records) /\ Len(data[1][f]) =< DataFileSize
    BY <1>1, <1>2 DEF DirsType, FilesInv, Waiting
  <1>5. <<>> \in Seq(Records) /\ Len(<<>>) =< DataFileSize
    BY Sizes
  <1>6. Waiting => \A f \in FileIds :
            SwapLog[f] \in Seq(Records) /\ Len(SwapLog[f]) =< DataFileSize
    BY <1>3, <1>4, <1>5 DEF SwapLog
  <1>7. Waiting => SwapLog \in [FileIds -> Seq(Records)]
    BY <1>3, <1>4, <1>5 DEF SwapLog
  <1> QED BY <1>3, <1>6, <1>7 DEF NextLog, IsLog

\* Of a key the next log tells the same when they agree from n on, and below n
\* it has the copy of what the index has.
LEMMA SwapSays ==
    ASSUME NEW g, IsLog(g), EndsLast(g), NEW h, IsLog(h), EndsLast(h), NEW n \in Nat,
           \A f \in FileIds : f >= n => g[f] = h[f],
           NEW t, t # NoHint, Copies(h, t, n), NEW k \in Keys, NEW v, Says(g, k, v),
           NoneCounts(g, n, k) =>
               IF v = Tombstone THEN t[k] = NoPos ELSE t[k] # NoPos /\ Rec(h, t[k]).val = v
    PROVE  Says(h, k, v)
  <1>1. \A p : Counts(g, n, k, p) <=> Counts(h, n, k, p)
    BY SharedTail
  <1>2. CASE NoneCounts(g, n, k)
    <2>1. NoneCounts(h, n, k)
      BY <1>1, <1>2 DEF NoneCounts
    <2>2. /\ t[k] = NoPos => NoneCounts(h, 0, k)
          /\ t[k] # NoPos => t[k] \in Positions /\ IsNewest(h, 0, k, t[k])
      BY <2>1, CopyCounts
    <2> QED BY <1>2, <2>2 DEF Says
  <1>3. CASE ~NoneCounts(g, n, k)
    <2>1. PICK p \in Positions : IsNewest(g, n, k, p)
      BY <1>3, NewestExists
    <2>2. IsNewest(h, n, k, p)
      BY <1>1, <2>1 DEF IsNewest
    <2>3. IsNewest(g, 0, k, p) /\ IsNewest(h, 0, k, p)
      BY <2>1, <2>2, NewestFrom
    <2>4. Rec(g, p).val = v
      <3>1. ~NoneCounts(g, 0, k)
        BY <2>1, <2>3 DEF IsNewest, NoneCounts
      <3>2. PICK q \in Positions : IsNewest(g, 0, k, q) /\ Rec(g, q).val = v
        BY <3>1 DEF Says
      <3>3. p = q
        BY <2>1, <2>3, <3>2, NewestUnique
      <3> QED BY <3>2, <3>3
    <2>5. Rec(h, p) = Rec(g, p)
      <3>1. p \in Places(g, n)
        BY <2>1 DEF IsNewest, Counts
      <3>2. p.fid \in FileIds /\ p.fid >= n
        BY <3>1, PlaceIs
      <3>3. g[p.fid] = h[p.fid]
        BY <3>2
      <3> QED BY <3>3 DEF Rec
    <2> QED BY <2>3, <2>4, <2>5 DEF Says
  <1> QED BY <1>2, <1>3

\* What Close leaves, with at most one merge of the instance.
LEMMA CloseShares ==
    ASSUME ValuesApartInv, MaxDir =< 1, Close
    PROVE  /\ Waiting => dirPath = 1 /\ \A f \in FileIds : f >= fin[1] => NextLog[f] = RunLog[f]
           /\ ~Waiting => \A f \in FileIds : NextLog[f] = RunLog[f]
  <1>1. phase = "open" /\ mpc = "none"
    BY DEF Close
  <1>2. /\ LogApartInv /\ TypeOK /\ InstanceType /\ OpenInv
        /\ dirPath > 0 => fin[dirPath] \in FileIds
    BY <1>1, TypeIs DEF ValuesApartInv, ValuesInv, LogApartInv, ApartInv
  <1>3. dirPath = 0 \/ dirPath = 1
    <2>1. dirPath \in Dirs
      BY <1>2 DEF InstanceType
    <2> QED BY <2>1, Sizes
  <1>4. Waiting => dirPath = 1
    BY <1>1, <1>2, <1>3, Boundaries
  <1>5. dirPath = 1 => Waiting
    <2>1. dirPath = 1 => MaxDir > 0
      <3>1. dirPath \in Dirs
        BY <1>2 DEF InstanceType
      <3> QED BY <3>1, Sizes
    <2> QED BY <1>2, <2>1 DEF Waiting
  <1>6. ASSUME NEW f \in FileIds, dirOf[f] \in Dirs, dirOf[f] # 0, Waiting => dirOf[f] # 1
        PROVE  FALSE
    <2>1. dirOf[f] # NoDir /\ dirOf[f] \in Nat
      BY <1>6, Sizes
    <2>2. f \in OpenFiles
      BY <2>1 DEF OpenFiles
    <2>3. dirOf[f] =< dirPath
      BY <1>1, <1>2, <2>2 DEF OpenInv
    <2>4. CASE dirPath = 0
      BY <1>6, <2>1, <2>3, <2>4
    <2>5. CASE dirPath = 1
      <3>1. dirOf[f] # 1
        BY <1>5, <1>6, <2>5
      <3> QED BY <1>6, <2>1, <2>3, <2>5, <3>1
    <2> QED BY <1>3, <2>4, <2>5
  <1>7. ASSUME NEW f \in FileIds, ~(Waiting /\ f < fin[1])
        PROVE  NextLog[f] = RunLog[f]
    BY <1>1, <1>2, <1>6, <1>7, NextShares
  <1>8. Waiting => fin[1] \in Nat
    BY Sizes DEF Waiting
  <1>9. \A f \in FileIds : f \in Nat
    BY Sizes
  <1> QED BY <1>4, <1>7, <1>8, <1>9

LEMMA CloseKeepsValues ==
    ASSUME ValuesApartInv, MaxDir =< 1, Close
    PROVE  ValuesInv'
  <1>1. /\ phase = "open" /\ mpc = "none" /\ ~Locked /\ phase' = "closed" /\ kv' = kv
    BY DEF Close, Stop, history
  <1>2. /\ LogApartInv /\ TypeOK /\ FilesInv /\ BatchInv /\ CopiesInv /\ ScanInv /\ PlacesInv
        /\ \A k \in Keys : Says(RunLog, k, kv[k])
    BY <1>1 DEF ValuesApartInv, ValuesInv, LogApartInv, LogInv, ApartInv
  <1>3. LogInv' /\ NextLog' = NextLog
    BY <1>1, <1>2, StopKeepsLog DEF Close
  <1>4. PICK g, h : g = RunLog /\ h = NextLog
    OBVIOUS
  <1>5. IsLog(g) /\ IsLog(h) /\ EndsLast(g)
    BY <1>1, <1>2, <1>4, RunIs, NextIsLog DEF BatchInv
  <1>6. EndsLast(h)
    <2>1. NextInv'
      BY <1>3 DEF LogInv
    <2> QED BY <1>1, <1>3, <1>4, <2>1 DEF NextInv
  <1>7. ASSUME NEW k \in Keys
        PROVE  Says(h, k, kv[k])
    <2>1. PICK v : v = kv[k]
      OBVIOUS
    <2>2. Says(g, k, v)
      BY <1>2, <1>4, <2>1
    <2>3. CASE ~Waiting
      <3>1. \A f \in FileIds : f >= 0 => g[f] = h[f]
        BY <1>4, <2>3, CloseShares
      <3>2. \A p : Counts(g, 0, k, p) <=> Counts(h, 0, k, p)
        BY <3>1, SharedTail
      <3>3. ASSUME NEW p \in Positions
            PROVE  Rec(g, p) = Rec(h, p)
        <4>1. p.fid \in FileIds
          BY Sizes
        <4>2. g[p.fid] = h[p.fid]
          BY <1>4, <2>3, <4>1, CloseShares
        <4> QED BY <4>2 DEF Rec
      <3>4. Says(g, k, v) <=> Says(h, k, v)
        BY <3>2, <3>3, SameTold
      <3> QED BY <2>1, <2>2, <3>4
    <2>4. CASE Waiting
      <3>1. PICK n, t : n = fin[1] /\ t = hint[1]
        OBVIOUS
      <3>2. n \in Nat /\ n \in FileIds /\ dirPath = 1
        BY <2>4, <3>1, CloseShares, Sizes DEF Waiting
      <3>3. \A f \in FileIds : f >= n => g[f] = h[f]
        BY <1>4, <2>4, <3>1, CloseShares
      <3>4. t # NoHint /\ Copies(h, t, n)
        BY <1>1, <1>2, <1>4, <2>4, <3>1 DEF PlacesInv, CopiesInv, SwapHint, NextLog
      <3>5. ASSUME NoneCounts(g, n, k)
            PROVE  IF v = Tombstone THEN t[k] = NoPos ELSE t[k] # NoPos /\ Rec(h, t[k]).val = v
        <4>1. PICK e : e = index[k]
          OBVIOUS
        <4>2. Tells(g, k, e)
          BY <1>1, <1>2, <1>4, <3>1, <3>2, <3>5, <4>1, MergedTold
        <4>3. (e = NoPos => v = Tombstone) /\ (e # NoPos => Rec(g, e).val = v)
          BY <2>2, <4>2, SaysTold
        <4>4. e # NoPos => Rec(g, e).val # Tombstone
          BY <4>2, ToldEntry
        <4>5. Copied(k)
          BY <1>1, <1>2, <1>4, <3>1, <3>2, <3>5 DEF ScanInv
        <4>6. IF e = NoPos THEN t[k] = NoPos
              ELSE t[k] # NoPos /\ Rec(data[1], t[k]).val = Rec(g, e).val
          BY <1>4, <3>1, <3>2, <4>1, <4>5 DEF Copied
        <4>7. t[k] # NoPos => Rec(h, t[k]) = Rec(data[1], t[k])
          <5>1. t[k] # NoPos => t[k] \in Places(h, 0) /\ t[k].fid < n
            BY <3>4 DEF Copies
          <5>2. PICK c : c = t[k]
            OBVIOUS
          <5>3. c # NoPos =>
                    c.fid \in FileIds /\ c.off \in Nat /\ c.off < Len(h[c.fid]) /\ c.fid < n
            BY <1>5, <5>1, <5>2, PlaceIs
          <5>4. c # NoPos => h[c.fid] # <<>>
            BY <5>3
          <5>5. c # NoPos => h[c.fid] = data[1][c.fid]
            BY <1>1, <1>4, <2>4, <3>1, <5>3, <5>4 DEF NextLog, SwapLog
          <5> QED BY <5>2, <5>5 DEF Rec
        <4> QED BY <4>3, <4>4, <4>6, <4>7
      <3>6. Says(h, k, v)
        BY <1>5, <1>6, <2>2, <3>2, <3>3, <3>4, <3>5, SwapSays
      <3> QED BY <2>1, <3>6
    <2> QED BY <2>3, <2>4
  <1>8. \A k \in Keys : Says(NextLog', k, kv'[k])
    BY <1>1, <1>3, <1>4, <1>7
  <1> QED BY <1>1, <1>8 DEF ValuesInv

LEMMA CommitKeepsValues ==
    ASSUME ValuesApartInv, LogApartInv',
           NEW c \in BatchClients, CommitAppend(c) \/ CommitFinish(c)
    PROVE  ValuesInv'
  <1>1. /\ phase = "open" /\ phase' = "open" /\ UNCHANGED <<dirPath, mpc, fin>>
    BY DEF CommitAppend, CommitFinish, Calm, AppendLogRecord, options, merge
  <1>2. /\ LogApartInv /\ TypeOK /\ \A k \in Keys : Says(RunLog, k, kv[k])
        /\ dirPath > 0 /\ mpc \in {"none", "prepare"} => fin[dirPath] \in FileIds
    BY <1>1 DEF ValuesApartInv, ValuesInv, LogApartInv, ApartInv
  <1>3. \A k \in Keys : Says(RunLog', k, kv'[k])
    <2>1. CASE CommitAppend(c)
      <3>1. kv' = kv
        BY <2>1 DEF CommitAppend, history
      <3> QED BY <1>2, <2>1, <3>1, CommitAppendKeepsLog
    <2>2. CASE CommitFinish(c)
      <3>1. /\ kv' = [kv EXCEPT ![write[c].key] = write[c].val]
            /\ kv \in [Keys -> Values \cup {Tombstone}]
        BY <1>2, <2>2 DEF CommitFinish, TypeOK
      <3>2. PICK l, v : l = write[c].key /\ v = write[c].val
        OBVIOUS
      <3>3. kv' = [kv EXCEPT ![l] = v] /\ l \in Keys /\ Says(RunLog', l, v)
        BY <1>2, <2>2, <3>1, <3>2, CommitFinishKeepsLog
      <3>4. ASSUME NEW k \in Keys
            PROVE  Says(RunLog', k, kv'[k])
        <4>1. CASE k = l
          <5>1. kv'[k] = v
            BY <3>1, <3>3, <4>1
          <5> QED BY <3>3, <4>1, <5>1
        <4>2. CASE k # l
          <5>1. kv'[k] = kv[k]
            BY <3>3, <4>2
          <5>2. Says(RunLog, k, kv[k])
            BY <1>2
          <5>3. Says(RunLog', k, kv[k])
            BY <1>2, <2>2, <3>2, <4>2, <5>2, CommitFinishKeepsLog
          <5> QED BY <5>1, <5>3
        <4> QED BY <4>1, <4>2
      <3> QED BY <3>4
    <2> QED BY <2>1, <2>2
  <1> QED BY <1>1, <1>2, <1>3 DEF ValuesInv

LEMMA OpenStepKeepsValues ==
    ASSUME ValuesApartInv, phase = "open", phase' = "open", RunLog' = RunLog, kv' = kv,
           dirPath' > 0 /\ mpc' \in {"none", "prepare"} => fin'[dirPath'] \in FileIds
    PROVE  ValuesInv'
  <1>1. \A k \in Keys : Says(RunLog, k, kv[k])
    BY DEF ValuesApartInv, ValuesInv
  <1>2. \A k \in Keys : Says(RunLog', k, kv'[k])
    BY <1>1
  <1> QED BY <1>2 DEF ValuesInv

LEMMA MergeKeepsValues ==
    ASSUME ValuesApartInv, MaxDir =< 1, "merge" \notin Faults, LogApartInv', MergeStep, ~shared'
    PROVE  ValuesInv'
  <1>1. /\ phase = "open" /\ phase' = "open" /\ kv' = kv /\ dirPath \in Nat
        /\ LogApartInv /\ InstanceType /\ FilesInv
        /\ dirPath > 0 /\ mpc \in {"none", "prepare"} => fin[dirPath] \in FileIds
    <2>1. phase' = phase /\ kv' = kv
      BY DEF MergeStep, MergeStart, MergePrepare, MergeOpen, MergeRecord, MergeSync, MergeFinish,
             MergeFails, history
    <2>2. LogApartInv /\ InstanceType /\ FilesInv /\ ClosedInv
      BY TypeIs DEF ValuesApartInv, LogApartInv, ApartInv
    <2>3. phase = "open"
      BY <2>2 DEF ClosedInv, MergeStep, MergeStart, MergePrepare, MergeOpen, MergeRecord,
                  MergeSync, MergeFinish, MergeFails
    <2>4. dirPath \in Nat
      <3>1. dirPath \in Dirs
        BY <2>2 DEF InstanceType
      <3> QED BY <3>1, Sizes
    <2> QED BY <2>1, <2>2, <2>3, <2>4 DEF ValuesApartInv, ValuesInv
  <1>2. RunLog' = RunLog
    BY <1>1, MergeStartKeepsLog, MergePrepareKeepsLog, MergeOpenKeepsLog, MergeRecordKeepsLog,
       MergeSyncKeepsLog, MergeFinishKeepsLog DEF MergeStep, MergeFails
  <1>3. ASSUME dirPath' > 0, mpc' \in {"none", "prepare"}
        PROVE  fin'[dirPath'] \in FileIds
    <2>1. CASE MergeStart
      <3>1. dirPath < MaxDir /\ dirPath' = dirPath
        BY <2>1 DEF MergeStart, options
      <3>2. MaxDir \in Nat
        BY MergeAssumption
      <3> QED BY <1>1, <1>3, <3>1, <3>2
    <2>2. CASE MergeFinish
      <3>1. fin' = [fin EXCEPT ![dirPath] = nonMergeFileId] /\ dirPath' = dirPath
        BY <2>2 DEF MergeFinish, Boundary, options
      <3>2. mpc # "none"
        BY <2>2 DEF MergeFinish
      <3>3. nonMergeFileId \in FileIds
        BY <1>1, <3>2, Boundaries
      <3>4. DirsType /\ dirPath \in Dirs
        BY <1>1, TypeIs DEF LogApartInv, ApartInv, InstanceType
      <3> QED BY <3>1, <3>3, <3>4 DEF DirsType
    <2>3. CASE MergePrepare \/ MergeOpen \/ MergeRecord \/ MergeSync
      <3>1. mpc' \in {"open", "scan", "finish"}
        BY <2>3 DEF MergePrepare, MergeOpen, MergeRecord, MergeSync
      <3> QED BY <1>3, <3>1
    <2> QED BY <2>1, <2>2, <2>3 DEF MergeStep, MergeFails
  <1> QED BY <1>1, <1>2, <1>3, OpenStepKeepsValues

LEMMA OffKeepsValues ==
    ASSUME ValuesApartInv, phase # "open", phase' # "open", OpenUnchanged, NextLog' = NextLog
    PROVE  ValuesInv'
  <1>1. \A k \in Keys : Says(NextLog, k, kv[k])
    BY DEF ValuesApartInv, ValuesInv
  <1>2. \A k \in Keys : Says(NextLog', k, kv'[k])
    BY <1>1 DEF OpenUnchanged
  <1> QED BY <1>2 DEF ValuesInv

LEMMA LoadKeepsValues ==
    ASSUME ValuesApartInv, Load
    PROVE  ValuesInv'
  <1>1. /\ LogApartInv /\ ClosedInv
    BY DEF ValuesApartInv, LogApartInv, ApartInv
  <1>2. phase = "load" /\ phase' = "open" /\ RunLog' = NextLog
    BY <1>1, LoadIs
  <1>3. kv' = kv /\ dirPath' = dirPath /\ dirPath = 0
    BY <1>1, <1>2 DEF Load, options, ClosedInv, history
  <1>4. \A k \in Keys : Says(NextLog, k, kv[k])
    BY <1>2 DEF ValuesApartInv, ValuesInv
  <1>5. \A k \in Keys : Says(RunLog', k, kv'[k])
    BY <1>2, <1>3, <1>4
  <1> QED BY <1>2, <1>3, <1>5 DEF ValuesInv

\* No fault, and no merge by an instance that has made one.
OneMergeNoFaults == DirectClients = {} /\ Faults = {} /\ MaxDir =< 1

LEMMA NextKeepsValues ==
    ASSUME ValuesApartInv, OneMergeNoFaults, [Next]_vars, ~shared'
    PROVE  ValuesApartInv'
  <1>1. /\ DirectClients = {} /\ MaxDir =< 1 /\ LogApartInv
        /\ "merge" \notin Faults /\ "swap" \notin Faults /\ "crash" \notin Faults
        /\ "rename" \notin Faults
    BY DEF OneMergeNoFaults, ValuesApartInv
  <1>2. LogApartInv'
    BY <1>1, NextKeepsLog DEF CommitsOnly, OneMergeNoFaults
  <1>3. ASSUME NEW c \in BatchClients, CommitIndex(c)
        PROVE  ValuesInv'
    <2>1. /\ phase = "open" /\ phase' = "open" /\ kv' = kv
          /\ UNCHANGED <<dirPath, mpc, fin>>
      BY <1>3 DEF CommitIndex, dirs, options, merge, history
    <2>2. dirPath > 0 /\ mpc \in {"none", "prepare"} => fin[dirPath] \in FileIds
      BY <2>1 DEF ValuesApartInv, ValuesInv
    <2> QED BY <1>1, <1>3, <2>1, <2>2, CommitIndexKeepsLog, OpenStepKeepsValues
  <1>4. ASSUME Sync
        PROVE  ValuesInv'
    <2>1. /\ phase = "open" /\ phase' = "open" /\ kv' = kv
          /\ UNCHANGED <<dirPath, mpc, fin>>
      BY <1>4 DEF Sync, options, merge, history
    <2>2. dirPath > 0 /\ mpc \in {"none", "prepare"} => fin[dirPath] \in FileIds
      BY <2>1 DEF ValuesApartInv, ValuesInv
    <2> QED BY <1>1, <1>4, <2>1, <2>2, SyncKeepsLog, OpenStepKeepsValues
  <1>5. ASSUME OpenDB \/ SwapStep
        PROVE  ValuesInv'
    <2>1. phase # "open" /\ phase' # "open" /\ OpenUnchanged
      BY <1>1, <1>5 DEF OpenDB, SwapStep, DeleteMerged, MergedDeleted, MoveDataFile, MoveHint,
         MoveFinished, RemoveLeftOver, SwapFails, OpenRefused, OpenUnchanged, dirs, options,
         calls, merge, history
    <2>2. NextLog' = NextLog
      BY <1>1, <1>5, OpenDBKeepsLog, DeleteMergedKeepsLog, MergedDeletedKeepsLog,
         MoveDataFileKeepsLog, MoveHintKeepsLog, MoveFinishedKeepsLog, RemoveLeftOverKeepsLog,
         OpenRefusedKeepsLog DEF SwapStep, SwapFails
    <2> QED BY <2>1, <2>2, OffKeepsValues
  <1>6. ASSUME UNCHANGED vars
        PROVE  ValuesInv'
    <2>1. /\ UNCHANGED <<phase, kv, shared, dirPath, mpc, fin>>
      BY <1>6 DEF vars, dirs, options, merge, history
    <2>2. RunLog' = RunLog /\ NextLog' = NextLog
      BY <1>1, <1>6, StutterKeepsLog
    <2>3. /\ phase = "open" => \A k \in Keys : Says(RunLog, k, kv[k])
          /\ phase # "open" => \A k \in Keys : Says(NextLog, k, kv[k])
          /\ phase = "open" /\ dirPath > 0 /\ mpc \in {"none", "prepare"} =>
                 fin[dirPath] \in FileIds
      BY DEF ValuesApartInv, ValuesInv
    <2> QED BY <2>1, <2>2, <2>3 DEF ValuesInv
  <1>7. ~ProcessCrash
    BY <1>1 DEF ProcessCrash
  <1>8. ValuesInv'
    BY <1>1, <1>2, <1>3, <1>4, <1>5, <1>6, <1>7, CommitKeepsValues, MergeKeepsValues,
       CloseKeepsValues, LoadKeepsValues DEF Next
  <1> QED BY <1>2, <1>8 DEF ValuesApartInv

LEMMA InitValues == Init => ValuesApartInv
  <1> SUFFICES ASSUME Init
               PROVE  ValuesInv
    BY InitLog DEF ValuesApartInv
  <1>1. /\ data = [d \in Dirs |-> [f \in FileIds |-> <<>>]] /\ fin = [d \in Dirs |-> NoFile]
        /\ phase = "closed" /\ kv = [k \in Keys |-> Tombstone]
    BY DEF Init
  <1>2. 0 \in Dirs /\ NoFile \notin FileIds
    BY Sizes
  <1>3. ~Waiting
    <2>1. MaxDir > 0 => 1 \in Dirs
      BY Sizes
    <2> QED BY <1>1, <1>2, <2>1 DEF Waiting
  <1>4. PICK h : h = NextLog
    OBVIOUS
  <1>5. \A f \in FileIds : h[f] = <<>>
    BY <1>1, <1>2, <1>3, <1>4 DEF NextLog
  <1>6. ASSUME NEW p
        PROVE  p \notin Places(h, 0)
    <2>1. p \in Positions => p.fid \in FileIds /\ p.off \in Nat
      BY Sizes
    <2>2. p \in Positions => h[p.fid] = <<>>
      BY <1>5, <2>1
    <2>3. p \in Positions => Len(h[p.fid]) = 0
      BY <2>2
    <2> QED BY <2>1, <2>3 DEF Places
  <1>7. \A k \in Keys : NoneCounts(h, 0, k)
    BY <1>6 DEF NoneCounts, Counts
  <1> QED BY <1>1, <1>4, <1>7 DEF ValuesInv, Says

\* The log says of every key what was written last, and so does what the swap
\* makes of the files after a Merge: for any number of keys, files and commits,
\* until mergeDB finds a file of the running instance.
THEOREM ValuesInvariance ==
    ASSUME OneMergeNoFaults
    PROVE  Spec => []ValuesIndInv
  <1>1. Init => ValuesIndInv
    BY InitValues DEF ValuesIndInv
  <1>2. ValuesIndInv /\ [Next]_vars => ValuesIndInv'
    BY NextKeepsValues, SharedStays DEF ValuesIndInv
  <1> QED BY <1>1, <1>2, PTL DEF Spec

\* A Get answers with the newest commit of its key, before, during and after a
\* Merge and after the Open that swaps the merged files in, until mergeDB finds
\* a file of the running instance.
THEOREM ValuesAlwaysKept ==
    ASSUME OneMergeNoFaults
    PROVE  Spec => []KeepsValues
  <1>1. ASSUME ValuesIndInv
        PROVE  KeepsValues
    <2> SUFFICES ASSUME ValuesApartInv, phase = "open", NEW k \in Keys, Settled(k)
                 PROVE  Answer(k) = kv[k]
      BY <1>1 DEF KeepsValues, AnswersKept, ValuesIndInv
    <2>1. LogApartInv /\ Says(RunLog, k, kv[k])
      BY DEF ValuesApartInv, ValuesInv
    <2>2. PICK g, e, v : g = RunLog /\ e = index[k] /\ v = kv[k]
      OBVIOUS
    <2>3. Tells(g, k, e) /\ Answer(k) = IF e = NoPos THEN Tombstone ELSE Rec(g, e).val
      BY <2>1, <2>2, AnswerIs
    <2>4. (e = NoPos => v = Tombstone) /\ (e # NoPos => Rec(g, e).val = v)
      BY <2>1, <2>2, <2>3, SaysTold
    <2> QED BY <2>2, <2>3, <2>4
  <1> QED BY <1>1, ValuesInvariance, PTL

-----------------------------------------------------------------------------
\* What is not merged is on the disk, when commits are synced

\* A file with the records r, the first s of which are on the disk.
SyncedUpTo(s, r, active) ==
    /\ ~active => s = Len(r)
    /\ \A i \in 1 .. Len(r) : r[i].val = Finished => i =< s
    /\ \A i \in 1 .. Len(r) : r[i].seq # 0

LEMMA NewSyncedIs ==
    ASSUME NEW n
    PROVE  NewSynced(n) <=> \A f \in OpenFiles : f >= n =>
               SyncedUpTo(synced[dirOf[f]][f], RunLog[f], f = ActiveFile)
  BY DEF NewSynced, SyncedUpTo

LEMMA NewSyncedNext ==
    ASSUME NEW n,
           \A f \in OpenFiles' : f >= n =>
               SyncedUpTo(synced'[dirOf'[f]][f], RunLog'[f], f = ActiveFile')
    PROVE  NewSynced(n)'
  BY DEF NewSynced, SyncedUpTo

LEMMA WholeSynced ==
    ASSUME NEW r \in Seq(Records), NEW s, NEW b, SyncedUpTo(s, r, b), NEW c
    PROVE  SyncedUpTo(Len(r), r, c)
  <1>1. Len(r) \in Nat
    OBVIOUS
  <1> QED BY <1>1 DEF SyncedUpTo

LEMMA GrownSynced ==
    ASSUME NEW r \in Seq(Records), NEW s \in Nat, NEW b, SyncedUpTo(s, r, b),
           NEW rec \in Records, rec.seq # 0,
           NEW t, t = s \/ t = Len(r) + 1, rec.val = Finished => t = Len(r) + 1
    PROVE  SyncedUpTo(t, Append(r, rec), TRUE)
  <1>1. PICK l, g : l = Len(r) /\ g = Append(r, rec)
    OBVIOUS
  <1>2. /\ l \in Nat /\ Len(g) = l + 1 /\ g[l + 1] = rec
        /\ \A i \in 1 .. l : g[i] = r[i]
    BY <1>1
  <1>3. ASSUME NEW i \in 1 .. Len(g)
        PROVE  (g[i].val = Finished => i =< t) /\ g[i].seq # 0
    <2>1. CASE i = l + 1
      BY <1>1, <1>2, <2>1
    <2>2. CASE i # l + 1
      <3>1. i \in 1 .. l /\ i \in Nat /\ i =< l
        BY <1>2, <2>2
      <3>2. g[i] = r[i]
        BY <1>2, <3>1
      <3>3. (r[i].val = Finished => i =< s) /\ r[i].seq # 0
        BY <1>1, <3>1 DEF SyncedUpTo
      <3>4. i =< s => i =< t
        BY <1>1, <1>2, <3>1
      <3> QED BY <3>2, <3>3, <3>4
    <2> QED BY <2>1, <2>2
  <1> QED BY <1>1, <1>3 DEF SyncedUpTo

LEMMA NewFileSynced ==
    ASSUME NEW s
    PROVE  SyncedUpTo(s, <<>>, TRUE)
  <1>1. \A i \in 1 .. Len(<<>>) : FALSE
    OBVIOUS
  <1> QED BY <1>1 DEF SyncedUpTo

\* Rotation and Sync write the active file to the disk and no other.
LEMMA SyncedActiveIs ==
    ASSUME DirsType, InstanceType, ActiveFile # NoFile, NEW f \in OpenFiles
    PROVE  SyncedActive[dirOf[f]][f] =
               IF f = ActiveFile THEN Len(RunLog[f]) ELSE synced[dirOf[f]][f]
  <1>1. PICK a, d : a = ActiveFile /\ d = dirOf[a]
    OBVIOUS
  <1>2. a \in OpenFiles /\ OpenFiles \subseteq FileIds
    BY <1>1, ActiveIs
  <1>3. a \in FileIds /\ f \in FileIds /\ d # NoDir /\ dirOf[f] # NoDir
    BY <1>1, <1>2 DEF OpenFiles
  <1>4. d \in Dirs /\ dirOf[f] \in Dirs
    BY <1>1, <1>3 DEF InstanceType
  <1>5. RunLog[a] = data[d][a]
    BY <1>1, <1>3 DEF RunLog
  <1>6. SyncedActive = [synced EXCEPT ![d][a] = Len(data[d][a])]
    BY <1>1 DEF SyncedActive
  <1>7. synced \in [Dirs -> [FileIds -> Nat]]
    BY DEF DirsType
  <1>8. CASE f = a
    <2>1. SyncedActive[d][a] = Len(data[d][a])
      BY <1>3, <1>4, <1>6, <1>7
    <2> QED BY <1>1, <1>5, <1>8, <2>1
  <1>9. CASE f # a
    <2>1. SyncedActive[dirOf[f]][f] = synced[dirOf[f]][f]
      BY <1>3, <1>4, <1>6, <1>7, <1>9
    <2> QED BY <1>1, <1>9, <2>1
  <1> QED BY <1>8, <1>9

\* A step that writes no record of the instance.
LEMMA QuietSynced ==
    ASSUME TypeOK, FilesInv, dirOf' = dirOf, RunLog' = RunLog,
           \A f \in OpenFiles : \/ synced'[dirOf[f]][f] = synced[dirOf[f]][f]
                                \/ synced'[dirOf[f]][f] = Len(RunLog[f]),
           NEW n, NewSynced(n)
    PROVE  NewSynced(n)'
  <1>1. OpenFiles' = OpenFiles /\ ActiveFile' = ActiveFile /\ OpenFiles \subseteq FileIds
    <2>1. OpenFiles' = OpenFiles
      BY DEF OpenFiles
    <2> QED BY <2>1 DEF ActiveFile, OpenFiles
  <1>2. IsLog(RunLog)
    BY RunIs
  <1>3. ASSUME NEW f \in OpenFiles, f >= n
        PROVE  SyncedUpTo(synced'[dirOf[f]][f], RunLog[f], f = ActiveFile)
    <2>1. PICK s, t, r, b : /\ s = synced[dirOf[f]][f] /\ t = synced'[dirOf[f]][f]
                            /\ r = RunLog[f] /\ b = (f = ActiveFile)
      OBVIOUS
    <2>2. SyncedUpTo(s, r, b)
      BY <1>3, <2>1, NewSyncedIs
    <2>3. r \in Seq(Records)
      BY <1>1, <1>2, <2>1 DEF IsLog
    <2>4. t = s \/ t = Len(r)
      BY <2>1
    <2>5. SyncedUpTo(t, r, b)
      BY <2>2, <2>3, <2>4, WholeSynced
    <2> QED BY <2>1, <2>5
  <1> QED BY <1>1, <1>3, NewSyncedNext

\* An append: what it leaves behind is on the disk, and an end of a batch is.
LEMMA AppendSynced ==
    ASSUME TypeOK, FilesInv, OpenInv, IndexInv, phase = "open",
           NEW rec \in Records, NEW s \in BOOLEAN, AppendLogRecord(rec, s),
           (rec.val = Finished <=> rec.key = TxnFinKey), rec.seq # 0, rec.val = Finished => s,
           UNCHANGED <<phase, dirPath, index, mpc>>,
           NEW n \in Nat, NewSynced(n)
    PROVE  NewSynced(n)'
  <1>1. DirsType /\ InstanceType /\ IsLog(RunLog) /\ OpenFiles \subseteq FileIds
    BY TypeIs, RunIs, ActiveIs
  <1>2. PICK a, d, g, h : a = AppendFile /\ d = AppendDir /\ g = RunLog /\ h = RunLog'
    OBVIOUS
  <1>3. /\ OpenFiles' = OpenFiles \cup {a} /\ ActiveFile' = a /\ a \in FileIds /\ d \in Dirs
        /\ \A f \in OpenFiles : dirOf'[f] = dirOf[f]
        /\ dirOf'[a] = d
    BY <1>2, AppendTypes, AppendKeepsOpen
  <1>4. Grows(g, h, AppendPos, rec) /\ AppendPos.fid = a
    BY <1>2, AppendGrowsLog
  <1>5. /\ h = [g EXCEPT ![a] = Append(@, rec)] /\ AppendPos.off = Len(g[a])
        /\ g \in [FileIds -> Seq(Records)]
    BY <1>1, <1>2, <1>4 DEF Grows, Adds, IsLog
  <1>6. /\ NewFile => a \notin OpenFiles /\ (ActiveFile # NoFile => Rotates)
        /\ ~NewFile => a = ActiveFile /\ a \in OpenFiles /\ d = dirOf[a] /\ ~Rotates
    BY <1>2, AppendPlace DEF AppendLogRecord, NewFile
  <1>7. PICK S : S = SyncedAfterRotation
    OBVIOUS
  <1>8. synced' = IF syncWrites \/ s THEN [S EXCEPT ![d][a] = AppendPos.off + 1] ELSE S
    <2>1. synced' = IF syncWrites \/ s THEN [S EXCEPT ![d][a] = Len(data[d][a]) + 1] ELSE S
      BY <1>2, <1>7 DEF AppendLogRecord
    <2>2. AppendPos = [fid |-> a, off |-> Len(data[d][a])]
      BY <1>2, AppendPlace DEF AppendLogRecord
    <2>3. AppendPos.off = Len(data[d][a])
      BY <2>2
    <2> QED BY <2>1, <2>3
  <1>9. synced \in [Dirs -> [FileIds -> Nat]]
    BY <1>1 DEF DirsType
  <1>10. S \in [Dirs -> [FileIds -> Nat]]
    <2>1. synced \in [Dirs -> [FileIds -> Nat]]
      BY <1>9, Sizes
    <2>2. CASE Rotates
      <3>1. PICK b, e : b = ActiveFile /\ e = dirOf[b]
        OBVIOUS
      <3>2. b \in OpenFiles
        BY <1>1, <2>2, <3>1, ActiveIs DEF Rotates
      <3>3. b \in FileIds /\ e \in Dirs
        BY <1>1, <3>1, <3>2 DEF OpenFiles, InstanceType
      <3>4. Len(data[e][b]) \in Nat
        BY <1>1, <3>3 DEF DirsType
      <3>5. S = [synced EXCEPT ![e][b] = Len(data[e][b])]
        BY <1>7, <2>2, <3>1 DEF SyncedAfterRotation, SyncedActive
      <3> QED BY <2>1, <3>3, <3>4, <3>5
    <2>3. CASE ~Rotates
      BY <1>7, <2>1, <2>3 DEF SyncedAfterRotation
    <2> QED BY <2>2, <2>3
  <1>11. /\ synced'[d][a] = S[d][a] \/ synced'[d][a] = AppendPos.off + 1
         /\ rec.val = Finished => synced'[d][a] = AppendPos.off + 1
         /\ \A e \in Dirs, f \in FileIds : f # a => synced'[e][f] = S[e][f]
    BY <1>3, <1>8, <1>10
  <1>12. SyncedUpTo(synced'[d][a], h[a], TRUE) \/ ~(a >= n)
    <2> SUFFICES ASSUME a >= n
                 PROVE  SyncedUpTo(synced'[d][a], h[a], TRUE)
      OBVIOUS
    <2>1. PICK r, t : r = g[a] /\ t = synced'[d][a]
      OBVIOUS
    <2>2. r \in Seq(Records) /\ h[a] = Append(r, rec)
      BY <1>3, <1>5, <2>1
    <2>3. t = S[d][a] \/ t = Len(r) + 1
      BY <1>5, <1>11, <2>1
    <2>4. rec.val = Finished => t = Len(r) + 1
      BY <1>5, <1>11, <2>1
    <2>5. S[d][a] \in Nat
      BY <1>3, <1>10
    <2>6. \E b : SyncedUpTo(S[d][a], r, b)
      <3>1. CASE NewFile
        <4>1. r = <<>>
          BY <1>2, <1>3, <1>6, <2>1, <3>1 DEF RunLog, OpenFiles
        <4> QED BY <4>1, NewFileSynced
      <3>2. CASE ~NewFile
        <4>1. S = synced
          BY <1>6, <1>7, <3>2 DEF SyncedAfterRotation
        <4>2. SyncedUpTo(synced[dirOf[a]][a], RunLog[a], a = ActiveFile)
          BY <1>6, <3>2, NewSyncedIs
        <4> QED BY <1>2, <1>6, <2>1, <3>2, <4>1, <4>2
      <3> QED BY <3>1, <3>2
    <2>7. SyncedUpTo(t, Append(r, rec), TRUE)
      BY <2>2, <2>3, <2>4, <2>5, <2>6, GrownSynced
    <2> QED BY <2>1, <2>2, <2>7
  <1>13. ASSUME NEW f \in OpenFiles, f >= n, f # a
         PROVE  SyncedUpTo(synced'[dirOf[f]][f], h[f], FALSE)
    <2>1. PICK r, t : r = g[f] /\ t = synced'[dirOf[f]][f]
      OBVIOUS
    <2>2. f \in FileIds /\ dirOf[f] \in Dirs
      BY <1>1, <1>13 DEF OpenFiles, InstanceType
    <2>3. h[f] = r /\ r \in Seq(Records)
      BY <1>5, <1>13, <2>1, <2>2
    <2>4. t = S[dirOf[f]][f]
      BY <1>11, <1>13, <2>1, <2>2
    <2>5. SyncedUpTo(synced[dirOf[f]][f], r, f = ActiveFile)
      BY <1>2, <1>13, <2>1, NewSyncedIs
    <2>6. t = Len(r)
      <3>1. CASE Rotates
        <4>1. ActiveFile # NoFile /\ S = SyncedActive
          BY <1>7, <3>1 DEF Rotates, SyncedAfterRotation
        <4>2. t = IF f = ActiveFile THEN Len(r) ELSE synced[dirOf[f]][f]
          BY <1>1, <1>2, <2>1, <2>4, <4>1, SyncedActiveIs
        <4> QED BY <2>5, <4>2 DEF SyncedUpTo
      <3>2. CASE ~Rotates
        <4>1. S = synced
          BY <1>7, <3>2 DEF SyncedAfterRotation
        <4>2. ActiveFile # NoFile
          BY <1>1, ActiveIs
        <4>3. f # ActiveFile
          BY <1>6, <1>13, <3>2, <4>2
        <4> QED BY <2>4, <2>5, <4>1, <4>3 DEF SyncedUpTo
      <3> QED BY <3>1, <3>2
    <2>7. SyncedUpTo(t, r, FALSE)
      BY <2>3, <2>5, <2>6, WholeSynced
    <2> QED BY <2>1, <2>3, <2>7
  <1>14. ASSUME NEW f \in OpenFiles', f >= n
         PROVE  SyncedUpTo(synced'[dirOf'[f]][f], h[f], f = a)
    <2>1. CASE f = a
      BY <1>3, <1>12, <1>14, <2>1
    <2>2. CASE f # a
      <3>1. f \in OpenFiles
        BY <1>3, <1>14, <2>2
      <3>2. dirOf'[f] = dirOf[f]
        BY <1>3, <3>1
      <3>3. (f = a) = FALSE
        BY <2>2
      <3> QED BY <1>13, <1>14, <2>2, <3>1, <3>2, <3>3
    <2> QED BY <2>1, <2>2
  <1> QED BY <1>2, <1>3, <1>14, NewSyncedNext

LEMMA SyncKeepsSynced ==
    ASSUME SyncApartInv, Sync
    PROVE  SyncInv'
  <1>1. /\ phase = "open" /\ phase' = "open" /\ ActiveFile # NoFile /\ synced' = SyncedActive
        /\ UNCHANGED <<fin, dirPath, dirOf, writeOff, mpc, nonMergeFileId>>
    BY DEF Sync, options, merge
  <1>2. LogApartInv /\ TypeOK /\ FilesInv /\ DirsType /\ InstanceType /\ SyncInv
    BY TypeIs DEF SyncApartInv, LogApartInv, ApartInv
  <1>3. RunLog' = RunLog
    BY <1>2, SyncKeepsLog
  <1>4. ASSUME NEW f \in OpenFiles
        PROVE  \/ synced'[dirOf[f]][f] = synced[dirOf[f]][f]
               \/ synced'[dirOf[f]][f] = Len(RunLog[f])
    BY <1>1, <1>2, SyncedActiveIs
  <1>5. ASSUME NEW n, NewSynced(n)
        PROVE  NewSynced(n)'
    BY <1>1, <1>2, <1>3, <1>4, <1>5, QuietSynced
  <1>6. PICK m, n : m = nonMergeFileId /\ n = fin[dirPath]
    OBVIOUS
  <1>7. /\ mpc # "none" => NewSynced(m)
        /\ dirPath > 0 /\ n \in FileIds => NewSynced(n)
    BY <1>1, <1>2, <1>6 DEF SyncInv
  <1>8. /\ mpc # "none" => NewSynced(m)'
        /\ dirPath > 0 /\ n \in FileIds => NewSynced(n)'
    BY <1>5, <1>7
  <1>9. nonMergeFileId' = m /\ fin'[dirPath'] = n
    BY <1>1, <1>6
  <1> QED BY <1>1, <1>8, <1>9 DEF SyncInv, NewSynced

\* A step that leaves the boundary where it is.
LEMMA SameBoundary ==
    ASSUME SyncApartInv, phase = "open", \A n \in FileIds : NewSynced(n) => NewSynced(n)',
           mpc' # "none" => mpc # "none" /\ nonMergeFileId' = nonMergeFileId,
           phase' = "open" /\ dirPath' > 0 /\ fin'[dirPath'] \in FileIds =>
               \/ dirPath > 0 /\ fin[dirPath] = fin'[dirPath']
               \/ mpc # "none" /\ nonMergeFileId = fin'[dirPath']
    PROVE  SyncInv'
  <1>1. LogApartInv /\ SyncInv
    BY DEF SyncApartInv
  <1>2. mpc # "none" => nonMergeFileId \in FileIds
    BY <1>1, Boundaries
  <1>3. PICK m, n : m = nonMergeFileId' /\ n = fin'[dirPath']
    OBVIOUS
  <1>4. mpc' # "none" => NewSynced(m)'
    <2>1. mpc' # "none" => m \in FileIds /\ NewSynced(m)
      BY <1>1, <1>2, <1>3 DEF SyncInv
    <2> QED BY <2>1
  <1>5. phase' = "open" /\ dirPath' > 0 /\ n \in FileIds => NewSynced(n)'
    <2>1. phase' = "open" /\ dirPath' > 0 /\ n \in FileIds => NewSynced(n)
      BY <1>1, <1>3 DEF SyncInv
    <2> QED BY <2>1
  <1> QED BY <1>3, <1>4, <1>5 DEF SyncInv, NewSynced

LEMMA CommitKeepsSynced ==
    ASSUME SyncApartInv, BatchSync, NEW c \in BatchClients, CommitAppend(c) \/ CommitFinish(c)
    PROVE  SyncInv'
  <1>1. /\ phase = "open" /\ phase' = "open"
        /\ UNCHANGED <<phase, fin, dirPath, index, mpc, nonMergeFileId>>
    BY DEF CommitAppend, CommitFinish, Calm, AppendLogRecord, options, merge
  <1>2. /\ LogApartInv /\ TypeOK /\ FilesInv /\ InstanceType /\ OpenInv /\ IndexInv /\ BatchInv
        /\ BatchInv /\ c \in Clients
    BY TypeIs, Constants DEF SyncApartInv, LogApartInv, LogInv, ApartInv
  <1>3. \E rec \in Records, s \in BOOLEAN :
            /\ AppendLogRecord(rec, s) /\ (rec.val = Finished <=> rec.key = TxnFinKey)
            /\ rec.seq # 0 /\ (rec.val = Finished => s)
    <2>1. seqNo \in 0 .. MaxSeqNo /\ MaxSeqNo \in Nat
      BY <1>2, Sizes DEF InstanceType
    <2>2. CASE CommitAppend(c)
      <3>1. PICK w \in Writes :
                AppendLogRecord([seq |-> seqNo + 1, key |-> w.key, val |-> w.val], FALSE)
        BY <2>2 DEF CommitAppend
      <3>2. w.key \in Keys /\ w.val \in Values \cup {Tombstone}
        BY DEF Writes
      <3>3. seqNo + 1 \in 0 .. MaxSeqNo /\ seqNo + 1 # 0
        BY <2>1, <2>2 DEF CommitAppend
      <3>4. PICK rec : rec = [seq |-> seqNo + 1, key |-> w.key, val |-> w.val]
        OBVIOUS
      <3>5. rec \in Records /\ rec.seq # 0 /\ rec.val # Finished /\ rec.key # TxnFinKey
        BY <3>2, <3>3, <3>4, Constants DEF Records
      <3> QED BY <3>1, <3>4, <3>5
    <2>3. CASE CommitFinish(c)
      <3>1. PICK rec : rec = [seq |-> seqNo, key |-> TxnFinKey, val |-> Finished]
        OBVIOUS
      <3>2. AppendLogRecord(rec, TRUE)
        BY <2>3, <3>1 DEF CommitFinish, AppendLogRecord
      <3>3. rec \in Records /\ rec.val = Finished /\ rec.key = TxnFinKey /\ rec.seq = seqNo
        BY <2>1, <3>1 DEF Records
      <3>4. seqNo # 0
        BY <1>1, <1>2, <2>3 DEF BatchInv, CommitFinish
      <3> QED BY <3>2, <3>3, <3>4
    <2> QED BY <2>2, <2>3
  <1>4. ASSUME NEW n \in FileIds, NewSynced(n)
        PROVE  NewSynced(n)'
    <2>1. n \in Nat
      BY Sizes
    <2> QED BY <1>1, <1>2, <1>3, <1>4, <2>1, AppendSynced
  <1> QED BY <1>1, <1>4, SameBoundary

LEMMA MergeStartKeepsSynced ==
    ASSUME SyncApartInv, MergeStart
    PROVE  SyncInv'
  <1>1. /\ phase = "open" /\ phase' = "open" /\ mpc = "none" /\ ActiveFile # NoFile
        /\ synced' = SyncedActive /\ nonMergeFileId' = NextFile /\ NextFile =< MaxFileId
        /\ dirOf' = [dirOf EXCEPT ![NextFile] = dirPath]
        /\ UNCHANGED <<fin, dirPath>>
    BY DEF MergeStart, options
  <1>2. LogApartInv /\ TypeOK /\ FilesInv /\ DirsType /\ InstanceType /\ SyncInv
    BY TypeIs DEF SyncApartInv, LogApartInv, ApartInv
  <1>3. PICK a, b, d, g : a = ActiveFile /\ b = NextFile /\ d = dirPath /\ g = RunLog
    OBVIOUS
  <1>4. /\ a \in OpenFiles /\ OpenFiles \subseteq FileIds /\ \A f \in OpenFiles : f =< a
        /\ b = a + 1
    BY <1>1, <1>2, <1>3, ActiveIs DEF NextFile
  <1>5. a \in Nat /\ b \in FileIds /\ b \in Nat /\ \A f \in OpenFiles : f \in Nat
    BY <1>1, <1>3, <1>4, Sizes
  <1>6. b \notin OpenFiles
    <2>1. b \in OpenFiles => b =< a
      BY <1>4
    <2> QED BY <1>4, <1>5, <2>1
  <1>7. d \in Dirs /\ d # NoDir /\ dirOf \in [FileIds -> Dirs \cup {NoDir}]
    <2>1. d \in Dirs /\ dirOf \in [FileIds -> Dirs \cup {NoDir}]
      BY <1>2, <1>3 DEF InstanceType
    <2> QED BY <2>1, Sizes
  <1>8. /\ OpenFiles' = OpenFiles \cup {b}
        /\ \A f \in OpenFiles : dirOf'[f] = dirOf[f]
        /\ dirOf'[b] = d
    <2>1. dirOf' = [dirOf EXCEPT ![b] = d]
      BY <1>1, <1>3
    <2>2. dirOf'[b] = d /\ \A f \in FileIds : f # b => dirOf'[f] = dirOf[f]
      BY <1>5, <1>7, <2>1
    <2>3. OpenFiles' = {f \in FileIds : dirOf'[f] # NoDir}
      BY DEF OpenFiles
    <2>4. \A f : f \in OpenFiles' <=> f \in OpenFiles \/ f = b
      BY <1>5, <1>7, <2>2, <2>3 DEF OpenFiles
    <2> QED BY <1>4, <1>6, <2>2, <2>4
  <1>9. ActiveFile' = b
    <2>1. PICK S : S = OpenFiles'
      OBVIOUS
    <2>2. S \subseteq FileIds /\ S # {} /\ b \in S
      BY <1>4, <1>5, <1>8, <2>1
    <2>3. PICK e : e = CHOOSE f \in S : \A o \in S : o =< f
      OBVIOUS
    <2>4. e \in S /\ b =< e
      BY <2>2, <2>3, LargestFile
    <2>5. ActiveFile' = e
      BY <2>1, <2>2, <2>3 DEF ActiveFile
    <2>6. e = b \/ (e \in OpenFiles /\ e =< a)
      BY <1>4, <1>8, <2>1, <2>4
    <2>7. e \in Nat
      BY <2>2, <2>4, Sizes
    <2>8. e = b
      BY <1>4, <1>5, <2>4, <2>6, <2>7
    <2> QED BY <2>5, <2>8
  <1>10. RunLog' = g
    BY <1>2, <1>3, MergeStartKeepsLog
  <1>11. SyncedUpTo(synced'[dirOf'[b]][b], g[b], TRUE)
    <2>1. g[b] = <<>>
      BY <1>3, <1>5, <1>6 DEF RunLog, OpenFiles
    <2> QED BY <2>1, NewFileSynced
  <1>12. NewSynced(b)'
    <2>1. ASSUME NEW f \in OpenFiles', f >= b
          PROVE  f = b
      <3>1. f # b => f =< a /\ f \in Nat
        <4>1. f # b => f \in OpenFiles
          BY <1>8, <2>1
        <4> QED BY <1>4, <1>5, <4>1
      <3> QED BY <1>4, <1>5, <2>1, <3>1
    <2>2. (b = b) = TRUE
      OBVIOUS
    <2>3. \A f \in OpenFiles' : f >= b =>
              SyncedUpTo(synced'[dirOf'[f]][f], g[f], f = b)
      BY <1>11, <2>1, <2>2
    <2> QED BY <1>9, <1>10, <2>3, NewSyncedNext
  <1>13. ASSUME NEW n, NewSynced(n)
         PROVE  NewSynced(n)'
    <2>1. ASSUME NEW f \in OpenFiles', f >= n
          PROVE  SyncedUpTo(synced'[dirOf'[f]][f], g[f], f = b)
      <3>1. CASE f = b
        <4>1. (f = b) = TRUE
          BY <3>1
        <4> QED BY <1>11, <3>1, <4>1
      <3>2. CASE f # b
        <4>1. f \in OpenFiles /\ dirOf'[f] = dirOf[f] /\ (f = b) = FALSE
          BY <1>8, <2>1, <3>2
        <4>2. PICK r, t : r = g[f] /\ t = synced'[dirOf[f]][f]
          OBVIOUS
        <4>3. SyncedUpTo(synced[dirOf[f]][f], r, f = a)
          BY <1>3, <1>13, <2>1, <4>1, <4>2, NewSyncedIs
        <4>4. t = IF f = a THEN Len(r) ELSE synced[dirOf[f]][f]
          BY <1>1, <1>2, <1>3, <4>1, <4>2, SyncedActiveIs
        <4>5. t = Len(r)
          BY <4>3, <4>4 DEF SyncedUpTo
        <4>6. r \in Seq(Records)
          BY <1>2, <1>3, <1>4, <4>1, <4>2, RunIs DEF IsLog
        <4>7. SyncedUpTo(t, r, FALSE)
          BY <4>3, <4>5, <4>6, WholeSynced
        <4> QED BY <4>1, <4>2, <4>7
      <3> QED BY <3>1, <3>2
    <2> QED BY <1>9, <1>10, <2>1, NewSyncedNext
  <1>14. PICK n : n = fin[dirPath]
    OBVIOUS
  <1>15. dirPath > 0 /\ n \in FileIds => NewSynced(n)'
    <2>1. dirPath > 0 /\ n \in FileIds => NewSynced(n)
      BY <1>1, <1>2, <1>14 DEF SyncInv
    <2> QED BY <1>13, <2>1
  <1>16. nonMergeFileId' = b /\ fin'[dirPath'] = n
    BY <1>1, <1>3, <1>14
  <1> QED BY <1>1, <1>12, <1>15, <1>16 DEF SyncInv, NewSynced

\* The goroutine writes to the disk what it has made, in files the running
\* instance has not.
LEMMA MergeSyncsOwn ==
    ASSUME SyncApartInv, MergeStep, ~MergeStart
    PROVE  /\ phase = "open" /\ phase' = "open" /\ dirOf' = dirOf /\ mpc # "none"
           /\ nonMergeFileId' = nonMergeFileId
           /\ \A f \in OpenFiles : synced'[dirOf[f]][f] = synced[dirOf[f]][f]
  <1>1. /\ mpc # "none" /\ dirOf' = dirOf /\ phase' = phase /\ nonMergeFileId' = nonMergeFileId
    BY DEF MergeStep, MergePrepare, MergeOpen, MergeRecord, MergeSync, MergeFinish, MergeFails
  <1>2. LogApartInv /\ DirsType /\ InstanceType /\ MergeInv /\ ClosedInv /\ OpenInv /\ TypeOK
    BY TypeIs DEF SyncApartInv, LogApartInv, ApartInv
  <1>3. phase = "open"
    BY <1>1, <1>2 DEF ClosedInv
  <1>4. synced \in [Dirs -> [FileIds -> Nat]] /\ OpenFiles \subseteq FileIds
    BY <1>2, ActiveIs DEF DirsType
  <1>5. PICK d : d = dirPath
    OBVIOUS
  <1>6. d \in Dirs /\ d \in Nat
    <2>1. d \in Dirs
      BY <1>2, <1>5 DEF InstanceType
    <2> QED BY <2>1, Sizes
  <1>7. ASSUME NEW f \in OpenFiles
        PROVE  synced'[dirOf[f]][f] = synced[dirOf[f]][f]
    <2>1. PICK e : e = dirOf[f]
      OBVIOUS
    <2>2. e \in Dirs /\ e \in Nat /\ e =< d /\ f \in FileIds
      <3>1. f \in FileIds /\ e # NoDir /\ e =< d
        BY <1>2, <1>3, <1>5, <2>1 DEF OpenInv, OpenFiles
      <3>2. e \in Dirs
        BY <1>2, <2>1, <3>1 DEF InstanceType
      <3> QED BY <3>1, <3>2, Sizes
    <2>3. CASE MergePrepare
      <3>1. PICK o : o = d + 1
        OBVIOUS
      <3>2. synced' = [synced EXCEPT ![o] = [x \in FileIds |-> 0]] /\ e # o
        BY <1>5, <1>6, <2>2, <2>3, <3>1 DEF MergePrepare, Emptied
      <3> QED BY <1>4, <2>1, <2>2, <3>2
    <2>4. CASE MergeRecord \/ MergeSync
      <3>1. mpc = "scan" /\ nonMergeFileId \in FileIds /\ mergeFile \in FileIds \cup {NoFile}
            /\ mergeFile < nonMergeFileId
            /\ (e = d => f > nonMergeFileId)
        <4>1. mpc = "scan"
          BY <2>4 DEF MergeRecord, MergeSync
        <4>2. nonMergeFileId \in OpenFiles /\ mergeFile < nonMergeFileId
              /\ (dirOf[f] = dirPath => f > nonMergeFileId)
          BY <1>2, <4>1 DEF MergeInv
        <4> QED BY <1>2, <1>4, <1>5, <2>1, <4>1, <4>2 DEF InstanceType
      <3>2. PICK m : m = mergeFile
        OBVIOUS
      <3>3. \/ synced' = synced
            \/ \E v : m # NoFile /\ synced' = [synced EXCEPT ![d][m] = v]
        BY <1>5, <2>4, <3>2 DEF MergeRecord, MergeSync, Rewrite, MergeRotates, dirs
      <3>4. e = d => f # m
        <4>1. nonMergeFileId \in Nat /\ f \in Nat /\ m \in Int
          BY <2>2, <3>1, <3>2, Sizes
        <4> QED BY <3>1, <3>2, <4>1
      <3>5. m # NoFile => m \in FileIds
        BY <3>1, <3>2
      <3>6. CASE synced' = synced
        BY <3>6
      <3>7. CASE \E v : m # NoFile /\ synced' = [synced EXCEPT ![d][m] = v]
        <4>1. PICK v : m # NoFile /\ synced' = [synced EXCEPT ![d][m] = v]
          BY <3>7
        <4>2. synced'[e][f] = synced[e][f]
          BY <1>4, <1>6, <2>2, <3>4, <3>5, <4>1
        <4> QED BY <2>1, <4>2
      <3> QED BY <3>3, <3>6, <3>7
    <2>5. CASE MergeOpen \/ MergeFinish \/ MergeFails
      <3>1. synced' = synced
        BY <2>5 DEF MergeOpen, MergeFinish, MergeFails, dirs
      <3> QED BY <3>1
    <2> QED BY <2>3, <2>4, <2>5 DEF MergeStep
  <1> QED BY <1>1, <1>3, <1>7

LEMMA MergeStepKeepsSynced ==
    ASSUME SyncApartInv, MergeStep, ~MergeStart, ~shared'
    PROVE  SyncInv'
  <1>1. /\ phase = "open" /\ phase' = "open" /\ dirOf' = dirOf /\ mpc # "none"
        /\ nonMergeFileId' = nonMergeFileId
        /\ \A f \in OpenFiles : synced'[dirOf[f]][f] = synced[dirOf[f]][f]
    BY MergeSyncsOwn
  <1>2. LogApartInv /\ TypeOK /\ FilesInv /\ MergeInv /\ DirsType /\ InstanceType
    BY TypeIs DEF SyncApartInv, LogApartInv, ApartInv
  <1>3. RunLog' = RunLog
    BY <1>2, MergePrepareKeepsLog, MergeOpenKeepsLog, MergeRecordKeepsLog, MergeSyncKeepsLog,
       MergeFinishKeepsLog, MergeFailsKeepsLog DEF MergeStep
  <1>4. \A n \in FileIds : NewSynced(n) => NewSynced(n)'
    BY <1>1, <1>2, <1>3, QuietSynced
  <1>5. fin \in [Dirs -> FileIds \cup {NoFile, Empty}] /\ dirPath \in Dirs
    BY <1>2 DEF DirsType, InstanceType
  <1>6. NoFile \notin FileIds /\ Empty \notin FileIds
    BY Sizes DEF Empty
  <1>7. ASSUME dirPath' > 0, fin'[dirPath'] \in FileIds
        PROVE  \/ dirPath > 0 /\ fin[dirPath] = fin'[dirPath']
               \/ mpc # "none" /\ nonMergeFileId = fin'[dirPath']
    <2>1. CASE MergePrepare
      <3>1. PICK e : e = dirPath + 1
        OBVIOUS
      <3>2. dirPath' = e /\ fin' = [fin EXCEPT ![e] = NoFile]
        BY <2>1, <3>1 DEF MergePrepare, Emptied
      <3>3. e \in Dirs
        <4>1. dirPath < MaxDir
          BY <1>1, <1>2, <2>1 DEF MergeInv, MergePrepare
        <4> QED BY <1>5, <3>1, <4>1, Sizes
      <3>4. fin'[e] = NoFile
        BY <1>5, <3>2, <3>3
      <3> QED BY <1>6, <1>7, <3>2, <3>4
    <2>2. CASE MergeOpen \/ MergeRecord \/ MergeFails
      <3>1. fin' = fin /\ dirPath' = dirPath
        BY <2>2 DEF MergeOpen, MergeRecord, MergeFails, Rewrite, dirs, options
      <3> QED BY <1>7, <3>1
    <2>3. CASE MergeSync
      <3>1. fin' = [fin EXCEPT ![dirPath] = Empty] /\ dirPath' = dirPath
        BY <2>3 DEF MergeSync, options
      <3>2. fin'[dirPath] = Empty
        BY <1>5, <3>1
      <3> QED BY <1>6, <1>7, <3>1, <3>2
    <2>4. CASE MergeFinish
      <3>1. fin' = [fin EXCEPT ![dirPath] = nonMergeFileId] /\ dirPath' = dirPath
        BY <2>4 DEF MergeFinish, Boundary, options
      <3>2. fin'[dirPath] = nonMergeFileId
        BY <1>5, <3>1
      <3> QED BY <1>1, <3>1, <3>2
    <2> QED BY <2>1, <2>2, <2>3, <2>4 DEF MergeStep
  <1> QED BY <1>1, <1>4, <1>7, SameBoundary

\* No instance runs, or one that has not merged yet.
LEMMA OffKeepsSynced ==
    ASSUME phase' # "open" \/ dirPath' = 0, mpc' = "none"
    PROVE  SyncInv'
  <1>1. ~(dirPath' = 0 /\ dirPath' > 0)
    OBVIOUS
  <1> QED BY <1>1 DEF SyncInv

LEMMA NextKeepsSynced ==
    ASSUME SyncApartInv, CommitsOnly, BatchSync, [Next]_vars, ~shared'
    PROVE  SyncApartInv'
  <1>1. LogApartInv /\ LogApartInv'
    BY NextKeepsLog DEF SyncApartInv
  <1>2. ClosedInv /\ ClosedInv'
    BY <1>1 DEF LogApartInv, ApartInv
  <1>3. DirectClients = {} /\ "swap" \notin Faults /\ "rename" \notin Faults
    BY DEF CommitsOnly
  <1>4. ASSUME NEW c \in BatchClients, CommitIndex(c)
        PROVE  SyncInv'
    <2>1. /\ phase = "open" /\ phase' = "open"
          /\ UNCHANGED <<fin, dirPath, synced, dirOf, writeOff, mpc, nonMergeFileId>>
      BY <1>4 DEF CommitIndex, dirs, options, merge
    <2>2. RunLog' = RunLog /\ TypeOK /\ FilesInv
      BY <1>1, <1>4, CommitIndexKeepsLog DEF LogApartInv, ApartInv
    <2>3. \A n \in FileIds : NewSynced(n) => NewSynced(n)'
      BY <2>1, <2>2, QuietSynced
    <2> QED BY <2>1, <2>3, SameBoundary
  <1>5. ASSUME phase' # "open"
        PROVE  SyncInv'
    BY <1>2, <1>5, OffKeepsSynced DEF ClosedInv
  <1>6. ASSUME Load
        PROVE  SyncInv'
    <2>1. phase = "load" /\ dirPath' = dirPath /\ mpc' = mpc
      BY <1>6 DEF Load, options, merge
    <2>2. dirPath' = 0 /\ mpc' = "none"
      BY <1>2, <2>1 DEF ClosedInv
    <2> QED BY <2>2, OffKeepsSynced
  <1>7. ASSUME UNCHANGED vars
        PROVE  SyncInv'
    <2>1. CASE phase # "open"
      <3>1. phase' # "open"
        BY <1>7, <2>1 DEF vars
      <3> QED BY <1>5, <3>1
    <2>2. CASE phase = "open"
      <3>1. UNCHANGED <<phase, fin, dirPath, synced, dirOf, writeOff, mpc, nonMergeFileId>>
        BY <1>7 DEF vars, dirs, options, merge
      <3>2. RunLog' = RunLog /\ TypeOK /\ FilesInv
        BY <1>1, <1>7, StutterKeepsLog DEF LogApartInv, ApartInv
      <3>3. \A n \in FileIds : NewSynced(n) => NewSynced(n)'
        BY <3>1, <3>2, QuietSynced
      <3> QED BY <2>2, <3>1, <3>3, SameBoundary
    <2> QED BY <2>1, <2>2
  <1>8. ASSUME Close \/ ProcessCrash \/ OpenDB \/ SwapStep
        PROVE  phase' # "open"
    BY <1>8 DEF Close, ProcessCrash, Stop, OpenDB, SwapStep, DeleteMerged, MergedDeleted,
       MoveDataFile, MoveHint, MoveFinished, RemoveLeftOver, SwapFails, OpenRefused
  <1>9. SyncInv'
    BY <1>3, <1>4, <1>5, <1>6, <1>7, <1>8, CommitKeepsSynced, SyncKeepsSynced,
       MergeStartKeepsSynced, MergeStepKeepsSynced DEF Next, MergeStep
  <1> QED BY <1>1, <1>9 DEF SyncApartInv

\* When commits are synced, the records behind the boundary of a merge that
\* count are on the disk, whichever of the two instances made the file, until
\* mergeDB finds a file of the running one.
THEOREM SyncInvariance ==
    ASSUME CommitsOnly, BatchSync
    PROVE  Spec => []SyncIndInv
  <1>1. Init => SyncIndInv
    <2>1. Init => LogApartInv
      BY InitLog
    <2>2. Init => SyncInv
      BY DEF Init, SyncInv
    <2> QED BY <2>1, <2>2 DEF SyncIndInv, SyncApartInv
  <1>2. SyncIndInv /\ [Next]_vars => SyncIndInv'
    BY NextKeepsSynced, SharedStays DEF SyncIndInv
  <1> QED BY <1>1, <1>2, PTL DEF Spec

\* Behind n a record that counts is on the disk.
LEMMA CountedSynced ==
    ASSUME TypeOK, FilesInv, EndsLast(RunLog), NEW n \in Nat, NewSynced(n),
           NEW k, NEW p \in Positions, Counts(RunLog, n, k, p)
    PROVE  p.off < synced[dirOf[p.fid]][p.fid]
  <1>1. PICK g, f : g = RunLog /\ f = p.fid
    OBVIOUS
  <1>2. IsLog(g) /\ InstanceType /\ OpenFiles \subseteq FileIds
    BY <1>1, RunIs, TypeIs, ActiveIs
  <1>3. /\ p \in Places(g, n)
        /\ Rec(g, p).seq = 0 \/ \E q \in Places(g, n) :
               Rec(g, q).seq = Rec(g, p).seq /\ Rec(g, q).val = Finished
    BY <1>1 DEF Counts, Ended
  <1>4. ASSUME NEW q, q \in Places(g, n)
        PROVE  /\ q.fid \in OpenFiles /\ q.fid >= n /\ q.fid \in Nat /\ q.off \in Nat
               /\ q.off < Len(g[q.fid]) /\ q.off + 1 \in 1 .. Len(g[q.fid])
    <2>1. /\ q.fid \in FileIds /\ q.fid >= n /\ q.off \in Nat /\ q.off < Len(g[q.fid])
          /\ q.off + 1 \in 1 .. Len(g[q.fid])
      BY <1>2, <1>4, PlaceIs
    <2>2. g[q.fid] # <<>>
      BY <2>1
    <2>3. q.fid \in OpenFiles
      BY <1>1, <2>1, <2>2 DEF RunLog, OpenFiles
    <2> QED BY <2>1, <2>3, Sizes
  <1>5. \A e \in OpenFiles : e >= n => SyncedUpTo(synced[dirOf[e]][e], g[e], e = ActiveFile)
    BY <1>1, NewSyncedIs
  <1>6. Rec(g, p).seq # 0
    <2>1. SyncedUpTo(synced[dirOf[f]][f], g[f], f = ActiveFile)
      BY <1>1, <1>3, <1>4, <1>5
    <2>2. p.off + 1 \in 1 .. Len(g[f])
      BY <1>1, <1>3, <1>4
    <2> QED BY <1>1, <2>1, <2>2 DEF SyncedUpTo, Rec
  <1>7. PICK q \in Places(g, n) : Rec(g, q).seq = Rec(g, p).seq /\ Rec(g, q).val = Finished
    BY <1>3, <1>6
  <1>8. p = q \/ Before(p, q)
    <2>1. p \in Places(g, 0) /\ q \in Places(g, 0)
      BY <1>3, PlacesFrom
    <2> QED BY <1>1, <1>6, <1>7, <2>1 DEF EndsLast
  <1>9. PICK t : t = synced[dirOf[f]][f]
    OBVIOUS
  <1>10. SyncedUpTo(t, g[f], f = ActiveFile) /\ t \in Nat
    <2>1. SyncedUpTo(t, g[f], f = ActiveFile)
      BY <1>1, <1>3, <1>4, <1>5, <1>9
    <2>2. t \in Nat
      <3>1. f \in FileIds /\ dirOf[f] \in Dirs
        BY <1>1, <1>2, <1>3, <1>4 DEF OpenFiles, InstanceType
      <3>2. DirsType
        BY TypeIs
      <3> QED BY <1>9, <3>1, <3>2 DEF DirsType
    <2> QED BY <2>1, <2>2
  <1>11. CASE q.fid = f
    <2>1. q.off + 1 \in 1 .. Len(g[f]) /\ g[f][q.off + 1].val = Finished
      BY <1>4, <1>7, <1>11 DEF Rec
    <2>2. q.off + 1 =< t
      BY <1>10, <2>1 DEF SyncedUpTo
    <2>3. p.off =< q.off /\ p.off \in Nat /\ q.off \in Nat
      <3>1. p.off \in Nat /\ q.off \in Nat /\ f \in Nat
        BY <1>1, <1>3, <1>4, <1>7
      <3> QED BY <1>1, <1>8, <1>11, <3>1 DEF Before
    <2> QED BY <1>1, <1>9, <1>10, <2>2, <2>3
  <1>12. CASE q.fid # f
    <2>1. f < q.fid
      BY <1>1, <1>8, <1>12 DEF Before
    <2>2. q.fid =< ActiveFile /\ q.fid \in Nat /\ f \in Nat /\ ActiveFile \in Int
      BY <1>1, <1>2, <1>3, <1>4, <1>7, ActiveIs, Sizes
    <2>3. f # ActiveFile
      BY <2>1, <2>2
    <2>4. t = Len(g[f])
      BY <1>10, <2>3 DEF SyncedUpTo
    <2> QED BY <1>1, <1>3, <1>4, <1>9, <2>4
  <1> QED BY <1>11, <1>12

\* Merge copies the value of a key or leaves it to a newer record, which is
\* then on the disk as the old one was: the swap loses nothing a crash of the
\* machine would not have lost before it.
THEOREM MergedValuesAlwaysDurable ==
    ASSUME CommitsOnly, BatchSync
    PROVE  Spec => []MergedValueDurable
  <1>1. ASSUME SyncIndInv
        PROVE  MergedValueDurable
    <2> SUFFICES ASSUME SyncApartInv, phase = "open",
                        dirPath > 0, fin[dirPath] \in FileIds, NEW k \in Keys,
                        NEW all, all = Effective(dirOf, 0, k),
                        NEW old, old = {p \in all : p.fid < fin[dirPath]},
                        old # {}, RecAt(Last(old)).val # Tombstone, hint[dirPath][k] = NoPos
                 PROVE  \E p \in all \ old : p.off < synced[dirOf[p.fid]][p.fid]
      BY <1>1 DEF MergedValueDurable, SyncIndInv
    <2>1. /\ LogApartInv /\ TypeOK /\ FilesInv /\ BatchInv /\ ScanInv /\ SyncInv
      BY DEF SyncApartInv, LogApartInv, LogInv, ApartInv
    <2>2. PICK g, n, e : g = RunLog /\ n = fin[dirPath] /\ e = index[k]
      OBVIOUS
    <2>3. n \in Nat /\ IsLog(g) /\ EndsLast(g) /\ NewSynced(n)
      BY <2>1, <2>2, RunIs, Sizes DEF BatchInv, SyncInv
    <2>4. all = {p \in Positions : Counts(g, 0, k, p)}
      <3>1. RunLog = LogView(data, dirOf)
        BY <2>1, RunIs
      <3> QED BY <2>2, <3>1, EffectiveIs
    <2>5. PICK l : l = Last(old)
      OBVIOUS
    <2>6. l \in old /\ \A q \in old \ {l} : Before(q, l)
      <3>1. old \subseteq Positions
        BY <2>4
      <3> QED BY <2>5, <3>1, LastIs
    <2>7. l \in Positions /\ Counts(g, 0, k, l) /\ Rec(g, l).val # Tombstone
      <3>1. l \in Positions /\ Counts(g, 0, k, l)
        BY <2>4, <2>6
      <3>2. RecAt(l) = Rec(g, l)
        BY <2>1, <2>2, <3>1, RunIs DEF Counts
      <3> QED BY <2>5, <3>1, <3>2
    <2>8. ~NoneCounts(g, n, k)
      <3> SUFFICES ASSUME NoneCounts(g, n, k)
                   PROVE  FALSE
        OBVIOUS
      <3>1. Tells(g, k, e)
        BY <2>1, <2>2, MergedTold
      <3>2. Copied(k)
        BY <2>1, <2>2 DEF ScanInv
      <3>3. e = NoPos
        BY <2>2, <3>2 DEF Copied
      <3>4. ~NoneCounts(g, 0, k)
        BY <2>7 DEF NoneCounts
      <3>5. PICK p \in Positions : IsNewest(g, 0, k, p) /\ Rec(g, p).val = Tombstone
        BY <3>1, <3>3, <3>4, Sizes DEF Tells
      <3>6. Counts(g, 0, k, p) /\ (l = p \/ Before(l, p))
        BY <2>7, <3>5 DEF IsNewest
      <3>7. p.fid < n
        <4>1. ~Counts(g, n, k, p)
          BY DEF NoneCounts
        <4>2. ~(p.fid >= n)
          BY <2>3, <3>6, <4>1, CountsFrom
        <4>3. p.fid \in Nat
          BY Sizes
        <4> QED BY <2>3, <4>2, <4>3
      <3>8. p \in old
        BY <2>2, <2>4, <3>6, <3>7
      <3>9. l = p
        BY <2>6, <2>7, <3>6, <3>8, BeforeIs
      <3> QED BY <2>7, <3>5, <3>9
    <2>9. PICK p \in Positions : Counts(g, n, k, p)
      BY <2>8 DEF NoneCounts
    <2>10. p \in all \ old
      <3>1. Counts(g, 0, k, p) /\ p.fid >= n
        BY <2>3, <2>9, CountsFrom
      <3>2. p.fid \in Nat
        BY Sizes
      <3>3. ~(p.fid < n)
        BY <2>3, <3>1, <3>2
      <3> QED BY <2>2, <2>4, <3>1, <3>3
    <2>11. p.off < synced[dirOf[p.fid]][p.fid]
      BY <2>1, <2>2, <2>3, <2>9, CountedSynced
    <2> QED BY <2>10, <2>11
  <1> QED BY <1>1, SyncInvariance, PTL
=============================================================================
