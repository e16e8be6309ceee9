--------------------------- MODULE DataFileProofs ---------------------------
(***************************************************************************)
(* What a Get reads in a data file that is cut, torn and extended again,   *)
(* for every value of the constants: FileIndInv is inductive.              *)
(***************************************************************************)
EXTENDS DataFileInvariant, TLAPS, WellFoundedInduction

USE DEF HeaderCells

-----------------------------------------------------------------------------
\* Sequences and records

LEMMA RecordIs ==
    ASSUME NEW rec \in Records
    PROVE  /\ rec.key \in Keys /\ rec.val \in Values \cup {Tombstone}
           /\ Size(rec) \in {5, 6} /\ Size(rec) \in Nat
           /\ rec = [key |-> rec.key, val |-> rec.val]
           /\ rec # EOF /\ rec # ErrInvalidCRC /\ rec # ErrKeyNotFound
  <1>1. DOMAIN rec = {"key", "val"}
    BY DEF Records
  <1>2. DOMAIN EOF = {"err"} /\ DOMAIN ErrInvalidCRC = {"err"} /\ DOMAIN ErrKeyNotFound = {"err"}
    BY DEF EOF, ErrInvalidCRC, ErrKeyNotFound
  <1>3. rec.key \in Keys /\ rec.val \in Values \cup {Tombstone}
        /\ Size(rec) \in {5, 6} /\ Size(rec) \in Nat
        /\ rec = [key |-> rec.key, val |-> rec.val]
    BY DEF Records, Size
  <1> QED BY <1>1, <1>2, <1>3

LEMMA EncodedIs ==
    ASSUME NEW rec \in Records
    PROVE  /\ Encoded(rec) \in Seq(Cells) /\ Len(Encoded(rec)) = Size(rec)
           /\ \A i \in 1 .. Size(rec) :
                 /\ Encoded(rec)[i] = [rec |-> rec, field |-> i]
                 /\ Encoded(rec)[i] # Zero
                 /\ Encoded(rec)[i].rec = rec /\ Encoded(rec)[i].field = i
  <1>1. Size(rec) \in {5, 6}
    BY RecordIs
  <1>2. \A i \in 1 .. Size(rec) : Encoded(rec)[i] = [rec |-> rec, field |-> i]
    BY DEF Encoded
  <1>3. \A i \in 1 .. Size(rec) : [rec |-> rec, field |-> i] \in Cells
    BY <1>1 DEF Cells
  <1>4. Encoded(rec) \in [1 .. Size(rec) -> Cells]
    BY <1>3 DEF Encoded
  <1>5. PICK e, n : e = Encoded(rec) /\ n = Size(rec)
    OBVIOUS
  <1>6. e \in Seq(Cells) /\ Len(e) = n
    BY <1>1, <1>4, <1>5
  <1> QED BY <1>1, <1>2, <1>5, <1>6 DEF Zero

LEMMA EncodedCell ==
    ASSUME NEW rec \in Records, NEW i \in 1 .. Size(rec)
    PROVE  /\ Encoded(rec)[i] # Zero
           /\ Encoded(rec)[i].rec = rec /\ Encoded(rec)[i].field = i
  BY EncodedIs

\* StartsWith compares cell by cell.
LEMMA StartsWithIs ==
    ASSUME NEW S, NEW s \in Seq(S), NEW t \in Seq(S)
    PROVE  StartsWith(s, t) <=> Len(t) =< Len(s) /\ \A i \in 1 .. Len(t) : s[i] = t[i]
  <1>1. CASE Len(t) =< Len(s)
    <2>1. PICK u : u = SubSeq(s, 1, Len(t))
      OBVIOUS
    <2>2. u \in Seq(S) /\ Len(u) = Len(t) /\ \A i \in 1 .. Len(t) : u[i] = s[i]
      BY <1>1, <2>1
    <2>3. u = t <=> \A i \in 1 .. Len(t) : u[i] = t[i]
      BY <2>2
    <2> QED BY <1>1, <2>1, <2>2, <2>3 DEF StartsWith
  <1>2. CASE ~(Len(t) =< Len(s))
    BY <1>2 DEF StartsWith
  <1> QED BY <1>1, <1>2

LEMMA FromIs ==
    ASSUME bytes \in Seq(Cells), NEW off \in Nat
    PROVE  /\ From(off) \in Seq(Cells)
           /\ Len(From(off)) = IF off =< Len(bytes) THEN Len(bytes) - off ELSE 0
           /\ \A i \in 1 .. Len(From(off)) : From(off)[i] = bytes[off + i]
  BY DEF From

\* A record stands at off where the bytes from there on start with it.
LEMMA StandsIs ==
    ASSUME bytes \in Seq(Cells), NEW off \in Nat, NEW rec \in Records
    PROVE  StartsWith(From(off), Encoded(rec)) <=> Stands(bytes, off, rec)
  <1>1. PICK s, t : s = From(off) /\ t = Encoded(rec)
    OBVIOUS
  <1>2. /\ s \in Seq(Cells) /\ t \in Seq(Cells) /\ Len(t) = Size(rec)
        /\ Len(s) = IF off =< Len(bytes) THEN Len(bytes) - off ELSE 0
        /\ \A i \in 1 .. Len(s) : s[i] = bytes[off + i]
    <2>1. /\ s \in Seq(Cells)
          /\ Len(s) = IF off =< Len(bytes) THEN Len(bytes) - off ELSE 0
          /\ \A i \in 1 .. Len(s) : s[i] = bytes[off + i]
      BY <1>1, FromIs, Zenon
    <2>2. t \in Seq(Cells) /\ Len(t) = Size(rec)
      BY <1>1, EncodedIs, Zenon
    <2> QED BY <2>1, <2>2
  <1>3. StartsWith(s, t) <=> Len(t) =< Len(s) /\ \A i \in 1 .. Len(t) : s[i] = t[i]
    BY <1>2, StartsWithIs
  <1>4. Size(rec) \in {5, 6} /\ Len(bytes) \in Nat
    BY RecordIs
  <1>5. Len(t) =< Len(s) <=> off + Size(rec) =< Len(bytes)
    BY <1>2, <1>4
  <1>6. Len(t) =< Len(s) =>
          ((\A i \in 1 .. Len(t) : s[i] = t[i]) <=>
           (\A i \in 1 .. Size(rec) : bytes[off + i] = t[i]))
    <2>1. ASSUME Len(t) =< Len(s), NEW i \in 1 .. Len(t)
          PROVE  s[i] = bytes[off + i]
      <3>1. i \in 1 .. Len(s)
        BY <1>2, <1>4, <2>1
      <3> QED BY <1>2, <3>1
    <2> QED BY <1>2, <2>1
  <1> QED BY <1>1, <1>2, <1>3, <1>5, <1>6 DEF Stands

\* One record stands at a place, at most.
LEMMA OneStands ==
    ASSUME NEW b, NEW off, NEW rec \in Records, NEW o \in Records,
           Stands(b, off, rec), Stands(b, off, o)
    PROVE  rec = o
  <1>1. b[off + 1] = Encoded(rec)[1] /\ b[off + 1] = Encoded(o)[1]
    BY RecordIs DEF Stands
  <1>2. 1 \in 1 .. Size(rec) /\ 1 \in 1 .. Size(o)
    BY RecordIs
  <1>3. Encoded(rec)[1].rec = rec /\ Encoded(o)[1].rec = o
    BY <1>2, EncodedIs
  <1> QED BY <1>1, <1>3

LEMMA ReadWhole ==
    ASSUME bytes \in Seq(Cells), NEW off \in Nat, NEW rec \in Records, Stands(bytes, off, rec)
    PROVE  ReadLogRecord(off) = {rec}
  <1>1. {r \in Records : StartsWith(From(off), Encoded(r))} = {rec}
    BY StandsIs, OneStands
  <1>2. Len(From(off)) > 1
    BY FromIs, RecordIs DEF Stands
  <1> QED BY <1>1, <1>2 DEF ReadLogRecord

\* What ReadLogRecord returns is the record that stands there, or no record.
LEMMA ReadIs ==
    ASSUME bytes \in Seq(Cells), NEW off \in Nat
    PROVE  /\ \A rec \in ReadLogRecord(off) \cap Records : Stands(bytes, off, rec)
           /\ EOF \in ReadLogRecord(off) => Torn(bytes, off)
  <1>1. PICK whole : whole = {r \in Records : StartsWith(From(off), Encoded(r))}
    OBVIOUS
  <1>2. \A r \in whole : r \in Records /\ Stands(bytes, off, r)
    BY <1>1, StandsIs
  <1>3. ReadLogRecord(off) = whole \/ ReadLogRecord(off) \subseteq {EOF, ErrInvalidCRC}
    BY <1>1 DEF ReadLogRecord, CutOutcome, Mixed
  <1>4. \A rec \in ReadLogRecord(off) \cap Records : Stands(bytes, off, rec)
    BY <1>2, <1>3, RecordIs
  <1>5. ASSUME NEW rec \in Records, Stands(bytes, off, rec)
        PROVE  EOF \notin ReadLogRecord(off)
    BY <1>5, ReadWhole, RecordIs
  <1> QED BY <1>4, <1>5 DEF Torn

-----------------------------------------------------------------------------
\* Rows of whole records

\* Field i of rec is the cell s of b.
Cell(b, s, rec, i) ==
    b[s] = [rec |-> rec, field |-> i] /\ b[s].rec = rec /\ b[s].field = i

LEMMA StandingCells ==
    ASSUME NEW b, NEW off \in Nat, NEW rec \in Records, NEW n, n = off + Size(rec),
           Stands(b, off, rec)
    PROVE  /\ n \in Nat /\ n =< Len(b) /\ off < n
           /\ \A s \in (off + 1) .. n : Cell(b, s, rec, s - off)
           /\ Boundary(b, n)
  <1>1. Size(rec) \in {5, 6}
    BY RecordIs
  <1>2. ASSUME NEW s \in (off + 1) .. n
        PROVE  Cell(b, s, rec, s - off)
    <2>1. PICK i : i = s - off
      OBVIOUS
    <2>2. i \in 1 .. Size(rec) /\ s = off + i
      BY <1>1, <2>1
    <2>3. b[s] = Encoded(rec)[i]
      BY <2>2 DEF Stands
    <2>4. Encoded(rec)[i] = [rec |-> rec, field |-> i]
      BY <2>2, EncodedIs
    <2>5. Encoded(rec)[i].rec = rec /\ Encoded(rec)[i].field = i
      BY <2>2, EncodedIs
    <2>6. Cell(b, s, rec, i)
      BY <2>3, <2>4, <2>5, Zenon DEF Cell
    <2> QED BY <2>1, <2>6
  <1>3. n \in (off + 1) .. n /\ n - off = Size(rec)
    BY <1>1
  <1>4. b[n].rec = rec /\ b[n].field = n - off
    BY <1>2, <1>3 DEF Cell
  <1>5. Boundary(b, n)
    BY <1>3, <1>4 DEF Boundary
  <1>6. n \in Nat /\ n =< Len(b) /\ off < n
    BY <1>1 DEF Stands
  <1> QED BY <1>2, <1>5, <1>6

\* A record that has begun among them is there as a whole.
LEMMA BeginsStands ==
    ASSUME NEW b \in Seq(Cells), NEW n \in Nat, Whole(b, n),
           NEW off \in 0 .. (n - 1), b[off + 1].field = 1
    PROVE  \E rec \in Records :
              rec = b[off + 1].rec /\ Stands(b, off, rec) /\ off + Size(rec) =< n
  <1>1. PICK rec : rec = b[off + 1].rec
    OBVIOUS
  <1>2. off + 1 \in 1 .. n /\ n =< Len(b)
    BY DEF Whole
  <1>3. rec \in Records /\ Size(rec) \in {5, 6}
    BY <1>1, <1>2, RecordIs DEF Whole
  <1>4. b[off + 1] = [rec |-> rec, field |-> 1]
    <2>1. b[off + 1] \in Cells
      BY <1>2
    <2>2. b[off + 1] # Zero
      BY DEF Zero
    <2> QED BY <1>1, <2>1, <2>2 DEF Cells
  <1>5. ASSUME NEW i \in 1 .. 5, i < Size(rec), off + i =< n,
               b[off + i] = [rec |-> rec, field |-> i]
        PROVE  off + (i + 1) =< n /\ b[off + (i + 1)] = [rec |-> rec, field |-> i + 1]
    <2>1. off + i \in 1 .. n /\ b[off + i].rec = rec /\ b[off + i].field = i
      BY <1>5
    <2>2. PICK s : s = off + i
      OBVIOUS
    <2>3. s \in 1 .. n /\ b[s].rec = rec /\ b[s].field = i
      BY <2>1, <2>2
    <2>4. s < n /\ b[s + 1] = [rec |-> rec, field |-> i + 1]
      BY <1>5, <2>3 DEF Whole
    <2>5. s + 1 = off + (i + 1) /\ off + (i + 1) =< n
      BY <2>2, <2>4
    <2> QED BY <2>4, <2>5
  <1>6. off + 2 =< n /\ b[off + 2] = [rec |-> rec, field |-> 2]
    BY <1>2, <1>3, <1>4, <1>5
  <1>7. off + 3 =< n /\ b[off + 3] = [rec |-> rec, field |-> 3]
    BY <1>3, <1>5, <1>6
  <1>8. off + 4 =< n /\ b[off + 4] = [rec |-> rec, field |-> 4]
    BY <1>3, <1>5, <1>7
  <1>9. off + 5 =< n /\ b[off + 5] = [rec |-> rec, field |-> 5]
    BY <1>3, <1>5, <1>8
  <1>10. Size(rec) = 6 => off + 6 =< n /\ b[off + 6] = [rec |-> rec, field |-> 6]
    BY <1>5, <1>9
  <1>11. off + Size(rec) =< n
    BY <1>3, <1>9, <1>10
  <1>12. ASSUME NEW i \in 1 .. Size(rec)
         PROVE  b[off + i] = Encoded(rec)[i]
    <2>1. i \in {1, 2, 3, 4, 5} \/ (i = 6 /\ Size(rec) = 6)
      BY <1>3
    <2>2. b[off + i] = [rec |-> rec, field |-> i]
      BY <1>4, <1>6, <1>7, <1>8, <1>9, <1>10, <2>1
    <2> QED BY <1>3, <2>2, EncodedIs
  <1>13. Stands(b, off, rec)
    BY <1>2, <1>3, <1>11, <1>12 DEF Stands
  <1> QED BY <1>1, <1>3, <1>11, <1>13

\* Where one ends and more follow, the next begins.
LEMMA BoundaryBegins ==
    ASSUME NEW b, NEW n \in Nat, Whole(b, n), NEW off \in 0 .. (n - 1), Boundary(b, off)
    PROVE  b[off + 1].field = 1
  <1>1. CASE off = 0
    BY <1>1 DEF Whole
  <1>2. CASE off # 0
    <2>1. off \in 1 .. n /\ off < n /\ b[off].field = Size(b[off].rec)
      BY <1>2 DEF Boundary
    <2> QED BY <2>1 DEF Whole
  <1> QED BY <1>1, <1>2

\* The first n cells of b and c are the same.
SameTo(b, c, n) == n =< Len(c) /\ \A i \in 1 .. n : c[i] = b[i]

LEMMA WholeKept ==
    ASSUME NEW b, NEW c, NEW n \in Nat, Whole(b, n), SameTo(b, c, n)
    PROVE  Whole(c, n)
  <1>1. n > 0 => 1 \in 1 .. n
    OBVIOUS
  <1>2. \A i \in 1 .. n : i < n => i + 1 \in 1 .. n
    OBVIOUS
  <1> QED BY <1>1, <1>2 DEF Whole, SameTo

LEMMA NewestKept ==
    ASSUME NEW b, NEW c, NEW n \in Nat, SameTo(b, c, n), NEW k
    PROVE  /\ \A s : IsNewest(c, n, k, s) <=> IsNewest(b, n, k, s)
           /\ \A s \in 0 .. (n - 1) : c[s + 1] = b[s + 1]
  <1>1. \A s \in 0 .. (n - 1) : c[s + 1] = b[s + 1]
    BY DEF SameTo
  <1>2. \A s \in 0 .. (n - 1) : Begins(c, s, k) <=> Begins(b, s, k)
    BY <1>1 DEF Begins
  <1>3. ASSUME NEW s \in 0 .. (n - 1), NEW t \in (s + 1) .. (n - 1)
        PROVE  t \in 0 .. (n - 1)
    OBVIOUS
  <1>4. ASSUME NEW s
        PROVE  IsNewest(c, n, k, s) <=> IsNewest(b, n, k, s)
    BY <1>2, <1>3 DEF IsNewest
  <1> QED BY <1>1, <1>4

LEMMA ReadingsKept ==
    ASSUME NEW b, NEW c, NEW n \in Nat, SameTo(b, c, n), NEW k
    PROVE  /\ \A off : Indexed(b, n, k, off) => Indexed(c, n, k, off)
           /\ \A v : Valued(b, n, k, v) => Valued(c, n, k, v)
  <1>1. \A s : IsNewest(c, n, k, s) <=> IsNewest(b, n, k, s)
    BY NewestKept
  <1>2. \A s \in 0 .. (n - 1) : c[s + 1] = b[s + 1]
    BY NewestKept
  <1>3. Deleted(b, n, k) => Deleted(c, n, k)
    BY <1>1, <1>2 DEF Deleted
  <1>4. \A s : IsNewest(b, n, k, s) => s \in 0 .. (n - 1)
    BY DEF IsNewest
  <1> QED BY <1>1, <1>2, <1>3, <1>4 DEF Indexed, Valued

LEMMA BoundaryKept ==
    ASSUME NEW b, NEW c, NEW n \in Nat, SameTo(b, c, n), NEW off \in 0 .. n, Boundary(b, off)
    PROVE  Boundary(c, off)
  BY DEF Boundary, SameTo

LEMMA StandsKept ==
    ASSUME NEW b, NEW c, NEW n \in Nat, SameTo(b, c, n), NEW off \in Nat, NEW rec \in Records,
           off + Size(rec) =< n, Len(c) \in Nat, Stands(b, off, rec)
    PROVE  Stands(c, off, rec)
  <1>1. Size(rec) \in Nat
    BY RecordIs
  <1>2. \A i \in 1 .. Size(rec) : off + i \in 1 .. n
    BY <1>1
  <1> QED BY <1>1, <1>2 DEF Stands, SameTo

\* One more record: the newest of its key.
LEMMA NewestAfter ==
    ASSUME NEW b, NEW off \in Nat, NEW rec \in Records, Stands(b, off, rec), NEW k
    PROVE  /\ k # rec.key => \A s : IsNewest(b, off + Size(rec), k, s) <=> IsNewest(b, off, k, s)
           /\ k = rec.key => \A s : IsNewest(b, off + Size(rec), k, s) <=> s = off
  <1>1. PICK n : n = off + Size(rec)
    OBVIOUS
  <1>2. n \in Nat /\ off < n
    BY <1>1, StandingCells
  <1>c. \A s \in (off + 1) .. n : Cell(b, s, rec, s - off)
    BY <1>1, StandingCells
  <1>3. Begins(b, off, k) <=> k = rec.key
    <2>1. off + 1 \in (off + 1) .. n /\ (off + 1) - off = 1
      BY <1>2
    <2> QED BY <1>c, <2>1 DEF Begins, Cell
  <1>4. ASSUME NEW t \in (off + 1) .. (n - 1)
        PROVE  ~Begins(b, t, k)
    <2>1. t + 1 \in (off + 1) .. n /\ (t + 1) - off # 1
      BY <1>2
    <2> QED BY <1>c, <2>1 DEF Begins, Cell
  <1>5. \A s : s \in 0 .. (n - 1) <=> s \in 0 .. (off - 1) \/ s = off \/ s \in (off + 1) .. (n - 1)
    BY <1>2
  <1>6. ASSUME k # rec.key, NEW s
        PROVE  IsNewest(b, n, k, s) <=> IsNewest(b, off, k, s)
    <2>1. s \in 0 .. (off - 1) =>
             \A t : t \in (s + 1) .. (n - 1) <=>
                       t \in (s + 1) .. (off - 1) \/ t = off \/ t \in (off + 1) .. (n - 1)
      BY <1>2
    <2> QED BY <1>3, <1>4, <1>5, <1>6, <2>1 DEF IsNewest
  <1>7. ASSUME k = rec.key, NEW s
        PROVE  IsNewest(b, n, k, s) <=> s = off
    <2>1. s \in 0 .. (off - 1) => off \in (s + 1) .. (n - 1)
      BY <1>2
    <2> QED BY <1>3, <1>4, <1>5, <1>7, <2>1 DEF IsNewest
  <1> QED BY <1>1, <1>6, <1>7

\* What an index has after one more record.
EntryOf(rec, off) == IF rec.val = Tombstone THEN NoOffset ELSE off

LEMMA ReadingsAfter ==
    ASSUME NEW b, NEW off \in Nat, NEW rec \in Records, Stands(b, off, rec), NEW k
    PROVE  /\ k # rec.key => \A o : Indexed(b, off, k, o) => Indexed(b, off + Size(rec), k, o)
           /\ k # rec.key => \A v : Valued(b, off, k, v) => Valued(b, off + Size(rec), k, v)
           /\ k = rec.key => Indexed(b, off + Size(rec), k, EntryOf(rec, off))
           /\ k = rec.key => Valued(b, off + Size(rec), k, ValueOf(rec))
  <1>1. PICK n : n = off + Size(rec)
    OBVIOUS
  <1>2. n \in Nat /\ off \in 0 .. (n - 1) /\ b[off + 1].rec = rec
    <2>1. n \in Nat /\ off < n
      BY <1>1, StandingCells
    <2>2. \A s \in (off + 1) .. n : Cell(b, s, rec, s - off)
      BY <1>1, StandingCells
    <2>3. off + 1 \in (off + 1) .. n
      BY <2>1
    <2>4. off \in 0 .. (n - 1)
      BY <2>1
    <2>5. b[off + 1].rec = rec
      BY <2>2, <2>3 DEF Cell
    <2> QED BY <2>1, <2>4, <2>5
  <1>3. \A m, s : IsNewest(b, m, k, s) => s \in 0 .. (m - 1)
    BY DEF IsNewest
  <1>4. ASSUME k # rec.key
        PROVE  /\ \A o : Indexed(b, off, k, o) => Indexed(b, n, k, o)
               /\ \A v : Valued(b, off, k, v) => Valued(b, n, k, v)
    <2>1. \A s : IsNewest(b, n, k, s) <=> IsNewest(b, off, k, s)
      BY <1>1, <1>4, NewestAfter
    <2>2. Deleted(b, off, k) => Deleted(b, n, k)
      BY <1>3, <2>1 DEF Deleted
    <2>3. \A o : Indexed(b, off, k, o) => Indexed(b, n, k, o)
      BY <2>1, <2>2 DEF Indexed
    <2>4. \A v : Valued(b, off, k, v) => Valued(b, n, k, v)
      BY <1>3, <2>1, <2>2 DEF Valued
    <2> QED BY <2>3, <2>4
  <1>5. ASSUME k = rec.key
        PROVE  /\ Indexed(b, n, k, EntryOf(rec, off))
               /\ Valued(b, n, k, ValueOf(rec))
    <2>1. \A s : IsNewest(b, n, k, s) <=> s = off
      BY <1>1, <1>5, NewestAfter
    <2>2. CASE rec.val = Tombstone
      <3>1. Deleted(b, n, k)
        BY <1>2, <2>1, <2>2 DEF Deleted
      <3> QED BY <2>2, <3>1 DEF Indexed, Valued, EntryOf, ValueOf
    <2>3. CASE rec.val # Tombstone
      <3>1. off # NoOffset /\ rec.val # Nothing
        BY <2>3, RecordIs, DataFileAssumption DEF NoOffset
      <3> QED BY <1>2, <2>1, <2>3, <3>1 DEF Indexed, Valued, EntryOf, ValueOf
    <2> QED BY <2>2, <2>3
  <1> QED BY <1>1, <1>4, <1>5

\* A record behind whole records makes one more of them.
LEMMA WholeAfter ==
    ASSUME NEW b, NEW n \in Nat, Whole(b, n), NEW rec \in Records, Stands(b, n, rec)
    PROVE  Whole(b, n + Size(rec))
  <1>1. PICK m : m = n + Size(rec)
    OBVIOUS
  <1>2. Size(rec) \in {5, 6} /\ m \in Nat /\ m =< Len(b) /\ n < m
    BY <1>1, RecordIs DEF Stands
  <1>3. \A s \in (n + 1) .. m : Cell(b, s, rec, s - n)
    BY <1>1, StandingCells
  <1>4. ASSUME NEW i \in 1 .. m
        PROVE  /\ b[i].rec \in Records /\ b[i].field \in 1 .. Size(b[i].rec)
               /\ b[i].field < Size(b[i].rec) =>
                     i < m /\ b[i + 1] = [rec |-> b[i].rec, field |-> b[i].field + 1]
               /\ b[i].field = Size(b[i].rec) /\ i < m => b[i + 1].field = 1
    <2>1. CASE i \in 1 .. n
      <3>1. /\ b[i].rec \in Records /\ b[i].field \in 1 .. Size(b[i].rec)
            /\ b[i].field < Size(b[i].rec) =>
                  i < n /\ b[i + 1] = [rec |-> b[i].rec, field |-> b[i].field + 1]
            /\ b[i].field = Size(b[i].rec) /\ i < n => b[i + 1].field = 1
        BY <2>1 DEF Whole
      <3>2. i = n => b[i + 1].field = 1
        <4>1. i = n => i + 1 \in (n + 1) .. m /\ (i + 1) - n = 1
          BY <1>2
        <4> QED BY <1>3, <4>1 DEF Cell
      <3> QED BY <1>2, <2>1, <3>1, <3>2
    <2>2. CASE i \notin 1 .. n
      <3>1. i \in (n + 1) .. m
        BY <1>2, <2>2
      <3>2. b[i].rec = rec /\ b[i].field = i - n
        BY <1>3, <3>1 DEF Cell
      <3>3. i < m => b[i + 1] = [rec |-> rec, field |-> (i - n) + 1]
        <4>1. i < m => i + 1 \in (n + 1) .. m /\ (i + 1) - n = (i - n) + 1
          BY <1>2, <3>1
        <4> QED BY <1>3, <4>1 DEF Cell
      <3>4. i - n \in 1 .. Size(rec) /\ (i < m <=> i - n < Size(rec))
        BY <1>1, <1>2, <3>1
      <3> QED BY <3>2, <3>3, <3>4
    <2> QED BY <2>1, <2>2
  <1>5. b[1].field = 1
    <2>1. CASE n = 0
      <3>1. 1 \in (n + 1) .. m /\ 1 - n = 1
        BY <1>2, <2>1
      <3> QED BY <1>3, <3>1 DEF Cell
    <2>2. CASE n > 0
      BY <2>2 DEF Whole
    <2> QED BY <2>1, <2>2
  <1> QED BY <1>1, <1>2, <1>4, <1>5 DEF Whole

-----------------------------------------------------------------------------
\* The last acknowledged record of a key and those behind it

LEMMA SmallestOf ==
    ASSUME NEW S, S \subseteq Nat, S # {}
    PROVE  \E m \in S : \A x \in S : m =< x
  <1>1. PICK m \in S : \A x \in S : ~ (<<x, m>> \in OpToRel(<, Nat))
    BY NatLessThanWellFounded, WFMin, Zenon
  <1>2. ASSUME NEW x \in S
        PROVE  m =< x
    <2>1. x \in Nat /\ m \in Nat
      OBVIOUS
    <2>2. ~ (x < m)
      BY <1>1, <2>1 DEF OpToRel
    <2> QED BY <2>1, <2>2
  <1> QED BY <1>2

\* A key that has a record has a newest one.
LEMMA NewestExists ==
    ASSUME NEW b, NEW n \in Nat, NEW k, NEW s \in 0 .. (n - 1), Begins(b, s, k)
    PROVE  \E t \in s .. (n - 1) : IsNewest(b, n, k, t)
  <1>1. PICK S : S = {x \in Nat : x =< n /\ n - x \in s .. (n - 1) /\ Begins(b, n - x, k)}
    OBVIOUS
  <1>2. n - s \in Nat /\ n - s =< n /\ n - (n - s) = s
    OBVIOUS
  <1>3. n - s \in S
    BY <1>1, <1>2
  <1>4. PICK m \in S : \A x \in S : m =< x
    BY <1>1, <1>3, SmallestOf
  <1>5. m \in Nat /\ n - m \in s .. (n - 1) /\ Begins(b, n - m, k)
    BY <1>1
  <1>6. ASSUME NEW t \in ((n - m) + 1) .. (n - 1), Begins(b, t, k)
        PROVE  FALSE
    <2>1. n - t \in Nat /\ n - t =< n /\ n - (n - t) = t /\ t \in s .. (n - 1) /\ n - t < m
      BY <1>5
    <2>2. n - t \in S
      BY <1>1, <1>6, <2>1
    <2> QED BY <1>4, <1>5, <2>1, <2>2
  <1>7. n - m \in 0 .. (n - 1)
    BY <1>5
  <1>8. IsNewest(b, n, k, n - m)
    BY <1>5, <1>6, <1>7 DEF IsNewest
  <1> QED BY <1>5, <1>8

LEMMA NewestOnce ==
    ASSUME NEW b, NEW n \in Nat, NEW k, NEW s, NEW t, IsNewest(b, n, k, s), IsNewest(b, n, k, t)
    PROVE  s = t
  <1>1. s \in 0 .. (n - 1) /\ t \in 0 .. (n - 1) /\ Begins(b, s, k) /\ Begins(b, t, k)
    BY DEF IsNewest
  <1>2. t \notin (s + 1) .. (n - 1) /\ s \notin (t + 1) .. (n - 1)
    BY <1>1 DEF IsNewest
  <1> QED BY <1>1, <1>2

\* One more record: of another key, or with a value in W.
LEMMA KeptAfter ==
    ASSUME NEW b, NEW c, NEW n \in Nat, SameTo(b, c, n), NEW rec \in Records,
           Stands(c, n, rec), NEW k, NEW V, NEW W, V \subseteq W,
           k = rec.key => ValueOf(rec) \in W,
           NEW d \in Nat, NEW e \in Nat, d =< e, KeptIn(b, n, d, k, V)
    PROVE  KeptIn(c, n + Size(rec), e, k, W)
  <1>1. PICK m \in 0 .. n :
           /\ m =< d /\ Boundary(b, m)
           /\ \E v \in V : Valued(b, m, k, v)
           /\ \A s \in m .. (n - 1) : Begins(b, s, k) => ValueOf(b[s + 1].rec) \in V
    BY DEF KeptIn
  <1>2. PICK l : l = n + Size(rec)
    OBVIOUS
  <1>3. l \in Nat /\ n < l /\ Size(rec) \in {5, 6}
    BY <1>2, StandingCells, RecordIs
  <1>c. \A s \in (n + 1) .. l : Cell(c, s, rec, s - n)
    BY <1>2, StandingCells
  <1>4. SameTo(b, c, m)
    BY DEF SameTo
  <1>5. \E v \in W : Valued(c, m, k, v)
    BY <1>1, <1>4, ReadingsKept
  <1>6. Boundary(c, m)
    BY <1>1, <1>4, BoundaryKept
  <1>7. ASSUME NEW s \in m .. (l - 1), Begins(c, s, k)
        PROVE  ValueOf(c[s + 1].rec) \in W
    <2>1. CASE s < n
      <3>1. s \in m .. (n - 1) /\ s + 1 \in 1 .. n
        BY <2>1
      <3>2. c[s + 1] = b[s + 1]
        BY <3>1 DEF SameTo
      <3> QED BY <1>1, <1>7, <3>1, <3>2 DEF Begins
    <2>2. CASE s >= n
      <3>1. s + 1 \in (n + 1) .. l
        BY <1>3, <2>2
      <3>2. c[s + 1].rec = rec /\ c[s + 1].field = (s + 1) - n
        BY <1>c, <3>1 DEF Cell
      <3> QED BY <1>7, <3>2 DEF Begins
    <2> QED BY <2>1, <2>2
  <1>8. m \in 0 .. l /\ m =< e
    BY <1>1, <1>3
  <1>9. KeptIn(c, l, e, k, W)
    BY <1>5, <1>6, <1>7, <1>8 DEF KeptIn
  <1> QED BY <1>2, <1>9

\* The record itself, once it is on the disk.
LEMMA KeptNow ==
    ASSUME NEW b, NEW off \in Nat, NEW rec \in Records, Stands(b, off, rec),
           NEW d, d = off + Size(rec)
    PROVE  KeptIn(b, d, d, rec.key, {ValueOf(rec)})
  <1>1. d \in Nat /\ Boundary(b, d)
    BY StandingCells
  <1>2. Valued(b, d, rec.key, ValueOf(rec))
    BY ReadingsAfter
  <1>3. \A s : s \notin d .. (d - 1)
    BY <1>1
  <1>4. d \in 0 .. d /\ d =< d
    BY <1>1
  <1> QED BY <1>1, <1>2, <1>3, <1>4 DEF KeptIn

\* Fewer records, but none of those on the disk.
LEMMA KeptLess ==
    ASSUME NEW b, NEW c, NEW n \in Nat, NEW g \in 0 .. n, SameTo(b, c, g), NEW k, NEW V,
           NEW d \in Nat, NEW e \in Nat, d =< e, KeptIn(b, n, d, k, V),
           \A m \in 0 .. n : m =< d /\ Boundary(b, m) => m =< g
    PROVE  KeptIn(c, g, e, k, V)
  <1>1. PICK m \in 0 .. n :
           /\ m =< d /\ Boundary(b, m)
           /\ \E v \in V : Valued(b, m, k, v)
           /\ \A s \in m .. (n - 1) : Begins(b, s, k) => ValueOf(b[s + 1].rec) \in V
    BY DEF KeptIn
  <1>2. m \in 0 .. g /\ m =< e
    BY <1>1
  <1>3. SameTo(b, c, m)
    BY <1>2 DEF SameTo
  <1>4. \E v \in V : Valued(c, m, k, v)
    BY <1>1, <1>3, ReadingsKept
  <1>5. Boundary(c, m)
    BY <1>1, <1>2, <1>3, BoundaryKept
  <1>6. ASSUME NEW s \in m .. (g - 1), Begins(c, s, k)
        PROVE  ValueOf(c[s + 1].rec) \in V
    <2>1. s \in m .. (n - 1) /\ s + 1 \in 1 .. g
      OBVIOUS
    <2>2. c[s + 1] = b[s + 1]
      BY <2>1 DEF SameTo
    <2> QED BY <1>1, <1>6, <2>1, <2>2 DEF Begins
  <1> QED BY <1>2, <1>4, <1>5, <1>6 DEF KeptIn

\* An index that has followed all of them tells a value that was kept.
LEMMA KeptTold ==
    ASSUME NEW b \in Seq(Cells), NEW n \in Nat, Whole(b, n), NEW k \in Keys, NEW d,
           NEW off \in Nat \cup {NoOffset}, Indexed(b, n, k, off),
           NEW V, V \subseteq Values \cup {Nothing}, KeptIn(b, n, d, k, V)
    PROVE  \E v \in V : Tells(b, off, k, v)
  <1>1. PICK m \in 0 .. n :
           /\ \E v \in V : Valued(b, m, k, v)
           /\ \A s \in m .. (n - 1) : Begins(b, s, k) => ValueOf(b[s + 1].rec) \in V
    BY DEF KeptIn
  <1>2. PICK v \in V : Valued(b, m, k, v)
    BY <1>1
  <1>3. Tombstone \notin Values /\ Nothing \notin Values /\ Nothing # Tombstone
    BY DataFileAssumption
  <1>4. ASSUME NEW s, IsNewest(b, n, k, s), s < m
        PROVE  IsNewest(b, m, k, s)
    <2>1. s \in 0 .. (m - 1) /\ \A t \in (s + 1) .. (m - 1) : t \in (s + 1) .. (n - 1)
      BY <1>4 DEF IsNewest
    <2> QED BY <1>4, <2>1 DEF IsNewest
  <1>5. CASE off = NoOffset
    <2>1. Deleted(b, n, k)
      BY <1>5 DEF Indexed
    <2>2. CASE \E s \in m .. (n - 1) : Begins(b, s, k)
      <3>1. PICK s \in m .. (n - 1) : Begins(b, s, k)
        BY <2>2
      <3>2. PICK t \in s .. (n - 1) : IsNewest(b, n, k, t)
        BY <3>1, NewestExists
      <3>3. t \in m .. (n - 1) /\ t \in 0 .. (n - 1) /\ Begins(b, t, k)
        BY <3>1, <3>2 DEF IsNewest
      <3>4. b[t + 1].rec.val = Tombstone
        BY <2>1, <3>2, <3>3 DEF Deleted
      <3>5. Nothing \in V
        BY <1>1, <3>3, <3>4 DEF ValueOf
      <3> QED BY <1>5, <3>5 DEF Tells
    <2>3. CASE ~ \E s \in m .. (n - 1) : Begins(b, s, k)
      <3>1. ASSUME v # Nothing
            PROVE  FALSE
        <4>1. PICK s \in 0 .. (m - 1) : IsNewest(b, m, k, s) /\ b[s + 1].rec.val = v
          BY <1>2, <3>1 DEF Valued
        <4>2. \A t \in (s + 1) .. (n - 1) : ~Begins(b, t, k)
          <5>1. \A t \in (s + 1) .. (n - 1) : t \in (s + 1) .. (m - 1) \/ t \in m .. (n - 1)
            OBVIOUS
          <5> QED BY <2>3, <4>1, <5>1 DEF IsNewest
        <4>3. s \in 0 .. (n - 1) /\ IsNewest(b, n, k, s)
          BY <4>1, <4>2 DEF IsNewest
        <4>4. b[s + 1].rec.val = Tombstone
          BY <2>1, <4>3 DEF Deleted
        <4> QED BY <1>3, <3>1, <4>1, <4>4
      <3> QED BY <1>2, <1>5, <3>1 DEF Tells
    <2> QED BY <2>2, <2>3
  <1>6. CASE off # NoOffset
    <2>1. IsNewest(b, n, k, off) /\ b[off + 1].rec.val # Tombstone
      BY <1>6 DEF Indexed
    <2>2. off \in 0 .. (n - 1) /\ Begins(b, off, k) /\ b[off + 1].field = 1 /\ b[off + 1].rec.key = k
      BY <2>1 DEF IsNewest, Begins
    <2>3. PICK rec \in Records : rec = b[off + 1].rec /\ Stands(b, off, rec)
      BY <2>2, BeginsStands
    <2>4. rec = [key |-> k, val |-> rec.val] /\ rec.val \in Values
      BY <2>1, <2>2, <2>3, RecordIs
    <2>5. Tells(b, off, k, rec.val)
      BY <1>3, <1>6, <2>3, <2>4 DEF Tells
    <2>6. rec.val \in V
      <3>1. CASE off >= m
        <4>1. off \in m .. (n - 1)
          BY <2>2, <3>1
        <4> QED BY <1>1, <2>1, <2>2, <2>3, <4>1 DEF ValueOf
      <3>2. CASE off < m
        <4>1. IsNewest(b, m, k, off) /\ off \in 0 .. (m - 1)
          BY <1>4, <2>1, <2>2, <3>2
        <4>2. v # Nothing
          BY <1>2, <2>1, <4>1 DEF Valued, Deleted
        <4>3. PICK s \in 0 .. (m - 1) : IsNewest(b, m, k, s) /\ b[s + 1].rec.val = v
          BY <1>2, <4>2 DEF Valued
        <4>4. s = off
          BY <4>1, <4>3, NewestOnce
        <4> QED BY <2>3, <4>3, <4>4
      <3> QED BY <2>2, <3>1, <3>2
    <2> QED BY <2>5, <2>6
  <1> QED BY <1>5, <1>6

-----------------------------------------------------------------------------
\* What an append and a loss of power do to the cells

LEMMA AppendedCells ==
    ASSUME NEW b \in Seq(Cells), NEW e \in Seq(Cells)
    PROVE  /\ b \o e \in Seq(Cells) /\ Len(b \o e) = Len(b) + Len(e)
           /\ SameTo(b, b \o e, Len(b))
           /\ \A i \in 1 .. Len(e) : (b \o e)[Len(b) + i] = e[i]
  <1>1. PICK c : c = b \o e
    OBVIOUS
  <1>2. c \in Seq(Cells) /\ Len(c) = Len(b) + Len(e)
    BY <1>1
  <1>3. \A i \in 1 .. Len(b) : c[i] = b[i]
    BY <1>1
  <1>4. \A i \in 1 .. Len(e) : c[Len(b) + i] = e[i]
    BY <1>1
  <1> QED BY <1>1, <1>2, <1>3, <1>4 DEF SameTo

LEMMA AppendedStands ==
    ASSUME NEW b \in Seq(Cells), NEW rec \in Records
    PROVE  Stands(b \o Encoded(rec), Len(b), rec)
  <1>1. PICK c, e : c = b \o e /\ e = Encoded(rec)
    OBVIOUS
  <1>2. e \in Seq(Cells) /\ Len(e) = Size(rec)
    BY <1>1, EncodedIs
  <1>3. Len(c) = Len(b) + Len(e) /\ \A i \in 1 .. Len(e) : c[Len(b) + i] = e[i]
    BY <1>1, <1>2, AppendedCells
  <1>4. Stands(c, Len(b), rec)
    BY <1>1, <1>2, <1>3 DEF Stands
  <1> QED BY <1>1, <1>4

LEMMA TornAtEnd ==
    ASSUME NEW b \in Seq(Cells)
    PROVE  Torn(b, Len(b))
  BY RecordIs DEF Torn, Stands

\* A part of a record is none.
LEMMA TornByPart ==
    ASSUME NEW b \in Seq(Cells), NEW rec \in Records, NEW n \in 1 .. (Size(rec) - 1)
    PROVE  /\ b \o SubSeq(Encoded(rec), 1, n) \in Seq(Cells)
           /\ SameTo(b, b \o SubSeq(Encoded(rec), 1, n), Len(b))
           /\ Len(b \o SubSeq(Encoded(rec), 1, n)) > Len(b)
           /\ Torn(b \o SubSeq(Encoded(rec), 1, n), Len(b))
  <1>1. PICK c, e : c = b \o e /\ e = SubSeq(Encoded(rec), 1, n)
    OBVIOUS
  <1>2. Size(rec) \in {5, 6} /\ n \in Nat
    BY RecordIs
  <1>3. e \in Seq(Cells) /\ Len(e) = n /\ \A i \in 1 .. n : e[i] = Encoded(rec)[i]
    BY <1>1, <1>2, EncodedIs
  <1>4. /\ c \in Seq(Cells) /\ Len(c) = Len(b) + n
        /\ SameTo(b, c, Len(b))
        /\ \A i \in 1 .. n : c[Len(b) + i] = e[i]
    <2>1. /\ b \o e \in Seq(Cells) /\ Len(b \o e) = Len(b) + Len(e)
          /\ SameTo(b, b \o e, Len(b))
          /\ \A i \in 1 .. Len(e) : (b \o e)[Len(b) + i] = e[i]
      BY <1>3, AppendedCells
    <2> QED BY <1>1, <1>3, <2>1, Zenon
  <1>5. ASSUME NEW o \in Records, Stands(c, Len(b), o)
        PROVE  FALSE
    <2>1. Len(b) \in Nat /\ Size(o) \in {5, 6}
      BY RecordIs
    <2>2. Size(o) =< n
      BY <1>2, <1>4, <1>5, <2>1 DEF Stands
    <2>3. c[Len(b) + 1] = Encoded(o)[1]
      BY <1>5, <2>1 DEF Stands
    <2>4. c[Len(b) + 1] = Encoded(rec)[1]
      BY <1>2, <1>3, <1>4
    <2>5. 1 \in 1 .. Size(o) /\ 1 \in 1 .. Size(rec)
      BY <1>2, <2>1
    <2>6. o = rec
      <3>1. Encoded(rec)[1].rec = rec /\ Encoded(o)[1].rec = o
        BY <2>5, EncodedCell
      <3> QED BY <2>3, <2>4, <3>1
    <2> QED BY <1>2, <2>2, <2>6
  <1> QED BY <1>1, <1>2, <1>4, <1>5 DEF Torn

\* c is what a loss of power leaves of b: n cells, and of the others nothing,
\* or zeros.
Remains(b, c, n) ==
    /\ c \in Seq(Cells) /\ Len(c) =< Len(b)
    /\ SameTo(b, c, n)
    /\ \A i \in 1 .. Len(c) : c[i] = b[i] \/ c[i] = Zero
    /\ \A i \in (n + 1) .. Len(c) : c[i] = Zero

LEMMA CutRemains ==
    ASSUME NEW b \in Seq(Cells), NEW n \in 0 .. Len(b)
    PROVE  Remains(b, SubSeq(b, 1, n), n)
  <1>1. PICK c : c = SubSeq(b, 1, n)
    OBVIOUS
  <1>2. c \in Seq(Cells) /\ Len(c) = n /\ \A i \in 1 .. n : c[i] = b[i]
    BY <1>1
  <1> QED BY <1>1, <1>2 DEF Remains, SameTo

LEMMA ZerosRemain ==
    ASSUME NEW b \in Seq(Cells), NEW n \in 0 .. Len(b)
    PROVE  Remains(b, [i \in 1 .. Len(b) |-> IF i =< n THEN b[i] ELSE Zero], n)
  <1>1. PICK c : c = [i \in 1 .. Len(b) |-> IF i =< n THEN b[i] ELSE Zero]
    OBVIOUS
  <1>2. Zero \in Cells /\ \A i \in 1 .. Len(b) : b[i] \in Cells
    BY DEF Cells
  <1>3. c \in [1 .. Len(b) -> Cells]
    BY <1>1, <1>2
  <1>4. c \in Seq(Cells) /\ Len(c) = Len(b)
    BY <1>3
  <1>5. \A i \in 1 .. Len(b) : c[i] = IF i =< n THEN b[i] ELSE Zero
    BY <1>1
  <1> QED BY <1>1, <1>4, <1>5 DEF Remains, SameTo

LEMMA StandsRemains ==
    ASSUME NEW b \in Seq(Cells), NEW c, NEW m, Remains(b, c, m), NEW n \in Nat,
           NEW rec \in Records, Stands(c, n, rec)
    PROVE  Stands(b, n, rec)
  <1>1. Size(rec) \in Nat /\ n + Size(rec) =< Len(c) /\ Len(c) \in Nat
    BY RecordIs DEF Stands, Remains
  <1>2. ASSUME NEW i \in 1 .. Size(rec)
        PROVE  b[n + i] = Encoded(rec)[i]
    <2>0. c[n + i] = Encoded(rec)[i]
      BY DEF Stands
    <2>1. c[n + i] = Encoded(rec)[i] /\ c[n + i] # Zero
      BY <2>0, EncodedCell
    <2>2. n + i \in 1 .. Len(c)
      BY <1>1
    <2> QED BY <2>1, <2>2 DEF Remains
  <1> QED BY <1>1, <1>2 DEF Stands, Remains

LEMMA TornRemains ==
    ASSUME NEW b \in Seq(Cells), NEW c, NEW m, Remains(b, c, m), NEW n \in Nat, Torn(b, n)
    PROVE  Torn(c, n)
  BY StandsRemains DEF Torn

\* Behind the last record that a loss of power leaves as a whole, no record is
\* read: g is its end.
LEMMA StartIs ==
    ASSUME NEW b, NEW n \in Nat, Whole(b, n), NEW i \in 1 .. n
    PROVE  /\ i - b[i].field \in 0 .. (n - 1)
           /\ b[i - b[i].field + 1].field = 1
           /\ b[i - b[i].field + 1].rec = b[i].rec
           /\ b[i].rec \in Records /\ b[i].field \in 1 .. Size(b[i].rec)
  <1>1. PICK rec, f : rec = b[i].rec /\ f = b[i].field
    OBVIOUS
  <1>2. rec \in Records /\ f \in 1 .. Size(rec) /\ Size(rec) \in {5, 6}
    BY <1>1, RecordIs DEF Whole
  <1>3. ASSUME NEW j \in 0 .. 4, f - j > 1, i - j \in 1 .. n,
               b[i - j].rec = rec, b[i - j].field = f - j
        PROVE  /\ i - (j + 1) \in 1 .. n
               /\ b[i - (j + 1)].rec = rec /\ b[i - (j + 1)].field = f - (j + 1)
    <2>1. PICK x : x = i - (j + 1)
      OBVIOUS
    <2>2. x + 1 = i - j /\ x + 1 \in 1 .. n
      BY <1>3, <2>1
    <2>3. x # 0
      BY <1>2, <1>3, <2>2 DEF Whole
    <2>4. x \in 1 .. n /\ x < n
      BY <2>1, <2>2, <2>3
    <2>5. /\ b[x].rec \in Records /\ b[x].field \in 1 .. Size(b[x].rec)
          /\ b[x].field < Size(b[x].rec) =>
                b[x + 1] = [rec |-> b[x].rec, field |-> b[x].field + 1]
          /\ b[x].field = Size(b[x].rec) => b[x + 1].field = 1
      BY <2>4 DEF Whole
    <2>6. Size(b[x].rec) \in {5, 6}
      BY <2>5, RecordIs
    <2>7. b[x + 1].rec = rec /\ b[x + 1].field = f - j
      BY <1>3, <2>2
    <2>8. b[x + 1] = [rec |-> b[x].rec, field |-> b[x].field + 1]
      BY <1>2, <1>3, <2>5, <2>6, <2>7
    <2>9. b[x].rec = rec /\ b[x].field = f - j - 1
      BY <1>2, <2>5, <2>6, <2>7, <2>8
    <2> QED BY <1>2, <2>1, <2>4, <2>9
  <1> DEFINE At(j) == i - j \in 1 .. n /\ b[i - j].rec = rec /\ b[i - j].field = f - j
  <1>4. At(0)
    BY <1>1, <1>2
  <1>5. \A j \in 0 .. 4 : f - j > 1 /\ At(j) => At(j + 1)
    BY <1>3
  <1> HIDE DEF At
  <1>6. At(f - 1)
    <2>0. f \in {1, 2, 3, 4, 5, 6}
      BY <1>2
    <2>1. f > 1 => At(1)
      BY <1>4, <1>5, <2>0
    <2>2. f > 2 => At(2)
      BY <1>5, <2>0, <2>1
    <2>3. f > 3 => At(3)
      BY <1>5, <2>0, <2>2
    <2>4. f > 4 => At(4)
      BY <1>5, <2>0, <2>3
    <2>5. f > 5 => At(5)
      BY <1>5, <2>0, <2>4
    <2> QED BY <1>4, <2>0, <2>1, <2>2, <2>3, <2>4, <2>5
  <1>7. i - (f - 1) \in 1 .. n /\ b[i - (f - 1)].rec = rec /\ b[i - (f - 1)].field = f - (f - 1)
    BY <1>6 DEF At
  <1>8. i - (f - 1) = i - f + 1 /\ f - (f - 1) = 1
    BY <1>2
  <1> QED BY <1>1, <1>2, <1>7, <1>8

LEMMA CutIs ==
    ASSUME NEW b \in Seq(Cells), NEW n \in Nat, Whole(b, n), Torn(b, n),
           NEW c, NEW e \in Nat, Remains(b, c, e)
    PROVE  \E g \in 0 .. n :
              /\ SameTo(b, c, g) /\ Whole(b, g) /\ Torn(c, g) /\ g =< Len(c)
              /\ \A m \in 0 .. n : m =< e /\ Boundary(b, m) => m =< g
  <1>0. e =< Len(c) /\ Len(c) \in Nat
    BY DEF Remains, SameTo
  <1>1. CASE n =< e
    <2>1. SameTo(b, c, n)
      BY <1>0, <1>1 DEF Remains, SameTo
    <2>2. Torn(c, n)
      BY TornRemains
    <2> QED BY <1>0, <1>1, <2>1, <2>2
  <1>2. CASE e < n
    <2>1. PICK i, g, rec : i = e + 1 /\ g = i - b[i].field /\ rec = b[i].rec
      OBVIOUS
    <2>2. i \in 1 .. n
      BY <1>2, <2>1
    <2>3. /\ g \in 0 .. (n - 1) /\ b[g + 1].field = 1 /\ b[g + 1].rec = rec
          /\ rec \in Records /\ b[i].field \in 1 .. Size(rec)
      BY <2>1, <2>2, StartIs
    <2>4. Stands(b, g, rec) /\ g + Size(rec) =< n /\ Size(rec) \in {5, 6}
      BY <2>3, BeginsStands, RecordIs
    <2>5. g =< e /\ i =< g + Size(rec) /\ i = g + b[i].field
      <3>1. PICK f, z : f = b[i].field /\ z = Size(rec)
        OBVIOUS
      <3>2. f \in 1 .. z /\ z \in {5, 6} /\ g = i - f /\ i = e + 1
        BY <2>1, <2>3, <2>4, <3>1
      <3>3. g =< e /\ i =< g + z /\ i = g + f
        BY <3>2
      <3> QED BY <3>1, <3>3
    <2>6. SameTo(b, c, g)
      BY <1>0, <2>3, <2>5 DEF Remains, SameTo
    <2>7. Whole(b, g)
      <3>1. g > 0 => b[1].field = 1
        BY <2>3 DEF Whole
      <3>2. ASSUME NEW j \in 1 .. g
            PROVE  /\ b[j].rec \in Records /\ b[j].field \in 1 .. Size(b[j].rec)
                   /\ b[j].field < Size(b[j].rec) =>
                         j < g /\ b[j + 1] = [rec |-> b[j].rec, field |-> b[j].field + 1]
                   /\ b[j].field = Size(b[j].rec) /\ j < g => b[j + 1].field = 1
        <4>1. j \in 1 .. n /\ j < n
          BY <2>3
        <4>2. /\ b[j].rec \in Records /\ b[j].field \in 1 .. Size(b[j].rec)
              /\ b[j].field < Size(b[j].rec) =>
                    b[j + 1] = [rec |-> b[j].rec, field |-> b[j].field + 1]
              /\ b[j].field = Size(b[j].rec) => b[j + 1].field = 1
          BY <4>1 DEF Whole
        <4>3. j = g => ~(b[j].field < Size(b[j].rec))
          <5>1. ASSUME j = g, b[j].field < Size(b[j].rec)
                PROVE  FALSE
            <6>1. b[j + 1].field = b[j].field + 1 /\ b[j + 1].field = 1
              BY <2>3, <4>2, <5>1
            <6>2. Size(b[j].rec) \in {5, 6}
              BY <4>2, RecordIs
            <6> QED BY <4>2, <6>1, <6>2
          <5> QED BY <5>1
        <4>4. j = g \/ j < g
          BY <2>3
        <4> QED BY <4>2, <4>3, <4>4
      <3>3. g =< Len(b)
        BY <2>3 DEF Whole
      <3> QED BY <3>1, <3>2, <3>3 DEF Whole
    <2>8. Torn(c, g)
      <3>1. ASSUME NEW o \in Records, Stands(c, g, o)
            PROVE  FALSE
        <4>1. Stands(b, g, o)
          BY <2>3, <3>1, StandsRemains
        <4>2. o = rec
          BY <2>3, <2>4, <4>1, OneStands
        <4>3. i \in (e + 1) .. Len(c) /\ b[i].field \in 1 .. Size(o) /\ i = g + b[i].field
          BY <1>0, <2>1, <2>3, <2>4, <2>5, <3>1, <4>2 DEF Stands
        <4>4. c[i] = Zero
          BY <4>3 DEF Remains
        <4>5. c[i] = Encoded(o)[b[i].field]
          BY <3>1, <4>3 DEF Stands
        <4> QED BY <4>3, <4>4, <4>5, EncodedCell
      <3> QED BY <3>1 DEF Torn
    <2>9. ASSUME NEW m \in 0 .. n, m =< e, Boundary(b, m)
          PROVE  m =< g
      <3>1. ASSUME m > g
            PROVE  FALSE
        <4>1. m \in (g + 1) .. (g + Size(rec)) /\ m - g < Size(rec) /\ m # 0
          BY <2>1, <2>3, <2>4, <2>5, <2>9, <3>1
        <4>2. Cell(b, m, rec, m - g)
          BY <2>3, <2>4, <4>1, StandingCells
        <4>3. b[m].field = Size(b[m].rec)
          BY <2>9, <4>1 DEF Boundary
        <4> QED BY <2>4, <4>1, <4>2, <4>3 DEF Cell
      <3> QED BY <2>3, <3>1
    <2>10. g =< Len(c) /\ g \in 0 .. n
      BY <1>0, <2>3, <2>5
    <2> QED BY <2>6, <2>7, <2>8, <2>9, <2>10
  <1> QED BY <1>0, <1>1, <1>2

\* A longer file tells what it told.
LEMMA StillStands ==
    ASSUME NEW b \in Seq(Cells), NEW c \in Seq(Cells), SameTo(b, c, Len(b)),
           NEW off \in Nat, NEW k \in Keys, NEW v \in Values,
           Stands(b, off, [key |-> k, val |-> v])
    PROVE  Stands(c, off, [key |-> k, val |-> v])
  <1>1. PICK o : o = [key |-> k, val |-> v]
    OBVIOUS
  <1>2. o \in Records
    BY <1>1 DEF Records
  <1>3. off + Size(o) =< Len(b)
    BY <1>1 DEF Stands
  <1>4. Stands(c, off, o)
    BY <1>1, <1>2, <1>3, StandsKept
  <1> QED BY <1>1, <1>4

LEMMA StillTells ==
    ASSUME NEW b \in Seq(Cells), NEW c \in Seq(Cells), SameTo(b, c, Len(b)),
           NEW off \in Nat \cup {NoOffset}, NEW k \in Keys, NEW v \in Values \cup {Nothing},
           Tells(b, off, k, v)
    PROVE  Tells(c, off, k, v)
  BY StillStands DEF Tells

-----------------------------------------------------------------------------
\* The steps

LEMMA FileInit ==
    ASSUME Init
    PROVE  FileIndInv
  <1>1. TypeOK
    <2>1. bytes \in Seq(Cells) /\ synced \in 0 .. Len(bytes)
      BY DEF Init
    <2>2. index \in [Keys -> Nat \cup {NoOffset}]
      BY DEF Init, NoEntries
    <2>3. kept \in [Keys -> SUBSET (Values \cup {Nothing})]
      BY DEF Init
    <2> QED BY <2>1, <2>2, <2>3 DEF Init, TypeOK
  <1>2. EntriesInv
    BY DEF Init, EntriesInv, NoEntries
  <1>3. AckedAt(0)
    <2>0. bytes \in Seq(Cells) /\ Len(bytes) = 0
      BY DEF Init
    <2>1. Whole(bytes, 0)
      BY <2>0 DEF Whole
    <2>2. Torn(bytes, 0)
      BY <2>0, TornAtEnd
    <2>3. ASSUME NEW k \in Keys
          PROVE  KeptIn(bytes, 0, synced, k, kept[k])
      <3>1. Valued(bytes, 0, k, Nothing) /\ Boundary(bytes, 0)
        BY DEF Valued, Deleted, Boundary
      <3>2. kept[k] = {Nothing} /\ synced = 0
        BY DEF Init
      <3> QED BY <3>1, <3>2 DEF KeptIn
    <2> QED BY <2>1, <2>2, <2>3 DEF AckedAt, Init
  <1>4. 0 \in 0 .. Len(bytes)
    BY DEF Init
  <1> QED BY <1>1, <1>2, <1>3, <1>4 DEF FileIndInv, AckedInv, ClosedInv, Init

LEMMA StoresIs ==
    ASSUME bytes \in Seq(Cells), NEW rec \in Records, Stores(rec)
    PROVE  /\ bytes' \in Seq(Cells) /\ Len(bytes') = Len(bytes) + Size(rec)
           /\ SameTo(bytes, bytes', Len(bytes)) /\ Stands(bytes', Len(bytes), rec)
           /\ Torn(bytes', Len(bytes) + Size(rec))
           /\ rec.key \in Keys /\ rec.val \in Values \cup {Tombstone} /\ Size(rec) \in {5, 6}
           /\ ValueOf(rec) \in Values \cup {Nothing}
           /\ rec = [key |-> rec.key, val |-> rec.val]
           /\ phase = "open" /\ writeOff' = writeOff + Size(rec)
           /\ UNCHANGED <<syncWrites, phase, offset>>
           /\ ~spoiled' => ~spoiled /\ writeOff = Len(bytes)
  <1>1. bytes' = bytes \o Encoded(rec)
    BY DEF Stores
  <1>2. Encoded(rec) \in Seq(Cells) /\ Len(Encoded(rec)) = Size(rec) /\ Size(rec) \in {5, 6}
    BY EncodedIs, RecordIs
  <1>3. /\ bytes' \in Seq(Cells) /\ Len(bytes') = Len(bytes) + Size(rec)
        /\ SameTo(bytes, bytes', Len(bytes))
    BY <1>1, <1>2, AppendedCells
  <1>4. Stands(bytes', Len(bytes), rec)
    BY <1>1, AppendedStands
  <1>5. Torn(bytes', Len(bytes) + Size(rec))
    BY <1>3, TornAtEnd
  <1>6. rec.key \in Keys /\ rec.val \in Values \cup {Tombstone} /\ Size(rec) \in {5, 6}
        /\ rec = [key |-> rec.key, val |-> rec.val]
    BY RecordIs
  <1>7. ValueOf(rec) \in Values \cup {Nothing}
    BY <1>6 DEF ValueOf
  <1>8. /\ phase = "open" /\ writeOff' = writeOff + Size(rec)
        /\ UNCHANGED <<syncWrites, phase, offset>>
        /\ ~spoiled' => ~spoiled /\ writeOff = Len(bytes)
    BY DEF Stores
  <1> QED BY <1>3, <1>4, <1>5, <1>6, <1>7, <1>8

LEMMA WriteKeeps ==
    ASSUME FileIndInv, NEW rec \in Records, Write(rec)
    PROVE  FileIndInv'
  <1> USE DEF FileIndInv, TypeOK
  <1>1. PICK b, c, n, m : b = bytes /\ c = bytes' /\ n = Len(bytes) /\ m = n + Size(rec)
    OBVIOUS
  <1>s. Stores(rec) /\ faults' = faults
    BY DEF Write
  <1>2. /\ b \in Seq(Cells) /\ n \in Nat /\ n = Len(b)
        /\ c \in Seq(Cells) /\ Len(c) = m /\ m \in Nat /\ n < m
        /\ SameTo(b, c, n) /\ Stands(c, n, rec) /\ Torn(c, m)
        /\ rec.key \in Keys /\ rec.val \in Values \cup {Tombstone} /\ Size(rec) \in Nat
        /\ ValueOf(rec) \in Values \cup {Nothing} /\ rec = [key |-> rec.key, val |-> rec.val]
        /\ phase = "open" /\ writeOff' = writeOff + Size(rec)
        /\ UNCHANGED <<syncWrites, phase, offset>>
        /\ ~spoiled' => ~spoiled /\ writeOff = n
    BY <1>1, <1>s, StoresIs
  <1>3. spoiled' \in BOOLEAN
    BY <1>s DEF Stores
  <1>4. /\ index' = [index EXCEPT ![rec.key] = EntryOf(rec, writeOff)]
        /\ kept' = [kept EXCEPT ![rec.key] = {ValueOf(rec)}]
        /\ EntryOf(rec, writeOff) \in Nat \cup {NoOffset}
    BY <1>2 DEF Write, Entry, EntryOf, PosOf
  <1>5. TypeOK'
    <2>1. synced' \in 0 .. Len(bytes')
      BY <1>1, <1>2 DEF Write
    <2>2. kept' \in [Keys -> SUBSET (Values \cup {Nothing})]
      BY <1>2, <1>4
    <2> QED BY <1>1, <1>2, <1>s, <1>3, <1>4, <2>1, <2>2
  <1>c. ClosedInv'
    BY <1>2 DEF ClosedInv
  <1>6. CASE spoiled'
    BY <1>5, <1>c, <1>6 DEF EntriesInv, AckedInv
  <1>7. CASE ~spoiled'
    <2>1. ~spoiled /\ writeOff = n
      BY <1>2, <1>7
    <2>2. ASSUME NEW k \in Keys, index'[k] # NoOffset
          PROVE  \E v \in Values : Stands(c, index'[k], [key |-> k, val |-> v])
      <3>1. CASE k = rec.key
        <4>1. rec.val \in Values /\ index'[k] = n /\ rec = [key |-> k, val |-> rec.val]
          BY <1>2, <1>4, <2>1, <2>2, <3>1 DEF EntryOf
        <4> QED BY <1>2, <4>1
      <3>2. CASE k # rec.key
        <4>1. index'[k] = index[k] /\ index[k] \in Nat
          BY <1>4, <2>2, <3>2
        <4>2. PICK v \in Values : Stands(b, index[k], [key |-> k, val |-> v])
          BY <1>1, <2>1, <2>2, <4>1 DEF EntriesInv
        <4>3. Stands(c, index[k], [key |-> k, val |-> v])
          BY <1>2, <4>1, <4>2, StillStands
        <4> QED BY <4>1, <4>3
      <3> QED BY <3>1, <3>2
    <2>3. ASSUME syncWrites'
          PROVE  AckedAt(m)'
      <3>1. PICK g \in 0 .. Len(bytes) : AckedAt(g)
        BY <1>2, <2>1, <2>3 DEF AckedInv
      <3>2. g = n
        BY <1>2, <2>1, <3>1 DEF AckedAt
      <3>3. /\ Whole(b, n)
            /\ \A k \in Keys : KeptIn(b, n, synced, k, kept[k])
            /\ \A k \in Keys : \E v \in kept[k] : Tells(b, index[k], k, v)
        BY <1>1, <1>2, <3>1, <3>2 DEF AckedAt
      <3>4. Whole(c, m)
        BY <1>1, <1>2, <3>3, WholeKept, WholeAfter
      <3>5. synced' = m /\ synced \in Nat /\ synced =< m
        BY <1>1, <1>2, <2>3 DEF Write
      <3>6. ASSUME NEW k \in Keys
            PROVE  KeptIn(c, m, m, k, kept'[k]) /\ \E v \in kept'[k] : Tells(c, index'[k], k, v)
        <4>1. CASE k = rec.key
          <5>1. kept'[k] = {ValueOf(rec)} /\ index'[k] = EntryOf(rec, n)
            BY <1>2, <1>4, <2>1, <4>1
          <5>2. Tells(c, EntryOf(rec, n), k, ValueOf(rec))
            BY <1>2, <4>1, DataFileAssumption DEF Tells, EntryOf, ValueOf, NoOffset
          <5>3. KeptIn(c, m, m, k, {ValueOf(rec)})
            BY <1>1, <1>2, <4>1, KeptNow
          <5> QED BY <5>1, <5>2, <5>3
        <4>2. CASE k # rec.key
          <5>1. kept'[k] = kept[k] /\ index'[k] = index[k]
            BY <1>4, <4>2
          <5>2. KeptIn(c, m, m, k, kept[k])
            BY <1>1, <1>2, <3>3, <3>5, <4>2, KeptAfter
          <5>3. PICK v \in kept[k] : Tells(b, index[k], k, v)
            BY <3>3
          <5>4. v \in Values \cup {Nothing} /\ index[k] \in Nat \cup {NoOffset}
            BY <5>3
          <5>5. Tells(c, index[k], k, v)
            BY <1>2, <5>3, <5>4, StillTells
          <5> QED BY <5>1, <5>2, <5>3, <5>5
        <4> QED BY <4>1, <4>2
      <3>7. writeOff' = m
        BY <1>1, <1>2, <2>1
      <3> QED BY <1>1, <1>2, <3>4, <3>5, <3>6, <3>7 DEF AckedAt
    <2>4. AckedInv'
      BY <1>1, <1>2, <2>3 DEF AckedInv
    <2> QED BY <1>1, <1>5, <1>c, <2>2, <2>4 DEF EntriesInv
  <1> QED BY <1>6, <1>7

\* The Sync behind a Write fails: a record more, and the same entries.
LEMMA SyncFailsKeeps ==
    ASSUME FileIndInv, NEW rec \in Records, SyncFails(rec)
    PROVE  FileIndInv'
  <1> USE DEF FileIndInv, TypeOK
  <1>1. PICK b, c, n, m : b = bytes /\ c = bytes' /\ n = Len(bytes) /\ m = n + Size(rec)
    OBVIOUS
  <1>s. /\ Stores(rec) /\ faults' = faults + 1 /\ UNCHANGED <<synced, index>>
        /\ kept' = [kept EXCEPT ![rec.key] = @ \cup {ValueOf(rec)}]
    BY DEF SyncFails
  <1>2. /\ b \in Seq(Cells) /\ n \in Nat /\ n = Len(b)
        /\ c \in Seq(Cells) /\ Len(c) = m /\ m \in Nat /\ n < m
        /\ SameTo(b, c, n) /\ Stands(c, n, rec) /\ Torn(c, m)
        /\ rec.key \in Keys /\ Size(rec) \in Nat /\ ValueOf(rec) \in Values \cup {Nothing}
        /\ phase = "open" /\ writeOff' = writeOff + Size(rec)
        /\ UNCHANGED <<syncWrites, phase, offset>>
        /\ ~spoiled' => ~spoiled /\ writeOff = n
    BY <1>1, <1>s, StoresIs
  <1>3. spoiled' \in BOOLEAN
    BY <1>s DEF Stores
  <1>4. TypeOK'
    <2>1. synced' \in 0 .. Len(bytes')
      BY <1>1, <1>2, <1>s
    <2>2. kept' \in [Keys -> SUBSET (Values \cup {Nothing})]
      BY <1>2, <1>s
    <2> QED BY <1>1, <1>2, <1>s, <1>3, <2>1, <2>2
  <1>5. ClosedInv'
    BY <1>2 DEF ClosedInv
  <1>6. EntriesInv'
    <2> SUFFICES ASSUME ~spoiled', NEW k \in Keys, index'[k] # NoOffset
                 PROVE  \E v \in Values : Stands(c, index'[k], [key |-> k, val |-> v])
      BY <1>1 DEF EntriesInv
    <2>1. index'[k] = index[k] /\ index[k] \in Nat /\ ~spoiled
      BY <1>2, <1>s
    <2>2. PICK v \in Values : Stands(b, index[k], [key |-> k, val |-> v])
      BY <1>1, <2>1 DEF EntriesInv
    <2>3. Stands(c, index[k], [key |-> k, val |-> v])
      BY <1>2, <2>1, <2>2, StillStands
    <2> QED BY <2>1, <2>3
  <1>7. ASSUME syncWrites', ~spoiled'
        PROVE  AckedAt(m)'
    <2>1. PICK g \in 0 .. Len(bytes) : AckedAt(g)
      BY <1>2, <1>7 DEF AckedInv
    <2>2. g = n /\ writeOff = n
      BY <1>2, <1>7, <2>1 DEF AckedAt
    <2>3. /\ Whole(b, n)
          /\ \A k \in Keys : KeptIn(b, n, synced, k, kept[k])
          /\ \A k \in Keys : \E v \in kept[k] : Tells(b, index[k], k, v)
      BY <1>1, <1>2, <2>1, <2>2 DEF AckedAt
    <2>4. Whole(c, m)
      BY <1>1, <1>2, <2>3, WholeKept, WholeAfter
    <2>5. ASSUME NEW k \in Keys
          PROVE  KeptIn(c, m, synced, k, kept'[k]) /\ \E v \in kept'[k] : Tells(c, index[k], k, v)
      <3>1. kept[k] \subseteq kept'[k] /\ (k = rec.key => ValueOf(rec) \in kept'[k])
        BY <1>2, <1>s
      <3>2. synced \in Nat /\ synced =< synced
        BY <1>2
      <3>3. KeptIn(c, m, synced, k, kept'[k])
        BY <1>1, <1>2, <2>3, <3>1, <3>2, KeptAfter
      <3>4. PICK v \in kept[k] : Tells(b, index[k], k, v)
        BY <2>3
      <3>5. v \in Values \cup {Nothing} /\ index[k] \in Nat \cup {NoOffset}
        BY <3>4
      <3>6. Tells(c, index[k], k, v)
        BY <1>2, <3>4, <3>5, StillTells
      <3> QED BY <3>1, <3>3, <3>6
    <2>6. writeOff' = m
      BY <1>1, <1>2, <2>2
    <2> QED BY <1>1, <1>2, <1>s, <2>4, <2>5, <2>6 DEF AckedAt
  <1>8. AckedInv'
    BY <1>1, <1>2, <1>7 DEF AckedInv
  <1> QED BY <1>4, <1>5, <1>6, <1>8

LEMMA WriteFailsKeeps ==
    ASSUME FileIndInv, NEW rec \in Records, WriteFails(rec)
    PROVE  FileIndInv'
  <1> USE DEF FileIndInv, TypeOK
  <1>1. PICK i \in 1 .. (Size(rec) - 1) : bytes' = bytes \o SubSeq(Encoded(rec), 1, i)
    BY DEF WriteFails
  <1>2. PICK b, c : b = bytes /\ c = bytes'
    OBVIOUS
  <1>3. /\ b \in Seq(Cells) /\ c \in Seq(Cells) /\ Len(c) > Len(b)
        /\ SameTo(b, c, Len(b)) /\ Torn(c, Len(b))
    BY <1>1, <1>2, TornByPart
  <1>4. TypeOK'
    BY <1>2, <1>3 DEF WriteFails
  <1>5. /\ ~spoiled' => ~spoiled /\ writeOff = Len(b)
        /\ phase = "open"
        /\ UNCHANGED <<synced, syncWrites, phase, offset, writeOff, index, kept>>
    BY <1>2 DEF WriteFails
  <1>6. EntriesInv'
    <2> SUFFICES ASSUME ~spoiled', NEW k \in Keys, index'[k] # NoOffset
                 PROVE  \E v \in Values : Stands(c, index'[k], [key |-> k, val |-> v])
      BY <1>2 DEF EntriesInv
    <2>1. index'[k] = index[k] /\ index[k] \in Nat /\ ~spoiled
      BY <1>5
    <2>2. PICK v \in Values : Stands(b, index[k], [key |-> k, val |-> v])
      BY <1>2, <2>1 DEF EntriesInv
    <2>3. Stands(c, index[k], [key |-> k, val |-> v])
      BY <1>3, <2>1, <2>2, StillStands
    <2> QED BY <2>1, <2>3
  <1>7. ASSUME syncWrites', ~spoiled'
        PROVE  AckedAt(Len(b))'
    <2>1. PICK n \in 0 .. Len(bytes) : AckedAt(n)
      BY <1>5, <1>7 DEF AckedInv
    <2>2. n = Len(b) /\ writeOff = n /\ n \in Nat
      BY <1>2, <1>3, <1>5, <1>7, <2>1 DEF AckedAt
    <2>3. /\ Whole(b, n)
          /\ \A k \in Keys : KeptIn(b, n, synced, k, kept[k])
          /\ \A k \in Keys : \E v \in kept[k] : Tells(b, index[k], k, v)
      BY <1>2, <1>5, <2>1 DEF AckedAt
    <2>4. Whole(c, n)
      BY <1>3, <2>2, <2>3, WholeKept
    <2>5. ASSUME NEW k \in Keys
          PROVE  KeptIn(c, n, synced, k, kept[k]) /\ \E v \in kept[k] : Tells(c, index[k], k, v)
      <3>1. synced \in Nat /\ n \in 0 .. n /\ SameTo(b, c, n) /\ KeptIn(b, n, synced, k, kept[k])
        BY <1>3, <2>2, <2>3
      <3>2. KeptIn(c, n, synced, k, kept[k])
        BY <2>2, <3>1, KeptLess
      <3>3. PICK v \in kept[k] : Tells(b, index[k], k, v)
        BY <2>3
      <3>4. v \in Values \cup {Nothing} /\ index[k] \in Nat \cup {NoOffset}
        BY <3>3
      <3>5. Tells(c, index[k], k, v)
        BY <1>3, <3>3, <3>4, StillTells
      <3> QED BY <3>2, <3>3, <3>5
    <2> QED BY <1>2, <1>3, <1>5, <2>2, <2>4, <2>5 DEF AckedAt
  <1>8. AckedInv'
    BY <1>2, <1>3, <1>7 DEF AckedInv
  <1>9. ClosedInv'
    BY <1>5 DEF ClosedInv
  <1> QED BY <1>4, <1>6, <1>8, <1>9

\* The end of an instance: of the bytes e are left.
LEMMA ClosedKeeps ==
    ASSUME FileIndInv, Closed, bytes' \in Seq(Cells), synced' \in 0 .. Len(bytes'),
           faults' \in Nat, synced =< synced',
           NEW e \in Nat, synced =< e, Remains(bytes, bytes', e)
    PROVE  FileIndInv'
  <1> USE DEF FileIndInv, TypeOK
  <1>1. TypeOK'
    BY DEF Closed, NoEntries
  <1>2. EntriesInv'
    BY DEF Closed, NoEntries, EntriesInv
  <1>3. ClosedInv'
    BY DEF Closed, ClosedInv
  <1>4. ASSUME syncWrites', ~spoiled'
        PROVE  AckedInv'
    <2>1. PICK n \in 0 .. Len(bytes) : AckedAt(n)
      BY <1>4 DEF AckedInv, Closed
    <2>2. PICK b, c, d : b = bytes /\ c = bytes' /\ d = synced
      OBVIOUS
    <2>3. /\ b \in Seq(Cells) /\ n \in Nat /\ d \in Nat /\ synced' \in Nat /\ d =< synced'
          /\ Whole(b, n) /\ Torn(b, n) /\ Remains(b, c, e) /\ d =< e
          /\ \A k \in Keys : KeptIn(b, n, d, k, kept[k])
      BY <2>1, <2>2 DEF AckedAt
    <2>4. PICK g \in 0 .. n :
             /\ SameTo(b, c, g) /\ Whole(b, g) /\ Torn(c, g) /\ g =< Len(c)
             /\ \A m \in 0 .. n : m =< e /\ Boundary(b, m) => m =< g
      BY <2>3, CutIs
    <2>5. Whole(c, g)
      BY <2>4, WholeKept
    <2>6. \A m \in 0 .. n : m =< d /\ Boundary(b, m) => m =< g
      BY <2>3, <2>4
    <2>7. \A k \in Keys : KeptIn(c, g, synced', k, kept[k])
      BY <2>3, <2>4, <2>6, KeptLess
    <2>8. phase' = "closed" /\ UNCHANGED kept
      BY DEF Closed
    <2>9. AckedAt(g)'
      BY <2>2, <2>4, <2>5, <2>7, <2>8 DEF AckedAt
    <2>10. g \in 0 .. Len(bytes')
      BY <2>2, <2>4
    <2> QED BY <2>9, <2>10 DEF AckedInv
  <1> QED BY <1>1, <1>2, <1>3, <1>4 DEF AckedInv

LEMMA CloseKeeps ==
    ASSUME FileIndInv, Close
    PROVE  FileIndInv'
  <1>1. bytes' = bytes /\ bytes \in Seq(Cells) /\ synced' = synced
        /\ synced \in 0 .. Len(bytes) /\ faults' = faults /\ faults \in Nat
    BY DEF FileIndInv, TypeOK, Close
  <1>2. Len(bytes) \in Nat /\ synced =< Len(bytes) /\ Remains(bytes, bytes', Len(bytes))
    BY <1>1 DEF Remains, SameTo
  <1> QED BY <1>1, <1>2, ClosedKeeps DEF Close

LEMMA OpenRefusedKeeps ==
    ASSUME FileIndInv, OpenRefused
    PROVE  FileIndInv'
  <1>1. bytes' = bytes /\ bytes \in Seq(Cells) /\ synced' = synced
        /\ synced \in 0 .. Len(bytes) /\ faults' = faults /\ faults \in Nat
    BY DEF FileIndInv, TypeOK, OpenRefused
  <1>2. Len(bytes) \in Nat /\ synced =< Len(bytes) /\ Remains(bytes, bytes', Len(bytes))
    BY <1>1 DEF Remains, SameTo
  <1> QED BY <1>1, <1>2, ClosedKeeps DEF OpenRefused

LEMMA PowerLossKeeps ==
    ASSUME FileIndInv, PowerLoss
    PROVE  FileIndInv'
  <1>1. PICK n \in synced .. Len(bytes) :
           \/ bytes' = SubSeq(bytes, 1, n)
           \/ bytes' = [i \in 1 .. Len(bytes) |-> IF i =< n THEN bytes[i] ELSE Zero]
    BY DEF PowerLoss
  <1>2. bytes \in Seq(Cells) /\ synced \in 0 .. Len(bytes) /\ faults \in Nat
    BY DEF FileIndInv, TypeOK
  <1>3. n \in 0 .. Len(bytes) /\ Len(bytes) \in Nat
    BY <1>2
  <1>4. Remains(bytes, bytes', n)
    BY <1>1, <1>2, <1>3, CutRemains, ZerosRemain
  <1>5. bytes' \in Seq(Cells) /\ n =< Len(bytes')
    BY <1>4 DEF Remains, SameTo
  <1>6. n \in Nat /\ synced =< n
    BY <1>2, <1>3
  <1>7. synced' = Len(bytes') /\ Len(bytes') \in Nat /\ faults' \in Nat /\ Closed
    BY <1>2, <1>5 DEF PowerLoss
  <1>8. synced' \in 0 .. Len(bytes') /\ synced =< synced'
    BY <1>2, <1>3, <1>5, <1>7
  <1> QED BY <1>4, <1>5, <1>6, <1>7, <1>8, ClosedKeeps

LEMMA OpenKeeps ==
    ASSUME FileIndInv, Open
    PROVE  FileIndInv'
  <1>1. TypeOK'
    BY DEF FileIndInv, TypeOK, Open, store
  <1>2. ClosedInv'
    BY DEF ClosedInv, Open
  <1>3. EntriesInv'
    BY DEF FileIndInv, EntriesInv, Open, store
  <1>4. offset = 0 /\ index = NoEntries /\ phase = "closed" /\ phase' = "scan"
    BY DEF FileIndInv, ClosedInv, Open
  <1>5. UNCHANGED <<bytes, synced, syncWrites, offset, writeOff, index, kept, spoiled>>
    BY DEF Open, store
  <1>6. ASSUME NEW n \in 0 .. Len(bytes), AckedAt(n)
        PROVE  AckedAt(n)'
    <2>1. \A k \in Keys : Indexed(bytes, 0, k, index[k])
      BY <1>4 DEF NoEntries, Indexed, Deleted
    <2>2. Boundary(bytes, 0) /\ 0 =< n
      BY DEF Boundary
    <2> QED BY <1>4, <1>5, <1>6, <2>1, <2>2 DEF AckedAt
  <1>7. AckedInv'
    BY <1>5, <1>6 DEF FileIndInv, AckedInv
  <1> QED BY <1>1, <1>2, <1>3, <1>7 DEF FileIndInv

LEMMA ScanRecordKeeps ==
    ASSUME FileIndInv, ScanRecord
    PROVE  FileIndInv'
  <1>1. PICK rec \in ReadLogRecord(offset) \cap Records :
           index' = Entry(rec, offset) /\ offset' = offset + Size(rec)
    BY DEF ScanRecord
  <1>2. /\ phase = "scan" /\ phase' = "scan"
        /\ UNCHANGED <<bytes, synced, syncWrites, writeOff, faults, kept, spoiled>>
    BY DEF ScanRecord, store
  <1>3. /\ bytes \in Seq(Cells) /\ offset \in Nat /\ Len(bytes) \in Nat
        /\ index \in [Keys -> Nat \cup {NoOffset}]
    BY DEF FileIndInv, TypeOK
  <1>4. rec \in Records /\ Stands(bytes, offset, rec)
    BY <1>1, <1>3, ReadIs
  <1>5. rec.key \in Keys /\ rec.val \in Values \cup {Tombstone} /\ Size(rec) \in {5, 6}
        /\ rec = [key |-> rec.key, val |-> rec.val]
    BY <1>4, RecordIs
  <1>6. index' = [index EXCEPT ![rec.key] = EntryOf(rec, offset)]
        /\ EntryOf(rec, offset) \in Nat \cup {NoOffset}
    BY <1>1, <1>3 DEF Entry, EntryOf
  <1>7. TypeOK'
    BY <1>1, <1>2, <1>3, <1>5, <1>6 DEF FileIndInv, TypeOK
  <1>8. ClosedInv'
    BY <1>2 DEF ClosedInv
  <1>9. EntriesInv'
    <2> SUFFICES ASSUME ~spoiled, NEW k \in Keys, index'[k] # NoOffset
                 PROVE  \E v \in Values : Stands(bytes, index'[k], [key |-> k, val |-> v])
      BY <1>2 DEF EntriesInv
    <2>1. CASE k = rec.key
      <3>1. rec.val # Tombstone /\ index'[k] = offset
        BY <1>3, <1>5, <1>6, <2>1 DEF EntryOf
      <3> QED BY <1>4, <1>5, <2>1, <3>1
    <2>2. CASE k # rec.key
      <3>1. index'[k] = index[k]
        BY <1>3, <1>6, <2>2
      <3> QED BY <3>1 DEF FileIndInv, EntriesInv
    <2> QED BY <2>1, <2>2
  <1>10. ASSUME NEW n \in 0 .. Len(bytes), AckedAt(n)
         PROVE  AckedAt(n)'
    <2>1. PICK b, m : b = bytes /\ m = offset + Size(rec)
      OBVIOUS
    <2>2. /\ Whole(b, n) /\ Torn(b, n) /\ offset =< n /\ Boundary(b, offset)
          /\ \A k \in Keys : Indexed(b, offset, k, index[k])
      BY <1>2, <1>10, <2>1 DEF AckedAt
    <2>3. offset # n
      BY <1>4, <2>1, <2>2 DEF Torn
    <2>4. offset \in 0 .. (n - 1) /\ n \in Nat
      BY <1>3, <2>2, <2>3
    <2>5. b[offset + 1].field = 1
      BY <2>2, <2>4, BoundaryBegins
    <2>6. PICK o \in Records : Stands(b, offset, o) /\ offset + Size(o) =< n
      BY <1>3, <2>1, <2>2, <2>4, <2>5, BeginsStands
    <2>7. m =< n
      BY <1>4, <2>1, <2>6, OneStands
    <2>8. Boundary(b, m)
      BY <1>3, <1>4, <2>1, StandingCells
    <2>9. ASSUME NEW k \in Keys
          PROVE  Indexed(b, m, k, index'[k])
      <3>1. Indexed(b, offset, k, index[k])
        BY <2>2
      <3>2. CASE k = rec.key
        <4>1. index'[k] = EntryOf(rec, offset)
          BY <1>3, <1>5, <1>6, <3>2
        <4> QED BY <1>3, <1>4, <2>1, <3>2, <4>1, ReadingsAfter
      <3>3. CASE k # rec.key
        <4>1. index'[k] = index[k]
          BY <1>3, <1>6, <3>3
        <4> QED BY <1>3, <1>4, <2>1, <3>1, <3>3, <4>1, ReadingsAfter
      <3> QED BY <3>2, <3>3
    <2>10. offset' = m /\ b = bytes'
      BY <1>1, <1>2, <2>1
    <2> QED BY <1>2, <1>10, <2>1, <2>7, <2>8, <2>9, <2>10 DEF AckedAt
  <1>11. AckedInv'
    BY <1>2, <1>10 DEF FileIndInv, AckedInv
  <1> QED BY <1>7, <1>8, <1>9, <1>11 DEF FileIndInv

LEMMA ScanEndKeeps ==
    ASSUME FileIndInv, ScanEnd
    PROVE  FileIndInv'
  <1>1. /\ phase = "scan" /\ phase' = "open" /\ writeOff' = offset
        /\ EOF \in ReadLogRecord(offset)
        /\ UNCHANGED <<bytes, synced, syncWrites, offset, index, faults, kept, spoiled>>
    BY DEF ScanEnd, store
  <1>2. bytes \in Seq(Cells) /\ offset \in Nat /\ Len(bytes) \in Nat
    BY DEF FileIndInv, TypeOK
  <1>3. TypeOK'
    BY <1>1, <1>2 DEF FileIndInv, TypeOK
  <1>4. ClosedInv' /\ EntriesInv'
    BY <1>1 DEF FileIndInv, ClosedInv, EntriesInv
  <1>5. ASSUME NEW n \in 0 .. Len(bytes), AckedAt(n)
        PROVE  AckedAt(n)'
    <2>1. /\ Whole(bytes, n) /\ Torn(bytes, n) /\ offset =< n /\ Boundary(bytes, offset)
          /\ \A k \in Keys : Indexed(bytes, offset, k, index[k])
      BY <1>1, <1>5 DEF AckedAt
    <2>2. Torn(bytes, offset)
      BY <1>1, <1>2, ReadIs
    <2>3. ASSUME offset # n
          PROVE  FALSE
      <3>1. offset \in 0 .. (n - 1) /\ n \in Nat
        BY <1>2, <2>1, <2>3
      <3>2. bytes[offset + 1].field = 1
        BY <2>1, <3>1, BoundaryBegins
      <3>3. \E o \in Records : Stands(bytes, offset, o)
        BY <1>2, <2>1, <3>1, <3>2, BeginsStands
      <3> QED BY <2>2, <3>3 DEF Torn
    <2>4. ASSUME NEW k \in Keys
          PROVE  \E v \in kept[k] : Tells(bytes, index[k], k, v)
      <3>1. Indexed(bytes, n, k, index[k]) /\ n \in Nat
        BY <2>1, <2>3
      <3>2. KeptIn(bytes, n, synced, k, kept[k])
        BY <1>5 DEF AckedAt
      <3>3. kept[k] \subseteq Values \cup {Nothing} /\ index[k] \in Nat \cup {NoOffset}
        BY DEF FileIndInv, TypeOK
      <3> QED BY <1>2, <2>1, <3>1, <3>2, <3>3, KeptTold
    <2> QED BY <1>1, <1>5, <2>1, <2>3, <2>4 DEF AckedAt
  <1>6. AckedInv'
    BY <1>1, <1>5 DEF FileIndInv, AckedInv
  <1> QED BY <1>3, <1>4, <1>6 DEF FileIndInv

LEMMA FileStep ==
    ASSUME FileIndInv, [Next]_vars
    PROVE  FileIndInv'
  <1>1. ASSUME NEW k \in Keys, NEW v \in Values \cup {Tombstone}
        PROVE  [key |-> k, val |-> v] \in Records
    BY DEF Records
  <1>2. ASSUME NEW k \in Keys, NEW v \in Values, Put(k, v) \/ PutFails(k, v) \/ PutSyncFails(k, v)
        PROVE  FileIndInv'
    <2>1. [key |-> k, val |-> v] \in Records
      BY <1>1
    <2> QED BY <1>2, <2>1, WriteKeeps, WriteFailsKeeps, SyncFailsKeeps DEF Put, PutFails, PutSyncFails
  <1>3. ASSUME NEW k \in Keys, Delete(k) \/ DeleteFails(k) \/ DeleteSyncFails(k)
        PROVE  FileIndInv'
    <2>1. [key |-> k, val |-> Tombstone] \in Records
      BY <1>1
    <2> QED BY <1>3, <2>1, WriteKeeps, WriteFailsKeeps, SyncFailsKeeps
        DEF Delete, DeleteFails, DeleteSyncFails
  <1>4. CASE Close \/ PowerLoss \/ Open \/ ScanRecord \/ ScanEnd \/ OpenRefused
    BY <1>4, CloseKeeps, PowerLossKeeps, OpenKeeps, ScanRecordKeeps, ScanEndKeeps, OpenRefusedKeeps
  <1>5. CASE UNCHANGED vars
    <2>1. UNCHANGED <<bytes, synced, syncWrites, phase, offset, writeOff, index, faults, kept, spoiled>>
      BY <1>5 DEF vars, store
    <2>2. TypeOK' /\ ClosedInv' /\ EntriesInv'
      BY <2>1 DEF FileIndInv, TypeOK, ClosedInv, EntriesInv
    <2>3. AckedInv'
      BY <2>1 DEF FileIndInv, AckedInv, AckedAt
    <2> QED BY <2>2, <2>3 DEF FileIndInv
  <1> QED BY <1>2, <1>3, <1>4, <1>5 DEF Next

-----------------------------------------------------------------------------
\* The inductive invariant: where the acknowledged records stand, that behind
\* them only the records of calls whose Sync failed are whole, that no cut or
\* zeroed rest is taken for a record, and how far the scan of Open and the
\* index have followed them (data_file.go:82-154, db.go:402-416, 543-597).
THEOREM FileInvariance == Spec => []FileIndInv
  <1>1. Init => FileIndInv
    BY FileInit
  <1>2. FileIndInv /\ [Next]_vars => FileIndInv'
    BY FileStep
  <1> QED BY <1>1, <1>2, PTL DEF Spec

LEMMA EntriesReadHolds ==
    ASSUME FileIndInv
    PROVE  EntriesRead
  <1> SUFFICES ASSUME phase = "open", ~spoiled, NEW k \in Keys, index[k] # NoOffset
               PROVE  \E v \in Values : Read(k) = {[key |-> k, val |-> v]}
    BY DEF EntriesRead
  <1>1. PICK v \in Values : Stands(bytes, index[k], [key |-> k, val |-> v])
    BY DEF FileIndInv, EntriesInv
  <1>2. [key |-> k, val |-> v] \in Records
    BY DEF Records
  <1>3. bytes \in Seq(Cells) /\ index[k] \in Nat
    BY DEF FileIndInv, TypeOK
  <1>4. ReadLogRecord(index[k]) = {[key |-> k, val |-> v]}
    BY <1>1, <1>2, <1>3, ReadWhole
  <1> QED BY <1>4 DEF Read

LEMMA SyncedKeptHolds ==
    ASSUME FileIndInv
    PROVE  SyncedKept
  <1> SUFFICES ASSUME phase = "open", syncWrites, ~spoiled, NEW k \in Keys
               PROVE  \E v \in kept[k] :
                         Read(k) = IF v = Nothing THEN {ErrKeyNotFound}
                                   ELSE {[key |-> k, val |-> v]}
    BY DEF SyncedKept
  <1>1. PICK n \in 0 .. Len(bytes) : AckedAt(n)
    BY DEF FileIndInv, AckedInv
  <1>2. PICK v \in kept[k] : Tells(bytes, index[k], k, v)
    BY <1>1 DEF AckedAt
  <1>3. v \in Values \cup {Nothing} /\ bytes \in Seq(Cells) /\ index[k] \in Nat \cup {NoOffset}
    BY <1>2 DEF FileIndInv, TypeOK
  <1>4. CASE v = Nothing
    BY <1>2, <1>4 DEF Tells, Read
  <1>5. CASE v # Nothing
    <2>1. index[k] \in Nat /\ index[k] # NoOffset /\ Stands(bytes, index[k], [key |-> k, val |-> v])
      BY <1>2, <1>3, <1>5 DEF Tells
    <2>2. [key |-> k, val |-> v] \in Records
      BY <1>3, <1>5 DEF Records
    <2>3. ReadLogRecord(index[k]) = {[key |-> k, val |-> v]}
      BY <1>3, <2>1, <2>2, ReadWhole
    <2> QED BY <1>5, <2>1, <2>3 DEF Read
  <1> QED BY <1>2, <1>4, <1>5

\* As long as nothing was written behind a cut record, every entry of the
\* index leads to a whole record of its key, through cuts, power losses and
\* the scans after them (ReadLogRecord, data_file.go:82-154; db.go:402).
THEOREM EntriesAlwaysRead == Spec => []EntriesRead
  <1>1. FileIndInv => EntriesRead
    BY EntriesReadHolds
  <1> QED BY <1>1, FileInvariance, PTL

\* A store with SyncWrites answers with the last write that returned nil, or
\* with a later one whose Sync failed (appendLogRecord, db.go:413-416): the
\* loss of power cuts no acknowledged record, and of what it leaves behind
\* them only such a record is read as one (data_file.go:102-154).
THEOREM SyncedAlwaysKept == Spec => []SyncedKept
  <1>1. FileIndInv => SyncedKept
    BY SyncedKeptHolds
  <1> QED BY <1>1, FileInvariance, PTL
=============================================================================
