------------------------- MODULE DataFileInvariant -------------------------
(***************************************************************************)
(* The inductive invariant behind EntriesRead and SyncedKept: where the    *)
(* records of the acknowledged writes stand in the file, which records and *)
(* other bytes can be behind them, and how far the index has followed.     *)
(* What concerns the bytes alone is stated of any sequence b of cells.     *)
(***************************************************************************)
EXTENDS DataFile

Cells == [rec : Records, field : 1 .. (HeaderCells + 2)] \cup {Zero}

TypeOK ==
    /\ bytes \in Seq(Cells) /\ synced \in 0 .. Len(bytes) /\ syncWrites \in BOOLEAN
    /\ phase \in {"closed", "scan", "open"}
    /\ offset \in Nat /\ writeOff \in Nat /\ faults \in Nat
    /\ index \in [Keys -> Nat \cup {NoOffset}]
    /\ kept \in [Keys -> SUBSET (Values \cup {Nothing})]
    /\ spoiled \in BOOLEAN

\* The whole record rec stands at off.
Stands(b, off, rec) ==
    /\ off + Size(rec) =< Len(b)
    /\ \A i \in 1 .. Size(rec) : b[off + i] = Encoded(rec)[i]

\* The first n cells are whole records, one after the other.
Whole(b, n) ==
    /\ n =< Len(b)
    /\ n > 0 => b[1].field = 1
    /\ \A i \in 1 .. n :
          /\ b[i].rec \in Records /\ b[i].field \in 1 .. Size(b[i].rec)
          /\ b[i].field < Size(b[i].rec) =>
                i < n /\ b[i + 1] = [rec |-> b[i].rec, field |-> b[i].field + 1]
          /\ b[i].field = Size(b[i].rec) /\ i < n => b[i + 1].field = 1

\* The first n cells, if they are followed by a record, end with one.
Boundary(b, n) == n = 0 \/ b[n].field = Size(b[n].rec)

\* What follows is no whole record.
Torn(b, n) == \A rec \in Records : ~Stands(b, n, rec)

\* The newest record of k within the first n cells.
Begins(b, s, k) == b[s + 1].field = 1 /\ b[s + 1].rec.key = k
IsNewest(b, n, k, s) ==
    /\ s \in 0 .. (n - 1) /\ Begins(b, s, k)
    /\ \A t \in (s + 1) .. (n - 1) : ~Begins(b, t, k)
Deleted(b, n, k) == \A s \in 0 .. (n - 1) : IsNewest(b, n, k, s) => b[s + 1].rec.val = Tombstone

\* The entry an index has for k, and the value, after n cells.
Indexed(b, n, k, off) ==
    IF off = NoOffset THEN Deleted(b, n, k)
    ELSE IsNewest(b, n, k, off) /\ b[off + 1].rec.val # Tombstone
Valued(b, n, k, v) ==
    IF v = Nothing THEN Deleted(b, n, k)
    ELSE \E s \in 0 .. (n - 1) : IsNewest(b, n, k, s) /\ b[s + 1].rec.val = v

\* The next scan begins with an empty index at the start of the file.
ClosedInv == phase = "closed" => offset = 0 /\ index = NoEntries

\* Every entry leads to a record of its key.
EntriesInv == ~spoiled =>
    \A k \in Keys : index[k] # NoOffset =>
        \E v \in Values : Stands(bytes, index[k], [key |-> k, val |-> v])

\* Of the n cells d at least are on the disk, and with them the last record of
\* k that was acknowledged: it and those behind it have their values in V.
KeptIn(b, n, d, k, V) ==
    \E m \in 0 .. n :
        /\ m =< d /\ Boundary(b, m)
        /\ \E v \in V : Valued(b, m, k, v)
        /\ \A s \in m .. (n - 1) : Begins(b, s, k) => ValueOf(b[s + 1].rec) \in V

\* What the entry off of the index tells of k.
Tells(b, off, k, v) ==
    IF v = Nothing THEN off = NoOffset
    ELSE off # NoOffset /\ Stands(b, off, [key |-> k, val |-> v])

\* With SyncWrites the first n cells are whole records, the acknowledged ones
\* among them on the disk, and no record is behind them that a scan could take
\* for one.
AckedAt(n) ==
    /\ Whole(bytes, n) /\ Torn(bytes, n)
    /\ \A k \in Keys : KeptIn(bytes, n, synced, k, kept[k])
    /\ phase = "scan" =>
          /\ offset =< n /\ Boundary(bytes, offset)
          /\ \A k \in Keys : Indexed(bytes, offset, k, index[k])
    /\ phase = "open" =>
          /\ writeOff = n
          /\ \A k \in Keys : \E v \in kept[k] : Tells(bytes, index[k], k, v)
AckedInv == syncWrites /\ ~spoiled => \E n \in 0 .. Len(bytes) : AckedAt(n)

FileIndInv == TypeOK /\ ClosedInv /\ EntriesInv /\ AckedInv
=============================================================================
