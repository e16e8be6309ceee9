------------------------------ MODULE DataFile ------------------------------
(***************************************************************************)
(* One data file below the level of whole records: data/data_file.go,      *)
(* data/log_record.go and fio/file_io.go, with what Put, Delete, Get and   *)
(* the scan of Open (db.go) do with it.                                    *)
(*                                                                         *)
(* A record is the row of its fields, one cell for each: checksum, type,   *)
(* key size, value size, key, value; a deletion has no value.  A record    *)
(* may be cut between any two cells; a cut within the checksum or within   *)
(* the key or the value reads like one at its edge.  The file is opened    *)
(* for append, so a Write goes to its end, wherever WriteOff stands.       *)
(*                                                                         *)
(* Calls come one after the other, and no batches.  Bytes that are not one *)
(* record do not have the checksum they claim to have.                     *)
(*                                                                         *)
(* ChecksumIgnored and PosAfterWrite are faulty variants of what they      *)
(* stand before; Spec does not use them.                                   *)
(***************************************************************************)
EXTENDS Integers, Sequences, FiniteSets

CONSTANTS
    Keys, Values,
    Faults,      \* "write": a Write stores a part; "sync": a Sync fails;
                 \* "power": a power loss; "zeros": after it what is lost
                 \* may read as zeros
    MaxCells,    \* bound: the length of the file
    MaxFaults,   \* bound: how many of these happen
    Tombstone,   \* the value of a deletion
    Nothing      \* no value, no record

NoOffset == -1

ASSUME DataFileAssumption ==
    /\ Faults \subseteq {"write", "sync", "power", "zeros"}
    /\ MaxCells \in Nat /\ MaxFaults \in Nat
    /\ Tombstone \notin Values /\ Nothing \notin Values \cup {Tombstone}

VARIABLES
    bytes,       \* the cells of the file
    synced,      \* how many of them are on the disk
    syncWrites,  \* the option
    phase,       \* "closed", "scan" or "open"
    offset,      \* where the scan of Open stands
    writeOff,    \* WriteOff of the file
    index,       \* index[k] : an offset, or NoOffset
    faults,      \* how many there have been
    \* history, read by properties only
    kept,        \* kept[k] : the value of the last write of k that returned
                 \* nil, and those of the later ones whose Sync failed
    spoiled      \* a Write went elsewhere than WriteOff

store == <<bytes, synced, syncWrites>>
vars == <<store, phase, offset, writeOff, index, faults, kept, spoiled>>

NoEntries == [k \in Keys |-> NoOffset]

-----------------------------------------------------------------------------
\* The codec

EOF == [err |-> "EOF"]
ErrInvalidCRC == [err |-> "ErrInvalidCRC"]
ErrKeyNotFound == [err |-> "ErrKeyNotFound"]
Records == [key : Keys, val : Values \cup {Tombstone}]

\* The size EncodeLogRecord returns, and the cells it makes.
HeaderCells == 4
Size(rec) == IF rec.val = Tombstone THEN HeaderCells + 1 ELSE HeaderCells + 2
Encoded(rec) == [i \in 1 .. Size(rec) |-> [rec |-> rec, field |-> i]]
Zero == [rec |-> Nothing, field |-> 0]

From(off) == SubSeq(bytes, off + 1, Len(bytes))
StartsWith(s, t) == Len(t) =< Len(s) /\ SubSeq(s, 1, Len(t)) = t
Smaller(a, b) == IF a < b THEN a ELSE b

\* A record begins at off and is cut by the end of the file.
CutByEnd(off) == \E rec \in Records : StartsWith(Encoded(rec), From(off))

\* Other bytes follow a cut record, or off lies inside of a record: the sizes
\* may lead beyond the end, which is EOF, or to a checksum that does not fit.
ChecksumIgnored(off) ==
    IF Len(From(off)) >= HeaderCells /\ From(off)[1].field = 1
    THEN {From(off)[1].rec} ELSE {ErrInvalidCRC}
Mixed(off) == {EOF, ErrInvalidCRC}

\* With the checksum and the type alone both sizes are read as 0.
CutOutcome(off) == IF Len(From(off)) = 2 THEN {ErrInvalidCRC} ELSE {EOF}

\* What ReadLogRecord may return at off.
ReadLogRecord(off) ==
    LET rest == From(off)
        whole == {rec \in Records : StartsWith(rest, Encoded(rec))}
    IN  IF Len(rest) =< 1 THEN {EOF}
        ELSE IF whole # {} THEN whole
        ELSE IF \A i \in 1 .. Smaller(HeaderCells, Len(rest)) : rest[i] = Zero
             THEN {EOF}
        ELSE IF CutByEnd(off) THEN CutOutcome(off)
        ELSE Mixed(off)

\* Get: the offset in the index and what is read there.
Read(k) == IF index[k] = NoOffset THEN {ErrKeyNotFound} ELSE ReadLogRecord(index[k])

-----------------------------------------------------------------------------
\* The open instance

Entry(rec, off) == [index EXCEPT ![rec.key] =
                       IF rec.val = Tombstone THEN NoOffset ELSE off]

PosAfterWrite(rec) == writeOff + Size(rec)
PosOf(rec) == writeOff

\* The value a key has after rec.
ValueOf(rec) == IF rec.val = Tombstone THEN Nothing ELSE rec.val

\* The whole record goes to the end of the file.
Stores(rec) ==
    /\ phase = "open" /\ Len(bytes) + Size(rec) =< MaxCells      \* bound
    /\ bytes' = bytes \o Encoded(rec)
    /\ writeOff' = writeOff + Size(rec)
    /\ spoiled' = (spoiled \/ writeOff # Len(bytes))
    /\ UNCHANGED <<syncWrites, phase, offset>>

Write(rec) ==
    /\ Stores(rec)
    /\ synced' = IF syncWrites THEN Len(bytes') ELSE synced
    /\ index' = Entry(rec, PosOf(rec))
    /\ kept' = [kept EXCEPT ![rec.key] = {ValueOf(rec)}]
    /\ UNCHANGED faults

Put(k, v) == Write([key |-> k, val |-> v])
Delete(k) == index[k] # NoOffset /\ Write([key |-> k, val |-> Tombstone])

\* The Sync behind the Write fails, and so does the call: the record stays
\* and WriteOff is behind it, but the index is not updated.
SyncFails(rec) ==
    /\ "sync" \in Faults /\ faults < MaxFaults
    /\ faults' = faults + 1
    /\ syncWrites /\ Stores(rec)
    /\ kept' = [kept EXCEPT ![rec.key] = @ \cup {ValueOf(rec)}]
    /\ UNCHANGED <<synced, index>>

PutSyncFails(k, v) == SyncFails([key |-> k, val |-> v])
DeleteSyncFails(k) ==
    index[k] # NoOffset /\ SyncFails([key |-> k, val |-> Tombstone])

\* The file system stores a part of the bytes and returns an error.
WriteFails(rec) ==
    /\ "write" \in Faults /\ faults < MaxFaults
    /\ faults' = faults + 1
    /\ phase = "open" /\ Len(bytes) + Size(rec) =< MaxCells      \* bound
    /\ \E n \in 1 .. Size(rec) - 1 : bytes' = bytes \o SubSeq(Encoded(rec), 1, n)
    /\ spoiled' = (spoiled \/ writeOff # Len(bytes))
    /\ UNCHANGED <<synced, syncWrites, phase, offset, writeOff, index, kept>>

PutFails(k, v) == WriteFails([key |-> k, val |-> v])
DeleteFails(k) ==
    index[k] # NoOffset /\ WriteFails([key |-> k, val |-> Tombstone])

\* The instance ends, by Close or with its process: the files are the same.
Closed ==
    /\ phase' = "closed"
    /\ offset' = 0
    /\ writeOff' = 0
    /\ index' = NoEntries
    /\ UNCHANGED <<syncWrites, kept, spoiled>>

Close == phase = "open" /\ Closed /\ UNCHANGED <<bytes, synced, faults>>

PowerLoss ==
    /\ "power" \in Faults /\ faults < MaxFaults
    /\ faults' = faults + 1
    /\ \E n \in synced .. Len(bytes) :
          \/ bytes' = SubSeq(bytes, 1, n)
          \/ /\ "zeros" \in Faults
             /\ bytes' = [i \in 1 .. Len(bytes) |-> IF i =< n THEN bytes[i] ELSE Zero]
    /\ synced' = Len(bytes')
    /\ Closed

-----------------------------------------------------------------------------
\* Open: newDatafile and loadIndexFromDataFiles

Open ==
    /\ phase = "closed"
    /\ phase' = "scan"
    /\ UNCHANGED <<store, offset, writeOff, index, faults, kept, spoiled>>

ScanRecord ==
    /\ phase = "scan"
    /\ \E rec \in ReadLogRecord(offset) \cap Records :
          /\ index' = Entry(rec, offset)
          /\ offset' = offset + Size(rec)
    /\ UNCHANGED <<store, phase, writeOff, faults, kept, spoiled>>

ScanEnd ==
    /\ phase = "scan" /\ EOF \in ReadLogRecord(offset)
    /\ phase' = "open"
    /\ writeOff' = offset
    /\ UNCHANGED <<store, offset, index, faults, kept, spoiled>>

OpenRefused ==
    /\ phase = "scan" /\ ErrInvalidCRC \in ReadLogRecord(offset)
    /\ Closed
    /\ UNCHANGED <<bytes, synced, faults>>

-----------------------------------------------------------------------------
Init ==
    /\ bytes = <<>>
    /\ synced = 0
    /\ syncWrites \in BOOLEAN
    /\ phase = "closed"
    /\ offset = 0
    /\ writeOff = 0
    /\ index = NoEntries
    /\ kept = [k \in Keys |-> {Nothing}]
    /\ faults = 0
    /\ spoiled = FALSE

Next ==
    \/ \E k \in Keys, v \in Values : Put(k, v) \/ PutFails(k, v) \/ PutSyncFails(k, v)
    \/ \E k \in Keys : Delete(k) \/ DeleteFails(k) \/ DeleteSyncFails(k)
    \/ Close \/ PowerLoss \/ Open \/ ScanRecord \/ ScanEnd \/ OpenRefused

Spec == Init /\ [][Next]_vars

-----------------------------------------------------------------------------
\* Properties

\* As long as nothing was written behind a cut record, every entry of the
\* index leads to a record of its key, with or without syncs, through cuts,
\* power losses and the scans after them (db.go:402, data_file.go:82-154).
EntriesRead ==
    phase = "open" /\ ~spoiled =>
        \A k \in Keys : index[k] # NoOffset =>
            \E v \in Values : Read(k) = {[key |-> k, val |-> v]}

\* Under the same condition a store with SyncWrites answers with the last
\* write that returned nil, or with a later one whose Sync failed: such a
\* record is in the file although the call returned an error (db.go:413-416),
\* and an Open may find it or not.  A cut record is told from the records
\* before it and taken for none (ReadLogRecord, data_file.go:102-154).
SyncedKept ==
    phase = "open" /\ syncWrites /\ ~spoiled =>
        \A k \in Keys : \E v \in kept[k] :
            Read(k) = IF v = Nothing THEN {ErrKeyNotFound} ELSE {[key |-> k, val |-> v]}
=============================================================================
