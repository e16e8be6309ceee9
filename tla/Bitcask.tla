------------------------------ MODULE Bitcask ------------------------------
(***************************************************************************)
(* The storage engine of bitcask-go with an in-memory index (BTree or      *)
(* ART): db.go and batch.go.                                               *)
(*                                                                         *)
(* Writes are appended to numbered data files; an index maps each key to   *)
(* the position of its record.  Put and Delete hold db.mu for the append   *)
(* only and touch the index after releasing it; Commit holds it from the   *)
(* first append to the last index update.  Open rebuilds the index by      *)
(* reading the files in order.                                             *)
(*                                                                         *)
(* One record is one unit of length: a position is a file and the number   *)
(* of records before it, and DataFileSize and BytesPerSync count records.  *)
(*                                                                         *)
(* Eight definitions are faulty variants of the one they stand before, and *)
(* Spec does not use them: RotatesLate, AppendOffNotReset, NeedSyncByCount, *)
(* RotationUnsynced, WriteFailsAfterAdvance, LockIgnored,                  *)
(* IsDirectUnlessFinished, SeqNoOfFinished.  PROJECT.json pairs each with  *)
(* a property that must fail under it.                                     *)
(***************************************************************************)
EXTENDS Integers, Sequences, FiniteSets, LogOrder

CONSTANTS
    Keys, Values,
    DirectClients,   \* goroutines that call Put and Delete
    BatchClients,    \* goroutines that own a WriteBatch
    KeysOf,          \* KeysOf[c] : the keys client c writes
    DataFileSize, SyncWrites, BytesPerSync,   \* Options
    BatchSync, MaxBatchNum,                   \* WriteBatchOptions
    Faults,          \* which of AllFaults the environment may produce
    MaxFileId,       \* bound: data files 0 .. MaxFileId
    MaxSeqNo,        \* bound: commits are numbered 1 .. MaxSeqNo
    NoClient,        \* mu = NoClient : nobody holds db.mu
    TxnFinKey,       \* the key of a record that ends a batch
    Tombstone,       \* the value of a LogRecordDeleted record
    Finished,        \* the value of a LogRecordTxnFinished record
    NoWrite          \* pending[c][k] = NoWrite : nothing staged for k

Clients == DirectClients \cup BatchClients
AllFaults == {"open", "write", "sync", "crash", "power"}
FileIds == 0 .. MaxFileId
SeqNos == 1 .. MaxSeqNo
NoFile == -1
Positions == [fid : FileIds, off : 0 .. (DataFileSize - 1)]
NoPos == [fid |-> NoFile, off |-> 0]
Records == [seq : 0 .. MaxSeqNo, key : Keys \cup {TxnFinKey},
            val : Values \cup {Tombstone, Finished}]
WriteSets == [Keys -> Values \cup {Tombstone, NoWrite}]
NoWrites == [k \in Keys |-> NoWrite]

ASSUME SizesAssumption ==
    /\ DataFileSize \in Nat \ {0}
    /\ MaxFileId \in Nat
    /\ MaxSeqNo \in Nat
    /\ MaxBatchNum \in Nat
    /\ BytesPerSync \in Nat
ASSUME OptionsAssumption ==
    /\ SyncWrites \in BOOLEAN
    /\ BatchSync \in BOOLEAN
    /\ Faults \subseteq AllFaults
ASSUME ClientsAssumption ==
    /\ DirectClients \cap BatchClients = {}
    /\ NoClient \notin Clients
    /\ KeysOf \in [Clients -> SUBSET Keys]
ASSUME MarkersAssumption ==
    /\ TxnFinKey \notin Keys
    /\ Tombstone \notin Values
    /\ Finished \notin Values
    /\ NoWrite \notin Values
    /\ Tombstone # Finished
    /\ Tombstone # NoWrite
    /\ NoWrite # Finished

VARIABLES
    \* the data directory
    files,        \* files[f] : the records of data file f
    onDisk,       \* the data files that exist
    synced,       \* synced[f] : how many records of f have reached the disk
    \* the DB instance
    phase,        \* "closed", "loading" (inside Open) or "open"
    activeFile, olderFiles, writeOff, bytesWrite, seqNo, index,
    mu,           \* the client that holds db.mu across several steps
    \* the locals of loadIndexFromDataFiles
    cursor,       \* the record to read next
    txn,          \* transactionRecords
    \* the callers
    pc,           \* where each client stands in its call
    pending,      \* the write of a Put or Delete, pendingWrites of a batch
    positions,    \* where the records of pending have been appended
    todo,         \* the keys the running loop of Commit has still to visit
    \* history, read by properties only
    batchOf,      \* batchOf[s] : the writes of the commit numbered s
    acked         \* the commits that have returned nil

disk == <<files, onDisk, synced>>
writer == <<activeFile, olderFiles, writeOff, bytesWrite>>
loader == <<cursor, txn>>
callers == <<pc, pending, positions, todo>>
history == <<batchOf, acked>>
vars == <<disk, phase, writer, seqNo, index, mu, loader, callers, history>>

-----------------------------------------------------------------------------
\* The log

\* The record at a position.
RecAt(p) == files[p.fid][p.off + 1]

LogPositions == {p \in Positions : p.off < Len(files[p.fid])}

\* A record counts when it is no part of a batch or its batch has ended.
Committed(s) ==
    \/ s = 0
    \/ \E p \in LogPositions : RecAt(p).seq = s /\ RecAt(p).val = Finished

Effective(k) ==
    {p \in LogPositions : RecAt(p).key = k /\ Committed(RecAt(p).seq)}

\* What a reader finds when a record is the newest one of its key.
ValueAt(p) == IF p = NoPos THEN Tombstone ELSE RecAt(p).val

IndexView == [k \in Keys |-> ValueAt(index[k])]

LogView == [k \in Keys |->
               IF Effective(k) = {} THEN Tombstone ELSE ValueAt(Last(Effective(k)))]

-----------------------------------------------------------------------------
\* appendLogRecord

RotatesLate == activeFile # NoFile /\ writeOff > DataFileSize
Rotates == activeFile # NoFile /\ writeOff + 1 > DataFileSize
NewFile == activeFile = NoFile \/ Rotates
AppendFile == IF NewFile THEN activeFile + 1 ELSE activeFile
AppendOffNotReset == IF activeFile = NoFile THEN 0 ELSE writeOff
AppendOff == IF NewFile THEN 0 ELSE writeOff
AppendPos == [fid |-> AppendFile, off |-> AppendOff]
NeedSyncByCount == BytesPerSync > 0 /\ bytesWrite + 1 >= BytesPerSync
NeedSync == SyncWrites \/ (BytesPerSync > 0 /\ bytesWrite + 1 >= BytesPerSync)

\* How many records fit below the bound MaxFileId; Commit does not start what
\* the bound would stop half-way.
Room == IF activeFile = NoFile THEN (MaxFileId + 1) * DataFileSize
        ELSE (MaxFileId - activeFile) * DataFileSize + (DataFileSize - writeOff)

OlderAfterRotation ==
    IF Rotates THEN olderFiles \cup {activeFile} ELSE olderFiles
RotationUnsynced == synced
SyncedAfterRotation ==
    IF Rotates THEN [synced EXCEPT ![activeFile] = Len(files[activeFile])]
    ELSE synced

\* A full active file is synced and becomes an older one.
SetActiveDataFile ==
    /\ AppendFile =< MaxFileId     \* bound
    /\ activeFile' = AppendFile
    /\ olderFiles' = OlderAfterRotation
    /\ onDisk' = onDisk \cup {AppendFile}

\* alsoSync: Commit syncs the active file right after this append.
AppendLogRecord(rec, alsoSync) ==
    /\ SetActiveDataFile
    /\ files' = [files EXCEPT ![AppendFile] = Append(@, rec)]
    /\ writeOff' = AppendOff + 1
    /\ bytesWrite' = IF NeedSync THEN 0 ELSE bytesWrite + 1
    /\ synced' = IF NeedSync \/ alsoSync
                 THEN [SyncedAfterRotation EXCEPT
                          ![AppendFile] = Len(files[AppendFile]) + 1]
                 ELSE SyncedAfterRotation

\* The calls of appendLogRecord that can fail, in their order: the Sync of the
\* full file, the opening of the next one, the Write, the Sync after it (the
\* record stays in the file).
RotationSyncFails ==
    /\ "sync" \in Faults /\ Rotates
    /\ UNCHANGED <<disk, writer>>
OpenFails ==
    /\ "open" \in Faults /\ NewFile
    /\ olderFiles' = OlderAfterRotation
    /\ synced' = SyncedAfterRotation
    /\ UNCHANGED <<files, onDisk, activeFile, writeOff, bytesWrite>>
WriteFailsAfterAdvance ==
    /\ "write" \in Faults
    /\ SetActiveDataFile
    /\ writeOff' = AppendOff + 1
    /\ synced' = SyncedAfterRotation
    /\ UNCHANGED <<files, bytesWrite>>
WriteFails ==
    /\ "write" \in Faults
    /\ SetActiveDataFile
    /\ writeOff' = AppendOff
    /\ synced' = SyncedAfterRotation
    /\ UNCHANGED <<files, bytesWrite>>
SyncAfterWriteFails(rec) ==
    /\ "sync" \in Faults /\ NeedSync
    /\ SetActiveDataFile
    /\ files' = [files EXCEPT ![AppendFile] = Append(@, rec)]
    /\ writeOff' = AppendOff + 1
    /\ bytesWrite' = bytesWrite + 1
    /\ synced' = SyncedAfterRotation
AppendFails(rec) ==
    RotationSyncFails \/ OpenFails \/ WriteFails \/ SyncAfterWriteFails(rec)

\* index.Put, or index.Delete for a tombstone.
IndexEntry(v, p) == IF v = Tombstone THEN NoPos ELSE p
UpdateIndex(k, v, p) == index' = [index EXCEPT ![k] = IndexEntry(v, p)]

Calm(c) == phase = "open" /\ pc[c] = "idle"
LockIgnored == FALSE
Locked == mu # NoClient

-----------------------------------------------------------------------------
\* Put and Delete

DirectRecord(k, v) == [seq |-> 0, key |-> k, val |-> v]

\* appendLogRecordWithLock succeeds: the lock is free again, the index is not
\* updated yet.
DirectAppend(c, k, v) ==
    /\ ~Locked
    /\ AppendLogRecord(DirectRecord(k, v), FALSE)
    /\ pc' = [pc EXCEPT ![c] = "index"]
    /\ pending' = [pending EXCEPT ![c] = [NoWrites EXCEPT ![k] = v]]
    /\ positions' = [positions EXCEPT ![c][k] = AppendPos]
    /\ UNCHANGED <<phase, seqNo, index, mu, loader, todo, history>>

PutAppend(c) ==
    /\ Calm(c)
    /\ \E k \in KeysOf[c], v \in Values : DirectAppend(c, k, v)

PutFails(c) ==
    /\ Calm(c) /\ ~Locked
    /\ \E k \in KeysOf[c], v \in Values : AppendFails(DirectRecord(k, v))
    /\ UNCHANGED <<phase, seqNo, index, mu, loader, callers, history>>

\* Delete of a key the index does not have returns at once, without a step.
DeleteCheck(c) ==
    /\ Calm(c)
    /\ \E k \in KeysOf[c] :
          /\ index[k] # NoPos
          /\ pending' = [pending EXCEPT ![c] = [NoWrites EXCEPT ![k] = Tombstone]]
    /\ pc' = [pc EXCEPT ![c] = "delete"]
    /\ UNCHANGED <<disk, phase, writer, seqNo, index, mu, loader, positions,
                   todo, history>>

DeleteAppend(c) ==
    /\ phase = "open" /\ pc[c] = "delete"
    /\ \E k \in Keys : pending[c][k] = Tombstone /\ DirectAppend(c, k, Tombstone)

DeleteFails(c) ==
    /\ phase = "open" /\ pc[c] = "delete" /\ ~Locked
    /\ \E k \in Keys :
          pending[c][k] = Tombstone /\ AppendFails(DirectRecord(k, Tombstone))
    /\ pc' = [pc EXCEPT ![c] = "idle"]
    /\ pending' = [pending EXCEPT ![c] = NoWrites]
    /\ UNCHANGED <<phase, seqNo, index, mu, loader, positions, todo, history>>

\* The index update that follows, under no lock.  Delete answers
\* ErrIndexUpdateFailed when the key is gone; the state is the same.
DirectIndex(c) ==
    /\ phase = "open" /\ pc[c] = "index"
    /\ \E k \in Keys :
          /\ pending[c][k] # NoWrite
          /\ UpdateIndex(k, pending[c][k], positions[c][k])
          /\ positions' = [positions EXCEPT ![c][k] = NoPos]
    /\ pc' = [pc EXCEPT ![c] = "idle"]
    /\ pending' = [pending EXCEPT ![c] = NoWrites]
    /\ UNCHANGED <<disk, phase, writer, seqNo, mu, loader, todo, history>>

-----------------------------------------------------------------------------
\* WriteBatch

Staged(c) == {k \in Keys : pending[c][k] # NoWrite}

WBPut(c) ==
    /\ Calm(c)
    /\ \E k \in KeysOf[c], v \in Values : pending' = [pending EXCEPT ![c][k] = v]
    /\ UNCHANGED <<disk, phase, writer, seqNo, index, mu, loader, pc, positions,
                   todo, history>>

\* A key the index does not have needs no tombstone.  db.mu is not taken.
WBDelete(c) ==
    /\ Calm(c)
    /\ \E k \in KeysOf[c] :
          pending' = [pending EXCEPT
                        ![c][k] = IF index[k] = NoPos THEN NoWrite ELSE Tombstone]
    /\ UNCHANGED <<disk, phase, writer, seqNo, index, mu, loader, pc, positions,
                   todo, history>>

\* Commit of an empty batch, or of one beyond MaxBatchNum, returns at once.
CommitStart(c) ==
    /\ Calm(c) /\ ~Locked
    /\ Staged(c) # {} /\ Cardinality(Staged(c)) =< MaxBatchNum
    /\ seqNo < MaxSeqNo /\ Room > Cardinality(Staged(c))
    /\ mu' = c
    /\ seqNo' = seqNo + 1
    /\ batchOf' = [batchOf EXCEPT ![seqNo + 1] = pending[c]]
    /\ todo' = Staged(c)
    /\ pc' = [pc EXCEPT ![c] = "append"]
    /\ UNCHANGED <<disk, phase, writer, index, loader, pending, positions, acked>>

BatchRecord(c, k) == [seq |-> seqNo, key |-> k, val |-> pending[c][k]]
FinishedRecord == [seq |-> seqNo, key |-> TxnFinKey, val |-> Finished]

\* The map pendingWrites is visited in any order.
CommitAppend(c) ==
    /\ phase = "open" /\ pc[c] = "append"
    /\ \E k \in todo :
          /\ AppendLogRecord(BatchRecord(c, k), FALSE)
          /\ positions' = [positions EXCEPT ![c][k] = AppendPos]
          /\ todo' = todo \ {k}
          /\ pc' = IF todo = {k} THEN [pc EXCEPT ![c] = "finish"] ELSE pc
    /\ UNCHANGED <<phase, seqNo, index, mu, loader, pending, history>>

CommitFinish(c) ==
    /\ phase = "open" /\ pc[c] = "finish"
    /\ AppendLogRecord(FinishedRecord, BatchSync)
    /\ todo' = Staged(c)
    /\ pc' = [pc EXCEPT ![c] = "apply"]
    /\ UNCHANGED <<phase, seqNo, index, mu, loader, pending, positions, history>>

\* The error leaves pendingWrites as it was, and seqNo used.
CommitFails(c) ==
    /\ phase = "open" /\ mu = c
    /\ \/ /\ pc[c] = "append"
          /\ \E k \in todo : AppendFails(BatchRecord(c, k))
       \/ /\ pc[c] = "finish"
          /\ \/ AppendFails(FinishedRecord)
             \/ /\ BatchSync /\ "sync" \in Faults
                /\ AppendLogRecord(FinishedRecord, FALSE)
    /\ mu' = NoClient
    /\ pc' = [pc EXCEPT ![c] = "idle"]
    /\ positions' = [positions EXCEPT ![c] = [k \in Keys |-> NoPos]]
    /\ todo' = {}
    /\ UNCHANGED <<phase, seqNo, index, loader, pending, history>>

CommitIndex(c) ==
    /\ phase = "open" /\ pc[c] = "apply"
    /\ \E k \in todo :
          /\ UpdateIndex(k, pending[c][k], positions[c][k])
          /\ todo' = todo \ {k}
    /\ UNCHANGED <<disk, phase, writer, seqNo, mu, loader, pc, pending,
                   positions, history>>

CommitEnd(c) ==
    /\ phase = "open" /\ pc[c] = "apply" /\ todo = {}
    /\ mu' = NoClient
    /\ pc' = [pc EXCEPT ![c] = "idle"]
    /\ pending' = [pending EXCEPT ![c] = NoWrites]
    /\ positions' = [positions EXCEPT ![c] = [k \in Keys |-> NoPos]]
    /\ acked' = acked \cup {seqNo}
    /\ UNCHANGED <<disk, phase, writer, seqNo, index, loader, todo, batchOf>>

-----------------------------------------------------------------------------
\* The DB instance

Sync ==
    /\ phase = "open" /\ ~Locked /\ activeFile # NoFile
    /\ synced' = [synced EXCEPT ![activeFile] = Len(files[activeFile])]
    /\ UNCHANGED <<files, onDisk, phase, writer, seqNo, index, mu, loader,
                   callers, history>>

\* Nothing in memory outlives the instance.
Stop ==
    /\ phase' = "closed"
    /\ activeFile' = NoFile
    /\ olderFiles' = {}
    /\ writeOff' = 0
    /\ bytesWrite' = 0
    /\ seqNo' = 0
    /\ index' = [k \in Keys |-> NoPos]
    /\ mu' = NoClient
    /\ cursor' = NoPos
    /\ txn' = [s \in SeqNos |-> {}]
    /\ pc' = [c \in Clients |-> "idle"]
    /\ pending' = [c \in Clients |-> NoWrites]
    /\ positions' = [c \in Clients |-> [k \in Keys |-> NoPos]]
    /\ todo' = {}
    /\ UNCHANGED history

\* Close waits for db.mu but not for a Put or Delete between its append and
\* its index update; the data files are closed, not synced.
Close ==
    /\ phase = "open" /\ ~Locked
    /\ Stop
    /\ UNCHANGED disk

\* The process dies; what it wrote is in the page cache.
ProcessCrash ==
    /\ "crash" \in Faults /\ phase # "closed"
    /\ Stop
    /\ UNCHANGED disk

\* The machine dies; of each file some prefix with the synced part is left.
PowerLoss ==
    /\ "power" \in Faults
    /\ \E kept \in [FileIds -> 0 .. DataFileSize] :
          /\ \A f \in FileIds : synced[f] =< kept[f] /\ kept[f] =< Len(files[f])
          /\ files' = [f \in FileIds |-> SubSeq(files[f], 1, kept[f])]
          /\ synced' = kept
    /\ Stop
    /\ UNCHANGED onDisk

\* Open: the file with the largest id is the active one.
OpenDB ==
    /\ phase = "closed"
    /\ IF onDisk = {}
       THEN /\ phase' = "open"
            /\ UNCHANGED <<activeFile, olderFiles, cursor>>
       ELSE /\ phase' = "loading"
            /\ \E last \in onDisk :
                  /\ \A f \in onDisk : f =< last
                  /\ activeFile' = last
                  /\ olderFiles' = onDisk \ {last}
            /\ \E first \in onDisk :
                  /\ \A f \in onDisk : first =< f
                  /\ cursor' = [fid |-> first, off |-> 0]
    /\ UNCHANGED <<disk, writeOff, bytesWrite, seqNo, index, mu, txn, callers,
                   history>>

\* The records kept for batch s are applied in the order they were read.
ApplyTransaction(s) ==
    index' = [k \in Keys |->
                LET written == {p \in txn[s] : RecAt(p).key = k}
                IN  IF written = {} THEN index[k]
                    ELSE IndexEntry(RecAt(Last(written)).val, Last(written))]

AtRecord == phase = "loading" /\ cursor.off < Len(files[cursor.fid])
AtEnd == phase = "loading" /\ cursor.off = Len(files[cursor.fid])

IsDirectUnlessFinished(rec) == rec.val # Finished
IsDirect(rec) == rec.seq = 0
SeqNoOfFinished(rec) ==
    IF rec.seq > seqNo /\ rec.val = Finished THEN rec.seq ELSE seqNo
SeqNoAfter(rec) == IF rec.seq > seqNo THEN rec.seq ELSE seqNo

\* One turn of the loop of loadIndexFromDataFiles.  While loading, seqNo is
\* its local currentSeqNo.
LoadRecord ==
    /\ AtRecord
    /\ LET rec == RecAt(cursor)
       IN  /\ \/ /\ IsDirect(rec)
                 /\ UpdateIndex(rec.key, rec.val, cursor)
                 /\ UNCHANGED txn
              \/ /\ ~IsDirect(rec) /\ rec.val = Finished
                 /\ ApplyTransaction(rec.seq)
                 /\ txn' = [txn EXCEPT ![rec.seq] = {}]
              \/ /\ ~IsDirect(rec) /\ rec.val # Finished
                 /\ txn' = [txn EXCEPT ![rec.seq] = @ \cup {cursor}]
                 /\ UNCHANGED index
           /\ seqNo' = SeqNoAfter(rec)
    /\ cursor' = [cursor EXCEPT !.off = @ + 1]
    /\ UNCHANGED <<disk, phase, writer, mu, callers, history>>

LoadNextFile ==
    /\ AtEnd /\ cursor.fid # activeFile
    /\ \E f \in onDisk :
          /\ cursor.fid < f
          /\ \A g \in onDisk : cursor.fid < g => f =< g
          /\ cursor' = [fid |-> f, off |-> 0]
    /\ UNCHANGED <<disk, phase, writer, seqNo, index, mu, txn, callers, history>>

\* WriteOff of the active file is where the scan has stopped; the records of
\* batches without an end are forgotten.
LoadEnd ==
    /\ AtEnd /\ cursor.fid = activeFile
    /\ writeOff' = cursor.off
    /\ phase' = "open"
    /\ cursor' = NoPos
    /\ txn' = [s \in SeqNos |-> {}]
    /\ UNCHANGED <<disk, activeFile, olderFiles, bytesWrite, seqNo, index, mu,
                   callers, history>>

-----------------------------------------------------------------------------
Init ==
    /\ files = [f \in FileIds |-> <<>>]
    /\ onDisk = {}
    /\ synced = [f \in FileIds |-> 0]
    /\ phase = "closed"
    /\ activeFile = NoFile
    /\ olderFiles = {}
    /\ writeOff = 0
    /\ bytesWrite = 0
    /\ seqNo = 0
    /\ index = [k \in Keys |-> NoPos]
    /\ mu = NoClient
    /\ cursor = NoPos
    /\ txn = [s \in SeqNos |-> {}]
    /\ pc = [c \in Clients |-> "idle"]
    /\ pending = [c \in Clients |-> NoWrites]
    /\ positions = [c \in Clients |-> [k \in Keys |-> NoPos]]
    /\ todo = {}
    /\ batchOf = [s \in SeqNos |-> NoWrites]
    /\ acked = {}

DirectStep(c) ==
    \/ PutAppend(c) \/ PutFails(c)
    \/ DeleteCheck(c) \/ DeleteAppend(c) \/ DeleteFails(c)
    \/ DirectIndex(c)

BatchStep(c) ==
    \/ WBPut(c) \/ WBDelete(c)
    \/ CommitStart(c) \/ CommitAppend(c) \/ CommitFinish(c) \/ CommitFails(c)
    \/ CommitIndex(c) \/ CommitEnd(c)

Load == LoadRecord \/ LoadNextFile \/ LoadEnd

Next ==
    \/ \E c \in DirectClients : DirectStep(c)
    \/ \E c \in BatchClients : BatchStep(c)
    \/ Sync \/ Close \/ OpenDB \/ Load
    \/ ProcessCrash \/ PowerLoss

Spec == Init /\ [][Next]_vars
=============================================================================
