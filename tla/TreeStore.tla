------------------------------ MODULE TreeStore ------------------------------
(***************************************************************************)
(* The storage engine with the B+ tree index: index/bptree.go and what     *)
(* db.go, batch.go and merge.go do differently for it.                     *)
(*                                                                         *)
(* The index is a bbolt file that outlives the instance.  Put and Delete   *)
(* of the index are transactions of their own, durable at once.  Open does *)
(* not read the data files: it takes WriteOff from the size of the last    *)
(* one and the batch number from seq-no, which Close writes.               *)
(*                                                                         *)
(* One record is one unit of length; only Merge starts a new data file     *)
(* (Bitcask has rotation and sync).  With SyncWrites a power loss leaves   *)
(* what ProcessCrash leaves; without it bbolt does not sync either and     *)
(* nothing is promised.                                                    *)
(*                                                                         *)
(* PosAfterWrite, FinishSkipped, AnyTime, WriteOffZero and SeqNoForgotten  *)
(* are faulty variants of what they stand before; Spec does not use them.  *)
(***************************************************************************)
EXTENDS Integers, Sequences, FiniteSets, LogOrder

CONSTANTS
    Keys, Values,
    DirectClients, BatchClients, KeysOf,
    Faults,       \* "crash": the process dies; "merge": Merge is called
    MaxRecords,   \* bound: records in the data files
    MaxSeqNo,     \* bound: commits are numbered 1 .. MaxSeqNo
    NoClient, TxnFinKey, Tombstone, Finished, NoWrite

Clients == DirectClients \cup BatchClients
FileIds == 0 .. 1
NoFile == -1
NoPos == [fid |-> NoFile, off |-> 0]
NoSeqNo == -1
EmptySeqNo == -2
NoWrites == [k \in Keys |-> NoWrite]
NoEntries == [k \in Keys |-> NoPos]
NoAck == [pos |-> NoPos, val |-> Tombstone]

ASSUME TreeAssumption ==
    /\ DirectClients \cap BatchClients = {} /\ NoClient \notin Clients
    /\ KeysOf \in [Clients -> SUBSET Keys]
    /\ Faults \subseteq {"crash", "merge"}
    /\ MaxRecords \in Nat /\ MaxSeqNo \in Nat
    /\ TxnFinKey \notin Keys
    /\ Values \cap {Tombstone, Finished, NoWrite} = {}
    /\ Tombstone # Finished /\ Tombstone # NoWrite /\ NoWrite # Finished

VARIABLES
    \* the data directory
    dirExists,
    files,        \* files[f] : the records of data file f
    lastFile,     \* the data file with the largest id, or NoFile
    seqNoFile,    \* the number in seq-no; NoSeqNo: no such file; EmptySeqNo
    diskTree,     \* the entries of bptree-index, as the next Open finds them
    merged,       \* what a finished Merge has left for the next Open
    \* the process
    phase,        \* "closed" or "open"
    treeOpen,     \* the process holds bbolt's lock on bptree-index
    tree,         \* the entries of the bbolt file this instance has open
    linked,       \* that file is the one in the directory
    writeOff, seqNo, seqNoFileExists, isInitial, mu,
    redirected,   \* Merge has changed DirPath of this instance
    leftOpen,     \* bptree-index of the last merge directory is still open
    pc, pending, positions, todo,      \* the callers, as in Bitcask
    \* history, read by properties only
    acked,        \* acked[k] : the last write of k that has returned nil
    crashed,      \* an instance has ended without Close
    replaced      \* an Open has moved the files of a Merge in

directory == <<dirExists, files, lastFile, seqNoFile, diskTree, merged>>
options == <<seqNoFileExists, isInitial, redirected, linked>>
instance == <<phase, treeOpen, leftOpen, tree, writeOff, seqNo, options>>
callers == <<pc, pending, positions, todo>>
history == <<acked, crashed, replaced>>
vars == <<directory, instance, mu, callers, history>>

RecAt(p) == files[p.fid][p.off + 1]
LogPositions == UNION {[fid : {f}, off : 0 .. Len(files[f]) - 1] : f \in FileIds}

-----------------------------------------------------------------------------
\* appendLogRecord and the index

ActiveFile == IF lastFile = NoFile THEN 0 ELSE lastFile
PosAfterWrite == [fid |-> ActiveFile, off |-> writeOff + 1]
AppendPos == [fid |-> ActiveFile, off |-> writeOff]
Room == MaxRecords - Len(files[0]) - Len(files[1])

AppendLogRecord(rec) ==
    /\ files' = [files EXCEPT ![ActiveFile] = Append(@, rec)]
    /\ lastFile' = ActiveFile
    /\ writeOff' = writeOff + 1
    /\ UNCHANGED <<dirExists, seqNoFile, diskTree, merged, phase, treeOpen,
                   leftOpen, tree, options, history>>

\* index.Put, or index.Delete for a tombstone: a transaction of bbolt's.
UpdateTree(k, v, p) ==
    /\ tree' = [tree EXCEPT ![k] = IF v = Tombstone THEN NoPos ELSE p]
    /\ diskTree' = IF linked THEN tree' ELSE diskTree
    /\ UNCHANGED <<dirExists, files, lastFile, seqNoFile, merged, phase,
                   treeOpen, leftOpen, writeOff, seqNo, options, crashed, replaced>>

Calm(c) == phase = "open" /\ pc[c] = "idle"
Locked == mu # NoClient
Staged(c) == {k \in Keys : pending[c][k] # NoWrite}

-----------------------------------------------------------------------------
\* Put and Delete.  Delete looks the key up and appends in one step; Bitcask
\* has the two apart.

DirectAppend(c, k, v) ==
    /\ Calm(c) /\ ~Locked /\ Room > 0      \* bound
    /\ AppendLogRecord([seq |-> 0, key |-> k, val |-> v])
    /\ pc' = [pc EXCEPT ![c] = "index"]
    /\ pending' = [pending EXCEPT ![c][k] = v]
    /\ positions' = [positions EXCEPT ![c][k] = AppendPos]
    /\ UNCHANGED <<seqNo, mu, todo>>

Put(c) == \E k \in KeysOf[c], v \in Values : DirectAppend(c, k, v)
Delete(c) == \E k \in KeysOf[c] :
    tree[k] # NoPos /\ DirectAppend(c, k, Tombstone)

Acks(c, ks) ==
    acked' = [k \in Keys |-> IF k \in ks
                THEN [pos |-> positions[c][k], val |-> pending[c][k]] ELSE acked[k]]

Forget(c) ==
    /\ pc' = [pc EXCEPT ![c] = "idle"]
    /\ pending' = [pending EXCEPT ![c] = NoWrites]
    /\ positions' = [positions EXCEPT ![c] = NoEntries]

DirectIndex(c) ==
    /\ phase = "open" /\ pc[c] = "index"
    /\ \E k \in Staged(c) : UpdateTree(k, pending[c][k], positions[c][k])
    /\ Acks(c, Staged(c))
    /\ Forget(c)
    /\ UNCHANGED <<mu, todo>>

-----------------------------------------------------------------------------
\* WriteBatch.  An instance that did not find seq-no may not make one, unless
\* it has made the directory: NewWriteBatch panics.

CanBatch == seqNoFileExists \/ isInitial

WBPut(c) ==
    /\ Calm(c) /\ CanBatch
    /\ \E k \in KeysOf[c], v \in Values : pending' = [pending EXCEPT ![c][k] = v]
    /\ UNCHANGED <<directory, instance, mu, pc, positions, todo, history>>

WBDelete(c) ==
    /\ Calm(c) /\ CanBatch
    /\ \E k \in KeysOf[c] :
          pending' = [pending EXCEPT
                        ![c][k] = IF tree[k] = NoPos THEN NoWrite ELSE Tombstone]
    /\ UNCHANGED <<directory, instance, mu, pc, positions, todo, history>>

FinishSkipped == "apply"
AfterAppends == "finish"

CommitStart(c) ==
    /\ Calm(c) /\ ~Locked /\ Staged(c) # {}
    /\ seqNo < MaxSeqNo /\ Room > Cardinality(Staged(c))      \* bounds
    /\ mu' = c
    /\ seqNo' = seqNo + 1
    /\ todo' = Staged(c)
    /\ pc' = [pc EXCEPT ![c] = "append"]
    /\ UNCHANGED <<directory, phase, treeOpen, leftOpen, tree, writeOff, options,
                   pending, positions, history>>

CommitAppend(c) ==
    /\ phase = "open" /\ pc[c] = "append"
    /\ \E k \in todo :
          /\ AppendLogRecord([seq |-> seqNo, key |-> k, val |-> pending[c][k]])
          /\ positions' = [positions EXCEPT ![c][k] = AppendPos]
          /\ todo' = IF todo = {k} /\ AfterAppends = "apply" THEN Staged(c)
                     ELSE todo \ {k}
          /\ pc' = IF todo = {k} THEN [pc EXCEPT ![c] = AfterAppends] ELSE pc
    /\ UNCHANGED <<seqNo, mu, pending>>

CommitFinish(c) ==
    /\ phase = "open" /\ pc[c] = "finish"
    /\ AppendLogRecord([seq |-> seqNo, key |-> TxnFinKey, val |-> Finished])
    /\ pc' = [pc EXCEPT ![c] = "apply"]
    /\ todo' = Staged(c)
    /\ UNCHANGED <<seqNo, mu, pending, positions>>

\* One transaction for each key.
CommitIndex(c) ==
    /\ phase = "open" /\ pc[c] = "apply"
    /\ \E k \in todo : UpdateTree(k, pending[c][k], positions[c][k])
                       /\ todo' = todo \ {k}
    /\ UNCHANGED <<mu, pc, pending, positions, acked>>

CommitEnd(c) ==
    /\ phase = "open" /\ pc[c] = "apply" /\ todo = {}
    /\ mu' = NoClient
    /\ Acks(c, Staged(c))
    /\ Forget(c)
    /\ UNCHANGED <<directory, instance, todo, crashed, replaced>>

-----------------------------------------------------------------------------
\* The instance

\* Merge, with nothing else going on: the live records are copied to the
\* merge directory, whose own bptree-index stays empty, for mergeDB calls
\* appendLogRecord and never its index; mergeDB is never closed.  DirPath now
\* names that directory.
LiveRecords(f) ==
    {p \in LogPositions : p.fid = f /\ RecAt(p).key \in Keys
                          /\ tree[RecAt(p).key] = p}

Merge ==
    /\ "merge" \in Faults
    /\ phase = "open" /\ ~Locked /\ \A c \in Clients : pc[c] = "idle"
    /\ lastFile = 0 /\ merged = <<>>      \* bound: one merge, one file
    /\ LET live == {p.off + 1 : p \in LiveRecords(0)}
           nth(n) == CHOOSE i \in live : Cardinality({j \in live : j < i}) = n - 1
       IN  merged' = <<[n \in 1 .. Cardinality(live) |->
                          [files[0][nth(n)] EXCEPT !.seq = 0]]>>
    /\ lastFile' = 1
    /\ writeOff' = 0
    /\ redirected' = TRUE
    /\ leftOpen' = TRUE
    /\ UNCHANGED <<dirExists, files, seqNoFile, diskTree, phase, treeOpen, tree,
                   seqNo, seqNoFileExists, isInitial, linked, mu, callers, history>>

Stop ==
    /\ phase' = "closed"
    /\ tree' = NoEntries
    /\ linked' = TRUE
    /\ writeOff' = 0
    /\ seqNo' = 0
    /\ seqNoFileExists' = FALSE
    /\ isInitial' = FALSE
    /\ redirected' = FALSE
    /\ mu' = NoClient
    /\ pc' = [c \in Clients |-> "idle"]
    /\ pending' = [c \in Clients |-> NoWrites]
    /\ positions' = [c \in Clients |-> NoEntries]
    /\ todo' = {}
    /\ UNCHANGED <<dirExists, files, lastFile, diskTree, merged, acked, replaced>>

AnyTime == TRUE
CanClose == ~Locked

\* Without a data file Close returns before it closes the index.  Once the
\* files of a Merge are moved in, the index mergeDB has open is that of the
\* directory.
Close ==
    /\ phase = "open" /\ CanClose
    /\ treeOpen' = (lastFile = NoFile \/ (leftOpen /\ ~linked))
    /\ seqNoFile' = IF lastFile = NoFile \/ redirected THEN seqNoFile ELSE seqNo
    /\ Stop
    /\ UNCHANGED <<leftOpen, crashed>>

ProcessExit ==
    /\ phase = "closed" /\ (treeOpen \/ leftOpen)
    /\ treeOpen' = FALSE
    /\ leftOpen' = FALSE
    /\ UNCHANGED <<directory, phase, tree, writeOff, seqNo, options, mu, callers,
                   history>>

ProcessCrash ==
    /\ "crash" \in Faults /\ phase = "open"
    /\ treeOpen' = FALSE
    /\ leftOpen' = FALSE
    /\ crashed' = TRUE
    /\ UNCHANGED seqNoFile
    /\ Stop

\* Close has created seq-no when the process dies.  Open reads io.EOF there.
CrashInClose ==
    /\ "crash" \in Faults /\ phase = "open" /\ ~Locked
    /\ lastFile # NoFile /\ ~redirected
    /\ treeOpen' = FALSE
    /\ leftOpen' = FALSE
    /\ crashed' = TRUE
    /\ seqNoFile' = EmptySeqNo
    /\ Stop

WriteOffZero == 0
SizeOfLastFile == IF lastFile = NoFile THEN 0 ELSE Len(files[lastFile])

SeqNoForgotten == 0
LoadedSeqNo == IF seqNoFile = NoSeqNo THEN 0 ELSE seqNoFile

\* bbolt waits for its lock for ever.  The index is opened before the files of
\* a merge are moved in, bptree-index among them.
OpenTree ==
    /\ phase = "closed" /\ ~treeOpen
    /\ treeOpen' = TRUE
    /\ dirExists' = TRUE
    /\ IF merged = <<>>
       THEN UNCHANGED <<files, diskTree, linked, merged, replaced>>
       ELSE /\ files' = [files EXCEPT ![0] = merged[1]]
            /\ diskTree' = NoEntries
            /\ linked' = FALSE
            /\ merged' = <<>>
            /\ replaced' = TRUE
    /\ UNCHANGED <<lastFile, redirected, leftOpen, mu, callers, acked, crashed>>

OpenDB ==
    /\ seqNoFile # EmptySeqNo
    /\ OpenTree
    /\ phase' = "open"
    /\ isInitial' = ~dirExists
    /\ tree' = diskTree
    /\ seqNo' = LoadedSeqNo
    /\ seqNoFileExists' = (seqNoFile # NoSeqNo)
    /\ seqNoFile' = NoSeqNo
    /\ writeOff' = SizeOfLastFile

\* The index stays open.
OpenRefused ==
    /\ seqNoFile = EmptySeqNo
    /\ OpenTree
    /\ UNCHANGED <<phase, isInitial, tree, seqNo, seqNoFileExists, seqNoFile, writeOff>>

-----------------------------------------------------------------------------
Init ==
    /\ dirExists = FALSE
    /\ files = [f \in FileIds |-> <<>>]
    /\ lastFile = NoFile
    /\ seqNoFile = NoSeqNo
    /\ diskTree = NoEntries
    /\ merged = <<>>
    /\ phase = "closed"
    /\ treeOpen = FALSE
    /\ tree = NoEntries
    /\ linked = TRUE
    /\ writeOff = 0
    /\ seqNo = 0
    /\ seqNoFileExists = FALSE
    /\ isInitial = FALSE
    /\ redirected = FALSE
    /\ leftOpen = FALSE
    /\ mu = NoClient
    /\ pc = [c \in Clients |-> "idle"]
    /\ pending = [c \in Clients |-> NoWrites]
    /\ positions = [c \in Clients |-> NoEntries]
    /\ todo = {}
    /\ acked = [k \in Keys |-> NoAck]
    /\ crashed = FALSE
    /\ replaced = FALSE

DirectStep(c) == Put(c) \/ Delete(c) \/ DirectIndex(c)
BatchStep(c) ==
    \/ WBPut(c) \/ WBDelete(c) \/ CommitStart(c) \/ CommitAppend(c)
    \/ CommitFinish(c) \/ CommitIndex(c) \/ CommitEnd(c)

Next ==
    \/ \E c \in DirectClients : DirectStep(c)
    \/ \E c \in BatchClients : BatchStep(c)
    \/ Merge \/ Close \/ CrashInClose \/ ProcessExit \/ ProcessCrash
    \/ OpenDB \/ OpenRefused

Spec == Init /\ [][Next]_vars

-----------------------------------------------------------------------------
\* Properties

Entries == IF phase = "open" THEN tree ELSE diskTree

\* Until the files of a Merge are moved in, an entry of the tree leads to a
\* record that exists, holds a value of that key and is no part of an
\* unfinished batch: the tree outlives crashes and is never compared with the
\* log (db.go:106-138).
EntriesSound ==
    \A k \in Keys : ~replaced /\ Entries[k] # NoPos =>
        LET p == Entries[k]
        IN  /\ p \in LogPositions
            /\ RecAt(p).key = k /\ RecAt(p).val \in Values
            /\ \/ RecAt(p).seq = 0
               \/ \E q \in LogPositions :
                     RecAt(q).val = Finished /\ RecAt(q).seq = RecAt(p).seq

\* The tree shows the write at p, or a later one of the same key.
Shows(k, p) ==
    \/ Entries[k] = p \/ Before(p, Entries[k])
    \/ /\ Entries[k] = NoPos
       /\ \E q \in LogPositions :
             (q = p \/ Before(p, q)) /\ RecAt(q).key = k /\ RecAt(q).val = Tombstone

\* What Put, Delete or Commit has returned for stays visible, through Close,
\* crashes, a Merge and the Open after it, though Open does not read the data
\* files, as long as that Open finds no files of a Merge (db.go:106-138).
Kept(k) == acked[k] # NoAck => Shows(k, acked[k].pos)
AckedVisible == ~replaced => \A k \in Keys : Kept(k)

\* After a Merge too, what a key was put with can be read: a key whose last
\* acknowledged write is a Put has an entry that leads to its value.  "The B+
\* tree index need not be loaded from the data files" (db.go:106).
ReadableAfterMerge ==
    \A k \in Keys : acked[k].val \in Values =>
        \/ Entries[k] \in LogPositions /\ RecAt(Entries[k]).key = k
        \/ \E c \in Clients : pc[c] # "idle"

\* While every instance ends with Close, and no files of a Merge are moved in,
\* Commit never takes a number that the log already has (Close and loadSeqNo,
\* db.go:162-177 and 605-627).
NumbersFresh ==
    [][(~crashed /\ ~replaced /\ ~Locked /\ Locked') =>
          \A p \in LogPositions : RecAt(p).seq # seqNo']_vars

\* Until the files of a Merge are moved in, a batch is visible as a whole or not
\* at all once nobody is inside Commit: "WriteBatch writes data in an atomic
\* batch, and ensures atomicity" (batch.go:14).
BatchWhole ==
    ~replaced /\ ~Locked =>
        \A p, q \in LogPositions :
            /\ RecAt(p).seq # 0 /\ RecAt(p).seq = RecAt(q).seq
            /\ RecAt(p).key \in Keys /\ RecAt(q).key \in Keys
            /\ Shows(RecAt(p).key, p)
            => Shows(RecAt(q).key, q)

\* So it is as long as no instance dies, though every key is a transaction of
\* its own (batch.go:127-141).
BatchVisible == crashed \/ BatchWhole
=============================================================================
