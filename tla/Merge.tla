------------------------------- MODULE Merge -------------------------------
(***************************************************************************)
(* Merge, merge.go: an instance that goes on writing, the goroutine that   *)
(* copies the live records of the older files to the merge directory, and  *)
(* the Open that swaps the copies in.                                      *)
(*                                                                         *)
(* Directory 0 is the one the user names; d + 1 is getMergePath of d.      *)
(* Options is a pointer: Merge sets DirPath and SyncWrites of the running  *)
(* instance too, so dirPath and syncWrites below are its live options.     *)
(*                                                                         *)
(* Writers are those of Bitcask, with one write per batch, which looks at  *)
(* the index where Commit begins; an index entry names a file by its id    *)
(* alone, and dirOf says where the instance has that file open.  A record  *)
(* goes to the end of its file; its position is the WriteOff of the        *)
(* instance that writes, which is the end as long as no other writes the   *)
(* file (OneWriterPerFile).  Operations on directories are durable at      *)
(* once.                                                                   *)
(*                                                                         *)
(* NextFileByCount, RotationUnsynced, LockIgnored, MergeOffBeforeRotation  *)
(* and BoundaryMerged are faulty variants of the definitions they stand    *)
(* before; Spec does not use them.                                         *)
(***************************************************************************)
EXTENDS Integers, Sequences, FiniteSets, LogOrder

CONSTANTS
    Keys, Values, DirectClients, BatchClients,
    DataFileSize, SyncWrites, BatchSync,
    Faults,      \* which of AllFaults the environment may produce
    MaxFileId,   \* bound: data files 0 .. MaxFileId
    MaxSeqNo,    \* bound: commits are numbered 1 .. MaxSeqNo
    MaxDir,      \* bound: directories 0 .. MaxDir, merges of one instance
    NoClient, TxnFinKey, Tombstone, Finished,
    NoHint,      \* hint[d] = NoHint : no hint-index in directory d
    Unreadable   \* what Get answers when the position leads nowhere

Clients == DirectClients \cup BatchClients
\* "crash" outside of the swap of directories, "swap" within it; "merge" and
\* "rename" are calls that return an error.
AllFaults == {"crash", "swap", "merge", "rename"}
Dirs == 0 .. MaxDir
FileIds == 0 .. MaxFileId
NoFile == -1
NoDir == -1
Empty == -2
\* Two instances together may write twice as much to a file.
Positions == [fid : FileIds, off : 0 .. (2 * DataFileSize - 1)]
NoPos == [fid |-> NoFile, off |-> 0]
Records == [seq : 0 .. MaxSeqNo, key : Keys \cup {TxnFinKey},
            val : Values \cup {Tombstone, Finished}]
Writes == [key : Keys, val : Values \cup {Tombstone}]
NoHintEntries == [k \in Keys |-> NoPos]

ASSUME MergeAssumption ==
    /\ DataFileSize \in Nat \ {0}
    /\ MaxFileId \in Nat /\ MaxSeqNo \in Nat /\ MaxDir \in Nat
    /\ SyncWrites \in BOOLEAN /\ BatchSync \in BOOLEAN
    /\ Faults \subseteq AllFaults
    /\ DirectClients \cap BatchClients = {} /\ NoClient \notin Clients
    /\ TxnFinKey \notin Keys
    /\ Values \cap {Tombstone, Finished, Unreadable} = {}
    /\ NoHint \notin [Keys -> Positions \cup {NoPos}]
    /\ Tombstone # Finished /\ Unreadable \notin {Tombstone, Finished}

VARIABLES
    \* the directories
    exists,      \* the directories that exist
    present,     \* present[d] : the data files in d
    data,        \* data[d][f] : the records of file f of directory d
    synced,      \* synced[d][f] : how many of them have reached the disk
    hint,        \* hint[d] : hint-index, the position of each key in it
    fin,         \* fin[d] : merge-finished: the first file not merged, NoFile
                 \* when there is none, Empty before it is written
    \* the DB instance
    phase,       \* "closed", "open", or the part of Open that is running
    dirPath, syncWrites,   \* its live options
    dirOf,       \* dirOf[f] : where activeFile and olderFiles have f open
    writeOff,    \* WriteOff of activeFile
    index, seqNo, mu,
    pc, write,   \* the clients, and the key, value and position of their writes
    \* the goroutine inside Merge
    mpc, nonMergeFileId, toScan,
    mergeFile,   \* activeFile of mergeDB
    mergeOff,    \* its WriteOff
    \* history, read by properties only
    kv,          \* the value each key has by the order of the log
    shared       \* mergeDB has found a file of the running instance

dirs == <<exists, present, data, synced, hint, fin>>
options == <<dirPath, syncWrites>>
calls == <<pc, write>>
merge == <<mpc, nonMergeFileId, toScan, mergeFile, mergeOff>>
history == <<kv, shared>>
vars == <<dirs, phase, options, dirOf, writeOff, index, seqNo, mu, calls, merge, history>>

-----------------------------------------------------------------------------
\* The log of an instance that has the files of h open

At(h, p) == data[h[p.fid]][p.fid][p.off + 1]

LogOf(h, from) ==
    {p \in Positions : /\ p.fid >= from /\ h[p.fid] # NoDir
                       /\ p.off < Len(data[h[p.fid]][p.fid])}

\* The records of k that count, from file "from" on.
Effective(h, from, k) ==
    {p \in LogOf(h, from) :
        /\ At(h, p).key = k
        /\ \/ At(h, p).seq = 0
           \/ \E q \in LogOf(h, from) :
                 At(h, q).seq = At(h, p).seq /\ At(h, q).val = Finished}

IndexEntry(h, p) == IF At(h, p).val = Tombstone THEN NoPos ELSE p

OpenFiles == {f \in FileIds : dirOf[f] # NoDir}
RecAt(p) == At(dirOf, p)

\* What Get answers.
Answer(k) ==
    IF index[k] = NoPos THEN Tombstone
    ELSE IF index[k] \in LogOf(dirOf, 0) THEN RecAt(index[k]).val ELSE Unreadable

-----------------------------------------------------------------------------
\* Put, Delete and Commit

\* activeFile is the open file with the largest id.
ActiveFile ==
    IF OpenFiles = {} THEN NoFile
    ELSE CHOOSE f \in OpenFiles : \A g \in OpenFiles : g =< f
NextFileByCount == Cardinality(OpenFiles)
NextFile == ActiveFile + 1
Rotates == ActiveFile # NoFile /\ writeOff >= DataFileSize
NewFile == ActiveFile = NoFile \/ Rotates
AppendFile == IF NewFile THEN NextFile ELSE ActiveFile
AppendDir == IF NewFile THEN dirPath ELSE dirOf[ActiveFile]
AppendPos == [fid |-> AppendFile, off |-> IF NewFile THEN 0 ELSE writeOff]

\* Every record of the active file is on the disk.
SyncedActive ==
    [synced EXCEPT ![dirOf[ActiveFile]][ActiveFile] =
        Len(data[dirOf[ActiveFile]][ActiveFile])]

RotationUnsynced == synced
SyncedAfterRotation == IF Rotates THEN SyncedActive ELSE synced

AppendLogRecord(rec, alsoSync) ==
    /\ AppendFile =< MaxFileId     \* bound
    /\ data' = [data EXCEPT ![AppendDir][AppendFile] = Append(@, rec)]
    /\ present' = [present EXCEPT ![AppendDir] = @ \cup {AppendFile}]
    /\ dirOf' = [dirOf EXCEPT ![AppendFile] = AppendDir]
    /\ writeOff' = AppendPos.off + 1
    /\ synced' = IF syncWrites \/ alsoSync
                 THEN [SyncedAfterRotation EXCEPT
                          ![AppendDir][AppendFile] = Len(data[AppendDir][AppendFile]) + 1]
                 ELSE SyncedAfterRotation
    /\ UNCHANGED <<exists, hint, fin>>

LockIgnored == FALSE
Locked == mu # NoClient
Calm(c) == phase = "open" /\ pc[c] = "idle" /\ ~Locked

\* A tombstone is written for a key the index has.
Writable(w) == w.val # Tombstone \/ index[w.key] # NoPos

UpdateIndex(w, p) ==
    index' = [index EXCEPT ![w.key] = IF w.val = Tombstone THEN NoPos ELSE p]

\* Delete begins with a look at the index, db.mu is free or not.
DirectLook(c) ==
    /\ phase = "open" /\ pc[c] = "idle"
    /\ \E k \in Keys :
          /\ index[k] # NoPos
          /\ write' = [write EXCEPT ![c] = [key |-> k, val |-> Tombstone, pos |-> NoPos]]
    /\ pc' = [pc EXCEPT ![c] = "delete"]
    /\ UNCHANGED <<dirs, phase, options, dirOf, writeOff, index, seqNo, mu, merge, history>>

\* Put or Delete: the append under db.mu, then the index update without it.
DirectAppend(c) ==
    /\ phase = "open" /\ ~Locked
    /\ \E w \in Writes :
          /\ \/ pc[c] = "idle" /\ w.val # Tombstone
             \/ pc[c] = "delete" /\ w = [key |-> write[c].key, val |-> Tombstone]
          /\ AppendLogRecord([seq |-> 0, key |-> w.key, val |-> w.val], FALSE)
          /\ write' = [write EXCEPT ![c] = [key |-> w.key, val |-> w.val, pos |-> AppendPos]]
          /\ kv' = [kv EXCEPT ![w.key] = w.val]
    /\ pc' = [pc EXCEPT ![c] = "index"]
    /\ UNCHANGED <<phase, options, index, seqNo, mu, merge, shared>>

DirectIndex(c) ==
    /\ phase = "open" /\ pc[c] = "index"
    /\ UpdateIndex(write[c], write[c].pos)
    /\ pc' = [pc EXCEPT ![c] = "idle"]
    /\ UNCHANGED <<dirs, phase, options, dirOf, writeOff, seqNo, mu, write, merge, history>>

\* Commit of one write, db.mu held throughout.
CommitAppend(c) ==
    /\ Calm(c) /\ seqNo < MaxSeqNo
    /\ \/ AppendFile < MaxFileId     \* bound: both records fit
       \/ AppendFile = MaxFileId /\ AppendPos.off + 1 < DataFileSize
    /\ \E w \in Writes :
          /\ Writable(w)
          /\ AppendLogRecord([seq |-> seqNo + 1, key |-> w.key, val |-> w.val], FALSE)
          /\ write' = [write EXCEPT ![c] = [key |-> w.key, val |-> w.val, pos |-> AppendPos]]
    /\ mu' = c
    /\ seqNo' = seqNo + 1
    /\ pc' = [pc EXCEPT ![c] = "finish"]
    /\ UNCHANGED <<phase, options, index, merge, history>>

CommitFinish(c) ==
    /\ phase = "open" /\ pc[c] = "finish"
    /\ AppendLogRecord([seq |-> seqNo, key |-> TxnFinKey, val |-> Finished], BatchSync)
    /\ kv' = [kv EXCEPT ![write[c].key] = write[c].val]
    /\ pc' = [pc EXCEPT ![c] = "apply"]
    /\ UNCHANGED <<phase, options, index, seqNo, mu, write, merge, shared>>

CommitIndex(c) ==
    /\ phase = "open" /\ pc[c] = "apply"
    /\ UpdateIndex(write[c], write[c].pos)
    /\ mu' = NoClient
    /\ pc' = [pc EXCEPT ![c] = "idle"]
    /\ UNCHANGED <<dirs, phase, options, dirOf, writeOff, seqNo, write, merge, history>>

Sync ==
    /\ phase = "open" /\ ~Locked /\ ActiveFile # NoFile
    /\ synced' = SyncedActive
    /\ UNCHANGED <<exists, present, data, hint, fin, phase, options, dirOf, writeOff,
                   index, seqNo, mu, calls, merge, history>>

-----------------------------------------------------------------------------
\* Merge

\* The files up to the active one are to be merged, and a new one is opened.
MergeStart ==
    /\ phase = "open" /\ mpc = "none" /\ ~Locked /\ ActiveFile # NoFile
    /\ NextFile =< MaxFileId /\ dirPath < MaxDir     \* bounds
    /\ synced' = SyncedActive
    /\ present' = [present EXCEPT ![dirPath] = @ \cup {NextFile}]
    /\ dirOf' = [dirOf EXCEPT ![NextFile] = dirPath]
    /\ writeOff' = 0
    /\ nonMergeFileId' = NextFile
    /\ toScan' = LogOf(dirOf, 0)
    /\ mpc' = "prepare"
    /\ UNCHANGED <<exists, data, hint, fin, phase, options, index, seqNo, mu, calls,
                   mergeFile, mergeOff, history>>

\* No file of directory d is left.
Emptied(d) ==
    /\ present' = [present EXCEPT ![d] = {}]
    /\ data' = [data EXCEPT ![d] = [f \in FileIds |-> <<>>]]
    /\ synced' = [synced EXCEPT ![d] = [f \in FileIds |-> 0]]
    /\ fin' = [fin EXCEPT ![d] = NoFile]

\* The merge directory is made anew.  mergeOptions is db.options: from here on
\* the running instance creates its files there, too, and does not sync.
MergePrepare ==
    /\ mpc = "prepare"
    /\ exists' = exists \cup {dirPath + 1}
    /\ Emptied(dirPath + 1)
    /\ hint' = [hint EXCEPT ![dirPath + 1] = NoHint]
    /\ dirPath' = dirPath + 1
    /\ syncWrites' = FALSE
    /\ mpc' = "open"
    /\ UNCHANGED <<phase, dirOf, writeOff, index, seqNo, mu, calls, nonMergeFileId,
                   toScan, mergeFile, mergeOff, history>>

\* mergeDB is opened in it, and hint-index is created.  A file the running
\* instance has created there since is a data file like any other: mergeDB
\* takes the last one for its active file and goes on behind its records.
MergeOpen ==
    /\ mpc = "open"
    /\ dirPath + 1 \notin exists     \* bound: mergeDB finds no merge of its own
    /\ mergeFile' \in present[dirPath] \cup {NoFile}
    /\ \A f \in present[dirPath] : f =< mergeFile'
    /\ mergeOff' = IF mergeFile' = NoFile THEN 0 ELSE Len(data[dirPath][mergeFile'])
    /\ hint' = [hint EXCEPT ![dirPath] = NoHintEntries]
    /\ mpc' = "scan"
    /\ shared' = (shared \/ present[dirPath] # {})
    /\ UNCHANGED <<exists, present, data, synced, fin, phase, options, dirOf, writeOff,
                   index, seqNo, mu, calls, nonMergeFileId, toScan, kv>>

IsLive(p) == RecAt(p).key \in Keys /\ index[RecAt(p).key] = p

MergeRotates == mergeFile # NoFile /\ mergeOff >= DataFileSize
MergeAppendFile ==
    IF mergeFile = NoFile \/ MergeRotates THEN mergeFile + 1 ELSE mergeFile
MergeOffBeforeRotation == IF mergeFile = NoFile THEN 0 ELSE mergeOff
MergeOff == IF mergeFile = NoFile \/ MergeRotates THEN 0 ELSE mergeOff

\* mergeDB.appendLogRecord of the record at p, its batch number cleared, and
\* the hint for it.
Rewrite(p) ==
    /\ MergeAppendFile =< MaxFileId
    /\ data' = [data EXCEPT ![dirPath][MergeAppendFile] =
                   Append(@, [RecAt(p) EXCEPT !.seq = 0])]
    /\ present' = [present EXCEPT ![dirPath] = @ \cup {MergeAppendFile}]
    /\ synced' = IF MergeRotates
                 THEN [synced EXCEPT ![dirPath][mergeFile] = Len(data[dirPath][mergeFile])]
                 ELSE synced
    /\ hint' = [hint EXCEPT ![dirPath][RecAt(p).key] =
                   [fid |-> MergeAppendFile, off |-> MergeOff]]
    /\ mergeFile' = MergeAppendFile
    /\ mergeOff' = MergeOff + 1
    /\ UNCHANGED <<exists, fin>>

\* The records of the older files in their order; the index is read without
\* db.mu.
MergeRecord ==
    /\ mpc = "scan" /\ toScan # {}
    /\ LET p == First(toScan)
       IN  /\ \/ IsLive(p) /\ Rewrite(p)
              \/ ~IsLive(p) /\ UNCHANGED <<dirs, mergeFile, mergeOff>>
           /\ toScan' = toScan \ {p}
    /\ UNCHANGED <<phase, options, dirOf, writeOff, index, seqNo, mu, calls, mpc,
                   nonMergeFileId, history>>

BoundaryMerged == nonMergeFileId + 1
Boundary == nonMergeFileId

\* mergeDB and hint-index are synced, merge-finished is created.
MergeSync ==
    /\ mpc = "scan" /\ toScan = {}
    /\ synced' = IF mergeFile = NoFile THEN synced
                 ELSE [synced EXCEPT ![dirPath][mergeFile] = Len(data[dirPath][mergeFile])]
    /\ fin' = [fin EXCEPT ![dirPath] = Empty]
    /\ mpc' = "finish"
    /\ UNCHANGED <<exists, present, data, hint, phase, options, dirOf, writeOff, index,
                   seqNo, mu, calls, nonMergeFileId, toScan, mergeFile, mergeOff, history>>

\* merge-finished is written.
MergeFinish ==
    /\ mpc = "finish"
    /\ fin' = [fin EXCEPT ![dirPath] = Boundary]
    /\ mpc' = "none"
    /\ UNCHANGED <<exists, present, data, synced, hint, phase, options, dirOf, writeOff,
                   index, seqNo, mu, calls, nonMergeFileId, toScan, mergeFile, mergeOff,
                   history>>

\* Any call of Merge returns an error; what it has made stays.
MergeFails ==
    /\ "merge" \in Faults /\ mpc # "none"
    /\ mpc' = "none"
    /\ toScan' = {}
    /\ UNCHANGED <<dirs, phase, options, dirOf, writeOff, index, seqNo, mu, calls,
                   nonMergeFileId, mergeFile, mergeOff, history>>

-----------------------------------------------------------------------------
\* The end of an instance, and Open

Stop ==
    /\ phase' = "closed"
    /\ dirPath' = 0 /\ syncWrites' = SyncWrites
    /\ dirOf' = [f \in FileIds |-> NoDir] /\ writeOff' = 0
    /\ index' = [k \in Keys |-> NoPos]
    /\ seqNo' = 0 /\ mu' = NoClient
    /\ pc' = [c \in Clients |-> "idle"]
    /\ mpc' = "none" /\ nonMergeFileId' = NoFile /\ toScan' = {}
    /\ mergeFile' = NoFile /\ mergeOff' = 0
    /\ UNCHANGED <<write, history>>

\* The caller closes when its Merge has returned.
Close ==
    /\ phase = "open" /\ ~Locked /\ mpc = "none"
    /\ Stop
    /\ UNCHANGED dirs

\* The parts of Open that change the directories.
Swapping == phase \in {"delete", "move", "remove"}

ProcessCrash ==
    /\ phase # "closed"
    /\ IF Swapping THEN "swap" \in Faults ELSE "crash" \in Faults
    /\ Stop
    /\ UNCHANGED dirs

\* The user opens directory 0 again, with options of his own.  A merge that
\* has finished is swapped in; else the merge directory is removed.
OpenDB ==
    /\ phase = "closed"
    /\ 1 \in exists => fin[1] # Empty
    /\ phase' = IF 1 \notin exists THEN "load"
                ELSE IF fin[1] = NoFile THEN "remove" ELSE "delete"
    /\ UNCHANGED <<dirs, options, dirOf, writeOff, index, seqNo, mu, calls, merge, history>>

\* The merged files go one by one, in the order of their numbers.
DeleteMerged ==
    /\ phase = "delete"
    /\ \E f \in present[0] :
          /\ f < fin[1] /\ \A g \in present[0] : f =< g
          /\ present' = [present EXCEPT ![0] = @ \ {f}]
          /\ data' = [data EXCEPT ![0][f] = <<>>]
          /\ synced' = [synced EXCEPT ![0][f] = 0]
    /\ UNCHANGED <<exists, hint, fin, phase, options, dirOf, writeOff, index, seqNo, mu,
                   calls, merge, history>>

MergedDeleted ==
    /\ phase = "delete" /\ \A f \in present[0] : f >= fin[1]
    /\ phase' = "move"
    /\ UNCHANGED <<dirs, options, dirOf, writeOff, index, seqNo, mu, calls, merge, history>>

\* The renames go in the order of ReadDir: the data files, hint-index,
\* merge-finished.
MoveDataFile ==
    /\ phase = "move" /\ present[1] # {}
    /\ LET f == CHOOSE g \in present[1] : \A o \in present[1] : g =< o
       IN  /\ present' = [present EXCEPT ![0] = @ \cup {f}, ![1] = @ \ {f}]
           /\ data' = [data EXCEPT ![0][f] = data[1][f], ![1][f] = <<>>]
           /\ synced' = [synced EXCEPT ![0][f] = synced[1][f], ![1][f] = 0]
    /\ UNCHANGED <<exists, hint, fin, phase, options, dirOf, writeOff, index, seqNo, mu,
                   calls, merge, history>>

MoveHint ==
    /\ phase = "move" /\ present[1] = {} /\ hint[1] # NoHint
    /\ hint' = [hint EXCEPT ![0] = hint[1], ![1] = NoHint]
    /\ UNCHANGED <<exists, present, data, synced, fin, phase, options, dirOf, writeOff, index,
                   seqNo, mu, calls, merge, history>>

MoveFinished ==
    /\ phase = "move" /\ present[1] = {} /\ hint[1] = NoHint
    /\ fin' = [fin EXCEPT ![0] = fin[1], ![1] = NoFile]
    /\ phase' = "remove"
    /\ UNCHANGED <<exists, present, data, synced, hint, options, dirOf, writeOff, index, seqNo,
                   mu, calls, merge, history>>

\* The deferred RemoveAll of LoadMergeFiles.
RemoveMergeDir ==
    /\ Emptied(1)
    /\ exists' = exists \ {1}
    /\ hint' = [hint EXCEPT ![1] = NoHint]

RemoveLeftOver ==
    /\ phase = "remove"
    /\ RemoveMergeDir
    /\ phase' = "load"
    /\ UNCHANGED <<options, dirOf, writeOff, index, seqNo, mu, calls, merge, history>>

\* A Remove or Rename returns an error, and so does Open.
SwapFails ==
    /\ "rename" \in Faults /\ phase \in {"delete", "move"}
    /\ RemoveMergeDir
    /\ phase' = "closed"
    /\ UNCHANGED <<options, dirOf, writeOff, index, seqNo, mu, calls, merge, history>>

\* merge-finished is there and empty: Open returns io.EOF.
OpenRefused ==
    /\ phase = "closed" /\ 1 \in exists /\ fin[1] = Empty
    /\ RemoveMergeDir
    /\ UNCHANGED <<phase, options, dirOf, writeOff, index, seqNo, mu, calls, merge, history>>

\* loadDataFiles, then loadIndexFromHintFile and loadIndexFromDataFiles.
Load ==
    /\ phase = "load"
    /\ LET h == [f \in FileIds |-> IF f \in present[0] THEN 0 ELSE NoDir]
           from == IF fin[0] = NoFile THEN 0 ELSE fin[0]
           hinted == IF hint[0] = NoHint THEN NoHintEntries ELSE hint[0]
           seqs == {At(h, p).seq : p \in LogOf(h, from)} \cup {0}
       IN  /\ dirOf' = h
           /\ index' = [k \in Keys |->
                  LET found == Effective(h, from, k)
                  IN  IF found = {} THEN hinted[k] ELSE IndexEntry(h, Last(found))]
           /\ seqNo' = CHOOSE s \in seqs : \A t \in seqs : t =< s
    /\ writeOff' = IF ActiveFile' = NoFile THEN 0 ELSE Len(data[0][ActiveFile'])
    /\ phase' = "open"
    /\ UNCHANGED <<dirs, options, mu, calls, merge, history>>

-----------------------------------------------------------------------------
Init ==
    /\ exists = {0}
    /\ present = [d \in Dirs |-> {}]
    /\ data = [d \in Dirs |-> [f \in FileIds |-> <<>>]]
    /\ synced = [d \in Dirs |-> [f \in FileIds |-> 0]]
    /\ hint = [d \in Dirs |-> NoHint]
    /\ fin = [d \in Dirs |-> NoFile]
    /\ phase = "closed"
    /\ dirPath = 0 /\ syncWrites = SyncWrites
    /\ dirOf = [f \in FileIds |-> NoDir] /\ writeOff = 0
    /\ index = [k \in Keys |-> NoPos]
    /\ seqNo = 0 /\ mu = NoClient
    /\ pc = [c \in Clients |-> "idle"]
    /\ write = [c \in Clients |-> [key |-> TxnFinKey, val |-> Finished, pos |-> NoPos]]
    /\ mpc = "none" /\ nonMergeFileId = NoFile /\ toScan = {}
    /\ mergeFile = NoFile /\ mergeOff = 0
    /\ kv = [k \in Keys |-> Tombstone] /\ shared = FALSE

MergeStep ==
    \/ MergeStart \/ MergePrepare \/ MergeOpen \/ MergeRecord \/ MergeSync
    \/ MergeFinish \/ MergeFails

SwapStep ==
    \/ DeleteMerged \/ MergedDeleted \/ MoveDataFile \/ MoveHint \/ MoveFinished
    \/ RemoveLeftOver \/ SwapFails \/ OpenRefused

Next ==
    \/ \E c \in DirectClients : DirectLook(c) \/ DirectAppend(c) \/ DirectIndex(c)
    \/ \E c \in BatchClients : CommitAppend(c) \/ CommitFinish(c) \/ CommitIndex(c)
    \/ Sync \/ MergeStep \/ SwapStep
    \/ Close \/ ProcessCrash \/ OpenDB \/ Load

Spec == Init /\ [][Next]_vars

-----------------------------------------------------------------------------
\* Properties

\* The type of every variable of Merge.
TypeOK ==
    /\ exists \subseteq Dirs
    /\ present \in [Dirs -> SUBSET FileIds]
    /\ data \in [Dirs -> [FileIds -> Seq(Records)]]
    /\ synced \in [Dirs -> [FileIds -> Nat]]
    /\ hint \in [Dirs -> [Keys -> Positions \cup {NoPos}] \cup {NoHint}]
    /\ fin \in [Dirs -> FileIds \cup {NoFile, Empty}]
    /\ phase \in {"closed", "delete", "move", "remove", "load", "open"}
    /\ dirPath \in Dirs /\ syncWrites \in BOOLEAN
    /\ dirOf \in [FileIds -> Dirs \cup {NoDir}] /\ writeOff \in Nat
    /\ index \in [Keys -> Positions \cup {NoPos}]
    /\ seqNo \in 0 .. MaxSeqNo
    /\ mu \in BatchClients \cup {NoClient}
    /\ pc \in [Clients -> {"idle", "delete", "index", "finish", "apply"}]
    /\ write \in [Clients -> [key : Keys \cup {TxnFinKey},
                             val : Values \cup {Tombstone, Finished},
                             pos : Positions \cup {NoPos}]]
    /\ mpc \in {"none", "prepare", "open", "scan", "finish"}
    /\ nonMergeFileId \in FileIds \cup {NoFile}
    /\ toScan \subseteq Positions
    /\ mergeFile \in FileIds \cup {NoFile} /\ mergeOff \in Nat
    /\ kv \in [Keys -> Values \cup {Tombstone}] /\ shared \in BOOLEAN

Settled(k) == \A c \in Clients : write[c].key = k => pc[c] \notin {"index", "apply"}

\* A Get answers with the newest write of its key, before, during and after a
\* Merge and after the Open that swaps the merged files in: mergeDB is a DB
\* instance of its own, without concurrency problems (merge.go:145-146).
AnswersKept == phase = "open" => \A k \in Keys : Settled(k) => Answer(k) = kv[k]

\* So it is as long as mergeDB has adopted no file of the running instance,
\* which it does when that one rotates after Merge has changed its DirPath and
\* before mergeDB lists the directory (merge.go:113-115).
KeepsValues == shared \/ AnswersKept

\* Once Merge has finished, hint-index and the files that were not merged say
\* the same of every key as the running index: this is what the next Open
\* loads in place of the merged files.
MergedValue(k) ==
    LET found == Effective(dirOf, fin[dirPath], k)
        copy == hint[dirPath][k]
    IN  IF found # {} THEN RecAt(Last(found)).val
        ELSE IF copy = NoPos THEN Tombstone
        ELSE data[dirPath][copy.fid][copy.off + 1].val
MergeEquivalent ==
    phase = "open" /\ ~shared /\ dirPath > 0 /\ fin[dirPath] \in FileIds =>
        \A k \in Keys : Settled(k) => MergedValue(k) = Answer(k)

\* Every entry of the hint-index Merge has written leads to a record of its key
\* in the merge directory, a value, that needs no end of a batch to count.
HintSound ==
    phase = "open" /\ ~shared => \A d \in exists \ {0} : hint[d] # NoHint =>
        \A k \in Keys : hint[d][k] # NoPos =>
            LET p == hint[d][k]
            IN  /\ p.off < Len(data[d][p.fid])
                /\ data[d][p.fid][p.off + 1].seq = 0
                /\ data[d][p.fid][p.off + 1].key = k
                /\ data[d][p.fid][p.off + 1].val \in Values

\* A file has one writer, which began with it empty, although the running
\* instance and mergeDB both create files in the merge directory
\* (setActiveDataFile starts at offset 0 whatever the file holds).
OneWriterPerFile ==
    phase = "open" =>
        /\ NextFile \notin present[dirPath]
        /\ mpc = "scan" =>
              /\ mergeFile + 1 \notin present[dirPath]
              /\ mergeFile # NoFile => dirOf[mergeFile] # dirPath

\* There is no other way to two writers than that mergeDB finds a file of the
\* running instance: of the files both create in the merge directory from
\* then on, mergeDB has the numbers below the boundary and the instance those
\* above (setActiveDataFile, db.go:430-444).
WritersApart == shared \/ OneWriterPerFile

\* Merge copies the value of a key or leaves it to a newer record; that record
\* is then on the disk, as the old one was (Merge syncs the files it merges).
MergedValueDurable ==
    phase = "open" /\ ~shared /\ dirPath > 0 /\ fin[dirPath] \in FileIds =>
        \A k \in Keys :
            LET all == Effective(dirOf, 0, k)
                old == {p \in all : p.fid < fin[dirPath]}
            IN  old # {} /\ RecAt(Last(old)).val # Tombstone =>
                  \/ hint[dirPath][k] # NoPos
                  \/ \E p \in all \ old : p.off < synced[dirOf[p.fid]][p.fid]
=============================================================================
