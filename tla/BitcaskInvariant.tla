-------------------------- MODULE BitcaskInvariant --------------------------
(***************************************************************************)
(* The inductive invariant behind IndexSound: how the files, the instance, *)
(* the scan of Open and the calls in progress hang together.               *)
(***************************************************************************)
EXTENDS BitcaskProperties

\* A file that does not exist is empty; none is longer than DataFileSize.
DiskInv == \A f \in FileIds :
    /\ Len(files[f]) =< DataFileSize
    /\ f \notin onDisk => files[f] = <<>>
    /\ synced[f] =< Len(files[f])

\* Only the end of a batch has the key TxnFinKey, and it carries a number.
WellFormed(rec) ==
    /\ rec.val = Finished <=> rec.key = TxnFinKey
    /\ rec.val = Finished => rec.seq # 0
LogWellFormed == \A p \in LogPositions : WellFormed(RecAt(p))

\* The running instance has every file open, writes to the last one and knows
\* its length.
WriterInv ==
    /\ phase = "closed" => activeFile = NoFile /\ writeOff = 0
    /\ phase # "closed" /\ activeFile = NoFile => onDisk = {}
    /\ phase # "closed" /\ activeFile # NoFile =>
          /\ activeFile \in onDisk
          /\ onDisk \subseteq olderFiles \cup {activeFile}
          /\ \A f \in onDisk : f =< activeFile
    /\ phase = "open" => writeOff = IF activeFile = NoFile THEN 0
                                   ELSE Len(files[activeFile])

\* The scan stands in a file that exists and keeps records of open batches.
LoaderInv ==
    /\ phase = "loading" =>
          /\ activeFile # NoFile
          /\ cursor.fid \in onDisk
          /\ cursor.off \in 0 .. Len(files[cursor.fid])
    /\ \A s \in SeqNos : \A p \in txn[s] :
          /\ p \in LogPositions
          /\ RecAt(p).seq = s
          /\ RecAt(p).val # Finished

\* db.mu is held by the one client inside Commit.
LockInv ==
    /\ \A c \in DirectClients : pc[c] \in {"idle", "delete", "index"}
    /\ \A c \in BatchClients :
          /\ pc[c] \in {"idle", "append", "finish", "apply"}
          /\ pc[c] # "idle" <=> mu = c
    /\ phase # "open" => mu = NoClient
    /\ mu # NoClient => seqNo # 0
    /\ \A c \in BatchClients : pc[c] \in {"append", "apply"} => todo \subseteq Staged(c)

\* Where a call says it has written a record, that record stands.
Appended(c, k, s) ==
    /\ positions[c][k] \in LogPositions
    /\ RecAt(positions[c][k]) = [seq |-> s, key |-> k, val |-> pending[c][k]]
Written(c, k) ==
    /\ pending[c][k] # NoWrite
    /\ pc[c] = "append" => k \notin todo
DirectInv(c) == \A k \in Keys :
    pc[c] = "index" /\ Written(c, k) => Appended(c, k, 0)
BatchInv(c) ==
    /\ \A k \in Keys : pc[c] # "idle" /\ Written(c, k) => Appended(c, k, seqNo)
    /\ pc[c] = "apply" => Committed(seqNo)
CallersInv ==
    /\ \A c \in DirectClients : DirectInv(c)
    /\ \A c \in BatchClients : BatchInv(c)

StoreInv == StoreTypeOK /\ DiskInv /\ LogWellFormed /\ WriterInv

IndInv ==
    /\ StoreInv
    /\ CallersTypeOK
    /\ LoaderInv
    /\ LockInv
    /\ CallersInv
    /\ IndexSound
=============================================================================
