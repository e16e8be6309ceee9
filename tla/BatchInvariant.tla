--------------------------- MODULE BatchInvariant ---------------------------
(***************************************************************************)
(* The inductive invariant behind BatchAtomic, BatchContiguous and         *)
(* AckedBatchDurable, on top of IndInv.  What concerns the log alone is    *)
(* stated of any log L, a function from positions to records.              *)
(***************************************************************************)
EXTENDS BitcaskInvariant

\* The log as one function from the positions of the files to their records.
Log == [p \in LogPositions |-> RecAt(p)]

\* Records with the same number belong to one batch.
SameBatch(L, p, q) == L[p].seq # 0 /\ L[q].seq = L[p].seq

\* A record of a batch carries the value its commit was given.
AsCommitted(L, B) == \A p \in DOMAIN L :
    L[p].seq # 0 /\ L[p].val # Finished => B[L[p].seq][L[p].key] = L[p].val

\* A number is given to one batch, and a batch writes a key, and its end, once.
WrittenOnce(L) == \A p, q \in DOMAIN L :
    SameBatch(L, p, q) /\ L[p].key = L[q].key => p = q

\* The records of a batch, ended or not, stand side by side.
SideBySide(L) == \A p, q, r \in DOMAIN L :
    SameBatch(L, p, q) /\ Before(p, r) /\ Before(r, q) => L[r].seq = L[p].seq

\* The end of a batch is its last record.
EndLast(L) == \A p, q \in DOMAIN L :
    SameBatch(L, p, q) /\ L[q].val = Finished /\ p # q => Before(p, q)

\* A batch that has its end has all its records.
AllThere(L, B) == \A q \in DOMAIN L : L[q].val = Finished =>
    \A k \in Keys : B[L[q].seq][k] # NoWrite =>
        \E p \in DOMAIN L : L[p].seq = L[q].seq /\ L[p].key = k

WholeBatches(L, B) ==
    AsCommitted(L, B) /\ WrittenOnce(L) /\ SideBySide(L) /\ EndLast(L) /\ AllThere(L, B)

\* The records the instance knows of: all of them, or those the scan of Open
\* has passed.
Known(p) == phase = "open" \/ (phase = "loading" /\ Before(p, cursor))

\* No record the instance knows of has a number above seqNo.
NumbersKnown == \A p \in LogPositions : Known(p) => Log[p].seq =< seqNo

\* The records that a running Commit has written are the last ones of the log;
\* none of them is the end, or stands for a key it has still to visit.
AtTail(c) == \A p \in LogPositions : Log[p].seq = seqNo =>
    /\ Log[p].val # Finished
    /\ pc[c] = "append" => Log[p].key \notin todo
    /\ \A r \in LogPositions : Before(p, r) => Log[r].seq = seqNo
CommitRunning == \A c \in BatchClients :
    /\ pc[c] # "idle" => batchOf[seqNo] = pending[c]
    /\ pc[c] \in {"append", "finish"} => AtTail(c)

\* Only the newest file can lack a sync: rotation syncs the one it leaves.
SyncOrder == \A f, g \in onDisk : f < g => synced[f] = Len(files[f])

\* Once Commit has synced the end, all that is in the log is on the disk.
SyncedAtEnd ==
    BatchSync => \A c \in BatchClients :
        pc[c] = "apply" => \A p \in LogPositions : Reached(p)

BatchIndInv ==
    /\ IndInv
    /\ WholeBatches(Log, batchOf)
    /\ NumbersKnown
    /\ CommitRunning
    /\ SyncOrder
    /\ SyncedAtEnd
    /\ AckedBatchDurable
=============================================================================
