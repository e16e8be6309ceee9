------------------------- MODULE BitcaskProperties -------------------------
(***************************************************************************)
(* What Bitcask has to guarantee, and the map of its state to KVStore.     *)
(***************************************************************************)
EXTENDS Bitcask

\* The requests that have written to the log and are not in the index.
InFlight == [c \in Clients |-> IF pc[c] \in {"index", "append", "finish"}
                               THEN pending[c] ELSE NoWrites]

\* What a Get would answer.  Once its end is in the log a batch counts as
\* applied: no Get runs before Commit has released db.mu.  While the store is
\* not open, it is what the next Open will build.
Visible ==
    IF phase # "open" THEN LogView
    ELSE [k \in Keys |-> IF Locked /\ pc[mu] = "apply" /\ pending[mu][k] # NoWrite
                         THEN pending[mu][k] ELSE IndexView[k]]

KV == INSTANCE KVStore
        WITH Absent <- Tombstone, kv <- Visible, inflight <- InFlight

\* The engine behaves as one map: every Put, Delete and Commit takes effect at
\* one instant, and what has taken effect survives Close, a crash and Open
\* (db.go, batch.go; the test of Put and Get after a restart in db_test.go).
Refines == KV!Spec

\* The type of every variable of Bitcask.
StoreTypeOK ==
    /\ files \in [FileIds -> Seq(Records)]
    /\ onDisk \subseteq FileIds
    /\ synced \in [FileIds -> Nat]
    /\ phase \in {"closed", "loading", "open"}
    /\ activeFile \in FileIds \cup {NoFile}
    /\ olderFiles \subseteq FileIds
    /\ writeOff \in Nat
    /\ bytesWrite \in Nat
CallersTypeOK ==
    /\ seqNo \in 0 .. MaxSeqNo
    /\ index \in [Keys -> Positions \cup {NoPos}]
    /\ mu \in BatchClients \cup {NoClient}
    /\ cursor \in [fid : FileIds, off : Nat] \cup {NoPos}
    /\ txn \in [SeqNos -> SUBSET Positions]
    /\ pc \in [Clients -> {"idle", "delete", "index", "append", "finish", "apply"}]
    /\ pending \in [Clients -> WriteSets]
    /\ positions \in [Clients -> [Keys -> Positions \cup {NoPos}]]
    /\ todo \subseteq Keys
    /\ batchOf \in [SeqNos -> WriteSets]
    /\ acked \subseteq SeqNos
TypeOK == StoreTypeOK /\ CallersTypeOK

\* Every index entry leads to a whole, committed record that holds a value of
\* that very key, in a file the instance has open: getValueByPosition, which
\* compares no key, never fails and never answers for another key, whatever
\* the interleaving of index updates, the failed appends and the restarts.
EntrySound(k, p) ==
    /\ p \in LogPositions
    /\ RecAt(p).key = k
    /\ RecAt(p).val \in Values
    /\ Committed(RecAt(p).seq)
    /\ p.fid \in olderFiles \cup {activeFile}
IndexSound == \A k \in Keys : index[k] # NoPos => EntrySound(k, index[k])

\* A batch whose end is in the log is there as it was committed: each write
\* once, and nothing left by an earlier commit that was given the same number
\* (Commit's seqNo, currentSeqNo of loadIndexFromDataFiles).
BatchAtomic ==
    \A s \in SeqNos : Committed(s) =>
        \A k \in Keys :
            LET written == {p \in LogPositions :
                              RecAt(p).seq = s /\ RecAt(p).key = k}
            IN  IF batchOf[s][k] = NoWrite THEN written = {}
                ELSE \E p \in written :
                        written = {p} /\ RecAt(p).val = batchOf[s][k]

\* No foreign record stands between the first record of a committed batch and
\* its end.  Open applies a batch where its end is, Commit where its records
\* are: the two agree because Commit keeps db.mu from its first append on.
BatchContiguous ==
    \A p, q, r \in LogPositions :
        /\ RecAt(p).seq # 0 /\ RecAt(q).seq = RecAt(p).seq
        /\ RecAt(q).val = Finished
        /\ Before(p, r) /\ Before(r, q)
        => RecAt(r).seq = RecAt(p).seq

\* The newest record that counts for k, when it holds a value.
Newest(k) ==
    IF Effective(k) = {} \/ ValueAt(Last(Effective(k))) = Tombstone THEN NoPos
    ELSE Last(Effective(k))

Busy(k) == \E c \in Clients : pc[c] \in {"index", "apply"} /\ pending[c][k] # NoWrite

\* Between calls the index is what a restart would rebuild from the files
\* (Put and Commit against loadIndexFromDataFiles).
IndexAgrees ==
    phase = "open" => \A k \in Keys : Busy(k) \/ index[k] = Newest(k)

Reached(p) == p.off < synced[p.fid]

\* A batch committed with WriteBatchOptions.SyncWrites is on the disk, records
\* and end, before Commit returns, even when it spans two data files; it stays
\* there, and its number is never given to another batch.
AckedBatchDurable ==
    BatchSync => \A s \in acked :
        /\ \E p \in LogPositions :
              RecAt(p).seq = s /\ RecAt(p).val = Finished /\ Reached(p)
        /\ \A k \in Keys : batchOf[s][k] # NoWrite =>
              \E p \in LogPositions :
                  /\ RecAt(p).seq = s /\ RecAt(p).key = k
                  /\ RecAt(p).val = batchOf[s][k] /\ Reached(p)
=============================================================================
