--------------------------- MODULE AgreeInvariant ---------------------------
(***************************************************************************)
(* The inductive invariant behind IndexAgrees and Refines, on top of       *)
(* BatchIndInv: how the index, the calls in progress and the scan of Open  *)
(* stand to the newest records of the log.                                 *)
(***************************************************************************)
EXTENDS BatchInvariant

\* No key has two writers.  Put updates the index after it has released db.mu:
\* two Puts of one key may do so in the order opposite to that of the log.
DisjointKeys == \A c, d \in Clients : c # d => KeysOf[c] \cap KeysOf[d] = {}

\* A call that fails has not written: no Sync fails, or no call syncs what it
\* has written.  A record whose Sync has failed stays in the file although the
\* call returns the error, and the next Open finds it.
NoLateFailure == "sync" \in Faults => ~SyncWrites /\ BytesPerSync = 0 /\ ~BatchSync

\* Committed and Effective in any log.
CommittedIn(L, s) == s = 0 \/ \E p \in DOMAIN L : L[p].seq = s /\ L[p].val = Finished
EffectiveIn(L, k) == {p \in DOMAIN L : L[p].key = k /\ CommittedIn(L, L[p].seq)}

\* p is the newest of the records that count for k.
IsNewest(L, k, p) ==
    /\ p \in EffectiveIn(L, k)
    /\ \A q \in EffectiveIn(L, k) \ {p} : Before(q, p)

\* The entry an index has to have for k.
Agrees(L, k, entry) ==
    \/ /\ entry = NoPos
       /\ EffectiveIn(L, k) = {} \/ \E p \in DOMAIN L :
                                       IsNewest(L, k, p) /\ L[p].val = Tombstone
    \/ IsNewest(L, k, entry) /\ L[entry].val # Tombstone

RecordsOf(L, s) == {p \in DOMAIN L : L[p].seq = s}

\* An index ix built from L, and the records tx kept of the batches that have
\* no end there.
Scanned(L, ix, tx) ==
    /\ \A k \in Keys : Agrees(L, k, ix[k])
    /\ \A s \in SeqNos : ~CommittedIn(L, s) => tx[s] = RecordsOf(L, s)

\* What the scan of Open has read.
Prefix == [p \in {q \in LogPositions : Before(q, cursor)} |-> RecAt(p)]

\* A client writes its own keys; a Put or Delete is about one of them.
WritesInv ==
    /\ \A c \in Clients, k \in Keys : pending[c][k] # NoWrite => k \in KeysOf[c]
    /\ \A c \in DirectClients, j, k \in Keys :
          pending[c][j] # NoWrite /\ pending[c][k] # NoWrite => j = k

\* Nothing runs and nothing is known outside an open instance.
RestInv ==
    /\ phase # "open" => \A c \in Clients : pc[c] = "idle"
    /\ phase = "closed" => /\ index = [k \in Keys |-> NoPos]
                           /\ txn = [s \in SeqNos |-> {}]

\* Where a call has yet to update the index, it holds the newest record; where
\* Commit has done so, and everywhere else, the index is right.
OpenInv ==
    /\ phase = "open" => \A k \in Keys : Busy(k) \/ Agrees(Log, k, index[k])
    /\ \A c \in Clients, k \in Keys :
          pc[c] \in {"index", "apply"} /\ pending[c][k] # NoWrite =>
             /\ IsNewest(Log, k, positions[c][k])
             /\ pc[c] = "apply" /\ k \notin todo => Agrees(Log, k, index[k])

\* The scan has done its work on what it has read.
ScanInv == phase = "loading" => Scanned(Prefix, index, txn)

\* With Options.SyncWrites nothing that has been written waits for a Sync.
AllSynced == SyncWrites => \A f \in FileIds : synced[f] = Len(files[f])

AgreeInv == WritesInv /\ RestInv /\ OpenInv /\ ScanInv /\ AllSynced
AgreeIndInv == BatchIndInv /\ AgreeInv
=============================================================================
