------------------------- MODULE MergeLogInvariant -------------------------
(***************************************************************************)
(* The inductive invariants behind MergeEquivalent, MergedValueDurable and *)
(* KeepsValues, for commits beside Merge (no Put or Delete of its own):    *)
(* what the log of the running instance, and the log the next Open will    *)
(* find in its place, say of each key.  A log is a function from file      *)
(* numbers to records, wherever the files are.                             *)
(***************************************************************************)
EXTENDS MergeInvariant

Rec(g, p) == g[p.fid][p.off + 1]
Places(g, from) == {p \in Positions : p.fid >= from /\ p.off < Len(g[p.fid])}
Ended(g, from, s) ==
    \E q \in Places(g, from) : Rec(g, q).seq = s /\ Rec(g, q).val = Finished
Counts(g, from, k, p) ==
    /\ p \in Places(g, from) /\ Rec(g, p).key = k
    /\ Rec(g, p).seq = 0 \/ Ended(g, from, Rec(g, p).seq)
IsNewest(g, from, k, p) ==
    /\ Counts(g, from, k, p)
    /\ \A q \in Positions : Counts(g, from, k, q) => q = p \/ Before(q, p)
NoneCounts(g, from, k) == \A p \in Positions : ~Counts(g, from, k, p)

\* The index entry, and the value, a key has by the log.
Tells(g, k, e) ==
    \/ e = NoPos /\ NoneCounts(g, 0, k)
    \/ \E p \in Positions :
          /\ IsNewest(g, 0, k, p)
          /\ e = IF Rec(g, p).val = Tombstone THEN NoPos ELSE p
Says(g, k, v) ==
    \/ v = Tombstone /\ NoneCounts(g, 0, k)
    \/ \E p \in Positions : IsNewest(g, 0, k, p) /\ Rec(g, p).val = v

\* A batch ends behind its records.
EndsLast(g) ==
    \A p, q \in Places(g, 0) :
        Rec(g, p).seq # 0 /\ Rec(g, p).seq = Rec(g, q).seq /\ Rec(g, q).val = Finished =>
            p = q \/ Before(p, q)

\* Below n are copies only, and h has the last one of each key.
Copies(g, h, n) ==
    /\ \A p \in Places(g, 0) : p.fid < n =>
          /\ Rec(g, p).seq = 0 /\ Rec(g, p).key \in Keys /\ Rec(g, p).val \in Values
          /\ h # NoHint /\ h[Rec(g, p).key] # NoPos
          /\ p = h[Rec(g, p).key] \/ Before(p, h[Rec(g, p).key])
    /\ h # NoHint => \A k \in Keys : h[k] # NoPos =>
          h[k] \in Places(g, 0) /\ h[k].fid < n /\ Rec(g, h[k]).key = k

-----------------------------------------------------------------------------
\* The log of the running instance
RunLog == [f \in FileIds |-> IF dirOf[f] = NoDir THEN <<>> ELSE data[dirOf[f]][f]]

\* A finished merge has yet to be swapped in, and what the swap makes of the
\* files and of hint-index.
Waiting == MaxDir > 0 /\ fin[1] \in FileIds
SwapLog ==
    [f \in FileIds |-> IF f \in present[1] THEN data[1][f]
                       ELSE IF f < fin[1] /\ phase # "move" THEN <<>> ELSE data[0][f]]
SwapHint == IF phase = "move" /\ hint[1] = NoHint THEN hint[0] ELSE hint[1]

\* What Load will read.
NextLog == IF Waiting THEN SwapLog ELSE data[0]
From0 == IF fin[0] = NoFile THEN 0 ELSE fin[0]

\* Of the clients one at most is within a Commit.
LockInv ==
    \A c \in Clients : pc[c] # "idle" => mu = c /\ pc[c] \in {"finish", "apply"}

\* Which files the instance has where.
PlacesInv ==
    /\ phase = "open" => \A f \in present[0] : dirOf[f] = 0
    /\ phase = "open" /\ Waiting =>
          dirPath > 0 /\ \A f \in present[1] : f >= fin[1] => dirOf[f] = 1
    /\ phase \in {"load", "remove"} => ~Waiting
    /\ Waiting => 1 \in exists /\ (phase # "move" => hint[1] # NoHint)
    /\ mpc \in {"open", "scan", "finish"} => dirPath \in exists
    /\ phase = "open" /\ dirPath > 0 /\ fin[dirPath] \in FileIds =>
          fin[dirPath] \in OpenFiles /\ hint[dirPath] # NoHint
    /\ mpc \in {"scan", "finish"} =>
          \A f \in present[dirPath] : f > nonMergeFileId => dirOf[f] = dirPath

\* The batch in progress: its number is its own, its record is the last, and in
\* a file that is not merged.
BatchInv == phase = "open" =>
    /\ EndsLast(RunLog)
    /\ \A p \in Places(RunLog, 0) : Rec(RunLog, p).seq =< seqNo
    /\ \A c \in Clients : pc[c] # "idle" =>
          /\ Rec(RunLog, write[c].pos) =
                 [seq |-> seqNo, key |-> write[c].key, val |-> write[c].val]
          /\ seqNo # 0
          /\ \A q \in Places(RunLog, 0) \ {write[c].pos} :
                /\ Rec(RunLog, q).key # TxnFinKey => Before(q, write[c].pos)
                /\ Rec(RunLog, q).seq = seqNo =>
                      pc[c] = "apply" /\ Rec(RunLog, q).key = TxnFinKey
          /\ pc[c] = "apply" => Ended(RunLog, 0, seqNo)
          /\ mpc # "none" => write[c].pos.fid >= nonMergeFileId
          /\ dirPath > 0 /\ fin[dirPath] \in FileIds => write[c].pos.fid >= fin[dirPath]

\* Of a key no commit is about to put in the index, the index has what the log
\* tells.
Applying(k) == \E c \in Clients : pc[c] = "apply" /\ write[c].key = k
IndexTold == phase = "open" =>
    \A k \in Keys : Applying(k) \/ Tells(RunLog, k, index[k])

\* The copies: those in use, those waiting and those being made.
CopiesInv ==
    /\ phase \notin {"delete", "move"} => Copies(data[0], hint[0], From0)
    /\ fin[0] \in FileIds \cup {NoFile}
    /\ phase \notin {"delete", "move"} /\ fin[0] # NoFile => fin[0] \in present[0]
    /\ Waiting => Copies(SwapLog, SwapHint, fin[1])
    /\ mpc \in {"scan", "finish"} => Copies(data[dirPath], hint[dirPath], nonMergeFileId)
    /\ phase = "open" /\ dirPath > 0 /\ fin[dirPath] \in FileIds =>
          Copies(data[dirPath], hint[dirPath], fin[dirPath])

\* A key of which nothing counts from file n on has been copied, or has no value.
Copied(k) ==
    LET h == hint[dirPath]
    IN  IF index[k] = NoPos THEN h[k] = NoPos
        ELSE h[k] # NoPos /\ Rec(data[dirPath], h[k]).val = Rec(RunLog, index[k]).val
ScanInv ==
    /\ mpc # "none" => \A k \in Keys : NoneCounts(RunLog, nonMergeFileId, k) =>
          \/ index[k] \in toScan
          \/ IF mpc \in {"scan", "finish"} THEN Copied(k) ELSE index[k] = NoPos
    /\ mpc = "finish" => toScan = {}
    /\ phase = "open" /\ dirPath > 0 /\ fin[dirPath] \in FileIds =>
          \A k \in Keys : NoneCounts(RunLog, fin[dirPath], k) => Copied(k)

\* The next log, while none runs.
NextInv == phase # "open" => EndsLast(NextLog)

LogInv ==
    LockInv /\ PlacesInv /\ BatchInv /\ IndexTold /\ CopiesInv /\ ScanInv /\ NextInv
LogApartInv == ApartInv /\ LogInv
LogIndInv == shared \/ LogApartInv

-----------------------------------------------------------------------------
\* Without faults, with one merge of each instance, the log keeps what was
\* written.
ValuesInv ==
    /\ phase = "open" => \A k \in Keys : Says(RunLog, k, kv[k])
    /\ phase # "open" => \A k \in Keys : Says(NextLog, k, kv[k])
    /\ phase = "open" /\ dirPath > 0 /\ mpc \in {"none", "prepare"} => fin[dirPath] \in FileIds
ValuesApartInv == LogApartInv /\ ValuesInv
ValuesIndInv == shared \/ ValuesApartInv

\* Records that count and are not merged are on the disk when commits are
\* synced: files behind the active one are, and the active one up to its last
\* end of a batch.
NewSynced(n) ==
    \A f \in OpenFiles : f >= n =>
        /\ f # ActiveFile => synced[dirOf[f]][f] = Len(RunLog[f])
        /\ \A i \in 1 .. Len(RunLog[f]) :
              RunLog[f][i].val = Finished => i =< synced[dirOf[f]][f]
        /\ \A i \in 1 .. Len(RunLog[f]) : RunLog[f][i].seq # 0
SyncInv ==
    /\ mpc # "none" => NewSynced(nonMergeFileId)
    /\ phase = "open" /\ dirPath > 0 /\ fin[dirPath] \in FileIds => NewSynced(fin[dirPath])
SyncApartInv == LogApartInv /\ SyncInv
SyncIndInv == shared \/ SyncApartInv
=============================================================================
