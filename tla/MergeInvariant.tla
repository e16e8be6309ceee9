--------------------------- MODULE MergeInvariant ---------------------------
(***************************************************************************)
(* The inductive invariant behind TypeOK, WritersApart and HintSound: as   *)
(* long as mergeDB has adopted no file of the running instance, which      *)
(* files the two instances have in which directory, and what is known of   *)
(* the positions in the index and in hint-index through crashes, failing   *)
(* merges and half-done swaps.                                             *)
(***************************************************************************)
EXTENDS Merge

\* No file is too long, and one that is not there is empty.
FilesInv ==
    \A d \in Dirs, f \in FileIds :
        /\ Len(data[d][f]) =< DataFileSize
        /\ f \notin present[d] => data[d][f] = <<>>
        /\ \A i \in 1 .. Len(data[d][f]) :
              data[d][f][i].val = Finished <=> data[d][f][i].key = TxnFinKey

\* The open instance: its files are those with the largest numbers.
OpenInv == phase = "open" =>
    /\ \A f \in OpenFiles : f \in present[dirOf[f]] /\ dirOf[f] =< dirPath
    /\ present[0] \subseteq OpenFiles
    /\ \A f \in present[dirPath] : f =< ActiveFile
    /\ ActiveFile # NoFile => writeOff = Len(data[dirOf[ActiveFile]][ActiveFile])

\* What a closed one has.
ClosedInv == phase # "open" =>
    /\ dirPath = 0 /\ mpc = "none" /\ OpenFiles = {}
    /\ \A c \in Clients : pc[c] = "idle"

\* Where the record of a write in progress is.
WriteInv ==
    \A c \in Clients : pc[c] \notin {"idle", "delete"} =>
        /\ write[c].key \in Keys /\ write[c].val \in Values \cup {Tombstone}
        /\ write[c].pos \in LogOf(dirOf, 0)
        /\ RecAt(write[c].pos).val = write[c].val

\* No record will ever be written where an index entry leads: it is there,
\* and a value, or its file has been left behind.
IndexInv == phase = "open" =>
    \A k \in Keys : index[k] # NoPos =>
        /\ index[k].fid =< ActiveFile
        /\ index[k].fid = ActiveFile => index[k] \in LogOf(dirOf, 0)
        /\ index[k] \in LogOf(dirOf, 0) => RecAt(index[k]).val \in Values

OnlyValues(d, f) == \A i \in 1 .. Len(data[d][f]) : data[d][f][i].val \in Values
HintBelow(d, n) ==
    hint[d] # NoHint => \A k \in Keys : hint[d][k] # NoPos => hint[d][k].fid < n

\* The goroutine: mergeDB has the files up to mergeFile, the running instance
\* those behind nonMergeFileId, and a copy never overtakes its original.
MergeInv == mpc # "none" =>
    /\ nonMergeFileId \in OpenFiles
    /\ HintBelow(0, nonMergeFileId)
    /\ toScan \subseteq {p \in LogOf(dirOf, 0) : p.fid < nonMergeFileId}
    /\ mpc = "prepare" => dirPath < MaxDir /\ dirOf[nonMergeFileId] = dirPath
    /\ mpc # "prepare" =>
          dirPath > 0 /\ dirOf[nonMergeFileId] = dirPath - 1 /\ fin[dirPath] \notin FileIds
    /\ mpc = "open" =>
          /\ \A f \in present[dirPath] : f > nonMergeFileId
          /\ \A f \in OpenFiles : dirOf[f] = dirPath => f > nonMergeFileId
          /\ hint[dirPath] = NoHint
    /\ mpc \in {"scan", "finish"} =>
          /\ mergeFile < nonMergeFileId
          /\ \A f \in present[dirPath] : f =< mergeFile \/ f > nonMergeFileId
          /\ \A f \in OpenFiles : dirOf[f] = dirPath => f > nonMergeFileId
          /\ \A f \in FileIds : f < nonMergeFileId => OnlyValues(dirPath, f)
          /\ hint[dirPath] # NoHint /\ HintBelow(dirPath, mergeFile + 1)
    /\ mpc = "scan" =>
          /\ mergeFile # NoFile => mergeOff = Len(data[dirPath][mergeFile])
          /\ \A p \in toScan :
                \/ MergeAppendFile < p.fid
                \/ MergeAppendFile = p.fid /\ MergeOff =< p.off

\* hint-index of a merge directory.
HintEntrySound(d, k) ==
    hint[d][k] # NoPos =>
        LET p == hint[d][k]
        IN  /\ p.off < Len(data[d][p.fid])
            /\ data[d][p.fid][p.off + 1].seq = 0
            /\ data[d][p.fid][p.off + 1].key = k
            /\ data[d][p.fid][p.off + 1].val \in Values
HintsInv ==
    \A d \in exists \ {0} : hint[d] # NoHint /\ (d = 1 => phase = "open") =>
        \A k \in Keys : HintEntrySound(d, k)

\* A merge to be swapped in: its boundary is a file of directory 0, its
\* entries and those of the hint-index in use are below, with values only.
SwapInv ==
    /\ MaxDir > 0 /\ fin[1] \in FileIds =>
          /\ fin[1] \in present[0] /\ HintBelow(0, fin[1]) /\ HintBelow(1, fin[1])
          /\ \A f \in FileIds : f < fin[1] => OnlyValues(1, f)
          /\ phase = "move" => \A f \in FileIds : f < fin[1] => OnlyValues(0, f)
    /\ phase \in {"delete", "move"} => 1 \in exists /\ fin[1] \in FileIds
    /\ phase = "remove" => 1 \in exists
    /\ phase = "load" => 1 \notin exists
    /\ hint[0] # NoHint =>
          /\ \E f \in present[0] : HintBelow(0, f)
          /\ \A k \in Keys :
                hint[0][k] # NoPos /\ hint[0][k].off < Len(data[0][hint[0][k].fid]) =>
                    data[0][hint[0][k].fid][hint[0][k].off + 1].val \in Values

ApartInv ==
    /\ TypeOK /\ FilesInv /\ OpenInv /\ ClosedInv /\ WriteInv /\ IndexInv
    /\ MergeInv /\ HintsInv /\ SwapInv
MergeIndInv == shared \/ ApartInv
=============================================================================
