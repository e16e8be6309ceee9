----------------------------- MODULE MergeProofs -----------------------------
(***************************************************************************)
(* What Merge and the swap at Open keep, for every value of the constants: *)
(* ApartInv is inductive until mergeDB adopts a file of the running        *)
(* instance.                                                               *)
(***************************************************************************)
EXTENDS MergeInvariant, TLAPS, WellFoundedInduction

USE DEF NoFile, NoDir, Empty

-----------------------------------------------------------------------------
\* Constants

LEMMA Sizes ==
    /\ DataFileSize \in Nat /\ DataFileSize > 0
    /\ MaxFileId \in Nat /\ MaxSeqNo \in Nat /\ MaxDir \in Nat
    /\ \A d : d \in Dirs <=> d \in Nat /\ d =< MaxDir
    /\ \A f : f \in FileIds <=> f \in Nat /\ f =< MaxFileId
    /\ \A p \in Positions : p.fid \in FileIds /\ p.off \in Nat /\ p.off < 2 * DataFileSize
    /\ NoPos \notin Positions
  BY MergeAssumption DEF Dirs, FileIds, Positions, NoPos

LEMMA Constants ==
    /\ TxnFinKey \notin Keys /\ NoClient \notin Clients
    /\ Tombstone \notin Values /\ Finished \notin Values /\ Tombstone # Finished
    /\ NoHint \notin [Keys -> Positions \cup {NoPos}]
    /\ SyncWrites \in BOOLEAN /\ BatchSync \in BOOLEAN
    /\ DirectClients \subseteq Clients /\ BatchClients \subseteq Clients
  BY MergeAssumption DEF Clients

-----------------------------------------------------------------------------
\* Smallest and largest members

LEMMA SmallestOf ==
    ASSUME NEW S, S \subseteq Nat, S # {}
    PROVE  \E m \in S : \A x \in S : m =< x
  <1>1. PICK m \in S : \A x \in S : ~ (<<x, m>> \in OpToRel(<, Nat))
    BY NatLessThanWellFounded, WFMin, Zenon
  <1>2. ASSUME NEW x \in S
        PROVE  m =< x
    <2>1. x \in Nat /\ m \in Nat
      OBVIOUS
    <2>2. ~ (x < m)
      BY <1>1, <2>1 DEF OpToRel
    <2> QED BY <2>1, <2>2
  <1> QED BY <1>2

LEMMA LargestOf ==
    ASSUME NEW S, S \subseteq Nat, S # {}, NEW b \in Nat, \A x \in S : x =< b
    PROVE  \E m \in S : \A x \in S : x =< m
  <1>1. PICK T : T = {b - x : x \in S}
    OBVIOUS
  <1>2. T \subseteq Nat /\ T # {} /\ \A x \in S : b - x \in T
    <2>1. \A x \in S : b - x \in T /\ b - x \in Nat
      BY <1>1
    <2>2. T \subseteq Nat
      BY <1>1, <2>1
    <2>3. T # {}
      BY <2>1
    <2> QED BY <2>1, <2>2, <2>3
  <1>3. PICK t \in T : \A u \in T : t =< u
    BY <1>2, SmallestOf
  <1>4. PICK m \in S : t = b - m
    BY <1>1
  <1>5. ASSUME NEW x \in S
        PROVE  x =< m
    <2>1. b - m =< b - x /\ x \in Nat /\ m \in Nat
      BY <1>2, <1>3, <1>4
    <2> QED BY <2>1
  <1> QED BY <1>5

LEMMA LargestFile ==
    ASSUME NEW S, S \subseteq FileIds, S # {}
    PROVE  /\ (CHOOSE f \in S : \A g \in S : g =< f) \in S
           /\ \A h \in S : h =< (CHOOSE f \in S : \A g \in S : g =< f)
  <1>1. \E m \in S : \A x \in S : x =< m
    BY Sizes, LargestOf
  <1> QED BY <1>1

LEMMA SmallestFile ==
    ASSUME NEW S, S \subseteq FileIds, S # {}
    PROVE  /\ (CHOOSE f \in S : \A g \in S : f =< g) \in S
           /\ \A h \in S : (CHOOSE f \in S : \A g \in S : f =< g) =< h
  <1>1. \E m \in S : \A x \in S : m =< x
    BY Sizes, SmallestOf
  <1> QED BY <1>1

\* Of two positions one comes first.
LEMMA BeforeIs ==
    ASSUME NEW p \in Positions, NEW q \in Positions
    PROVE  /\ ~(Before(p, q) /\ Before(q, p)) /\ ~Before(p, p)
           /\ p = q \/ Before(p, q) \/ Before(q, p)
  BY Sizes DEF Positions, Before

LEMMA FirstIs ==
    ASSUME NEW S, S \subseteq Positions, S # {}
    PROVE  First(S) \in S /\ \A q \in S \ {First(S)} : Before(First(S), q)
  <1>1. PICK F : F = {p.fid : p \in S}
    OBVIOUS
  <1>2. F \subseteq Nat /\ F # {}
    BY <1>1, Sizes
  <1>3. PICK f \in F : \A g \in F : f =< g
    BY <1>2, SmallestOf
  <1>4. PICK O : O = {p.off : p \in {q \in S : q.fid = f}}
    OBVIOUS
  <1>5. O \subseteq Nat /\ O # {}
    BY <1>1, <1>4, Sizes
  <1>6. PICK o \in O : \A x \in O : o =< x
    BY <1>5, SmallestOf
  <1>7. PICK p \in S : p.fid = f /\ p.off = o
    BY <1>4
  <1>8. ASSUME NEW q \in S, q # p
        PROVE  Before(p, q)
    <2>1. p.fid =< q.fid /\ (q.fid = f => p.off =< q.off)
      BY <1>1, <1>3, <1>4, <1>6, <1>7
    <2>2. q.fid \in Nat /\ q.off \in Nat /\ p.fid \in Nat /\ p.off \in Nat
      BY Sizes
    <2>3. q.fid # p.fid \/ q.off # p.off
      BY <1>8 DEF Positions
    <2> QED BY <1>7, <2>1, <2>2, <2>3 DEF Before
  <1> QED BY <1>8 DEF First

LEMMA LastIs ==
    ASSUME NEW S, S \subseteq Positions, S # {}
    PROVE  Last(S) \in S /\ \A q \in S \ {Last(S)} : Before(q, Last(S))
  <1>1. PICK F : F = {p.fid : p \in S}
    OBVIOUS
  <1>2. F \subseteq Nat /\ F # {} /\ \A g \in F : g =< MaxFileId
    BY <1>1, Sizes
  <1>3. PICK f \in F : \A g \in F : g =< f
    BY <1>2, Sizes, LargestOf
  <1>4. PICK O : O = {p.off : p \in {q \in S : q.fid = f}}
    OBVIOUS
  <1>5. O \subseteq Nat /\ O # {} /\ (\A x \in O : x =< 2 * DataFileSize)
        /\ 2 * DataFileSize \in Nat
    BY <1>1, <1>4, Sizes
  <1>6. PICK o \in O : \A x \in O : x =< o
    BY <1>5, LargestOf
  <1>7. PICK p \in S : p.fid = f /\ p.off = o
    BY <1>4
  <1>8. ASSUME NEW q \in S, q # p
        PROVE  Before(q, p)
    <2>1. q.fid =< p.fid /\ (q.fid = f => q.off =< p.off)
      BY <1>1, <1>3, <1>4, <1>6, <1>7
    <2>2. q.fid \in Nat /\ q.off \in Nat /\ p.fid \in Nat /\ p.off \in Nat
      BY Sizes
    <2>3. q.fid # p.fid \/ q.off # p.off
      BY <1>8 DEF Positions
    <2> QED BY <1>7, <2>1, <2>2, <2>3 DEF Before
  <1> QED BY <1>8 DEF Last

-----------------------------------------------------------------------------
\* The files

\* The directories alone.
DirsType ==
    /\ exists \subseteq Dirs
    /\ present \in [Dirs -> SUBSET FileIds]
    /\ data \in [Dirs -> [FileIds -> Seq(Records)]]
    /\ synced \in [Dirs -> [FileIds -> Nat]]
    /\ hint \in [Dirs -> [Keys -> Positions \cup {NoPos}] \cup {NoHint}]
    /\ fin \in [Dirs -> FileIds \cup {NoFile, Empty}]

\* What is not in the directories.
InstanceType ==
    /\ phase \in {"closed", "delete", "move", "remove", "load", "open"}
    /\ dirPath \in Dirs /\ syncWrites \in BOOLEAN
    /\ dirOf \in [FileIds -> Dirs \cup {NoDir}] /\ writeOff \in Nat
    /\ index \in [Keys -> Positions \cup {NoPos}]
    /\ seqNo \in 0 .. MaxSeqNo
    /\ mu \in BatchClients \cup {NoClient}
    /\ pc \in [Clients -> {"idle", "delete", "index", "finish", "apply"}]
    /\ write \in [Clients -> [key : Keys \cup {TxnFinKey},
                             val : Values \cup {Tombstone, Finished},
                             pos : Positions \cup {NoPos}]]
    /\ mpc \in {"none", "prepare", "open", "scan", "finish"}
    /\ nonMergeFileId \in FileIds \cup {NoFile}
    /\ toScan \subseteq Positions
    /\ mergeFile \in FileIds \cup {NoFile} /\ mergeOff \in Nat
    /\ kv \in [Keys -> Values \cup {Tombstone}] /\ shared \in BOOLEAN

LEMMA TypeIs == TypeOK <=> DirsType /\ InstanceType
  BY DEF TypeOK, DirsType, InstanceType

LEMMA ActiveIs ==
    ASSUME InstanceType
    PROVE  /\ OpenFiles \subseteq FileIds
           /\ ActiveFile \in FileIds \cup {NoFile}
           /\ ActiveFile = NoFile <=> OpenFiles = {}
           /\ ActiveFile # NoFile => ActiveFile \in OpenFiles
           /\ \A g \in OpenFiles : g =< ActiveFile
  <1>1. PICK S : S = OpenFiles
    OBVIOUS
  <1>2. S \subseteq FileIds
    BY <1>1 DEF OpenFiles
  <1>3. S # {} => ActiveFile \in S /\ \A g \in S : g =< ActiveFile
    BY <1>1, <1>2, LargestFile DEF ActiveFile
  <1>4. S = {} => ActiveFile = NoFile
    BY <1>1 DEF ActiveFile
  <1>5. \A g \in S : g # NoFile
    BY <1>2, Sizes
  <1> QED BY <1>1, <1>2, <1>3, <1>4, <1>5

\* Where the next record goes.
LEMMA AppendPlace ==
    ASSUME TypeOK, FilesInv, OpenInv, phase = "open", AppendFile =< MaxFileId
    PROVE  /\ AppendFile \in FileIds /\ AppendDir \in Dirs /\ AppendDir =< dirPath
           /\ ActiveFile =< AppendFile
           /\ Len(data[AppendDir][AppendFile]) < DataFileSize
           /\ AppendPos = [fid |-> AppendFile, off |-> Len(data[AppendDir][AppendFile])]
           /\ AppendPos \in Positions /\ AppendPos \notin LogOf(dirOf, 0)
           /\ NewFile => /\ AppendFile = ActiveFile + 1 /\ AppendDir = dirPath
                         /\ AppendFile \notin OpenFiles
                         /\ AppendFile \notin present[dirPath]
                         /\ data[AppendDir][AppendFile] = <<>>
           /\ ~NewFile => /\ AppendFile = ActiveFile /\ AppendFile \in OpenFiles
                          /\ AppendDir = dirOf[AppendFile]
                          /\ AppendFile \in present[AppendDir]
  <1> DEFINE f == AppendFile
             d == AppendDir
  <1>1. DirsType /\ InstanceType
    BY TypeIs
  <1>2. /\ OpenFiles \subseteq FileIds /\ ActiveFile \in FileIds \cup {NoFile}
        /\ ActiveFile # NoFile => ActiveFile \in OpenFiles
        /\ \A g \in OpenFiles : g =< ActiveFile
    BY <1>1, ActiveIs
  <1>3. dirPath \in Dirs
    BY <1>1 DEF InstanceType
  <1>4. CASE NewFile
    <2>1. f = ActiveFile + 1 /\ d = dirPath
      BY <1>4 DEF AppendFile, AppendDir, NextFile
    <2>2. f \in FileIds /\ f > ActiveFile
      BY <1>2, <2>1, Sizes
    <2>3. f \notin OpenFiles /\ f \notin present[dirPath]
      BY <1>2, <2>2, Sizes DEF OpenInv
    <2>4. data[d][f] = <<>>
      BY <1>3, <2>1, <2>2, <2>3 DEF FilesInv
    <2>5. Len(data[d][f]) = 0 /\ AppendPos = [fid |-> f, off |-> Len(data[d][f])]
      BY <1>4, <2>4 DEF AppendPos
    <2>6. AppendPos \in Positions
      BY <2>2, <2>5, Sizes DEF Positions
    <2>7. AppendPos \notin LogOf(dirOf, 0)
      BY <2>2, <2>3, <2>5 DEF LogOf, OpenFiles
    <2> QED BY <1>2, <1>3, <1>4, <2>1, <2>2, <2>3, <2>4, <2>5, <2>6, <2>7, Sizes
  <1>5. CASE ~NewFile
    <2>0. f = ActiveFile /\ d = dirOf[f] /\ ActiveFile # NoFile /\ ~(writeOff >= DataFileSize)
      BY <1>5 DEF AppendFile, AppendDir, NewFile, Rotates
    <2>1. /\ f = ActiveFile /\ d = dirOf[f] /\ ActiveFile # NoFile
          /\ writeOff = Len(data[d][f]) /\ ~(Len(data[d][f]) >= DataFileSize)
          /\ AppendPos = [fid |-> f, off |-> Len(data[d][f])]
      BY <1>5, <2>0 DEF OpenInv, AppendPos
    <2>2. f \in OpenFiles /\ f \in FileIds /\ d \in Dirs /\ d =< dirPath
      <3>1. f \in OpenFiles /\ f \in FileIds /\ d \in Dirs \cup {NoDir} /\ d # NoDir
        BY <1>1, <1>2, <2>1 DEF OpenFiles, InstanceType
      <3> QED BY <2>1, <3>1 DEF OpenInv
    <2>3. data[d][f] \in Seq(Records) /\ Len(data[d][f]) =< DataFileSize
      BY <1>1, <2>2 DEF DirsType, FilesInv
    <2>4. Len(data[d][f]) \in 0 .. (DataFileSize - 1)
      BY <2>1, <2>3, Sizes
    <2>5. AppendPos \in Positions
      BY <2>1, <2>2, <2>4, Sizes DEF Positions
    <2>6. AppendPos \notin LogOf(dirOf, 0)
      <3>1. AppendPos.fid = f /\ AppendPos.off = Len(data[dirOf[f]][f])
        BY <2>1
      <3> QED BY <2>1, <2>4, <3>1 DEF LogOf
    <2>7. f \in present[d]
      BY <2>1, <2>2 DEF OpenInv
    <2> QED BY <1>2, <1>5, <2>1, <2>2, <2>4, <2>5, <2>6, <2>7, Sizes
  <1> QED BY <1>4, <1>5

\* An append to file f of directory d.
Appended(d, f, rec) == data' = [data EXCEPT ![d][f] = Append(@, rec)]

\* Nothing that was there is another thing now.
DataKept == \A e \in Dirs, g \in FileIds :
    /\ Len(data[e][g]) =< Len(data'[e][g])
    /\ \A i \in 1 .. Len(data[e][g]) : data'[e][g][i] = data[e][g][i]

LEMMA AppendedIs ==
    ASSUME DirsType, NEW d \in Dirs, NEW f \in FileIds, NEW rec \in Records,
           Appended(d, f, rec)
    PROVE  /\ data' \in [Dirs -> [FileIds -> Seq(Records)]]
           /\ Len(data'[d][f]) = Len(data[d][f]) + 1
           /\ data'[d][f][Len(data[d][f]) + 1] = rec
           /\ \A i \in 1 .. Len(data[d][f]) : data'[d][f][i] = data[d][f][i]
           /\ \A e \in Dirs, g \in FileIds : e # d \/ g # f => data'[e][g] = data[e][g]
           /\ \A e \in Dirs, g \in FileIds : Len(data[e][g]) \in Nat
           /\ DataKept
  <1>1. data \in [Dirs -> [FileIds -> Seq(Records)]]
    BY DEF DirsType
  <1>2. PICK s, t : s = data[d][f] /\ t = Append(s, rec)
    OBVIOUS
  <1>3. s \in Seq(Records) /\ t \in Seq(Records) /\ Len(t) = Len(s) + 1 /\ t[Len(s) + 1] = rec
        /\ \A i \in 1 .. Len(s) : t[i] = s[i]
    BY <1>1, <1>2
  <1>4. data' = [data EXCEPT ![d][f] = t]
    BY <1>2 DEF Appended
  <1>5. /\ data' \in [Dirs -> [FileIds -> Seq(Records)]] /\ data'[d][f] = t
        /\ \A e \in Dirs, g \in FileIds : e # d \/ g # f => data'[e][g] = data[e][g]
    BY <1>1, <1>3, <1>4
  <1>6. \A e \in Dirs, g \in FileIds : Len(data[e][g]) \in Nat
    BY <1>1
  <1>7. ASSUME NEW e \in Dirs, NEW g \in FileIds
        PROVE  /\ Len(data[e][g]) =< Len(data'[e][g])
               /\ \A i \in 1 .. Len(data[e][g]) : data'[e][g][i] = data[e][g][i]
    <2>1. CASE e = d /\ g = f
      BY <1>2, <1>3, <1>5, <2>1
    <2>2. CASE e # d \/ g # f
      BY <1>5, <1>6, <2>2
    <2> QED BY <2>1, <2>2
  <1> QED BY <1>2, <1>3, <1>5, <1>6, <1>7 DEF DataKept

\* The log of the open instance loses no record, and gains rec at p alone.
LogGrows(p, rec) ==
    /\ \A q : q \in LogOf(dirOf, 0)' <=> q \in LogOf(dirOf, 0) \/ q = p
    /\ \A q \in LogOf(dirOf, 0) : RecAt(q)' = RecAt(q)
    /\ \A q : q = p => RecAt(q)' = rec

LEMMA LogAfterAppend ==
    ASSUME TypeOK, FilesInv, OpenInv, phase = "open", AppendFile =< MaxFileId,
           NEW rec \in Records, Appended(AppendDir, AppendFile, rec),
           dirOf' = [dirOf EXCEPT ![AppendFile] = AppendDir]
    PROVE  LogGrows(AppendPos, rec)
  <1>1. PICK f, d, n, h : f = AppendFile /\ d = AppendDir /\ n = Len(data[d][f]) /\ h = dirOf'
    OBVIOUS
  <1>2. /\ f \in FileIds /\ d \in Dirs /\ n \in Nat /\ n < DataFileSize
        /\ NewFile => f \notin OpenFiles /\ n = 0
        /\ ~NewFile => d = dirOf[f]
    BY <1>1, AppendPlace, Sizes, TypeIs DEF DirsType
  <1>3. dirOf \in [FileIds -> Dirs \cup {NoDir}] /\ DirsType
    BY TypeIs DEF InstanceType
  <1>4. h = [dirOf EXCEPT ![f] = d] /\ h[f] = d /\ \A g \in FileIds \ {f} : h[g] = dirOf[g]
    BY <1>1, <1>2, <1>3
  <1>5. AppendPos = [fid |-> f, off |-> n] /\ AppendPos \in Positions
    BY <1>1, AppendPlace
  <1>6. \A q \in Positions : q.fid \in FileIds /\ q.off \in Nat
    BY Sizes
  <1>7. /\ Len(data'[d][f]) = n + 1 /\ data'[d][f][n + 1] = rec
        /\ \A i \in 1 .. n : data'[d][f][i] = data[d][f][i]
        /\ \A e \in Dirs, g \in FileIds : e # d \/ g # f => data'[e][g] = data[e][g]
    BY <1>1, <1>2, <1>3, AppendedIs
  <1>8. d # NoDir
    BY <1>2, Sizes
  <1>9. ASSUME NEW q \in Positions, q.fid # f
        PROVE  /\ q \in LogOf(dirOf, 0)' <=> q \in LogOf(dirOf, 0)
               /\ q \in LogOf(dirOf, 0) => RecAt(q)' = RecAt(q)
    <2>1. h[q.fid] = dirOf[q.fid] /\ q.fid \in FileIds /\ q.fid >= 0
      BY <1>4, <1>6, <1>9, Sizes
    <2>2. dirOf[q.fid] # NoDir => data'[dirOf[q.fid]][q.fid] = data[dirOf[q.fid]][q.fid]
      BY <1>3, <1>7, <1>9, <2>1
    <2> QED BY <1>1, <2>1, <2>2 DEF LogOf, RecAt, At
  <1>10. ASSUME NEW q \in Positions, q.fid = f
         PROVE  /\ q \in LogOf(dirOf, 0)' <=> q.off < n + 1
                /\ q \in LogOf(dirOf, 0) <=> q.off < n
                /\ q.off < n => RecAt(q)' = RecAt(q)
    <2>1. q.off \in Nat /\ q.fid >= 0
      BY <1>6, <1>10, Sizes
    <2>2. q \in LogOf(dirOf, 0)' <=> q.off < n + 1
      BY <1>1, <1>4, <1>7, <1>8, <1>10, <2>1 DEF LogOf
    <2>3. q \in LogOf(dirOf, 0) <=> q.off < n
      <3>1. CASE NewFile
        BY <1>2, <1>10, <2>1, <3>1 DEF LogOf, OpenFiles
      <3>2. CASE ~NewFile
        BY <1>1, <1>2, <1>8, <1>10, <2>1, <3>2 DEF LogOf
      <3> QED BY <3>1, <3>2
    <2>4. q.off < n => RecAt(q)' = RecAt(q)
      <3>1. q.off < n => q.off + 1 \in 1 .. n /\ ~NewFile
        BY <1>2, <2>1
      <3> QED BY <1>1, <1>2, <1>4, <1>7, <1>10, <3>1 DEF RecAt, At
    <2> QED BY <2>2, <2>3, <2>4
  <1>11. \A q \in Positions : q.fid = f /\ q.off = n <=> q = AppendPos
    BY <1>5 DEF Positions
  <1>12. \A q : q \in LogOf(dirOf, 0) \/ q \in LogOf(dirOf, 0)' => q \in Positions
    BY DEF LogOf
  <1>13. ASSUME NEW q
         PROVE  /\ q \in LogOf(dirOf, 0)' <=> q \in LogOf(dirOf, 0) \/ q = AppendPos
                /\ q \in LogOf(dirOf, 0) => RecAt(q)' = RecAt(q)
    <2>1. CASE q \notin Positions
      BY <1>5, <1>12, <2>1
    <2>2. CASE q \in Positions
      <3>1. q.off \in Nat /\ (q.off < n + 1 <=> q.off < n \/ q.off = n)
        BY <1>2, <1>6, <2>2
      <3> QED BY <1>9, <1>10, <1>11, <2>2, <3>1
    <2> QED BY <2>1, <2>2
  <1>14. \A q : q = AppendPos => RecAt(q)' = rec
    BY <1>1, <1>4, <1>5, <1>7 DEF RecAt, At
  <1> QED BY <1>13, <1>14 DEF LogGrows

-----------------------------------------------------------------------------
\* An append of the running instance

LEMMA AppendTypes ==
    ASSUME TypeOK, FilesInv, OpenInv, phase = "open",
           NEW rec \in Records, NEW s \in BOOLEAN, AppendLogRecord(rec, s),
           (rec.val = Finished <=> rec.key = TxnFinKey)
    PROVE  /\ DirsType' /\ FilesInv' /\ DataKept
           /\ dirOf' \in [FileIds -> Dirs \cup {NoDir}]
           /\ LogGrows(AppendPos, rec) /\ AppendPos \in Positions
           /\ AppendPos \notin LogOf(dirOf, 0) /\ AppendFile = AppendPos.fid
           /\ AppendFile \in FileIds /\ AppendDir \in Dirs /\ AppendDir =< dirPath
           /\ ActiveFile =< AppendFile
           /\ writeOff' \in Nat /\ writeOff' = Len(data'[AppendDir][AppendFile])
           /\ OpenFiles' = OpenFiles \cup {AppendFile}
           /\ \A g \in OpenFiles : dirOf'[g] = dirOf[g]
           /\ \A g : g = AppendFile => dirOf'[g] = AppendDir
           /\ \A e \in Dirs : present[e] \subseteq present'[e]
           /\ \A e \in Dirs : \A g : g \in present'[e] =>
                  g \in present[e] \/ (g = AppendFile /\ e = AppendDir)
           /\ \A e \in Dirs, g \in FileIds :
                  e # AppendDir \/ g # AppendFile => data'[e][g] = data[e][g]
           /\ \A e \in Dirs, g \in FileIds : Len(data[e][g]) \in Nat
  <1> DEFINE f == AppendFile
             d == AppendDir
  <1>1. DirsType /\ InstanceType
    BY TypeIs
  <1>2. /\ f \in FileIds /\ d \in Dirs /\ d =< dirPath /\ ActiveFile =< f
        /\ Len(data[d][f]) < DataFileSize
        /\ AppendPos \in Positions /\ AppendPos \notin LogOf(dirOf, 0)
        /\ NewFile => f \notin OpenFiles
        /\ ~NewFile => f \in OpenFiles /\ d = dirOf[f]
    BY AppendPlace DEF AppendLogRecord
  <1>3. AppendPos.fid = f /\ AppendPos.off = Len(data[d][f])
    BY AppendPlace DEF AppendLogRecord
  <1>4. Appended(d, f, rec) /\ dirOf' = [dirOf EXCEPT ![f] = d]
        /\ present' = [present EXCEPT ![d] = @ \cup {f}]
        /\ UNCHANGED <<exists, hint, fin>>
    BY DEF AppendLogRecord, Appended
  <1>5. /\ data' \in [Dirs -> [FileIds -> Seq(Records)]]
        /\ Len(data'[d][f]) = Len(data[d][f]) + 1
        /\ data'[d][f][Len(data[d][f]) + 1] = rec
        /\ \A i \in 1 .. Len(data[d][f]) : data'[d][f][i] = data[d][f][i]
        /\ \A e \in Dirs, g \in FileIds : e # d \/ g # f => data'[e][g] = data[e][g]
        /\ \A e \in Dirs, g \in FileIds : Len(data[e][g]) \in Nat
        /\ DataKept
    BY <1>1, <1>2, <1>4, AppendedIs
  <1>6. LogGrows(AppendPos, rec)
    BY <1>2, <1>4, LogAfterAppend DEF AppendLogRecord
  <1>7. present' \in [Dirs -> SUBSET FileIds]
        /\ (\A e \in Dirs : present[e] \subseteq present'[e])
        /\ f \in present'[d]
        /\ (\A e \in Dirs : \A g : g \in present'[e] =>
                  g \in present[e] \/ (g = f /\ e = d))
    BY <1>1, <1>2, <1>4 DEF DirsType
  <1>8. /\ dirOf' \in [FileIds -> Dirs \cup {NoDir}] /\ dirOf'[f] = d
        /\ \A g \in FileIds : g # f => dirOf'[g] = dirOf[g]
    BY <1>1, <1>2, <1>4 DEF InstanceType
  <1>9. \A g \in OpenFiles : dirOf'[g] = dirOf[g]
    BY <1>2, <1>8 DEF OpenFiles
  <1>10. OpenFiles' = OpenFiles \cup {f}
    BY <1>2, <1>8, Sizes DEF OpenFiles
  <1>11. SyncedActive \in [Dirs -> [FileIds -> Nat]] \/ ActiveFile = NoFile
    <2> SUFFICES ASSUME ActiveFile # NoFile
                 PROVE  SyncedActive \in [Dirs -> [FileIds -> Nat]]
      OBVIOUS
    <2>1. ActiveFile \in FileIds /\ dirOf[ActiveFile] \in Dirs
      BY <1>1, ActiveIs DEF OpenFiles, InstanceType
    <2>2. Len(data[dirOf[ActiveFile]][ActiveFile]) \in Nat
      BY <1>5, <2>1
    <2> QED BY <1>1, <2>1, <2>2 DEF SyncedActive, DirsType
  <1>12. SyncedAfterRotation \in [Dirs -> [FileIds -> Nat]]
    BY <1>1, <1>11 DEF SyncedAfterRotation, Rotates, DirsType
  <1>13. Len(data[d][f]) + 1 \in Nat /\ writeOff' = Len(data'[d][f])
    BY <1>2, <1>3, <1>5 DEF AppendLogRecord
  <1>14. synced' \in [Dirs -> [FileIds -> Nat]]
    BY <1>2, <1>12, <1>13 DEF AppendLogRecord
  <1>15. DirsType'
    BY <1>1, <1>4, <1>5, <1>7, <1>14 DEF DirsType
  <1>16. FilesInv'
    <2> SUFFICES ASSUME NEW e \in Dirs, NEW g \in FileIds
                 PROVE  /\ Len(data'[e][g]) =< DataFileSize
                        /\ g \notin present'[e] => data'[e][g] = <<>>
                        /\ \A i \in 1 .. Len(data'[e][g]) :
                              data'[e][g][i].val = Finished <=> data'[e][g][i].key = TxnFinKey
      BY DEF FilesInv
    <2>1. CASE e = d /\ g = f
      <3>1. Len(data'[e][g]) =< DataFileSize /\ g \in present'[e]
        BY <1>2, <1>5, <1>7, <2>1, Sizes
      <3>2. ASSUME NEW i \in 1 .. Len(data'[e][g])
            PROVE  data'[e][g][i].val = Finished <=> data'[e][g][i].key = TxnFinKey
        <4>1. i \in 1 .. Len(data[d][f]) \/ i = Len(data[d][f]) + 1
          BY <1>5, <2>1
        <4>2. i = Len(data[d][f]) + 1 => data'[e][g][i] = rec
          BY <1>5, <2>1
        <4>3. i \in 1 .. Len(data[d][f]) =>
                 data'[e][g][i] = data[e][g][i] /\ i \in 1 .. Len(data[e][g])
          BY <1>5, <2>1
        <4> QED BY <4>1, <4>2, <4>3 DEF FilesInv
      <3> QED BY <3>1, <3>2
    <2>2. CASE e # d \/ g # f
      <3>1. data'[e][g] = data[e][g]
        BY <1>5, <2>2
      <3>2. g \notin present'[e] => g \notin present[e]
        BY <1>7
      <3> QED BY <3>1, <3>2 DEF FilesInv
    <2> QED BY <2>1, <2>2
  <1>17. writeOff' \in Nat
    BY <1>5, <1>13
  <1> QED BY <1>2, <1>3, <1>5, <1>6, <1>7, <1>8, <1>9, <1>10, <1>13, <1>15, <1>16, <1>17

\* hint-index of directory d says what it said, where d gained records only.
LEMMA EntriesKept ==
    ASSUME DirsType, DataKept, NEW d \in Dirs, hint[d] # NoHint, UNCHANGED hint,
           NEW k \in Keys, HintEntrySound(d, k)
    PROVE  HintEntrySound(d, k)'
  <1> SUFFICES ASSUME hint[d][k] # NoPos
               PROVE  HintEntrySound(d, k)'
    BY DEF HintEntrySound
  <1>1. PICK p : p = hint[d][k]
    OBVIOUS
  <1>2. p \in Positions /\ p.fid \in FileIds /\ p.off \in Nat
    BY <1>1, Sizes DEF DirsType
  <1>3. /\ p.off < Len(data[d][p.fid])
        /\ data[d][p.fid][p.off + 1].seq = 0
        /\ data[d][p.fid][p.off + 1].key = k
        /\ data[d][p.fid][p.off + 1].val \in Values
    BY <1>1 DEF HintEntrySound
  <1>4. Len(data[d][p.fid]) =< Len(data'[d][p.fid]) /\ Len(data[d][p.fid]) \in Nat
        /\ (DataKept => \A i \in 1 .. Len(data[d][p.fid]) :
               data'[d][p.fid][i] = data[d][p.fid][i])
    BY <1>2 DEF DataKept, DirsType
  <1>5. Len(data'[d][p.fid]) >= Len(data[d][p.fid]) /\ p.off + 1 \in 1 .. Len(data[d][p.fid])
    BY <1>2, <1>3, <1>4
  <1>6. data'[d][p.fid][p.off + 1] = data[d][p.fid][p.off + 1]
    BY <1>4, <1>5
  <1>7. PICK n : n = Len(data'[d][p.fid])
    OBVIOUS
  <1>8. p.off < n
    BY <1>2, <1>3, <1>4, <1>7
  <1> QED BY <1>1, <1>3, <1>6, <1>7, <1>8 DEF HintEntrySound

LEMMA AppendKeepsOpen ==
    ASSUME TypeOK, FilesInv, OpenInv, IndexInv, phase = "open",
           NEW rec \in Records, NEW s \in BOOLEAN, AppendLogRecord(rec, s),
           (rec.val = Finished <=> rec.key = TxnFinKey),
           UNCHANGED <<phase, dirPath, index, mpc>>
    PROVE  OpenInv' /\ IndexInv' /\ ActiveFile' = AppendFile
  <1>1. InstanceType
    BY TypeIs
  <1>2. PICK f, d : f = AppendFile /\ d = AppendDir
    OBVIOUS
  <1>3. /\ OpenFiles \subseteq FileIds /\ ActiveFile \in FileIds \cup {NoFile}
        /\ \A g \in OpenFiles : g =< ActiveFile
    BY <1>1, ActiveIs
  <1>4. /\ f \in FileIds /\ d \in Dirs /\ d =< dirPath /\ ActiveFile =< f
        /\ OpenFiles' = OpenFiles \cup {f}
        /\ dirOf'[f] = d /\ \A g \in OpenFiles : dirOf'[g] = dirOf[g]
        /\ \A e \in Dirs : present[e] \subseteq present'[e]
        /\ \A e \in Dirs : \A g : g \in present'[e] => g \in present[e] \/ (g = f /\ e = d)
    BY <1>2, AppendTypes
  <1>c. DirsType /\ DirsType'
    BY AppendTypes, TypeIs
  <1>5. f \in present'[d]
    BY <1>2, <1>4, <1>c DEF AppendLogRecord, DirsType
  <1>6. ActiveFile' = f
    <2>1. \A g \in OpenFiles' : g =< f
      BY <1>3, <1>4, Sizes
    <2>2. PICK S : S = OpenFiles'
      OBVIOUS
    <2>3. f \in S /\ S \subseteq FileIds /\ \A g \in S : g =< f
      BY <1>3, <1>4, <2>1, <2>2
    <2>4. (CHOOSE x \in S : \A g \in S : g =< x) = f
      BY <2>3, LargestFile, Sizes
    <2> QED BY <2>2, <2>3, <2>4 DEF ActiveFile
  <1>7. OpenInv'
    <2>1. ASSUME NEW g \in OpenFiles'
          PROVE  g \in present'[dirOf'[g]] /\ dirOf'[g] =< dirPath'
      <3>1. CASE g = f
        BY <1>4, <1>5, <3>1
      <3>2. CASE g # f
        <4>1. g \in OpenFiles /\ dirOf'[g] = dirOf[g] /\ dirOf[g] \in Dirs
          BY <1>1, <1>3, <1>4, <3>2 DEF OpenFiles, InstanceType
        <4> QED BY <1>4, <4>1 DEF OpenInv
      <3> QED BY <3>1, <3>2
    <2>2. present'[0] \subseteq OpenFiles'
      BY <1>4, Sizes DEF OpenInv
    <2>3. ASSUME NEW g \in present'[dirPath']
          PROVE  g =< f
      <3>1. dirPath' = dirPath /\ dirPath \in Dirs
        BY <1>1 DEF InstanceType
      <3>2. g \in present[dirPath] \/ g = f
        BY <1>4, <3>1
      <3>3. g \in present[dirPath] => g =< ActiveFile /\ g \in FileIds
        BY <1>c, <3>1 DEF OpenInv, DirsType
      <3> QED BY <1>3, <1>4, <3>2, <3>3, Sizes
    <2>4. writeOff' = Len(data'[dirOf'[f]][f])
      BY <1>2, <1>4, AppendTypes
    <2> QED BY <1>6, <2>1, <2>2, <2>3, <2>4 DEF OpenInv
  <1>8. IndexInv'
    <2> SUFFICES ASSUME NEW k \in Keys, index[k] # NoPos
                 PROVE  /\ index[k].fid =< f
                        /\ index[k].fid = f => index[k] \in LogOf(dirOf, 0)'
                        /\ index[k] \in LogOf(dirOf, 0)' => RecAt(index[k])'.val \in Values
      BY <1>6 DEF IndexInv
    <2>1. PICK p : p = index[k]
      OBVIOUS
    <2>2. p \in Positions /\ p.fid \in FileIds
      BY <1>1, <2>1, Sizes DEF InstanceType
    <2>3. /\ p.fid =< ActiveFile /\ (p.fid = ActiveFile => p \in LogOf(dirOf, 0))
          /\ p \in LogOf(dirOf, 0) => RecAt(p).val \in Values
      BY <2>1 DEF IndexInv
    <2>4. PICK q : q = AppendPos
      OBVIOUS
    <2>5. LogGrows(q, rec) /\ q \notin LogOf(dirOf, 0) /\ q.fid = f
      BY <1>2, <2>4, AppendTypes
    <2>6. p.fid = f => p \in LogOf(dirOf, 0)
      BY <1>3, <1>4, <2>2, <2>3, Sizes
    <2>7. p \in LogOf(dirOf, 0)' => p \in LogOf(dirOf, 0)
      BY <2>5, <2>6 DEF LogGrows
    <2>8. p \in LogOf(dirOf, 0) => p \in LogOf(dirOf, 0)' /\ RecAt(p)' = RecAt(p)
      BY <2>5 DEF LogGrows
    <2>9. p.fid =< f
      BY <1>3, <1>4, <2>2, <2>3, Sizes
    <2>10. index'[k] = p /\ (p \in LogOf(dirOf, 0)' => RecAt(p)'.val \in Values)
      BY <2>1, <2>3, <2>7, <2>8
    <2> QED BY <2>1, <2>6, <2>8, <2>9, <2>10
  <1> QED BY <1>2, <1>6, <1>7, <1>8

\* The files of mergeDB are not those the running instance writes.
LEMMA AppendKeepsMerge ==
    ASSUME TypeOK, FilesInv, OpenInv, MergeInv, phase = "open",
           NEW rec \in Records, NEW s \in BOOLEAN, AppendLogRecord(rec, s),
           (rec.val = Finished <=> rec.key = TxnFinKey),
           UNCHANGED <<phase, dirPath, merge>>
    PROVE  MergeInv'
  <1> SUFFICES ASSUME mpc # "none"
               PROVE  MergeInv'
    BY DEF MergeInv, merge
  <1>1. DirsType /\ InstanceType
        /\ UNCHANGED <<mpc, nonMergeFileId, toScan, mergeFile, mergeOff, dirPath, hint>>
    BY TypeIs DEF merge, AppendLogRecord
  <1>2. PICK f, d, n, m : f = AppendFile /\ d = AppendDir /\ n = nonMergeFileId /\ m = dirPath
    OBVIOUS
  <1>3. n \in OpenFiles /\ HintBelow(0, n) /\ \A p \in toScan : p \in LogOf(dirOf, 0) /\ p.fid < n
    BY <1>2 DEF MergeInv
  <1>4. /\ f \in FileIds /\ d \in Dirs /\ d =< m /\ ActiveFile =< f
        /\ OpenFiles' = OpenFiles \cup {f}
        /\ dirOf'[f] = d /\ \A g \in OpenFiles : dirOf'[g] = dirOf[g]
        /\ \A e \in Dirs : present[e] \subseteq present'[e]
        /\ \A e \in Dirs : \A g : g \in present'[e] => g \in present[e] \/ (g = f /\ e = d)
        /\ \A e \in Dirs, g \in FileIds : e # d \/ g # f => data'[e][g] = data[e][g]
    BY <1>2, AppendTypes
  <1>5. n \in FileIds /\ n =< ActiveFile /\ ActiveFile \in FileIds /\ n =< f
        /\ OpenFiles \subseteq FileIds
    BY <1>1, <1>3, <1>4, ActiveIs, Sizes
  <1>6. /\ NewFile => f > n /\ d = m
        /\ ~NewFile => f \in OpenFiles /\ d = dirOf[f]
    BY <1>2, <1>5, AppendPlace, Sizes DEF AppendLogRecord
  <1>7. PICK q : q = AppendPos
    OBVIOUS
  <1>8. \A p \in toScan : p \in LogOf(dirOf, 0)' /\ p.fid < n
    <2>1. LogGrows(q, rec)
      BY <1>7, AppendTypes
    <2> QED BY <1>3, <2>1 DEF LogGrows
  <1>9. n \in OpenFiles' /\ dirOf'[n] = dirOf[n] /\ HintBelow(0, n)'
    BY <1>1, <1>3, <1>4 DEF HintBelow
  <1>10. m \in Dirs
    BY <1>1, <1>2 DEF InstanceType
  <1>11. ASSUME mpc = "open"
         PROVE  /\ \A g \in present'[m] : g > n
                /\ \A g \in OpenFiles' : dirOf'[g] = m => g > n
                /\ hint'[m] = NoHint
    <2>1. /\ \A g \in present[m] : g > n
          /\ \A g \in OpenFiles : dirOf[g] = m => g > n
          /\ hint[m] = NoHint
      BY <1>2, <1>11 DEF MergeInv
    <2>2. d = m => f > n
      BY <1>6, <2>1
    <2> QED BY <1>1, <1>4, <1>10, <2>1, <2>2
  <1>12. ASSUME mpc \in {"scan", "finish"}
         PROVE  /\ mergeFile < n
                /\ \A g \in present'[m] : g =< mergeFile \/ g > n
                /\ \A g \in OpenFiles' : dirOf'[g] = m => g > n
                /\ \A g \in FileIds : g < n => OnlyValues(m, g)'
                /\ hint[m] # NoHint /\ HintBelow(m, mergeFile + 1)'
                /\ \A g \in FileIds : g =< n => data'[m][g] = data[m][g]
    <2>1. /\ mergeFile < n /\ hint[m] # NoHint /\ HintBelow(m, mergeFile + 1)
          /\ \A g \in present[m] : g =< mergeFile \/ g > n
          /\ \A g \in OpenFiles : dirOf[g] = m => g > n
          /\ \A g \in FileIds : g < n => OnlyValues(m, g)
      BY <1>2, <1>12 DEF MergeInv
    <2>2. d = m => f > n
      BY <1>6, <2>1
    <2>3. \A g \in FileIds : g =< n => data'[m][g] = data[m][g]
      <3>1. \A g \in FileIds : g =< n => ~(m = d /\ g = f)
        BY <1>4, <1>5, <2>2, Sizes
      <3> QED BY <1>4, <1>10, <3>1
    <2>4. \A g \in FileIds : g < n => OnlyValues(m, g)'
      <3>1. ASSUME NEW g \in FileIds, g < n
            PROVE  OnlyValues(m, g)'
        <4>1. data'[m][g] = data[m][g]
          BY <1>5, <2>3, <3>1, Sizes
        <4> QED BY <2>1, <3>1, <4>1 DEF OnlyValues
      <3> QED BY <3>1
    <2>5. \A g \in present'[m] : g =< mergeFile \/ g > n
      BY <1>4, <1>10, <2>1, <2>2
    <2>6. \A g \in OpenFiles' : dirOf'[g] = m => g > n
      BY <1>4, <2>1, <2>2
    <2>7. HintBelow(m, mergeFile + 1)'
      BY <1>1, <2>1 DEF HintBelow
    <2> QED BY <2>1, <2>3, <2>4, <2>5, <2>6, <2>7
  <1>s. ASSUME mpc = "scan", mergeFile # NoFile
        PROVE  mergeOff' = Len(data'[m][mergeFile])
    <2>1. mergeFile \in FileIds /\ mergeFile =< n
      BY <1>1, <1>5, <1>12, <1>s, Sizes DEF InstanceType
    <2>2. data'[m][mergeFile] = data[m][mergeFile]
      BY <1>12, <1>s, <2>1
    <2> QED BY <1>1, <1>2, <1>s, <2>2 DEF MergeInv
  <1>13. ASSUME mpc = "scan", NEW p \in toScan
         PROVE  MergeAppendFile' < p.fid \/ (MergeAppendFile' = p.fid /\ MergeOff' =< p.off)
    <2>1. MergeAppendFile < p.fid \/ (MergeAppendFile = p.fid /\ MergeOff =< p.off)
      BY <1>13 DEF MergeInv
    <2>2. (MergeRotates' <=> MergeRotates) /\ MergeAppendFile' = MergeAppendFile
          /\ MergeOff' = MergeOff
      BY <1>1 DEF MergeRotates, MergeAppendFile, MergeOff
    <2> QED BY <2>1, <2>2
  <1>14. mpc = "prepare" => m < MaxDir /\ dirOf[n] = m
    BY <1>2 DEF MergeInv
  <1>15. mpc # "prepare" => m > 0 /\ dirOf[n] = m - 1 /\ fin'[m] \notin FileIds
    BY <1>2 DEF MergeInv, AppendLogRecord
  <1>16. toScan' \subseteq {p \in LogOf(dirOf, 0)' : p.fid < n}
    BY <1>1, <1>8
  <1> QED BY <1>1, <1>2, <1>9, <1>11, <1>12, <1>s, <1>13, <1>14, <1>15, <1>16 DEF MergeInv

LEMMA AppendKeepsSwap ==
    ASSUME TypeOK, FilesInv, OpenInv, HintsInv, SwapInv, phase = "open",
           NEW rec \in Records, NEW s \in BOOLEAN, AppendLogRecord(rec, s),
           (rec.val = Finished <=> rec.key = TxnFinKey), UNCHANGED phase
    PROVE  HintsInv' /\ SwapInv'
  <1>1. DirsType /\ InstanceType /\ UNCHANGED <<exists, hint, fin>>
    BY TypeIs DEF AppendLogRecord
  <1>2. PICK f, d : f = AppendFile /\ d = AppendDir
    OBVIOUS
  <1>3. /\ f \in FileIds /\ d \in Dirs /\ ActiveFile =< f /\ DataKept
        /\ \A e \in Dirs : present[e] \subseteq present'[e]
        /\ \A e \in Dirs, g \in FileIds : e # d \/ g # f => data'[e][g] = data[e][g]
    BY <1>2, AppendTypes
  <1>4. \A g \in present[0] : g \in FileIds /\ g =< ActiveFile /\ g =< f
    BY <1>1, <1>3, ActiveIs, Sizes DEF OpenInv
  <1>5. HintsInv'
    <2>1. ASSUME NEW e \in exists' \ {0}, hint'[e] # NoHint, NEW k \in Keys
          PROVE  HintEntrySound(e, k)'
      <3>1. e \in exists \ {0} /\ e \in Dirs /\ hint[e] # NoHint
        BY <1>1, <2>1 DEF DirsType
      <3>2. HintEntrySound(e, k)
        BY <3>1 DEF HintsInv
      <3> QED BY <1>1, <1>3, <3>1, <3>2, EntriesKept
    <2> QED BY <2>1 DEF HintsInv
  <1>6. ASSUME MaxDir > 0, fin[1] \in FileIds
        PROVE  /\ fin[1] \in present'[0] /\ HintBelow(0, fin[1])' /\ HintBelow(1, fin[1])'
               /\ \A g \in FileIds : g < fin[1] => OnlyValues(1, g)'
    <2>1. /\ fin[1] \in present[0] /\ HintBelow(0, fin[1]) /\ HintBelow(1, fin[1])
          /\ \A g \in FileIds : g < fin[1] => OnlyValues(1, g)
      BY <1>6 DEF SwapInv
    <2>2. HintBelow(0, fin[1])' /\ HintBelow(1, fin[1])' /\ fin[1] \in present'[0]
      BY <1>1, <1>3, <2>1, Sizes DEF HintBelow
    <2>3. ASSUME NEW g \in FileIds, g < fin[1]
          PROVE  OnlyValues(1, g)'
      <3>1. g # f /\ 1 \in Dirs
        BY <1>3, <1>4, <1>6, <2>1, <2>3, Sizes
      <3>2. data'[1][g] = data[1][g]
        BY <1>3, <2>3, <3>1
      <3> QED BY <2>1, <2>3, <3>2 DEF OnlyValues
    <2> QED BY <2>2, <2>3
  <1>7. ASSUME hint[0] # NoHint
        PROVE  /\ \E g \in present'[0] : HintBelow(0, g)'
               /\ \A k \in Keys :
                     hint[0][k] # NoPos /\ hint[0][k].off < Len(data'[0][hint[0][k].fid]) =>
                         data'[0][hint[0][k].fid][hint[0][k].off + 1].val \in Values
    <2>1. PICK g \in present[0] : HintBelow(0, g)
      BY <1>7 DEF SwapInv
    <2>2. HintBelow(0, g)' /\ g \in present'[0]
      BY <1>1, <1>3, <2>1, Sizes DEF HintBelow
    <2>3. ASSUME NEW k \in Keys, hint[0][k] # NoPos
          PROVE  data'[0][hint[0][k].fid] = data[0][hint[0][k].fid]
      <3>1. hint[0][k] \in Positions /\ hint[0][k].fid \in FileIds /\ hint[0][k].fid < g
        BY <1>1, <1>7, <2>1, <2>3, Sizes DEF DirsType, HintBelow
      <3>2. hint[0][k].fid # f
        BY <1>3, <1>4, <3>1, Sizes
      <3> QED BY <1>3, <3>1, <3>2, Sizes
    <2>4. ASSUME NEW k \in Keys, hint[0][k] # NoPos,
                 hint[0][k].off < Len(data'[0][hint[0][k].fid])
          PROVE  data'[0][hint[0][k].fid][hint[0][k].off + 1].val \in Values
      BY <1>7, <2>3, <2>4 DEF SwapInv
    <2> QED BY <2>2, <2>4
  <1>8. SwapInv'
    BY <1>1, <1>6, <1>7 DEF SwapInv
  <1> QED BY <1>5, <1>8

-----------------------------------------------------------------------------
\* The clients

\* The record of a write of c is at p.
WriteAt(w, p, val) ==
    w.key \in Keys /\ w.val \in Values \cup {Tombstone} /\ w.pos = p /\ w.val = val

LEMMA WritesAfterAppend ==
    ASSUME WriteInv, NEW q, NEW rec, LogGrows(q, rec), NEW c \in Clients,
           \A b \in Clients \ {c} : pc'[b] = pc[b] /\ write'[b] = write[b],
           \E p : /\ p \in LogOf(dirOf, 0)'
                  /\ \E r : r = RecAt(p)' /\ WriteAt(write'[c], p, r.val)
    PROVE  WriteInv'
  <1> SUFFICES ASSUME NEW b \in Clients, pc'[b] \notin {"idle", "delete"}
               PROVE  /\ write'[b].key \in Keys /\ write'[b].val \in Values \cup {Tombstone}
                      /\ write'[b].pos \in LogOf(dirOf, 0)'
                      /\ RecAt(write[b].pos)'.val = write'[b].val
    BY DEF WriteInv
  <1>1. CASE b = c
    BY <1>1 DEF WriteAt
  <1>2. CASE b # c
    <2>1. pc[b] \notin {"idle", "delete"} /\ write'[b] = write[b]
      BY <1>2
    <2>2. PICK p : p = write[b].pos
      OBVIOUS
    <2>3. /\ write[b].key \in Keys /\ write[b].val \in Values \cup {Tombstone}
          /\ p \in LogOf(dirOf, 0) /\ RecAt(p).val = write[b].val
      BY <2>1, <2>2 DEF WriteInv
    <2>4. p \in LogOf(dirOf, 0)' /\ RecAt(p)' = RecAt(p)
      BY <2>3 DEF LogGrows
    <2>5. write'[b].pos = p /\ RecAt(p)'.val = write'[b].val
      BY <2>1, <2>2, <2>3, <2>4
    <2> QED BY <2>1, <2>3, <2>4, <2>5
  <1> QED BY <1>1, <1>2

LEMMA DirectAppendKeeps ==
    ASSUME ApartInv, NEW c \in DirectClients, DirectAppend(c)
    PROVE  ApartInv'
  <1>1. /\ phase = "open"
        /\ UNCHANGED <<phase, dirPath, syncWrites, index, seqNo, mu, merge, shared>>
        /\ pc' = [pc EXCEPT ![c] = "index"]
    BY DEF DirectAppend, options
  <1>2. PICK w \in Writes :
           /\ AppendLogRecord([seq |-> 0, key |-> w.key, val |-> w.val], FALSE)
           /\ write' = [write EXCEPT ![c] = [key |-> w.key, val |-> w.val, pos |-> AppendPos]]
           /\ kv' = [kv EXCEPT ![w.key] = w.val]
    BY DEF DirectAppend
  <1>3. PICK rec, q : rec = [seq |-> 0, key |-> w.key, val |-> w.val] /\ q = AppendPos
    OBVIOUS
  <1>4. /\ w.key \in Keys /\ w.val \in Values \cup {Tombstone} /\ c \in Clients
        /\ rec \in Records /\ rec.val = w.val /\ (rec.val = Finished <=> rec.key = TxnFinKey)
    BY <1>3, Constants, Sizes DEF Writes, Records
  <1>5. TypeOK /\ FilesInv /\ OpenInv /\ IndexInv /\ MergeInv /\ HintsInv /\ SwapInv /\ WriteInv
        /\ InstanceType
    BY TypeIs DEF ApartInv
  <1>6. AppendLogRecord(rec, FALSE) /\ FALSE \in BOOLEAN
    BY <1>2, <1>3
  <1>7. UNCHANGED <<mpc, nonMergeFileId, toScan, mergeFile, mergeOff>>
    BY <1>1 DEF merge
  <1>8. /\ DirsType' /\ FilesInv' /\ dirOf' \in [FileIds -> Dirs \cup {NoDir}]
        /\ writeOff' \in Nat
        /\ LogGrows(q, rec) /\ q \in Positions
    BY <1>1, <1>3, <1>4, <1>5, <1>6, AppendTypes
  <1>9. OpenInv' /\ IndexInv'
    BY <1>1, <1>4, <1>5, <1>6, <1>7, AppendKeepsOpen
  <1>10. MergeInv'
    BY <1>1, <1>4, <1>5, <1>6, AppendKeepsMerge
  <1>11. HintsInv' /\ SwapInv'
    BY <1>1, <1>4, <1>5, <1>6, AppendKeepsSwap
  <1>12. TypeOK'
    <2>1. pc' \in [Clients -> {"idle", "delete", "index", "finish", "apply"}]
      BY <1>1, <1>5 DEF InstanceType
    <2>2. kv' \in [Keys -> Values \cup {Tombstone}]
      BY <1>2, <1>4, <1>5 DEF InstanceType
    <2>3. [key |-> w.key, val |-> w.val, pos |-> q] \in
             [key : Keys \cup {TxnFinKey}, val : Values \cup {Tombstone, Finished},
              pos : Positions \cup {NoPos}]
      BY <1>3, <1>4, <1>8
    <2>4. write' \in [Clients -> [key : Keys \cup {TxnFinKey},
                                 val : Values \cup {Tombstone, Finished},
                                 pos : Positions \cup {NoPos}]]
      BY <1>2, <1>3, <1>5, <2>3 DEF InstanceType
    <2>5. InstanceType'
      BY <1>1, <1>5, <1>7, <1>8, <2>1, <2>2, <2>4 DEF InstanceType
    <2> QED BY <1>8, <2>5 DEF TypeOK, DirsType, InstanceType
  <1>13. WriteInv'
    <2>1. \A b \in Clients \ {c} : pc'[b] = pc[b] /\ write'[b] = write[b]
      BY <1>1, <1>2, <1>5 DEF InstanceType
    <2>2. write'[c] = [key |-> w.key, val |-> w.val, pos |-> q]
      BY <1>2, <1>3, <1>4, <1>5 DEF InstanceType
    <2>3. q \in LogOf(dirOf, 0)' /\ RecAt(q)' = rec
      BY <1>8 DEF LogGrows
    <2>4. WriteAt(write'[c], q, rec.val)
      BY <1>4, <2>2 DEF WriteAt
    <2> QED BY <1>4, <1>5, <1>8, <2>1, <2>3, <2>4, WritesAfterAppend
  <1>14. ClosedInv'
    BY <1>1 DEF ClosedInv
  <1> QED BY <1>8, <1>9, <1>10, <1>11, <1>12, <1>13, <1>14 DEF ApartInv

\* What a step leaves alone that touches the clients and the index only.
LEMMA SameFilesKept ==
    ASSUME FilesInv, OpenInv, MergeInv, HintsInv, SwapInv, ClosedInv, phase = "open",
           UNCHANGED <<exists, present, data, hint, fin, phase, dirPath, dirOf,
                       writeOff, merge>>
    PROVE  /\ FilesInv' /\ OpenInv' /\ MergeInv' /\ HintsInv' /\ SwapInv' /\ ClosedInv'
           /\ LogOf(dirOf, 0)' = LogOf(dirOf, 0) /\ \A p : RecAt(p)' = RecAt(p)
           /\ ActiveFile' = ActiveFile /\ OpenFiles' = OpenFiles
  <1>1. UNCHANGED <<mpc, nonMergeFileId, toScan, mergeFile, mergeOff>>
    BY DEF merge
  <1>2. LogOf(dirOf, 0)' = LogOf(dirOf, 0) /\ \A p : RecAt(p)' = RecAt(p)
    BY DEF LogOf, RecAt, At
  <1>3. OpenFiles' = OpenFiles /\ ActiveFile' = ActiveFile
    BY DEF OpenFiles, ActiveFile
  <1>4. FilesInv' /\ OpenInv' /\ ClosedInv'
    BY <1>1, <1>3 DEF FilesInv, OpenInv, ClosedInv
  <1>5. /\ \A d, f : OnlyValues(d, f)' <=> OnlyValues(d, f)
        /\ \A d, n : HintBelow(d, n)' <=> HintBelow(d, n)
        /\ \A d, k : HintEntrySound(d, k)' <=> HintEntrySound(d, k)
    BY DEF OnlyValues, HintBelow, HintEntrySound
  <1>6. MergeAppendFile' = MergeAppendFile /\ MergeOff' = MergeOff
    BY <1>1 DEF MergeAppendFile, MergeRotates, MergeOff
  <1>7. MergeInv'
    BY <1>1, <1>2, <1>3, <1>5, <1>6 DEF MergeInv
  <1>8. HintsInv'
    BY <1>5 DEF HintsInv
  <1>9. SwapInv'
    BY <1>5 DEF SwapInv
  <1> QED BY <1>2, <1>3, <1>4, <1>7, <1>8, <1>9

LEMMA IndexUpdateKeeps ==
    ASSUME ApartInv, NEW c \in Clients, phase = "open", pc[c] \notin {"idle", "delete"},
           UpdateIndex(write[c], write[c].pos),
           pc' = [pc EXCEPT ![c] = "idle"], mu' \in BatchClients \cup {NoClient},
           UNCHANGED <<dirs, phase, options, dirOf, writeOff, seqNo, write, merge, history>>
    PROVE  ApartInv'
  <1>1. UNCHANGED <<exists, present, data, synced, hint, fin, phase, dirPath, syncWrites,
                    dirOf, writeOff, seqNo, write, mpc, nonMergeFileId, toScan, mergeFile,
                    mergeOff, kv, shared>>
    BY DEF dirs, options, merge, history
  <1>2. TypeOK /\ DirsType /\ InstanceType /\ WriteInv /\ IndexInv
    BY TypeIs DEF ApartInv
  <1>3. /\ FilesInv' /\ OpenInv' /\ MergeInv' /\ HintsInv' /\ SwapInv' /\ ClosedInv'
        /\ LogOf(dirOf, 0)' = LogOf(dirOf, 0) /\ \A p : RecAt(p)' = RecAt(p)
        /\ ActiveFile' = ActiveFile
    BY <1>1, SameFilesKept DEF ApartInv, merge
  <1>4. PICK p, w : w = write[c] /\ p = w.pos
    OBVIOUS
  <1>5. /\ w.key \in Keys /\ w.val \in Values \cup {Tombstone}
        /\ p \in LogOf(dirOf, 0) /\ RecAt(p).val = w.val
    BY <1>2, <1>4 DEF WriteInv
  <1>6. p \in Positions /\ p.fid \in OpenFiles /\ p.fid =< ActiveFile
    <2>1. p \in Positions /\ p.fid \in OpenFiles
      BY <1>5, Sizes DEF LogOf, OpenFiles
    <2> QED BY <1>2, <2>1, ActiveIs
  <1>7. index' = [index EXCEPT ![w.key] = IF w.val = Tombstone THEN NoPos ELSE p]
    BY <1>4 DEF UpdateIndex
  <1>8. TypeOK'
    <2>1. index' \in [Keys -> Positions \cup {NoPos}]
      BY <1>2, <1>5, <1>6, <1>7 DEF InstanceType
    <2>2. pc' \in [Clients -> {"idle", "delete", "index", "finish", "apply"}]
      BY <1>2 DEF InstanceType
    <2> QED BY <1>1, <1>2, <2>1, <2>2 DEF TypeOK
  <1>9. IndexInv'
    <2>1. ASSUME NEW k \in Keys, index'[k] # NoPos
          PROVE  /\ index'[k].fid =< ActiveFile
                 /\ index'[k].fid = ActiveFile => index'[k] \in LogOf(dirOf, 0)
                 /\ index'[k] \in LogOf(dirOf, 0) => RecAt(index[k])'.val \in Values
      <3>1. CASE k = w.key
        <4>1. index'[k] = p /\ w.val \in Values
          BY <1>2, <1>5, <1>7, <2>1, <3>1 DEF InstanceType
        <4>2. RecAt(p)'.val \in Values
          BY <1>3, <1>5, <4>1
        <4> QED BY <1>5, <1>6, <4>1, <4>2
      <3>2. CASE k # w.key
        <4>1. PICK q : q = index[k]
          OBVIOUS
        <4>2. index'[k] = q
          BY <1>2, <1>5, <1>7, <3>2, <4>1 DEF InstanceType
        <4>3. /\ q.fid =< ActiveFile /\ (q.fid = ActiveFile => q \in LogOf(dirOf, 0))
              /\ q \in LogOf(dirOf, 0) => RecAt(q).val \in Values
          BY <1>2, <2>1, <4>1, <4>2 DEF IndexInv
        <4>4. RecAt(q)' = RecAt(q)
          BY <1>3
        <4> QED BY <4>2, <4>3, <4>4
      <3> QED BY <3>1, <3>2
    <2> QED BY <1>3, <2>1 DEF IndexInv
  <1>10. WriteInv'
    <2>1. ASSUME NEW b \in Clients, pc'[b] \notin {"idle", "delete"}
          PROVE  /\ write'[b].key \in Keys /\ write'[b].val \in Values \cup {Tombstone}
                 /\ write'[b].pos \in LogOf(dirOf, 0)'
                 /\ RecAt(write[b].pos)'.val = write'[b].val
      <3>1. pc[b] \notin {"idle", "delete"}
        BY <1>2, <2>1 DEF InstanceType
      <3>2. PICK q : q = write[b].pos
        OBVIOUS
      <3>3. RecAt(q)' = RecAt(q)
        BY <1>3
      <3> QED BY <1>1, <1>2, <1>3, <3>1, <3>2, <3>3 DEF WriteInv
    <2> QED BY <2>1 DEF WriteInv
  <1> QED BY <1>3, <1>8, <1>9, <1>10 DEF ApartInv

LEMMA DirectLookKeeps ==
    ASSUME ApartInv, NEW c \in DirectClients, DirectLook(c)
    PROVE  ApartInv'
  <1>1. /\ phase = "open" /\ pc' = [pc EXCEPT ![c] = "delete"]
        /\ UNCHANGED <<exists, present, data, synced, hint, fin, phase, dirPath, syncWrites,
                       dirOf, writeOff, index, seqNo, mu, mpc, nonMergeFileId, toScan,
                       mergeFile, mergeOff, kv, shared>>
    BY DEF DirectLook, dirs, options, merge, history
  <1>2. PICK k \in Keys :
           write' = [write EXCEPT ![c] = [key |-> k, val |-> Tombstone, pos |-> NoPos]]
    BY DEF DirectLook
  <1>3. c \in Clients /\ TypeOK /\ DirsType /\ InstanceType /\ WriteInv /\ IndexInv
    BY Constants, TypeIs DEF ApartInv
  <1>4. /\ FilesInv' /\ OpenInv' /\ MergeInv' /\ HintsInv' /\ SwapInv' /\ ClosedInv'
        /\ LogOf(dirOf, 0)' = LogOf(dirOf, 0) /\ \A p : RecAt(p)' = RecAt(p)
        /\ ActiveFile' = ActiveFile
    BY <1>1, SameFilesKept DEF ApartInv, merge
  <1>5. TypeOK'
    <2>1. pc' \in [Clients -> {"idle", "delete", "index", "finish", "apply"}]
      BY <1>1, <1>3 DEF InstanceType
    <2>2. [key |-> k, val |-> Tombstone, pos |-> NoPos] \in
             [key : Keys \cup {TxnFinKey}, val : Values \cup {Tombstone, Finished},
              pos : Positions \cup {NoPos}]
      OBVIOUS
    <2>3. write' \in [Clients -> [key : Keys \cup {TxnFinKey},
                                 val : Values \cup {Tombstone, Finished},
                                 pos : Positions \cup {NoPos}]]
      BY <1>2, <1>3, <2>2 DEF InstanceType
    <2> QED BY <1>1, <1>3, <2>1, <2>3 DEF TypeOK, DirsType, InstanceType
  <1>6. IndexInv'
    BY <1>1, <1>3, <1>4 DEF IndexInv
  <1>7. WriteInv'
    <2>1. ASSUME NEW b \in Clients, pc'[b] \notin {"idle", "delete"}
          PROVE  /\ write'[b].key \in Keys /\ write'[b].val \in Values \cup {Tombstone}
                 /\ write'[b].pos \in LogOf(dirOf, 0)'
                 /\ RecAt(write[b].pos)'.val = write'[b].val
      <3>1. b # c /\ pc[b] \notin {"idle", "delete"} /\ write'[b] = write[b]
        BY <1>1, <1>2, <1>3, <2>1 DEF InstanceType
      <3>2. PICK q : q = write[b].pos
        OBVIOUS
      <3>3. RecAt(q)' = RecAt(q)
        BY <1>4
      <3> QED BY <1>3, <1>4, <3>1, <3>2, <3>3 DEF WriteInv
    <2> QED BY <2>1 DEF WriteInv
  <1> QED BY <1>4, <1>5, <1>6, <1>7 DEF ApartInv

LEMMA CommitAppendKeeps ==
    ASSUME ApartInv, NEW c \in BatchClients, CommitAppend(c)
    PROVE  ApartInv'
  <1>1. /\ phase = "open" /\ pc[c] = "idle" /\ seqNo < MaxSeqNo
        /\ UNCHANGED <<phase, dirPath, syncWrites, index, merge, kv, shared>>
        /\ pc' = [pc EXCEPT ![c] = "finish"] /\ mu' = c /\ seqNo' = seqNo + 1
    BY DEF CommitAppend, Calm, options, history
  <1>2. PICK w \in Writes :
           /\ AppendLogRecord([seq |-> seqNo + 1, key |-> w.key, val |-> w.val], FALSE)
           /\ write' = [write EXCEPT ![c] = [key |-> w.key, val |-> w.val, pos |-> AppendPos]]
    BY DEF CommitAppend
  <1>3. PICK rec, q : rec = [seq |-> seqNo + 1, key |-> w.key, val |-> w.val] /\ q = AppendPos
    OBVIOUS
  <1>5. TypeOK /\ FilesInv /\ OpenInv /\ IndexInv /\ MergeInv /\ HintsInv /\ SwapInv /\ WriteInv
        /\ InstanceType
    BY TypeIs DEF ApartInv
  <1>4. /\ w.key \in Keys /\ w.val \in Values \cup {Tombstone} /\ c \in Clients
        /\ seqNo + 1 \in 0 .. MaxSeqNo
        /\ rec \in Records /\ rec.val = w.val /\ (rec.val = Finished <=> rec.key = TxnFinKey)
    <2>1. seqNo + 1 \in 0 .. MaxSeqNo
      BY <1>1, <1>5, Sizes DEF InstanceType
    <2> QED BY <1>3, <2>1, Constants DEF Writes, Records
  <1>6. AppendLogRecord(rec, FALSE) /\ FALSE \in BOOLEAN
    BY <1>2, <1>3
  <1>7. UNCHANGED <<mpc, nonMergeFileId, toScan, mergeFile, mergeOff>>
    BY <1>1 DEF merge
  <1>8. /\ DirsType' /\ FilesInv' /\ dirOf' \in [FileIds -> Dirs \cup {NoDir}]
        /\ writeOff' \in Nat
        /\ LogGrows(q, rec) /\ q \in Positions
    BY <1>1, <1>3, <1>4, <1>5, <1>6, AppendTypes
  <1>9. OpenInv' /\ IndexInv'
    BY <1>1, <1>4, <1>5, <1>6, <1>7, AppendKeepsOpen
  <1>10. MergeInv'
    BY <1>1, <1>4, <1>5, <1>6, AppendKeepsMerge
  <1>11. HintsInv' /\ SwapInv'
    BY <1>1, <1>4, <1>5, <1>6, AppendKeepsSwap
  <1>12. TypeOK'
    <2>1. pc' \in [Clients -> {"idle", "delete", "index", "finish", "apply"}]
      BY <1>1, <1>5 DEF InstanceType
    <2>2. mu' \in BatchClients \cup {NoClient} /\ seqNo' \in 0 .. MaxSeqNo
      BY <1>1, <1>4
    <2>3. [key |-> w.key, val |-> w.val, pos |-> q] \in
             [key : Keys \cup {TxnFinKey}, val : Values \cup {Tombstone, Finished},
              pos : Positions \cup {NoPos}]
      BY <1>3, <1>4, <1>8
    <2>4. write' \in [Clients -> [key : Keys \cup {TxnFinKey},
                                 val : Values \cup {Tombstone, Finished},
                                 pos : Positions \cup {NoPos}]]
      BY <1>2, <1>3, <1>5, <2>3 DEF InstanceType
    <2>5. InstanceType'
      BY <1>1, <1>5, <1>7, <1>8, <2>1, <2>2, <2>4 DEF InstanceType
    <2> QED BY <1>8, <2>5 DEF TypeOK, DirsType, InstanceType
  <1>13. WriteInv'
    <2>1. \A b \in Clients \ {c} : pc'[b] = pc[b] /\ write'[b] = write[b]
      BY <1>1, <1>2, <1>5 DEF InstanceType
    <2>2. write'[c] = [key |-> w.key, val |-> w.val, pos |-> q]
      BY <1>2, <1>3, <1>4, <1>5 DEF InstanceType
    <2>3. q \in LogOf(dirOf, 0)' /\ RecAt(q)' = rec
      BY <1>8 DEF LogGrows
    <2>4. WriteAt(write'[c], q, rec.val)
      BY <1>4, <2>2 DEF WriteAt
    <2> QED BY <1>4, <1>5, <1>8, <2>1, <2>3, <2>4, WritesAfterAppend
  <1>14. ClosedInv'
    BY <1>1 DEF ClosedInv
  <1> QED BY <1>8, <1>9, <1>10, <1>11, <1>12, <1>13, <1>14 DEF ApartInv

LEMMA CommitFinishKeeps ==
    ASSUME ApartInv, NEW c \in BatchClients, CommitFinish(c)
    PROVE  ApartInv'
  <1>1. /\ phase = "open" /\ pc[c] = "finish"
        /\ UNCHANGED <<phase, dirPath, syncWrites, index, seqNo, mu, write, merge, shared>>
        /\ pc' = [pc EXCEPT ![c] = "apply"]
        /\ kv' = [kv EXCEPT ![write[c].key] = write[c].val]
    BY DEF CommitFinish, options
  <1>2. PICK rec, q, w : /\ rec = [seq |-> seqNo, key |-> TxnFinKey, val |-> Finished]
                         /\ q = AppendPos /\ w = write[c]
    OBVIOUS
  <1>3. TypeOK /\ FilesInv /\ OpenInv /\ IndexInv /\ MergeInv /\ HintsInv /\ SwapInv /\ WriteInv
        /\ InstanceType
    BY TypeIs DEF ApartInv
  <1>4. rec \in Records /\ (rec.val = Finished <=> rec.key = TxnFinKey)
    BY <1>2, <1>3 DEF Records, InstanceType
  <1>5. c \in Clients /\ w.key \in Keys /\ w.val \in Values \cup {Tombstone}
    BY <1>1, <1>2, <1>3, Constants DEF WriteInv
  <1>6. AppendLogRecord(rec, BatchSync) /\ BatchSync \in BOOLEAN
    BY <1>2, Constants DEF CommitFinish
  <1>7. UNCHANGED <<mpc, nonMergeFileId, toScan, mergeFile, mergeOff>>
    BY <1>1 DEF merge
  <1>8. /\ DirsType' /\ FilesInv' /\ dirOf' \in [FileIds -> Dirs \cup {NoDir}]
        /\ writeOff' \in Nat
        /\ LogGrows(q, rec)
    BY <1>1, <1>2, <1>3, <1>4, <1>6, AppendTypes
  <1>9. OpenInv' /\ IndexInv'
    BY <1>1, <1>3, <1>4, <1>6, <1>7, AppendKeepsOpen
  <1>10. MergeInv'
    BY <1>1, <1>3, <1>4, <1>6, AppendKeepsMerge
  <1>11. HintsInv' /\ SwapInv'
    BY <1>1, <1>3, <1>4, <1>6, AppendKeepsSwap
  <1>12. TypeOK'
    <2>1. pc' \in [Clients -> {"idle", "delete", "index", "finish", "apply"}]
      BY <1>1, <1>3 DEF InstanceType
    <2>2. kv' \in [Keys -> Values \cup {Tombstone}]
      BY <1>1, <1>2, <1>3, <1>5 DEF InstanceType
    <2>3. InstanceType'
      BY <1>1, <1>3, <1>7, <1>8, <2>1, <2>2 DEF InstanceType
    <2> QED BY <1>8, <2>3 DEF TypeOK, DirsType, InstanceType
  <1>13. WriteInv'
    <2>1. \A b \in Clients \ {c} : pc'[b] = pc[b] /\ write'[b] = write[b]
      BY <1>1, <1>3 DEF InstanceType
    <2>2. PICK p : p = w.pos
      OBVIOUS
    <2>3. p \in LogOf(dirOf, 0) /\ RecAt(p).val = w.val
      BY <1>1, <1>2, <1>3, <1>5, <2>2 DEF WriteInv
    <2>4. p \in LogOf(dirOf, 0)' /\ RecAt(p)' = RecAt(p)
      BY <1>8, <2>3 DEF LogGrows
    <2>5. WriteAt(write'[c], p, RecAt(p).val)
      BY <1>1, <1>2, <1>5, <2>2, <2>3 DEF WriteAt
    <2> QED BY <1>3, <1>5, <1>8, <2>1, <2>4, <2>5, WritesAfterAppend
  <1>14. ClosedInv'
    BY <1>1 DEF ClosedInv
  <1> QED BY <1>8, <1>9, <1>10, <1>11, <1>12, <1>13, <1>14 DEF ApartInv

LEMMA SyncKeeps ==
    ASSUME ApartInv, Sync
    PROVE  ApartInv'
  <1>1. /\ phase = "open" /\ ActiveFile # NoFile /\ synced' = SyncedActive
        /\ UNCHANGED <<exists, present, data, hint, fin, phase, dirPath, syncWrites,
                       dirOf, writeOff, index, seqNo, mu, pc, write, mpc,
                       nonMergeFileId, toScan, mergeFile, mergeOff, kv, shared>>
    BY DEF Sync, options, calls, merge, history
  <1>2. TypeOK /\ DirsType /\ InstanceType /\ FilesInv
    BY TypeIs DEF ApartInv
  <1>3. /\ FilesInv' /\ OpenInv' /\ MergeInv' /\ HintsInv' /\ SwapInv' /\ ClosedInv'
        /\ LogOf(dirOf, 0)' = LogOf(dirOf, 0) /\ \A p : RecAt(p)' = RecAt(p)
        /\ ActiveFile' = ActiveFile
    BY <1>1, SameFilesKept DEF ApartInv, merge
  <1>4. ActiveFile \in FileIds /\ dirOf[ActiveFile] \in Dirs
    BY <1>1, <1>2, ActiveIs DEF OpenFiles, InstanceType
  <1>5. Len(data[dirOf[ActiveFile]][ActiveFile]) \in Nat
    BY <1>2, <1>4 DEF DirsType
  <1>6. TypeOK'
    BY <1>1, <1>2, <1>4, <1>5 DEF SyncedActive, TypeOK
  <1>7. IndexInv'
    BY <1>1, <1>3 DEF ApartInv, IndexInv, LogOf, RecAt, At
  <1>8. WriteInv'
    BY <1>1, <1>3 DEF ApartInv, WriteInv, LogOf, RecAt, At
  <1> QED BY <1>3, <1>6, <1>7, <1>8 DEF ApartInv

-----------------------------------------------------------------------------
\* Merge

\* The running instance reads what it read.
LEMMA SameLog ==
    ASSUME UNCHANGED dirOf, \A f \in OpenFiles : data'[dirOf[f]][f] = data[dirOf[f]][f]
    PROVE  LogOf(dirOf, 0)' = LogOf(dirOf, 0) /\ \A q \in LogOf(dirOf, 0) : RecAt(q)' = RecAt(q)
  <1>1. \A q \in Positions : q.fid \in FileIds
    BY Sizes
  <1>2. ASSUME NEW q \in Positions, dirOf[q.fid] # NoDir
        PROVE  data'[dirOf[q.fid]][q.fid] = data[dirOf[q.fid]][q.fid]
    BY <1>1, <1>2 DEF OpenFiles
  <1>3. ASSUME NEW q \in Positions
        PROVE  q \in LogOf(dirOf, 0)' <=> q \in LogOf(dirOf, 0)
    BY <1>2 DEF LogOf
  <1>4. ASSUME NEW q \in LogOf(dirOf, 0)
        PROVE  RecAt(q)' = RecAt(q)
    BY <1>2 DEF LogOf, RecAt, At
  <1>5. LogOf(dirOf, 0)' = LogOf(dirOf, 0)
    BY <1>3 DEF LogOf
  <1> QED BY <1>4, <1>5

LEMMA ReadingsSame ==
    ASSUME IndexInv, WriteInv, UNCHANGED <<phase, index, write, pc>>,
           LogOf(dirOf, 0)' = LogOf(dirOf, 0), \A q \in LogOf(dirOf, 0) : RecAt(q)' = RecAt(q),
           ActiveFile =< ActiveFile', ActiveFile' \in Int, ActiveFile \in Int,
           \A k \in Keys : index[k] # NoPos => index[k].fid \in Int
    PROVE  IndexInv' /\ WriteInv'
  <1>1. ASSUME phase = "open", NEW k \in Keys, index[k] # NoPos
        PROVE  /\ index[k].fid =< ActiveFile'
               /\ index[k].fid = ActiveFile' => index[k] \in LogOf(dirOf, 0)'
               /\ index[k] \in LogOf(dirOf, 0)' => RecAt(index[k])'.val \in Values
    <2>1. PICK p : p = index[k]
      OBVIOUS
    <2>2. /\ p.fid =< ActiveFile /\ (p.fid = ActiveFile => p \in LogOf(dirOf, 0))
          /\ p \in LogOf(dirOf, 0) => RecAt(p).val \in Values
      BY <1>1, <2>1 DEF IndexInv
    <2>3. p \in LogOf(dirOf, 0) => RecAt(p)' = RecAt(p)
      OBVIOUS
    <2>4. p.fid \in Int
      BY <1>1, <2>1
    <2>5. p.fid =< ActiveFile' /\ (p.fid = ActiveFile' => p.fid = ActiveFile)
      BY <2>2, <2>4
    <2> QED BY <2>1, <2>2, <2>3, <2>5
  <1>2. ASSUME NEW c \in Clients, pc[c] \notin {"idle", "delete"}
        PROVE  RecAt(write[c].pos)'.val = write[c].val
    <2>1. PICK p : p = write[c].pos
      OBVIOUS
    <2>2. p \in LogOf(dirOf, 0) /\ RecAt(p).val = write[c].val
      BY <1>2, <2>1 DEF WriteInv
    <2>3. RecAt(p)' = RecAt(p)
      BY <2>2
    <2> QED BY <2>1, <2>2, <2>3
  <1> QED BY <1>1, <1>2 DEF IndexInv, WriteInv

LEMMA MergeStartKeeps ==
    ASSUME ApartInv, MergeStart
    PROVE  ApartInv'
  <1>1. /\ phase = "open" /\ mpc = "none" /\ ActiveFile # NoFile
        /\ NextFile =< MaxFileId /\ dirPath < MaxDir
        /\ synced' = SyncedActive
        /\ present' = [present EXCEPT ![dirPath] = @ \cup {NextFile}]
        /\ dirOf' = [dirOf EXCEPT ![NextFile] = dirPath] /\ writeOff' = 0
        /\ nonMergeFileId' = NextFile /\ toScan' = LogOf(dirOf, 0) /\ mpc' = "prepare"
        /\ UNCHANGED <<exists, data, hint, fin, phase, dirPath, syncWrites, index,
                       seqNo, mu, pc, write, mergeFile, mergeOff, kv, shared>>
    BY DEF MergeStart, options, calls, history
  <1>2. TypeOK /\ DirsType /\ InstanceType /\ FilesInv /\ OpenInv /\ IndexInv /\ WriteInv
        /\ HintsInv /\ SwapInv
    BY TypeIs DEF ApartInv
  <1>3. PICK n, m : n = NextFile /\ m = dirPath
    OBVIOUS
  <1>4. /\ n = ActiveFile + 1 /\ n \in FileIds /\ ActiveFile < n /\ m \in Dirs /\ m < MaxDir
        /\ ActiveFile \in FileIds /\ OpenFiles \subseteq FileIds
        /\ dirOf[ActiveFile] \in Dirs
        /\ n \notin OpenFiles /\ n \notin present[m] /\ \A g \in OpenFiles : g =< ActiveFile
    <2>1. /\ n = ActiveFile + 1 /\ n \in FileIds /\ ActiveFile < n /\ m \in Dirs
          /\ ActiveFile \in FileIds /\ OpenFiles \subseteq FileIds /\ ActiveFile \in OpenFiles
          /\ \A g \in OpenFiles : g =< ActiveFile
      BY <1>1, <1>2, <1>3, ActiveIs, Sizes DEF NextFile, InstanceType
    <2>2. n \notin OpenFiles /\ n \notin present[m]
      BY <1>1, <1>2, <1>3, <2>1, Sizes DEF OpenInv
    <2> QED BY <1>1, <1>2, <1>3, <2>1, <2>2 DEF OpenFiles, InstanceType
  <1>5. data[m][n] = <<>>
    BY <1>2, <1>4 DEF FilesInv
  <1>6. /\ dirOf' \in [FileIds -> Dirs \cup {NoDir}] /\ dirOf'[n] = m
        /\ \A g \in FileIds : g # n => dirOf'[g] = dirOf[g]
        /\ OpenFiles' = OpenFiles \cup {n}
    <2>1. /\ dirOf' \in [FileIds -> Dirs \cup {NoDir}] /\ dirOf'[n] = m
          /\ \A g \in FileIds : g # n => dirOf'[g] = dirOf[g]
      BY <1>1, <1>2, <1>3, <1>4 DEF InstanceType
    <2> QED BY <1>4, <2>1, Sizes DEF OpenFiles
  <1>7. /\ present' \in [Dirs -> SUBSET FileIds] /\ n \in present'[m]
        /\ \A e \in Dirs : present[e] \subseteq present'[e]
        /\ \A e \in Dirs : \A g : g \in present'[e] => g \in present[e] \/ (g = n /\ e = m)
    BY <1>1, <1>2, <1>3, <1>4 DEF DirsType
  <1>8. ActiveFile' = n
    <2>1. \A g \in OpenFiles' : g =< n
      <3>1. \A g \in OpenFiles : g =< n
        BY <1>4, Sizes
      <3> QED BY <1>4, <1>6, <3>1, Sizes
    <2>2. PICK S : S = OpenFiles'
      OBVIOUS
    <2>3. n \in S /\ S \subseteq FileIds /\ \A g \in S : g =< n
      BY <1>4, <1>6, <2>1, <2>2
    <2>4. (CHOOSE x \in S : \A g \in S : g =< x) = n
      BY <2>3, LargestFile, Sizes
    <2> QED BY <2>2, <2>3, <2>4 DEF ActiveFile
  <1>9. /\ LogOf(dirOf, 0)' = LogOf(dirOf, 0)
        /\ \A q \in LogOf(dirOf, 0) : RecAt(q)' = RecAt(q) /\ q.fid \in OpenFiles
    <2>1. ASSUME NEW q \in Positions
          PROVE  /\ q \in LogOf(dirOf, 0)' <=> q \in LogOf(dirOf, 0)
                 /\ q \in LogOf(dirOf, 0) => RecAt(q)' = RecAt(q) /\ q.fid \in OpenFiles
      <3>1. q.fid \in FileIds /\ q.off \in Nat
        BY Sizes
      <3>2. CASE q.fid = n
        <4>1. Len(data[m][n]) = 0
          BY <1>5
        <4>2. dirOf[n] = NoDir
          BY <1>4 DEF OpenFiles
        <4> QED BY <1>1, <1>6, <3>1, <3>2, <4>1, <4>2 DEF LogOf
      <3>3. CASE q.fid # n
        BY <1>1, <1>6, <3>1, <3>3 DEF LogOf, RecAt, At, OpenFiles
      <3> QED BY <3>2, <3>3
    <2>2. \A q : q \in LogOf(dirOf, 0) \/ q \in LogOf(dirOf, 0)' => q \in Positions
      BY DEF LogOf
    <2> QED BY <2>1, <2>2
  <1>10. TypeOK'
    <2>1. Len(data[dirOf[ActiveFile]][ActiveFile]) \in Nat
      BY <1>2, <1>4 DEF DirsType
    <2>2. synced' \in [Dirs -> [FileIds -> Nat]]
      BY <1>1, <1>2, <1>4, <2>1 DEF SyncedActive, DirsType
    <2>3. toScan' \subseteq Positions
      BY <1>1 DEF LogOf
    <2>4. DirsType'
      BY <1>1, <1>2, <1>7, <2>2 DEF DirsType
    <2>5. InstanceType'
      BY <1>1, <1>2, <1>3, <1>4, <1>6, <2>3 DEF InstanceType
    <2> QED BY <2>4, <2>5 DEF TypeOK, DirsType, InstanceType
  <1>11. FilesInv'
    <2>1. \A e \in Dirs, g \in FileIds : g \notin present'[e] => g \notin present[e]
      BY <1>7
    <2> QED BY <1>1, <1>2, <2>1 DEF FilesInv
  <1>12. OpenInv'
    <2>1. ASSUME NEW g \in OpenFiles'
          PROVE  g \in present'[dirOf'[g]] /\ dirOf'[g] =< dirPath'
      <3>1. CASE g = n
        BY <1>1, <1>3, <1>4, <1>6, <1>7, <3>1, Sizes
      <3>2. CASE g # n
        <4>1. g \in OpenFiles /\ dirOf'[g] = dirOf[g] /\ dirOf[g] \in Dirs
          BY <1>2, <1>4, <1>6, <3>2 DEF OpenFiles, InstanceType
        <4> QED BY <1>1, <1>2, <1>7, <4>1 DEF OpenInv
      <3> QED BY <3>1, <3>2
    <2>2. present'[0] \subseteq OpenFiles'
      BY <1>1, <1>2, <1>6, <1>7, Sizes DEF OpenInv
    <2>3. ASSUME NEW g \in present'[dirPath']
          PROVE  g =< n
      <3>1. g \in present[m] \/ g = n
        BY <1>1, <1>3, <1>4, <1>7
      <3>2. g \in present[m] => g =< ActiveFile /\ g \in FileIds
        BY <1>1, <1>2, <1>3, <1>4 DEF OpenInv, DirsType
      <3> QED BY <1>4, <3>1, <3>2, Sizes
    <2>4. writeOff' = Len(data'[dirOf'[n]][n])
      BY <1>1, <1>5, <1>6
    <2> QED BY <1>1, <1>8, <2>1, <2>2, <2>3, <2>4 DEF OpenInv
  <1>13. ClosedInv'
    BY <1>1 DEF ClosedInv
  <1>14. IndexInv' /\ WriteInv'
    <2>1. \A k \in Keys : index[k] # NoPos => index[k].fid \in Int
      BY <1>2, Sizes DEF InstanceType
    <2>2. ActiveFile =< ActiveFile' /\ ActiveFile' \in Int /\ ActiveFile \in Int
      BY <1>4, <1>8, Sizes
    <2> QED BY <1>1, <1>2, <1>9, <2>1, <2>2, ReadingsSame
  <1>15. HintBelow(0, n)
    <2> SUFFICES ASSUME hint[0] # NoHint, NEW k \in Keys, hint[0][k] # NoPos
                 PROVE  hint[0][k].fid < n
      BY DEF HintBelow
    <2>1. PICK f \in present[0] : HintBelow(0, f)
      BY <1>2 DEF SwapInv
    <2>2. f \in OpenFiles
      BY <1>1, <1>2, <2>1 DEF OpenInv
    <2>3. hint[0][k].fid < f /\ hint[0][k].fid \in FileIds
      BY <1>2, <2>1, Sizes DEF HintBelow, DirsType
    <2> QED BY <1>4, <2>2, <2>3, Sizes
  <1>16. MergeInv'
    <2>1. HintBelow(0, n)'
      BY <1>1, <1>15 DEF HintBelow
    <2>2. ASSUME NEW q \in LogOf(dirOf, 0)
          PROVE  q.fid < n
      <3>1. q.fid \in OpenFiles /\ q.fid \in FileIds
        BY <1>4, <1>9
      <3>2. q.fid =< ActiveFile /\ q.fid \in Nat /\ ActiveFile \in Nat /\ n \in Nat
        BY <1>4, <3>1, Sizes
      <3> QED BY <1>4, <3>2
    <2>3. toScan' \subseteq {q \in LogOf(dirOf, 0)' : q.fid < n}
      BY <1>1, <1>9, <2>2
    <2>4. /\ nonMergeFileId' = n /\ mpc' = "prepare" /\ dirPath' = m
          /\ HintBelow(0, nonMergeFileId)'
      BY <1>1, <1>3, <2>1 DEF HintBelow
    <2>5. n \in OpenFiles' /\ m < MaxDir /\ dirOf'[n] = m
      BY <1>4, <1>6
    <2> QED BY <2>3, <2>4, <2>5 DEF MergeInv
  <1>17. HintsInv'
    <2>1. \A d, k : HintEntrySound(d, k)' <=> HintEntrySound(d, k)
      BY <1>1 DEF HintEntrySound
    <2> QED BY <1>1, <1>2, <2>1 DEF HintsInv
  <1>18. SwapInv'
    <2>1. present[0] \subseteq present'[0]
      BY <1>7, Sizes
    <2> QED BY <1>1, <1>2, <2>1 DEF SwapInv, HintBelow, OnlyValues
  <1> QED BY <1>10, <1>11, <1>12, <1>13, <1>14, <1>16, <1>17, <1>18 DEF ApartInv

LEMMA MergePrepareKeeps ==
    ASSUME ApartInv, MergePrepare
    PROVE  ApartInv'
  <1>2. TypeOK /\ DirsType /\ InstanceType /\ FilesInv /\ OpenInv /\ IndexInv /\ WriteInv
        /\ HintsInv /\ SwapInv /\ MergeInv
    BY TypeIs DEF ApartInv
  <1>0. phase = "open"
    BY DEF ApartInv, ClosedInv, MergePrepare
  <1>3. PICK m, e : m = dirPath /\ e = dirPath + 1
    OBVIOUS
  <1>1. /\ mpc = "prepare" /\ mpc' = "open"
        /\ exists' = exists \cup {e} /\ dirPath' = e /\ syncWrites' = FALSE
        /\ hint' = [hint EXCEPT ![e] = NoHint] /\ fin' = [fin EXCEPT ![e] = NoFile]
        /\ present' = [present EXCEPT ![e] = {}]
        /\ data' = [data EXCEPT ![e] = [f \in FileIds |-> <<>>]]
        /\ synced' = [synced EXCEPT ![e] = [f \in FileIds |-> 0]]
        /\ UNCHANGED <<phase, dirOf, writeOff, index, seqNo, mu, pc, write,
                       nonMergeFileId, toScan, mergeFile, mergeOff, kv, shared>>
    BY <1>3 DEF MergePrepare, Emptied, calls, history
  <1>4. m \in Dirs /\ e \in Dirs /\ e = m + 1 /\ e > 0 /\ m # e /\ MaxDir > 0
    <2>1. m \in Dirs /\ m < MaxDir /\ e = m + 1
      BY <1>1, <1>2, <1>3 DEF InstanceType, MergeInv
    <2>2. m \in Nat /\ MaxDir \in Nat
      BY <2>1, Sizes
    <2> QED BY <2>1, <2>2, Sizes
  <1>5. /\ present'[e] = {} /\ hint'[e] = NoHint /\ fin'[e] = NoFile
        /\ \A f \in FileIds : data'[e][f] = <<>>
        /\ \A d \in Dirs : d # e => /\ present'[d] = present[d] /\ data'[d] = data[d]
                                    /\ hint'[d] = hint[d] /\ fin'[d] = fin[d]
    BY <1>1, <1>2, <1>4 DEF DirsType
  <1>6. DirsType'
    <2>1. [f \in FileIds |-> <<>>] \in [FileIds -> Seq(Records)]
      OBVIOUS
    <2>2. data' \in [Dirs -> [FileIds -> Seq(Records)]]
      BY <1>1, <1>2, <2>1 DEF DirsType
    <2>3. synced' \in [Dirs -> [FileIds -> Nat]]
      <3>1. [f \in FileIds |-> 0] \in [FileIds -> Nat]
        BY Sizes
      <3> QED BY <1>1, <1>2, <3>1 DEF DirsType
    <2>4. hint' \in [Dirs -> [Keys -> Positions \cup {NoPos}] \cup {NoHint}]
      BY <1>1, <1>2 DEF DirsType
    <2>5. present' \in [Dirs -> SUBSET FileIds] /\ fin' \in [Dirs -> FileIds \cup {NoFile, Empty}]
      BY <1>1, <1>2 DEF DirsType
    <2> QED BY <1>1, <1>2, <1>4, <2>2, <2>3, <2>4, <2>5 DEF DirsType
  <1>7. TypeOK'
    BY <1>1, <1>2, <1>4, <1>6 DEF TypeOK, DirsType, InstanceType
  <1>8. FilesInv'
    <2> SUFFICES ASSUME NEW d \in Dirs, NEW f \in FileIds
                 PROVE  /\ Len(data'[d][f]) =< DataFileSize
                        /\ f \notin present'[d] => data'[d][f] = <<>>
                        /\ \A i \in 1 .. Len(data'[d][f]) :
                              data'[d][f][i].val = Finished <=> data'[d][f][i].key = TxnFinKey
      BY DEF FilesInv
    <2>1. CASE d = e
      <3>1. data'[d][f] = <<>> /\ Len(data'[d][f]) = 0
        BY <1>5, <2>1
      <3> QED BY <3>1, Sizes
    <2>2. CASE d # e
      BY <1>2, <1>5, <2>2 DEF FilesInv
    <2> QED BY <2>1, <2>2
  <1>9. \A f \in OpenFiles : /\ f \in FileIds /\ dirOf[f] \in Dirs /\ dirOf[f] =< m
                             /\ dirOf[f] # e /\ f \in present[dirOf[f]]
    <2>1. \A f \in OpenFiles : f \in FileIds /\ dirOf[f] \in Dirs
      BY <1>2 DEF OpenFiles, InstanceType
    <2>2. \A f \in OpenFiles : dirOf[f] =< m /\ f \in present[dirOf[f]]
      BY <1>0, <1>2, <1>3 DEF OpenInv
    <2> QED BY <1>4, <2>1, <2>2, Sizes
  <1>10. /\ LogOf(dirOf, 0)' = LogOf(dirOf, 0)
         /\ \A q \in LogOf(dirOf, 0) : RecAt(q)' = RecAt(q)
         /\ OpenFiles' = OpenFiles /\ ActiveFile' = ActiveFile
    <2>1. \A f \in OpenFiles : data'[dirOf[f]][f] = data[dirOf[f]][f]
      BY <1>5, <1>9
    <2>2. OpenFiles' = OpenFiles /\ ActiveFile' = ActiveFile
      BY <1>1 DEF OpenFiles, ActiveFile
    <2> QED BY <1>1, <2>1, <2>2, SameLog
  <1>11. OpenInv'
    <2>1. \A f \in OpenFiles : f \in present'[dirOf[f]] /\ dirOf[f] =< e
      BY <1>4, <1>5, <1>9, Sizes
    <2>2. present'[0] = present[0]
      BY <1>4, <1>5, Sizes
    <2>3. ActiveFile # NoFile => writeOff' = Len(data'[dirOf'[ActiveFile]][ActiveFile])
      <3>1. ActiveFile # NoFile => ActiveFile \in OpenFiles
        BY <1>2, ActiveIs
      <3> QED BY <1>0, <1>1, <1>2, <1>5, <1>9, <3>1 DEF OpenInv
    <2> QED BY <1>0, <1>1, <1>2, <1>5, <1>10, <2>1, <2>2, <2>3 DEF OpenInv
  <1>12. ClosedInv'
    BY <1>0, <1>1 DEF ClosedInv
  <1>13. IndexInv' /\ WriteInv'
    <2>1. \A k \in Keys : index[k] # NoPos => index[k].fid \in Int
      BY <1>2, Sizes DEF InstanceType
    <2>2. ActiveFile =< ActiveFile' /\ ActiveFile' \in Int /\ ActiveFile \in Int
      BY <1>2, <1>10, ActiveIs, Sizes
    <2> QED BY <1>1, <1>2, <1>10, <2>1, <2>2, ReadingsSame
  <1>14. MergeInv'
    <2>1. HintBelow(0, nonMergeFileId)'
      BY <1>1, <1>2, <1>4, <1>5, Sizes DEF MergeInv, HintBelow
    <2>2. dirOf[nonMergeFileId] = e - 1 /\ nonMergeFileId \in OpenFiles'
          /\ toScan \subseteq {p \in LogOf(dirOf, 0)' : p.fid < nonMergeFileId}
      BY <1>1, <1>2, <1>3, <1>4, <1>10, Sizes DEF MergeInv
    <2>3. fin'[e] \notin FileIds
      BY <1>5, Sizes
    <2>4. \A f \in OpenFiles' : dirOf'[f] # e
      BY <1>1, <1>9, <1>10
    <2> QED BY <1>1, <1>4, <1>5, <2>1, <2>2, <2>3, <2>4 DEF MergeInv
  <1>15. HintsInv'
    <2>1. ASSUME NEW d \in exists' \ {0}, hint'[d] # NoHint, NEW k \in Keys
          PROVE  HintEntrySound(d, k)'
      <3>1. d # e /\ d \in exists \ {0} /\ d \in Dirs
        BY <1>1, <1>2, <1>5, <2>1 DEF DirsType
      <3>2. hint'[d] = hint[d] /\ data'[d] = data[d]
        BY <1>5, <3>1
      <3>3. HintEntrySound(d, k)
        BY <1>0, <1>2, <2>1, <3>1, <3>2 DEF HintsInv
      <3> QED BY <3>2, <3>3 DEF HintEntrySound
    <2> QED BY <2>1 DEF HintsInv
  <1>16. SwapInv'
    <2>1. present'[0] = present[0] /\ data'[0] = data[0] /\ hint'[0] = hint[0] /\ 0 \in Dirs
      BY <1>4, <1>5, Sizes
    <2>2. fin'[1] \in FileIds =>
             fin'[1] = fin[1] /\ hint'[1] = hint[1] /\ data'[1] = data[1]
      BY <1>4, <1>5, Sizes
    <2>3. MaxDir > 0 /\ fin'[1] \in FileIds =>
             /\ fin'[1] \in present'[0] /\ HintBelow(0, fin[1])' /\ HintBelow(1, fin[1])'
             /\ \A f \in FileIds : f < fin'[1] => OnlyValues(1, f)'
      BY <1>2, <2>1, <2>2 DEF SwapInv, HintBelow, OnlyValues
    <2>4. hint'[0] # NoHint =>
             /\ \E f \in present'[0] : HintBelow(0, f)'
             /\ \A k \in Keys :
                   hint'[0][k] # NoPos /\ hint'[0][k].off < Len(data'[0][hint'[0][k].fid]) =>
                       data'[0][hint'[0][k].fid][hint'[0][k].off + 1].val \in Values
      BY <1>2, <2>1 DEF SwapInv, HintBelow
    <2> QED BY <1>0, <1>1, <2>3, <2>4 DEF SwapInv
  <1> QED BY <1>7, <1>8, <1>11, <1>12, <1>13, <1>14, <1>15, <1>16 DEF ApartInv

\* mergeDB finds the directory empty.
LEMMA MergeOpenKeeps ==
    ASSUME ApartInv, MergeOpen, ~shared'
    PROVE  ApartInv'
  <1>2. TypeOK /\ DirsType /\ InstanceType /\ FilesInv /\ OpenInv /\ IndexInv /\ WriteInv
        /\ HintsInv /\ SwapInv /\ MergeInv
    BY TypeIs DEF ApartInv
  <1>0. phase = "open"
    BY DEF ApartInv, ClosedInv, MergeOpen
  <1>3. PICK m : m = dirPath
    OBVIOUS
  <1>1. /\ mpc = "open" /\ mpc' = "scan"
        /\ mergeFile' \in present[m] \cup {NoFile} /\ present[m] = {}
        /\ mergeOff' = IF mergeFile' = NoFile THEN 0 ELSE Len(data[m][mergeFile'])
        /\ hint' = [hint EXCEPT ![m] = NoHintEntries] /\ shared' \in BOOLEAN
        /\ UNCHANGED <<exists, present, data, synced, fin, phase, dirPath, syncWrites,
                       dirOf, writeOff, index, seqNo, mu, pc, write, nonMergeFileId,
                       toScan, kv>>
    BY <1>3 DEF MergeOpen, options, calls
  <1>4. m \in Dirs /\ m > 0 /\ mergeFile' = NoFile /\ mergeOff' = 0
    BY <1>1, <1>2, <1>3 DEF InstanceType, MergeInv
  <1>5. /\ \A k \in Keys : hint'[m][k] = NoPos
        /\ \A d \in Dirs : d # m => hint'[d] = hint[d]
        /\ hint' \in [Dirs -> [Keys -> Positions \cup {NoPos}] \cup {NoHint}]
    <2>1. NoHintEntries \in [Keys -> Positions \cup {NoPos}]
      BY DEF NoHintEntries
    <2>2. \A k \in Keys : NoHintEntries[k] = NoPos
      BY DEF NoHintEntries
    <2>3. hint'[m] = NoHintEntries /\ \A d \in Dirs : d # m => hint'[d] = hint[d]
      BY <1>1, <1>2, <1>4 DEF DirsType
    <2>4. hint' \in [Dirs -> [Keys -> Positions \cup {NoPos}] \cup {NoHint}]
      BY <1>1, <1>2, <2>1 DEF DirsType
    <2> QED BY <2>2, <2>3, <2>4
  <1>6. hint'[m] \in [Keys -> Positions \cup {NoPos}]
    BY <1>1, <1>2, <1>4 DEF DirsType, NoHintEntries
  <1>7. TypeOK'
    BY SMTT(20), <1>1, <1>2, <1>4, <1>5, Sizes DEF TypeOK
  <1>8. FilesInv'
    BY <1>1, <1>2 DEF FilesInv
  <1>10. /\ LogOf(dirOf, 0)' = LogOf(dirOf, 0)
         /\ \A q : RecAt(q)' = RecAt(q)
         /\ OpenFiles' = OpenFiles /\ ActiveFile' = ActiveFile
    BY <1>1 DEF LogOf, RecAt, At, OpenFiles, ActiveFile
  <1>11. OpenInv' /\ ClosedInv'
    BY <1>0, <1>1, <1>2, <1>10 DEF OpenInv, ClosedInv
  <1>13. IndexInv' /\ WriteInv'
    <2>1. \A k \in Keys : index[k] # NoPos => index[k].fid \in Int
      BY <1>2, Sizes DEF InstanceType
    <2>2. ActiveFile =< ActiveFile' /\ ActiveFile' \in Int /\ ActiveFile \in Int
      BY <1>2, <1>10, ActiveIs, Sizes
    <2> QED BY <1>1, <1>2, <1>10, <2>1, <2>2, ReadingsSame
  <1>14. MergeInv'
    <2>1. HintBelow(0, nonMergeFileId)'
      BY <1>1, <1>2, <1>4, <1>5, Sizes DEF MergeInv, HintBelow
    <2>2. PICK n : n = nonMergeFileId
      OBVIOUS
    <2>3. /\ n \in OpenFiles /\ n \in FileIds /\ dirOf[n] = m - 1 /\ fin[m] \notin FileIds
          /\ toScan \subseteq {p \in LogOf(dirOf, 0) : p.fid < n}
      BY <1>1, <1>2, <1>3, <2>2 DEF MergeInv, OpenFiles
    <2>4. hint'[m] # NoHint
      BY <1>4, <1>5, <1>6, Constants
    <2>5. HintBelow(m, mergeFile + 1)'
      BY <1>1, <1>3, <1>5 DEF HintBelow
    <2>6. \A f \in FileIds : data[m][f] = <<>> /\ Len(data[m][f]) = 0
      BY <1>1, <1>2, <1>4 DEF FilesInv
    <2>7. \A f \in FileIds : OnlyValues(m, f)'
      BY <1>1, <2>6 DEF OnlyValues
    <2>8. \A f \in OpenFiles : dirOf[f] # m
      BY <1>0, <1>1, <1>2, <1>4 DEF OpenInv
    <2>9. ASSUME NEW p \in toScan
          PROVE  \/ MergeAppendFile' < p.fid
                 \/ MergeAppendFile' = p.fid /\ MergeOff' =< p.off
      <3>1. MergeAppendFile' = 0
        BY <1>4 DEF MergeAppendFile
      <3>2. MergeOff' = 0
        BY <1>4 DEF MergeOff
      <3>3. p.fid \in Nat /\ p.off \in Nat
        BY <1>2, Sizes DEF InstanceType
      <3> QED BY <3>1, <3>2, <3>3
    <2>10. mergeFile' < n
      BY <1>4, <2>3, Sizes
    <2> QED BY <1>1, <1>3, <1>4, <1>10, <2>1, <2>2, <2>3, <2>4, <2>5, <2>7, <2>8, <2>9, <2>10
            DEF MergeInv
  <1>15. HintsInv'
    <2>1. ASSUME NEW d \in exists' \ {0}, hint'[d] # NoHint, NEW k \in Keys
          PROVE  HintEntrySound(d, k)'
      <3>1. d \in exists \ {0} /\ d \in Dirs
        BY <1>1, <1>2, <2>1 DEF DirsType
      <3>2. CASE d = m
        BY <1>5, <3>2 DEF HintEntrySound
      <3>3. CASE d # m
        <4>1. hint'[d] = hint[d]
          BY <1>5, <3>1, <3>3
        <4>2. HintEntrySound(d, k)
          BY <1>0, <1>2, <2>1, <3>1, <4>1 DEF HintsInv
        <4> QED BY <1>1, <4>1, <4>2 DEF HintEntrySound
      <3> QED BY <3>2, <3>3
    <2> QED BY <2>1 DEF HintsInv
  <1>16. SwapInv'
    <2>1. hint'[0] = hint[0]
      BY <1>4, <1>5, Sizes
    <2>2. MaxDir > 0 => hint'[1] = hint[1] \/ \A k \in Keys : hint'[1][k] = NoPos
      BY <1>5, Sizes
    <2>3. MaxDir > 0 /\ fin[1] \in FileIds => HintBelow(0, fin[1])' /\ HintBelow(1, fin[1])'
      BY <1>1, <1>2, <2>1, <2>2 DEF SwapInv, HintBelow
    <2>4. hint'[0] # NoHint => \E f \in present[0] : HintBelow(0, f)'
      BY <1>2, <2>1 DEF SwapInv, HintBelow
    <2> QED BY <1>0, <1>1, <1>2, <2>1, <2>3, <2>4 DEF SwapInv, OnlyValues
  <1> QED BY <1>7, <1>8, <1>11, <1>13, <1>14, <1>15, <1>16 DEF ApartInv

\* One record behind the first is further on than any place up to the first.
LEMMA NextPlace ==
    ASSUME NEW S, S \subseteq Positions, S # {}, NEW p \in S \ {First(S)},
           NEW g \in FileIds, NEW o \in Nat, p.off < DataFileSize,
           g < First(S).fid \/ (g = First(S).fid /\ o =< First(S).off)
    PROVE  /\ g < p.fid \/ (g = p.fid /\ o + 1 =< p.off)
           /\ o + 1 = DataFileSize => g + 1 < p.fid \/ (g + 1 = p.fid /\ 0 =< p.off)
  <1>1. PICK q : q = First(S)
    OBVIOUS
  <1>2. q \in S /\ Before(q, p)
    BY <1>1, FirstIs
  <1>3. /\ q.fid \in Nat /\ q.off \in Nat /\ p.fid \in Nat /\ p.off \in Nat
        /\ g \in Nat /\ DataFileSize \in Nat
    BY <1>2, Sizes
  <1>4. q.fid < p.fid \/ (q.fid = p.fid /\ q.off < p.off)
    BY <1>2 DEF Before
  <1> QED BY <1>1, <1>3, <1>4

\* Where mergeDB appends.
LEMMA MergePlace ==
    ASSUME TypeOK, FilesInv, MergeInv, mpc = "scan", MergeAppendFile =< MaxFileId
    PROVE  /\ MergeAppendFile \in FileIds /\ mergeFile =< MergeAppendFile
           /\ MergeOff = Len(data[dirPath][MergeAppendFile])
           /\ MergeOff \in Nat /\ MergeOff < DataFileSize
           /\ MergeAppendFile # mergeFile => MergeAppendFile = mergeFile + 1 /\ MergeOff = 0
           /\ dirPath \in Dirs /\ nonMergeFileId \in FileIds
           /\ mergeFile \in FileIds \cup {NoFile}
  <1>1. DirsType /\ InstanceType
    BY TypeIs
  <1>2. PICK m, n, g : m = dirPath /\ n = nonMergeFileId /\ g = MergeAppendFile
    OBVIOUS
  <1>3. m \in Dirs /\ n \in FileIds /\ mergeFile \in FileIds \cup {NoFile} /\ mergeFile < n
        /\ \A f \in present[m] : f =< mergeFile \/ f > n
    BY <1>1, <1>2 DEF InstanceType, MergeInv, OpenFiles
  <1>4. g \in FileIds /\ mergeFile =< g /\ g =< n
    BY <1>2, <1>3, Sizes DEF MergeAppendFile
  <1>5. CASE g = mergeFile
    <2>1. mergeFile # NoFile /\ ~MergeRotates
      BY <1>2, <1>3, <1>4, <1>5, Sizes DEF MergeAppendFile
    <2>2. Len(data[m][g]) \in Nat /\ mergeOff = Len(data[m][g]) /\ ~(mergeOff >= DataFileSize)
          /\ MergeOff = mergeOff
      BY <1>1, <1>2, <1>3, <1>4, <1>5, <2>1 DEF MergeInv, DirsType, MergeRotates, MergeOff
    <2> QED BY <1>2, <1>3, <1>4, <1>5, <2>1, <2>2, Sizes
  <1>6. CASE g # mergeFile
    <2>1. g = mergeFile + 1 /\ MergeOff = 0
      BY <1>2, <1>6 DEF MergeAppendFile, MergeOff
    <2>2. g \notin present[m]
      BY <1>3, <1>4, <2>1, Sizes
    <2>3. Len(data[m][g]) = 0
      BY <1>3, <1>4, <2>2 DEF FilesInv
    <2> QED BY <1>2, <1>3, <1>4, <2>1, <2>3, Sizes
  <1> QED BY <1>5, <1>6

LEMMA RewriteKeeps ==
    ASSUME ApartInv, MergeRecord, IsLive(First(toScan)), Rewrite(First(toScan))
    PROVE  ApartInv'
  <1>2. TypeOK /\ DirsType /\ InstanceType /\ FilesInv /\ OpenInv /\ IndexInv /\ WriteInv
        /\ HintsInv /\ SwapInv /\ MergeInv
    BY TypeIs DEF ApartInv
  <1>0. phase = "open" /\ mpc = "scan" /\ toScan # {}
    BY DEF ApartInv, ClosedInv, MergeRecord
  <1>3. PICK p, m, n, g, o : /\ p = First(toScan) /\ m = dirPath /\ n = nonMergeFileId
                             /\ g = MergeAppendFile /\ o = MergeOff
    OBVIOUS
  <1>4. PICK r, rec : r = RecAt(p) /\ rec = [r EXCEPT !.seq = 0]
    OBVIOUS
  <1>1. /\ data' = [data EXCEPT ![m][g] = Append(@, rec)]
        /\ present' = [present EXCEPT ![m] = @ \cup {g}]
        /\ synced' = IF MergeRotates
                     THEN [synced EXCEPT ![m][mergeFile] = Len(data[m][mergeFile])] ELSE synced
        /\ hint' = [hint EXCEPT ![m][r.key] = [fid |-> g, off |-> o]]
        /\ mergeFile' = g /\ mergeOff' = o + 1 /\ g =< MaxFileId
        /\ toScan' = toScan \ {p}
        /\ UNCHANGED <<exists, fin, phase, dirPath, syncWrites, dirOf, writeOff, index,
                       seqNo, mu, pc, write, mpc, nonMergeFileId, kv, shared>>
    BY <1>3, <1>4 DEF MergeRecord, Rewrite, options, calls, history
  <1>5. p \in toScan /\ p \in Positions /\ p \in LogOf(dirOf, 0) /\ p.fid < n /\ p.fid \in FileIds
        /\ toScan \subseteq Positions
    <2>1. toScan \subseteq Positions /\ toScan \subseteq {q \in LogOf(dirOf, 0) : q.fid < n}
      BY <1>0, <1>2, <1>3 DEF InstanceType, MergeInv
    <2>2. p \in toScan
      BY <1>0, <1>3, <2>1, FirstIs
    <2> QED BY <2>1, <2>2, Sizes
  <1>6. r.key \in Keys /\ index[r.key] = p /\ r.val \in Values /\ r \in Records
    <2>1. r.key \in Keys /\ index[r.key] = p
      BY <1>3, <1>4 DEF IsLive
    <2>2. p # NoPos
      BY <1>5, Sizes
    <2>3. r.val \in Values
      BY <1>0, <1>2, <1>4, <1>5, <2>1, <2>2 DEF IndexInv
    <2>4. r \in Records
      <3>1. /\ dirOf[p.fid] \in Dirs /\ p.fid \in FileIds /\ p.off \in Nat
            /\ p.off < Len(data[dirOf[p.fid]][p.fid])
        BY <1>2, <1>5, Sizes DEF LogOf, InstanceType
      <3>2. data[dirOf[p.fid]][p.fid] \in Seq(Records)
        BY <1>2, <3>1 DEF DirsType
      <3>3. p.off + 1 \in 1 .. Len(data[dirOf[p.fid]][p.fid])
        BY <3>1, <3>2
      <3> QED BY <1>4, <3>2, <3>3 DEF RecAt, At
    <2> QED BY <2>1, <2>3, <2>4
  <1>7. rec \in Records /\ rec.seq = 0 /\ rec.key = r.key /\ rec.val = r.val
        /\ (rec.val = Finished <=> rec.key = TxnFinKey)
    BY <1>4, <1>6, Constants, Sizes DEF Records
  <1>8. /\ g \in FileIds /\ mergeFile =< g /\ o = Len(data[m][g]) /\ o \in Nat /\ o < DataFileSize
        /\ g # mergeFile => g = mergeFile + 1 /\ o = 0
        /\ m \in Dirs /\ n \in FileIds /\ mergeFile \in FileIds \cup {NoFile}
    BY <1>0, <1>1, <1>2, <1>3, MergePlace
  <1>9. /\ n \in OpenFiles /\ n =< ActiveFile /\ ActiveFile \in FileIds
        /\ m > 0 /\ mergeFile < n /\ fin[m] \notin FileIds
        /\ g < p.fid \/ (g = p.fid /\ o =< p.off)
        /\ \A f \in OpenFiles : dirOf[f] = m => f > n
        /\ \A f \in present[m] : f =< mergeFile \/ f > n
        /\ hint[m] # NoHint
    <2>1. n \in OpenFiles
      BY <1>0, <1>2, <1>3 DEF MergeInv
    <2> QED BY <1>0, <1>2, <1>3, <1>5, <2>1, ActiveIs DEF MergeInv
  <1>10. g =< p.fid /\ g < n /\ g < ActiveFile
    BY <1>5, <1>8, <1>9, Sizes
  <1>11. /\ data' \in [Dirs -> [FileIds -> Seq(Records)]]
         /\ Len(data'[m][g]) = o + 1 /\ data'[m][g][o + 1] = rec
         /\ \A i \in 1 .. o : data'[m][g][i] = data[m][g][i]
         /\ \A e \in Dirs, f \in FileIds : e # m \/ f # g => data'[e][f] = data[e][f]
         /\ DataKept
    <2>1. Appended(m, g, rec)
      BY <1>1 DEF Appended
    <2> QED BY <1>2, <1>7, <1>8, <2>1, AppendedIs
  <1>12. /\ present' \in [Dirs -> SUBSET FileIds] /\ present'[m] = present[m] \cup {g}
         /\ \A e \in Dirs : e # m => present'[e] = present[e]
    BY <1>1, <1>2, <1>8 DEF DirsType
  <1>13. /\ hint' \in [Dirs -> [Keys -> Positions \cup {NoPos}] \cup {NoHint}]
         /\ hint'[m][r.key] = [fid |-> g, off |-> o]
         /\ \A k \in Keys : k # r.key => hint'[m][k] = hint[m][k]
         /\ \A e \in Dirs : e # m => hint'[e] = hint[e]
         /\ hint'[m] # NoHint
         /\ [fid |-> g, off |-> o] \in Positions
    <2>1. hint[m] \in [Keys -> Positions \cup {NoPos}]
      BY <1>2, <1>8, <1>9 DEF DirsType
    <2>2. PICK x : x = [fid |-> g, off |-> o]
      OBVIOUS
    <2>3. x \in Positions
      BY <1>8, <2>2, Sizes DEF Positions
    <2>4. PICK y : y = [hint[m] EXCEPT ![r.key] = x]
      OBVIOUS
    <2>5. y \in [Keys -> Positions \cup {NoPos}] /\ y[r.key] = x
          /\ \A k \in Keys : k # r.key => y[k] = hint[m][k]
      BY <1>6, <2>1, <2>3, <2>4
    <2>6. hint' = [hint EXCEPT ![m] = y]
      BY <1>1, <2>2, <2>4
    <2>7. hint'[m] = y /\ \A e \in Dirs : e # m => hint'[e] = hint[e]
      BY <1>2, <1>8, <2>6 DEF DirsType
    <2>8. hint' \in [Dirs -> [Keys -> Positions \cup {NoPos}] \cup {NoHint}]
      BY <1>2, <2>5, <2>6 DEF DirsType
    <2> QED BY <2>2, <2>3, <2>5, <2>7, <2>8, Constants
  <1>14. TypeOK'
    <2>1. synced' \in [Dirs -> [FileIds -> Nat]]
      <3>1. MergeRotates => mergeFile \in FileIds /\ Len(data[m][mergeFile]) \in Nat
        BY <1>2, <1>8 DEF MergeRotates, DirsType
      <3> QED BY <1>1, <1>2, <1>8, <3>1 DEF DirsType
    <2>2. DirsType'
      BY <1>1, <1>2, <1>11, <1>12, <1>13, <2>1 DEF DirsType
    <2>3. InstanceType'
      BY <1>1, <1>2, <1>8 DEF InstanceType
    <2> QED BY <2>2, <2>3 DEF TypeOK, DirsType, InstanceType
  <1>15. FilesInv'
    <2> SUFFICES ASSUME NEW e \in Dirs, NEW f \in FileIds
                 PROVE  /\ Len(data'[e][f]) =< DataFileSize
                        /\ f \notin present'[e] => data'[e][f] = <<>>
                        /\ \A i \in 1 .. Len(data'[e][f]) :
                              data'[e][f][i].val = Finished <=> data'[e][f][i].key = TxnFinKey
      BY DEF FilesInv
    <2>1. CASE e = m /\ f = g
      <3>1. Len(data'[e][f]) =< DataFileSize /\ f \in present'[e]
        BY <1>8, <1>11, <1>12, <2>1, Sizes
      <3>2. ASSUME NEW i \in 1 .. Len(data'[e][f])
            PROVE  data'[e][f][i].val = Finished <=> data'[e][f][i].key = TxnFinKey
        <4>1. i \in 1 .. o \/ i = o + 1
          BY <1>8, <1>11, <2>1
        <4>2. i = o + 1 => data'[e][f][i] = rec
          BY <1>11, <2>1
        <4>3. i \in 1 .. o => data'[e][f][i] = data[e][f][i] /\ i \in 1 .. Len(data[e][f])
          BY <1>8, <1>11, <2>1
        <4> QED BY <1>2, <1>7, <4>1, <4>2, <4>3 DEF FilesInv
      <3> QED BY <3>1, <3>2
    <2>2. CASE e # m \/ f # g
      <3>1. data'[e][f] = data[e][f]
        BY <1>11, <2>2
      <3>2. f \notin present'[e] => f \notin present[e]
        BY <1>12
      <3> QED BY <1>2, <3>1, <3>2 DEF FilesInv
    <2> QED BY <2>1, <2>2
  <1>16. /\ LogOf(dirOf, 0)' = LogOf(dirOf, 0)
         /\ \A q \in LogOf(dirOf, 0) : RecAt(q)' = RecAt(q)
         /\ OpenFiles' = OpenFiles /\ ActiveFile' = ActiveFile
    <2>1. ASSUME NEW f \in OpenFiles
          PROVE  data'[dirOf[f]][f] = data[dirOf[f]][f]
      <3>1. f \in FileIds /\ dirOf[f] \in Dirs
        BY <1>2 DEF OpenFiles, InstanceType
      <3>2. dirOf[f] # m \/ f # g
        BY <1>8, <1>9, <1>10, <3>1, Sizes
      <3> QED BY <1>11, <3>1, <3>2
    <2>2. OpenFiles' = OpenFiles /\ ActiveFile' = ActiveFile
      BY <1>1 DEF OpenFiles, ActiveFile
    <2> QED BY <1>1, <2>1, <2>2, SameLog
  <1>17. OpenInv'
    <2>1. \A f \in OpenFiles : f \in present'[dirOf[f]] /\ dirOf[f] =< m
      <3>1. \A f \in OpenFiles : f \in present[dirOf[f]] /\ dirOf[f] =< m /\ dirOf[f] \in Dirs
        BY <1>0, <1>2, <1>3 DEF OpenInv, OpenFiles, InstanceType
      <3> QED BY <1>12, <3>1
    <2>2. present'[0] = present[0]
      BY <1>9, <1>12, Sizes
    <2>3. \A f \in present'[m] : f =< ActiveFile
      BY <1>0, <1>2, <1>3, <1>8, <1>9, <1>10, <1>12, Sizes DEF OpenInv
    <2>4. writeOff' = Len(data'[dirOf'[ActiveFile]][ActiveFile])
      <3>1. ActiveFile \in OpenFiles /\ ActiveFile \in FileIds /\ dirOf[ActiveFile] \in Dirs
        BY <1>2, <1>9, ActiveIs, Sizes DEF OpenFiles, InstanceType
      <3>2. ActiveFile # g
        BY <1>8, <1>9, <1>10, Sizes
      <3>3. data'[dirOf[ActiveFile]][ActiveFile] = data[dirOf[ActiveFile]][ActiveFile]
        BY <1>11, <3>1, <3>2
      <3>4. ActiveFile # NoFile
        BY <3>1, Sizes
      <3> QED BY <1>0, <1>1, <1>2, <3>3, <3>4 DEF OpenInv
    <2> QED BY <1>0, <1>1, <1>2, <1>3, <1>16, <2>1, <2>2, <2>3, <2>4 DEF OpenInv
  <1>18. ClosedInv'
    BY <1>0, <1>1 DEF ClosedInv
  <1>19. IndexInv' /\ WriteInv'
    <2>1. \A k \in Keys : index[k] # NoPos => index[k].fid \in Int
      BY <1>2, Sizes DEF InstanceType
    <2>2. ActiveFile =< ActiveFile' /\ ActiveFile' \in Int /\ ActiveFile \in Int
      BY <1>2, <1>16, ActiveIs, Sizes
    <2> QED BY <1>1, <1>2, <1>16, <2>1, <2>2, ReadingsSame
  <1>20. /\ \A f \in FileIds : f < n => OnlyValues(m, f)'
         /\ HintBelow(m, g + 1)' /\ HintBelow(0, n)'
    <2>1. ASSUME NEW f \in FileIds, f < n
          PROVE  OnlyValues(m, f)'
      <3>1. OnlyValues(m, f)
        BY <1>0, <1>2, <1>3, <2>1 DEF MergeInv
      <3>2. CASE f = g
        <4>1. ASSUME NEW i \in 1 .. Len(data'[m][f])
              PROVE  data'[m][f][i].val \in Values
          <5>1. i \in 1 .. o \/ i = o + 1
            BY <1>8, <1>11, <3>2
          <5> QED BY <1>6, <1>7, <1>8, <1>11, <3>1, <3>2, <5>1 DEF OnlyValues
        <4> QED BY <4>1 DEF OnlyValues
      <3>3. CASE f # g
        BY <1>8, <1>11, <3>1, <3>3 DEF OnlyValues
      <3> QED BY <3>2, <3>3
    <2>2. HintBelow(m, g + 1)'
      <3>1. ASSUME NEW k \in Keys, hint'[m][k] # NoPos
            PROVE  hint'[m][k].fid < g + 1
        <4>1. CASE k = r.key
          BY <1>8, <1>13, <4>1, Sizes
        <4>2. CASE k # r.key
          <5>1. hint[m][k] \in Positions /\ hint[m][k].fid < mergeFile + 1
            BY <1>0, <1>2, <1>3, <1>8, <1>9, <1>13, <3>1, <4>2 DEF MergeInv, HintBelow, DirsType
          <5>2. hint[m][k].fid \in Nat /\ g \in Int /\ mergeFile \in Int
            BY SMTT(20), <1>8, <5>1, Sizes
          <5> QED BY <1>8, <1>13, <4>2, <5>1, <5>2
        <4> QED BY <4>1, <4>2
      <3> QED BY <3>1 DEF HintBelow
    <2>3. hint'[0] = hint[0]
      BY <1>9, <1>13, Sizes
    <2>4. HintBelow(0, n)'
      BY <1>0, <1>2, <1>3, <2>3 DEF MergeInv, HintBelow
    <2> QED BY <2>1, <2>2, <2>4
  <1>21. ASSUME NEW q \in toScan'
         PROVE  \/ MergeAppendFile' < q.fid
                \/ MergeAppendFile' = q.fid /\ MergeOff' =< q.off
    <2>1. q \in toScan /\ q # First(toScan)
      BY <1>1, <1>3, <1>21
    <2>0. q.off < DataFileSize
      <3>1. q \in LogOf(dirOf, 0)
        BY <1>0, <1>2, <2>1 DEF MergeInv
      <3>2. /\ q.fid \in FileIds /\ dirOf[q.fid] \in Dirs /\ q.off \in Nat
            /\ q.off < Len(data[dirOf[q.fid]][q.fid])
        BY <1>2, <3>1, Sizes DEF LogOf, InstanceType
      <3>3. Len(data[dirOf[q.fid]][q.fid]) \in Nat
            /\ Len(data[dirOf[q.fid]][q.fid]) =< DataFileSize
        BY <1>2, <3>2 DEF FilesInv, DirsType
      <3> QED BY <3>2, <3>3, Sizes
    <2>2. /\ g < q.fid \/ (g = q.fid /\ o + 1 =< q.off)
          /\ o + 1 = DataFileSize => g + 1 < q.fid \/ (g + 1 = q.fid /\ 0 =< q.off)
      BY SMTT(20), <1>3, <1>5, <1>8, <1>9, <2>0, <2>1, NextPlace
    <2>3. MergeRotates' <=> o + 1 = DataFileSize
      BY SMTT(20), <1>1, <1>8, Sizes DEF MergeRotates
    <2>4. CASE o + 1 = DataFileSize
      BY <1>1, <2>2, <2>3, <2>4 DEF MergeAppendFile, MergeOff
    <2>5. CASE o + 1 # DataFileSize
      <3>1. MergeAppendFile' = g /\ MergeOff' = o + 1
        BY <1>1, <1>8, <2>3, <2>5, Sizes DEF MergeAppendFile, MergeOff
      <3> QED BY <2>2, <3>1
    <2> QED BY <2>4, <2>5
  <1>22. MergeInv'
    <2>1. toScan' \subseteq {q \in LogOf(dirOf, 0)' : q.fid < n}
      BY <1>0, <1>1, <1>2, <1>3, <1>16 DEF MergeInv
    <2>2. ASSUME NEW f \in present'[m]
          PROVE  f =< g \/ f > n
      <3>1. f \in FileIds /\ (f \in present[m] \/ f = g)
        BY <1>2, <1>8, <1>12 DEF DirsType
      <3>2. f = g \/ f =< mergeFile \/ f > n
        BY <1>9, <3>1
      <3>3. f \in Nat /\ g \in Nat /\ mergeFile \in Int /\ mergeFile =< g
        BY <1>8, <3>1, Sizes
      <3> QED BY <3>2, <3>3
    <2>3. dirOf[n] = m - 1
      BY <1>0, <1>2, <1>3 DEF MergeInv
    <2>4. mergeOff' = Len(data'[m][mergeFile'])
      BY <1>1, <1>11
    <2> QED BY <1>0, <1>1, <1>3, <1>9, <1>10, <1>13, <1>16, <1>20, <1>21, <2>1, <2>2, <2>3,
               <2>4 DEF MergeInv
  <1>23. HintsInv'
    <2>1. ASSUME NEW d \in exists' \ {0}, hint'[d] # NoHint, NEW k \in Keys
          PROVE  HintEntrySound(d, k)'
      <3>1. d \in exists \ {0} /\ d \in Dirs
        BY <1>1, <1>2, <2>1 DEF DirsType
      <3>2. CASE d = m /\ k = r.key
        <4>1. /\ o < Len(data'[m][g]) /\ data'[m][g][o + 1].seq = 0
              /\ data'[m][g][o + 1].key = k /\ data'[m][g][o + 1].val \in Values
          BY <1>6, <1>7, <1>8, <1>11, <3>2
        <4>2. PICK x : x = hint'[m][k]
          OBVIOUS
        <4>3. x.fid = g /\ x.off = o
          BY <1>13, <3>2, <4>2
        <4> QED BY <3>2, <4>1, <4>2, <4>3 DEF HintEntrySound
      <3>3. CASE ~(d = m /\ k = r.key)
        <4>1. hint'[d][k] = hint[d][k] /\ hint[d] # NoHint
          BY <1>9, <1>13, <2>1, <3>1, <3>3
        <4>2. HintEntrySound(d, k)
          BY <1>0, <1>2, <3>1, <4>1 DEF HintsInv
        <4> SUFFICES ASSUME hint[d][k] # NoPos
                     PROVE  HintEntrySound(d, k)'
          BY <4>1 DEF HintEntrySound
        <4>3. PICK x : x = hint[d][k]
          OBVIOUS
        <4>4. x \in Positions /\ x.fid \in FileIds /\ x.off \in Nat
          BY <1>2, <3>1, <4>1, <4>3, Sizes DEF DirsType
        <4>5. /\ x.off < Len(data[d][x.fid]) /\ data[d][x.fid][x.off + 1].seq = 0
              /\ data[d][x.fid][x.off + 1].key = k /\ data[d][x.fid][x.off + 1].val \in Values
          BY <4>2, <4>3 DEF HintEntrySound
        <4>6. Len(data[d][x.fid]) \in Nat /\ Len(data'[d][x.fid]) \in Nat
          <5>1. data[d][x.fid] \in Seq(Records)
            BY <1>2, <3>1, <4>4 DEF DirsType
          <5>2. data'[d][x.fid] \in Seq(Records)
            BY <1>11, <3>1, <4>4
          <5> QED BY <5>1, <5>2
        <4>7. x.off + 1 \in 1 .. Len(data[d][x.fid])
          BY <4>4, <4>5, <4>6
        <4>8. data'[d][x.fid][x.off + 1] = data[d][x.fid][x.off + 1]
              /\ Len(data[d][x.fid]) =< Len(data'[d][x.fid])
          BY <1>11, <3>1, <4>4, <4>7 DEF DataKept
        <4>9. x.off < Len(data'[d][x.fid])
          BY <4>4, <4>5, <4>6, <4>8
        <4>10. /\ hint'[d][k] = x /\ data'[d][x.fid][x.off + 1].seq = 0
               /\ data'[d][x.fid][x.off + 1].key = k
               /\ data'[d][x.fid][x.off + 1].val \in Values
          BY <4>1, <4>3, <4>5, <4>8
        <4> QED BY <4>9, <4>10 DEF HintEntrySound
      <3> QED BY <3>2, <3>3
    <2> QED BY <2>1 DEF HintsInv
  <1>24. SwapInv'
    <2>0. 0 \in Dirs /\ 0 # m
      BY <1>8, <1>9, Sizes
    <2>1. present'[0] = present[0] /\ hint'[0] = hint[0]
          /\ \A f \in FileIds : data'[0][f] = data[0][f]
      <3>1. present'[0] = present[0]
        BY <1>12, <2>0
      <3>2. hint'[0] = hint[0]
        BY <1>13, <2>0
      <3>3. \A f \in FileIds : data'[0][f] = data[0][f]
        BY <1>11, <2>0
      <3> QED BY <3>1, <3>2, <3>3
    <2>2. MaxDir > 0 /\ fin[1] \in FileIds =>
             hint'[1] = hint[1] /\ \A f \in FileIds : data'[1][f] = data[1][f]
      <3> SUFFICES ASSUME MaxDir > 0, fin[1] \in FileIds
                   PROVE  hint'[1] = hint[1] /\ \A f \in FileIds : data'[1][f] = data[1][f]
        OBVIOUS
      <3>1. 1 \in Dirs /\ 1 # m
        BY <1>9, Sizes
      <3>2. hint'[1] = hint[1]
        BY <1>13, <3>1
      <3>3. \A f \in FileIds : data'[1][f] = data[1][f]
        BY <1>11, <3>1
      <3> QED BY <3>2, <3>3
    <2>3. MaxDir > 0 /\ fin[1] \in FileIds =>
             /\ HintBelow(0, fin[1])' /\ HintBelow(1, fin[1])'
             /\ \A f \in FileIds : f < fin[1] => OnlyValues(1, f)'
      <3> SUFFICES ASSUME MaxDir > 0, fin[1] \in FileIds
                   PROVE  /\ HintBelow(0, fin[1])' /\ HintBelow(1, fin[1])'
                          /\ \A f \in FileIds : f < fin[1] => OnlyValues(1, f)'
        OBVIOUS
      <3>1. HintBelow(0, fin[1])'
        BY <1>1, <1>2, <2>1 DEF SwapInv, HintBelow
      <3>2. HintBelow(1, fin[1])'
        BY <1>1, <1>2, <2>2 DEF SwapInv, HintBelow
      <3>3. ASSUME NEW f \in FileIds, f < fin[1]
            PROVE  OnlyValues(1, f)'
        <4>1. OnlyValues(1, f)
          BY <1>2, <3>3 DEF SwapInv
        <4>2. data'[1][f] = data[1][f]
          BY <2>2
        <4> QED BY <4>1, <4>2 DEF OnlyValues
      <3> QED BY <3>1, <3>2, <3>3
    <2>4. hint[0] # NoHint =>
             /\ \E f \in present[0] : HintBelow(0, f)'
             /\ \A k \in Keys :
                   hint[0][k] # NoPos /\ hint[0][k].off < Len(data'[0][hint[0][k].fid]) =>
                       data'[0][hint[0][k].fid][hint[0][k].off + 1].val \in Values
      <3>1. hint[0] # NoHint => \A k \in Keys : hint[0][k] # NoPos => hint[0][k].fid \in FileIds
        BY <1>2, Sizes DEF DirsType
      <3> QED BY <1>2, <2>1, <3>1 DEF SwapInv, HintBelow
    <2> QED BY <1>0, <1>1, <1>2, <2>1, <2>3, <2>4 DEF SwapInv
  <1> QED BY <1>14, <1>15, <1>17, <1>18, <1>19, <1>22, <1>23, <1>24 DEF ApartInv

\* A step of the goroutine that writes no data.
LEMMA SameDataKept ==
    ASSUME FilesInv, OpenInv, IndexInv, WriteInv, HintsInv, phase = "open",
           UNCHANGED <<exists, present, data, hint, phase, dirPath, dirOf, writeOff,
                       index, pc, write>>
    PROVE  /\ FilesInv' /\ OpenInv' /\ ClosedInv' /\ IndexInv' /\ WriteInv' /\ HintsInv'
           /\ LogOf(dirOf, 0)' = LogOf(dirOf, 0) /\ OpenFiles' = OpenFiles
           /\ \A d, f : OnlyValues(d, f)' <=> OnlyValues(d, f)
           /\ \A d, n : HintBelow(d, n)' <=> HintBelow(d, n)
  <1>1. LogOf(dirOf, 0)' = LogOf(dirOf, 0) /\ \A p : RecAt(p)' = RecAt(p)
    BY DEF LogOf, RecAt, At
  <1>2. OpenFiles' = OpenFiles /\ ActiveFile' = ActiveFile
    BY DEF OpenFiles, ActiveFile
  <1>3. FilesInv' /\ OpenInv' /\ ClosedInv'
    BY <1>2 DEF FilesInv, OpenInv, ClosedInv
  <1>4. \A p : (p \in LogOf(dirOf, 0))' <=> p \in LogOf(dirOf, 0)
    BY <1>1
  <1>5. IndexInv'
    BY <1>1, <1>2 DEF IndexInv, LogOf, RecAt, At
  <1>6. WriteInv'
    BY <1>1 DEF WriteInv, LogOf, RecAt, At
  <1>7. \A d, k : HintEntrySound(d, k)' <=> HintEntrySound(d, k)
    BY DEF HintEntrySound
  <1>8. HintsInv'
    BY <1>7 DEF HintsInv
  <1>9. /\ \A d, f : OnlyValues(d, f)' <=> OnlyValues(d, f)
        /\ \A d, n : HintBelow(d, n)' <=> HintBelow(d, n)
    BY DEF OnlyValues, HintBelow
  <1> QED BY <1>1, <1>2, <1>3, <1>5, <1>6, <1>8, <1>9

\* A record that is not live is left out.
LEMMA SkipKeeps ==
    ASSUME ApartInv, MergeRecord, UNCHANGED <<dirs, mergeFile, mergeOff>>
    PROVE  ApartInv'
  <1>0. phase = "open" /\ mpc = "scan"
    BY DEF ApartInv, ClosedInv, MergeRecord
  <1>1. /\ toScan' \subseteq toScan
        /\ UNCHANGED <<exists, present, data, synced, hint, fin, phase, dirPath,
                       syncWrites, dirOf, writeOff, index, seqNo, mu, pc, write, mpc,
                       nonMergeFileId, mergeFile, mergeOff, kv, shared>>
    BY DEF MergeRecord, dirs, options, calls, history
  <1>2. TypeOK /\ InstanceType
    BY TypeIs DEF ApartInv
  <1>3. /\ FilesInv' /\ OpenInv' /\ ClosedInv' /\ IndexInv' /\ WriteInv' /\ HintsInv'
        /\ LogOf(dirOf, 0)' = LogOf(dirOf, 0) /\ OpenFiles' = OpenFiles
        /\ \A d, f : OnlyValues(d, f)' <=> OnlyValues(d, f)
        /\ \A d, n : HintBelow(d, n)' <=> HintBelow(d, n)
    BY <1>0, <1>1, SameDataKept DEF ApartInv
  <1>4. TypeOK'
    BY <1>1, <1>2 DEF TypeOK
  <1>5. MergeAppendFile' = MergeAppendFile /\ MergeOff' = MergeOff
    BY <1>1 DEF MergeAppendFile, MergeRotates, MergeOff
  <1>6. MergeInv'
    BY <1>0, <1>1, <1>3, <1>5 DEF ApartInv, MergeInv
  <1>7. SwapInv'
    BY <1>1, <1>3 DEF ApartInv, SwapInv
  <1> QED BY <1>3, <1>4, <1>6, <1>7 DEF ApartInv

LEMMA MergeRecordKeeps ==
    ASSUME ApartInv, MergeRecord
    PROVE  ApartInv'
  <1>1. \/ IsLive(First(toScan)) /\ Rewrite(First(toScan))
        \/ UNCHANGED <<dirs, mergeFile, mergeOff>>
    BY DEF MergeRecord
  <1> QED BY <1>1, RewriteKeeps, SkipKeeps

LEMMA MergeSyncKeeps ==
    ASSUME ApartInv, MergeSync
    PROVE  ApartInv'
  <1>0. phase = "open" /\ mpc = "scan" /\ toScan = {} /\ mpc' = "finish"
    BY DEF ApartInv, ClosedInv, MergeSync
  <1>1. /\ fin' = [fin EXCEPT ![dirPath] = Empty]
        /\ UNCHANGED <<exists, present, data, hint, phase, dirPath, syncWrites, dirOf,
                       writeOff, index, seqNo, mu, pc, write, nonMergeFileId, toScan,
                       mergeFile, mergeOff, kv, shared>>
    BY DEF MergeSync, options, calls, history
  <1>2. TypeOK /\ DirsType /\ InstanceType /\ FilesInv
    BY TypeIs DEF ApartInv
  <1>3. /\ FilesInv' /\ OpenInv' /\ ClosedInv' /\ IndexInv' /\ WriteInv' /\ HintsInv'
        /\ LogOf(dirOf, 0)' = LogOf(dirOf, 0) /\ OpenFiles' = OpenFiles
        /\ \A d, f : OnlyValues(d, f)' <=> OnlyValues(d, f)
        /\ \A d, n : HintBelow(d, n)' <=> HintBelow(d, n)
    BY <1>0, <1>1, SameDataKept DEF ApartInv
  <1>4. PICK m : m = dirPath
    OBVIOUS
  <1>5. /\ m \in Dirs /\ fin'[m] = Empty /\ Empty \notin FileIds
        /\ \A d \in Dirs : d # m => fin'[d] = fin[d]
        /\ fin' \in [Dirs -> FileIds \cup {NoFile, Empty}]
    BY <1>1, <1>2, <1>4, Sizes DEF DirsType, InstanceType
  <1>6. TypeOK'
    <2>1. synced' \in [Dirs -> [FileIds -> Nat]]
      <3>1. ASSUME mergeFile # NoFile
            PROVE  mergeFile \in FileIds /\ Len(data[m][mergeFile]) \in Nat
        BY <1>2, <1>5, <3>1 DEF DirsType, InstanceType
      <3> QED BY <1>2, <1>4, <1>5, <3>1 DEF MergeSync, DirsType
    <2>2. DirsType'
      BY <1>1, <1>2, <1>5, <2>1 DEF DirsType
    <2>3. InstanceType'
      BY <1>0, <1>1, <1>2 DEF InstanceType
    <2> QED BY <2>2, <2>3 DEF TypeOK, DirsType, InstanceType
  <1>7. MergeInv'
    <2>1. fin'[dirPath'] \notin FileIds
      BY <1>1, <1>4, <1>5
    <2> QED BY <1>0, <1>1, <1>3, <2>1 DEF ApartInv, MergeInv
  <1>8. SwapInv'
    <2>1. MaxDir > 0 /\ fin'[1] \in FileIds => fin'[1] = fin[1]
      BY <1>5, Sizes
    <2> QED BY <1>0, <1>1, <1>3, <2>1 DEF ApartInv, SwapInv
  <1> QED BY <1>3, <1>6, <1>7, <1>8 DEF ApartInv

LEMMA MergeFinishKeeps ==
    ASSUME ApartInv, MergeFinish
    PROVE  ApartInv'
  <1>0. phase = "open" /\ mpc = "finish" /\ mpc' = "none"
    BY DEF ApartInv, ClosedInv, MergeFinish
  <1>1. /\ fin' = [fin EXCEPT ![dirPath] = nonMergeFileId]
        /\ UNCHANGED <<exists, present, data, synced, hint, phase, dirPath, syncWrites,
                       dirOf, writeOff, index, seqNo, mu, pc, write, nonMergeFileId,
                       toScan, mergeFile, mergeOff, kv, shared>>
    BY DEF MergeFinish, Boundary, options, calls, history
  <1>2. TypeOK /\ DirsType /\ InstanceType /\ FilesInv /\ OpenInv /\ MergeInv
    BY TypeIs DEF ApartInv
  <1>3. /\ FilesInv' /\ OpenInv' /\ ClosedInv' /\ IndexInv' /\ WriteInv' /\ HintsInv'
        /\ LogOf(dirOf, 0)' = LogOf(dirOf, 0) /\ OpenFiles' = OpenFiles
        /\ \A d, f : OnlyValues(d, f)' <=> OnlyValues(d, f)
        /\ \A d, b : HintBelow(d, b)' <=> HintBelow(d, b)
    BY <1>0, <1>1, SameDataKept DEF ApartInv
  <1>4. PICK m, n : m = dirPath /\ n = nonMergeFileId
    OBVIOUS
  <1>5. /\ m \in Dirs /\ m > 0 /\ n \in FileIds /\ n \in OpenFiles /\ dirOf[n] = m - 1
        /\ n \in present[dirOf[n]]
        /\ mergeFile < n /\ mergeFile \in FileIds \cup {NoFile}
        /\ HintBelow(0, n) /\ HintBelow(m, mergeFile + 1)
        /\ \A f \in FileIds : f < n => OnlyValues(m, f)
    BY <1>0, <1>2, <1>4 DEF MergeInv, OpenInv, InstanceType, OpenFiles
  <1>6. /\ fin'[m] = n /\ \A d \in Dirs : d # m => fin'[d] = fin[d]
        /\ fin' \in [Dirs -> FileIds \cup {NoFile, Empty}]
    BY <1>1, <1>2, <1>4, <1>5 DEF DirsType
  <1>7. TypeOK'
    BY <1>0, <1>1, <1>2, <1>6 DEF TypeOK
  <1>8. MergeInv'
    BY <1>0 DEF MergeInv
  <1>9. HintBelow(m, n)
    <2> SUFFICES ASSUME hint[m] # NoHint, NEW k \in Keys, hint[m][k] # NoPos
                 PROVE  hint[m][k].fid < n
      BY DEF HintBelow
    <2>1. hint[m][k].fid < mergeFile + 1
      BY <1>5 DEF HintBelow
    <2>2. hint[m][k].fid \in Nat /\ n \in Nat /\ mergeFile \in Int
      <3>1. hint[m][k] \in Positions
        BY <1>2, <1>5 DEF DirsType
      <3> QED BY <1>5, <3>1, Sizes
    <2> QED BY <1>5, <2>1, <2>2
  <1>10. SwapInv'
    <2>1. CASE m = 1
      <3>1. /\ fin'[1] \in present'[0] /\ HintBelow(0, fin[1])' /\ HintBelow(1, fin[1])'
            /\ \A f \in FileIds : f < fin'[1] => OnlyValues(1, f)'
        <4>1. n \in present[0] /\ fin'[1] = n
          BY <1>5, <1>6, <2>1
        <4>2. HintBelow(0, n) /\ HintBelow(1, n)
          BY <1>5, <1>9, <2>1
        <4>3. HintBelow(0, fin[1])' /\ HintBelow(1, fin[1])'
          BY <1>1, <4>1, <4>2 DEF HintBelow
        <4> QED BY <1>1, <1>3, <1>5, <2>1, <4>1, <4>3
      <3> QED BY <1>0, <1>1, <1>2, <1>3, <3>1 DEF ApartInv, SwapInv
    <2>2. CASE m # 1
      <3>1. MaxDir > 0 => fin'[1] = fin[1]
        BY <1>6, <2>2, Sizes
      <3> QED BY <1>0, <1>1, <1>3, <3>1 DEF ApartInv, SwapInv
    <2> QED BY <2>1, <2>2
  <1> QED BY <1>3, <1>7, <1>8, <1>10 DEF ApartInv

LEMMA MergeFailsKeeps ==
    ASSUME ApartInv, MergeFails
    PROVE  ApartInv'
  <1>0. phase = "open" /\ mpc' = "none" /\ toScan' = {}
    BY DEF ApartInv, ClosedInv, MergeFails
  <1>1. UNCHANGED <<exists, present, data, synced, hint, fin, phase, dirPath,
                    syncWrites, dirOf, writeOff, index, seqNo, mu, pc, write,
                    nonMergeFileId, mergeFile, mergeOff, kv, shared>>
    BY DEF MergeFails, dirs, options, calls, history
  <1>3. /\ FilesInv' /\ OpenInv' /\ ClosedInv' /\ IndexInv' /\ WriteInv' /\ HintsInv'
        /\ \A d, f : OnlyValues(d, f)' <=> OnlyValues(d, f)
        /\ \A d, b : HintBelow(d, b)' <=> HintBelow(d, b)
    BY <1>0, <1>1, SameDataKept DEF ApartInv
  <1>4. TypeOK'
    BY <1>0, <1>1 DEF ApartInv, TypeOK
  <1>5. MergeInv'
    BY <1>0 DEF MergeInv
  <1>6. SwapInv'
    BY <1>0, <1>1, <1>3 DEF ApartInv, SwapInv
  <1> QED BY <1>3, <1>4, <1>5, <1>6 DEF ApartInv

-----------------------------------------------------------------------------
\* The end of an instance, and Open

\* The instance when it is closed.
LEMMA ClosedIs ==
    ASSUME phase' # "open", TypeOK, dirPath' = 0, mpc' = "none",
           dirOf' = [f \in FileIds |-> NoDir], pc' = [c \in Clients |-> "idle"]
    PROVE  /\ OpenInv' /\ ClosedInv' /\ WriteInv' /\ IndexInv' /\ MergeInv'
           /\ \A f \in FileIds : dirOf'[f] = NoDir
  <1>1. OpenFiles' = {}
    BY DEF OpenFiles
  <1> QED BY <1>1 DEF OpenInv, ClosedInv, WriteInv, IndexInv, MergeInv

LEMMA StopKeeps ==
    ASSUME ApartInv, phase # "closed", Stop, UNCHANGED dirs
    PROVE  ApartInv'
  <1>1. /\ phase' = "closed" /\ dirPath' = 0 /\ syncWrites' = SyncWrites
        /\ dirOf' = [f \in FileIds |-> NoDir] /\ writeOff' = 0 /\ mergeOff' = 0
        /\ index' = [k \in Keys |-> NoPos]
        /\ seqNo' = 0 /\ mu' = NoClient /\ pc' = [c \in Clients |-> "idle"]
        /\ mpc' = "none" /\ nonMergeFileId' = NoFile /\ toScan' = {} /\ mergeFile' = NoFile
        /\ UNCHANGED <<exists, present, data, synced, hint, fin, write, kv, shared>>
    BY DEF Stop, dirs, history
  <1>2. TypeOK /\ DirsType /\ InstanceType
    BY TypeIs DEF ApartInv
  <1>3. OpenInv' /\ ClosedInv' /\ WriteInv' /\ IndexInv' /\ MergeInv'
    BY <1>1, <1>2, ClosedIs
  <1>4. TypeOK'
    <2>1. DirsType'
      BY <1>1, <1>2 DEF DirsType
    <2>2. InstanceType'
      BY <1>1, <1>2, Sizes, Constants DEF InstanceType
    <2> QED BY <2>1, <2>2 DEF TypeOK, DirsType, InstanceType
  <1>5. FilesInv'
    BY <1>1 DEF ApartInv, FilesInv
  <1>6. /\ \A d, f : OnlyValues(d, f)' <=> OnlyValues(d, f)
        /\ \A d, n : HintBelow(d, n)' <=> HintBelow(d, n)
        /\ \A d, k : HintEntrySound(d, k)' <=> HintEntrySound(d, k)
    BY <1>1 DEF OnlyValues, HintBelow, HintEntrySound
  <1>7. HintsInv'
    BY <1>1, <1>6 DEF ApartInv, HintsInv
  <1>8. SwapInv'
    BY <1>1, <1>6 DEF ApartInv, SwapInv
  <1> QED BY <1>3, <1>4, <1>5, <1>7, <1>8 DEF ApartInv

\* Nothing of an instance before Open is done.
LEMMA StillClosed ==
    ASSUME ClosedInv, phase # "open", phase' # "open",
           UNCHANGED <<dirPath, mpc, dirOf, writeOff, pc>>
    PROVE  OpenInv' /\ ClosedInv' /\ WriteInv' /\ IndexInv' /\ MergeInv'
  <1>1. OpenFiles' = OpenFiles
    BY DEF OpenFiles
  <1> QED BY <1>1 DEF OpenInv, ClosedInv, WriteInv, IndexInv, MergeInv

\* What the steps of Open before Load leave alone.
OpenUnchanged ==
    UNCHANGED <<dirPath, syncWrites, dirOf, writeOff, index, seqNo, mu, pc, write, mpc,
                nonMergeFileId, toScan, mergeFile, mergeOff, kv, shared>>

LEMMA OpenDBKeeps ==
    ASSUME ApartInv, OpenDB
    PROVE  ApartInv'
  <1>1. /\ phase = "closed" /\ (1 \in exists => fin[1] # Empty)
        /\ phase' = IF 1 \notin exists THEN "load"
                    ELSE IF fin[1] = NoFile THEN "remove" ELSE "delete"
        /\ UNCHANGED <<exists, present, data, synced, hint, fin>>
        /\ OpenUnchanged
    BY DEF OpenDB, dirs, options, calls, merge, history, OpenUnchanged
  <1>2. TypeOK /\ DirsType
    BY TypeIs DEF ApartInv
  <1>3. OpenInv' /\ ClosedInv' /\ WriteInv' /\ IndexInv' /\ MergeInv'
    BY <1>1, StillClosed DEF ApartInv, OpenUnchanged
  <1>4. TypeOK'
    BY <1>1, <1>2 DEF TypeOK, OpenUnchanged
  <1>5. FilesInv'
    BY <1>1 DEF ApartInv, FilesInv
  <1>6. /\ \A d, f : OnlyValues(d, f)' <=> OnlyValues(d, f)
        /\ \A d, n : HintBelow(d, n)' <=> HintBelow(d, n)
        /\ \A d, k : HintEntrySound(d, k)' <=> HintEntrySound(d, k)
    BY <1>1 DEF OnlyValues, HintBelow, HintEntrySound
  <1>7. HintsInv'
    BY <1>1, <1>6 DEF ApartInv, HintsInv
  <1>8. SwapInv'
    <2>1. 1 \in exists => fin[1] \in FileIds \cup {NoFile, Empty}
      BY <1>2 DEF DirsType
    <2> QED BY <1>1, <1>6, <2>1 DEF ApartInv, SwapInv
  <1> QED BY <1>3, <1>4, <1>5, <1>7, <1>8 DEF ApartInv

LEMMA DeleteMergedKeeps ==
    ASSUME ApartInv, DeleteMerged
    PROVE  ApartInv'
  <1>1. PICK old \in present[0] :
            /\ old < fin[1]
            /\ present' = [present EXCEPT ![0] = @ \ {old}]
            /\ data' = [data EXCEPT ![0][old] = <<>>]
            /\ synced' = [synced EXCEPT ![0][old] = 0]
    BY DEF DeleteMerged
  <1>2. /\ phase = "delete" /\ phase' = "delete"
        /\ UNCHANGED <<exists, hint, fin>>
        /\ OpenUnchanged
    BY DEF DeleteMerged, options, calls, merge, history, OpenUnchanged
  <1>3. TypeOK /\ DirsType /\ FilesInv /\ HintsInv /\ SwapInv
    BY TypeIs DEF ApartInv
  <1>4. 1 \in exists /\ 1 \in Dirs /\ 0 \in Dirs /\ MaxDir > 0 /\ fin[1] \in FileIds
    <2>1. 1 \in exists /\ 1 \in Dirs /\ fin[1] \in FileIds
      BY <1>2, <1>3 DEF SwapInv, DirsType
    <2> QED BY <2>1, Sizes
  <1>5. /\ present'[0] = present[0] \ {old} /\ old \in FileIds
        /\ \A f \in FileIds : data'[0][f] = IF f = old THEN <<>> ELSE data[0][f]
        /\ \A d \in Dirs : d # 0 => present'[d] = present[d] /\ data'[d] = data[d]
    BY <1>1, <1>3, <1>4 DEF DirsType
  <1>6. DirsType'
    <2>1. <<>> \in Seq(Records)
      OBVIOUS
    <2>3. data' \in [Dirs -> [FileIds -> Seq(Records)]]
      BY <1>1, <1>3, <1>4, <1>5, <2>1 DEF DirsType
    <2>4. synced' \in [Dirs -> [FileIds -> Nat]]
      BY <1>1, <1>3, <1>4, <1>5 DEF DirsType
    <2>5. present' \in [Dirs -> SUBSET FileIds]
      BY <1>1, <1>3, <1>4 DEF DirsType
    <2> QED BY <1>2, <1>3, <2>3, <2>4, <2>5 DEF DirsType
  <1>7. TypeOK'
    BY <1>2, <1>3, <1>6 DEF TypeOK, DirsType, OpenUnchanged
  <1>8. FilesInv'
    <2> SUFFICES ASSUME NEW d \in Dirs, NEW f \in FileIds
                 PROVE  /\ Len(data'[d][f]) =< DataFileSize
                        /\ f \notin present'[d] => data'[d][f] = <<>>
                        /\ \A i \in 1 .. Len(data'[d][f]) :
                              data'[d][f][i].val = Finished <=> data'[d][f][i].key = TxnFinKey
      BY DEF FilesInv
    <2>1. CASE d = 0 /\ f = old
      <3>1. data'[d][f] = <<>> /\ Len(data'[d][f]) = 0
        BY <1>5, <2>1
      <3> QED BY <3>1, Sizes
    <2>2. CASE ~(d = 0 /\ f = old)
      <3>1. data'[d][f] = data[d][f]
        BY <1>5, <2>2
      <3>2. f \notin present'[d] => f \notin present[d]
        BY <1>5, <2>2
      <3> QED BY <1>3, <3>1, <3>2 DEF FilesInv
    <2> QED BY <2>1, <2>2
  <1>9. OpenInv' /\ ClosedInv' /\ WriteInv' /\ IndexInv' /\ MergeInv'
    BY <1>2, StillClosed DEF ApartInv, OpenUnchanged
  <1>10. HintsInv'
    <2>1. ASSUME NEW d \in exists' \ {0}, hint'[d] # NoHint, d # 1, NEW k \in Keys
          PROVE  HintEntrySound(d, k)'
      <3>1. d \in exists \ {0} /\ d \in Dirs
        BY <1>2, <1>3, <2>1 DEF DirsType
      <3>2. HintEntrySound(d, k) /\ data'[d] = data[d]
        BY <1>2, <1>3, <1>5, <2>1, <3>1 DEF HintsInv
      <3> QED BY <1>2, <3>2 DEF HintEntrySound
    <2> QED BY <1>2, <2>1 DEF HintsInv
  <1>11. SwapInv'
    <2>1. fin[1] \in present'[0]
      BY <1>1, <1>3, <1>4, <1>5, Sizes DEF SwapInv
    <2>2. HintBelow(0, fin[1]) /\ HintBelow(1, fin[1])
      BY <1>3, <1>4 DEF SwapInv
    <2>3. HintBelow(0, fin[1])' /\ HintBelow(1, fin[1])'
      BY <1>2, <2>2 DEF HintBelow
    <2>4. \A f \in FileIds : f < fin[1] => OnlyValues(1, f)'
      BY <1>3, <1>4, <1>5 DEF SwapInv, OnlyValues
    <2>6. ASSUME NEW k \in Keys, hint[0] # NoHint, hint[0][k] # NoPos,
                 hint[0][k].off < Len(data'[0][hint[0][k].fid])
          PROVE  data'[0][hint[0][k].fid][hint[0][k].off + 1].val \in Values
      <3>1. PICK p : p = hint[0][k]
        OBVIOUS
      <3>2. p \in Positions /\ p.fid \in FileIds /\ p.off \in Nat
        BY <1>3, <1>4, <2>6, <3>1, Sizes DEF DirsType
      <3>3. CASE p.fid = old
        <4>1. Len(data'[0][p.fid]) = 0
          BY <1>5, <3>2, <3>3
        <4> QED BY <2>6, <3>1, <3>2, <4>1
      <3>4. CASE p.fid # old
        <4>1. data'[0][p.fid] = data[0][p.fid]
          BY <1>5, <3>2, <3>4
        <4> QED BY <1>3, <2>6, <3>1, <4>1 DEF SwapInv
      <3> QED BY <3>3, <3>4
    <2>7. \E f \in present'[0] : HintBelow(0, f)'
      <3>1. HintBelow(0, fin[1])'
        BY <2>3
      <3>2. PICK b : b = fin[1]
        OBVIOUS
      <3>3. HintBelow(0, b)'
        BY <1>2, <2>2, <3>2 DEF HintBelow
      <3> QED BY <2>1, <3>2, <3>3
    <2> QED BY <1>2, <1>4, <2>1, <2>3, <2>4, <2>6, <2>7 DEF SwapInv
  <1> QED BY <1>7, <1>8, <1>9, <1>10, <1>11 DEF ApartInv

LEMMA MergedDeletedKeeps ==
    ASSUME ApartInv, MergedDeleted
    PROVE  ApartInv'
  <1>1. /\ phase = "delete" /\ phase' = "move" /\ \A f \in present[0] : f >= fin[1]
        /\ UNCHANGED <<exists, present, data, synced, hint, fin>>
        /\ OpenUnchanged
    BY DEF MergedDeleted, dirs, options, calls, merge, history, OpenUnchanged
  <1>2. TypeOK /\ DirsType /\ FilesInv
    BY TypeIs DEF ApartInv
  <1>3. OpenInv' /\ ClosedInv' /\ WriteInv' /\ IndexInv' /\ MergeInv'
    BY <1>1, StillClosed DEF ApartInv, OpenUnchanged
  <1>4. TypeOK'
    BY <1>1, <1>2 DEF TypeOK, OpenUnchanged
  <1>5. FilesInv'
    BY <1>1 DEF ApartInv, FilesInv
  <1>6. /\ \A d, f : OnlyValues(d, f)' <=> OnlyValues(d, f)
        /\ \A d, n : HintBelow(d, n)' <=> HintBelow(d, n)
        /\ \A d, k : HintEntrySound(d, k)' <=> HintEntrySound(d, k)
    BY <1>1 DEF OnlyValues, HintBelow, HintEntrySound
  <1>7. HintsInv'
    BY <1>1, <1>6 DEF ApartInv, HintsInv
  <1>8. ASSUME NEW f \in FileIds, f < fin[1], fin[1] \in FileIds
        PROVE  OnlyValues(0, f)
    <2>1. f \notin present[0]
      BY <1>1, <1>8, Sizes
    <2>2. data[0][f] = <<>> /\ Len(data[0][f]) = 0
      <3>1. data[0][f] = <<>>
        BY <1>2, <1>8, <2>1, Sizes DEF FilesInv
      <3> QED BY <3>1
    <2> QED BY <2>2 DEF OnlyValues
  <1>9. SwapInv'
    BY <1>1, <1>6, <1>8 DEF ApartInv, SwapInv
  <1> QED BY <1>3, <1>4, <1>5, <1>7, <1>9 DEF ApartInv

LEMMA MoveDataFileKeeps ==
    ASSUME ApartInv, MoveDataFile
    PROVE  ApartInv'
  <1>1. PICK f : f = CHOOSE g \in present[1] : \A o \in present[1] : g =< o
    OBVIOUS
  <1>2. /\ phase = "move" /\ phase' = "move" /\ present[1] # {}
        /\ present' = [present EXCEPT ![0] = @ \cup {f}, ![1] = @ \ {f}]
        /\ data' = [data EXCEPT ![0][f] = data[1][f], ![1][f] = <<>>]
        /\ synced' = [synced EXCEPT ![0][f] = synced[1][f], ![1][f] = 0]
        /\ UNCHANGED <<exists, hint, fin>>
        /\ OpenUnchanged
    BY <1>1 DEF MoveDataFile, options, calls, merge, history, OpenUnchanged
  <1>3. TypeOK /\ DirsType /\ FilesInv /\ HintsInv /\ SwapInv
    BY TypeIs DEF ApartInv
  <1>4. 1 \in exists /\ 1 \in Dirs /\ 0 \in Dirs /\ MaxDir > 0 /\ fin[1] \in FileIds
    <2>1. 1 \in exists /\ 1 \in Dirs /\ fin[1] \in FileIds
      BY <1>2, <1>3 DEF SwapInv, DirsType
    <2> QED BY <2>1, Sizes
  <1>5. f \in present[1] /\ f \in FileIds
    <2>1. PICK S : S = present[1]
      OBVIOUS
    <2>2. S \subseteq FileIds /\ S # {}
      BY <1>2, <1>3, <1>4, <2>1 DEF DirsType
    <2>3. f \in S
      BY <1>1, <2>1, <2>2, SmallestFile
    <2> QED BY <2>1, <2>2, <2>3
  <1>6. /\ data' \in [Dirs -> [FileIds -> Seq(Records)]]
        /\ data'[0][f] = data[1][f] /\ data'[1][f] = <<>>
        /\ \A d \in Dirs, g \in FileIds : g # f \/ d \notin {0, 1} => data'[d][g] = data[d][g]
    <2>1. PICK s : s = data[1][f]
      OBVIOUS
    <2>2. s \in Seq(Records) /\ <<>> \in Seq(Records)
      BY <1>3, <1>4, <1>5, <2>1 DEF DirsType
    <2>3. PICK x : x = [data EXCEPT ![0][f] = s]
      OBVIOUS
    <2>4. /\ x \in [Dirs -> [FileIds -> Seq(Records)]] /\ x[0][f] = s
          /\ \A d \in Dirs, g \in FileIds : g # f \/ d # 0 => x[d][g] = data[d][g]
      BY <1>3, <1>4, <1>5, <2>2, <2>3 DEF DirsType
    <2>5. data' = [x EXCEPT ![1][f] = <<>>]
      BY <1>2, <2>1, <2>3
    <2>6. /\ data' \in [Dirs -> [FileIds -> Seq(Records)]] /\ data'[1][f] = <<>>
          /\ \A d \in Dirs, g \in FileIds : g # f \/ d # 1 => data'[d][g] = x[d][g]
      BY <1>4, <1>5, <2>2, <2>4, <2>5
    <2> QED BY <1>4, <1>5, <2>1, <2>4, <2>6
  <1>7. /\ present' \in [Dirs -> SUBSET FileIds]
        /\ present'[0] = present[0] \cup {f} /\ present'[1] = present[1] \ {f}
        /\ \A d \in Dirs : d \notin {0, 1} => present'[d] = present[d]
    <2>1. PICK x : x = [present EXCEPT ![0] = @ \cup {f}]
      OBVIOUS
    <2>2. /\ x \in [Dirs -> SUBSET FileIds] /\ x[0] = present[0] \cup {f}
          /\ \A d \in Dirs : d # 0 => x[d] = present[d]
      BY <1>3, <1>4, <1>5, <2>1 DEF DirsType
    <2>3. present' = [x EXCEPT ![1] = @ \ {f}]
      BY <1>2, <2>1
    <2>4. /\ present' \in [Dirs -> SUBSET FileIds] /\ present'[1] = x[1] \ {f}
          /\ \A d \in Dirs : d # 1 => present'[d] = x[d]
      BY <1>4, <2>2, <2>3
    <2> QED BY <1>4, <2>2, <2>4
  <1>8. DirsType'
    <2>1. PICK s : s = synced[1][f]
      OBVIOUS
    <2>2. s \in Nat /\ 0 \in Nat
      BY <1>3, <1>4, <1>5, <2>1, Sizes DEF DirsType
    <2>3. PICK x : x = [synced EXCEPT ![0][f] = s]
      OBVIOUS
    <2>4. x \in [Dirs -> [FileIds -> Nat]]
      BY <1>3, <1>4, <1>5, <2>2, <2>3 DEF DirsType
    <2>5. synced' = [x EXCEPT ![1][f] = 0]
      BY <1>2, <2>1, <2>3
    <2>6. synced' \in [Dirs -> [FileIds -> Nat]]
      BY <1>4, <1>5, <2>2, <2>4, <2>5
    <2> QED BY <1>2, <1>3, <1>6, <1>7, <2>6 DEF DirsType
  <1>9. TypeOK'
    BY <1>2, <1>3, <1>8 DEF TypeOK, DirsType, OpenUnchanged
  <1>10. FilesInv'
    <2> SUFFICES ASSUME NEW d \in Dirs, NEW g \in FileIds
                 PROVE  /\ Len(data'[d][g]) =< DataFileSize
                        /\ g \notin present'[d] => data'[d][g] = <<>>
                        /\ \A i \in 1 .. Len(data'[d][g]) :
                              data'[d][g][i].val = Finished <=> data'[d][g][i].key = TxnFinKey
      BY DEF FilesInv
    <2>1. CASE d = 0 /\ g = f
      <3>1. data'[d][g] = data[1][f] /\ g \in present'[d]
        BY <1>6, <1>7, <2>1
      <3> QED BY <1>3, <1>4, <1>5, <3>1 DEF FilesInv
    <2>2. CASE d = 1 /\ g = f
      <3>1. data'[d][g] = <<>> /\ Len(data'[d][g]) = 0
        BY <1>6, <2>2
      <3> QED BY <3>1, Sizes
    <2>3. CASE g # f \/ d \notin {0, 1}
      <3>1. data'[d][g] = data[d][g]
        BY <1>6, <2>3
      <3>2. g \notin present'[d] => g \notin present[d]
        BY <1>7, <2>3
      <3> QED BY <1>3, <3>1, <3>2 DEF FilesInv
    <2> QED BY <2>1, <2>2, <2>3
  <1>11. OpenInv' /\ ClosedInv' /\ WriteInv' /\ IndexInv' /\ MergeInv'
    BY <1>2, StillClosed DEF ApartInv, OpenUnchanged
  <1>12. HintsInv'
    <2>1. ASSUME NEW d \in exists' \ {0}, hint'[d] # NoHint, d # 1, NEW k \in Keys
          PROVE  HintEntrySound(d, k)'
      <3>1. d \in exists \ {0} /\ d \in Dirs /\ d \notin {0, 1}
        BY <1>2, <1>3, <2>1 DEF DirsType
      <3>2. HintEntrySound(d, k)
        BY <1>2, <1>3, <2>1, <3>1 DEF HintsInv
      <3> SUFFICES ASSUME hint[d][k] # NoPos
                   PROVE  HintEntrySound(d, k)'
        BY <1>2 DEF HintEntrySound
      <3>3. hint[d][k].fid \in FileIds
        <4>1. hint[d][k] \in Positions
          BY <1>2, <1>3, <2>1, <3>1 DEF DirsType
        <4> QED BY <4>1, Sizes
      <3>4. data'[d][hint[d][k].fid] = data[d][hint[d][k].fid]
        BY <1>6, <3>1, <3>3
      <3> QED BY <1>2, <3>2, <3>4 DEF HintEntrySound
    <2> QED BY <1>2, <2>1 DEF HintsInv
  <1>13. SwapInv'
    <2>1. fin[1] \in present'[0]
      BY <1>3, <1>4, <1>7 DEF SwapInv
    <2>2. HintBelow(0, fin[1]) /\ HintBelow(1, fin[1])
      BY <1>3, <1>4 DEF SwapInv
    <2>3. HintBelow(0, fin[1])' /\ HintBelow(1, fin[1])'
      BY <1>2, <2>2 DEF HintBelow
    <2>4. ASSUME NEW g \in FileIds, g < fin[1]
          PROVE  OnlyValues(1, g)' /\ OnlyValues(0, g)'
      <3>1. OnlyValues(1, g) /\ OnlyValues(0, g)
        BY <1>2, <1>3, <1>4, <2>4 DEF SwapInv
      <3>2. CASE g = f
        <4>1. Len(data'[1][g]) = 0 /\ data'[0][g] = data[1][g]
          BY <1>6, <3>2
        <4> QED BY <3>1, <4>1 DEF OnlyValues
      <3>3. CASE g # f
        <4>1. data'[1][g] = data[1][g] /\ data'[0][g] = data[0][g]
          BY <1>4, <1>6, <3>3
        <4> QED BY <3>1, <4>1 DEF OnlyValues
      <3> QED BY <3>2, <3>3
    <2>5. ASSUME NEW k \in Keys, hint[0] # NoHint, hint[0][k] # NoPos,
                 hint[0][k].off < Len(data'[0][hint[0][k].fid])
          PROVE  data'[0][hint[0][k].fid][hint[0][k].off + 1].val \in Values
      <3>1. PICK p : p = hint[0][k]
        OBVIOUS
      <3>2. p \in Positions /\ p.fid \in FileIds /\ p.off \in Nat
        BY <1>3, <1>4, <2>5, <3>1, Sizes DEF DirsType
      <3>3. p.fid < fin[1]
        BY <2>2, <2>5, <3>1 DEF HintBelow
      <3>4. \A i \in 1 .. Len(data'[0][p.fid]) : data'[0][p.fid][i].val \in Values
        BY <2>4, <3>2, <3>3 DEF OnlyValues
      <3>5. Len(data'[0][p.fid]) \in Nat
        BY <1>4, <1>6, <3>2
      <3>6. p.off + 1 \in 1 .. Len(data'[0][p.fid])
        BY <2>5, <3>1, <3>2, <3>5
      <3> QED BY <3>1, <3>4, <3>6
    <2>6. hint[0] # NoHint => \E g \in present'[0] : HintBelow(0, g)'
      <3>1. PICK g : g = fin[1]
        OBVIOUS
      <3>2. HintBelow(0, g)'
        BY <1>2, <2>2, <3>1 DEF HintBelow
      <3> QED BY <2>1, <3>1, <3>2
    <2> QED BY <1>2, <1>4, <2>1, <2>3, <2>4, <2>5, <2>6 DEF SwapInv
  <1> QED BY <1>9, <1>10, <1>11, <1>12, <1>13 DEF ApartInv

LEMMA MoveHintKeeps ==
    ASSUME ApartInv, MoveHint
    PROVE  ApartInv'
  <1>2. /\ phase = "move" /\ phase' = "move" /\ hint[1] # NoHint
        /\ hint' = [hint EXCEPT ![0] = hint[1], ![1] = NoHint]
        /\ UNCHANGED <<exists, present, data, synced, fin>>
        /\ OpenUnchanged
    BY DEF MoveHint, options, calls, merge, history, OpenUnchanged
  <1>3. TypeOK /\ DirsType /\ FilesInv /\ HintsInv /\ SwapInv
    BY TypeIs DEF ApartInv
  <1>4. 1 \in exists /\ 1 \in Dirs /\ 0 \in Dirs /\ MaxDir > 0 /\ fin[1] \in FileIds
    <2>1. 1 \in exists /\ 1 \in Dirs /\ fin[1] \in FileIds
      BY <1>2, <1>3 DEF SwapInv, DirsType
    <2> QED BY <2>1, Sizes
  <1>5. PICK h : h = hint[1]
    OBVIOUS
  <1>6. h \in [Keys -> Positions \cup {NoPos}]
    BY <1>2, <1>3, <1>4, <1>5 DEF DirsType
  <1>7. /\ hint' \in [Dirs -> [Keys -> Positions \cup {NoPos}] \cup {NoHint}]
        /\ hint'[0] = h /\ hint'[1] = NoHint
        /\ \A d \in Dirs : d \notin {0, 1} => hint'[d] = hint[d]
    <2>1. PICK x : x = [hint EXCEPT ![0] = h]
      OBVIOUS
    <2>2. /\ x \in [Dirs -> [Keys -> Positions \cup {NoPos}] \cup {NoHint}] /\ x[0] = h
          /\ \A d \in Dirs : d # 0 => x[d] = hint[d]
      BY <1>3, <1>4, <1>6, <2>1 DEF DirsType
    <2>3. hint' = [x EXCEPT ![1] = NoHint]
      BY <1>2, <1>5, <2>1
    <2> QED BY <1>4, <2>2, <2>3
  <1>8. TypeOK'
    BY <1>2, <1>3, <1>7 DEF TypeOK, OpenUnchanged
  <1>9. FilesInv'
    BY <1>2, <1>3 DEF FilesInv
  <1>10. OpenInv' /\ ClosedInv' /\ WriteInv' /\ IndexInv' /\ MergeInv'
    BY <1>2, StillClosed DEF ApartInv, OpenUnchanged
  <1>11. HintsInv'
    <2>1. ASSUME NEW d \in exists' \ {0}, hint'[d] # NoHint, d # 1, NEW k \in Keys
          PROVE  HintEntrySound(d, k)'
      <3>1. d \in exists \ {0} /\ d \in Dirs /\ d \notin {0, 1}
        BY <1>2, <1>3, <2>1 DEF DirsType
      <3>2. hint'[d] = hint[d]
        BY <1>7, <3>1
      <3>3. HintEntrySound(d, k)
        BY <1>2, <1>3, <2>1, <3>1, <3>2 DEF HintsInv
      <3> QED BY <1>2, <3>2, <3>3 DEF HintEntrySound
    <2> QED BY <1>2, <2>1 DEF HintsInv
  <1>12. SwapInv'
    <2>1. /\ fin[1] \in present[0] /\ HintBelow(1, fin[1])
          /\ \A g \in FileIds : g < fin[1] => OnlyValues(1, g) /\ OnlyValues(0, g)
      BY <1>2, <1>3, <1>4 DEF SwapInv
    <2>2. \A k \in Keys : h[k] # NoPos => h[k].fid < fin[1]
      BY <1>2, <1>5, <2>1 DEF HintBelow
    <2>3. HintBelow(0, fin[1])' /\ HintBelow(1, fin[1])'
      BY <1>2, <1>7, <2>2 DEF HintBelow
    <2>4. \A g \in FileIds : g < fin[1] => OnlyValues(1, g)' /\ OnlyValues(0, g)'
      BY <1>2, <2>1 DEF OnlyValues
    <2>5. ASSUME NEW k \in Keys, h[k] # NoPos, h[k].off < Len(data[0][h[k].fid])
          PROVE  data[0][h[k].fid][h[k].off + 1].val \in Values
      <3>1. PICK p : p = h[k]
        OBVIOUS
      <3>2. p \in Positions /\ p.fid \in FileIds /\ p.off \in Nat /\ p.fid < fin[1]
        BY <1>6, <2>2, <2>5, <3>1, Sizes
      <3>3. \A i \in 1 .. Len(data[0][p.fid]) : data[0][p.fid][i].val \in Values
        BY <2>1, <3>2 DEF OnlyValues
      <3>4. Len(data[0][p.fid]) \in Nat
        BY <1>3, <1>4, <3>2 DEF DirsType
      <3>5. p.off + 1 \in 1 .. Len(data[0][p.fid])
        BY <2>5, <3>1, <3>2, <3>4
      <3> QED BY <3>1, <3>3, <3>5
    <2>6. \E g \in present[0] : HintBelow(0, g)'
      <3>1. PICK g : g = fin[1]
        OBVIOUS
      <3>2. HintBelow(0, g)'
        BY <1>7, <2>2, <3>1 DEF HintBelow
      <3> QED BY <2>1, <3>1, <3>2
    <2> QED BY <1>2, <1>4, <1>7, <2>1, <2>3, <2>4, <2>5, <2>6 DEF SwapInv
  <1> QED BY <1>8, <1>9, <1>10, <1>11, <1>12 DEF ApartInv

LEMMA MoveFinishedKeeps ==
    ASSUME ApartInv, MoveFinished
    PROVE  ApartInv'
  <1>2. /\ phase = "move" /\ phase' = "remove"
        /\ fin' = [fin EXCEPT ![0] = fin[1], ![1] = NoFile]
        /\ UNCHANGED <<exists, present, data, synced, hint>>
        /\ OpenUnchanged
    BY DEF MoveFinished, options, calls, merge, history, OpenUnchanged
  <1>3. TypeOK /\ DirsType /\ FilesInv /\ HintsInv /\ SwapInv
    BY TypeIs DEF ApartInv
  <1>4. 1 \in exists /\ 1 \in Dirs /\ fin[1] \in FileIds
    BY <1>2, <1>3 DEF SwapInv, DirsType
  <1>5. fin' \in [Dirs -> FileIds \cup {NoFile, Empty}] /\ fin'[1] = NoFile
    <2>1. PICK x : x = [fin EXCEPT ![0] = fin[1]]
      OBVIOUS
    <2>2. x \in [Dirs -> FileIds \cup {NoFile, Empty}]
      BY <1>3, <1>4, <2>1 DEF DirsType
    <2>3. fin' = [x EXCEPT ![1] = NoFile]
      BY <1>2, <2>1
    <2> QED BY <1>4, <2>2, <2>3
  <1>6. fin'[1] \notin FileIds
    BY <1>5, Sizes
  <1>7. TypeOK'
    BY <1>2, <1>3, <1>5 DEF TypeOK, OpenUnchanged
  <1>8. FilesInv'
    BY <1>2, <1>3 DEF FilesInv
  <1>9. OpenInv' /\ ClosedInv' /\ WriteInv' /\ IndexInv' /\ MergeInv'
    BY <1>2, StillClosed DEF ApartInv, OpenUnchanged
  <1>10. /\ \A d, n : HintBelow(d, n)' <=> HintBelow(d, n)
         /\ \A d, k : HintEntrySound(d, k)' <=> HintEntrySound(d, k)
    BY <1>2 DEF HintBelow, HintEntrySound
  <1>11. HintsInv'
    BY <1>2, <1>3, <1>10 DEF HintsInv
  <1>12. SwapInv'
    BY <1>2, <1>3, <1>4, <1>6, <1>10 DEF SwapInv
  <1> QED BY <1>7, <1>8, <1>9, <1>11, <1>12 DEF ApartInv

\* The deferred RemoveAll, after which Open goes on or returns.
LEMMA RemoveKeeps ==
    ASSUME ApartInv, phase # "open", phase' \in {"load", "closed"}, 1 \in exists,
           RemoveMergeDir, OpenUnchanged
    PROVE  ApartInv'
  <1>2. /\ exists' = exists \ {1}
        /\ present' = [present EXCEPT ![1] = {}]
        /\ data' = [data EXCEPT ![1] = [f \in FileIds |-> <<>>]]
        /\ synced' = [synced EXCEPT ![1] = [f \in FileIds |-> 0]]
        /\ fin' = [fin EXCEPT ![1] = NoFile]
        /\ hint' = [hint EXCEPT ![1] = NoHint]
    BY DEF RemoveMergeDir, Emptied
  <1>3. TypeOK /\ DirsType /\ FilesInv /\ HintsInv /\ SwapInv
    BY TypeIs DEF ApartInv
  <1>4. 1 \in Dirs /\ 0 \in Dirs
    <2>1. 1 \in Dirs
      BY <1>3 DEF DirsType
    <2> QED BY <2>1, Sizes
  <1>5. /\ present'[1] = {} /\ hint'[1] = NoHint /\ fin'[1] = NoFile
        /\ \A f \in FileIds : data'[1][f] = <<>>
        /\ \A d \in Dirs : d # 1 => /\ present'[d] = present[d] /\ data'[d] = data[d]
                                    /\ hint'[d] = hint[d] /\ fin'[d] = fin[d]
    BY <1>2, <1>3, <1>4 DEF DirsType
  <1>6. DirsType'
    <2>1. [f \in FileIds |-> <<>>] \in [FileIds -> Seq(Records)]
      OBVIOUS
    <2>2. data' \in [Dirs -> [FileIds -> Seq(Records)]]
      BY <1>2, <1>3, <2>1 DEF DirsType
    <2>3. synced' \in [Dirs -> [FileIds -> Nat]]
      <3>1. [f \in FileIds |-> 0] \in [FileIds -> Nat]
        BY Sizes
      <3> QED BY <1>2, <1>3, <3>1 DEF DirsType
    <2>4. hint' \in [Dirs -> [Keys -> Positions \cup {NoPos}] \cup {NoHint}]
      BY <1>2, <1>3 DEF DirsType
    <2>5. present' \in [Dirs -> SUBSET FileIds] /\ fin' \in [Dirs -> FileIds \cup {NoFile, Empty}]
      BY <1>2, <1>3 DEF DirsType
    <2> QED BY <1>2, <1>3, <2>2, <2>3, <2>4, <2>5 DEF DirsType
  <1>7. TypeOK'
    BY <1>3, <1>6 DEF TypeOK, DirsType, OpenUnchanged
  <1>8. FilesInv'
    <2> SUFFICES ASSUME NEW d \in Dirs, NEW f \in FileIds
                 PROVE  /\ Len(data'[d][f]) =< DataFileSize
                        /\ f \notin present'[d] => data'[d][f] = <<>>
                        /\ \A i \in 1 .. Len(data'[d][f]) :
                              data'[d][f][i].val = Finished <=> data'[d][f][i].key = TxnFinKey
      BY DEF FilesInv
    <2>1. CASE d = 1
      <3>1. data'[d][f] = <<>> /\ Len(data'[d][f]) = 0
        BY <1>5, <2>1
      <3> QED BY <3>1, Sizes
    <2>2. CASE d # 1
      BY <1>3, <1>5, <2>2 DEF FilesInv
    <2> QED BY <2>1, <2>2
  <1>9. OpenInv' /\ ClosedInv' /\ WriteInv' /\ IndexInv' /\ MergeInv'
    BY StillClosed DEF ApartInv, OpenUnchanged
  <1>10. HintsInv'
    <2>1. ASSUME NEW d \in exists' \ {0}, hint'[d] # NoHint, NEW k \in Keys
          PROVE  HintEntrySound(d, k)'
      <3>1. d # 1 /\ d \in exists \ {0} /\ d \in Dirs
        BY <1>2, <1>3, <2>1 DEF DirsType
      <3>2. hint'[d] = hint[d] /\ data'[d] = data[d]
        BY <1>5, <3>1
      <3>3. HintEntrySound(d, k)
        BY <1>3, <2>1, <3>1, <3>2 DEF HintsInv
      <3> QED BY <3>2, <3>3 DEF HintEntrySound
    <2> QED BY <2>1 DEF HintsInv
  <1>11. SwapInv'
    <2>1. present'[0] = present[0] /\ data'[0] = data[0] /\ hint'[0] = hint[0]
      BY <1>4, <1>5
    <2>2. fin'[1] \notin FileIds
      BY <1>5, Sizes
    <2>3. \A n : HintBelow(0, n)' <=> HintBelow(0, n)
      BY <2>1 DEF HintBelow
    <2> QED BY <1>2, <1>3, <2>1, <2>2, <2>3 DEF SwapInv
  <1> QED BY <1>7, <1>8, <1>9, <1>10, <1>11 DEF ApartInv

LEMMA RemoveLeftOverKeeps ==
    ASSUME ApartInv, RemoveLeftOver
    PROVE  ApartInv'
  <1>1. phase = "remove" /\ phase' = "load" /\ RemoveMergeDir /\ OpenUnchanged
    BY DEF RemoveLeftOver, options, calls, merge, history, OpenUnchanged
  <1>2. 1 \in exists
    BY <1>1 DEF ApartInv, SwapInv
  <1> QED BY <1>1, <1>2, RemoveKeeps

LEMMA SwapFailsKeeps ==
    ASSUME ApartInv, SwapFails
    PROVE  ApartInv'
  <1>1. phase \in {"delete", "move"} /\ phase' = "closed" /\ RemoveMergeDir /\ OpenUnchanged
    BY DEF SwapFails, options, calls, merge, history, OpenUnchanged
  <1>2. 1 \in exists
    BY <1>1 DEF ApartInv, SwapInv
  <1> QED BY <1>1, <1>2, RemoveKeeps

LEMMA OpenRefusedKeeps ==
    ASSUME ApartInv, OpenRefused
    PROVE  ApartInv'
  <1>1. phase = "closed" /\ phase' = "closed" /\ 1 \in exists /\ RemoveMergeDir /\ OpenUnchanged
    BY DEF OpenRefused, options, calls, merge, history, OpenUnchanged
  <1> QED BY <1>1, RemoveKeeps

\* The largest batch number of a set of them.
LEMMA LargestSeq ==
    ASSUME NEW S, S \subseteq 0 .. MaxSeqNo, 0 \in S
    PROVE  (CHOOSE s \in S : \A t \in S : t =< s) \in 0 .. MaxSeqNo
  <1>1. MaxSeqNo \in Nat /\ S \subseteq Nat /\ S # {} /\ \A x \in S : x =< MaxSeqNo
    BY Sizes
  <1>2. \E m \in S : \A x \in S : x =< m
    BY <1>1, LargestOf
  <1> QED BY <1>2

LEMMA LoadKeeps ==
    ASSUME ApartInv, Load
    PROVE  ApartInv'
  <1>1. PICK h, from, hinted, seqs :
            /\ h = [f \in FileIds |-> IF f \in present[0] THEN 0 ELSE NoDir]
            /\ from = (IF fin[0] = NoFile THEN 0 ELSE fin[0])
            /\ hinted = (IF hint[0] = NoHint THEN NoHintEntries ELSE hint[0])
            /\ seqs = {At(h, p).seq : p \in LogOf(h, from)} \cup {0}
    OBVIOUS
  <1>2. /\ phase = "load" /\ phase' = "open" /\ dirOf' = h
        /\ index' = [k \in Keys |-> IF Effective(h, from, k) = {} THEN hinted[k]
                                    ELSE IndexEntry(h, Last(Effective(h, from, k)))]
        /\ seqNo' = CHOOSE s \in seqs : \A t \in seqs : t =< s
        /\ writeOff' = IF ActiveFile' = NoFile THEN 0 ELSE Len(data[0][ActiveFile'])
        /\ UNCHANGED <<exists, present, data, synced, hint, fin, dirPath, syncWrites,
                       mu, pc, write, mpc, nonMergeFileId, toScan, mergeFile, mergeOff,
                       kv, shared>>
    BY <1>1 DEF Load, dirs, options, calls, merge, history
  <1>3. /\ TypeOK /\ DirsType /\ InstanceType /\ FilesInv /\ HintsInv /\ SwapInv /\ ClosedInv
        /\ 0 \in Dirs
    BY TypeIs, Sizes DEF ApartInv
  <1>4. /\ h \in [FileIds -> Dirs \cup {NoDir}]
        /\ \A f \in FileIds : h[f] # NoDir <=> f \in present[0]
        /\ \A f \in FileIds : f \in present[0] => h[f] = 0
    BY <1>1, <1>3, Sizes
  <1>5. OpenFiles' = present[0] /\ present[0] \subseteq FileIds
    BY <1>2, <1>3, <1>4 DEF OpenFiles, DirsType
  <1>6. /\ \A f \in present[0] : f =< ActiveFile'
        /\ ActiveFile' # NoFile => ActiveFile' \in present[0]
    <2>1. PICK S : S = present[0]
      OBVIOUS
    <2>2. S \subseteq FileIds /\ OpenFiles' = S
      BY <1>5, <2>1
    <2>3. S # {} => ActiveFile' \in S /\ \A f \in S : f =< ActiveFile'
      BY <2>2, LargestFile DEF ActiveFile
    <2>4. S = {} => ActiveFile' = NoFile
      BY <2>2 DEF ActiveFile
    <2> QED BY <2>1, <2>3, <2>4
  <1>7. ASSUME NEW p \in LogOf(h, from)
        PROVE  /\ p \in Positions /\ p.fid \in present[0] /\ p.fid =< ActiveFile'
               /\ p \in LogOf(dirOf, 0)'
               /\ At(h, p) \in Records /\ RecAt(p)' = At(h, p)
               /\ At(h, p).key \in Keys => At(h, p).val # Finished
    <2>1. /\ p \in Positions /\ p.fid \in FileIds /\ p.off \in Nat /\ h[p.fid] # NoDir
          /\ p.off < Len(data[h[p.fid]][p.fid])
      BY Sizes DEF LogOf
    <2>2. p.fid \in present[0] /\ h[p.fid] = 0 /\ p.fid >= 0
      BY <1>4, <2>1, Sizes
    <2>3. p \in LogOf(dirOf, 0)'
      BY <1>2, <2>1, <2>2 DEF LogOf
    <2>4. data[0][p.fid] \in Seq(Records)
      BY <1>3, <2>1 DEF DirsType
    <2>5. p.off + 1 \in 1 .. Len(data[0][p.fid])
      BY <2>1, <2>2, <2>4
    <2>6. At(h, p) = data[0][p.fid][p.off + 1]
      BY <2>2 DEF At
    <2>7. At(h, p) \in Records
      BY <2>4, <2>5, <2>6
    <2>8. At(h, p).val = Finished <=> At(h, p).key = TxnFinKey
      BY <1>3, <2>1, <2>5, <2>6 DEF FilesInv
    <2>9. RecAt(p)' = At(h, p)
      BY <1>2 DEF RecAt, At
    <2> QED BY <1>6, <2>1, <2>2, <2>3, <2>7, <2>8, <2>9, Constants
  <1>8. ASSUME NEW k \in Keys
        PROVE  /\ index'[k] \in Positions \cup {NoPos}
               /\ index'[k] # NoPos =>
                     \/ hint[0] # NoHint /\ index'[k] = hint[0][k]
                     \/ index'[k] \in LogOf(h, from) /\ At(h, index'[k]).val \in Values
    <2>1. CASE Effective(h, from, k) = {}
      <3>1. index'[k] = hinted[k]
        BY <1>2, <2>1
      <3>2. CASE hint[0] = NoHint
        BY <1>1, <3>1, <3>2 DEF NoHintEntries
      <3>3. CASE hint[0] # NoHint
        BY <1>1, <1>3, <3>1, <3>3 DEF DirsType
      <3> QED BY <3>2, <3>3
    <2>2. CASE Effective(h, from, k) # {}
      <3>1. PICK E : E = Effective(h, from, k)
        OBVIOUS
      <3>2. E # {} /\ E \subseteq LogOf(h, from) /\ \A p \in E : At(h, p).key = k
        BY <2>2, <3>1 DEF Effective
      <3>3. E \subseteq Positions
        BY <1>7, <3>2
      <3>4. PICK p : p = Last(E)
        OBVIOUS
      <3>5. p \in E
        BY <3>2, <3>3, <3>4, LastIs
      <3>6. p \in LogOf(h, from) /\ p \in Positions /\ At(h, p) \in Records
            /\ At(h, p).val # Finished
        BY <1>7, <3>2, <3>5
      <3>7. index'[k] = IF At(h, p).val = Tombstone THEN NoPos ELSE p
        BY <1>2, <2>2, <3>1, <3>4 DEF IndexEntry
      <3>8. At(h, p).val \in Values \cup {Tombstone, Finished}
        BY <3>6 DEF Records
      <3> QED BY <3>6, <3>7, <3>8
    <2> QED BY <2>1, <2>2
  <1>9. TypeOK'
    <2>1. index' \in [Keys -> Positions \cup {NoPos}]
      BY <1>2, <1>8
    <2>2. \A p \in LogOf(h, from) : At(h, p).seq \in 0 .. MaxSeqNo
      BY <1>7 DEF Records
    <2>3. seqs \subseteq 0 .. MaxSeqNo /\ 0 \in seqs
      BY <1>1, <2>2, Sizes
    <2>4. seqNo' \in 0 .. MaxSeqNo
      BY <1>2, <2>3, LargestSeq
    <2>5. DirsType'
      BY <1>2, <1>3 DEF DirsType
    <2>7. writeOff' \in Nat
      BY <1>2, <1>3, <1>5, <1>6 DEF DirsType
    <2>6. InstanceType'
      BY <1>2, <1>3, <1>4, <2>1, <2>4, <2>7 DEF InstanceType
    <2> QED BY <2>5, <2>6 DEF TypeOK, DirsType, InstanceType
  <1>10. FilesInv'
    BY <1>2, <1>3 DEF FilesInv
  <1>11. OpenInv'
    <2>1. dirPath' = 0 /\ 0 =< 0
      BY <1>2, <1>3 DEF ClosedInv
    <2>2. \A f \in present[0] : dirOf'[f] = 0
      BY <1>2, <1>4, <1>5
    <2>3. ActiveFile' # NoFile => writeOff' = Len(data'[dirOf'[ActiveFile']][ActiveFile'])
      BY <1>2, <1>6, <2>2
    <2> QED BY <1>2, <1>5, <1>6, <2>1, <2>2, <2>3 DEF OpenInv
  <1>12. ClosedInv' /\ MergeInv'
    BY <1>2, <1>3 DEF ClosedInv, MergeInv
  <1>13. WriteInv'
    BY <1>2, <1>3 DEF ClosedInv, WriteInv
  <1>14. IndexInv'
    <2>1. ASSUME NEW k \in Keys, index'[k] # NoPos
          PROVE  /\ index'[k].fid =< ActiveFile'
                 /\ index'[k].fid = ActiveFile' => index'[k] \in LogOf(dirOf, 0)'
                 /\ index'[k] \in LogOf(dirOf, 0)' => RecAt(index[k])'.val \in Values
      <3>1. PICK p : p = index'[k]
        OBVIOUS
      <3>2. RecAt(index[k])' = data[h[p.fid]][p.fid][p.off + 1]
        BY <1>2, <3>1 DEF RecAt, At
      <3>3. CASE p \in LogOf(h, from) /\ At(h, p).val \in Values
        BY <1>7, <3>1, <3>2, <3>3 DEF At
      <3>4. CASE hint[0] # NoHint /\ p = hint[0][k]
        <4>1. PICK f \in present[0] : HintBelow(0, f)
          BY <1>3, <3>4 DEF SwapInv
        <4>2. p \in Positions /\ p.fid < f /\ f =< ActiveFile' /\ f \in FileIds
          BY <1>3, <1>5, <1>6, <1>8, <2>1, <3>1, <3>4, <4>1 DEF HintBelow
        <4>3. ActiveFile' \in FileIds
          <5>1. OpenFiles' # {} /\ OpenFiles' \subseteq FileIds
            BY <1>5, <4>1
          <5> QED BY <5>1, LargestFile DEF ActiveFile
        <4>4. p.fid < ActiveFile'
          BY <4>2, <4>3, Sizes
        <4>5. p.fid \in Nat /\ ActiveFile' \in Nat
          BY <4>2, <4>3, Sizes
        <4>6. ASSUME p \in LogOf(dirOf, 0)'
              PROVE  data[h[p.fid]][p.fid][p.off + 1].val \in Values
          <5>1. h[p.fid] # NoDir /\ p.off < Len(data[h[p.fid]][p.fid]) /\ p.fid \in FileIds
            BY <1>2, <4>2, <4>6, Sizes DEF LogOf
          <5>2. h[p.fid] = 0
            BY <1>4, <5>1
          <5>3. hint[0][k] # NoPos /\ hint[0][k].off < Len(data[0][hint[0][k].fid])
            BY <2>1, <3>1, <3>4, <5>1, <5>2
          <5>4. data[0][hint[0][k].fid][hint[0][k].off + 1].val \in Values
            BY <1>3, <3>4, <5>3 DEF SwapInv
          <5> QED BY <3>4, <5>2, <5>4
        <4> QED BY <3>1, <3>2, <4>4, <4>5, <4>6
      <3> QED BY <1>8, <2>1, <3>1, <3>3, <3>4
    <2> QED BY <2>1 DEF IndexInv
  <1>15. HintsInv'
    <2>1. 1 \notin exists
      BY <1>2, <1>3 DEF SwapInv
    <2>2. \A d, k : HintEntrySound(d, k)' <=> HintEntrySound(d, k)
      BY <1>2 DEF HintEntrySound
    <2>3. \A d \in exists \ {0} : hint[d] # NoHint => \A k \in Keys : HintEntrySound(d, k)
      BY <1>3, <2>1 DEF HintsInv
    <2> QED BY <1>2, <2>2, <2>3 DEF HintsInv
  <1>16. SwapInv'
    <2>1. /\ \A d, f : OnlyValues(d, f)' <=> OnlyValues(d, f)
          /\ \A d, n : HintBelow(d, n)' <=> HintBelow(d, n)
      BY <1>2 DEF OnlyValues, HintBelow
    <2> QED BY <1>2, <1>3, <2>1 DEF SwapInv
  <1> QED BY <1>9, <1>10, <1>11, <1>12, <1>13, <1>14, <1>15, <1>16 DEF ApartInv

-----------------------------------------------------------------------------
\* The specification

LEMMA InitMerge == Init => ApartInv
  <1> SUFFICES ASSUME Init
               PROVE  ApartInv
    OBVIOUS
  <1>1. /\ exists = {0} /\ present = [d \in Dirs |-> {}]
        /\ data = [d \in Dirs |-> [f \in FileIds |-> <<>>]]
        /\ synced = [d \in Dirs |-> [f \in FileIds |-> 0]]
        /\ hint = [d \in Dirs |-> NoHint] /\ fin = [d \in Dirs |-> NoFile]
        /\ phase = "closed" /\ dirPath = 0 /\ syncWrites = SyncWrites
        /\ dirOf = [f \in FileIds |-> NoDir] /\ index = [k \in Keys |-> NoPos]
        /\ writeOff = 0 /\ mergeOff = 0 /\ shared = FALSE
        /\ seqNo = 0 /\ mu = NoClient /\ pc = [c \in Clients |-> "idle"]
        /\ write = [c \in Clients |-> [key |-> TxnFinKey, val |-> Finished, pos |-> NoPos]]
        /\ mpc = "none" /\ nonMergeFileId = NoFile /\ toScan = {} /\ mergeFile = NoFile
        /\ kv = [k \in Keys |-> Tombstone]
    BY DEF Init
  <1>2. 0 \in Dirs /\ \A d \in Dirs, f \in FileIds : data[d][f] = <<>> /\ Len(data[d][f]) = 0
    <2>1. 0 \in Dirs
      BY Sizes
    <2>2. ASSUME NEW d \in Dirs, NEW f \in FileIds
          PROVE  data[d][f] = <<>> /\ Len(data[d][f]) = 0
      <3>1. data[d][f] = <<>>
        BY <1>1
      <3> QED BY <3>1
    <2> QED BY <2>1, <2>2
  <1>3. DirsType
    <2>1. [f \in FileIds |-> <<>>] \in [FileIds -> Seq(Records)]
      OBVIOUS
    <2>2. [f \in FileIds |-> 0] \in [FileIds -> Nat]
      BY Sizes
    <2>3. data \in [Dirs -> [FileIds -> Seq(Records)]]
      BY <1>1, <2>1
    <2>4. synced \in [Dirs -> [FileIds -> Nat]]
      BY <1>1, <2>2
    <2> QED BY <1>1, <1>2, <2>3, <2>4 DEF DirsType
  <1>4. InstanceType
    <2>1. write \in [Clients -> [key : Keys \cup {TxnFinKey}, val : Values \cup {Tombstone, Finished},
                                 pos : Positions \cup {NoPos}]]
      BY <1>1
    <2>2. shared \in BOOLEAN /\ writeOff \in Nat /\ mergeOff \in Nat
      BY <1>1
    <2> QED BY <1>1, <1>2, <2>1, <2>2, Sizes, Constants DEF InstanceType
  <1>5. FilesInv
    BY <1>2, Sizes DEF FilesInv
  <1>6. OpenFiles = {}
    BY <1>1 DEF OpenFiles
  <1>7. OpenInv /\ ClosedInv /\ WriteInv /\ IndexInv /\ MergeInv
    BY <1>1, <1>6 DEF OpenInv, ClosedInv, WriteInv, IndexInv, MergeInv
  <1>8. HintsInv
    BY <1>1 DEF HintsInv
  <1>9. SwapInv
    <2>1. hint[0] = NoHint
      BY <1>1, <1>2
    <2>2. MaxDir > 0 => fin[1] \notin FileIds
      BY <1>1, Sizes
    <2>3. 1 \notin exists
      BY <1>1
    <2> QED BY <1>1, <2>1, <2>2, <2>3 DEF SwapInv
  <1> QED BY <1>3, <1>4, <1>5, <1>7, <1>8, <1>9, TypeIs DEF ApartInv

LEMMA ClientStepKeeps ==
    ASSUME ApartInv
    PROVE  /\ \A c \in DirectClients :
                 DirectLook(c) \/ DirectAppend(c) \/ DirectIndex(c) => ApartInv'
           /\ \A c \in BatchClients :
                 CommitAppend(c) \/ CommitFinish(c) \/ CommitIndex(c) => ApartInv'
  <1>1. mu \in BatchClients \cup {NoClient}
    BY DEF ApartInv, TypeOK
  <1>2. ASSUME NEW c \in DirectClients, DirectIndex(c)
        PROVE  ApartInv'
    <2>1. c \in Clients
      BY Constants
    <2> QED BY <1>1, <1>2, <2>1, IndexUpdateKeeps DEF DirectIndex
  <1>3. ASSUME NEW c \in BatchClients, CommitIndex(c)
        PROVE  ApartInv'
    <2>1. c \in Clients
      BY Constants
    <2> QED BY <1>3, <2>1, IndexUpdateKeeps DEF CommitIndex
  <1> QED BY <1>2, <1>3, DirectLookKeeps, DirectAppendKeeps, CommitAppendKeeps,
             CommitFinishKeeps

LEMMA StutterKeeps ==
    ASSUME ApartInv, UNCHANGED vars
    PROVE  ApartInv'
  <1>1. UNCHANGED <<exists, present, data, synced, hint, fin, phase, dirPath,
                    syncWrites, dirOf, writeOff, index, seqNo, mu, pc, write, mpc,
                    nonMergeFileId, toScan, mergeFile, mergeOff, kv, shared>>
    BY DEF vars, dirs, options, calls, merge, history
  <1>2. TypeOK'
    BY <1>1 DEF ApartInv, TypeOK
  <1>3. /\ LogOf(dirOf, 0)' = LogOf(dirOf, 0) /\ OpenFiles' = OpenFiles
        /\ ActiveFile' = ActiveFile
        /\ \A d, f : OnlyValues(d, f)' <=> OnlyValues(d, f)
        /\ \A d, n : HintBelow(d, n)' <=> HintBelow(d, n)
        /\ \A d, k : HintEntrySound(d, k)' <=> HintEntrySound(d, k)
        /\ MergeAppendFile' = MergeAppendFile /\ MergeOff' = MergeOff
    BY <1>1 DEF LogOf, OpenFiles, ActiveFile, OnlyValues, HintBelow, HintEntrySound,
                MergeAppendFile, MergeRotates, MergeOff
  <1>4. FilesInv' /\ OpenInv' /\ ClosedInv'
    BY <1>1, <1>3 DEF ApartInv, FilesInv, OpenInv, ClosedInv
  <1>5. WriteInv'
    BY <1>1, <1>3 DEF ApartInv, WriteInv, RecAt, At
  <1>6. IndexInv'
    BY <1>1, <1>3 DEF ApartInv, IndexInv, RecAt, At
  <1>7. MergeInv'
    BY <1>1, <1>3 DEF ApartInv, MergeInv
  <1>8. HintsInv' /\ SwapInv'
    BY <1>1, <1>3 DEF ApartInv, HintsInv, SwapInv
  <1> QED BY <1>2, <1>4, <1>5, <1>6, <1>7, <1>8 DEF ApartInv

\* mergeDB has adopted no file and does not now.
LEMMA ApartKept ==
    ASSUME ApartInv, [Next]_vars, ~shared'
    PROVE  ApartInv'
  <1>1. ASSUME MergeStep
        PROVE  ApartInv'
    BY <1>1, MergeStartKeeps, MergePrepareKeeps, MergeOpenKeeps, MergeRecordKeeps,
       MergeSyncKeeps, MergeFinishKeeps, MergeFailsKeeps DEF MergeStep
  <1>2. ASSUME SwapStep
        PROVE  ApartInv'
    BY <1>2, DeleteMergedKeeps, MergedDeletedKeeps, MoveDataFileKeeps, MoveHintKeeps,
       MoveFinishedKeeps, RemoveLeftOverKeeps, SwapFailsKeeps, OpenRefusedKeeps DEF SwapStep
  <1>3. ASSUME Close \/ ProcessCrash
        PROVE  ApartInv'
    BY <1>3, StopKeeps DEF Close, ProcessCrash
  <1> QED BY <1>1, <1>2, <1>3, ClientStepKeeps, SyncKeeps, OpenDBKeeps, LoadKeeps, StutterKeeps
          DEF Next

\* That it has adopted one is not forgotten.
LEMMA SharedStays ==
    ASSUME shared, [Next]_vars
    PROVE  shared'
  <1>1. MergeOpen => shared'
    BY DEF MergeOpen
  <1>2. MergeStep => MergeOpen \/ UNCHANGED shared
    BY DEF MergeStep, MergeStart, MergePrepare, MergeRecord, MergeSync, MergeFinish, MergeFails,
           history
  <1>3. SwapStep => UNCHANGED shared
    BY DEF SwapStep, DeleteMerged, MergedDeleted, MoveDataFile, MoveHint, MoveFinished,
           RemoveLeftOver, SwapFails, OpenRefused, history
  <1>4. Close \/ ProcessCrash \/ OpenDB \/ Load \/ Sync => UNCHANGED shared
    BY DEF Close, ProcessCrash, Stop, OpenDB, Load, Sync, history
  <1>5. \A c : DirectLook(c) \/ DirectAppend(c) \/ DirectIndex(c) => UNCHANGED shared
    BY DEF DirectLook, DirectAppend, DirectIndex, history
  <1>6. \A c : CommitAppend(c) \/ CommitFinish(c) \/ CommitIndex(c) => UNCHANGED shared
    BY DEF CommitAppend, CommitFinish, CommitIndex, history
  <1>7. UNCHANGED vars => UNCHANGED shared
    BY DEF vars, history
  <1> QED BY <1>1, <1>2, <1>3, <1>4, <1>5, <1>6, <1>7 DEF Next

LEMMA NextKeeps ==
    ASSUME MergeIndInv, [Next]_vars
    PROVE  MergeIndInv'
  BY ApartKept, SharedStays DEF MergeIndInv

\* The files of the two instances, the index, the goroutine, hint-index and the
\* swap: what holds of them, with any number of merges, failing calls and
\* crashes, until mergeDB finds a file of the running instance in its directory
\* (merge.go, doMerge).
THEOREM MergeInvariance == Spec => []MergeIndInv
  <1>1. Init => MergeIndInv
    BY InitMerge DEF MergeIndInv
  <1>2. MergeIndInv /\ [Next]_vars => MergeIndInv'
    BY NextKeeps
  <1> QED BY <1>1, <1>2, PTL DEF Spec

\* Every variable keeps its type until then.
THEOREM MergeTypes == Spec => [](shared \/ TypeOK)
  <1>1. MergeIndInv => shared \/ TypeOK
    BY DEF MergeIndInv, ApartInv
  <1> QED BY <1>1, MergeInvariance, PTL

\* The running instance and mergeDB both create files in the merge directory.
\* They write to one file only once mergeDB has found a file of the instance
\* there when it opened: not in the files both create afterwards, for any
\* number of files, writes, merges, failing calls and crashes.
THEOREM WritersAlwaysApart == Spec => []WritersApart
  <1>1. ASSUME ApartInv
        PROVE  OneWriterPerFile
    <2> SUFFICES ASSUME phase = "open"
                 PROVE  /\ NextFile \notin present[dirPath]
                        /\ mpc = "scan" =>
                              /\ mergeFile + 1 \notin present[dirPath]
                              /\ mergeFile # NoFile => dirOf[mergeFile] # dirPath
      BY DEF OneWriterPerFile
    <2>1. DirsType /\ InstanceType /\ OpenInv /\ MergeInv
      BY <1>1, TypeIs DEF ApartInv
    <2>2. PICK a, m, n, g : a = ActiveFile /\ m = dirPath /\ n = nonMergeFileId /\ g = mergeFile
      OBVIOUS
    <2>3. m \in Dirs /\ a \in FileIds \cup {NoFile} /\ g \in FileIds \cup {NoFile}
          /\ present[m] \subseteq FileIds
      BY <2>1, <2>2, ActiveIs DEF InstanceType, DirsType
    <2>4. NextFile \notin present[m]
      <3>1. a \in Int /\ NextFile = a + 1 /\ \A f \in present[m] : f =< a
        BY <2>1, <2>2, <2>3, Sizes DEF NextFile, OpenInv
      <3> QED BY <3>1
    <2>5. ASSUME mpc = "scan"
          PROVE  g + 1 \notin present[m] /\ (g # NoFile => dirOf[g] # m)
      <3>1. /\ n \in OpenFiles /\ g < n /\ \A f \in present[m] : f =< g \/ f > n
            /\ \A f \in OpenFiles : dirOf[f] = m => f > n
        BY <2>1, <2>2, <2>5 DEF MergeInv
      <3>2. n \in Nat /\ g \in Int
        BY <2>3, <3>1, Sizes DEF OpenFiles
      <3>3. g + 1 \notin present[m]
        BY <3>1, <3>2
      <3>4. ASSUME g # NoFile, dirOf[g] = m
            PROVE  FALSE
        <4>1. g \in OpenFiles
          BY <2>3, <3>4, Sizes DEF OpenFiles
        <4> QED BY <3>1, <3>2, <3>4, <4>1
      <3> QED BY <3>3, <3>4
    <2> QED BY <2>2, <2>4, <2>5
  <1>2. MergeIndInv => WritersApart
    BY <1>1 DEF MergeIndInv, WritersApart
  <1> QED BY <1>2, MergeInvariance, PTL

\* Every entry of a hint-index leads to a value of its key in the merge
\* directory that needs no end of a batch to count, if mergeDB has had that
\* directory to itself.
THEOREM HintsAlwaysSound == Spec => []HintSound
  <1>1. MergeIndInv => HintSound
    BY DEF MergeIndInv, ApartInv, HintsInv, HintEntrySound, HintSound
  <1> QED BY <1>1, MergeInvariance, PTL
=============================================================================
