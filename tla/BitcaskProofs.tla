---------------------------- MODULE BitcaskProofs ----------------------------
(***************************************************************************)
(* Every reachable state of Bitcask satisfies TypeOK and IndexSound, and   *)
(* batches are whole, stand side by side in the log, and are durable when  *)
(* Commit has been asked to sync: for every value of the constants, every  *)
(* fault and every interleaving.                                           *)
(***************************************************************************)
EXTENDS BatchInvariant, TLAPS, SequenceTheorems, WellFoundedInduction

USE DEF NoFile

-----------------------------------------------------------------------------
\* Smallest and largest members

\* A set of naturals that is not empty has a smallest member.
LEMMA SmallestOf ==
    ASSUME NEW S, S \subseteq Nat, S # {}
    PROVE  \E m \in S : \A x \in S : m =< x
  <1>1. PICK m \in S : \A x \in S : ~ (<<x, m>> \in OpToRel(<, Nat))
    BY NatLessThanWellFounded, WFMin, Zenon
  <1>2. ASSUME NEW x \in S PROVE m =< x
    <2>1. x \in Nat /\ m \in Nat
      OBVIOUS
    <2>2. ~ (x < m)
      BY <1>1, <2>1 DEF OpToRel
    <2> QED BY <2>1, <2>2
  <1> QED BY <1>2

\* A bounded set of naturals that is not empty has a largest member.
LEMMA LargestOf ==
    ASSUME NEW S, S \subseteq Nat, S # {}, NEW b \in Nat, \A x \in S : x =< b
    PROVE  \E m \in S : \A x \in S : x =< m
  <1> DEFINE T == {b - x : x \in S}
  <1>1. T \subseteq Nat
    OBVIOUS
  <1>2. T # {}
    <2>1. PICK x \in S : TRUE
      OBVIOUS
    <2> QED BY <2>1
  <1>3. PICK t \in T : \A u \in T : t =< u
    <2> HIDE DEF T
    <2> QED BY <1>1, <1>2, SmallestOf
  <1>4. PICK m \in S : t = b - m
    OBVIOUS
  <1>5. ASSUME NEW x \in S PROVE x =< m
    <2>1. b - x \in T
      OBVIOUS
    <2>2. b - m =< b - x
      BY <2>1, <1>3, <1>4
    <2>3. x \in Nat /\ m \in Nat
      OBVIOUS
    <2> HIDE DEF T
    <2> QED BY <2>2, <2>3
  <1> QED BY <1>5

-----------------------------------------------------------------------------
\* The log under an append

\* What appending rec to file f does to the files.
LEMMA AppendToFile ==
    ASSUME StoreTypeOK, NEW f \in FileIds, NEW rec \in Records,
           files' = [files EXCEPT ![f] = Append(@, rec)]
    PROVE  /\ files' \in [FileIds -> Seq(Records)]
           /\ \A g \in FileIds \ {f} : files'[g] = files[g]
           /\ Len(files'[f]) = Len(files[f]) + 1
           /\ files'[f][Len(files[f]) + 1] = rec
           /\ \A i \in 1 .. Len(files[f]) : files'[f][i] = files[f][i]
  <1>1. files \in [FileIds -> Seq(Records)] /\ files[f] \in Seq(Records)
    BY DEF StoreTypeOK
  <1>2. files'[f] = Append(files[f], rec)
    BY <1>1
  <1>3. Append(files[f], rec) \in Seq(Records)
    BY <1>1
  <1>4. Len(files'[f]) = Len(files[f]) + 1
    BY <1>1, <1>2
  <1>5. files'[f][Len(files[f]) + 1] = rec
    BY <1>1, <1>2
  <1>6. \A i \in 1 .. Len(files[f]) : files'[f][i] = files[f][i]
    BY <1>1, <1>2
  <1>7. \A g \in FileIds \ {f} : files'[g] = files[g]
    BY <1>1
  <1>8. files' \in [FileIds -> Seq(Records)]
    BY <1>1, <1>3
  <1> QED BY <1>4, <1>5, <1>6, <1>7, <1>8

\* No record moves or changes.
LogKept == \A p \in LogPositions : p \in LogPositions' /\ RecAt(p)' = RecAt(p)

\* The log has one record more, at the end of file f.
LEMMA LogAfterAppend ==
    ASSUME StoreTypeOK, NEW f \in FileIds, NEW rec \in Records,
           Len(files[f]) < DataFileSize,
           files' = [files EXCEPT ![f] = Append(@, rec)],
           NEW pos, pos = [fid |-> f, off |-> Len(files[f])]
    PROVE  /\ pos \in Positions
           /\ LogPositions' = LogPositions \cup {pos}
           /\ pos \notin LogPositions
           /\ files'[pos.fid][pos.off + 1] = rec
           /\ LogKept
  <1>1. files[f] \in Seq(Records) /\ Len(files[f]) \in Nat
    BY DEF StoreTypeOK
  <1>2. pos \in Positions
    BY <1>1, SizesAssumption DEF Positions
  <1>3. \A p \in Positions : p.fid \in FileIds /\ p.off \in Nat
    BY SizesAssumption DEF Positions
  <1>4. \A p \in Positions : p.fid = f /\ p.off = Len(files[f]) => p = pos
    BY DEF Positions
  <1>5. \A p \in Positions : p.off < Len(files'[p.fid]) <=>
                             (p.off < Len(files[p.fid]) \/ p = pos)
    <2> SUFFICES ASSUME NEW p \in Positions
                 PROVE  p.off < Len(files'[p.fid]) <=>
                             (p.off < Len(files[p.fid]) \/ p = pos)
      OBVIOUS
    <2>0. p.fid \in FileIds /\ p.off \in Nat
      BY <1>3
    <2>1. CASE p.fid = f
      <3>1. Len(files'[f]) = Len(files[f]) + 1
        BY AppendToFile
      <3>2. p = pos <=> p.off = Len(files[f])
        BY <2>1, <1>4
      <3> QED BY <2>0, <2>1, <3>1, <3>2, <1>1
    <2>2. CASE p.fid # f
      <3>1. files'[p.fid] = files[p.fid]
        BY <2>0, <2>2, AppendToFile
      <3>2. p # pos
        BY <2>2
      <3> QED BY <3>1, <3>2
    <2> QED BY <2>1, <2>2
  <1>6. LogPositions' = LogPositions \cup {pos}
    BY <1>2, <1>5 DEF LogPositions
  <1>7. pos \notin LogPositions
    BY <1>1 DEF LogPositions
  <1>8. files'[pos.fid][pos.off + 1] = rec
    BY AppendToFile
  <1>9. \A p \in LogPositions : RecAt(p)' = RecAt(p)
    <2> SUFFICES ASSUME NEW p \in LogPositions
                 PROVE  files'[p.fid][p.off + 1] = files[p.fid][p.off + 1]
      BY DEF RecAt
    <2>1. p \in Positions /\ p.fid \in FileIds /\ p.off \in Nat /\ p.off < Len(files[p.fid])
      BY <1>3 DEF LogPositions
    <2>2. CASE p.fid = f
      <3>1. p.off + 1 \in 1 .. Len(files[f])
        BY <2>1, <2>2, <1>1
      <3> QED BY <2>2, <3>1, AppendToFile
    <2>3. CASE p.fid # f
      BY <2>1, <2>3, AppendToFile
    <2> QED BY <2>2, <2>3
  <1> QED BY <1>2, <1>6, <1>7, <1>8, <1>9 DEF LogKept

\* A batch that has ended stays so.
LEMMA CommittedKept ==
    ASSUME LogKept, NEW s, Committed(s)
    PROVE  Committed(s)'
  BY DEF LogKept, Committed

\* The log is a function of the files alone.
LEMMA LogUnchanged ==
    ASSUME UNCHANGED files
    PROVE  /\ LogPositions' = LogPositions
           /\ \A p : RecAt(p)' = RecAt(p)
           /\ \A s : Committed(s)' = Committed(s)
           /\ LogKept
  BY DEF LogPositions, RecAt, Committed, LogKept

\* A record of the log has the type of records.
LEMMA RecordType ==
    ASSUME StoreTypeOK, NEW p \in LogPositions
    PROVE  RecAt(p) \in Records
  <1>1. p.fid \in FileIds /\ p.off \in Nat /\ p.off < Len(files[p.fid])
    BY SizesAssumption DEF LogPositions, Positions
  <1>2. files[p.fid] \in Seq(Records)
    BY <1>1 DEF StoreTypeOK
  <1>3. p.off + 1 \in 1 .. Len(files[p.fid])
    BY <1>1, <1>2
  <1> QED BY <1>2, <1>3 DEF RecAt

-----------------------------------------------------------------------------
\* The files and the writer

\* The files the instance can read.
Opened == (olderFiles \cup {activeFile}) \cap FileIds

\* Where the next record goes: the end of a file that has room for it.
LEMMA AppendPlace ==
    ASSUME StoreInv, phase = "open", AppendFile =< MaxFileId
    PROVE  /\ AppendFile \in FileIds
           /\ AppendOff = Len(files[AppendFile])
           /\ AppendOff < DataFileSize
           /\ AppendPos = [fid |-> AppendFile, off |-> Len(files[AppendFile])]
           /\ NewFile => AppendFile \notin onDisk
           /\ \A f \in onDisk : f =< AppendFile
           /\ Rotates => activeFile \in FileIds
  <1>1. /\ activeFile \in FileIds \cup {-1}
        /\ writeOff \in Nat
        /\ onDisk \subseteq FileIds
        /\ files \in [FileIds -> Seq(Records)]
    BY DEF StoreInv, StoreTypeOK
  <1>2. AppendFile \in FileIds
    BY <1>1, SizesAssumption DEF AppendFile, NewFile, Rotates, FileIds
  <1>3. CASE activeFile = -1
    <2>1. onDisk = {} /\ NewFile /\ AppendOff = 0
      BY <1>3 DEF StoreInv, WriterInv, NewFile, AppendOff
    <2>2. Len(files[AppendFile]) = 0
      BY <2>1, <1>2 DEF StoreInv, DiskInv
    <2> QED BY <2>1, <2>2, <1>2, <1>3, SizesAssumption DEF AppendPos, Rotates
  <1>4. CASE activeFile # -1
    <2>1. /\ activeFile \in onDisk
          /\ \A f \in onDisk : f =< activeFile
          /\ writeOff = Len(files[activeFile])
      BY <1>4 DEF StoreInv, WriterInv
    <2>2. CASE Rotates
      <3>1. NewFile /\ AppendFile = activeFile + 1 /\ AppendOff = 0
        BY <2>2 DEF NewFile, AppendFile, AppendOff
      <3>2. \A f \in onDisk : f \in Int
        BY <1>1, SizesAssumption DEF FileIds
      <3>3. AppendFile \notin onDisk /\ \A f \in onDisk : f =< AppendFile
        BY <3>1, <3>2, <2>1
      <3>4. Len(files[AppendFile]) = 0
        BY <3>3, <1>2 DEF StoreInv, DiskInv
      <3> QED BY <3>1, <3>3, <3>4, <1>1, <1>2, <1>4, SizesAssumption DEF AppendPos
    <2>3. CASE ~Rotates
      <3>1. ~NewFile /\ AppendFile = activeFile /\ AppendOff = writeOff
        BY <2>3, <1>4 DEF NewFile, AppendFile, AppendOff
      <3>2. writeOff < DataFileSize
        BY <2>3, <1>1, <1>4, SizesAssumption DEF Rotates
      <3> QED BY <3>1, <3>2, <2>1, <2>3, <1>2 DEF AppendPos
    <2> QED BY <2>2, <2>3
  <1> QED BY <1>3, <1>4

\* The Sync of the full file moves synced up to its length.
LEMMA RotationSync ==
    ASSUME StoreInv, phase = "open"
    PROVE  /\ SyncedAfterRotation \in [FileIds -> Nat]
           /\ \A f \in FileIds : SyncedAfterRotation[f] =< Len(files[f])
  <1>1. synced \in [FileIds -> Nat] /\ files \in [FileIds -> Seq(Records)]
    BY DEF StoreInv, StoreTypeOK
  <1>2. \A f \in FileIds : Len(files[f]) \in Nat /\ synced[f] =< Len(files[f])
    BY <1>1 DEF StoreInv, DiskInv
  <1>3. Rotates => activeFile \in FileIds
    BY DEF Rotates, StoreInv, StoreTypeOK
  <1>4. CASE Rotates
    <2>1. SyncedAfterRotation = [synced EXCEPT ![activeFile] = Len(files[activeFile])]
      BY <1>4 DEF SyncedAfterRotation
    <2>2. \A f \in FileIds : SyncedAfterRotation[f] =
              IF f = activeFile THEN Len(files[f]) ELSE synced[f]
      BY <2>1, <1>1
    <2>3. SyncedAfterRotation \in [FileIds -> Nat]
      BY <2>1, <1>1, <1>2, <1>3, <1>4
    <2> QED BY <2>2, <2>3, <1>2
  <1>5. CASE ~Rotates
    BY <1>5, <1>1, <1>2 DEF SyncedAfterRotation
  <1> QED BY <1>4, <1>5

\* A step that opens the file of AppendFile and writes nothing.
LEMMA StoreWithoutWrite ==
    ASSUME StoreInv, phase = "open", phase' = phase,
           SetActiveDataFile, UNCHANGED <<files, bytesWrite>>,
           writeOff' = AppendOff, synced' = SyncedAfterRotation
    PROVE  StoreInv' /\ LogKept /\ Opened \subseteq Opened'
  <1>1. /\ AppendFile \in FileIds
        /\ AppendOff = Len(files[AppendFile])
        /\ \A f \in onDisk : f =< AppendFile
        /\ Rotates => activeFile \in FileIds
    BY AppendPlace DEF SetActiveDataFile
  <1>2. files \in [FileIds -> Seq(Records)] /\ AppendOff \in Nat
    BY <1>1 DEF StoreInv, StoreTypeOK
  <1>3. StoreTypeOK'
    BY <1>1, <1>2, RotationSync
       DEF StoreInv, StoreTypeOK, SetActiveDataFile, OlderAfterRotation
  <1>4. DiskInv'
    BY RotationSync DEF StoreInv, DiskInv, SetActiveDataFile
  <1>5. LogWellFormed'
    BY LogUnchanged DEF StoreInv, LogWellFormed, WellFormed
  <1>6. activeFile # -1 => onDisk \subseteq Opened /\ activeFile \in onDisk
    BY DEF StoreInv, StoreTypeOK, WriterInv, Opened
  <1>7. activeFile = -1 => onDisk = {} 
    BY DEF StoreInv, WriterInv
  <1>8. /\ activeFile' = AppendFile
        /\ onDisk' = onDisk \cup {AppendFile}
        /\ activeFile = -1 \/ activeFile \in olderFiles' \cup {activeFile'}
        /\ olderFiles \subseteq olderFiles'
    BY DEF SetActiveDataFile, OlderAfterRotation, AppendFile, NewFile
  <1>10. Opened \subseteq Opened'
    BY <1>8, SizesAssumption DEF Opened, FileIds
  <1>9. WriterInv'
    BY <1>1, <1>6, <1>7, <1>8 DEF WriterInv, Opened, FileIds
  <1> QED BY <1>3, <1>4, <1>5, <1>9, <1>10, LogUnchanged DEF StoreInv

\* A step that writes a well-formed record behind the last one.
LEMMA StoreWithWrite ==
    ASSUME StoreInv, phase = "open", phase' = phase,
           NEW rec \in Records, WellFormed(rec),
           SetActiveDataFile,
           files' = [files EXCEPT ![AppendFile] = Append(@, rec)],
           writeOff' = AppendOff + 1, bytesWrite' \in Nat,
           synced' \in [FileIds -> Nat],
           \A f \in FileIds : synced'[f] =< Len(files'[f]),
           NEW pos, pos = AppendPos
    PROVE  /\ StoreInv' /\ LogKept /\ Opened \subseteq Opened'
           /\ pos \in Positions
           /\ LogPositions' = LogPositions \cup {pos}
           /\ files'[pos.fid][pos.off + 1] = rec
  <1>1. /\ AppendFile \in FileIds
        /\ AppendOff = Len(files[AppendFile])
        /\ AppendOff < DataFileSize
        /\ AppendPos = [fid |-> AppendFile, off |-> Len(files[AppendFile])]
        /\ \A f \in onDisk : f =< AppendFile
        /\ Rotates => activeFile \in FileIds
    BY AppendPlace DEF SetActiveDataFile
  <1>2. files \in [FileIds -> Seq(Records)] /\ AppendOff \in Nat /\ StoreTypeOK
    BY <1>1 DEF StoreInv, StoreTypeOK
  <1>3. /\ files' \in [FileIds -> Seq(Records)]
        /\ \A g \in FileIds \ {AppendFile} : files'[g] = files[g]
        /\ Len(files'[AppendFile]) = Len(files[AppendFile]) + 1
    BY <1>1, <1>2, AppendToFile
  <1>4. /\ pos \in Positions
        /\ LogPositions' = LogPositions \cup {pos}
        /\ files'[pos.fid][pos.off + 1] = rec
        /\ LogKept
    BY <1>1, <1>2, LogAfterAppend
  <1>5. StoreTypeOK'
    BY <1>1, <1>2, <1>3
       DEF StoreInv, StoreTypeOK, SetActiveDataFile, OlderAfterRotation
  <1>6. DiskInv'
    <2> SUFFICES ASSUME NEW f \in FileIds
                 PROVE  /\ Len(files'[f]) =< DataFileSize
                        /\ f \notin onDisk' => files'[f] = <<>>
                        /\ synced'[f] =< Len(files'[f])
      BY DEF DiskInv
    <2>1. CASE f = AppendFile
      BY <2>1, <1>1, <1>2, <1>3, SizesAssumption DEF SetActiveDataFile
    <2>2. CASE f # AppendFile
      BY <2>2, <1>3 DEF StoreInv, DiskInv, SetActiveDataFile
    <2> QED BY <2>1, <2>2
  <1>7. LogWellFormed'
    <2> SUFFICES ASSUME NEW p \in LogPositions'
                 PROVE  WellFormed(RecAt(p))'
      BY DEF LogWellFormed
    <2>1. CASE p \in LogPositions
      <3>1. WellFormed(RecAt(p)) /\ RecAt(p)' = RecAt(p)
        BY <2>1, <1>4 DEF StoreInv, LogWellFormed, LogKept
      <3> QED BY <3>1 DEF WellFormed
    <2>2. CASE p = pos
      <3>1. RecAt(p)' = rec
        BY <2>2, <1>4 DEF RecAt
      <3> QED BY <3>1 DEF WellFormed
    <2> QED BY <2>1, <2>2, <1>4
  <1>8. /\ activeFile' = AppendFile
        /\ onDisk' = onDisk \cup {AppendFile}
        /\ activeFile = -1 \/ activeFile \in olderFiles' \cup {activeFile'}
        /\ olderFiles \subseteq olderFiles'
    BY DEF SetActiveDataFile, OlderAfterRotation, AppendFile, NewFile
  <1>9. Opened \subseteq Opened'
    BY <1>8, SizesAssumption DEF Opened, FileIds
  <1>10. WriterInv'
    <2>1. activeFile # -1 => onDisk \subseteq Opened /\ activeFile \in onDisk
      BY DEF StoreInv, StoreTypeOK, WriterInv, Opened
    <2>2. activeFile = -1 => onDisk = {}
      BY DEF StoreInv, WriterInv
    <2>3. onDisk \subseteq olderFiles' \cup {activeFile'}
      BY <2>1, <2>2, <1>9 DEF Opened
    <2>4. AppendFile \in Int /\ AppendFile # -1 /\ AppendFile =< AppendFile
      BY <1>1, SizesAssumption DEF FileIds
    <2>5. writeOff' = Len(files'[activeFile'])
      BY <1>1, <1>3, <1>8
    <2> QED BY <1>1, <1>8, <2>3, <2>4, <2>5 DEF WriterInv
  <1> QED BY <1>4, <1>5, <1>6, <1>7, <1>9, <1>10 DEF StoreInv

\* appendLogRecord that returns a position.
LEMMA StoreAfterAppend ==
    ASSUME StoreInv, phase = "open", phase' = phase,
           NEW rec \in Records, WellFormed(rec),
           NEW alsoSync \in BOOLEAN, AppendLogRecord(rec, alsoSync),
           NEW pos, pos = AppendPos
    PROVE  /\ StoreInv' /\ LogKept /\ Opened \subseteq Opened'
           /\ pos \in Positions
           /\ LogPositions' = LogPositions \cup {pos}
           /\ files'[pos.fid][pos.off + 1] = rec
  <1>1. /\ SetActiveDataFile
        /\ files' = [files EXCEPT ![AppendFile] = Append(@, rec)]
        /\ writeOff' = AppendOff + 1
    BY DEF AppendLogRecord
  <1>2. bytesWrite' \in Nat
    BY DEF AppendLogRecord, StoreInv, StoreTypeOK
  <1>3. AppendFile \in FileIds
    BY <1>1, AppendPlace DEF SetActiveDataFile
  <1>4. /\ files \in [FileIds -> Seq(Records)]
        /\ \A g \in FileIds \ {AppendFile} : files'[g] = files[g]
        /\ Len(files'[AppendFile]) = Len(files[AppendFile]) + 1
        /\ Len(files[AppendFile]) \in Nat
    BY <1>1, <1>3, AppendToFile DEF StoreInv, StoreTypeOK
  <1>5. /\ SyncedAfterRotation \in [FileIds -> Nat]
        /\ \A f \in FileIds : SyncedAfterRotation[f] =< Len(files'[f])
    <2>1. /\ SyncedAfterRotation \in [FileIds -> Nat]
          /\ \A f \in FileIds : SyncedAfterRotation[f] =< Len(files[f])
      BY RotationSync
    <2>2. SyncedAfterRotation[AppendFile] =< Len(files'[AppendFile])
      BY <2>1, <1>3, <1>4
    <2> QED BY <2>1, <2>2, <1>4
  <1>6. \/ synced' = SyncedAfterRotation
        \/ synced' = [SyncedAfterRotation EXCEPT
                         ![AppendFile] = Len(files[AppendFile]) + 1]
    BY DEF AppendLogRecord
  <1>7. /\ synced' \in [FileIds -> Nat]
        /\ \A f \in FileIds : synced'[f] =< Len(files'[f])
    <2>1. CASE synced' = SyncedAfterRotation
      BY <2>1, <1>5
    <2>2. CASE synced' = [SyncedAfterRotation EXCEPT
                            ![AppendFile] = Len(files[AppendFile]) + 1]
      <3>1. synced' \in [FileIds -> Nat]
        BY <2>2, <1>3, <1>4, <1>5
      <3>2. synced'[AppendFile] = Len(files'[AppendFile])
        BY <2>2, <1>3, <1>4, <1>5
      <3>3. \A f \in FileIds \ {AppendFile} : synced'[f] = SyncedAfterRotation[f]
        BY <2>2, <1>5
      <3>4. synced'[AppendFile] =< Len(files'[AppendFile])
        BY <3>1, <3>2, <1>3, <1>4
      <3> QED BY <3>1, <3>3, <3>4, <1>5
    <2> QED BY <1>6, <2>1, <2>2
  <1> QED BY <1>1, <1>2, <1>7, StoreWithWrite

\* appendLogRecord that returns an error: the log may still have grown.
LEMMA StoreAfterFailure ==
    ASSUME StoreInv, phase = "open", phase' = phase,
           NEW rec \in Records, WellFormed(rec), AppendFails(rec)
    PROVE  StoreInv' /\ LogKept /\ Opened \subseteq Opened'
  <1>1. CASE RotationSyncFails
    <2>1. UNCHANGED <<files, onDisk, synced, activeFile, olderFiles, writeOff,
                      bytesWrite>>
      BY <1>1 DEF RotationSyncFails, disk, writer
    <2>2. StoreTypeOK' /\ DiskInv' /\ WriterInv'
      BY <2>1 DEF StoreInv, StoreTypeOK, DiskInv, WriterInv
    <2>3. LogWellFormed'
      BY <2>1, LogUnchanged DEF StoreInv, LogWellFormed, WellFormed
    <2> QED BY <2>1, <2>2, <2>3, LogUnchanged DEF StoreInv, Opened
  <1>2. CASE OpenFails
    <2>1. /\ UNCHANGED <<files, onDisk, activeFile, writeOff, bytesWrite>>
          /\ olderFiles' = OlderAfterRotation /\ synced' = SyncedAfterRotation
      BY <1>2 DEF OpenFails
    <2>2. olderFiles \subseteq olderFiles' /\ olderFiles' \subseteq FileIds
      BY <2>1 DEF OlderAfterRotation, Rotates, StoreInv, StoreTypeOK
    <2>3. StoreTypeOK' /\ DiskInv'
      BY <2>1, <2>2, RotationSync DEF StoreInv, StoreTypeOK, DiskInv
    <2>4. WriterInv'
      BY <2>1, <2>2 DEF StoreInv, WriterInv
    <2>5. LogWellFormed'
      BY <2>1, LogUnchanged DEF StoreInv, LogWellFormed, WellFormed
    <2> QED BY <2>1, <2>2, <2>3, <2>4, <2>5, LogUnchanged DEF StoreInv, Opened
  <1>3. CASE WriteFails
    BY <1>3, StoreWithoutWrite DEF WriteFails
  <1>4. CASE SyncAfterWriteFails(rec)
    <2>1. /\ SetActiveDataFile
          /\ files' = [files EXCEPT ![AppendFile] = Append(@, rec)]
          /\ writeOff' = AppendOff + 1
          /\ bytesWrite' = bytesWrite + 1
          /\ synced' = SyncedAfterRotation
      BY <1>4 DEF SyncAfterWriteFails
    <2>2. AppendFile \in FileIds
      BY <2>1, AppendPlace DEF SetActiveDataFile
    <2>3. /\ files \in [FileIds -> Seq(Records)]
          /\ \A g \in FileIds \ {AppendFile} : files'[g] = files[g]
          /\ Len(files'[AppendFile]) = Len(files[AppendFile]) + 1
          /\ Len(files[AppendFile]) \in Nat
          /\ bytesWrite' \in Nat
      BY <2>1, <2>2, AppendToFile DEF StoreInv, StoreTypeOK
    <2>4. /\ SyncedAfterRotation \in [FileIds -> Nat]
          /\ \A f \in FileIds : SyncedAfterRotation[f] =< Len(files[f])
      BY RotationSync
    <2>5. SyncedAfterRotation[AppendFile] =< Len(files'[AppendFile])
      BY <2>2, <2>3, <2>4
    <2>6. \A f \in FileIds : synced'[f] =< Len(files'[f])
      BY <2>1, <2>3, <2>4, <2>5
    <2> QED BY <2>1, <2>3, <2>4, <2>6, StoreWithWrite
  <1> QED BY <1>1, <1>2, <1>3, <1>4 DEF AppendFails

-----------------------------------------------------------------------------
\* What a step leaves alone stays as it was

LEMMA EntryKept ==
    ASSUME LogKept, Opened \subseteq Opened', NEW k, NEW p, EntrySound(k, p)
    PROVE  EntrySound(k, p)'
  <1>1. p \in LogPositions' /\ RecAt(p)' = RecAt(p)
    BY DEF EntrySound, LogKept
  <1>2. Committed(RecAt(p).seq)
    BY DEF EntrySound
  <1>3. \A s : Committed(s) => Committed(s)'
    BY CommittedKept
  <1>4. Committed(RecAt(p).seq)'
    <2>1. PICK s : s = RecAt(p).seq
      OBVIOUS
    <2>2. Committed(s)'
      BY <1>2, <1>3, <2>1
    <2>3. RecAt(p)'.seq = s
      BY <1>1, <2>1
    <2> QED BY <2>2, <2>3
  <1>5. p.fid \in Opened
    BY DEF EntrySound, Opened, LogPositions, Positions
  <1> QED BY <1>1, <1>4, <1>5 DEF EntrySound, Opened

LEMMA IndexKept ==
    ASSUME IndexSound, LogKept, Opened \subseteq Opened', UNCHANGED index
    PROVE  IndexSound'
  <1> SUFFICES ASSUME NEW k \in Keys, index'[k] # NoPos
               PROVE  EntrySound(k, index[k])'
    BY DEF IndexSound
  <1>1. \A p : EntrySound(k, p) => EntrySound(k, p)'
    BY EntryKept
  <1>2. PICK p : p = index[k]
    OBVIOUS
  <1>3. EntrySound(k, p)'
    BY <1>1, <1>2 DEF IndexSound
  <1> QED BY <1>2, <1>3

LEMMA AppendedKept ==
    ASSUME LogKept, NEW c, NEW k, NEW s, Appended(c, k, s),
           positions'[c] = positions[c], pending'[c] = pending[c]
    PROVE  Appended(c, k, s)'
  <1>1. PICK p : p = positions[c][k]
    OBVIOUS
  <1>2. p \in LogPositions' /\ RecAt(p)' = RecAt(p)
    BY <1>1 DEF Appended, LogKept
  <1>3. RecAt(p)' = [seq |-> s, key |-> k, val |-> pending[c][k]]
    BY <1>1, <1>2 DEF Appended
  <1> QED BY <1>1, <1>2, <1>3 DEF Appended

LEMMA DirectKept ==
    ASSUME LogKept, NEW c, DirectInv(c), pc'[c] = pc[c],
           positions'[c] = positions[c], pending'[c] = pending[c]
    PROVE  DirectInv(c)'
  <1> SUFFICES ASSUME NEW k \in Keys, pc'[c] = "index", Written(c, k)'
               PROVE  Appended(c, k, 0)'
    BY DEF DirectInv
  <1>1. pc[c] = "index" /\ Written(c, k)
    BY DEF Written
  <1> QED BY <1>1, AppendedKept DEF DirectInv

LEMMA BatchKept ==
    ASSUME LogKept, NEW c, BatchInv(c), pc'[c] = pc[c],
           positions'[c] = positions[c], pending'[c] = pending[c],
           UNCHANGED <<seqNo, todo>>
    PROVE  BatchInv(c)'
  <1>1. ASSUME NEW k \in Keys, pc'[c] # "idle", Written(c, k)'
        PROVE  Appended(c, k, seqNo)'
    <2>1. pc[c] # "idle" /\ Written(c, k)
      BY <1>1 DEF Written
    <2>2. PICK s : s = seqNo
      OBVIOUS
    <2>3. Appended(c, k, s)'
      BY <2>1, <2>2, AppendedKept DEF BatchInv
    <2> QED BY <2>2, <2>3
  <1>2. pc'[c] = "apply" => Committed(seqNo)'
    <2>1. PICK s : s = seqNo
      OBVIOUS
    <2>2. pc[c] = "apply" => Committed(s)'
      BY <2>1, CommittedKept DEF BatchInv
    <2> QED BY <2>1, <2>2
  <1> QED BY <1>1, <1>2 DEF BatchInv

LEMMA BatchIdle ==
    ASSUME NEW c, pc'[c] = "idle"
    PROVE  BatchInv(c)'
  BY DEF BatchInv

LEMMA TxnKept ==
    ASSUME LogKept, phase' # "loading", UNCHANGED txn, LoaderInv
    PROVE  LoaderInv'
  <1> SUFFICES ASSUME NEW s \in SeqNos, NEW p \in txn[s]
               PROVE  p \in LogPositions' /\ RecAt(p)'.seq = s /\ RecAt(p)'.val # Finished
    BY DEF LoaderInv
  <1> QED BY DEF LoaderInv, LogKept

-----------------------------------------------------------------------------
\* Put and Delete

LEMMA DirectRecordType ==
    ASSUME NEW k \in Keys, NEW v \in Values \cup {Tombstone}
    PROVE  DirectRecord(k, v) \in Records /\ WellFormed(DirectRecord(k, v))
  BY MarkersAssumption, SizesAssumption DEF DirectRecord, Records, WellFormed

LEMMA DirectAppendStep ==
    ASSUME IndInv, NEW c \in DirectClients, NEW k \in Keys,
           NEW v \in Values \cup {Tombstone},
           phase = "open", DirectAppend(c, k, v)
    PROVE  IndInv'
  <1> DEFINE rec == DirectRecord(k, v)
  <1>1. rec \in Records /\ WellFormed(rec)
    BY DirectRecordType
  <1>2. /\ AppendLogRecord(rec, FALSE)
        /\ pc' = [pc EXCEPT ![c] = "index"]
        /\ pending' = [pending EXCEPT ![c] = [NoWrites EXCEPT ![k] = v]]
        /\ positions' = [positions EXCEPT ![c][k] = AppendPos]
        /\ UNCHANGED <<phase, seqNo, index, mu, cursor, txn, todo, batchOf, acked>>
    BY DEF DirectAppend, loader, history
  <1>3. PICK pos : pos = AppendPos
    OBVIOUS
  <1> HIDE DEF rec
  <1>4. /\ StoreInv' /\ LogKept /\ Opened \subseteq Opened'
        /\ pos \in Positions
        /\ pos \in LogPositions'
        /\ files'[pos.fid][pos.off + 1] = rec
    BY <1>1, <1>2, <1>3, StoreAfterAppend DEF IndInv
  <1>5. c \in Clients /\ c \notin BatchClients
    BY ClientsAssumption DEF Clients
  <1>6. CallersTypeOK'
    <2>1. [NoWrites EXCEPT ![k] = v] \in WriteSets
      BY DEF NoWrites, WriteSets
    <2>2. pending' \in [Clients -> WriteSets]
      BY <2>1, <1>2 DEF IndInv, CallersTypeOK
    <2>3. positions' \in [Clients -> [Keys -> Positions \cup {NoPos}]]
      BY <1>2, <1>3, <1>4, <1>5 DEF IndInv, CallersTypeOK
    <2>4. pc' \in [Clients -> {"idle", "delete", "index", "append", "finish", "apply"}]
      BY <1>2 DEF IndInv, CallersTypeOK
    <2> QED BY <1>2, <2>2, <2>3, <2>4 DEF IndInv, CallersTypeOK
  <1>7. LoaderInv'
    BY <1>2, <1>4, TxnKept DEF IndInv
  <1>8. LockInv'
    BY <1>2, <1>5 DEF IndInv, LockInv, CallersTypeOK, Clients, Staged
  <1>9. IndexSound'
    BY <1>2, <1>4, IndexKept DEF IndInv
  <1>10. DirectInv(c)'
    <2> SUFFICES ASSUME NEW j \in Keys, Written(c, j)'
                 PROVE  Appended(c, j, 0)'
      BY DEF DirectInv
    <2>1. pending'[c] = [NoWrites EXCEPT ![k] = v]
      BY <1>2, <1>5 DEF IndInv, CallersTypeOK
    <2>2. j = k
      BY <2>1 DEF Written, NoWrites
    <2>3. positions'[c][j] = pos /\ pending'[c][j] = v
      BY <2>1, <2>2, <1>2, <1>3, <1>5 DEF IndInv, CallersTypeOK, NoWrites
    <2>4. RecAt(pos)' = [seq |-> 0, key |-> j, val |-> v]
      BY <1>4, <2>2 DEF RecAt, rec, DirectRecord
    <2> QED BY <1>4, <2>3, <2>4 DEF Appended, RecAt
  <1>11. \A d \in Clients \ {c} : /\ pc'[d] = pc[d]
                                  /\ pending'[d] = pending[d]
                                  /\ positions'[d] = positions[d]
    BY <1>2 DEF IndInv, CallersTypeOK
  <1>12. CallersInv'
    <2>1. \A d \in DirectClients : DirectInv(d)'
      BY <1>4, <1>10, <1>11, DirectKept DEF IndInv, CallersInv, Clients
    <2>2. \A d \in BatchClients : BatchInv(d)'
      BY <1>2, <1>4, <1>5, <1>11, BatchKept DEF IndInv, CallersInv, Clients
    <2> QED BY <2>1, <2>2 DEF CallersInv
  <1> QED BY <1>4, <1>6, <1>7, <1>8, <1>9, <1>12 DEF IndInv

\* A step that does not touch the files or the writer.
LEMMA StoreSame ==
    ASSUME StoreInv, UNCHANGED <<disk, phase, writer>>
    PROVE  StoreInv' /\ LogKept /\ Opened \subseteq Opened'
  <1>1. UNCHANGED <<files, onDisk, synced, phase, activeFile, olderFiles, writeOff,
                    bytesWrite>>
    BY DEF disk, writer
  <1>2. StoreTypeOK' /\ DiskInv' /\ WriterInv'
    BY <1>1 DEF StoreInv, StoreTypeOK, DiskInv, WriterInv
  <1>3. LogWellFormed'
    BY <1>1, LogUnchanged DEF StoreInv, LogWellFormed, WellFormed
  <1> QED BY <1>1, <1>2, <1>3, LogUnchanged DEF StoreInv, Opened

\* A failed append that ends a call, or leaves it idle.
LEMMA PutFailsStep ==
    ASSUME IndInv, NEW c \in DirectClients, PutFails(c)
    PROVE  IndInv'
  <1>1. PICK k \in Keys, v \in Values : AppendFails(DirectRecord(k, v))
    BY ClientsAssumption DEF PutFails, Clients
  <1>2. /\ phase = "open"
        /\ UNCHANGED <<phase, seqNo, index, mu, cursor, txn, pc, pending, positions,
                       todo, batchOf, acked>>
    BY DEF PutFails, Calm, loader, callers, history
  <1>3. StoreInv' /\ LogKept /\ Opened \subseteq Opened'
    BY <1>1, <1>2, DirectRecordType, StoreAfterFailure DEF IndInv
  <1>4. CallersTypeOK' /\ LockInv'
    BY <1>2 DEF IndInv, CallersTypeOK, LockInv, Staged
  <1>5. LoaderInv' /\ IndexSound'
    BY <1>2, <1>3, TxnKept, IndexKept DEF IndInv
  <1>6. CallersInv'
    BY <1>2, <1>3, DirectKept, BatchKept DEF IndInv, CallersInv
  <1> QED BY <1>3, <1>4, <1>5, <1>6 DEF IndInv

LEMMA DeleteFailsStep ==
    ASSUME IndInv, NEW c \in DirectClients, DeleteFails(c)
    PROVE  IndInv'
  <1>1. PICK k \in Keys : AppendFails(DirectRecord(k, Tombstone))
    BY DEF DeleteFails
  <1>2. /\ phase = "open"
        /\ pc' = [pc EXCEPT ![c] = "idle"]
        /\ pending' = [pending EXCEPT ![c] = NoWrites]
        /\ UNCHANGED <<phase, seqNo, index, mu, cursor, txn, positions, todo,
                       batchOf, acked>>
    BY DEF DeleteFails, loader, history
  <1>3. StoreInv' /\ LogKept /\ Opened \subseteq Opened'
    BY <1>1, <1>2, DirectRecordType, StoreAfterFailure DEF IndInv
  <1>4. c \in Clients /\ c \notin BatchClients
    BY ClientsAssumption DEF Clients
  <1>5. CallersTypeOK' /\ LockInv'
    BY <1>2, <1>4 DEF IndInv, CallersTypeOK, LockInv, Staged, NoWrites, WriteSets, Clients
  <1>6. LoaderInv' /\ IndexSound'
    BY <1>2, <1>3, TxnKept, IndexKept DEF IndInv
  <1>7. \A d \in Clients \ {c} : pc'[d] = pc[d] /\ pending'[d] = pending[d]
    BY <1>2 DEF IndInv, CallersTypeOK
  <1>8. DirectInv(c)'
    BY <1>2, <1>4 DEF DirectInv, IndInv, CallersTypeOK
  <1>9. CallersInv'
    BY <1>2, <1>3, <1>4, <1>7, <1>8, DirectKept, BatchKept DEF IndInv, CallersInv, Clients
  <1> QED BY <1>3, <1>5, <1>6, <1>9 DEF IndInv

LEMMA DeleteCheckStep ==
    ASSUME IndInv, NEW c \in DirectClients, DeleteCheck(c)
    PROVE  IndInv'
  <1>1. PICK k \in Keys :
          pending' = [pending EXCEPT ![c] = [NoWrites EXCEPT ![k] = Tombstone]]
    BY ClientsAssumption DEF DeleteCheck, Clients
  <1>2. /\ phase = "open"
        /\ pc' = [pc EXCEPT ![c] = "delete"]
        /\ UNCHANGED <<disk, phase, writer, seqNo, index, mu, cursor, txn, positions,
                       todo, batchOf, acked>>
    BY DEF DeleteCheck, Calm, loader, history
  <1>3. StoreInv' /\ LogKept /\ Opened \subseteq Opened'
    BY <1>2, StoreSame DEF IndInv
  <1>4. c \in Clients /\ c \notin BatchClients
    BY ClientsAssumption DEF Clients
  <1>5. CallersTypeOK'
    <2>1. [NoWrites EXCEPT ![k] = Tombstone] \in WriteSets
      BY DEF NoWrites, WriteSets
    <2> QED BY <1>1, <1>2, <2>1 DEF IndInv, CallersTypeOK
  <1>6. LockInv'
    BY <1>1, <1>2, <1>4 DEF IndInv, CallersTypeOK, LockInv, Staged, Clients
  <1>7. LoaderInv' /\ IndexSound'
    BY <1>2, <1>3, TxnKept, IndexKept DEF IndInv
  <1>8. \A d \in Clients \ {c} : pc'[d] = pc[d] /\ pending'[d] = pending[d]
    BY <1>1, <1>2 DEF IndInv, CallersTypeOK
  <1>9. DirectInv(c)'
    BY <1>2, <1>4 DEF DirectInv, IndInv, CallersTypeOK
  <1>10. CallersInv'
    BY <1>2, <1>3, <1>4, <1>8, <1>9, DirectKept, BatchKept DEF IndInv, CallersInv, Clients
  <1> QED BY <1>3, <1>5, <1>6, <1>7, <1>10 DEF IndInv

\* The update that index.Put or index.Delete makes for a record that counts.
LEMMA IndexAfterUpdate ==
    ASSUME IndexSound, CallersTypeOK, LogKept, Opened \subseteq Opened',
           NEW k \in Keys, NEW v \in Values \cup {Tombstone}, NEW p \in Positions,
           UpdateIndex(k, v, p), v # Tombstone => EntrySound(k, p)
    PROVE  IndexSound' /\ index' \in [Keys -> Positions \cup {NoPos}]
  <1>1. index' = [index EXCEPT ![k] = IF v = Tombstone THEN NoPos ELSE p]
    BY DEF UpdateIndex, IndexEntry
  <1>2. index \in [Keys -> Positions \cup {NoPos}]
    BY DEF CallersTypeOK
  <1>3. ASSUME NEW j \in Keys, index'[j] # NoPos
        PROVE  EntrySound(j, index[j])'
    <2>1. PICK q : q = index'[j]
      OBVIOUS
    <2>2. EntrySound(j, q)
      <3>1. CASE j = k
        BY <1>1, <1>2, <1>3, <2>1, <3>1
      <3>2. CASE j # k
        BY <1>1, <1>2, <1>3, <2>1, <3>2 DEF IndexSound
      <3> QED BY <3>1, <3>2
    <2>3. EntrySound(j, q)'
      BY <2>2, EntryKept
    <2> QED BY <2>1, <2>3
  <1> QED BY <1>1, <1>2, <1>3 DEF IndexSound

LEMMA FileOpened ==
    ASSUME StoreInv, phase # "closed", NEW p \in LogPositions
    PROVE  p.fid \in olderFiles \cup {activeFile}
  <1>1. p.fid \in FileIds /\ p.off \in Nat /\ p.off < Len(files[p.fid])
    BY SizesAssumption DEF LogPositions, Positions
  <1>2. p.fid \in onDisk
    BY <1>1 DEF StoreInv, DiskInv
  <1> QED BY <1>2 DEF StoreInv, WriterInv

LEMMA DirectIndexStep ==
    ASSUME IndInv, NEW c \in DirectClients, DirectIndex(c)
    PROVE  IndInv'
  <1>1. PICK k \in Keys :
          /\ pending[c][k] # NoWrite
          /\ UpdateIndex(k, pending[c][k], positions[c][k])
          /\ positions' = [positions EXCEPT ![c][k] = NoPos]
    BY DEF DirectIndex
  <1>2. /\ phase = "open" /\ pc[c] = "index"
        /\ pc' = [pc EXCEPT ![c] = "idle"]
        /\ pending' = [pending EXCEPT ![c] = NoWrites]
        /\ UNCHANGED <<disk, phase, writer, seqNo, mu, cursor, txn, todo, batchOf,
                       acked>>
    BY DEF DirectIndex, loader, history
  <1>3. StoreInv' /\ LogKept /\ Opened \subseteq Opened'
    BY <1>2, StoreSame DEF IndInv
  <1>4. c \in Clients /\ c \notin BatchClients
    BY ClientsAssumption DEF Clients
  <1>5. PICK p : p = positions[c][k]
    OBVIOUS
  <1>6. PICK v : v = pending[c][k]
    OBVIOUS
  <1>7. v \in Values \cup {Tombstone}
    BY <1>1, <1>4, <1>6 DEF IndInv, CallersTypeOK, WriteSets
  <1>8. p \in LogPositions /\ RecAt(p) = [seq |-> 0, key |-> k, val |-> v]
    BY <1>1, <1>2, <1>5, <1>6
       DEF IndInv, CallersInv, DirectInv, Written, Appended
  <1>9. v # Tombstone => EntrySound(k, p)
    BY <1>2, <1>7, <1>8, FileOpened DEF EntrySound, Committed, IndInv
  <1>10. IndexSound' /\ index' \in [Keys -> Positions \cup {NoPos}]
    BY <1>1, <1>3, <1>5, <1>6, <1>7, <1>8, <1>9, IndexAfterUpdate
       DEF IndInv, LogPositions
  <1>11. CallersTypeOK'
    <2>1. positions' \in [Clients -> [Keys -> Positions \cup {NoPos}]]
      BY <1>1, <1>4 DEF IndInv, CallersTypeOK
    <2>2. pending' \in [Clients -> WriteSets]
      BY <1>2 DEF IndInv, CallersTypeOK, NoWrites, WriteSets
    <2> QED BY <1>2, <1>10, <2>1, <2>2 DEF IndInv, CallersTypeOK
  <1>12. LockInv'
    BY <1>2, <1>4 DEF IndInv, CallersTypeOK, LockInv, Staged, Clients
  <1>13. LoaderInv'
    BY <1>2, <1>3, TxnKept DEF IndInv
  <1>14. \A d \in Clients \ {c} : /\ pc'[d] = pc[d] /\ pending'[d] = pending[d]
                                  /\ positions'[d] = positions[d]
    BY <1>1, <1>2 DEF IndInv, CallersTypeOK
  <1>15. DirectInv(c)'
    BY <1>2, <1>4 DEF DirectInv, IndInv, CallersTypeOK
  <1>16. CallersInv'
    BY <1>2, <1>3, <1>4, <1>14, <1>15, DirectKept, BatchKept
       DEF IndInv, CallersInv, Clients
  <1> QED BY <1>3, <1>10, <1>11, <1>12, <1>13, <1>16 DEF IndInv

-----------------------------------------------------------------------------
\* WriteBatch

LEMMA StageStep ==
    ASSUME IndInv, NEW c \in BatchClients, NEW k \in Keys,
           NEW v \in Values \cup {Tombstone, NoWrite}, pc[c] = "idle", phase = "open",
           pending' = [pending EXCEPT ![c][k] = v],
           UNCHANGED <<disk, phase, writer, seqNo, index, mu, loader, pc, positions,
                       todo, history>>
    PROVE  IndInv'
  <1>1. UNCHANGED <<disk, phase, writer, seqNo, index, mu, cursor, txn, pc, positions,
                    todo, batchOf, acked>>
    BY DEF loader, history
  <1>2. StoreInv' /\ LogKept /\ Opened \subseteq Opened'
    BY <1>1, StoreSame DEF IndInv
  <1>3. c \in Clients /\ c \notin DirectClients
    BY ClientsAssumption DEF Clients
  <1>4. CallersTypeOK'
    <2>1. pending' \in [Clients -> WriteSets]
      BY <1>3 DEF IndInv, CallersTypeOK, WriteSets
    <2> QED BY <1>1, <2>1 DEF IndInv, CallersTypeOK
  <1>5. \A d \in Clients \ {c} : pending'[d] = pending[d]
    BY DEF IndInv, CallersTypeOK
  <1>6. LockInv'
    BY <1>1, <1>3, <1>5 DEF IndInv, LockInv, Staged, Clients
  <1>7. LoaderInv' /\ IndexSound'
    BY <1>1, <1>2, TxnKept, IndexKept DEF IndInv
  <1>8. BatchInv(c)'
    BY <1>1, BatchIdle
  <1>9. CallersInv'
    BY <1>1, <1>2, <1>3, <1>5, <1>8, DirectKept, BatchKept
       DEF IndInv, CallersInv, Clients
  <1> QED BY <1>2, <1>4, <1>6, <1>7, <1>9 DEF IndInv

LEMMA WBPutStep ==
    ASSUME IndInv, NEW c \in BatchClients, WBPut(c)
    PROVE  IndInv'
  <1>1. PICK k \in Keys, v \in Values : pending' = [pending EXCEPT ![c][k] = v]
    BY ClientsAssumption DEF WBPut, Clients
  <1> QED BY <1>1, StageStep DEF WBPut, Calm

LEMMA WBDeleteStep ==
    ASSUME IndInv, NEW c \in BatchClients, WBDelete(c)
    PROVE  IndInv'
  <1>1. PICK k \in Keys, v \in {NoWrite, Tombstone} :
          pending' = [pending EXCEPT ![c][k] = v]
    BY ClientsAssumption DEF WBDelete, Clients
  <1> QED BY <1>1, StageStep DEF WBDelete, Calm

\* While c is inside Commit no other batch is.
LEMMA OneCommit ==
    ASSUME LockInv, NEW c \in BatchClients, pc[c] # "idle"
    PROVE  /\ mu = c /\ mu # NoClient
           /\ \A d \in BatchClients \ {c} : pc[d] = "idle"
           /\ phase = "open" /\ seqNo # 0
  BY ClientsAssumption DEF LockInv, Clients

LEMMA CommitStartStep ==
    ASSUME IndInv, NEW c \in BatchClients, CommitStart(c)
    PROVE  IndInv'
  <1>1. /\ phase = "open" /\ pc[c] = "idle" /\ mu = NoClient /\ seqNo < MaxSeqNo
        /\ mu' = c /\ seqNo' = seqNo + 1
        /\ batchOf' = [batchOf EXCEPT ![seqNo + 1] = pending[c]]
        /\ todo' = Staged(c)
        /\ pc' = [pc EXCEPT ![c] = "append"]
        /\ UNCHANGED <<disk, phase, writer, index, cursor, txn, pending, positions,
                       acked>>
    BY DEF CommitStart, Calm, Locked, loader
  <1>2. StoreInv' /\ LogKept /\ Opened \subseteq Opened'
    BY <1>1, StoreSame DEF IndInv
  <1>3. c \in Clients /\ c \notin DirectClients /\ c # NoClient
    BY ClientsAssumption DEF Clients
  <1>4. /\ pc'[c] = "append"
        /\ \A d \in Clients \ {c} : pc'[d] = pc[d]
        /\ seqNo' \in 0 .. MaxSeqNo /\ seqNo' # 0
    BY <1>1, <1>3, SizesAssumption DEF IndInv, CallersTypeOK
  <1>5. CallersTypeOK'
    <2>1. batchOf' \in [SeqNos -> WriteSets]
      BY <1>1, <1>3 DEF IndInv, CallersTypeOK
    <2>2. todo' \subseteq Keys
      BY <1>1 DEF Staged
    <2> QED BY <1>1, <1>4, <2>1, <2>2 DEF IndInv, CallersTypeOK
  <1>6. \A d \in BatchClients \ {c} : pc[d] = "idle"
    BY <1>1, ClientsAssumption DEF IndInv, LockInv, Clients
  <1>7. LockInv'
    BY <1>1, <1>3, <1>4, <1>6 DEF IndInv, LockInv, Staged, Clients
  <1>8. LoaderInv' /\ IndexSound'
    BY <1>1, <1>2, TxnKept, IndexKept DEF IndInv
  <1>9. BatchInv(c)'
    BY <1>1, <1>4 DEF BatchInv, Written, Staged
  <1>10. \A d \in BatchClients \ {c} : BatchInv(d)'
    BY <1>4, <1>6, BatchIdle DEF Clients
  <1>11. CallersInv'
    BY <1>1, <1>2, <1>3, <1>4, <1>9, <1>10, DirectKept
       DEF IndInv, CallersInv, Clients
  <1> QED BY <1>2, <1>5, <1>7, <1>8, <1>11 DEF IndInv

LEMMA BatchRecordType ==
    ASSUME IndInv, NEW c \in BatchClients, pc[c] = "append", NEW k \in todo
    PROVE  /\ k \in Keys /\ pending[c][k] \in Values \cup {Tombstone}
           /\ BatchRecord(c, k) \in Records /\ WellFormed(BatchRecord(c, k))
  <1>1. k \in Keys /\ pending[c][k] # NoWrite
    BY DEF IndInv, LockInv, Staged
  <1>2. pending[c][k] \in Values \cup {Tombstone} /\ seqNo \in 0 .. MaxSeqNo
    BY <1>1 DEF IndInv, CallersTypeOK, WriteSets, Clients
  <1> QED BY <1>1, <1>2, MarkersAssumption DEF BatchRecord, Records, WellFormed

LEMMA FinishedRecordType ==
    ASSUME IndInv, seqNo # 0
    PROVE  FinishedRecord \in Records /\ WellFormed(FinishedRecord)
  BY DEF FinishedRecord, Records, WellFormed, IndInv, CallersTypeOK

LEMMA CommitAppendStep ==
    ASSUME IndInv, NEW c \in BatchClients, CommitAppend(c)
    PROVE  IndInv'
  <1>1. /\ phase = "open" /\ pc[c] = "append"
        /\ UNCHANGED <<phase, seqNo, index, mu, cursor, txn, pending, batchOf, acked>>
    BY DEF CommitAppend, loader, history
  <1>2. PICK k \in todo :
          /\ AppendLogRecord(BatchRecord(c, k), FALSE)
          /\ positions' = [positions EXCEPT ![c][k] = AppendPos]
          /\ todo' = todo \ {k}
          /\ pc' = IF todo = {k} THEN [pc EXCEPT ![c] = "finish"] ELSE pc
    BY DEF CommitAppend
  <1>3. /\ k \in Keys
        /\ BatchRecord(c, k) \in Records /\ WellFormed(BatchRecord(c, k))
    BY <1>1, BatchRecordType
  <1>4. PICK pos : pos = AppendPos
    OBVIOUS
  <1>5. PICK rec : rec = BatchRecord(c, k)
    OBVIOUS
  <1>6. /\ StoreInv' /\ LogKept /\ Opened \subseteq Opened'
        /\ pos \in Positions /\ pos \in LogPositions'
        /\ files'[pos.fid][pos.off + 1] = rec
    BY <1>1, <1>2, <1>3, <1>4, <1>5, StoreAfterAppend DEF IndInv
  <1>7. c \in Clients /\ c \notin DirectClients
    BY ClientsAssumption DEF Clients
  <1>8. /\ mu = c /\ seqNo # 0
        /\ \A d \in BatchClients \ {c} : pc[d] = "idle"
    BY <1>1, OneCommit DEF IndInv
  <1>9. /\ \A d \in Clients \ {c} : pc'[d] = pc[d] /\ positions'[d] = positions[d]
        /\ pc'[c] = IF todo = {k} THEN "finish" ELSE "append"
    BY <1>1, <1>2, <1>7 DEF IndInv, CallersTypeOK
  <1>10. CallersTypeOK'
    <2>1. positions' \in [Clients -> [Keys -> Positions \cup {NoPos}]]
      BY <1>2, <1>3, <1>4, <1>6, <1>7 DEF IndInv, CallersTypeOK
    <2>2. pc' \in [Clients -> {"idle", "delete", "index", "append", "finish", "apply"}]
      BY <1>2, <1>7 DEF IndInv, CallersTypeOK
    <2> QED BY <1>1, <1>2, <2>1, <2>2 DEF IndInv, CallersTypeOK
  <1>11. LockInv'
    <2>1. todo \subseteq Staged(c)
      BY <1>1 DEF IndInv, LockInv
    <2> QED BY <1>1, <1>2, <1>7, <1>8, <1>9, <2>1 DEF IndInv, LockInv, Staged, Clients
  <1>12. LoaderInv' /\ IndexSound'
    BY <1>1, <1>6, TxnKept, IndexKept DEF IndInv
  <1>13. BatchInv(c)'
    <2> SUFFICES ASSUME NEW j \in Keys, Written(c, j)'
                 PROVE  Appended(c, j, seqNo)'
      BY <1>9 DEF BatchInv
    <2>1. pending[c][j] # NoWrite /\ j \notin todo'
      BY <1>1, <1>2, <1>9 DEF Written
    <2>2. PICK s : s = seqNo
      OBVIOUS
    <2>3. CASE j = k
      <3>1. positions'[c][j] = pos
        BY <2>3, <1>2, <1>3, <1>4, <1>7 DEF IndInv, CallersTypeOK
      <3>2. RecAt(pos)' = [seq |-> s, key |-> j, val |-> pending[c][j]]
        BY <2>2, <2>3, <1>5, <1>6 DEF RecAt, BatchRecord
      <3>3. Appended(c, j, s)'
        BY <1>1, <1>6, <3>1, <3>2 DEF Appended, RecAt
      <3> QED BY <3>3, <2>2, <1>1
    <2>4. CASE j # k
      <3>1. positions'[c][j] = positions[c][j]
        BY <2>4, <1>2, <1>7 DEF IndInv, CallersTypeOK
      <3>2. Appended(c, j, s)
        BY <2>1, <2>2, <2>4, <1>1, <1>2 DEF IndInv, CallersInv, BatchInv, Written
      <3>3. PICK p : p = positions[c][j]
        OBVIOUS
      <3>4. /\ p \in LogPositions' /\ RecAt(p)' = RecAt(p)
            /\ RecAt(p) = [seq |-> s, key |-> j, val |-> pending[c][j]]
        BY <3>2, <3>3, <1>6 DEF Appended, LogKept
      <3>5. Appended(c, j, s)'
        BY <1>1, <3>1, <3>3, <3>4 DEF Appended, RecAt
      <3> QED BY <3>5, <2>2, <1>1
    <2> QED BY <2>3, <2>4
  <1>14. \A d \in BatchClients \ {c} : BatchInv(d)'
    BY <1>8, <1>9, BatchIdle DEF Clients
  <1>15. CallersInv'
    BY <1>1, <1>6, <1>7, <1>9, <1>13, <1>14, DirectKept DEF IndInv, CallersInv, Clients
  <1> QED BY <1>6, <1>10, <1>11, <1>12, <1>15 DEF IndInv

LEMMA CommitFinishStep ==
    ASSUME IndInv, NEW c \in BatchClients, CommitFinish(c)
    PROVE  IndInv'
  <1>1. /\ phase = "open" /\ pc[c] = "finish"
        /\ AppendLogRecord(FinishedRecord, BatchSync)
        /\ todo' = Staged(c)
        /\ pc' = [pc EXCEPT ![c] = "apply"]
        /\ UNCHANGED <<phase, seqNo, index, mu, cursor, txn, pending, positions,
                       batchOf, acked>>
    BY DEF CommitFinish, loader, history
  <1>2. /\ mu = c /\ seqNo # 0
        /\ \A d \in BatchClients \ {c} : pc[d] = "idle"
    BY <1>1, OneCommit DEF IndInv
  <1>3. FinishedRecord \in Records /\ WellFormed(FinishedRecord)
    BY <1>2, FinishedRecordType
  <1>4. PICK pos : pos = AppendPos
    OBVIOUS
  <1>5. PICK rec : rec = FinishedRecord
    OBVIOUS
  <1>6. /\ StoreInv' /\ LogKept /\ Opened \subseteq Opened'
        /\ pos \in LogPositions'
        /\ files'[pos.fid][pos.off + 1] = rec
    BY <1>1, <1>3, <1>4, <1>5, OptionsAssumption, StoreAfterAppend DEF IndInv
  <1>7. c \in Clients /\ c \notin DirectClients
    BY ClientsAssumption DEF Clients
  <1>8. /\ \A d \in Clients \ {c} : pc'[d] = pc[d]
        /\ pc'[c] = "apply"
    BY <1>1, <1>7 DEF IndInv, CallersTypeOK
  <1>9. CallersTypeOK'
    BY <1>1 DEF IndInv, CallersTypeOK, Staged
  <1>10. LockInv'
    BY <1>1, <1>2, <1>7, <1>8 DEF IndInv, LockInv, Staged, Clients
  <1>11. LoaderInv' /\ IndexSound'
    BY <1>1, <1>6, TxnKept, IndexKept DEF IndInv
  <1>12. PICK s : s = seqNo
    OBVIOUS
  <1>13. Committed(s)'
    <2>1. RecAt(pos)'.seq = s /\ RecAt(pos)'.val = Finished
      BY <1>5, <1>6, <1>12 DEF RecAt, FinishedRecord
    <2> QED BY <2>1, <1>6 DEF Committed
  <1>14. BatchInv(c)'
    <2>1. ASSUME NEW k \in Keys, Written(c, k)'
          PROVE  Appended(c, k, s)'
      <3>1. Appended(c, k, s)
        BY <2>1, <1>1, <1>12 DEF IndInv, CallersInv, BatchInv, Written
      <3> QED BY <3>1, <1>1, <1>6, AppendedKept
    <2> QED BY <2>1, <1>1, <1>12, <1>13 DEF BatchInv
  <1>15. \A d \in BatchClients \ {c} : BatchInv(d)'
    BY <1>2, <1>8, BatchIdle DEF Clients
  <1>16. CallersInv'
    BY <1>1, <1>6, <1>7, <1>8, <1>14, <1>15, DirectKept DEF IndInv, CallersInv, Clients
  <1> QED BY <1>6, <1>9, <1>10, <1>11, <1>16 DEF IndInv

LEMMA CommitFailsStep ==
    ASSUME IndInv, NEW c \in BatchClients, CommitFails(c)
    PROVE  IndInv'
  <1>1. /\ phase = "open" /\ mu = c
        /\ mu' = NoClient
        /\ pc' = [pc EXCEPT ![c] = "idle"]
        /\ positions' = [positions EXCEPT ![c] = [k \in Keys |-> NoPos]]
        /\ todo' = {}
        /\ UNCHANGED <<phase, seqNo, index, cursor, txn, pending, batchOf, acked>>
    BY DEF CommitFails, loader, history
  <1>2. c \in Clients /\ c \notin DirectClients /\ c # NoClient
    BY ClientsAssumption DEF Clients
  <1>3. /\ pc[c] # "idle" /\ seqNo # 0
        /\ \A d \in BatchClients \ {c} : pc[d] = "idle"
    BY <1>1, <1>2 DEF IndInv, LockInv
  <1>4. StoreInv' /\ LogKept /\ Opened \subseteq Opened'
    <2>1. CASE pc[c] = "append" /\ \E k \in todo : AppendFails(BatchRecord(c, k))
      <3>1. PICK k \in todo : AppendFails(BatchRecord(c, k))
        BY <2>1
      <3>2. BatchRecord(c, k) \in Records /\ WellFormed(BatchRecord(c, k))
        BY <2>1, BatchRecordType
      <3> QED BY <1>1, <3>1, <3>2, StoreAfterFailure DEF IndInv
    <2>2. CASE AppendFails(FinishedRecord)
      BY <2>2, <1>1, <1>3, FinishedRecordType, StoreAfterFailure DEF IndInv
    <2>3. CASE AppendLogRecord(FinishedRecord, FALSE)
      BY <2>3, <1>1, <1>3, FinishedRecordType, StoreAfterAppend DEF IndInv
    <2> QED BY <2>1, <2>2, <2>3 DEF CommitFails
  <1>5. /\ \A d \in Clients \ {c} : pc'[d] = pc[d] /\ positions'[d] = positions[d]
        /\ pc'[c] = "idle"
    BY <1>1, <1>2 DEF IndInv, CallersTypeOK
  <1>6. CallersTypeOK'
    BY <1>1 DEF IndInv, CallersTypeOK
  <1>7. LockInv'
    BY <1>1, <1>2, <1>3, <1>5, ClientsAssumption DEF IndInv, LockInv, Clients
  <1>8. LoaderInv' /\ IndexSound'
    BY <1>1, <1>4, TxnKept, IndexKept DEF IndInv
  <1>9. \A d \in BatchClients : BatchInv(d)'
    BY <1>3, <1>5, BatchIdle DEF Clients
  <1>10. CallersInv'
    BY <1>1, <1>2, <1>4, <1>5, <1>9, DirectKept DEF IndInv, CallersInv, Clients
  <1> QED BY <1>4, <1>6, <1>7, <1>8, <1>10 DEF IndInv

LEMMA CommitIndexStep ==
    ASSUME IndInv, NEW c \in BatchClients, CommitIndex(c)
    PROVE  IndInv'
  <1>1. /\ phase = "open" /\ pc[c] = "apply"
        /\ UNCHANGED <<disk, phase, writer, seqNo, mu, cursor, txn, pc, pending,
                       positions, batchOf, acked>>
    BY DEF CommitIndex, loader, history
  <1>2. PICK k \in todo :
          UpdateIndex(k, pending[c][k], positions[c][k]) /\ todo' = todo \ {k}
    BY DEF CommitIndex
  <1>3. StoreInv' /\ LogKept /\ Opened \subseteq Opened'
    BY <1>1, StoreSame DEF IndInv
  <1>4. c \in Clients /\ c \notin DirectClients
    BY ClientsAssumption DEF Clients
  <1>5. \A d \in BatchClients \ {c} : pc[d] = "idle"
    BY <1>1, OneCommit DEF IndInv
  <1>6. k \in Keys /\ pending[c][k] # NoWrite
    BY <1>1, <1>2 DEF IndInv, LockInv, Staged
  <1>7. PICK p, v, s : p = positions[c][k] /\ v = pending[c][k] /\ s = seqNo
    OBVIOUS
  <1>8. v \in Values \cup {Tombstone}
    BY <1>4, <1>6, <1>7 DEF IndInv, CallersTypeOK, WriteSets
  <1>9. /\ p \in LogPositions /\ RecAt(p) = [seq |-> s, key |-> k, val |-> v]
        /\ Committed(s)
    BY <1>1, <1>6, <1>7 DEF IndInv, CallersInv, BatchInv, Written, Appended
  <1>10. v # Tombstone => EntrySound(k, p)
    BY <1>1, <1>8, <1>9, FileOpened DEF EntrySound, IndInv
  <1>11. IndexSound' /\ index' \in [Keys -> Positions \cup {NoPos}]
    BY <1>2, <1>3, <1>6, <1>7, <1>8, <1>9, <1>10, IndexAfterUpdate
       DEF IndInv, LogPositions
  <1>12. CallersTypeOK'
    BY <1>1, <1>2, <1>11 DEF IndInv, CallersTypeOK
  <1>13. LockInv'
    BY <1>1, <1>2, <1>5 DEF IndInv, LockInv, Staged
  <1>14. LoaderInv'
    BY <1>1, <1>3, TxnKept DEF IndInv
  <1>15. BatchInv(c)'
    <2>1. ASSUME NEW j \in Keys, Written(c, j)'
          PROVE  Appended(c, j, s)'
      <3>1. Appended(c, j, s)
        BY <2>1, <1>1, <1>7 DEF IndInv, CallersInv, BatchInv, Written
      <3> QED BY <3>1, <1>1, <1>3, AppendedKept
    <2>2. Committed(s)'
      BY <1>9, <1>3, CommittedKept
    <2> QED BY <2>1, <2>2, <1>1, <1>7 DEF BatchInv
  <1>16. \A d \in BatchClients \ {c} : BatchInv(d)'
    BY <1>1, <1>5, BatchIdle
  <1>17. CallersInv'
    BY <1>1, <1>3, <1>15, <1>16, DirectKept DEF IndInv, CallersInv
  <1> QED BY <1>3, <1>11, <1>12, <1>13, <1>14, <1>17 DEF IndInv

LEMMA CommitEndStep ==
    ASSUME IndInv, NEW c \in BatchClients, CommitEnd(c)
    PROVE  IndInv'
  <1>1. /\ phase = "open" /\ pc[c] = "apply"
        /\ mu' = NoClient
        /\ pc' = [pc EXCEPT ![c] = "idle"]
        /\ pending' = [pending EXCEPT ![c] = NoWrites]
        /\ positions' = [positions EXCEPT ![c] = [k \in Keys |-> NoPos]]
        /\ acked' = acked \cup {seqNo}
        /\ UNCHANGED <<disk, phase, writer, seqNo, index, cursor, txn, todo, batchOf>>
    BY DEF CommitEnd, loader
  <1>2. c \in Clients /\ c \notin DirectClients /\ c # NoClient
    BY ClientsAssumption DEF Clients
  <1>3. /\ mu = c /\ seqNo # 0
        /\ \A d \in BatchClients \ {c} : pc[d] = "idle"
    BY <1>1, OneCommit DEF IndInv
  <1>4. StoreInv' /\ LogKept /\ Opened \subseteq Opened'
    BY <1>1, StoreSame DEF IndInv
  <1>5. /\ \A d \in Clients \ {c} : /\ pc'[d] = pc[d] /\ pending'[d] = pending[d]
                                   /\ positions'[d] = positions[d]
        /\ pc'[c] = "idle"
    BY <1>1, <1>2 DEF IndInv, CallersTypeOK
  <1>6. CallersTypeOK'
    <2>1. seqNo \in SeqNos
      BY <1>3, SizesAssumption DEF IndInv, CallersTypeOK, SeqNos
    <2>2. pending' \in [Clients -> WriteSets]
      BY <1>1 DEF IndInv, CallersTypeOK, NoWrites, WriteSets
    <2> QED BY <1>1, <2>1, <2>2 DEF IndInv, CallersTypeOK
  <1>7. LockInv'
    BY <1>1, <1>2, <1>3, <1>5, ClientsAssumption DEF IndInv, LockInv, Clients
  <1>8. LoaderInv' /\ IndexSound'
    BY <1>1, <1>4, TxnKept, IndexKept DEF IndInv
  <1>9. \A d \in BatchClients : BatchInv(d)'
    BY <1>3, <1>5, BatchIdle DEF Clients
  <1>10. CallersInv'
    BY <1>1, <1>2, <1>4, <1>5, <1>9, DirectKept DEF IndInv, CallersInv, Clients
  <1> QED BY <1>4, <1>6, <1>7, <1>8, <1>10 DEF IndInv

-----------------------------------------------------------------------------
\* The instance

LEMMA SyncStep ==
    ASSUME IndInv, Sync
    PROVE  IndInv'
  <1>1. /\ phase = "open" /\ activeFile # NoFile
        /\ synced' = [synced EXCEPT ![activeFile] = Len(files[activeFile])]
        /\ UNCHANGED <<files, onDisk, phase, activeFile, olderFiles, writeOff,
                       bytesWrite, seqNo, index, mu, cursor, txn, pc, pending,
                       positions, todo, batchOf, acked>>
    BY DEF Sync, writer, loader, callers, history
  <1>2. /\ activeFile \in FileIds
        /\ files \in [FileIds -> Seq(Records)]
        /\ synced \in [FileIds -> Nat]
    BY <1>1 DEF IndInv, StoreInv, StoreTypeOK
  <1>3. Len(files[activeFile]) \in Nat
    BY <1>2
  <1>4. StoreTypeOK'
    BY <1>1, <1>2, <1>3 DEF IndInv, StoreInv, StoreTypeOK
  <1>5. DiskInv'
    <2>1. \A f \in FileIds : synced'[f] = IF f = activeFile THEN Len(files[f]) ELSE synced[f]
      BY <1>1, <1>2
    <2> QED BY <1>1, <1>2, <1>3, <2>1 DEF IndInv, StoreInv, DiskInv
  <1>6. WriterInv'
    BY <1>1 DEF IndInv, StoreInv, WriterInv
  <1>7. LogKept
    BY <1>1, LogUnchanged
  <1>8. LogWellFormed'
    BY <1>1, LogUnchanged DEF IndInv, StoreInv, LogWellFormed, WellFormed
  <1>9. Opened \subseteq Opened'
    BY <1>1 DEF Opened
  <1>10. CallersTypeOK' /\ LockInv'
    BY <1>1 DEF IndInv, CallersTypeOK, LockInv, Staged
  <1>11. LoaderInv' /\ IndexSound'
    BY <1>1, <1>7, <1>9, TxnKept, IndexKept DEF IndInv
  <1>12. CallersInv'
    BY <1>1, <1>7, DirectKept, BatchKept DEF IndInv, CallersInv
  <1> QED BY <1>4, <1>5, <1>6, <1>8, <1>10, <1>11, <1>12 DEF IndInv, StoreInv

\* An instance that has stopped promises nothing but what is on the disk.
LEMMA StopStep ==
    ASSUME IndInv, Stop, onDisk' \subseteq FileIds,
           files' \in [FileIds -> Seq(Records)], synced' \in [FileIds -> Nat],
           DiskInv', LogWellFormed'
    PROVE  IndInv'
  <1>1. /\ phase' = "closed"
        /\ activeFile' = -1 /\ olderFiles' = {} /\ writeOff' = 0 /\ bytesWrite' = 0
        /\ seqNo' = 0 /\ index' = [k \in Keys |-> NoPos] /\ mu' = NoClient
        /\ cursor' = NoPos /\ txn' = [s \in SeqNos |-> {}]
        /\ pc' = [c \in Clients |-> "idle"]
        /\ pending' = [c \in Clients |-> NoWrites]
        /\ positions' = [c \in Clients |-> [k \in Keys |-> NoPos]]
        /\ todo' = {} /\ batchOf' = batchOf /\ acked' = acked
    BY DEF Stop, history
  <1>2. StoreTypeOK'
    BY <1>1 DEF StoreTypeOK
  <1>3. CallersTypeOK'
    BY <1>1, SizesAssumption DEF IndInv, CallersTypeOK, NoWrites, WriteSets
  <1>4. WriterInv'
    BY <1>1 DEF WriterInv
  <1>5. LoaderInv'
    BY <1>1 DEF LoaderInv
  <1>6. LockInv'
    BY <1>1, ClientsAssumption DEF LockInv, Clients
  <1>7. CallersInv'
    BY <1>1 DEF CallersInv, DirectInv, BatchInv, Clients
  <1>8. IndexSound'
    BY <1>1 DEF IndexSound
  <1> QED BY <1>2, <1>3, <1>4, <1>5, <1>6, <1>7, <1>8 DEF IndInv, StoreInv

LEMMA StopSameDisk ==
    ASSUME IndInv, Stop, UNCHANGED disk
    PROVE  IndInv'
  <1>1. UNCHANGED <<files, onDisk, synced>>
    BY DEF disk
  <1>2. LogWellFormed'
    BY <1>1, LogUnchanged DEF IndInv, StoreInv, LogWellFormed, WellFormed
  <1> QED BY <1>1, <1>2, StopStep DEF IndInv, StoreInv, StoreTypeOK, DiskInv

LEMMA PowerLossStep ==
    ASSUME IndInv, PowerLoss
    PROVE  IndInv'
  <1>1. PICK kept \in [FileIds -> 0 .. DataFileSize] :
          /\ \A f \in FileIds : synced[f] =< kept[f] /\ kept[f] =< Len(files[f])
          /\ files' = [f \in FileIds |-> SubSeq(files[f], 1, kept[f])]
          /\ synced' = kept
    BY DEF PowerLoss
  <1>2. Stop /\ onDisk' = onDisk
    BY DEF PowerLoss
  <1>3. /\ files \in [FileIds -> Seq(Records)] /\ onDisk \subseteq FileIds
        /\ \A f \in FileIds : f \notin onDisk => files[f] = <<>>
    BY DEF IndInv, StoreInv, StoreTypeOK, DiskInv
  <1>4. ASSUME NEW f \in FileIds
        PROVE  /\ SubSeq(files[f], 1, kept[f]) \in Seq(Records)
               /\ Len(SubSeq(files[f], 1, kept[f])) = kept[f]
               /\ \A i \in 1 .. kept[f] : SubSeq(files[f], 1, kept[f])[i] = files[f][i]
               /\ kept[f] \in Nat /\ kept[f] =< DataFileSize
               /\ kept[f] =< Len(files[f])
    <2>1. files[f] \in Seq(Records)
      BY <1>3
    <2>2. kept[f] \in 0 .. DataFileSize
      BY <1>1
    <2>3. kept[f] \in Nat /\ kept[f] =< DataFileSize
      BY <2>2, SizesAssumption
    <2>4. kept[f] =< Len(files[f]) /\ Len(files[f]) \in Nat
      BY <1>1, <2>1
    <2>5. \A i \in 1 .. kept[f] : files[f][i] \in Records
      BY <2>1, <2>3, <2>4
    <2> QED BY <2>1, <2>3, <2>4, <2>5, SubSeqProperties
  <1>5. files' \in [FileIds -> Seq(Records)] /\ synced' \in [FileIds -> Nat]
    <2>1. synced' \in [FileIds -> Nat]
      BY <1>1, <1>4
    <2> QED BY <1>1, <1>4, <2>1
  <1>6. DiskInv'
    <2> SUFFICES ASSUME NEW f \in FileIds
                 PROVE  /\ Len(files'[f]) =< DataFileSize
                        /\ f \notin onDisk => files'[f] = <<>>
                        /\ synced'[f] =< Len(files'[f])
      BY <1>2 DEF DiskInv
    <2>1. files'[f] \in Seq(Records) /\ Len(files'[f]) = kept[f]
      BY <1>1, <1>4, <1>5
    <2>2. f \notin onDisk => Len(files'[f]) = 0
      <3>1. f \notin onDisk => Len(files[f]) = 0
        BY <1>3
      <3> QED BY <3>1, <2>1, <1>4
    <2>3. f \notin onDisk => files'[f] = <<>>
      BY <2>1, <2>2
    <2> QED BY <1>1, <1>4, <2>1, <2>3
  <1>7. LogWellFormed'
    <2> SUFFICES ASSUME NEW p \in LogPositions'
                 PROVE  WellFormed(RecAt(p))'
      BY DEF LogWellFormed
    <2>1. p \in Positions /\ p.fid \in FileIds /\ p.off \in Nat /\ p.off < Len(files'[p.fid])
      BY SizesAssumption DEF LogPositions, Positions
    <2>2. Len(files'[p.fid]) = kept[p.fid] /\ kept[p.fid] =< Len(files[p.fid])
          /\ kept[p.fid] \in Nat
      BY <2>1, <1>1, <1>4
    <2>3. p.off + 1 \in 1 .. kept[p.fid]
      BY <2>1, <2>2
    <2>4. files'[p.fid][p.off + 1] = files[p.fid][p.off + 1]
      BY <2>1, <2>3, <1>1, <1>4
    <2>5. files[p.fid] \in Seq(Records)
      BY <2>1, <1>3
    <2>6. p.off < Len(files[p.fid])
      BY <2>1, <2>2, <2>5
    <2>7. p \in LogPositions
      BY <2>1, <2>6 DEF LogPositions
    <2>8. RecAt(p)' = RecAt(p)
      BY <2>4 DEF RecAt
    <2> QED BY <2>7, <2>8 DEF IndInv, StoreInv, LogWellFormed, WellFormed
  <1> QED BY <1>2, <1>3, <1>5, <1>6, <1>7, StopStep

-----------------------------------------------------------------------------
\* Open

\* Any set of positions that is not empty has a last one.
LEMMA LastOfPositions ==
    ASSUME NEW S, S \subseteq Positions, S # {}
    PROVE  Last(S) \in S /\ \A q \in S \ {Last(S)} : Before(q, Last(S))
  <1> DEFINE F == {p.fid : p \in S}
  <1>1. \A p \in S : p.fid \in Nat /\ p.fid =< MaxFileId
    BY SizesAssumption DEF Positions, FileIds
  <1>2. PICK f \in F : \A g \in F : g =< f
    <2>1. F \subseteq Nat /\ F # {} /\ \A g \in F : g =< MaxFileId
      BY <1>1
    <2> HIDE DEF F
    <2> QED BY <2>1, LargestOf, SizesAssumption
  <1> DEFINE O == {p.off : p \in {q \in S : q.fid = f}}
  <1>3. \A p \in S : p.off \in Nat /\ p.off =< DataFileSize
    BY SizesAssumption DEF Positions
  <1>4. PICK o \in O : \A x \in O : x =< o
    <2>1. O \subseteq Nat /\ O # {} /\ \A x \in O : x =< DataFileSize
      BY <1>3
    <2> HIDE DEF O
    <2> QED BY <2>1, LargestOf, SizesAssumption
  <1>5. PICK p \in S : p.fid = f /\ p.off = o
    OBVIOUS
  <1>6. ASSUME NEW q \in S, q # p
        PROVE  Before(q, p)
    <2>1. q.fid =< f /\ q.fid \in Nat /\ f \in Nat
      BY <1>1, <1>2
    <2>2. CASE q.fid = f
      <3>1. q.off \in O
        BY <2>2
      <3>2. q.off =< o
        BY <3>1, <1>4
      <3>3. q.off # p.off
        BY <1>5, <1>6, <2>2 DEF Positions
      <3>4. q.off \in Nat /\ p.off \in Nat
        BY <1>3
      <3> QED BY <3>2, <3>3, <3>4, <1>5, <2>2 DEF Before
    <2>3. CASE q.fid # f
      BY <2>1, <2>3, <1>5 DEF Before
    <2> QED BY <2>2, <2>3
  <1> QED BY <1>6 DEF Last

\* Open has every file open when it has listed the directory.
LEMMA OpenDBStep ==
    ASSUME IndInv, OpenDB
    PROVE  IndInv'
  <1>1. /\ phase = "closed"
        /\ UNCHANGED <<files, onDisk, synced, writeOff, bytesWrite, seqNo, index,
                       mu, txn, pc, pending, positions, todo, batchOf, acked>>
    BY DEF OpenDB, disk, callers, history
  <1>2. \/ /\ onDisk = {} /\ phase' = "open"
           /\ UNCHANGED <<activeFile, olderFiles, cursor>>
        \/ /\ phase' = "loading"
           /\ \E last \in onDisk :
                 /\ \A f \in onDisk : f =< last
                 /\ activeFile' = last
                 /\ olderFiles' = onDisk \ {last}
           /\ \E first \in onDisk : cursor' = [fid |-> first, off |-> 0]
    BY DEF OpenDB
  <1>3. /\ onDisk \subseteq FileIds /\ FileIds \subseteq Nat
        /\ files \in [FileIds -> Seq(Records)]
        /\ activeFile = -1 /\ writeOff = 0 /\ mu = NoClient
    BY <1>1, SizesAssumption
    DEF IndInv, StoreInv, StoreTypeOK, WriterInv, LockInv, FileIds
  <1>4. StoreTypeOK' /\ CallersTypeOK'
    <2>1. CASE onDisk = {} /\ phase' = "open" /\ UNCHANGED <<activeFile, olderFiles, cursor>>
      BY <1>1, <2>1 DEF IndInv, StoreInv, StoreTypeOK, CallersTypeOK
    <2>2. CASE /\ phase' = "loading"
               /\ \E last \in onDisk : activeFile' = last /\ olderFiles' = onDisk \ {last}
               /\ \E first \in onDisk : cursor' = [fid |-> first, off |-> 0]
      <3>1. activeFile' \in FileIds /\ olderFiles' \subseteq FileIds
            /\ cursor' \in [fid : FileIds, off : Nat]
        BY <2>2, <1>3
      <3>2. StoreTypeOK'
        BY <3>1, <1>1, <2>2 DEF IndInv, StoreInv, StoreTypeOK
      <3>3. CallersTypeOK'
        BY <3>1, <1>1, <2>2 DEF IndInv, CallersTypeOK
      <3> QED BY <3>2, <3>3
    <2> QED BY <1>2, <2>1, <2>2
  <1>5. WriterInv'
    BY <1>1, <1>2, <1>3 DEF WriterInv
  <1>6. DiskInv' /\ LogKept /\ LogWellFormed'
    BY <1>1, LogUnchanged DEF IndInv, StoreInv, DiskInv, LogWellFormed, WellFormed
  <1>7. onDisk \subseteq Opened'
    BY <1>2, <1>3 DEF Opened
  <1>8. IndexSound'
    <2> SUFFICES ASSUME NEW k \in Keys, index[k] # NoPos
                 PROVE  EntrySound(k, index[k])'
      BY <1>1 DEF IndexSound
    <2>1. EntrySound(k, index[k])
      BY DEF IndInv, IndexSound
    <2>2. index[k].fid \in onDisk
      <3>1. index[k] \in LogPositions
        BY <2>1 DEF EntrySound
      <3>2. index[k].fid \in FileIds /\ index[k].off \in Nat
            /\ index[k].off < Len(files[index[k].fid])
        BY <3>1, SizesAssumption DEF LogPositions, Positions
      <3>3. files[index[k].fid] # <<>>
        BY <3>2
      <3> QED BY <3>2, <3>3 DEF IndInv, StoreInv, DiskInv
    <2>3. index[k].fid \in olderFiles' \cup {activeFile'}
      BY <2>2, <1>7 DEF Opened
    <2> QED BY <1>1, <1>6, <2>1, <2>3, CommittedKept DEF EntrySound, LogKept
  <1>9. LoaderInv'
    <2>1. phase' = "loading" => /\ activeFile' # NoFile /\ cursor'.fid \in onDisk
                                /\ cursor'.off \in 0 .. Len(files[cursor'.fid])
      BY <1>2, <1>3
    <2> QED BY <2>1, <1>1, <1>6 DEF IndInv, LoaderInv, LogKept
  <1>10. LockInv'
    BY <1>1, <1>3 DEF IndInv, LockInv, Staged
  <1>11. CallersInv'
    BY <1>1, <1>6, DirectKept, BatchKept DEF IndInv, CallersInv
  <1> QED BY <1>4, <1>5, <1>6, <1>8, <1>9, <1>10, <1>11 DEF IndInv, StoreInv

\* Where the scan stands there is a record, and it is well formed.
LEMMA CursorRecord ==
    ASSUME IndInv, AtRecord
    PROVE  /\ cursor \in LogPositions
           /\ RecAt(cursor) \in Records /\ WellFormed(RecAt(cursor))
           /\ cursor.fid \in onDisk /\ cursor.off \in Nat
           /\ cursor.off + 1 \in 0 .. Len(files[cursor.fid])
           /\ cursor \in [fid : FileIds, off : Nat]
  <1>1. /\ phase = "loading" /\ cursor.off < Len(files[cursor.fid])
        /\ cursor.fid \in onDisk /\ cursor.off \in 0 .. Len(files[cursor.fid])
        /\ onDisk \subseteq FileIds /\ files \in [FileIds -> Seq(Records)]
    BY DEF IndInv, AtRecord, LoaderInv, StoreInv, StoreTypeOK
  <1>2. cursor.fid \in FileIds /\ cursor.fid # -1
    <2>1. cursor.fid \in FileIds
      BY <1>1
    <2>2. FileIds \subseteq Nat
      BY SizesAssumption DEF FileIds
    <2> QED BY <2>1, <2>2
  <1>3. cursor \in [fid : FileIds, off : Nat]
    BY <1>2 DEF IndInv, CallersTypeOK, NoPos
  <1>4. Len(files[cursor.fid]) \in Nat /\ Len(files[cursor.fid]) =< DataFileSize
    BY <1>1, <1>2 DEF IndInv, StoreInv, DiskInv
  <1>5. cursor \in LogPositions
    BY <1>1, <1>3, <1>4, SizesAssumption DEF LogPositions, Positions
  <1>6. RecAt(cursor) \in Records
    BY <1>5, RecordType DEF IndInv, StoreInv
  <1>7. WellFormed(RecAt(cursor))
    BY <1>5 DEF IndInv, StoreInv, LogWellFormed
  <1> QED BY <1>1, <1>3, <1>4, <1>5, <1>6, <1>7

\* One record of the scan, whatever it does to the index and to the records
\* kept: the rest of the state hangs together.
LEMMA AfterRecord ==
    ASSUME IndInv, AtRecord,
           seqNo' = SeqNoAfter(RecAt(cursor)),
           cursor' = [cursor EXCEPT !.off = @ + 1],
           UNCHANGED <<disk, phase, writer, mu, callers, history>>,
           index' \in [Keys -> Positions \cup {NoPos}], IndexSound',
           txn' \in [SeqNos -> SUBSET Positions],
           \A s \in SeqNos : \A p \in txn'[s] :
              p \in LogPositions /\ RecAt(p).seq = s /\ RecAt(p).val # Finished
    PROVE  IndInv'
  <1>1. /\ UNCHANGED <<files, onDisk, synced, phase, activeFile, olderFiles,
                       writeOff, bytesWrite, mu, pc, pending, positions, todo,
                       batchOf, acked>>
        /\ phase = "loading" /\ mu = NoClient
    BY DEF disk, writer, callers, history, AtRecord, IndInv, LockInv
  <1>2. StoreInv' /\ LogKept
    BY StoreSame DEF IndInv
  <1>3. RecAt(cursor).seq \in 0 .. MaxSeqNo /\ seqNo' \in 0 .. MaxSeqNo
    BY CursorRecord DEF Records, SeqNoAfter, IndInv, CallersTypeOK
  <1>4. cursor' \in [fid : FileIds, off : Nat] /\ cursor'.fid = cursor.fid
        /\ cursor'.off = cursor.off + 1
    BY CursorRecord
  <1>5. CallersTypeOK'
    BY <1>1, <1>3, <1>4 DEF IndInv, CallersTypeOK
  <1>6. LoaderInv'
    <2>1. activeFile # NoFile
      BY <1>1 DEF IndInv, LoaderInv
    <2>2. cursor'.fid \in onDisk' /\ cursor'.off \in 0 .. Len(files'[cursor'.fid])
      BY <1>1, <1>4, CursorRecord
    <2>3. \A s \in SeqNos : \A p \in txn'[s] :
             p \in LogPositions' /\ RecAt(p)' = RecAt(p)
      BY <1>2 DEF LogKept
    <2>4. \A s \in SeqNos : \A p \in txn'[s] :
             p \in LogPositions' /\ RecAt(p)'.seq = s /\ RecAt(p)'.val # Finished
      BY <2>3
    <2> QED BY <1>1, <2>1, <2>2, <2>4 DEF LoaderInv
  <1>7. LockInv'
    BY <1>1 DEF IndInv, LockInv, Staged
  <1>8. CallersInv'
    <2>1. \A c \in BatchClients : pc'[c] = "idle"
      BY <1>1, ClientsAssumption DEF IndInv, LockInv, Clients
    <2> QED BY <1>1, <1>2, <2>1, DirectKept, BatchIdle DEF IndInv, CallersInv
  <1> QED BY <1>2, <1>5, <1>6, <1>7, <1>8 DEF IndInv

\* A record that is no part of a batch goes to the index at once.
LEMMA LoadDirectStep ==
    ASSUME IndInv, AtRecord, IsDirect(RecAt(cursor)),
           UpdateIndex(RecAt(cursor).key, RecAt(cursor).val, cursor),
           UNCHANGED <<disk, phase, writer>>
    PROVE  IndexSound' /\ index' \in [Keys -> Positions \cup {NoPos}]
  <1> DEFINE rec == RecAt(cursor)
  <1>1. cursor \in LogPositions /\ rec \in Records /\ WellFormed(rec)
    BY CursorRecord
  <1>2. rec.seq = 0
    BY DEF IsDirect
  <1>3. rec.key \in Keys /\ rec.val \in Values \cup {Tombstone}
    <2>1. /\ rec.key \in Keys \cup {TxnFinKey}
          /\ rec.val \in Values \cup {Tombstone, Finished}
      BY <1>1 DEF Records
    <2>2. rec.val # Finished
      BY <1>1, <1>2 DEF WellFormed
    <2>3. rec.key # TxnFinKey
      BY <1>1, <2>2 DEF WellFormed
    <2> HIDE DEF rec
    <2> QED BY <2>1, <2>2, <2>3
  <1>4. cursor \in Positions
    BY <1>1 DEF LogPositions
  <1>5. cursor.fid \in olderFiles \cup {activeFile}
    BY <1>1, FileOpened DEF IndInv, AtRecord
  <1>6. rec.val # Tombstone => EntrySound(rec.key, cursor)
    <2> HIDE DEF rec
    <2> QED BY <1>1, <1>2, <1>3, <1>5 DEF EntrySound, Committed, rec
  <1>7. LogKept /\ Opened \subseteq Opened'
    BY StoreSame DEF IndInv
  <1>8. UpdateIndex(rec.key, rec.val, cursor)
    OBVIOUS
  <1> HIDE DEF rec
  <1> QED BY <1>3, <1>4, <1>6, <1>7, <1>8, IndexAfterUpdate DEF IndInv

\* The end of a batch moves its records to the index: their batch is now
\* committed.
LEMMA LoadFinishedStep ==
    ASSUME IndInv, AtRecord, ~IsDirect(RecAt(cursor)),
           RecAt(cursor).val = Finished,
           ApplyTransaction(RecAt(cursor).seq),
           UNCHANGED <<disk, phase, writer>>
    PROVE  IndexSound' /\ index' \in [Keys -> Positions \cup {NoPos}]
  <1> DEFINE s == RecAt(cursor).seq
             W(k) == {p \in txn[s] : RecAt(p).key = k}
  <1>1. cursor \in LogPositions /\ RecAt(cursor) \in Records
    BY CursorRecord
  <1>2. s \in SeqNos
    BY <1>1, SizesAssumption DEF Records, IsDirect, SeqNos
  <1>3. Committed(s)
    BY <1>1 DEF Committed
  <1>4. ASSUME NEW k \in Keys, W(k) # {}
        PROVE  /\ Last(W(k)) \in Positions
               /\ RecAt(Last(W(k))).val # Tombstone => EntrySound(k, Last(W(k)))
    <2>1. W(k) \subseteq Positions
      BY <1>2 DEF IndInv, CallersTypeOK
    <2>2. Last(W(k)) \in W(k)
      BY <1>4, <2>1, LastOfPositions
    <2>3. PICK p : p = Last(W(k))
      OBVIOUS
    <2>4. p \in Positions /\ p \in txn[s] /\ RecAt(p).key = k
      BY <2>1, <2>2, <2>3
    <2>5. p \in LogPositions /\ RecAt(p).seq = s /\ RecAt(p).val # Finished
      BY <1>2, <2>4 DEF IndInv, LoaderInv
    <2>6. RecAt(p) \in Records
      BY <2>5, RecordType DEF IndInv, StoreInv
    <2>7. p.fid \in olderFiles \cup {activeFile}
      BY <2>5, FileOpened DEF IndInv, AtRecord
    <2>8. RecAt(p).val # Tombstone => EntrySound(k, p)
      BY <1>3, <2>4, <2>5, <2>6, <2>7 DEF EntrySound, Records
    <2> QED BY <2>3, <2>4, <2>8
  <1>5. \A k \in Keys : index'[k] = IF W(k) = {} THEN index[k]
                                    ELSE IndexEntry(RecAt(Last(W(k))).val, Last(W(k)))
    BY DEF ApplyTransaction
  <1>6. \E S : index' = [k \in Keys |-> S[k]]
    <2>1. index' = [k \in Keys |-> index'[k]]
      BY DEF ApplyTransaction
    <2> QED BY <2>1
  <1> HIDE DEF W, s
  <1>7. ASSUME NEW k \in Keys
        PROVE  /\ index'[k] \in Positions \cup {NoPos}
               /\ index'[k] # NoPos => EntrySound(k, index'[k])
    <2>1. index[k] \in Positions \cup {NoPos}
          /\ (index[k] # NoPos => EntrySound(k, index[k]))
      BY DEF IndInv, CallersTypeOK, IndexSound
    <2> QED BY <1>4, <1>5, <2>1 DEF IndexEntry
  <1>8. LogKept /\ Opened \subseteq Opened'
    BY StoreSame DEF IndInv
  <1>9. index' \in [Keys -> Positions \cup {NoPos}]
    BY <1>6, <1>7
  <1>10. IndexSound'
    <2> SUFFICES ASSUME NEW k \in Keys, index'[k] # NoPos
                 PROVE  EntrySound(k, index[k])'
      BY DEF IndexSound
    <2>1. PICK p : p = index'[k]
      OBVIOUS
    <2>2. EntrySound(k, p)
      BY <1>7, <2>1
    <2>3. EntrySound(k, p)'
      BY <1>8, <2>2, EntryKept
    <2> QED BY <2>1, <2>3 DEF EntrySound, RecAt
  <1> QED BY <1>9, <1>10

\* A record of a batch is kept until the end of the batch is read.
LEMMA LoadRecordStep ==
    ASSUME IndInv, LoadRecord
    PROVE  IndInv'
  <1>1. /\ AtRecord
        /\ seqNo' = SeqNoAfter(RecAt(cursor))
        /\ cursor' = [cursor EXCEPT !.off = @ + 1]
        /\ UNCHANGED <<disk, phase, writer, mu, callers, history>>
    BY DEF LoadRecord
  <1>2. txn \in [SeqNos -> SUBSET Positions]
        /\ index \in [Keys -> Positions \cup {NoPos}]
    BY DEF IndInv, CallersTypeOK
  <1>3. \A s \in SeqNos : \A p \in txn[s] :
           p \in LogPositions /\ RecAt(p).seq = s /\ RecAt(p).val # Finished
    BY DEF IndInv, LoaderInv
  <1>4. cursor \in LogPositions /\ cursor \in Positions /\ RecAt(cursor) \in Records
    BY <1>1, CursorRecord DEF LogPositions
  <1>5. CASE /\ IsDirect(RecAt(cursor)) /\ UNCHANGED txn
             /\ UpdateIndex(RecAt(cursor).key, RecAt(cursor).val, cursor)
    BY <1>1, <1>2, <1>3, <1>5, LoadDirectStep, AfterRecord
  <1>6. CASE /\ ~IsDirect(RecAt(cursor)) /\ RecAt(cursor).val = Finished
             /\ ApplyTransaction(RecAt(cursor).seq)
             /\ txn' = [txn EXCEPT ![RecAt(cursor).seq] = {}]
    <2>1. IndexSound' /\ index' \in [Keys -> Positions \cup {NoPos}]
      BY <1>1, <1>6, LoadFinishedStep
    <2>2. txn' \in [SeqNos -> SUBSET Positions]
      BY <1>2, <1>6
    <2>3. \A s \in SeqNos : txn'[s] \subseteq txn[s]
      BY <1>2, <1>6
    <2> QED BY <1>1, <1>3, <2>1, <2>2, <2>3, AfterRecord
  <1>7. CASE /\ ~IsDirect(RecAt(cursor)) /\ RecAt(cursor).val # Finished
             /\ txn' = [txn EXCEPT ![RecAt(cursor).seq] = @ \cup {cursor}]
             /\ UNCHANGED index
    <2>1. LogKept /\ Opened \subseteq Opened'
      BY <1>1, StoreSame DEF IndInv
    <2>2. IndexSound' /\ index' \in [Keys -> Positions \cup {NoPos}]
      BY <1>2, <1>7, <2>1, IndexKept DEF IndInv
    <2>3. txn' \in [SeqNos -> SUBSET Positions]
      BY <1>2, <1>4, <1>7
    <2>4. \A s \in SeqNos : txn'[s] = IF s = RecAt(cursor).seq THEN txn[s] \cup {cursor}
                                      ELSE txn[s]
      BY <1>2, <1>7
    <2>5. \A s \in SeqNos : \A p \in txn'[s] :
             p \in LogPositions /\ RecAt(p).seq = s /\ RecAt(p).val # Finished
      BY <1>3, <1>4, <1>7, <2>4
    <2> QED BY <1>1, <2>2, <2>3, <2>5, AfterRecord
  <1> QED BY <1>5, <1>6, <1>7 DEF LoadRecord

\* The scan goes on with the next file.
LEMMA LoadNextFileStep ==
    ASSUME IndInv, LoadNextFile
    PROVE  IndInv'
  <1>1. /\ phase = "loading"
        /\ UNCHANGED <<disk, phase, writer>>
        /\ UNCHANGED <<files, onDisk, phase, activeFile, seqNo, index, mu, txn,
                       pc, pending, positions, todo, batchOf, acked>>
    BY DEF LoadNextFile, AtEnd, callers, history, disk, writer
  <1>2. PICK f \in onDisk : cursor' = [fid |-> f, off |-> 0]
    BY DEF LoadNextFile
  <1>3. f \in FileIds /\ files[f] \in Seq(Records)
    BY DEF IndInv, StoreInv, StoreTypeOK
  <1>4. cursor'.fid \in onDisk' /\ cursor'.off \in 0 .. Len(files'[cursor'.fid])
    BY <1>1, <1>2, <1>3
  <1>5. cursor' \in [fid : FileIds, off : Nat]
    BY <1>2, <1>3
  <1>6. StoreInv' /\ LogKept /\ Opened \subseteq Opened'
    BY <1>1, StoreSame DEF IndInv
  <1>7. CallersTypeOK'
    BY <1>1, <1>5 DEF IndInv, CallersTypeOK
  <1>8. LoaderInv'
    BY <1>1, <1>4, <1>6 DEF IndInv, LoaderInv, LogKept
  <1>9. LockInv'
    BY <1>1 DEF IndInv, LockInv, Staged
  <1>10. CallersInv'
    BY <1>1, <1>6, DirectKept, BatchKept DEF IndInv, CallersInv
  <1>11. IndexSound'
    BY <1>1, <1>6, IndexKept DEF IndInv
  <1> QED BY <1>6, <1>7, <1>8, <1>9, <1>10, <1>11 DEF IndInv

\* The scan ends at the end of the active file: WriteOff is its length.
LEMMA LoadEndStep ==
    ASSUME IndInv, LoadEnd
    PROVE  IndInv'
  <1>1. /\ phase = "loading" /\ phase' = "open"
        /\ cursor.off = Len(files[cursor.fid]) /\ cursor.fid = activeFile
        /\ writeOff' = cursor.off /\ cursor' = NoPos
        /\ txn' = [s \in SeqNos |-> {}]
        /\ UNCHANGED <<files, onDisk, synced, activeFile, olderFiles, bytesWrite,
                       seqNo, index, mu, pc, pending, positions, todo, batchOf, acked>>
    BY DEF LoadEnd, AtEnd, disk, callers, history
  <1>2. activeFile # NoFile /\ activeFile \in onDisk /\ mu = NoClient
    BY <1>1 DEF IndInv, LoaderInv, LockInv
  <1>3. activeFile \in FileIds /\ files[activeFile] \in Seq(Records)
    BY <1>2 DEF IndInv, StoreInv, StoreTypeOK
  <1>4. StoreTypeOK'
    BY <1>1, <1>3 DEF IndInv, StoreInv, StoreTypeOK
  <1>5. DiskInv' /\ LogKept /\ LogWellFormed'
    BY <1>1, LogUnchanged DEF IndInv, StoreInv, DiskInv, LogWellFormed, WellFormed
  <1>6. WriterInv'
    BY <1>1, <1>2 DEF IndInv, StoreInv, WriterInv
  <1>7. CallersTypeOK'
    BY <1>1 DEF IndInv, CallersTypeOK
  <1>8. LoaderInv'
    BY <1>1 DEF LoaderInv
  <1>9. LockInv'
    BY <1>1, <1>2 DEF IndInv, LockInv, Staged
  <1>10. CallersInv'
    BY <1>1, <1>5, DirectKept, BatchKept DEF IndInv, CallersInv
  <1>11. IndexSound'
    BY <1>1, <1>5, IndexKept DEF IndInv, Opened
  <1> QED BY <1>4, <1>5, <1>6, <1>7, <1>8, <1>9, <1>10, <1>11 DEF IndInv, StoreInv

-----------------------------------------------------------------------------
\* The theorems

\* An empty directory and no instance satisfy the invariant.
LEMMA InitIndInv ==
    ASSUME Init
    PROVE  IndInv
  <1>1. /\ files = [f \in FileIds |-> <<>>] /\ onDisk = {}
        /\ synced = [f \in FileIds |-> 0]
        /\ phase = "closed" /\ activeFile = -1 /\ olderFiles = {}
        /\ writeOff = 0 /\ bytesWrite = 0
        /\ seqNo = 0 /\ index = [k \in Keys |-> NoPos] /\ mu = NoClient
        /\ cursor = NoPos /\ txn = [s \in SeqNos |-> {}]
        /\ pc = [c \in Clients |-> "idle"]
        /\ pending = [c \in Clients |-> NoWrites]
        /\ positions = [c \in Clients |-> [k \in Keys |-> NoPos]]
        /\ todo = {} /\ batchOf = [s \in SeqNos |-> NoWrites] /\ acked = {}
    BY DEF Init
  <1>2. NoWrites \in WriteSets
    BY DEF NoWrites, WriteSets
  <1>3. LogPositions = {}
    BY <1>1, SizesAssumption DEF LogPositions, Positions
  <1>4. StoreTypeOK
    <2>1. \A f \in FileIds : files[f] \in Seq(Records) /\ synced[f] \in Nat
      BY <1>1
    <2> QED BY <1>1, <2>1 DEF StoreTypeOK
  <1>5. DiskInv
    BY <1>1, SizesAssumption DEF DiskInv
  <1>6. LogWellFormed
    BY <1>3 DEF LogWellFormed
  <1>7. WriterInv /\ LoaderInv /\ IndexSound
    BY <1>1 DEF WriterInv, LoaderInv, IndexSound
  <1>8. CallersTypeOK
    BY <1>1, <1>2, SizesAssumption DEF CallersTypeOK
  <1>9. LockInv
    BY <1>1, ClientsAssumption DEF LockInv, Clients
  <1>10. CallersInv
    BY <1>1 DEF CallersInv, DirectInv, BatchInv, Clients
  <1> QED BY <1>4, <1>5, <1>6, <1>7, <1>8, <1>9, <1>10 DEF IndInv, StoreInv

\* A step of Put or Delete.
LEMMA DirectKeepsIndInv ==
    ASSUME IndInv, NEW c \in DirectClients, DirectStep(c)
    PROVE  IndInv'
  <1>1. CASE PutAppend(c)
    <2>1. PICK k \in KeysOf[c], v \in Values : DirectAppend(c, k, v)
      BY <1>1 DEF PutAppend
    <2>2. k \in Keys /\ phase = "open"
      BY <1>1, ClientsAssumption DEF PutAppend, Calm, Clients
    <2> QED BY <2>1, <2>2, DirectAppendStep
  <1>2. CASE PutFails(c)
    BY <1>2, PutFailsStep
  <1>3. CASE DeleteCheck(c)
    BY <1>3, DeleteCheckStep
  <1>4. CASE DeleteAppend(c)
    BY <1>4, DirectAppendStep DEF DeleteAppend
  <1>5. CASE DeleteFails(c)
    BY <1>5, DeleteFailsStep
  <1>6. CASE DirectIndex(c)
    BY <1>6, DirectIndexStep
  <1> QED BY <1>1, <1>2, <1>3, <1>4, <1>5, <1>6 DEF DirectStep

\* A step of a WriteBatch.
LEMMA BatchKeepsIndInv ==
    ASSUME IndInv, NEW c \in BatchClients, BatchStep(c)
    PROVE  IndInv'
  BY WBPutStep, WBDeleteStep, CommitStartStep, CommitAppendStep, CommitFinishStep,
     CommitFailsStep, CommitIndexStep, CommitEndStep
  DEF BatchStep

\* A step of Open.
LEMMA LoadKeepsIndInv ==
    ASSUME IndInv, Load
    PROVE  IndInv'
  BY LoadRecordStep, LoadNextFileStep, LoadEndStep DEF Load

\* Nothing happens.
LEMMA StutterKeepsIndInv ==
    ASSUME IndInv, UNCHANGED vars
    PROVE  IndInv'
  <1>1. /\ UNCHANGED <<disk, phase, writer>>
        /\ UNCHANGED <<files, onDisk, phase, activeFile, seqNo, index, mu, cursor,
                       txn, pc, pending, positions, todo, batchOf, acked>>
    BY DEF vars, disk, writer, loader, callers, history
  <1>2. StoreInv' /\ LogKept /\ Opened \subseteq Opened'
    BY <1>1, StoreSame DEF IndInv
  <1>3. CallersTypeOK' /\ LockInv'
    BY <1>1 DEF IndInv, CallersTypeOK, LockInv, Staged
  <1>4. LoaderInv'
    BY <1>1, <1>2 DEF IndInv, LoaderInv, LogKept
  <1>5. CallersInv'
    BY <1>1, <1>2, DirectKept, BatchKept DEF IndInv, CallersInv
  <1>6. IndexSound'
    BY <1>1, <1>2, IndexKept DEF IndInv
  <1> QED BY <1>2, <1>3, <1>4, <1>5, <1>6 DEF IndInv

\* The invariant is inductive.
LEMMA NextKeepsIndInv ==
    ASSUME IndInv, [Next]_vars
    PROVE  IndInv'
  <1>1. CASE \E c \in DirectClients : DirectStep(c)
    BY <1>1, DirectKeepsIndInv
  <1>2. CASE \E c \in BatchClients : BatchStep(c)
    BY <1>2, BatchKeepsIndInv
  <1>3. CASE Sync
    BY <1>3, SyncStep
  <1>4. CASE Close \/ ProcessCrash
    BY <1>4, StopSameDisk DEF Close, ProcessCrash
  <1>5. CASE OpenDB
    BY <1>5, OpenDBStep
  <1>6. CASE Load
    BY <1>6, LoadKeepsIndInv
  <1>7. CASE PowerLoss
    BY <1>7, PowerLossStep
  <1>8. CASE UNCHANGED vars
    BY <1>8, StutterKeepsIndInv
  <1> QED BY <1>1, <1>2, <1>3, <1>4, <1>5, <1>6, <1>7, <1>8 DEF Next

\* IndInv holds in every reachable state.
THEOREM Invariance == Spec => []IndInv
  <1>1. Init => IndInv
    BY InitIndInv
  <1>2. IndInv /\ [Next]_vars => IndInv'
    BY NextKeepsIndInv
  <1> QED BY <1>1, <1>2, PTL DEF Spec

\* Every variable keeps its type: in particular no position outgrows a file
\* (the rotation test of appendLogRecord) and nobody but a batch holds db.mu.
THEOREM TypeCorrect == Spec => []TypeOK
  <1>1. IndInv => TypeOK
    BY DEF IndInv, StoreInv, TypeOK
  <1> QED BY <1>1, Invariance, PTL

\* Every index entry leads to a committed record that holds a value of its own
\* key, in an open file: what getValueByPosition relies on.  No interleaving of
\* the index updates of Put, Delete and Commit, no failed file operation, no
\* crash and no power loss breaks it.
THEOREM IndexIsSound == Spec => []IndexSound
  <1>1. IndInv => IndexSound
    BY DEF IndInv
  <1> QED BY <1>1, Invariance, PTL

-----------------------------------------------------------------------------
\* Logs that grow and shrink

\* Before is a strict total order of positions.
LEMMA BeforeOrder ==
    /\ \A p \in Positions : ~Before(p, p)
    /\ \A p, q \in Positions : ~(Before(p, q) /\ Before(q, p))
    /\ \A p, q \in Positions : p = q \/ Before(p, q) \/ Before(q, p)
    /\ \A p, q, r \in Positions : Before(p, q) /\ Before(q, r) => Before(p, r)
  <1>1. \A p \in Positions : p.fid \in Int /\ p.off \in Int
    BY SizesAssumption DEF Positions, FileIds
  <1>2. \A p, q \in Positions : p.fid = q.fid /\ p.off = q.off => p = q
    BY DEF Positions
  <1> QED BY <1>1, <1>2 DEF Before

\* Log M is log L with record rec behind the last one, at pos.
GrownBy(L, M, pos, rec) ==
    /\ DOMAIN M = DOMAIN L \cup {pos}
    /\ DOMAIN M \subseteq Positions
    /\ M[pos] = rec
    /\ \A p \in DOMAIN L : M[p] = L[p] /\ Before(p, pos)

\* The end of a batch has the number of a batch.
Numbered(L) == \A p \in DOMAIN L : L[p].val = Finished => L[p].seq # 0

\* A batch stays whole under an append that is no part of a batch, or goes on
\* with the one at the tail of the log.
LEMMA WholeAfterGrowth ==
    ASSUME NEW L, NEW M, NEW pos, NEW rec, NEW B,
           GrownBy(L, M, pos, rec), WholeBatches(L, B),
           rec.val = Finished => rec.seq # 0,
           rec.seq # 0 /\ rec.val # Finished => B[rec.seq][rec.key] = rec.val,
           rec.seq # 0 => \A p \in DOMAIN L : L[p].seq = rec.seq =>
                              /\ L[p].val # Finished
                              /\ L[p].key # rec.key
                              /\ \A r \in DOMAIN L : Before(p, r) => L[r].seq = rec.seq,
           rec.val = Finished =>
              \A k \in Keys : B[rec.seq][k] # NoWrite =>
                 \E p \in DOMAIN L : L[p].seq = rec.seq /\ L[p].key = k
    PROVE  WholeBatches(M, B)
  <1>1. /\ DOMAIN M = DOMAIN L \cup {pos}
        /\ DOMAIN M \subseteq Positions
        /\ M[pos] = rec
        /\ \A p \in DOMAIN L : M[p] = L[p] /\ Before(p, pos)
    BY DEF GrownBy
  <1>2. \A p \in DOMAIN L : ~Before(pos, p)
    BY <1>1, BeforeOrder
  <1>3. ~Before(pos, pos)
    BY <1>1, BeforeOrder
  <1>4. AsCommitted(M, B)
    BY <1>1 DEF WholeBatches, AsCommitted
  <1>5. WrittenOnce(M)
    BY <1>1 DEF WholeBatches, WrittenOnce, SameBatch
  <1>6. SideBySide(M)
    <2> SUFFICES ASSUME NEW p \in DOMAIN M, NEW q \in DOMAIN M, NEW r \in DOMAIN M,
                        SameBatch(M, p, q), Before(p, r), Before(r, q)
                 PROVE  M[r].seq = M[p].seq
      BY DEF SideBySide
    <2>1. r \in DOMAIN L /\ p \in DOMAIN L
      BY <1>1, <1>2, <1>3
    <2>2. CASE q \in DOMAIN L
      BY <2>1, <2>2, <1>1 DEF WholeBatches, SideBySide, SameBatch
    <2>3. CASE q = pos
      BY <2>1, <2>3, <1>1 DEF SameBatch
    <2> QED BY <2>2, <2>3, <1>1
  <1>7. EndLast(M)
    BY <1>1 DEF WholeBatches, EndLast, SameBatch
  <1>8. AllThere(M, B)
    <2> SUFFICES ASSUME NEW q \in DOMAIN M, M[q].val = Finished, NEW k \in Keys,
                        B[M[q].seq][k] # NoWrite
                 PROVE  \E p \in DOMAIN M : M[p].seq = M[q].seq /\ M[p].key = k
      BY DEF AllThere
    <2>1. \E p \in DOMAIN L : L[p].seq = M[q].seq /\ L[p].key = k
      BY <1>1 DEF WholeBatches, AllThere
    <2> QED BY <2>1, <1>1
  <1> QED BY <1>4, <1>5, <1>6, <1>7, <1>8 DEF WholeBatches

\* So it does when records are lost, but none in front of an end that is left.
LEMMA WholeAfterLoss ==
    ASSUME NEW L, NEW M, NEW B, WholeBatches(L, B),
           DOMAIN M \subseteq DOMAIN L, \A p \in DOMAIN M : M[p] = L[p],
           \A p \in DOMAIN L, q \in DOMAIN M : Before(p, q) /\ L[q].val = Finished
                                               => p \in DOMAIN M,
           Numbered(L)
    PROVE  WholeBatches(M, B)
  <1>1. AsCommitted(M, B)
    BY DEF WholeBatches, AsCommitted
  <1>2. WrittenOnce(M)
    BY DEF WholeBatches, WrittenOnce, SameBatch
  <1>3. SideBySide(M)
    BY DEF WholeBatches, SideBySide, SameBatch
  <1>4. EndLast(M)
    BY DEF WholeBatches, EndLast, SameBatch
  <1>5. AllThere(M, B)
    <2> SUFFICES ASSUME NEW q \in DOMAIN M, M[q].val = Finished, NEW k \in Keys,
                        B[M[q].seq][k] # NoWrite
                 PROVE  \E p \in DOMAIN M : M[p].seq = M[q].seq /\ M[p].key = k
      BY DEF AllThere
    <2>1. q \in DOMAIN L /\ M[q] = L[q]
      OBVIOUS
    <2>2. PICK p \in DOMAIN L : L[p].seq = L[q].seq /\ L[p].key = k
      BY <2>1 DEF WholeBatches, AllThere
    <2>3. p = q \/ Before(p, q)
      BY <2>1, <2>2 DEF WholeBatches, EndLast, SameBatch, Numbered
    <2>4. p \in DOMAIN M
      BY <2>1, <2>2, <2>3
    <2> QED BY <2>1, <2>2, <2>4
  <1> QED BY <1>1, <1>2, <1>3, <1>4, <1>5 DEF WholeBatches

\* A number that no record has can be given to a batch.
LEMMA WholeAfterNumber ==
    ASSUME NEW L, NEW B, NEW C, WholeBatches(L, B), NEW s,
           \A p \in DOMAIN L : L[p].seq # s,
           \A p \in DOMAIN L : L[p].seq # 0 => C[L[p].seq] = B[L[p].seq],
           Numbered(L)
    PROVE  WholeBatches(L, C)
  BY DEF WholeBatches, AsCommitted, AllThere, Numbered

-----------------------------------------------------------------------------
\* What the steps of appendLogRecord do to the log and to what is synced

LEMMA LogDomain == DOMAIN Log = LogPositions /\ \A p \in LogPositions : Log[p] = RecAt(p)
  BY DEF Log

\* The log is a function of the files.
LEMMA LogSame ==
    ASSUME UNCHANGED files
    PROVE  Log' = Log /\ LogPositions' = LogPositions
  BY DEF Log, LogPositions, RecAt

\* The record at a position of the log is a record, in a file that exists.
LEMMA LogEntry ==
    ASSUME StoreInv, NEW p \in LogPositions
    PROVE  /\ Log[p] \in Records /\ WellFormed(Log[p])
           /\ p \in Positions /\ p.fid \in onDisk /\ p.fid \in FileIds
           /\ p.off \in Nat /\ p.off < Len(files[p.fid])
           /\ Log[p].seq # 0 => Log[p].seq \in SeqNos
  <1>1. p.fid \in FileIds /\ p.off \in Nat /\ p.off < Len(files[p.fid]) /\ p \in Positions
    BY SizesAssumption DEF LogPositions, Positions
  <1>2. Log[p] \in Records /\ WellFormed(Log[p])
    BY RecordType, LogDomain DEF StoreInv, LogWellFormed
  <1>3. p.fid \in onDisk
    BY <1>1 DEF StoreInv, DiskInv
  <1>4. Log[p].seq # 0 => Log[p].seq \in SeqNos
    BY <1>2, SizesAssumption DEF Records, SeqNos
  <1> QED BY <1>1, <1>2, <1>3, <1>4

LEMMA LogNumbered ==
    ASSUME StoreInv
    PROVE  Numbered(Log)
  BY LogEntry, LogDomain DEF Numbered, WellFormed

\* A record that is appended stands behind all others.
LEMMA LogGrows ==
    ASSUME StoreInv, phase = "open", NEW rec \in Records, SetActiveDataFile,
           files' = [files EXCEPT ![AppendFile] = Append(@, rec)],
           NEW pos, pos = AppendPos
    PROVE  GrownBy(Log, Log', pos, rec) /\ pos.fid = AppendFile /\ LogKept
  <1>1. /\ AppendFile \in FileIds
        /\ AppendOff < DataFileSize /\ AppendOff = Len(files[AppendFile])
        /\ pos = [fid |-> AppendFile, off |-> Len(files[AppendFile])]
        /\ \A f \in onDisk : f =< AppendFile
    BY AppendPlace DEF SetActiveDataFile
  <1>2. /\ pos \in Positions
        /\ LogPositions' = LogPositions \cup {pos}
        /\ files'[pos.fid][pos.off + 1] = rec
        /\ LogKept
    BY <1>1, LogAfterAppend DEF StoreInv
  <1>3. DOMAIN Log' = LogPositions' /\ \A p \in LogPositions' : Log'[p] = RecAt(p)'
    BY DEF Log
  <1>4. Log'[pos] = rec
    BY <1>2, <1>3 DEF RecAt
  <1>5. ASSUME NEW p \in LogPositions
        PROVE  Log'[p] = Log[p] /\ Before(p, pos)
    <2>1. Log'[p] = Log[p]
      BY <1>2, <1>3, LogDomain DEF LogKept
    <2>2. p.fid \in onDisk /\ p.fid \in Int /\ p.off \in Nat /\ p.off < Len(files[p.fid])
      BY LogEntry, SizesAssumption DEF FileIds
    <2>3. p.fid =< AppendFile /\ AppendFile \in Int
      BY <2>2, <1>1, SizesAssumption DEF FileIds
    <2>4. Before(p, pos)
      <3>1. CASE p.fid = AppendFile
        BY <3>1, <2>2, <1>1 DEF Before
      <3>2. CASE p.fid # AppendFile
        BY <3>2, <2>2, <2>3, <1>1 DEF Before
      <3> QED BY <3>1, <3>2
    <2> QED BY <2>1, <2>4
  <1>6. LogPositions' \subseteq Positions
    BY DEF LogPositions
  <1> QED BY <1>1, <1>2, <1>3, <1>4, <1>5, <1>6, LogDomain DEF GrownBy

\* No file loses synced records.
SyncAdvances == \A f \in FileIds : synced[f] =< synced'[f] /\ synced'[f] =< Len(files'[f])

\* Rotation leaves no unsynced record behind.
LEMMA RotationAdvances ==
    ASSUME StoreInv, phase = "open"
    PROVE  /\ SyncedAfterRotation \in [FileIds -> Nat]
           /\ \A f \in FileIds : /\ synced[f] =< SyncedAfterRotation[f]
                                 /\ SyncedAfterRotation[f] =< Len(files[f])
           /\ Rotates => SyncedAfterRotation[activeFile] = Len(files[activeFile])
  <1>1. synced \in [FileIds -> Nat] /\ files \in [FileIds -> Seq(Records)]
    BY DEF StoreInv, StoreTypeOK
  <1>2. \A f \in FileIds : Len(files[f]) \in Nat /\ synced[f] =< Len(files[f])
    BY <1>1 DEF StoreInv, DiskInv
  <1>3. CASE Rotates
    <2>1. SyncedAfterRotation = [synced EXCEPT ![activeFile] = Len(files[activeFile])]
          /\ activeFile \in FileIds
      BY <1>3 DEF SyncedAfterRotation, Rotates, StoreInv, StoreTypeOK
    <2>2. \A f \in FileIds : SyncedAfterRotation[f] =
              IF f = activeFile THEN Len(files[f]) ELSE synced[f]
      BY <2>1, <1>1
    <2> QED BY <2>1, <2>2, <1>1, <1>2, RotationSync
  <1>4. CASE ~Rotates
    BY <1>4, <1>1, <1>2 DEF SyncedAfterRotation
  <1> QED BY <1>3, <1>4

\* Without a new file the order of syncs can only improve.
LEMMA SyncOrderSame ==
    ASSUME StoreInv, SyncOrder, UNCHANGED <<files, onDisk>>, SyncAdvances,
           synced' \in [FileIds -> Nat]
    PROVE  SyncOrder'
  <1> SUFFICES ASSUME NEW f \in onDisk, NEW g \in onDisk, f < g
               PROVE  synced'[f] = Len(files[f])
    BY DEF SyncOrder
  <1>1. f \in FileIds /\ synced[f] = Len(files[f])
    BY DEF SyncOrder, StoreInv, StoreTypeOK
  <1>2. Len(files[f]) \in Nat /\ synced'[f] \in Nat
    BY <1>1 DEF StoreInv, StoreTypeOK
  <1>3. synced[f] =< synced'[f] /\ synced'[f] =< Len(files[f])
    BY <1>1 DEF SyncAdvances
  <1> QED BY <1>1, <1>2, <1>3

\* The files in front of the one that is appended to are synced.
LEMMA SyncOrderAppend ==
    ASSUME StoreInv, SyncOrder, phase = "open", SetActiveDataFile,
           synced' \in [FileIds -> Nat],
           \A f \in FileIds \ {AppendFile} : /\ synced'[f] = SyncedAfterRotation[f]
                                             /\ files'[f] = files[f]
    PROVE  /\ SyncOrder'
           /\ \A f \in onDisk' \ {AppendFile} : synced'[f] = Len(files'[f])
  <1>1. /\ AppendFile \in FileIds
        /\ \A f \in onDisk : f =< AppendFile
        /\ NewFile => AppendFile \notin onDisk
        /\ onDisk' = onDisk \cup {AppendFile}
    BY AppendPlace DEF SetActiveDataFile
  <1>2. onDisk \subseteq FileIds /\ FileIds \subseteq Int
    BY SizesAssumption DEF StoreInv, StoreTypeOK, FileIds
  <1>3. ASSUME NEW f \in onDisk, f # AppendFile
        PROVE  SyncedAfterRotation[f] = Len(files[f])
    <2>1. activeFile # -1 /\ activeFile \in onDisk /\ f =< activeFile
      BY DEF StoreInv, WriterInv
    <2>2. /\ synced[f] =< SyncedAfterRotation[f] /\ SyncedAfterRotation[f] =< Len(files[f])
          /\ SyncedAfterRotation[f] \in Nat /\ synced[f] \in Nat /\ Len(files[f]) \in Nat
      BY <1>2, RotationAdvances DEF StoreInv, StoreTypeOK
    <2>3. CASE f < activeFile
      <3>1. synced[f] = Len(files[f])
        BY <2>1, <2>3 DEF SyncOrder
      <3> QED BY <3>1, <2>2
    <2>4. CASE f = activeFile
      <3>1. Rotates
        BY <2>1, <2>4, <1>3 DEF AppendFile, NewFile
      <3> QED BY <3>1, <2>4, RotationAdvances
    <2>5. f \in Int /\ activeFile \in Int
      BY <2>1, <1>2
    <2> QED BY <2>1, <2>3, <2>4, <2>5
  <1>4. \A f \in onDisk' \ {AppendFile} : synced'[f] = Len(files'[f])
    BY <1>1, <1>2, <1>3
  <1>5. ASSUME NEW f \in onDisk', NEW g \in onDisk', f < g
        PROVE  f # AppendFile
    BY <1>1, <1>2, <1>5
  <1> QED BY <1>4, <1>5 DEF SyncOrder

\* An append that succeeds.
LEMMA AppendOutcome ==
    ASSUME StoreInv, SyncOrder, phase = "open", NEW rec \in Records,
           NEW alsoSync \in BOOLEAN, AppendLogRecord(rec, alsoSync),
           NEW pos, pos = AppendPos
    PROVE  /\ GrownBy(Log, Log', pos, rec) /\ LogKept
           /\ SyncAdvances /\ SyncOrder'
           /\ NeedSync \/ alsoSync => \A f \in onDisk' : synced'[f] = Len(files'[f])
  <1>1. /\ SetActiveDataFile
        /\ files' = [files EXCEPT ![AppendFile] = Append(@, rec)]
    BY DEF AppendLogRecord
  <1>2. AppendFile \in FileIds
    BY <1>1, AppendPlace DEF SetActiveDataFile
  <1>3. /\ files \in [FileIds -> Seq(Records)]
        /\ \A g \in FileIds \ {AppendFile} : files'[g] = files[g]
        /\ Len(files'[AppendFile]) = Len(files[AppendFile]) + 1
        /\ Len(files[AppendFile]) \in Nat
    BY <1>1, <1>2, AppendToFile DEF StoreInv, StoreTypeOK
  <1>4. /\ SyncedAfterRotation \in [FileIds -> Nat]
        /\ \A f \in FileIds : /\ synced[f] =< SyncedAfterRotation[f]
                              /\ SyncedAfterRotation[f] =< Len(files[f])
    BY RotationAdvances
  <1>5. synced' = IF NeedSync \/ alsoSync
                  THEN [SyncedAfterRotation EXCEPT ![AppendFile] = Len(files[AppendFile]) + 1]
                  ELSE SyncedAfterRotation
    BY DEF AppendLogRecord
  <1>6. /\ synced' \in [FileIds -> Nat]
        /\ \A f \in FileIds \ {AppendFile} : synced'[f] = SyncedAfterRotation[f]
        /\ synced'[AppendFile] = IF NeedSync \/ alsoSync THEN Len(files[AppendFile]) + 1
                                 ELSE SyncedAfterRotation[AppendFile]
    BY <1>2, <1>3, <1>4, <1>5
  <1>7. SyncAdvances
    <2> SUFFICES ASSUME NEW f \in FileIds
                 PROVE  synced[f] =< synced'[f] /\ synced'[f] =< Len(files'[f])
      BY DEF SyncAdvances
    <2>1. synced[f] \in Nat /\ SyncedAfterRotation[f] \in Nat /\ Len(files[f]) \in Nat
      BY <1>4 DEF StoreInv, StoreTypeOK
    <2>2. CASE f = AppendFile
      BY <2>1, <2>2, <1>3, <1>4, <1>6
    <2>3. CASE f # AppendFile
      BY <2>1, <2>3, <1>3, <1>4, <1>6
    <2> QED BY <2>2, <2>3
  <1>8. SyncOrder' /\ \A f \in onDisk' \ {AppendFile} : synced'[f] = Len(files'[f])
    BY <1>1, <1>3, <1>6, SyncOrderAppend
  <1>9. NeedSync \/ alsoSync => \A f \in onDisk' : synced'[f] = Len(files'[f])
    BY <1>3, <1>6, <1>8
  <1>10. GrownBy(Log, Log', pos, rec) /\ LogKept
    BY <1>1, LogGrows
  <1> QED BY <1>7, <1>8, <1>9, <1>10

\* An append that fails: the log is the same, or has the record whose sync
\* failed.
LEMMA FailureOutcome ==
    ASSUME StoreInv, SyncOrder, phase = "open", NEW rec \in Records, AppendFails(rec)
    PROVE  /\ SyncAdvances /\ SyncOrder' /\ LogKept
           /\ \/ UNCHANGED files
              \/ /\ "sync" \in Faults /\ NeedSync
                 /\ \E pos : GrownBy(Log, Log', pos, rec)
  <1>1. /\ synced \in [FileIds -> Nat] /\ files \in [FileIds -> Seq(Records)]
        /\ \A f \in FileIds : synced[f] =< Len(files[f]) /\ synced[f] \in Nat
    BY DEF StoreInv, StoreTypeOK, DiskInv
  <1>2. /\ SyncedAfterRotation \in [FileIds -> Nat]
        /\ \A f \in FileIds : /\ synced[f] =< SyncedAfterRotation[f]
                              /\ SyncedAfterRotation[f] =< Len(files[f])
    BY RotationAdvances
  <1>3. CASE RotationSyncFails
    <2>1. UNCHANGED <<files, onDisk, synced>>
      BY <1>3 DEF RotationSyncFails, disk
    <2>2. SyncAdvances
      BY <2>1, <1>1 DEF SyncAdvances
    <2> QED BY <2>1, <2>2, <1>1, SyncOrderSame, LogUnchanged
  <1>4. CASE OpenFails
    <2>1. UNCHANGED <<files, onDisk>> /\ synced' = SyncedAfterRotation
      BY <1>4 DEF OpenFails
    <2>2. SyncAdvances
      BY <2>1, <1>2 DEF SyncAdvances
    <2> QED BY <2>1, <2>2, <1>2, SyncOrderSame, LogUnchanged
  <1>5. CASE WriteFails
    <2>1. SetActiveDataFile /\ UNCHANGED files /\ synced' = SyncedAfterRotation
      BY <1>5 DEF WriteFails
    <2>2. SyncAdvances
      BY <2>1, <1>2 DEF SyncAdvances
    <2>3. SyncOrder'
      BY <2>1, <1>2, SyncOrderAppend
    <2> QED BY <2>1, <2>2, <2>3, LogUnchanged
  <1>6. CASE SyncAfterWriteFails(rec)
    <2>1. /\ SetActiveDataFile /\ synced' = SyncedAfterRotation
          /\ "sync" \in Faults /\ NeedSync
          /\ files' = [files EXCEPT ![AppendFile] = Append(@, rec)]
      BY <1>6 DEF SyncAfterWriteFails
    <2>2. AppendFile \in FileIds
      BY <2>1, AppendPlace DEF SetActiveDataFile
    <2>3. /\ \A g \in FileIds \ {AppendFile} : files'[g] = files[g]
          /\ Len(files'[AppendFile]) = Len(files[AppendFile]) + 1
          /\ Len(files[AppendFile]) \in Nat
      BY <2>1, <2>2, <1>1, AppendToFile DEF StoreInv
    <2>4. SyncAdvances
      <3> SUFFICES ASSUME NEW f \in FileIds
                   PROVE  synced[f] =< synced'[f] /\ synced'[f] =< Len(files'[f])
        BY DEF SyncAdvances
      <3>1. SyncedAfterRotation[f] \in Nat /\ Len(files[f]) \in Nat
        BY <1>1, <1>2
      <3>2. CASE f = AppendFile
        BY <3>1, <3>2, <2>1, <2>3, <1>2
      <3>3. CASE f # AppendFile
        BY <3>1, <3>3, <2>1, <2>3, <1>2
      <3> QED BY <3>2, <3>3
    <2>5. SyncOrder'
      BY <2>1, <2>3, <1>2, SyncOrderAppend
    <2>6. PICK pos : pos = AppendPos
      OBVIOUS
    <2>7. GrownBy(Log, Log', pos, rec) /\ LogKept
      BY <2>1, <2>6, LogGrows
    <2> QED BY <2>1, <2>4, <2>5, <2>7
  <1> QED BY <1>3, <1>4, <1>5, <1>6 DEF AppendFails

-----------------------------------------------------------------------------
\* What a step keeps

\* The conjuncts of BatchIndInv beside IndInv.
BatchPart ==
    /\ WholeBatches(Log, batchOf)
    /\ NumbersKnown
    /\ CommitRunning
    /\ SyncOrder
    /\ SyncedAtEnd
    /\ AckedBatchDurable

\* What has reached the disk is there after the step.
ReachedStays == \A p \in LogPositions :
    Reached(p) => p \in LogPositions' /\ RecAt(p)' = RecAt(p) /\ Reached(p)'

LEMMA ReachedByAdvance ==
    ASSUME StoreInv, LogKept, SyncAdvances, synced' \in [FileIds -> Nat]
    PROVE  ReachedStays
  <1> SUFFICES ASSUME NEW p \in LogPositions, p.off < synced[p.fid]
               PROVE  p.off < synced'[p.fid]
    BY DEF ReachedStays, Reached, LogKept
  <1>1. p.fid \in FileIds /\ p.off \in Nat
    BY LogEntry
  <1>2. synced[p.fid] \in Nat /\ synced'[p.fid] \in Nat /\ synced[p.fid] =< synced'[p.fid]
    BY <1>1 DEF SyncAdvances, StoreInv, StoreTypeOK
  <1> QED BY <1>1, <1>2

LEMMA DurableKept ==
    ASSUME AckedBatchDurable, ReachedStays, acked' = acked,
           BatchSync => \A s \in acked : batchOf'[s] = batchOf[s]
    PROVE  AckedBatchDurable'
  <1> SUFFICES ASSUME BatchSync, NEW s \in acked
               PROVE  /\ \E p \in LogPositions' :
                            RecAt(p)'.seq = s /\ RecAt(p)'.val = Finished /\ Reached(p)'
                      /\ \A k \in Keys : batchOf'[s][k] # NoWrite =>
                            \E p \in LogPositions' :
                               /\ RecAt(p)'.seq = s /\ RecAt(p)'.key = k
                               /\ RecAt(p)'.val = batchOf'[s][k] /\ Reached(p)'
    BY DEF AckedBatchDurable
  <1>1. batchOf'[s] = batchOf[s]
    OBVIOUS
  <1>2. \E p \in LogPositions :
           RecAt(p).seq = s /\ RecAt(p).val = Finished /\ Reached(p)
    BY DEF AckedBatchDurable
  <1>3. ASSUME NEW k \in Keys, batchOf[s][k] # NoWrite
        PROVE  \E p \in LogPositions :
                  /\ RecAt(p).seq = s /\ RecAt(p).key = k
                  /\ RecAt(p).val = batchOf[s][k] /\ Reached(p)
    BY <1>3 DEF AckedBatchDurable
  <1> QED BY <1>1, <1>2, <1>3 DEF ReachedStays

\* A step that leaves the records, the numbers and the running Commit alone.
LEMMA QuietStep ==
    ASSUME BatchIndInv, StoreInv', SyncAdvances, SyncOrder',
           UNCHANGED <<files, seqNo, phase, cursor, batchOf, acked>>,
           \A c \in BatchClients :
              \/ pc'[c] = "idle"
              \/ /\ pc'[c] = pc[c] /\ pending'[c] = pending[c]
                 /\ pc[c] = "append" => todo' = todo
    PROVE  BatchPart'
  <1>1. Log' = Log /\ LogPositions' = LogPositions /\ LogKept
    BY LogSame, LogUnchanged
  <1>2. WholeBatches(Log, batchOf)'
    BY <1>1 DEF BatchIndInv, WholeBatches, AsCommitted, WrittenOnce, SideBySide, EndLast,
                AllThere, SameBatch, Before
  <1>3. NumbersKnown'
    BY <1>1 DEF BatchIndInv, NumbersKnown, Known
  <1>4. CommitRunning'
    BY <1>1 DEF BatchIndInv, CommitRunning, AtTail
  <1>5. ReachedStays
    BY <1>1, ReachedByAdvance DEF BatchIndInv, IndInv, StoreInv, StoreTypeOK
  <1>6. AckedBatchDurable'
    BY <1>5, DurableKept DEF BatchIndInv
  <1>7. SyncedAtEnd'
    BY <1>1, <1>5 DEF BatchIndInv, SyncedAtEnd, ReachedStays, Reached
  <1> QED BY <1>2, <1>3, <1>4, <1>6, <1>7 DEF BatchPart

\* A record of Put or Delete is appended while no Commit runs.
LEMMA DirectGrowth ==
    ASSUME BatchIndInv, StoreInv', SyncAdvances, SyncOrder', LogKept,
           phase = "open", mu = NoClient,
           UNCHANGED <<phase, seqNo, cursor, batchOf, acked>>,
           \A c \in BatchClients : pc'[c] = pc[c],
           NEW pos, NEW rec, GrownBy(Log, Log', pos, rec),
           rec.seq = 0, rec.val # Finished
    PROVE  BatchPart'
  <1>1. /\ LogPositions' = LogPositions \cup {pos}
        /\ Log'[pos] = rec
        /\ \A p \in LogPositions : Log'[p] = Log[p]
    BY LogDomain DEF GrownBy, Log
  <1>2. \A c \in BatchClients : pc'[c] = "idle"
    BY ClientsAssumption DEF BatchIndInv, IndInv, LockInv, Clients
  <1>3. WholeBatches(Log', batchOf)
    BY WholeAfterGrowth DEF BatchIndInv
  <1>4. WholeBatches(Log, batchOf)'
    BY <1>3 DEF WholeBatches, AsCommitted, WrittenOnce, SideBySide, EndLast,
                AllThere, SameBatch, Before
  <1>5. NumbersKnown'
    <2>1. \A p \in LogPositions : Log[p].seq =< seqNo
      BY DEF BatchIndInv, NumbersKnown, Known
    <2>2. rec.seq =< seqNo
      BY DEF BatchIndInv, IndInv, CallersTypeOK
    <2>3. \A p \in LogPositions' : Log'[p].seq =< seqNo
      BY <1>1, <2>1, <2>2
    <2> QED BY <2>3 DEF NumbersKnown
  <1>6. CommitRunning' /\ SyncedAtEnd'
    BY <1>2 DEF CommitRunning, SyncedAtEnd
  <1>7. ReachedStays
    BY ReachedByAdvance DEF BatchIndInv, IndInv, StoreInv, StoreTypeOK
  <1>8. AckedBatchDurable'
    BY <1>7, DurableKept DEF BatchIndInv
  <1> QED BY <1>4, <1>5, <1>6, <1>8 DEF BatchPart

\* The record that a running Commit appends continues its batch.
LEMMA BatchGrowth ==
    ASSUME BatchIndInv, StoreInv', LogKept, SyncAdvances,
           UNCHANGED <<phase, seqNo, batchOf, acked>>,
           NEW c \in BatchClients, NEW pos, NEW rec, GrownBy(Log, Log', pos, rec),
           \/ pc[c] = "append" /\ \E k \in todo : rec = BatchRecord(c, k)
           \/ pc[c] = "finish" /\ rec = FinishedRecord
    PROVE  /\ WholeBatches(Log, batchOf)'
           /\ NumbersKnown'
           /\ AckedBatchDurable'
  <1>1. /\ LogPositions' = LogPositions \cup {pos}
        /\ Log'[pos] = rec
        /\ \A p \in LogPositions : Log'[p] = Log[p]
    BY LogDomain DEF GrownBy, Log
  <1>2. /\ phase = "open" /\ seqNo # 0 /\ rec.seq = seqNo
        /\ batchOf[seqNo] = pending[c] /\ AtTail(c)
    BY OneCommit DEF BatchIndInv, IndInv, CommitRunning, BatchRecord, FinishedRecord
  <1>3. rec.val # Finished => batchOf[rec.seq][rec.key] = rec.val
    BY <1>2 DEF BatchRecord, FinishedRecord
  <1>4. ASSUME NEW p \in LogPositions, Log[p].seq = rec.seq
        PROVE  /\ Log[p].val # Finished /\ Log[p].key # rec.key
               /\ \A r \in LogPositions : Before(p, r) => Log[r].seq = rec.seq
    <2>1. /\ Log[p].val # Finished
          /\ pc[c] = "append" => Log[p].key \notin todo
          /\ \A r \in LogPositions : Before(p, r) => Log[r].seq = rec.seq
      BY <1>2, <1>4 DEF AtTail
    <2>2. Log[p].key # TxnFinKey
      BY <2>1, LogEntry DEF BatchIndInv, IndInv, WellFormed
    <2> QED BY <2>1, <2>2 DEF BatchRecord, FinishedRecord
  <1>5. ASSUME rec.val = Finished, NEW k \in Keys, batchOf[rec.seq][k] # NoWrite
        PROVE  \E p \in LogPositions : Log[p].seq = rec.seq /\ Log[p].key = k
    <2>1. pc[c] = "finish"
      <3>1. ASSUME pc[c] = "append", NEW j \in todo PROVE BatchRecord(c, j).val # Finished
        BY <3>1, BatchRecordType, MarkersAssumption DEF BatchIndInv, BatchRecord
      <3> QED BY <3>1, <1>5
    <2>2. Written(c, k)
      BY <2>1, <1>2, <1>5 DEF Written
    <2>3. Appended(c, k, seqNo)
      BY <2>1, <2>2 DEF BatchIndInv, IndInv, CallersInv, BatchInv
    <2> QED BY <2>3, <1>2, LogDomain DEF Appended
  <1>6. WholeBatches(Log', batchOf)
    BY <1>2, <1>3, <1>4, <1>5, WholeAfterGrowth, LogDomain DEF BatchIndInv
  <1>7. WholeBatches(Log, batchOf)'
    BY <1>6 DEF WholeBatches, AsCommitted, WrittenOnce, SideBySide, EndLast,
                AllThere, SameBatch, Before
  <1>8. NumbersKnown'
    <2>1. \A p \in LogPositions : Log[p].seq =< seqNo
      BY <1>2 DEF BatchIndInv, NumbersKnown, Known
    <2>2. rec.seq =< seqNo
      BY <1>2 DEF BatchIndInv, IndInv, CallersTypeOK
    <2>3. \A p \in LogPositions' : Log'[p].seq =< seqNo
      BY <1>1, <2>1, <2>2
    <2> QED BY <2>3 DEF NumbersKnown
  <1>9. ReachedStays
    BY ReachedByAdvance DEF BatchIndInv, IndInv, StoreInv, StoreTypeOK
  <1>10. AckedBatchDurable'
    BY <1>9, DurableKept DEF BatchIndInv
  <1> QED BY <1>7, <1>8, <1>10

-----------------------------------------------------------------------------
\* Put and Delete

LEMMA DirectAppendKeepsBatches ==
    ASSUME BatchIndInv, IndInv', NEW c \in DirectClients, NEW k \in Keys,
           NEW v \in Values \cup {Tombstone},
           phase = "open", DirectAppend(c, k, v)
    PROVE  BatchPart'
  <1>1. /\ AppendLogRecord(DirectRecord(k, v), FALSE) /\ mu = NoClient
        /\ UNCHANGED <<phase, seqNo, cursor, batchOf, acked>>
        /\ pc' = [pc EXCEPT ![c] = "index"]
    BY DEF DirectAppend, Locked, loader, history
  <1>2. DirectRecord(k, v) \in Records /\ DirectRecord(k, v).seq = 0
        /\ DirectRecord(k, v).val # Finished
    BY DirectRecordType, MarkersAssumption DEF DirectRecord
  <1>3. PICK pos : pos = AppendPos
    OBVIOUS
  <1>4. /\ GrownBy(Log, Log', pos, DirectRecord(k, v)) /\ LogKept
        /\ SyncAdvances /\ SyncOrder'
    BY <1>1, <1>2, <1>3, AppendOutcome DEF BatchIndInv, IndInv
  <1>5. \A d \in BatchClients : pc'[d] = pc[d]
    BY <1>1, ClientsAssumption DEF BatchIndInv, IndInv, CallersTypeOK, Clients
  <1> QED BY <1>1, <1>2, <1>4, <1>5, DirectGrowth DEF IndInv

\* An append of Put or Delete that fails.
LEMMA DirectFailureKeepsBatches ==
    ASSUME BatchIndInv, IndInv', NEW c \in DirectClients, NEW k \in Keys,
           NEW v \in Values \cup {Tombstone},
           phase = "open", mu = NoClient, AppendFails(DirectRecord(k, v)),
           UNCHANGED <<phase, seqNo, cursor, batchOf, acked>>,
           \A d \in BatchClients : pc'[d] = pc[d]
    PROVE  BatchPart'
  <1>1. DirectRecord(k, v) \in Records /\ DirectRecord(k, v).seq = 0
        /\ DirectRecord(k, v).val # Finished
    BY DirectRecordType, MarkersAssumption DEF DirectRecord
  <1>2. /\ SyncAdvances /\ SyncOrder' /\ LogKept
        /\ UNCHANGED files \/ \E pos : GrownBy(Log, Log', pos, DirectRecord(k, v))
    BY <1>1, FailureOutcome DEF BatchIndInv, IndInv
  <1>3. \A d \in BatchClients : pc'[d] = "idle"
    BY ClientsAssumption DEF BatchIndInv, IndInv, LockInv, Clients
  <1>4. CASE UNCHANGED files
    BY <1>2, <1>3, <1>4, QuietStep DEF IndInv
  <1>5. CASE \E pos : GrownBy(Log, Log', pos, DirectRecord(k, v))
    BY <1>1, <1>2, <1>5, DirectGrowth DEF IndInv
  <1> QED BY <1>2, <1>4, <1>5

\* What has not been synced stays so, and nothing else.
LEMMA SyncedSame ==
    ASSUME StoreInv, SyncOrder, UNCHANGED <<files, onDisk, synced>>
    PROVE  SyncAdvances /\ SyncOrder'
  BY DEF SyncAdvances, SyncOrder, StoreInv, StoreTypeOK, DiskInv

LEMMA DirectKeepsBatches ==
    ASSUME BatchIndInv, IndInv', NEW c \in DirectClients, DirectStep(c)
    PROVE  BatchPart'
  <1>0. c \in Clients /\ c \notin BatchClients /\ KeysOf[c] \subseteq Keys
    BY ClientsAssumption DEF Clients
  <1>1. CASE PutAppend(c)
    <2>1. PICK k \in KeysOf[c], v \in Values : DirectAppend(c, k, v)
      BY <1>1 DEF PutAppend
    <2> QED BY <1>0, <1>1, <2>1, DirectAppendKeepsBatches DEF PutAppend, Calm
  <1>2. CASE PutFails(c)
    <2>1. PICK k \in KeysOf[c], v \in Values : AppendFails(DirectRecord(k, v))
      BY <1>2 DEF PutFails
    <2>2. /\ phase = "open" /\ mu = NoClient
          /\ UNCHANGED <<phase, seqNo, cursor, batchOf, acked, pc>>
      BY <1>2 DEF PutFails, Calm, Locked, loader, history, callers
    <2> QED BY <1>0, <2>1, <2>2, DirectFailureKeepsBatches
  <1>3. CASE DeleteCheck(c)
    <2>1. /\ UNCHANGED <<files, onDisk, synced, seqNo, phase, cursor, batchOf, acked, todo>>
          /\ pc' = [pc EXCEPT ![c] = "delete"]
          /\ \E k : pending' = [pending EXCEPT ![c] = [NoWrites EXCEPT ![k] = Tombstone]]
      BY <1>3 DEF DeleteCheck, disk, loader, history
    <2>2. \A d \in BatchClients : pc'[d] = pc[d] /\ pending'[d] = pending[d]
      BY <1>0, <2>1 DEF BatchIndInv, IndInv, CallersTypeOK, Clients
    <2> QED BY <2>1, <2>2, SyncedSame, QuietStep DEF BatchIndInv, IndInv
  <1>4. CASE DeleteAppend(c)
    <2>1. PICK k \in Keys : DirectAppend(c, k, Tombstone)
      BY <1>4 DEF DeleteAppend
    <2> QED BY <1>4, <2>1, DirectAppendKeepsBatches DEF DeleteAppend
  <1>5. CASE DeleteFails(c)
    <2>1. PICK k \in Keys : AppendFails(DirectRecord(k, Tombstone))
      BY <1>5 DEF DeleteFails
    <2>2. /\ phase = "open" /\ mu = NoClient
          /\ UNCHANGED <<phase, seqNo, cursor, batchOf, acked>>
          /\ pc' = [pc EXCEPT ![c] = "idle"]
      BY <1>5 DEF DeleteFails, Locked, loader, history
    <2>3. \A d \in BatchClients : pc'[d] = pc[d]
      BY <1>0, <2>2 DEF BatchIndInv, IndInv, CallersTypeOK, Clients
    <2> QED BY <2>1, <2>2, <2>3, DirectFailureKeepsBatches
  <1>6. CASE DirectIndex(c)
    <2>1. /\ UNCHANGED <<files, onDisk, synced, seqNo, phase, cursor, batchOf, acked, todo>>
          /\ pc' = [pc EXCEPT ![c] = "idle"]
          /\ pending' = [pending EXCEPT ![c] = NoWrites]
      BY <1>6 DEF DirectIndex, disk, loader, history
    <2>2. \A d \in BatchClients : pc'[d] = pc[d] /\ pending'[d] = pending[d]
      BY <1>0, <2>1 DEF BatchIndInv, IndInv, CallersTypeOK, Clients
    <2> QED BY <2>1, <2>2, SyncedSame, QuietStep DEF BatchIndInv, IndInv
  <1> QED BY <1>1, <1>2, <1>3, <1>4, <1>5, <1>6 DEF DirectStep

-----------------------------------------------------------------------------
\* WriteBatch

\* Staging a write changes no batch that is running.
LEMMA StagingKeepsBatches ==
    ASSUME BatchIndInv, IndInv', NEW c \in BatchClients, WBPut(c) \/ WBDelete(c)
    PROVE  BatchPart'
  <1>1. /\ UNCHANGED <<files, onDisk, synced, seqNo, phase, cursor, batchOf, acked, todo, pc>>
        /\ pc[c] = "idle"
        /\ \E k, v : pending' = [pending EXCEPT ![c][k] = v]
    BY DEF WBPut, WBDelete, Calm, disk, loader, history
  <1>2. \A d \in BatchClients \ {c} : pending'[d] = pending[d]
    BY <1>1 DEF BatchIndInv, IndInv, CallersTypeOK, Clients
  <1> QED BY <1>1, <1>2, SyncedSame, QuietStep DEF BatchIndInv, IndInv

\* A Commit takes a number that is above those of the log.
LEMMA CommitStartKeepsBatches ==
    ASSUME BatchIndInv, IndInv', NEW c \in BatchClients, CommitStart(c)
    PROVE  BatchPart'
  <1>1. /\ phase = "open" /\ mu = NoClient
        /\ seqNo' = seqNo + 1 /\ seqNo < MaxSeqNo
        /\ batchOf' = [batchOf EXCEPT ![seqNo + 1] = pending[c]]
        /\ pc' = [pc EXCEPT ![c] = "append"]
        /\ UNCHANGED <<files, onDisk, synced, phase, cursor, pending, acked>>
    BY DEF CommitStart, Calm, Locked, disk, loader
  <1>2. Log' = Log /\ LogPositions' = LogPositions /\ LogKept
    BY <1>1, LogSame, LogUnchanged
  <1>3. seqNo \in Nat /\ seqNo + 1 \in SeqNos
    BY <1>1, SizesAssumption DEF BatchIndInv, IndInv, CallersTypeOK, SeqNos
  <1>4. \A p \in LogPositions : Log[p].seq =< seqNo /\ Log[p].seq \in Nat
    BY <1>1, LogEntry DEF BatchIndInv, IndInv, NumbersKnown, Known, Records
  <1>5. \A p \in LogPositions : Log[p].seq # seqNo + 1
    BY <1>3, <1>4
  <1>6. /\ batchOf'[seqNo + 1] = pending[c]
        /\ \A s \in SeqNos \ {seqNo + 1} : batchOf'[s] = batchOf[s]
    BY <1>1, <1>3 DEF BatchIndInv, IndInv, CallersTypeOK
  <1>7. WholeBatches(Log, batchOf')
    <2>1. \A p \in DOMAIN Log : Log[p].seq # 0 => batchOf'[Log[p].seq] = batchOf[Log[p].seq]
      BY <1>5, <1>6, LogEntry, LogDomain DEF BatchIndInv, IndInv
    <2>2. Numbered(Log)
      BY LogNumbered DEF BatchIndInv, IndInv
    <2>3. \A p \in DOMAIN Log : Log[p].seq # seqNo + 1
      BY <1>5, LogDomain
    <2> QED BY <2>1, <2>2, <2>3, WholeAfterNumber DEF BatchIndInv
  <1>8. WholeBatches(Log, batchOf)'
    BY <1>2, <1>7 DEF WholeBatches, AsCommitted, WrittenOnce, SideBySide, EndLast,
                AllThere, SameBatch, Before
  <1>9. NumbersKnown'
    <2>1. \A p \in LogPositions : Log[p].seq =< seqNo + 1
      BY <1>3, <1>4
    <2> QED BY <2>1, <1>1, <1>2 DEF NumbersKnown
  <1>10. CommitRunning'
    <2>1. \A d \in BatchClients \ {c} : pc'[d] = "idle"
      BY <1>1, ClientsAssumption DEF BatchIndInv, IndInv, LockInv, CallersTypeOK, Clients
    <2>2. batchOf'[seqNo'] = pending'[c]
      BY <1>1, <1>6
    <2>3. \A p \in LogPositions' : Log'[p].seq # seqNo'
      BY <1>1, <1>2, <1>5
    <2>4. AtTail(c)'
      BY <2>3 DEF AtTail
    <2> QED BY <2>1, <2>2, <2>4 DEF CommitRunning
  <1>11. SyncAdvances /\ SyncOrder'
    BY <1>1, SyncedSame DEF BatchIndInv, IndInv
  <1>12. SyncedAtEnd'
    <2>1. \A d \in BatchClients : pc'[d] # "apply"
      BY <1>1, ClientsAssumption DEF BatchIndInv, IndInv, LockInv, CallersTypeOK, Clients
    <2> QED BY <2>1 DEF SyncedAtEnd
  <1>13. AckedBatchDurable'
    <2>1. ReachedStays
      BY <1>1, <1>2, <1>11, ReachedByAdvance DEF BatchIndInv, IndInv, StoreInv, StoreTypeOK
    <2>2. BatchSync => \A s \in acked : s # seqNo + 1
      BY <1>5, LogDomain DEF BatchIndInv, AckedBatchDurable
    <2>3. BatchSync => \A s \in acked : batchOf'[s] = batchOf[s]
      BY <1>6, <2>2 DEF BatchIndInv, IndInv, CallersTypeOK
    <2> QED BY <1>1, <2>1, <2>3, DurableKept DEF BatchIndInv
  <1> QED BY <1>8, <1>9, <1>10, <1>11, <1>12, <1>13 DEF BatchPart

LEMMA CommitAppendKeepsBatches ==
    ASSUME BatchIndInv, IndInv', NEW c \in BatchClients, CommitAppend(c)
    PROVE  BatchPart'
  <1>1. PICK k \in todo :
          /\ AppendLogRecord(BatchRecord(c, k), FALSE)
          /\ todo' = todo \ {k}
          /\ pc' = IF todo = {k} THEN [pc EXCEPT ![c] = "finish"] ELSE pc
    BY DEF CommitAppend
  <1>2. /\ phase = "open" /\ pc[c] = "append"
        /\ UNCHANGED <<phase, seqNo, cursor, pending, batchOf, acked>>
    BY DEF CommitAppend, loader, history
  <1>3. BatchRecord(c, k) \in Records /\ BatchRecord(c, k).val # Finished
    BY <1>2, BatchRecordType, MarkersAssumption DEF BatchIndInv, BatchRecord
  <1>4. PICK pos : pos = AppendPos
    OBVIOUS
  <1>5. PICK rec : rec = BatchRecord(c, k)
    OBVIOUS
  <1>6. /\ GrownBy(Log, Log', pos, rec) /\ LogKept
        /\ SyncAdvances /\ SyncOrder'
    BY <1>1, <1>2, <1>3, <1>4, <1>5, AppendOutcome DEF BatchIndInv, IndInv
  <1>7. WholeBatches(Log, batchOf)' /\ NumbersKnown' /\ AckedBatchDurable'
    BY <1>2, <1>5, <1>6, BatchGrowth DEF IndInv
  <1>8. c \in Clients /\ \A d \in BatchClients \ {c} : pc'[d] = "idle"
    BY <1>1, <1>2, OneCommit DEF BatchIndInv, IndInv, CallersTypeOK, Clients
  <1>9. pc'[c] = IF todo = {k} THEN "finish" ELSE "append"
    BY <1>1, <1>2, <1>8 DEF BatchIndInv, IndInv, CallersTypeOK
  <1>10. AtTail(c)'
    <2>1. /\ LogPositions' = LogPositions \cup {pos}
          /\ Log'[pos] = rec
          /\ \A p \in LogPositions : Log'[p] = Log[p] /\ Before(p, pos)
          /\ pos \in Positions /\ LogPositions \subseteq Positions
      BY <1>6, LogDomain DEF GrownBy, Log
    <2>2. \A r \in LogPositions' : ~Before(pos, r)
      BY <2>1, BeforeOrder
    <2>3. /\ rec.seq = seqNo /\ rec.key = k /\ rec.val # Finished
          /\ AtTail(c)
      BY <1>2, <1>3, <1>5 DEF BatchRecord, BatchIndInv, CommitRunning
    <2> SUFFICES ASSUME NEW p \in LogPositions', Log'[p].seq = seqNo
                 PROVE  /\ Log'[p].val # Finished
                        /\ Log'[p].key \notin todo'
                        /\ \A r \in LogPositions' : Before(p, r) => Log'[r].seq = seqNo
      BY <1>2 DEF AtTail
    <2>4. CASE p = pos
      BY <2>1, <2>2, <2>3, <2>4, <1>1
    <2>5. CASE p \in LogPositions
      BY <2>1, <2>3, <2>5, <1>1, <1>2 DEF AtTail
    <2> QED BY <2>1, <2>4, <2>5
  <1>11. CommitRunning'
    BY <1>2, <1>8, <1>10 DEF BatchIndInv, CommitRunning
  <1>12. SyncedAtEnd'
    BY <1>8, <1>9 DEF SyncedAtEnd
  <1> QED BY <1>6, <1>7, <1>11, <1>12 DEF BatchPart

LEMMA CommitFinishKeepsBatches ==
    ASSUME BatchIndInv, IndInv', NEW c \in BatchClients, CommitFinish(c)
    PROVE  BatchPart'
  <1>1. /\ phase = "open" /\ pc[c] = "finish"
        /\ AppendLogRecord(FinishedRecord, BatchSync)
        /\ pc' = [pc EXCEPT ![c] = "apply"]
        /\ UNCHANGED <<phase, seqNo, cursor, pending, batchOf, acked>>
    BY DEF CommitFinish, loader, history
  <1>2. FinishedRecord \in Records
    BY <1>1, OneCommit, FinishedRecordType DEF BatchIndInv, IndInv
  <1>3. PICK pos : pos = AppendPos
    OBVIOUS
  <1>4. /\ GrownBy(Log, Log', pos, FinishedRecord) /\ LogKept
        /\ SyncAdvances /\ SyncOrder'
        /\ BatchSync => \A f \in onDisk' : synced'[f] = Len(files'[f])
    BY <1>1, <1>2, <1>3, OptionsAssumption, AppendOutcome DEF BatchIndInv, IndInv
  <1>5. WholeBatches(Log, batchOf)' /\ NumbersKnown' /\ AckedBatchDurable'
    BY <1>1, <1>4, BatchGrowth DEF IndInv
  <1>6. c \in Clients /\ \A d \in BatchClients \ {c} : pc'[d] = "idle"
    BY <1>1, OneCommit DEF BatchIndInv, IndInv, CallersTypeOK, Clients
  <1>7. pc'[c] = "apply"
    BY <1>1, <1>6 DEF BatchIndInv, IndInv, CallersTypeOK
  <1>8. CommitRunning'
    BY <1>1, <1>6, <1>7 DEF BatchIndInv, CommitRunning
  <1>9. SyncedAtEnd'
    <2> SUFFICES ASSUME BatchSync, NEW p \in LogPositions'
                 PROVE  Reached(p)'
      BY DEF SyncedAtEnd
    <2>1. p.fid \in onDisk' /\ p.off < Len(files'[p.fid])
      <3>1. p \in Positions /\ p.fid \in FileIds /\ p.off \in Nat
            /\ p.off < Len(files'[p.fid])
        BY SizesAssumption DEF LogPositions, Positions
      <3> QED BY <3>1 DEF IndInv, StoreInv, DiskInv
    <2> QED BY <2>1, <1>4 DEF Reached
  <1> QED BY <1>4, <1>5, <1>8, <1>9 DEF BatchPart

\* A Commit that fails leaves its number and its records behind.
LEMMA CommitFailsKeepsBatches ==
    ASSUME BatchIndInv, IndInv', NEW c \in BatchClients, CommitFails(c)
    PROVE  BatchPart'
  <1>1. /\ phase = "open" /\ mu = c
        /\ pc' = [pc EXCEPT ![c] = "idle"]
        /\ UNCHANGED <<phase, seqNo, cursor, pending, batchOf, acked>>
    BY DEF CommitFails, loader, history
  <1>2. c \in Clients /\ pc[c] # "idle" /\ seqNo # 0
    BY <1>1, ClientsAssumption DEF BatchIndInv, IndInv, LockInv, Clients
  <1>3. \A d \in BatchClients : pc'[d] = "idle"
    BY <1>1, <1>2, OneCommit DEF BatchIndInv, IndInv, CallersTypeOK, Clients
  <1>4. \E rec :
          /\ \/ pc[c] = "append" /\ \E k \in todo : rec = BatchRecord(c, k)
             \/ pc[c] = "finish" /\ rec = FinishedRecord
          /\ SyncAdvances /\ SyncOrder' /\ LogKept
          /\ UNCHANGED files \/ \E pos : GrownBy(Log, Log', pos, rec)
    <2>1. CASE pc[c] = "append" /\ \E k \in todo : AppendFails(BatchRecord(c, k))
      <3>1. PICK k \in todo : AppendFails(BatchRecord(c, k))
        BY <2>1
      <3>2. BatchRecord(c, k) \in Records
        BY <2>1, BatchRecordType DEF BatchIndInv
      <3> QED BY <1>1, <2>1, <3>1, <3>2, FailureOutcome DEF BatchIndInv, IndInv
    <2>2. CASE pc[c] = "finish" /\ AppendFails(FinishedRecord)
      BY <1>1, <1>2, <2>2, FinishedRecordType, FailureOutcome DEF BatchIndInv, IndInv
    <2>3. CASE pc[c] = "finish" /\ AppendLogRecord(FinishedRecord, FALSE)
      <3>1. PICK pos : pos = AppendPos
        OBVIOUS
      <3> QED BY <1>1, <1>2, <2>3, <3>1, FinishedRecordType, AppendOutcome
              DEF BatchIndInv, IndInv
    <2> QED BY <2>1, <2>2, <2>3 DEF CommitFails
  <1>5. PICK rec :
          /\ \/ pc[c] = "append" /\ \E k \in todo : rec = BatchRecord(c, k)
             \/ pc[c] = "finish" /\ rec = FinishedRecord
          /\ SyncAdvances /\ SyncOrder' /\ LogKept
          /\ UNCHANGED files \/ \E pos : GrownBy(Log, Log', pos, rec)
    BY <1>4
  <1>6. CASE UNCHANGED files
    BY <1>1, <1>3, <1>5, <1>6, QuietStep DEF IndInv
  <1>7. CASE \E pos : GrownBy(Log, Log', pos, rec)
    <2>1. WholeBatches(Log, batchOf)' /\ NumbersKnown' /\ AckedBatchDurable'
      BY <1>1, <1>5, <1>7, BatchGrowth DEF IndInv
    <2>2. CommitRunning' /\ SyncedAtEnd'
      BY <1>3 DEF CommitRunning, SyncedAtEnd
    <2> QED BY <1>5, <2>1, <2>2 DEF BatchPart
  <1> QED BY <1>5, <1>6, <1>7

LEMMA CommitIndexKeepsBatches ==
    ASSUME BatchIndInv, IndInv', NEW c \in BatchClients, CommitIndex(c)
    PROVE  BatchPart'
  <1>1. /\ pc[c] = "apply"
        /\ UNCHANGED <<files, onDisk, synced, phase, seqNo, cursor, pc, pending, batchOf,
                       acked>>
    BY DEF CommitIndex, disk, loader, history
  <1>2. \A d \in BatchClients : pc[d] # "append"
    BY <1>1, OneCommit DEF BatchIndInv, IndInv
  <1> QED BY <1>1, <1>2, SyncedSame, QuietStep DEF BatchIndInv, IndInv

\* When Commit returns nil every record of the batch is there and synced.
LEMMA CommitEndKeepsBatches ==
    ASSUME BatchIndInv, IndInv', NEW c \in BatchClients, CommitEnd(c)
    PROVE  BatchPart'
  <1>1. /\ phase = "open" /\ pc[c] = "apply"
        /\ pc' = [pc EXCEPT ![c] = "idle"]
        /\ acked' = acked \cup {seqNo}
        /\ UNCHANGED <<files, onDisk, synced, phase, seqNo, cursor, batchOf>>
    BY DEF CommitEnd, disk, loader
  <1>2. Log' = Log /\ LogPositions' = LogPositions /\ LogKept
    BY <1>1, LogSame, LogUnchanged
  <1>3. c \in Clients /\ seqNo # 0 /\ \A d \in BatchClients : pc'[d] = "idle"
    BY <1>1, OneCommit DEF BatchIndInv, IndInv, CallersTypeOK, Clients
  <1>4. WholeBatches(Log, batchOf)'
    BY <1>1, <1>2 DEF BatchIndInv, WholeBatches, AsCommitted, WrittenOnce, SideBySide,
                EndLast, AllThere, SameBatch, Before
  <1>5. NumbersKnown'
    BY <1>1, <1>2 DEF BatchIndInv, NumbersKnown, Known
  <1>6. CommitRunning' /\ SyncedAtEnd'
    BY <1>3 DEF CommitRunning, SyncedAtEnd
  <1>7. SyncAdvances /\ SyncOrder'
    BY <1>1, SyncedSame DEF BatchIndInv, IndInv
  <1>8. AckedBatchDurable'
    <2> SUFFICES ASSUME BatchSync, NEW s \in acked'
                 PROVE  /\ \E p \in LogPositions :
                              RecAt(p).seq = s /\ RecAt(p).val = Finished /\ Reached(p)
                        /\ \A k \in Keys : batchOf[s][k] # NoWrite =>
                              \E p \in LogPositions :
                                 /\ RecAt(p).seq = s /\ RecAt(p).key = k
                                 /\ RecAt(p).val = batchOf[s][k] /\ Reached(p)
      BY <1>1, <1>2 DEF AckedBatchDurable, RecAt, Reached
    <2>1. CASE s \in acked
      BY <2>1 DEF BatchIndInv, AckedBatchDurable
    <2>2. CASE s = seqNo
      <3>1. \A p \in LogPositions : Reached(p)
        BY <1>1 DEF BatchIndInv, SyncedAtEnd
      <3>2. \E p \in LogPositions : RecAt(p).seq = s /\ RecAt(p).val = Finished
        BY <1>1, <1>3, <2>2 DEF BatchIndInv, IndInv, CallersInv, BatchInv, Committed
      <3>3. batchOf[s] = pending[c]
        BY <1>1, <2>2 DEF BatchIndInv, CommitRunning
      <3>4. ASSUME NEW k \in Keys, batchOf[s][k] # NoWrite
            PROVE  \E p \in LogPositions :
                      /\ RecAt(p).seq = s /\ RecAt(p).key = k /\ RecAt(p).val = batchOf[s][k]
        <4>1. Appended(c, k, seqNo)
          BY <1>1, <3>3, <3>4 DEF BatchIndInv, IndInv, CallersInv, BatchInv, Written
        <4> QED BY <4>1, <2>2, <3>3 DEF Appended
      <3> QED BY <3>1, <3>2, <3>4
    <2> QED BY <2>1, <2>2, <1>1
  <1> QED BY <1>4, <1>5, <1>6, <1>7, <1>8 DEF BatchPart

LEMMA BatchKeepsBatches ==
    ASSUME BatchIndInv, IndInv', NEW c \in BatchClients, BatchStep(c)
    PROVE  BatchPart'
  BY StagingKeepsBatches, CommitStartKeepsBatches, CommitAppendKeepsBatches,
     CommitFinishKeepsBatches, CommitFailsKeepsBatches, CommitIndexKeepsBatches,
     CommitEndKeepsBatches
  DEF BatchStep

-----------------------------------------------------------------------------
\* The instance

LEMMA SyncKeepsBatches ==
    ASSUME BatchIndInv, IndInv', Sync
    PROVE  BatchPart'
  <1>1. /\ activeFile # -1
        /\ synced' = [synced EXCEPT ![activeFile] = Len(files[activeFile])]
        /\ UNCHANGED <<files, onDisk, phase, seqNo, cursor, pc, pending, todo, batchOf,
                       acked>>
    BY DEF Sync, loader, callers, history
  <1>2. SyncAdvances
    <2> SUFFICES ASSUME NEW f \in FileIds
                 PROVE  synced[f] =< synced'[f] /\ synced'[f] =< Len(files[f])
      BY <1>1 DEF SyncAdvances
    <2>1. synced[f] \in Nat /\ synced[f] =< Len(files[f]) /\ Len(files[f]) \in Nat
      BY DEF BatchIndInv, IndInv, StoreInv, StoreTypeOK, DiskInv
    <2>2. synced'[f] = IF f = activeFile THEN Len(files[f]) ELSE synced[f]
      BY <1>1 DEF BatchIndInv, IndInv, StoreInv, StoreTypeOK
    <2> QED BY <2>1, <2>2
  <1>3. SyncOrder'
    BY <1>1, <1>2, SyncOrderSame DEF BatchIndInv, IndInv, StoreInv, StoreTypeOK
  <1> QED BY <1>1, <1>2, <1>3, QuietStep DEF IndInv

\* An instance that stops leaves the files to the next one.
LEMMA StopKeepsBatches ==
    ASSUME BatchIndInv, Stop, WholeBatches(Log', batchOf), SyncOrder', ReachedStays
    PROVE  BatchPart'
  <1>1. /\ phase' = "closed" /\ pc' = [c \in Clients |-> "idle"]
        /\ UNCHANGED <<batchOf, acked>>
    BY DEF Stop, history
  <1>2. WholeBatches(Log, batchOf)'
    BY <1>1 DEF WholeBatches, AsCommitted, WrittenOnce, SideBySide, EndLast,
                AllThere, SameBatch, Before
  <1>3. NumbersKnown'
    BY <1>1 DEF NumbersKnown, Known
  <1>4. CommitRunning' /\ SyncedAtEnd'
    BY <1>1 DEF CommitRunning, SyncedAtEnd, Clients
  <1>5. AckedBatchDurable'
    BY <1>1, DurableKept DEF BatchIndInv
  <1> QED BY <1>2, <1>3, <1>4, <1>5 DEF BatchPart

LEMMA StopSameDiskKeepsBatches ==
    ASSUME BatchIndInv, Stop, UNCHANGED disk
    PROVE  BatchPart'
  <1>1. UNCHANGED <<files, onDisk, synced>>
    BY DEF disk
  <1>2. Log' = Log /\ LogKept
    BY <1>1, LogSame, LogUnchanged
  <1>3. SyncAdvances /\ SyncOrder'
    BY <1>1, SyncedSame DEF BatchIndInv, IndInv
  <1>4. ReachedStays
    BY <1>1, <1>2, <1>3, ReachedByAdvance DEF BatchIndInv, IndInv, StoreInv, StoreTypeOK
  <1> QED BY <1>2, <1>3, <1>4, StopKeepsBatches DEF BatchIndInv

\* A power loss cuts the newest file only, and only behind what is synced.
LEMMA PowerLossKeepsBatches ==
    ASSUME BatchIndInv, PowerLoss
    PROVE  BatchPart'
  <1>1. PICK kept \in [FileIds -> 0 .. DataFileSize] :
          /\ \A f \in FileIds : synced[f] =< kept[f] /\ kept[f] =< Len(files[f])
          /\ files' = [f \in FileIds |-> SubSeq(files[f], 1, kept[f])]
          /\ synced' = kept
    BY DEF PowerLoss
  <1>2. Stop /\ onDisk' = onDisk
    BY DEF PowerLoss
  <1>3. /\ files \in [FileIds -> Seq(Records)] /\ synced \in [FileIds -> Nat]
        /\ onDisk \subseteq FileIds
    BY DEF BatchIndInv, IndInv, StoreInv, StoreTypeOK
  <1>4. ASSUME NEW f \in FileIds
        PROVE  /\ Len(files'[f]) = kept[f]
               /\ \A i \in 1 .. kept[f] : files'[f][i] = files[f][i]
               /\ kept[f] \in Nat /\ kept[f] =< Len(files[f])
               /\ synced[f] =< kept[f] /\ synced[f] \in Nat /\ Len(files[f]) \in Nat
    <2>1. files[f] \in Seq(Records) /\ files'[f] = SubSeq(files[f], 1, kept[f])
      BY <1>1, <1>3
    <2>2. kept[f] \in 0 .. DataFileSize
      BY <1>1
    <2>3. kept[f] \in Nat
      BY <2>2, SizesAssumption
    <2>4. kept[f] =< Len(files[f]) /\ Len(files[f]) \in Nat
      BY <1>1, <2>1
    <2>5. \A i \in 1 .. kept[f] : files[f][i] \in Records
      BY <2>1, <2>3, <2>4
    <2>6. /\ Len(SubSeq(files[f], 1, kept[f])) = kept[f]
          /\ \A i \in 1 .. kept[f] : SubSeq(files[f], 1, kept[f])[i] = files[f][i]
      BY <2>1, <2>3, <2>4, <2>5, SubSeqProperties
    <2> QED BY <1>1, <1>3, <2>1, <2>3, <2>4, <2>6
  <1>5. ASSUME NEW p \in Positions
        PROVE  /\ p \in LogPositions' <=> p.off < kept[p.fid]
               /\ p.off < kept[p.fid] => p \in LogPositions /\ RecAt(p)' = RecAt(p)
               /\ p.fid \in FileIds /\ p.off \in Nat
    <2>1. p.fid \in FileIds /\ p.off \in Nat
      BY SizesAssumption DEF Positions
    <2>2. p \in LogPositions' <=> p.off < kept[p.fid]
      BY <2>1, <1>4 DEF LogPositions
    <2>3. ASSUME p.off < kept[p.fid]
          PROVE  p \in LogPositions /\ RecAt(p)' = RecAt(p)
      <3>1. p.off + 1 \in 1 .. kept[p.fid] /\ p.off < Len(files[p.fid])
        BY <2>1, <2>3, <1>4
      <3>2. files'[p.fid][p.off + 1] = files[p.fid][p.off + 1]
        BY <2>1, <3>1, <1>4
      <3> QED BY <3>1, <3>2 DEF LogPositions, RecAt
    <2> QED BY <2>1, <2>2, <2>3
  <1>6. /\ LogPositions' \subseteq LogPositions
        /\ \A p \in LogPositions' : Log'[p] = Log[p]
    <2>1. LogPositions' \subseteq Positions /\ DOMAIN Log' = LogPositions'
          /\ \A p \in LogPositions' : Log'[p] = RecAt(p)'
      BY DEF LogPositions, Log
    <2> QED BY <2>1, <1>5, LogDomain
  <1>7. ASSUME NEW p \in LogPositions, NEW q \in LogPositions', Before(p, q)
        PROVE  p \in LogPositions'
    <2>1. /\ p \in Positions /\ q \in Positions /\ q.off < kept[q.fid]
          /\ p.off < Len(files[p.fid]) /\ p.fid \in onDisk /\ q.fid \in onDisk
          /\ p.fid \in FileIds /\ q.fid \in FileIds /\ p.off \in Nat /\ q.off \in Nat
      BY <1>5, <1>6, LogEntry DEF BatchIndInv, IndInv
    <2>2. CASE p.fid = q.fid
      <3>1. p.off < q.off
        BY <2>1, <2>2, <1>7, SizesAssumption DEF Before, FileIds
      <3>2. p.off < kept[p.fid]
        BY <2>1, <2>2, <3>1, <1>4
      <3> QED BY <2>1, <3>2, <1>5
    <2>3. CASE p.fid < q.fid
      <3>1. synced[p.fid] = Len(files[p.fid])
        BY <2>1, <2>3 DEF BatchIndInv, SyncOrder
      <3>2. p.off < kept[p.fid]
        BY <2>1, <3>1, <1>4
      <3> QED BY <2>1, <3>2, <1>5
    <2> QED BY <2>2, <2>3, <1>7 DEF Before
  <1>8. WholeBatches(Log', batchOf)
    <2>1. DOMAIN Log' = LogPositions' /\ DOMAIN Log = LogPositions
      BY DEF Log
    <2>2. Numbered(Log)
      BY LogNumbered DEF BatchIndInv, IndInv
    <2> QED BY <2>1, <2>2, <1>6, <1>7, WholeAfterLoss DEF BatchIndInv
  <1>9. SyncOrder'
    BY <1>1, <1>2, <1>3, <1>4 DEF SyncOrder
  <1>10. ReachedStays
    <2> SUFFICES ASSUME NEW p \in LogPositions, p.off < synced[p.fid]
                 PROVE  p \in LogPositions' /\ RecAt(p)' = RecAt(p) /\ p.off < synced'[p.fid]
      BY DEF ReachedStays, Reached
    <2>1. p \in Positions
      BY DEF LogPositions
    <2>2. p.off < kept[p.fid]
      BY <2>1, <1>4, <1>5
    <2> QED BY <2>1, <2>2, <1>1, <1>5
  <1> QED BY <1>2, <1>8, <1>9, <1>10, StopKeepsBatches

-----------------------------------------------------------------------------
\* Open

\* A step of Open that leaves the files alone.
LEMMA OpenKeepsBatches ==
    ASSUME BatchIndInv, phase # "open",
           UNCHANGED <<files, onDisk, synced, pc, batchOf, acked>>, NumbersKnown'
    PROVE  BatchPart'
  <1>1. Log' = Log /\ LogPositions' = LogPositions /\ LogKept
    BY LogSame, LogUnchanged
  <1>2. \A c \in BatchClients : pc'[c] = "idle"
    BY ClientsAssumption DEF BatchIndInv, IndInv, LockInv, Clients
  <1>3. WholeBatches(Log, batchOf)'
    BY <1>1 DEF BatchIndInv, WholeBatches, AsCommitted, WrittenOnce, SideBySide,
                EndLast, AllThere, SameBatch, Before
  <1>4. CommitRunning' /\ SyncedAtEnd'
    BY <1>2 DEF CommitRunning, SyncedAtEnd
  <1>5. SyncAdvances /\ SyncOrder'
    BY SyncedSame DEF BatchIndInv, IndInv
  <1>6. ReachedStays
    BY <1>1, <1>5, ReachedByAdvance DEF BatchIndInv, IndInv, StoreInv, StoreTypeOK
  <1>7. AckedBatchDurable'
    BY <1>6, DurableKept DEF BatchIndInv
  <1> QED BY <1>3, <1>4, <1>5, <1>7 DEF BatchPart

\* Open starts the scan in front of every record.
LEMMA ScannedNothing ==
    ASSUME IndInv, OpenDB, phase' = "loading", NEW p \in LogPositions
    PROVE  ~Before(p, cursor')
  <1>1. /\ p.fid \in onDisk /\ p.off \in Nat /\ p.fid \in FileIds /\ FileIds \subseteq Int
        /\ onDisk \subseteq FileIds
    BY LogEntry, SizesAssumption DEF IndInv, StoreInv, StoreTypeOK, FileIds
  <1>2. PICK first \in onDisk : /\ \A f \in onDisk : first =< f
                                /\ cursor' = [fid |-> first, off |-> 0]
    BY <1>1 DEF OpenDB
  <1>3. p.fid \in Int /\ first \in Int /\ first =< p.fid
    BY <1>1, <1>2
  <1>4. cursor'.fid = first /\ cursor'.off = 0
    BY <1>2
  <1>5. ~(p.fid < first \/ (p.fid = first /\ p.off < 0))
    BY <1>1, <1>3
  <1> QED BY <1>4, <1>5 DEF Before

LEMMA OpenDBKeepsBatches ==
    ASSUME BatchIndInv, OpenDB
    PROVE  BatchPart'
  <1>1. /\ phase = "closed"
        /\ UNCHANGED <<files, onDisk, synced, pc, batchOf, acked>>
        /\ onDisk = {} \/ phase' = "loading"
    BY DEF OpenDB, disk, callers, history
  <1>2. LogPositions' = LogPositions
    BY <1>1, LogSame
  <1>3. ASSUME NEW p \in LogPositions, Known(p)'
        PROVE  FALSE
    <2>1. phase' = "loading"
      BY <1>1, LogEntry DEF BatchIndInv, IndInv
    <2>2. Before(p, cursor')
      BY <1>3, <2>1 DEF Known, Before
    <2> QED BY <2>1, <2>2, ScannedNothing DEF BatchIndInv
  <1>4. NumbersKnown'
    BY <1>2, <1>3 DEF NumbersKnown
  <1> QED BY <1>1, <1>4, OpenKeepsBatches

\* A turn of the loop passes one record.
LEMMA ScannedOneMore ==
    ASSUME IndInv, AtRecord, cursor' = [cursor EXCEPT !.off = @ + 1]
    PROVE  /\ cursor \in LogPositions
           /\ \A p \in LogPositions : Before(p, cursor') <=> (p = cursor \/ Before(p, cursor))
  <1>1. /\ cursor \in LogPositions /\ cursor.off \in Nat /\ cursor.fid \in FileIds
        /\ cursor'.fid = cursor.fid /\ cursor'.off = cursor.off + 1
    BY CursorRecord
  <1>2. ASSUME NEW p \in LogPositions
        PROVE  Before(p, cursor') <=> (p = cursor \/ Before(p, cursor))
    <2>1. p \in Positions /\ cursor \in Positions /\ p.fid \in Int /\ p.off \in Nat
          /\ cursor.fid \in Int
      BY <1>1, SizesAssumption DEF LogPositions, Positions, FileIds
    <2>2. p.fid = cursor.fid /\ p.off = cursor.off => p = cursor
      BY <2>1 DEF Positions
    <2> QED BY <2>1, <2>2, <1>1 DEF Before
  <1> QED BY <1>1, <1>2

LEMMA LoadRecordKeepsBatches ==
    ASSUME BatchIndInv, LoadRecord
    PROVE  BatchPart'
  <1>1. /\ AtRecord /\ phase = "loading"
        /\ seqNo' = SeqNoAfter(RecAt(cursor))
        /\ cursor' = [cursor EXCEPT !.off = @ + 1]
        /\ UNCHANGED <<files, onDisk, synced, phase, pc, batchOf, acked>>
    BY DEF LoadRecord, AtRecord, disk, callers, history
  <1>2. Log' = Log /\ LogPositions' = LogPositions
    BY <1>1, LogSame
  <1>3. cursor \in LogPositions
    BY <1>1, ScannedOneMore DEF BatchIndInv
  <1>4. Log[cursor].seq \in Nat /\ seqNo \in Nat
    BY <1>3, LogEntry DEF BatchIndInv, IndInv, CallersTypeOK, Records
  <1>5. seqNo' \in Nat /\ seqNo =< seqNo' /\ Log[cursor].seq =< seqNo'
    BY <1>1, <1>3, <1>4, LogDomain DEF SeqNoAfter
  <1>6. ASSUME NEW p \in LogPositions, Before(p, cursor')
        PROVE  Log[p].seq =< seqNo'
    <2>1. p = cursor \/ Before(p, cursor)
      BY <1>1, <1>6, ScannedOneMore DEF BatchIndInv
    <2>2. Before(p, cursor) => Log[p].seq =< seqNo
      BY <1>1 DEF BatchIndInv, NumbersKnown, Known
    <2>3. Log[p].seq \in Nat
      BY LogEntry DEF BatchIndInv, IndInv, Records
    <2> QED BY <2>1, <2>2, <2>3, <1>4, <1>5
  <1>7. NumbersKnown'
    BY <1>1, <1>2, <1>6 DEF NumbersKnown, Known, Before
  <1> QED BY <1>1, <1>7, OpenKeepsBatches

\* Between the end of a file and the start of the next one there is no record.
LEMMA ScannedNoMore ==
    ASSUME IndInv, LoadNextFile, NEW p \in LogPositions
    PROVE  Before(p, cursor') <=> Before(p, cursor)
  <1>1. PICK f \in onDisk :
          /\ cursor.fid < f
          /\ \A g \in onDisk : cursor.fid < g => f =< g
          /\ cursor' = [fid |-> f, off |-> 0]
    BY DEF LoadNextFile
  <1>2. phase = "loading" /\ cursor.off = Len(files[cursor.fid])
    BY DEF LoadNextFile, AtEnd
  <1>3. /\ p.fid \in onDisk /\ p.off \in Nat /\ p.off < Len(files[p.fid])
        /\ onDisk \subseteq FileIds /\ FileIds \subseteq Int /\ cursor.fid \in onDisk
    BY <1>2, LogEntry, SizesAssumption
    DEF IndInv, StoreInv, StoreTypeOK, LoaderInv, FileIds
  <1>4. p.fid \in Int /\ f \in Int /\ cursor.fid \in Int /\ cursor'.fid = f /\ cursor'.off = 0
    BY <1>1, <1>3
  <1>5. cursor.fid < p.fid => f =< p.fid
    BY <1>1, <1>3
  <1>6. p.fid = cursor.fid => p.off < cursor.off
    BY <1>2, <1>3
  <1>7. (p.fid < f \/ (p.fid = f /\ p.off < 0))
          <=> (p.fid < cursor.fid \/ (p.fid = cursor.fid /\ p.off < cursor.off))
    BY <1>1, <1>3, <1>4, <1>5, <1>6
  <1> QED BY <1>4, <1>7 DEF Before

LEMMA LoadNextFileKeepsBatches ==
    ASSUME BatchIndInv, LoadNextFile
    PROVE  BatchPart'
  <1>1. /\ phase = "loading"
        /\ UNCHANGED <<files, onDisk, synced, phase, seqNo, pc, batchOf, acked>>
    BY DEF LoadNextFile, AtEnd, disk, callers, history
  <1>2. Log' = Log /\ LogPositions' = LogPositions
    BY <1>1, LogSame
  <1>3. \A p \in LogPositions : Before(p, cursor') => Before(p, cursor)
    BY ScannedNoMore DEF BatchIndInv
  <1>4. NumbersKnown'
    BY <1>1, <1>2, <1>3 DEF BatchIndInv, NumbersKnown, Known, Before
  <1> QED BY <1>1, <1>4, OpenKeepsBatches

\* At the end of the scan there is no record it has not passed.
LEMMA ScannedAll ==
    ASSUME IndInv, LoadEnd, NEW p \in LogPositions
    PROVE  Before(p, cursor)
  <1>1. phase = "loading" /\ cursor.off = Len(files[cursor.fid]) /\ cursor.fid = activeFile
    BY DEF LoadEnd, AtEnd
  <1>2. StoreInv /\ StoreTypeOK /\ WriterInv
    BY DEF IndInv, StoreInv
  <1>3. p.fid \in onDisk /\ p.off \in Nat /\ p.off < Len(files[p.fid])
    BY <1>2, LogEntry
  <1>4. onDisk \subseteq FileIds /\ FileIds \subseteq Int
    BY <1>2, SizesAssumption DEF StoreTypeOK, FileIds
  <1>5. activeFile \in onDisk /\ p.fid =< activeFile
    BY <1>1, <1>2, <1>3 DEF WriterInv
  <1>6. p.fid \in Int /\ activeFile \in Int
    BY <1>3, <1>4, <1>5
  <1>7. p.fid < cursor.fid \/ p.fid = cursor.fid
    BY <1>1, <1>5, <1>6
  <1>8. p.fid = cursor.fid => p.off < cursor.off
    BY <1>1, <1>3
  <1> QED BY <1>7, <1>8 DEF Before

LEMMA LoadEndKeepsBatches ==
    ASSUME BatchIndInv, LoadEnd
    PROVE  BatchPart'
  <1>1. /\ phase = "loading" /\ phase' = "open"
        /\ UNCHANGED <<files, onDisk, synced, seqNo, pc, batchOf, acked>>
    BY DEF LoadEnd, AtEnd, disk, callers, history
  <1>2. Log' = Log /\ LogPositions' = LogPositions
    BY <1>1, LogSame
  <1>3. \A p \in LogPositions : Log[p].seq =< seqNo
    BY <1>1, ScannedAll DEF BatchIndInv, NumbersKnown, Known
  <1>4. NumbersKnown'
    BY <1>1, <1>2, <1>3 DEF NumbersKnown
  <1> QED BY <1>1, <1>4, OpenKeepsBatches

-----------------------------------------------------------------------------
\* The theorems

LEMMA InitBatchIndInv ==
    ASSUME Init
    PROVE  BatchIndInv
  <1>1. /\ files = [f \in FileIds |-> <<>>] /\ onDisk = {} /\ phase = "closed"
        /\ pc = [c \in Clients |-> "idle"] /\ acked = {}
    BY DEF Init
  <1>2. LogPositions = {}
    BY <1>1, SizesAssumption DEF LogPositions, Positions
  <1>3. WholeBatches(Log, batchOf)
    BY <1>2, LogDomain
    DEF WholeBatches, AsCommitted, WrittenOnce, SideBySide, EndLast, AllThere
  <1>4. NumbersKnown /\ SyncOrder /\ AckedBatchDurable
    BY <1>1, <1>2 DEF NumbersKnown, SyncOrder, AckedBatchDurable
  <1>5. CommitRunning /\ SyncedAtEnd
    BY <1>1 DEF CommitRunning, SyncedAtEnd, Clients
  <1> QED BY <1>3, <1>4, <1>5, InitIndInv DEF BatchIndInv

\* The invariant is inductive.
LEMMA NextKeepsBatchIndInv ==
    ASSUME BatchIndInv, [Next]_vars
    PROVE  BatchIndInv'
  <1>1. IndInv'
    BY NextKeepsIndInv DEF BatchIndInv
  <1>2. BatchPart'
    <2>1. CASE \E c \in DirectClients : DirectStep(c)
      BY <1>1, <2>1, DirectKeepsBatches
    <2>2. CASE \E c \in BatchClients : BatchStep(c)
      BY <1>1, <2>2, BatchKeepsBatches
    <2>3. CASE Sync
      BY <1>1, <2>3, SyncKeepsBatches
    <2>4. CASE Close \/ ProcessCrash
      BY <2>4, StopSameDiskKeepsBatches DEF Close, ProcessCrash
    <2>5. CASE PowerLoss
      BY <2>5, PowerLossKeepsBatches
    <2>6. CASE OpenDB
      BY <2>6, OpenDBKeepsBatches
    <2>7. CASE Load
      BY <2>7, LoadRecordKeepsBatches, LoadNextFileKeepsBatches, LoadEndKeepsBatches DEF Load
    <2>8. CASE UNCHANGED vars
      <3>1. UNCHANGED <<files, onDisk, synced, seqNo, phase, cursor, batchOf, acked, pc,
                        pending, todo>>
        BY <2>8 DEF vars, disk, loader, callers, history
      <3> QED BY <1>1, <3>1, SyncedSame, QuietStep DEF BatchIndInv, IndInv
    <2> QED BY <2>1, <2>2, <2>3, <2>4, <2>5, <2>6, <2>7, <2>8 DEF Next
  <1> QED BY <1>1, <1>2 DEF BatchIndInv, BatchPart

\* BatchIndInv holds in every reachable state.
THEOREM BatchInvariance == Spec => []BatchIndInv
  <1>1. Init => BatchIndInv
    BY InitBatchIndInv
  <1>2. BatchIndInv /\ [Next]_vars => BatchIndInv'
    BY NextKeepsBatchIndInv
  <1> QED BY <1>1, <1>2, PTL DEF Spec

\* No foreign record ever stands inside a batch that has ended: Open, which
\* applies a batch at its end, and Commit, which applies it where its records
\* are, see the writes in the same order.
THEOREM BatchesContiguous == Spec => []BatchContiguous
  <1>1. BatchIndInv => BatchContiguous
    <2> SUFFICES ASSUME WholeBatches(Log, batchOf)
                 PROVE  BatchContiguous
      BY DEF BatchIndInv
    <2> QED BY LogDomain DEF WholeBatches, SideBySide, SameBatch, BatchContiguous
  <1> QED BY <1>1, BatchInvariance, PTL

\* A batch whose end is in the log is there as it was committed, each write
\* once, whatever failed before, whatever was lost with the power, and however
\* often the numbers were counted again by Open.
THEOREM BatchesAtomic == Spec => []BatchAtomic
  <1>1. ASSUME BatchIndInv PROVE BatchAtomic
    <2> SUFFICES ASSUME NEW s \in SeqNos, Committed(s), NEW k \in Keys
                 PROVE  LET written == {p \in LogPositions :
                                           RecAt(p).seq = s /\ RecAt(p).key = k}
                        IN  IF batchOf[s][k] = NoWrite THEN written = {}
                            ELSE \E p \in written :
                                    written = {p} /\ RecAt(p).val = batchOf[s][k]
      BY DEF BatchAtomic
    <2> DEFINE written == {p \in LogPositions : RecAt(p).seq = s /\ RecAt(p).key = k}
    <2>1. s # 0 /\ WholeBatches(Log, batchOf) /\ StoreInv
      BY <1>1, SizesAssumption DEF SeqNos, BatchIndInv, IndInv
    <2>2. \A p \in written : /\ p \in LogPositions /\ RecAt(p) = Log[p]
                             /\ Log[p].seq = s /\ Log[p].key = k
      BY LogDomain
    <2>3. \A p \in written : Log[p].val = batchOf[s][k] /\ Log[p].val # NoWrite
      <3> SUFFICES ASSUME NEW p \in written
                   PROVE  Log[p].val = batchOf[s][k] /\ Log[p].val # NoWrite
        OBVIOUS
      <3>1. Log[p] \in Records /\ WellFormed(Log[p]) /\ Log[p].key # TxnFinKey
        BY <2>1, <2>2, LogEntry, MarkersAssumption
      <3>2. Log[p].val # Finished
        BY <3>1 DEF WellFormed
      <3>3. Log[p].val # NoWrite
        BY <3>1, MarkersAssumption DEF Records
      <3>4. Log[p].val = batchOf[s][k]
        BY <2>1, <2>2, <3>2, LogDomain DEF WholeBatches, AsCommitted
      <3> QED BY <3>3, <3>4
    <2>4. \A p, q \in written : p = q
      BY <2>1, <2>2, LogDomain DEF WholeBatches, WrittenOnce, SameBatch
    <2>5. batchOf[s][k] # NoWrite => written # {}
      <3> SUFFICES ASSUME batchOf[s][k] # NoWrite PROVE written # {}
        OBVIOUS
      <3>1. PICK q \in LogPositions : RecAt(q).seq = s /\ RecAt(q).val = Finished
        BY <2>1 DEF Committed
      <3>2. \E p \in LogPositions : Log[p].seq = s /\ Log[p].key = k
        BY <2>1, <3>1, LogDomain DEF WholeBatches, AllThere
      <3> QED BY <3>2, LogDomain
    <2>6. batchOf[s][k] = NoWrite => written = {}
      BY <2>3
    <2> QED BY <2>2, <2>3, <2>4, <2>5, <2>6
  <1> QED BY <1>1, BatchInvariance, PTL

\* A batch committed with WriteBatchOptions.SyncWrites has reached the disk with
\* its end before Commit returns, over rotations of the data file too, and no
\* power loss takes it away.
THEOREM AckedBatchesDurable == Spec => []AckedBatchDurable
  <1>1. BatchIndInv => AckedBatchDurable
    BY DEF BatchIndInv
  <1> QED BY <1>1, BatchInvariance, PTL
=============================================================================
