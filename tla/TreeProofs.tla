----------------------------- MODULE TreeProofs -----------------------------
(***************************************************************************)
(* The B+ tree leads to committed records of its keys, shows what has been *)
(* acknowledged and batches as a whole, and batch numbers are fresh, up to *)
(* the first Open after a Merge: for every value of the constants.         *)
(***************************************************************************)
EXTENDS TreeInvariant, TLAPS, SequenceTheorems

USE DEF NoFile

-----------------------------------------------------------------------------
\* The log

LogOf(F) == UNION {[fid : {f}, off : 0 .. Len(F[f]) - 1] : f \in FileIds}

LEMMA InLog ==
    ASSUME NEW F \in [FileIds -> Seq(Records)]
    PROVE  /\ \A p \in LogOf(F) : /\ p \in Positions /\ p.fid \in FileIds /\ p.off \in Nat
                                  /\ p.off < Len(F[p.fid]) /\ p.off + 1 \in 1 .. Len(F[p.fid])
           /\ \A f \in FileIds, i \in Nat : i < Len(F[f]) => [fid |-> f, off |-> i] \in LogOf(F)
  <1>1. \A f \in FileIds : Len(F[f]) \in Nat
    OBVIOUS
  <1>2. ASSUME NEW p \in LogOf(F)
        PROVE  /\ p \in Positions /\ p.fid \in FileIds /\ p.off \in Nat
               /\ p.off < Len(F[p.fid]) /\ p.off + 1 \in 1 .. Len(F[p.fid])
    <2>1. PICK f \in FileIds : p \in [fid : {f}, off : 0 .. Len(F[f]) - 1]
      BY DEF LogOf
    <2>2. p.fid = f /\ p.off \in 0 .. Len(F[f]) - 1
      BY <2>1
    <2>3. p.off \in Nat
      BY <1>1, <2>2
    <2>4. p \in Positions
      BY <2>1, <2>3 DEF Positions
    <2> QED BY <1>1, <2>2, <2>3, <2>4
  <1>3. ASSUME NEW f \in FileIds, NEW i \in Nat, i < Len(F[f])
        PROVE  [fid |-> f, off |-> i] \in LogOf(F)
    <2>1. i \in 0 .. Len(F[f]) - 1
      BY <1>1, <1>3
    <2>2. [fid |-> f, off |-> i] \in [fid : {f}, off : 0 .. Len(F[f]) - 1]
      BY <2>1
    <2> QED BY <2>2 DEF LogOf
  <1> QED BY <1>2, <1>3

LEMMA LogIs == LogPositions = LogOf(files) /\ LogPositions' = LogOf(files')
  BY DEF LogPositions, LogOf

\* A position is its two fields.
LEMMA PositionIs ==
    /\ \A p, q \in Positions : p.fid = q.fid /\ p.off = q.off => p = q
    /\ NoPos \in Positions
    /\ \A p \in Positions : p.fid \in Int /\ p.off \in Int
  BY DEF Positions, NoPos, FileIds

LEMMA BeforeOrder ==
    /\ \A p, q \in Positions : ~(Before(p, q) /\ Before(q, p))
    /\ \A p, q \in Positions : p = q \/ Before(p, q) \/ Before(q, p)
    /\ \A p, q, r \in Positions : Before(p, q) /\ Before(q, r) => Before(p, r)
  BY PositionIs DEF Before

\* The entries of the log have the type of records.
LEMMA LogEntry ==
    ASSUME DirectoryTypeOK, NEW p \in LogPositions
    PROVE  /\ p \in Positions /\ p # NoPos /\ p.fid \in FileIds
           /\ RecAt(p) \in Records /\ RecAt(p).seq \in Nat
  <1>1. files \in [FileIds -> Seq(Records)]
    BY DEF DirectoryTypeOK
  <1>2. /\ p \in Positions /\ p.fid \in FileIds
        /\ p.off + 1 \in 1 .. Len(files[p.fid])
    BY <1>1, InLog, LogIs
  <1>3. p # NoPos
    BY <1>2 DEF NoPos, FileIds
  <1>4. files[p.fid] \in Seq(Records)
    BY <1>1, <1>2
  <1>5. RecAt(p) \in Records
    BY <1>2, <1>4 DEF RecAt
  <1> QED BY <1>2, <1>3, <1>5 DEF Records

LogSame == LogPositions' = LogPositions /\ \A p \in LogPositions : RecAt(p)' = RecAt(p)
LogKept == \A p \in LogPositions : p \in LogPositions' /\ RecAt(p)' = RecAt(p)

\* The log has rec behind its last record, at pos.
LogGrown(pos, rec) ==
    /\ LogPositions' = LogPositions \cup {pos}
    /\ pos \in Positions /\ pos # NoPos /\ pos \notin LogPositions
    /\ RecAt(pos)' = rec
    /\ \A p \in LogPositions : RecAt(p)' = RecAt(p) /\ Before(p, pos)

LEMMA SameFiles ==
    ASSUME UNCHANGED files
    PROVE  LogSame /\ LogKept
  BY DEF LogSame, LogKept, LogPositions, RecAt

LEMMA GrownKept ==
    ASSUME NEW pos, NEW rec, LogGrown(pos, rec)
    PROVE  LogKept
  BY DEF LogGrown, LogKept

\* appendLogRecord writes behind everything else.
LEMMA LogAfterAppend ==
    ASSUME DirectoryTypeOK, InstanceInv, phase = "open", NEW rec \in Records,
           AppendLogRecord(rec), NEW pos, pos = AppendPos
    PROVE  /\ LogGrown(pos, rec)
           /\ files' \in [FileIds -> Seq(Records)]
           /\ UNCHANGED seqNo => InstanceInv'
  <1>1. /\ files \in [FileIds -> Seq(Records)] /\ lastFile \in FileIds \cup {NoFile}
        /\ writeOff = SizeOfLastFile
    BY DEF DirectoryTypeOK, InstanceInv
  <1>2. PICK f \in FileIds : f = ActiveFile
    BY <1>1 DEF ActiveFile, FileIds
  <1>3. files' = [files EXCEPT ![f] = Append(@, rec)] /\ lastFile' = f
        /\ writeOff' = writeOff + 1
    BY <1>2 DEF AppendLogRecord
  <1>4. files[f] \in Seq(Records) /\ Len(files[f]) \in Nat
    BY <1>1
  <1>5. writeOff = Len(files[f]) /\ (lastFile = NoFile => f = 0)
    <2>1. CASE lastFile = NoFile
      BY <1>1, <1>2, <2>1 DEF SizeOfLastFile, ActiveFile, InstanceInv
    <2>2. CASE lastFile # NoFile
      BY <1>1, <1>2, <2>2 DEF SizeOfLastFile, ActiveFile
    <2> QED BY <2>1, <2>2
  <1>6. pos = [fid |-> f, off |-> Len(files[f])]
    BY <1>2, <1>5 DEF AppendPos
  <1>7. pos \in Positions /\ pos # NoPos
    BY <1>4, <1>6 DEF Positions, NoPos, FileIds
  <1>8. /\ files'[f] = Append(files[f], rec)
        /\ \A g \in FileIds \ {f} : files'[g] = files[g]
    BY <1>1, <1>3
  <1>9. files' \in [FileIds -> Seq(Records)]
    <2>1. Append(files[f], rec) \in Seq(Records)
      BY <1>4
    <2> QED BY <1>1, <1>3, <2>1
  <1>10. /\ Len(files'[f]) = Len(files[f]) + 1
         /\ files'[f][Len(files[f]) + 1] = rec
         /\ \A i \in 1 .. Len(files[f]) : files'[f][i] = files[f][i]
    BY <1>4, <1>8
  <1>11. \A p \in LogPositions :
            /\ p \in Positions /\ p.fid \in FileIds /\ p.off \in Nat
            /\ p.off < Len(files[p.fid]) /\ p.off + 1 \in 1 .. Len(files[p.fid])
    BY <1>1, InLog, LogIs
  <1>12. pos \notin LogPositions
    BY <1>4, <1>6, <1>11
  <1>13. ASSUME NEW p \in LogPositions
         PROVE  p \in LogPositions' /\ RecAt(p)' = RecAt(p) /\ Before(p, pos)
    <2>1. p = [fid |-> p.fid, off |-> p.off]
      BY <1>11 DEF Positions
    <2>2. CASE p.fid = f
      <3>1. p.off < Len(files'[p.fid]) /\ files'[p.fid][p.off + 1] = files[p.fid][p.off + 1]
        BY <1>4, <1>10, <1>11, <2>2
      <3>2. p \in LogOf(files')
        BY <1>9, <1>11, <2>1, <3>1, InLog
      <3> QED BY <1>6, <1>11, <2>2, <3>1, <3>2, LogIs DEF RecAt, Before
    <2>3. CASE p.fid # f
      <3>1. files'[p.fid] = files[p.fid]
        BY <1>8, <1>11, <2>3
      <3>2. p \in LogOf(files')
        BY <1>9, <1>11, <2>1, <3>1, InLog
      <3>3. p.fid < f
        BY <1>1, <1>2, <1>11, <2>3 DEF InstanceInv, FileIds, ActiveFile
      <3> QED BY <1>6, <3>1, <3>2, <3>3, LogIs DEF RecAt, Before
    <2> QED BY <2>2, <2>3
  <1>14. ASSUME NEW p \in LogPositions', p # pos
         PROVE  p \in LogPositions
    <2>1. /\ p \in Positions /\ p.fid \in FileIds /\ p.off \in Nat
          /\ p.off < Len(files'[p.fid])
      BY <1>9, InLog, LogIs
    <2>2. p = [fid |-> p.fid, off |-> p.off]
      BY <2>1 DEF Positions
    <2>3. p.off < Len(files[p.fid])
      <3>1. CASE p.fid = f
        BY <1>4, <1>6, <1>10, <1>14, <2>1, <2>2, <3>1
      <3>2. CASE p.fid # f
        BY <1>8, <2>1, <3>2
      <3> QED BY <3>1, <3>2
    <2> QED BY <1>1, <2>1, <2>2, <2>3, InLog, LogIs
  <1>15. pos \in LogPositions' /\ RecAt(pos)' = rec
    <2>1. pos \in LogOf(files')
      BY <1>4, <1>6, <1>9, <1>10, InLog
    <2> QED BY <1>6, <1>10, <2>1, LogIs DEF RecAt
  <1>16. LogGrown(pos, rec)
    BY <1>7, <1>12, <1>13, <1>14, <1>15 DEF LogGrown
  <1>17. ASSUME UNCHANGED seqNo
         PROVE  InstanceInv'
    <2>1. UNCHANGED <<phase, linked, redirected, merged, tree, diskTree>>
      BY DEF AppendLogRecord, options
    <2>2. lastFile' # 1 => files'[1] = <<>>
      BY <1>1, <1>2, <1>3, <1>8 DEF InstanceInv, FileIds, ActiveFile
    <2>3. lastFile' # NoFile
      BY <1>3 DEF FileIds
    <2>4. writeOff' = Len(files'[f])
      BY <1>3, <1>5, <1>10
    <2> QED BY <1>3, <1>17, <2>1, <2>2, <2>3, <2>4 DEF InstanceInv, SizeOfLastFile
  <1> QED BY <1>9, <1>16, <1>17

-----------------------------------------------------------------------------
\* The directory and the instance

\* The tree of the instance is the one in the directory.
LEMMA EntriesDisk ==
    /\ InstanceInv => Entries = diskTree
    /\ InstanceInv' => Entries' = diskTree'
  BY DEF InstanceInv, Entries

GoodEntry(k, p) ==
    /\ p \in LogPositions
    /\ RecAt(p).key = k /\ RecAt(p).val \in Values
    /\ \/ RecAt(p).seq = 0
       \/ \E q \in LogPositions :
             RecAt(q).val = Finished /\ RecAt(q).seq = RecAt(p).seq

LEMMA GoodEntries ==
    /\ InstanceInv /\ ~replaced =>
          (EntriesSound <=> \A k \in Keys : diskTree[k] # NoPos => GoodEntry(k, diskTree[k]))
    /\ InstanceInv' /\ ~replaced' =>
          (EntriesSound' <=> \A k \in Keys : diskTree'[k] # NoPos => GoodEntry(k, diskTree[k])')
  BY EntriesDisk DEF EntriesSound, GoodEntry

LEMMA GoodKept ==
    ASSUME LogKept, NEW k, NEW p, GoodEntry(k, p)
    PROVE  GoodEntry(k, p)'
  BY DEF LogKept, GoodEntry

LEMMA SoundKept ==
    ASSUME LogKept, InstanceInv, InstanceInv', UNCHANGED <<diskTree, replaced>>, ~replaced,
           EntriesSound
    PROVE  EntriesSound'
  <1>1. ASSUME NEW k \in Keys, diskTree'[k] # NoPos
        PROVE  GoodEntry(k, diskTree[k])'
    <2>1. PICK p : p = diskTree[k]
      OBVIOUS
    <2>2. GoodEntry(k, p)
      BY <1>1, <2>1, GoodEntries
    <2>3. GoodEntry(k, p)'
      BY <2>2, GoodKept
    <2> QED BY <2>1, <2>3 DEF GoodEntry
  <1> QED BY <1>1, GoodEntries

StoreInv == DirectoryTypeOK /\ InstanceInv /\ EntriesSound /\ NumbersInv

LEMMA StoreAfterAppend ==
    ASSUME StoreInv, ~replaced, phase = "open", NEW rec \in Records, rec.seq =< seqNo,
           AppendLogRecord(rec), UNCHANGED seqNo, NEW pos, pos = AppendPos
    PROVE  StoreInv' /\ LogGrown(pos, rec) /\ LogKept
  <1>1. LogGrown(pos, rec) /\ files' \in [FileIds -> Seq(Records)] /\ InstanceInv'
    BY LogAfterAppend DEF StoreInv
  <1>2. LogKept
    BY <1>1, GrownKept
  <1>3. UNCHANGED <<seqNoFile, diskTree, tree, merged, phase, replaced, crashed>>
    BY DEF AppendLogRecord, history
  <1>4. lastFile' \in FileIds \cup {NoFile}
    BY DEF AppendLogRecord, ActiveFile, StoreInv, DirectoryTypeOK, FileIds
  <1>5. DirectoryTypeOK'
    BY <1>1, <1>3, <1>4 DEF StoreInv, DirectoryTypeOK
  <1>6. EntriesSound'
    BY <1>1, <1>2, <1>3, SoundKept DEF StoreInv
  <1>7. NumbersInv'
    BY <1>1, <1>3 DEF StoreInv, NumbersInv, LogGrown
  <1> QED BY <1>1, <1>2, <1>5, <1>6, <1>7 DEF StoreInv

LEMMA StoreAfterUpdate ==
    ASSUME StoreInv, ~replaced, phase = "open", NEW k \in Keys, NEW v, NEW p \in Positions,
           UpdateTree(k, v, p), v # Tombstone => GoodEntry(k, p)
    PROVE  /\ StoreInv' /\ LogSame /\ LogKept
           /\ diskTree' = [diskTree EXCEPT ![k] = IF v = Tombstone THEN NoPos ELSE p]
  <1>1. /\ UNCHANGED <<files, lastFile, seqNoFile, merged, phase, writeOff, seqNo, linked,
                       redirected, crashed, replaced>>
        /\ linked /\ tree = diskTree
    BY DEF UpdateTree, options, StoreInv, InstanceInv
  <1>2. LogSame /\ LogKept
    BY <1>1, SameFiles
  <1>3. /\ tree' = diskTree'
        /\ diskTree' = [diskTree EXCEPT ![k] = IF v = Tombstone THEN NoPos ELSE p]
    BY <1>1 DEF UpdateTree
  <1>4. DirectoryTypeOK'
    BY <1>1, <1>3, PositionIs DEF StoreInv, DirectoryTypeOK
  <1>5. InstanceInv'
    BY <1>1, <1>3 DEF StoreInv, InstanceInv, SizeOfLastFile
  <1>6. EntriesSound'
    <2>1. ASSUME NEW j \in Keys, diskTree'[j] # NoPos
          PROVE  GoodEntry(j, diskTree[j])'
      <3>1. diskTree \in [Keys -> Positions]
        BY DEF StoreInv, DirectoryTypeOK
      <3>2. CASE j = k
        <4>1. diskTree'[j] = p /\ v # Tombstone
          BY <1>3, <2>1, <3>1, <3>2
        <4>2. GoodEntry(k, p)'
          BY <1>2, <4>1, GoodKept
        <4> QED BY <3>2, <4>1, <4>2 DEF GoodEntry
      <3>3. CASE j # k
        <4>1. PICK q : q = diskTree[j]
          OBVIOUS
        <4>2. diskTree'[j] = q
          BY <1>3, <3>1, <3>3, <4>1
        <4>3. GoodEntry(j, q)
          BY <2>1, <4>1, <4>2, GoodEntries DEF StoreInv
        <4>4. GoodEntry(j, q)'
          BY <1>2, <4>3, GoodKept
        <4> QED BY <4>2, <4>4 DEF GoodEntry
      <3> QED BY <3>2, <3>3
    <2> QED BY <1>1, <1>5, <2>1, GoodEntries
  <1>7. NumbersInv'
    BY <1>1, <1>2 DEF StoreInv, NumbersInv, LogSame
  <1> QED BY <1>2, <1>3, <1>4, <1>5, <1>6, <1>7 DEF StoreInv

\* A step of the callers alone, the next number aside.
LEMMA StoreSame ==
    ASSUME StoreInv, ~replaced,
           UNCHANGED <<directory, phase, tree, writeOff, linked, redirected, crashed, replaced>>,
           seqNo' = seqNo \/ (phase = "open" /\ seqNo' = seqNo + 1)
    PROVE  StoreInv' /\ LogSame /\ LogKept
  <1>1. UNCHANGED <<files, lastFile, seqNoFile, diskTree, merged>>
    BY DEF directory
  <1>2. LogSame /\ LogKept
    BY <1>1, SameFiles
  <1>3. DirectoryTypeOK'
    BY <1>1 DEF StoreInv, DirectoryTypeOK
  <1>4. seqNo \in Nat /\ seqNo' \in Nat /\ seqNo =< seqNo'
    BY DEF StoreInv, InstanceInv
  <1>5. InstanceInv'
    BY <1>1, <1>4 DEF StoreInv, InstanceInv, SizeOfLastFile
  <1>6. EntriesSound'
    BY <1>1, <1>2, <1>5, SoundKept DEF StoreInv
  <1>7. NumbersInv'
    <2>1. \A p \in LogPositions : RecAt(p).seq =< seqNo => RecAt(p).seq =< seqNo'
      BY <1>4, LogEntry DEF StoreInv
    <2>2. phase = "open" \/ seqNo' = seqNo
      OBVIOUS
    <2> QED BY <1>1, <1>2, <2>1 DEF StoreInv, NumbersInv, LogSame
  <1> QED BY <1>2, <1>3, <1>5, <1>6, <1>7 DEF StoreInv

-----------------------------------------------------------------------------
\* The callers

RowSame(c) ==
    pc'[c] = pc[c] /\ pending'[c] = pending[c] /\ positions'[c] = positions[c]

CallerInv(c) ==
    /\ c \in DirectClients => DirectLock(c)
    /\ c \in BatchClients => BatchLock(c) /\ FinishOf(c)
    /\ Staged(c) \subseteq KeysOf[c]
    /\ WrittenOf(c)

CallersInv ==
    /\ mu \in BatchClients \cup {NoClient}
    /\ phase = "closed" => mu = NoClient /\ \A c \in Clients : pc[c] = "idle"
    /\ \A c \in Clients : CallerInv(c)

LEMMA CallersAre == SoundInv <=> StoreInv /\ CallersTypeOK /\ CallersInv
  BY DEF SoundInv, StoreInv, CallersInv, CallerInv, LockInv, WrittenInv, FinishInv, Clients

LEMMA CallersArePrimed == SoundInv' <=> StoreInv' /\ CallersTypeOK' /\ CallersInv'
  BY DEF SoundInv, StoreInv, CallersInv, CallerInv, LockInv, WrittenInv, FinishInv, Clients

\* A caller that takes no step, while nobody else takes its lock.
LEMMA CallerKept ==
    ASSUME LogKept, NEW c \in Clients, RowSame(c), CallerInv(c),
           c \in DirectClients \/ pc[c] = "idle" \/ UNCHANGED <<todo, seqNo>>,
           c \in BatchClients => (mu' = c <=> mu = c)
    PROVE  CallerInv(c)'
  <1>1. Staged(c)' = Staged(c) /\ pc'[c] = pc[c]
    BY DEF RowSame, Staged
  <1>2. c \in DirectClients => DirectLock(c)'
    BY <1>1 DEF CallerInv, DirectLock
  <1>3. c \in BatchClients => c \notin DirectClients
    BY TreeAssumption
  <1>4. c \in BatchClients => BatchLock(c)'
    BY <1>1, <1>3 DEF CallerInv, BatchLock
  <1>5. c \in BatchClients => FinishOf(c)'
    BY <1>1, <1>3 DEF CallerInv, FinishOf, LogKept
  <1>6. WrittenOf(c)'
    <2> SUFFICES ASSUME NEW k \in Keys, Written(c, k)'
                 PROVE  /\ positions'[c][k] \in LogPositions'
                        /\ RecAt(positions[c][k])' =
                              [seq |-> Number(c)', key |-> k, val |-> pending'[c][k]]
      BY DEF WrittenOf
    <2>1. pc[c] = "append" => c \notin DirectClients
      BY DEF CallerInv, DirectLock
    <2>2. Written(c, k) /\ Number(c)' = Number(c)
      BY <2>1 DEF Written, RowSame, Number
    <2>3. PICK p : p = positions[c][k] /\ p = positions'[c][k]
      BY DEF RowSame
    <2>4. p \in LogPositions /\ RecAt(p) = [seq |-> Number(c), key |-> k, val |-> pending[c][k]]
      BY <2>2, <2>3 DEF CallerInv, WrittenOf
    <2>5. p \in LogPositions' /\ RecAt(p)' = RecAt(p)
      BY <2>4 DEF LogKept
    <2> QED BY <2>2, <2>3, <2>4, <2>5 DEF RecAt, RowSame
  <1> QED BY <1>1, <1>2, <1>4, <1>5, <1>6 DEF CallerInv

\* A batch inside Commit is alone in there.
LEMMA OneCommit ==
    ASSUME CallersInv, NEW c \in BatchClients, pc[c] # "idle"
    PROVE  /\ mu = c /\ Locked
           /\ \A d \in BatchClients \ {c} : pc[d] = "idle" /\ mu # d
  BY TreeAssumption DEF CallersInv, CallerInv, BatchLock, Locked, Clients

LEMMA NoCommit ==
    ASSUME CallersInv, ~Locked
    PROVE  \A d \in BatchClients : pc[d] = "idle"
  BY TreeAssumption DEF CallersInv, CallerInv, BatchLock, Locked, Clients

\* A step of c alone.
LEMMA CallersStep ==
    ASSUME LogKept, CallersInv, phase' = "open", NEW c \in Clients,
           \A d \in Clients \ {c} : RowSame(d),
           UNCHANGED <<todo, seqNo>> \/ \A d \in BatchClients \ {c} : pc[d] = "idle",
           mu' \in BatchClients \cup {NoClient},
           \A d \in BatchClients \ {c} : mu' = d <=> mu = d,
           CallerInv(c)'
    PROVE  CallersInv'
  <1>1. ASSUME NEW d \in Clients, d # c
        PROVE  CallerInv(d)'
    <2>1. RowSame(d) /\ CallerInv(d)
      BY <1>1 DEF CallersInv
    <2>2. d \in DirectClients \/ pc[d] = "idle" \/ UNCHANGED <<todo, seqNo>>
      BY <1>1 DEF Clients
    <2>3. d \in BatchClients => (mu' = d <=> mu = d)
      BY <1>1
    <2> QED BY <2>1, <2>2, <2>3, CallerKept
  <1> QED BY <1>1 DEF CallersInv

-----------------------------------------------------------------------------
\* The steps of a direct writer

LEMMA DirectAppendSound ==
    ASSUME SoundInv, ~replaced, NEW c \in DirectClients, NEW k \in KeysOf[c],
           NEW v \in Values \cup {Tombstone}, DirectAppend(c, k, v)
    PROVE  SoundInv'
  <1>1. StoreInv /\ CallersTypeOK /\ CallersInv
    BY CallersAre
  <1>2. c \in Clients /\ k \in Keys /\ c \notin BatchClients /\ v # NoWrite
    BY TreeAssumption DEF Clients
  <1>3. PICK rec : rec = [seq |-> 0, key |-> k, val |-> v]
    OBVIOUS
  <1>4. /\ phase = "open" /\ pc[c] = "idle" /\ ~Locked /\ AppendLogRecord(rec)
        /\ pc' = [pc EXCEPT ![c] = "index"]
        /\ pending' = [pending EXCEPT ![c][k] = v]
        /\ UNCHANGED <<seqNo, mu, todo>>
    BY <1>3 DEF DirectAppend, Calm
  <1>5. PICK pos : pos = AppendPos
    OBVIOUS
  <1>6. positions' = [positions EXCEPT ![c][k] = pos]
    BY <1>5 DEF DirectAppend
  <1>7. rec \in Records /\ rec.seq =< seqNo
    BY <1>1, <1>2, <1>3 DEF Records, StoreInv, InstanceInv
  <1>8. StoreInv' /\ LogGrown(pos, rec) /\ LogKept
    BY <1>1, <1>4, <1>5, <1>7, StoreAfterAppend
  <1>9. pos \in Positions
    BY <1>8 DEF LogGrown
  <1>10. CallersTypeOK' /\ phase' = phase
    <2>1. pending' \in [Clients -> [Keys -> Writes]] /\ v \in Writes
      BY <1>1, <1>2, <1>4 DEF CallersTypeOK, Writes
    <2>2. positions' \in [Clients -> [Keys -> Positions]]
      BY <1>1, <1>2, <1>6, <1>9 DEF CallersTypeOK
    <2>3. pc' \in [Clients -> {"idle", "index", "append", "finish", "apply"}]
      BY <1>1, <1>4 DEF CallersTypeOK
    <2>4. UNCHANGED <<phase, acked>>
      BY <1>4 DEF AppendLogRecord, history
    <2> QED BY <1>1, <1>4, <2>1, <2>2, <2>3, <2>4 DEF CallersTypeOK
  <1>11. /\ \A d \in Clients \ {c} : RowSame(d)
         /\ pc'[c] = "index" /\ pending'[c] = [pending[c] EXCEPT ![k] = v]
         /\ positions'[c] = [positions[c] EXCEPT ![k] = pos]
    BY <1>1, <1>2, <1>4, <1>6 DEF CallersTypeOK, RowSame
  <1>12. Staged(c) = {} /\ pending[c] \in [Keys -> Writes] /\ positions[c] \in [Keys -> Positions]
    BY <1>1, <1>2, <1>4 DEF CallersInv, CallerInv, DirectLock, CallersTypeOK
  <1>13. Staged(c)' = {k}
    BY <1>2, <1>11, <1>12 DEF Staged
  <1>14. WrittenOf(c)'
    <2>1. ASSUME NEW j \in Keys, Written(c, j)'
          PROVE  j = k
      BY <1>13, <2>1 DEF Written, Staged
    <2>2. positions'[c][k] = pos /\ pending'[c][k] = v
      BY <1>2, <1>11, <1>12
    <2>3. pos \in LogPositions' /\ RecAt(pos)' = rec
      BY <1>8 DEF LogGrown
    <2> QED BY <1>3, <2>1, <2>2, <2>3 DEF WrittenOf, Number, RecAt
  <1>15. CallerInv(c)'
    BY <1>2, <1>11, <1>13, <1>14 DEF CallerInv, DirectLock
  <1>16. CallersInv'
    BY <1>1, <1>2, <1>4, <1>8, <1>10, <1>11, <1>15, CallersStep DEF CallersInv
  <1> QED BY <1>8, <1>10, <1>16, CallersArePrimed

\* A caller that has nothing left.
LEMMA ForgottenCaller ==
    ASSUME CallersTypeOK, CallersInv, NEW c \in Clients, Forget(c), mu' # c
    PROVE  /\ CallerInv(c)' /\ \A d \in Clients \ {c} : RowSame(d)
           /\ pc' \in [Clients -> {"idle", "index", "append", "finish", "apply"}]
           /\ pending' \in [Clients -> [Keys -> Writes]]
           /\ positions' \in [Clients -> [Keys -> Positions]]
  <1>1. /\ pc'[c] = "idle" /\ pending'[c] = NoWrites
        /\ \A d \in Clients \ {c} : RowSame(d)
        /\ pc' \in [Clients -> {"idle", "index", "append", "finish", "apply"}]
    BY DEF Forget, CallersTypeOK, RowSame
  <1>2. NoWrites \in [Keys -> Writes] /\ NoEntries \in [Keys -> Positions]
    BY PositionIs DEF NoWrites, NoEntries, Writes
  <1>3. /\ pending' \in [Clients -> [Keys -> Writes]]
        /\ positions' \in [Clients -> [Keys -> Positions]]
    BY <1>2 DEF Forget, CallersTypeOK
  <1>4. Staged(c)' = {}
    BY <1>1 DEF Staged, NoWrites
  <1>5. CallerInv(c)'
    BY <1>1, <1>4 DEF CallerInv, DirectLock, BatchLock, FinishOf, WrittenOf, Written
  <1> QED BY <1>1, <1>3, <1>5

LEMMA AckType ==
    ASSUME CallersTypeOK, NEW c \in Clients, NEW ks, Acks(c, ks)
    PROVE  acked' \in [Keys -> [pos : Positions, val : Writes]]
  <1>1. \A k \in Keys : positions[c][k] \in Positions /\ pending[c][k] \in Writes
    BY DEF CallersTypeOK
  <1> QED BY <1>1 DEF Acks, CallersTypeOK

\* The record of a call stands, so its entry is good.
LEMMA WrittenGood ==
    ASSUME CallersInv, NEW c \in Clients, NEW k \in Keys, Written(c, k),
           pending[c][k] \in Values, Number(c) = 0 \/ (c \in BatchClients /\ pc[c] = "apply")
    PROVE  GoodEntry(k, positions[c][k])
  <1>1. /\ positions[c][k] \in LogPositions
        /\ RecAt(positions[c][k]) = [seq |-> Number(c), key |-> k, val |-> pending[c][k]]
    BY DEF CallersInv, CallerInv, WrittenOf
  <1>2. c \in BatchClients => Number(c) = seqNo
    BY TreeAssumption DEF Number
  <1>3. c \in BatchClients => FinishOf(c)
    BY DEF CallersInv, CallerInv
  <1> QED BY <1>1, <1>2, <1>3 DEF GoodEntry, FinishOf

LEMMA DirectIndexSound ==
    ASSUME SoundInv, ~replaced, NEW c \in DirectClients, DirectIndex(c)
    PROVE  SoundInv' /\ LogSame
  <1>1. StoreInv /\ CallersTypeOK /\ CallersInv
    BY CallersAre
  <1>2. c \in Clients /\ c \notin BatchClients
    BY TreeAssumption DEF Clients
  <1>3. /\ phase = "open" /\ pc[c] = "index" /\ Acks(c, Staged(c)) /\ Forget(c)
        /\ UNCHANGED <<mu, todo>>
    BY DEF DirectIndex
  <1>4. PICK k \in Staged(c) : UpdateTree(k, pending[c][k], positions[c][k])
    BY DEF DirectIndex
  <1>5. k \in Keys /\ Written(c, k) /\ positions[c][k] \in Positions
    BY <1>1, <1>2, <1>3 DEF Staged, Written, CallersTypeOK
  <1>6. pending[c][k] # Tombstone => pending[c][k] \in Values
    BY <1>1, <1>2, <1>5 DEF Written, CallersTypeOK, Writes
  <1>7. pending[c][k] # Tombstone => GoodEntry(k, positions[c][k])
    BY <1>1, <1>2, <1>5, <1>6, WrittenGood DEF Number
  <1>8. StoreInv' /\ LogSame /\ LogKept
    BY <1>1, <1>3, <1>4, <1>5, <1>7, StoreAfterUpdate
  <1>9. phase' = "open" /\ seqNo' = seqNo
    BY <1>3, <1>4 DEF UpdateTree
  <1>10. mu \in BatchClients \cup {NoClient} /\ mu # c
    BY <1>1, <1>2, TreeAssumption DEF CallersInv
  <1>11. /\ CallerInv(c)' /\ \A d \in Clients \ {c} : RowSame(d)
         /\ CallersTypeOK'
    BY <1>1, <1>2, <1>3, <1>10, ForgottenCaller, AckType DEF CallersTypeOK
  <1>12. CallersInv'
    BY <1>1, <1>2, <1>3, <1>8, <1>9, <1>10, <1>11, CallersStep
  <1> QED BY <1>8, <1>11, <1>12, CallersArePrimed

-----------------------------------------------------------------------------
\* The steps of a batch

\* WBPut and WBDelete: something else is staged.
LEMMA StageSound ==
    ASSUME SoundInv, ~replaced, NEW c \in BatchClients, NEW k \in KeysOf[c],
           NEW w \in Writes, pending' = [pending EXCEPT ![c][k] = w], Calm(c),
           UNCHANGED <<directory, instance, mu, pc, positions, todo, history>>
    PROVE  SoundInv' /\ LogSame
  <1>1. StoreInv /\ CallersTypeOK /\ CallersInv
    BY CallersAre
  <1>2. c \in Clients /\ k \in Keys /\ c \notin DirectClients
    BY TreeAssumption DEF Clients
  <1>3. StoreInv' /\ LogSame /\ LogKept
    BY <1>1, StoreSame DEF instance, options, history
  <1>4. CallersTypeOK'
    <2>1. pending' \in [Clients -> [Keys -> Writes]]
      BY <1>1, <1>2 DEF CallersTypeOK
    <2> QED BY <1>1, <2>1 DEF CallersTypeOK, history
  <1>5. /\ \A d \in Clients \ {c} : RowSame(d)
        /\ pending'[c] = [pending[c] EXCEPT ![k] = w]
    BY <1>1, <1>2 DEF CallersTypeOK, RowSame
  <1>6. Staged(c)' \subseteq KeysOf[c]
    <2>1. pending[c] \in [Keys -> Writes] /\ Staged(c) \subseteq KeysOf[c]
      BY <1>1, <1>2 DEF CallersTypeOK, CallersInv, CallerInv
    <2> QED BY <1>2, <1>5, <2>1 DEF Staged
  <1>7. CallerInv(c)'
    <2>1. pc'[c] = "idle" /\ BatchLock(c)
      BY <1>1, <1>2 DEF Calm, CallersInv, CallerInv
    <2> QED BY <1>2, <1>6, <2>1 DEF CallerInv, BatchLock, FinishOf, WrittenOf, Written
  <1>8. phase' = "open" /\ UNCHANGED <<seqNo, todo, mu>>
    BY DEF Calm, instance
  <1>9. CallersInv'
    BY <1>1, <1>2, <1>3, <1>5, <1>7, <1>8, CallersStep DEF CallersInv
  <1> QED BY <1>3, <1>4, <1>9, CallersArePrimed

LEMMA WBPutSound ==
    ASSUME SoundInv, ~replaced, NEW c \in BatchClients, WBPut(c)
    PROVE  SoundInv' /\ LogSame
  <1>1. PICK k \in KeysOf[c], v \in Values : pending' = [pending EXCEPT ![c][k] = v]
    BY DEF WBPut
  <1> QED BY <1>1, StageSound DEF WBPut, Writes

LEMMA WBDeleteSound ==
    ASSUME SoundInv, ~replaced, NEW c \in BatchClients, WBDelete(c)
    PROVE  SoundInv' /\ LogSame
  <1>1. PICK k \in KeysOf[c] :
          pending' = [pending EXCEPT ![c][k] = IF tree[k] = NoPos THEN NoWrite ELSE Tombstone]
    BY DEF WBDelete
  <1>2. PICK w \in Writes : w = IF tree[k] = NoPos THEN NoWrite ELSE Tombstone
    BY DEF Writes
  <1> QED BY <1>1, <1>2, StageSound DEF WBDelete

LEMMA CommitStartSound ==
    ASSUME SoundInv, ~replaced, NEW c \in BatchClients, CommitStart(c)
    PROVE  SoundInv' /\ LogSame
  <1>1. StoreInv /\ CallersTypeOK /\ CallersInv
    BY CallersAre
  <1>2. c \in Clients /\ c \notin DirectClients
    BY TreeAssumption DEF Clients
  <1>3. /\ phase = "open" /\ pc[c] = "idle" /\ ~Locked /\ mu' = c /\ seqNo' = seqNo + 1
        /\ todo' = Staged(c) /\ pc' = [pc EXCEPT ![c] = "append"]
        /\ UNCHANGED <<directory, phase, tree, writeOff, linked, redirected, pending,
                       positions, history>>
    BY DEF CommitStart, Calm, options
  <1>4. StoreInv' /\ LogSame /\ LogKept
    BY <1>1, <1>3, StoreSame DEF history
  <1>5. Staged(c) \subseteq Keys /\ Staged(c)' = Staged(c)
    BY <1>3 DEF Staged
  <1>6. CallersTypeOK'
    BY <1>1, <1>3, <1>5 DEF CallersTypeOK, history
  <1>7. pc'[c] = "append" /\ \A d \in Clients \ {c} : RowSame(d)
    BY <1>1, <1>2, <1>3 DEF CallersTypeOK, RowSame
  <1>8. CallerInv(c)'
    <2>1. \A k \in Keys : ~Written(c, k)'
      BY <1>3, <1>7 DEF Written, Staged
    <2>2. Staged(c)' \subseteq KeysOf[c]
      BY <1>1, <1>2, <1>5 DEF CallersInv, CallerInv
    <2> QED BY <1>2, <1>3, <1>5, <1>7, <2>1, <2>2 DEF CallerInv, BatchLock, FinishOf, WrittenOf
  <1>9. \A d \in BatchClients \ {c} : pc[d] = "idle" /\ mu # d /\ mu' # d
    BY <1>1, <1>3, NoCommit, TreeAssumption DEF Locked, Clients
  <1>10. CallersInv'
    BY <1>1, <1>2, <1>3, <1>4, <1>7, <1>8, <1>9, CallersStep
  <1> QED BY <1>4, <1>6, <1>10, CallersArePrimed

LEMMA CommitAppendSound ==
    ASSUME SoundInv, ~replaced, NEW c \in BatchClients, CommitAppend(c)
    PROVE  SoundInv'
  <1>1. StoreInv /\ CallersTypeOK /\ CallersInv
    BY CallersAre
  <1>2. c \in Clients /\ c \notin DirectClients
    BY TreeAssumption DEF Clients
  <1>3. PICK k \in todo :
          /\ AppendLogRecord([seq |-> seqNo, key |-> k, val |-> pending[c][k]])
          /\ positions' = [positions EXCEPT ![c][k] = AppendPos]
          /\ todo' = IF todo = {k} /\ AfterAppends = "apply" THEN Staged(c) ELSE todo \ {k}
          /\ pc' = IF todo = {k} THEN [pc EXCEPT ![c] = AfterAppends] ELSE pc
    BY DEF CommitAppend
  <1>4. /\ phase = "open" /\ pc[c] = "append" /\ UNCHANGED <<seqNo, mu, pending>>
        /\ todo' = todo \ {k}
    BY <1>3 DEF CommitAppend, AfterAppends
  <1>5. PICK pos : pos = AppendPos
    OBVIOUS
  <1>6. PICK rec : rec = [seq |-> seqNo, key |-> k, val |-> pending[c][k]]
    OBVIOUS
  <1>7. /\ todo \subseteq Staged(c) /\ mu = c
        /\ \A d \in BatchClients \ {c} : pc[d] = "idle" /\ mu # d
    BY <1>1, <1>2, <1>4, OneCommit DEF CallersInv, CallerInv, BatchLock
  <1>8. k \in Keys /\ pending[c][k] \in Values \cup {Tombstone} /\ Staged(c) \subseteq Keys
    BY <1>1, <1>2, <1>7 DEF Staged, CallersTypeOK, Writes
  <1>9. rec \in Records /\ rec.seq =< seqNo
    BY <1>1, <1>6, <1>8 DEF Records, StoreInv, InstanceInv
  <1>10. StoreInv' /\ LogGrown(pos, rec) /\ LogKept
    BY <1>1, <1>3, <1>4, <1>5, <1>6, <1>9, StoreAfterAppend
  <1>11. phase' = "open" /\ acked' = acked
    BY <1>3, <1>4 DEF AppendLogRecord, history
  <1>12. /\ \A d \in Clients \ {c} : RowSame(d)
         /\ pc'[c] = IF todo = {k} THEN "finish" ELSE "append"
         /\ pending'[c] = pending[c]
         /\ positions'[c] = [positions[c] EXCEPT ![k] = pos]
    BY <1>1, <1>2, <1>3, <1>4, <1>5 DEF CallersTypeOK, RowSame, AfterAppends
  <1>13. CallersTypeOK'
    <2>1. pos \in Positions
      BY <1>10 DEF LogGrown
    <2>2. positions' \in [Clients -> [Keys -> Positions]]
      BY <1>1, <1>2, <1>3, <1>5, <1>8, <2>1 DEF CallersTypeOK
    <2>3. pc' \in [Clients -> {"idle", "index", "append", "finish", "apply"}]
      BY <1>1, <1>3 DEF CallersTypeOK, AfterAppends
    <2> QED BY <1>1, <1>4, <1>11, <2>2, <2>3 DEF CallersTypeOK
  <1>14. Staged(c)' = Staged(c)
    BY <1>12 DEF Staged
  <1>15. WrittenOf(c)'
    <2> SUFFICES ASSUME NEW j \in Keys, Written(c, j)'
                 PROVE  /\ positions'[c][j] \in LogPositions'
                        /\ RecAt(positions[c][j])' =
                              [seq |-> seqNo, key |-> j, val |-> pending[c][j]]
      BY <1>2, <1>4, <1>12 DEF WrittenOf, Number
    <2>1. positions[c] \in [Keys -> Positions]
      BY <1>1, <1>2 DEF CallersTypeOK
    <2>2. CASE j = k
      <3>1. positions'[c][k] = pos
        BY <1>8, <1>12, <2>1
      <3>2. pos \in LogPositions' /\ RecAt(pos)' = rec
        BY <1>10 DEF LogGrown
      <3> QED BY <1>6, <2>2, <3>1, <3>2 DEF RecAt
    <2>3. CASE j # k
      <3>1. PICK p : p = positions[c][j]
        OBVIOUS
      <3>2. positions'[c][j] = p
        BY <1>12, <2>1, <2>3, <3>1
      <3>3. Written(c, j)
        BY <1>4, <1>12, <2>3 DEF Written
      <3>4. p \in LogPositions /\ RecAt(p) = [seq |-> seqNo, key |-> j, val |-> pending[c][j]]
        BY <1>1, <1>2, <3>1, <3>3 DEF CallersInv, CallerInv, WrittenOf, Number
      <3>5. p \in LogPositions' /\ RecAt(p)' = RecAt(p)
        BY <1>10, <3>4 DEF LogKept
      <3> QED BY <3>2, <3>4, <3>5 DEF RecAt
    <2> QED BY <2>2, <2>3
  <1>16. CallerInv(c)'
    <2>1. Staged(c)' \subseteq KeysOf[c]
      BY <1>1, <1>2, <1>14 DEF CallersInv, CallerInv
    <2> QED BY <1>2, <1>4, <1>7, <1>12, <1>14, <1>15, <2>1 DEF CallerInv, BatchLock, FinishOf
  <1>17. CallersInv'
    BY <1>1, <1>2, <1>4, <1>7, <1>10, <1>11, <1>12, <1>16, CallersStep
  <1> QED BY <1>10, <1>13, <1>17, CallersArePrimed

LEMMA CommitFinishSound ==
    ASSUME SoundInv, ~replaced, NEW c \in BatchClients, CommitFinish(c)
    PROVE  SoundInv'
  <1>1. StoreInv /\ CallersTypeOK /\ CallersInv
    BY CallersAre
  <1>2. c \in Clients /\ c \notin DirectClients
    BY TreeAssumption DEF Clients
  <1>3. PICK pos : pos = AppendPos
    OBVIOUS
  <1>4. PICK rec : rec = [seq |-> seqNo, key |-> TxnFinKey, val |-> Finished]
    OBVIOUS
  <1>5. /\ phase = "open" /\ pc[c] = "finish" /\ AppendLogRecord(rec)
        /\ pc' = [pc EXCEPT ![c] = "apply"] /\ todo' = Staged(c)
        /\ UNCHANGED <<seqNo, mu, pending, positions>>
    BY <1>4 DEF CommitFinish
  <1>6. rec \in Records /\ rec.seq =< seqNo
    BY <1>1, <1>4 DEF Records, StoreInv, InstanceInv
  <1>7. StoreInv' /\ LogGrown(pos, rec) /\ LogKept
    BY <1>1, <1>3, <1>5, <1>6, StoreAfterAppend
  <1>8. mu = c /\ \A d \in BatchClients \ {c} : pc[d] = "idle" /\ mu # d
    BY <1>1, <1>5, OneCommit
  <1>9. phase' = "open" /\ acked' = acked
    BY <1>5 DEF AppendLogRecord, history
  <1>10. pc'[c] = "apply" /\ \A d \in Clients \ {c} : RowSame(d)
    BY <1>1, <1>2, <1>5 DEF CallersTypeOK, RowSame
  <1>11. Staged(c)' = Staged(c) /\ Staged(c) \subseteq Keys
    BY <1>5 DEF Staged
  <1>12. CallersTypeOK'
    BY <1>1, <1>5, <1>9, <1>11 DEF CallersTypeOK
  <1>13. WrittenOf(c)'
    <2> SUFFICES ASSUME NEW j \in Keys, Written(c, j)'
                 PROVE  /\ positions[c][j] \in LogPositions'
                        /\ RecAt(positions[c][j])' =
                              [seq |-> seqNo, key |-> j, val |-> pending[c][j]]
      BY <1>2, <1>5 DEF WrittenOf, Number
    <2>1. PICK p : p = positions[c][j] /\ p = positions'[c][j]
      BY <1>5
    <2>2. Written(c, j)
      BY <1>5, <1>10 DEF Written
    <2>3. p \in LogPositions /\ RecAt(p) = [seq |-> seqNo, key |-> j, val |-> pending[c][j]]
      BY <1>1, <1>2, <2>1, <2>2 DEF CallersInv, CallerInv, WrittenOf, Number
    <2>4. p \in LogPositions' /\ RecAt(p)' = RecAt(p)
      BY <1>7, <2>3 DEF LogKept
    <2> QED BY <2>1, <2>3, <2>4 DEF RecAt
  <1>14. FinishOf(c)'
    <2>1. pos \in LogPositions' /\ RecAt(pos)' = rec
      BY <1>7 DEF LogGrown
    <2> QED BY <1>4, <1>5, <2>1 DEF FinishOf
  <1>15. CallerInv(c)'
    <2>1. Staged(c)' \subseteq KeysOf[c]
      BY <1>1, <1>2, <1>11 DEF CallersInv, CallerInv
    <2> QED BY <1>2, <1>5, <1>8, <1>10, <1>11, <1>13, <1>14, <2>1 DEF CallerInv, BatchLock
  <1>16. CallersInv'
    BY <1>1, <1>2, <1>5, <1>7, <1>8, <1>9, <1>10, <1>15, CallersStep
  <1> QED BY <1>7, <1>12, <1>16, CallersArePrimed

LEMMA CommitIndexSound ==
    ASSUME SoundInv, ~replaced, NEW c \in BatchClients, CommitIndex(c)
    PROVE  SoundInv' /\ LogSame
  <1>1. StoreInv /\ CallersTypeOK /\ CallersInv
    BY CallersAre
  <1>2. c \in Clients /\ c \notin DirectClients
    BY TreeAssumption DEF Clients
  <1>3. /\ phase = "open" /\ pc[c] = "apply"
        /\ UNCHANGED <<mu, pc, pending, positions, acked>>
    BY DEF CommitIndex
  <1>4. PICK k \in todo : /\ UpdateTree(k, pending[c][k], positions[c][k])
                          /\ todo' = todo \ {k}
    BY DEF CommitIndex
  <1>5. /\ todo \subseteq Staged(c) /\ mu = c
        /\ \A d \in BatchClients \ {c} : pc[d] = "idle" /\ mu # d
    BY <1>1, <1>2, <1>3, OneCommit DEF CallersInv, CallerInv, BatchLock
  <1>6. k \in Keys /\ Written(c, k) /\ positions[c][k] \in Positions
    BY <1>1, <1>2, <1>3, <1>5 DEF Staged, Written, CallersTypeOK
  <1>7. pending[c][k] # Tombstone => pending[c][k] \in Values
    BY <1>1, <1>2, <1>6 DEF Written, CallersTypeOK, Writes
  <1>8. pending[c][k] # Tombstone => GoodEntry(k, positions[c][k])
    BY <1>1, <1>2, <1>3, <1>6, <1>7, WrittenGood
  <1>9. StoreInv' /\ LogSame /\ LogKept
    BY <1>1, <1>3, <1>4, <1>6, <1>8, StoreAfterUpdate
  <1>10. phase' = "open" /\ seqNo' = seqNo
    BY <1>3, <1>4 DEF UpdateTree
  <1>11. CallersTypeOK'
    BY <1>1, <1>3, <1>4 DEF CallersTypeOK
  <1>12. \A d \in Clients : RowSame(d)
    BY <1>3 DEF RowSame
  <1>13. CallerInv(c)'
    <2>1. Staged(c)' = Staged(c)
      BY <1>3 DEF Staged
    <2>2. BatchLock(c)'
      BY <1>1, <1>2, <1>3, <1>4, <2>1 DEF CallersInv, CallerInv, BatchLock
    <2>3. FinishOf(c)'
      BY <1>1, <1>2, <1>3, <1>9, <1>10 DEF CallersInv, CallerInv, FinishOf, LogKept
    <2>4. WrittenOf(c)'
      <3> SUFFICES ASSUME NEW j \in Keys, Written(c, j)'
                   PROVE  /\ positions[c][j] \in LogPositions'
                          /\ RecAt(positions[c][j])' =
                                [seq |-> seqNo, key |-> j, val |-> pending[c][j]]
        BY <1>2, <1>3, <1>10 DEF WrittenOf, Number
      <3>1. PICK p : p = positions[c][j] /\ p = positions'[c][j]
        BY <1>3
      <3>2. Written(c, j)
        BY <1>3 DEF Written
      <3>3. p \in LogPositions /\ RecAt(p) = [seq |-> seqNo, key |-> j, val |-> pending[c][j]]
        BY <1>1, <1>2, <3>1, <3>2 DEF CallersInv, CallerInv, WrittenOf, Number
      <3>4. p \in LogPositions' /\ RecAt(p)' = RecAt(p)
        BY <1>9, <3>3 DEF LogKept
      <3> QED BY <3>1, <3>3, <3>4 DEF RecAt
    <2> QED BY <1>1, <1>2, <2>1, <2>2, <2>3, <2>4 DEF CallersInv, CallerInv
  <1>14. CallersInv'
    BY <1>1, <1>2, <1>3, <1>5, <1>9, <1>10, <1>12, <1>13, CallersStep
  <1> QED BY <1>9, <1>11, <1>14, CallersArePrimed

LEMMA CommitEndSound ==
    ASSUME SoundInv, ~replaced, NEW c \in BatchClients, CommitEnd(c)
    PROVE  SoundInv' /\ LogSame
  <1>1. StoreInv /\ CallersTypeOK /\ CallersInv
    BY CallersAre
  <1>2. c \in Clients /\ c # NoClient
    BY TreeAssumption DEF Clients
  <1>3. /\ phase = "open" /\ pc[c] = "apply" /\ mu' = NoClient
        /\ Acks(c, Staged(c)) /\ Forget(c)
        /\ UNCHANGED <<directory, instance, todo, crashed, replaced>>
    BY DEF CommitEnd
  <1>4. StoreInv' /\ LogSame /\ LogKept
    BY <1>1, <1>3, StoreSame DEF instance, options
  <1>5. /\ CallerInv(c)' /\ \A d \in Clients \ {c} : RowSame(d)
        /\ CallersTypeOK'
    BY <1>1, <1>2, <1>3, ForgottenCaller, AckType DEF CallersTypeOK
  <1>6. \A d \in BatchClients \ {c} : mu # d /\ mu' # d
    BY <1>1, <1>3, OneCommit, TreeAssumption DEF Clients
  <1>7. CallersInv'
    BY <1>1, <1>2, <1>3, <1>4, <1>5, <1>6, CallersStep DEF instance
  <1> QED BY <1>4, <1>5, <1>7, CallersArePrimed

-----------------------------------------------------------------------------
\* The steps of the instance

LEMMA MergeSound ==
    ASSUME SoundInv, ~replaced, Merge
    PROVE  SoundInv' /\ LogSame
  <1>1. StoreInv /\ CallersTypeOK /\ CallersInv
    BY CallersAre
  <1>2. /\ phase = "open" /\ lastFile = 0 /\ lastFile' = 1 /\ writeOff' = 0
        /\ UNCHANGED <<files, seqNoFile, diskTree, phase, tree, seqNo, linked, mu, callers,
                       history>>
    BY DEF Merge
  <1>3. merged' # <<>>
    BY DEF Merge
  <1>4. LogSame /\ LogKept
    BY <1>2, SameFiles
  <1>5. DirectoryTypeOK'
    BY <1>1, <1>2 DEF StoreInv, DirectoryTypeOK, FileIds
  <1>6. InstanceInv'
    BY <1>1, <1>2, <1>3 DEF StoreInv, InstanceInv, SizeOfLastFile
  <1>7. EntriesSound'
    BY <1>1, <1>2, <1>4, <1>6, SoundKept DEF StoreInv, history
  <1>8. NumbersInv'
    BY <1>1, <1>2, <1>4 DEF StoreInv, NumbersInv, LogSame, history
  <1>9. CallersTypeOK'
    BY <1>1, <1>2 DEF CallersTypeOK, callers, history
  <1>10. \A d \in Clients : RowSame(d)
    BY <1>2 DEF callers, RowSame
  <1>11. \A d \in Clients : CallerInv(d)'
    BY <1>1, <1>2, <1>4, <1>10, CallerKept DEF CallersInv, callers
  <1>12. CallersInv'
    BY <1>1, <1>2, <1>11 DEF CallersInv
  <1> QED BY <1>4, <1>5, <1>6, <1>7, <1>8, <1>9, <1>12, CallersArePrimed DEF StoreInv

\* Nobody is in a call.
LEMMA NoCallers ==
    ASSUME mu' = NoClient, pc' = [c \in Clients |-> "idle"],
           pending' = [c \in Clients |-> NoWrites],
           positions' = [c \in Clients |-> NoEntries],
           todo' = {}, acked' \in [Keys -> [pos : Positions, val : Writes]]
    PROVE  CallersTypeOK' /\ CallersInv'
  <1>1. NoWrites \in [Keys -> Writes] /\ NoEntries \in [Keys -> Positions]
    BY PositionIs DEF NoWrites, NoEntries, Writes
  <1>2. CallersTypeOK'
    BY <1>1 DEF CallersTypeOK
  <1>3. ASSUME NEW c \in Clients
        PROVE  CallerInv(c)'
    <2>1. pc'[c] = "idle" /\ pending'[c] = NoWrites /\ mu' # c
      BY TreeAssumption
    <2>2. Staged(c)' = {}
      BY <2>1 DEF Staged, NoWrites
    <2> QED BY <2>1, <2>2 DEF CallerInv, DirectLock, BatchLock, FinishOf, WrittenOf, Written
  <1> QED BY <1>2, <1>3 DEF CallersInv

LEMMA StopSound ==
    ASSUME SoundInv, ~replaced, phase = "open", Stop,
           UNCHANGED crashed \/ crashed',
           seqNoFile' \in Nat \cup {NoSeqNo, EmptySeqNo},
           ~crashed' => IF lastFile = NoFile \/ redirected THEN seqNoFile' = seqNoFile
                        ELSE seqNoFile' = seqNo
    PROVE  SoundInv' /\ LogSame
  <1>1. StoreInv /\ CallersTypeOK /\ CallersInv
    BY CallersAre
  <1>2. /\ phase' = "closed" /\ tree' = NoEntries /\ linked' /\ seqNo' = 0 /\ ~redirected'
        /\ UNCHANGED <<files, lastFile, diskTree, merged, acked, replaced>>
    BY DEF Stop
  <1>3. LogSame /\ LogKept
    BY <1>2, SameFiles
  <1>4. DirectoryTypeOK'
    BY <1>1, <1>2, PositionIs DEF StoreInv, DirectoryTypeOK, NoEntries
  <1>5. InstanceInv'
    BY <1>1, <1>2 DEF StoreInv, InstanceInv
  <1>6. EntriesSound'
    BY <1>1, <1>2, <1>3, <1>5, SoundKept DEF StoreInv
  <1>7. NumbersInv'
    <2> SUFFICES ASSUME ~crashed'
                 PROVE  /\ seqNoFile' # EmptySeqNo
                        /\ merged = <<>> /\ lastFile # NoFile =>
                              seqNoFile' \in Nat
                              /\ \A p \in LogPositions : RecAt(p).seq =< seqNoFile'
      BY <1>2, <1>3 DEF NumbersInv, LogSame
    <2>1. /\ ~crashed /\ seqNoFile # EmptySeqNo /\ seqNo \in Nat
          /\ \A p \in LogPositions : RecAt(p).seq =< seqNo
          /\ redirected => merged # <<>>
      BY <1>1 DEF StoreInv, NumbersInv, InstanceInv
    <2> QED BY <2>1 DEF EmptySeqNo
  <1>8. CallersTypeOK' /\ CallersInv'
    BY <1>1, NoCallers DEF Stop, CallersTypeOK
  <1> QED BY <1>3, <1>4, <1>5, <1>6, <1>7, <1>8, CallersArePrimed DEF StoreInv

LEMMA CloseSound ==
    ASSUME SoundInv, ~replaced, Close \/ ProcessCrash \/ CrashInClose
    PROVE  SoundInv' /\ LogSame
  <1>1. /\ seqNoFile \in Nat \cup {NoSeqNo, EmptySeqNo} /\ seqNo \in Nat
    BY DEF SoundInv, DirectoryTypeOK, InstanceInv
  <1>2. CASE Close
    BY <1>1, <1>2, StopSound DEF Close
  <1>3. CASE ProcessCrash
    BY <1>1, <1>3, StopSound DEF ProcessCrash
  <1>4. CASE CrashInClose
    BY <1>1, <1>4, StopSound DEF CrashInClose
  <1> QED BY <1>2, <1>3, <1>4

LEMMA IdleSound ==
    ASSUME SoundInv, ~replaced,
           UNCHANGED <<directory, phase, tree, writeOff, seqNo, linked, redirected, mu, callers,
                       history>>
    PROVE  SoundInv' /\ LogSame
  <1>1. StoreInv /\ CallersTypeOK /\ CallersInv
    BY CallersAre
  <1>2. /\ StoreInv' /\ LogSame /\ LogKept
    BY <1>1, StoreSame DEF history
  <1>3. UNCHANGED <<phase, mu, pc, pending, positions, todo, seqNo, acked>>
    BY DEF callers, history
  <1>4. CallersTypeOK'
    BY <1>1, <1>3 DEF CallersTypeOK
  <1>5. \A d \in Clients : CallerInv(d)'
    BY <1>1, <1>2, <1>3, CallerKept DEF CallersInv, RowSame
  <1>6. CallersInv'
    BY <1>1, <1>3, <1>5 DEF CallersInv
  <1> QED BY <1>2, <1>4, <1>6, CallersArePrimed

LEMMA ExitSound ==
    ASSUME SoundInv, ~replaced, ProcessExit \/ UNCHANGED vars
    PROVE  SoundInv' /\ LogSame
  BY IdleSound DEF ProcessExit, vars, instance, options

\* An Open that finds no files of a Merge.
LEMMA OpenSound ==
    ASSUME SoundInv, ~replaced', OpenDB \/ OpenRefused
    PROVE  SoundInv' /\ LogSame /\ merged = <<>>
  <1>1. StoreInv /\ CallersTypeOK /\ CallersInv
    BY CallersAre
  <1>2. OpenTree
    BY DEF OpenDB, OpenRefused
  <1>3. /\ merged = <<>> /\ phase = "closed"
        /\ UNCHANGED <<files, diskTree, linked, merged, replaced, lastFile, redirected, mu,
                       callers, acked, crashed>>
    BY <1>2 DEF OpenTree
  <1>4. LogSame /\ LogKept
    BY <1>3, SameFiles
  <1>5. CASE OpenDB
    <2>1. /\ seqNoFile # EmptySeqNo /\ phase' = "open" /\ tree' = diskTree
          /\ seqNo' = LoadedSeqNo /\ seqNoFile' = NoSeqNo /\ writeOff' = SizeOfLastFile
      BY <1>5 DEF OpenDB
    <2>2. seqNo' \in Nat
      BY <1>1, <2>1 DEF StoreInv, DirectoryTypeOK, LoadedSeqNo
    <2>3. DirectoryTypeOK'
      BY <1>1, <1>3, <2>1 DEF StoreInv, DirectoryTypeOK
    <2>4. InstanceInv'
      BY <1>1, <1>3, <2>1, <2>2 DEF StoreInv, InstanceInv, SizeOfLastFile
    <2>5. EntriesSound'
      BY <1>1, <1>3, <1>4, <2>4, SoundKept DEF StoreInv
    <2>6. NumbersInv'
      <3> SUFFICES ASSUME ~crashed
                   PROVE  \A p \in LogPositions : RecAt(p).seq =< seqNo'
        BY <1>3, <1>4, <2>1 DEF NumbersInv, LogSame, NoSeqNo, EmptySeqNo
      <3>1. CASE lastFile = NoFile
        <4>1. \A f \in FileIds : Len(files[f]) = 0
          BY <1>1, <3>1 DEF StoreInv, InstanceInv, FileIds
        <4>2. LogPositions = {}
          BY <1>1, <4>1, InLog, LogIs DEF StoreInv, DirectoryTypeOK
        <4> QED BY <4>2
      <3>2. CASE lastFile # NoFile
        <4>1. seqNoFile \in Nat /\ \A p \in LogPositions : RecAt(p).seq =< seqNoFile
          BY <1>1, <1>3, <3>2 DEF StoreInv, NumbersInv
        <4> QED BY <2>1, <4>1 DEF LoadedSeqNo, NoSeqNo
      <3> QED BY <3>1, <3>2
    <2>7. CallersTypeOK'
      BY <1>1, <1>3 DEF CallersTypeOK, callers
    <2>8. ASSUME NEW d \in Clients
          PROVE  CallerInv(d)'
      <3>1. RowSame(d) /\ pc[d] = "idle" /\ CallerInv(d)
        BY <1>1, <1>3 DEF CallersInv, RowSame, callers
      <3> QED BY <1>3, <1>4, <3>1, CallerKept
    <2>9. CallersInv'
      BY <1>1, <1>3, <2>1, <2>8 DEF CallersInv
    <2> QED BY <1>3, <1>4, <2>3, <2>4, <2>5, <2>6, <2>7, <2>9, CallersArePrimed DEF StoreInv
  <1>6. CASE OpenRefused
    <2>1. UNCHANGED <<phase, isInitial, tree, seqNo, seqNoFile, writeOff>>
      BY <1>6 DEF OpenRefused
    <2>2. DirectoryTypeOK'
      BY <1>1, <1>3, <2>1 DEF StoreInv, DirectoryTypeOK
    <2>3. InstanceInv'
      BY <1>1, <1>3, <2>1 DEF StoreInv, InstanceInv, SizeOfLastFile
    <2>4. EntriesSound'
      BY <1>1, <1>3, <1>4, <2>3, SoundKept DEF StoreInv
    <2>5. NumbersInv'
      BY <1>1, <1>3, <1>4, <2>1 DEF StoreInv, NumbersInv, LogSame
    <2>6. CallersTypeOK'
      BY <1>1, <1>3 DEF CallersTypeOK, callers
    <2>7. ASSUME NEW d \in Clients
          PROVE  CallerInv(d)'
      <3>1. RowSame(d) /\ pc[d] = "idle" /\ CallerInv(d)
        BY <1>1, <1>3 DEF CallersInv, RowSame, callers
      <3> QED BY <1>3, <1>4, <3>1, CallerKept
    <2>8. CallersInv'
      BY <1>1, <1>3, <2>1, <2>7 DEF CallersInv, callers
    <2> QED BY <1>3, <1>4, <2>2, <2>3, <2>4, <2>5, <2>6, <2>8, CallersArePrimed DEF StoreInv
  <1> QED BY <1>5, <1>6

-----------------------------------------------------------------------------
\* The first invariant

LEMMA InitSound ==
    ASSUME Init
    PROVE  SoundInv
  <1>1. /\ files = [f \in FileIds |-> <<>>] /\ lastFile = NoFile /\ phase = "closed"
        /\ diskTree = NoEntries /\ tree = NoEntries /\ mu = NoClient /\ linked
        /\ seqNo = 0 /\ seqNoFile = NoSeqNo /\ ~redirected /\ ~crashed
        /\ acked = [k \in Keys |-> NoAck]
    BY DEF Init
  <1>2. files \in [FileIds -> Seq(Records)]
    BY <1>1
  <1>3. NoEntries \in [Keys -> Positions] /\ NoAck \in [pos : Positions, val : Writes]
    BY PositionIs DEF NoEntries, NoAck, Writes
  <1>4. DirectoryTypeOK
    BY <1>1, <1>2, <1>3 DEF DirectoryTypeOK
  <1>5. InstanceInv
    BY <1>1 DEF InstanceInv, FileIds
  <1>6. EntriesSound
    BY <1>1 DEF EntriesSound, Entries, NoEntries
  <1>7. NumbersInv
    BY <1>1 DEF NumbersInv, NoSeqNo, EmptySeqNo
  <1>8. NoWrites \in [Keys -> Writes]
    BY DEF NoWrites, Writes
  <1>9. CallersTypeOK
    BY <1>1, <1>3, <1>8 DEF Init, CallersTypeOK
  <1>10. ASSUME NEW c \in Clients
         PROVE  CallerInv(c)
    <2>1. pc[c] = "idle" /\ pending[c] = NoWrites /\ mu # c
      BY TreeAssumption DEF Init
    <2>2. Staged(c) = {}
      BY <2>1 DEF Staged, NoWrites
    <2> QED BY <2>1, <2>2 DEF CallerInv, DirectLock, BatchLock, FinishOf, WrittenOf, Written
  <1>11. CallersInv
    BY <1>1, <1>10 DEF Init, CallersInv
  <1> QED BY <1>4, <1>5, <1>6, <1>7, <1>9, <1>11, CallersAre DEF StoreInv

\* Once files have been moved in, that stays so.
LEMMA ReplacedKept ==
    ASSUME [Next]_vars, ~replaced'
    PROVE  ~replaced
  <1>1. CASE \E c \in DirectClients : DirectStep(c)
    BY <1>1 DEF DirectStep, Put, Delete, DirectAppend, DirectIndex, AppendLogRecord,
                UpdateTree, history
  <1>2. CASE \E c \in BatchClients : BatchStep(c)
    BY <1>2 DEF BatchStep, WBPut, WBDelete, CommitStart, CommitAppend, CommitFinish,
                CommitIndex, CommitEnd, AppendLogRecord, UpdateTree, history
  <1>3. CASE Merge \/ ProcessExit \/ UNCHANGED vars
    BY <1>3 DEF Merge, ProcessExit, vars, history
  <1>4. CASE Close \/ CrashInClose \/ ProcessCrash
    BY <1>4 DEF Close, CrashInClose, ProcessCrash, Stop
  <1>5. CASE OpenDB \/ OpenRefused
    BY <1>5 DEF OpenDB, OpenRefused, OpenTree
  <1> QED BY <1>1, <1>2, <1>3, <1>4, <1>5 DEF Next

LEMMA DirectStepSound ==
    ASSUME SoundInv, ~replaced, NEW c \in DirectClients, DirectStep(c)
    PROVE  SoundInv'
  <1>1. CASE Put(c)
    BY <1>1, DirectAppendSound DEF Put
  <1>2. CASE Delete(c)
    BY <1>2, DirectAppendSound DEF Delete
  <1>3. CASE DirectIndex(c)
    BY <1>3, DirectIndexSound
  <1> QED BY <1>1, <1>2, <1>3 DEF DirectStep

LEMMA NextSound ==
    ASSUME ~replaced => SoundInv, [Next]_vars, ~replaced'
    PROVE  SoundInv'
  <1>1. ~replaced /\ SoundInv
    BY ReplacedKept
  <1>2. CASE \E c \in DirectClients : DirectStep(c)
    BY <1>1, <1>2, DirectStepSound
  <1>3. CASE \E c \in BatchClients : BatchStep(c)
    BY <1>1, <1>3, WBPutSound, WBDeleteSound, CommitStartSound, CommitAppendSound,
       CommitFinishSound, CommitIndexSound, CommitEndSound DEF BatchStep
  <1>4. CASE Merge
    BY <1>1, <1>4, MergeSound
  <1>5. CASE Close \/ CrashInClose \/ ProcessCrash
    BY <1>1, <1>5, CloseSound
  <1>6. CASE ProcessExit \/ UNCHANGED vars
    BY <1>1, <1>6, ExitSound
  <1>7. CASE OpenDB \/ OpenRefused
    BY <1>1, <1>7, OpenSound
  <1> QED BY <1>2, <1>3, <1>4, <1>5, <1>6, <1>7 DEF Next

LEMMA AlwaysSound == Spec => [](~replaced => SoundInv)
  <1>1. Init => (~replaced => SoundInv)
    BY InitSound
  <1>2. (~replaced => SoundInv) /\ [Next]_vars => (~replaced => SoundInv)'
    BY NextSound
  <1> QED BY <1>1, <1>2, PTL DEF Spec

\* An entry of the tree leads to a record that exists, holds a value of that
\* key and is no part of an unfinished batch, whoever writes and however the
\* instances end (bptree.go, db.go:106-138).
THEOREM EntriesAlwaysSound == Spec => []EntriesSound
  <1>1. (~replaced => SoundInv) => EntriesSound
    BY DEF SoundInv, EntriesSound
  <1> QED BY <1>1, AlwaysSound, PTL

\* While every instance ends with Close no number is given twice (db.go:162-177
\* and 605-627).
THEOREM NumbersAlwaysFresh == Spec => NumbersFresh
  <1>1. ASSUME ~replaced => SoundInv, [Next]_vars, ~crashed, ~replaced, ~Locked, Locked',
               NEW p \in LogPositions
        PROVE  RecAt(p).seq # seqNo'
    <2>1. /\ SoundInv /\ phase \in {"closed", "open"} /\ seqNo \in Nat
          /\ mu = NoClient /\ mu' # NoClient
      BY <1>1 DEF SoundInv, InstanceInv, Locked
    <2>2. PICK c \in BatchClients : CommitStart(c)
      <3>1. CASE \E c \in DirectClients : DirectStep(c)
        BY <2>1, <3>1 DEF DirectStep, Put, Delete, DirectAppend, DirectIndex
      <3>2. CASE \E c \in BatchClients : WBPut(c) \/ WBDelete(c) \/ CommitAppend(c)
                                         \/ CommitFinish(c) \/ CommitIndex(c) \/ CommitEnd(c)
        BY <2>1, <3>2 DEF WBPut, WBDelete, CommitAppend, CommitFinish, CommitIndex, CommitEnd
      <3>3. CASE Merge \/ ProcessExit \/ UNCHANGED vars
        BY <2>1, <3>3 DEF Merge, ProcessExit, vars
      <3>4. CASE Close \/ CrashInClose \/ ProcessCrash
        BY <2>1, <3>4 DEF Close, CrashInClose, ProcessCrash, Stop
      <3>5. CASE OpenDB \/ OpenRefused
        BY <2>1, <3>5 DEF OpenDB, OpenRefused, OpenTree
      <3> QED BY <1>1, <3>1, <3>2, <3>3, <3>4, <3>5 DEF Next, BatchStep
    <2>3. phase = "open" /\ seqNo' = seqNo + 1
      BY <2>2 DEF CommitStart, Calm
    <2>4. RecAt(p).seq =< seqNo /\ RecAt(p).seq \in Nat
      BY <1>1, <2>1, <2>3, LogEntry DEF SoundInv, NumbersInv
    <2> QED BY <2>1, <2>3, <2>4
  <1>2. (~replaced => SoundInv) /\ [Next]_vars =>
            [(~crashed /\ ~replaced /\ ~Locked /\ Locked') =>
                \A p \in LogPositions : RecAt(p).seq # seqNo']_vars
    BY <1>1
  <1> QED BY <1>2, AlwaysSound, PTL DEF Spec, NumbersFresh

-----------------------------------------------------------------------------
\* What the tree shows

ShowsBy(k, p, e) ==
    \/ e = p \/ Before(p, e)
    \/ /\ e = NoPos
       /\ \E q \in LogPositions :
             (q = p \/ Before(p, q)) /\ RecAt(q).key = k /\ RecAt(q).val = Tombstone

LEMMA ShowsIs ==
    /\ InstanceInv => \A k, p : Shows(k, p) <=> ShowsBy(k, p, diskTree[k])
    /\ InstanceInv' => \A k, p : Shows(k, p)' <=> ShowsBy(k, p, diskTree[k])'
  BY EntriesDisk DEF Shows, ShowsBy

\* What is shown stays so while the entry does.
LEMMA ShowsKept ==
    ASSUME LogKept, InstanceInv, InstanceInv', NEW k, diskTree'[k] = diskTree[k], NEW p,
           Shows(k, p)
    PROVE  Shows(k, p)'
  <1>1. PICK e : e = diskTree[k]
    OBVIOUS
  <1>2. ShowsBy(k, p, e)
    BY <1>1, ShowsIs
  <1>3. ShowsBy(k, p, e)'
    BY <1>2 DEF ShowsBy, LogKept
  <1> QED BY <1>1, <1>3, ShowsIs DEF ShowsBy

\* The entry of the newest record of k shows every record of k.
LEMMA NewestShows ==
    ASSUME LogKept, InstanceInv', NEW k, NEW pos \in LogPositions, NEW p,
           p = pos \/ Before(p, pos),
           RecAt(pos).key = k, diskTree'[k] = IF RecAt(pos).val = Tombstone THEN NoPos ELSE pos
    PROVE  Shows(k, p)'
  <1>1. pos \in LogPositions' /\ RecAt(pos)' = RecAt(pos)
    BY DEF LogKept
  <1>2. ShowsBy(k, p, diskTree[k])'
    BY <1>1 DEF ShowsBy
  <1> QED BY <1>2, ShowsIs

-----------------------------------------------------------------------------
\* Steps that leave the log, the tree and what is acknowledged alone

\* A caller that takes no step, and whose keys stay as they are.
Waits(d) == RowSame(d) /\ (UNCHANGED todo \/ pc[d] # "append")

LEMMA WrittenWaits ==
    ASSUME NEW d, Waits(d), NEW k
    PROVE  Written(d, k)' <=> Written(d, k)
  BY DEF Waits, RowSame, Written

LEMMA NewestKept ==
    ASSUME LogSame, NEW d \in Clients, NewestOf(d), Waits(d) \/ pc'[d] = "idle"
    PROVE  NewestOf(d)'
  <1>1. CASE pc'[d] = "idle"
    BY <1>1 DEF NewestOf, Written
  <1>2. CASE Waits(d)
    <2>1. \A k \in Keys : Written(d, k)' <=> Written(d, k)
      BY <1>2, WrittenWaits
    <2> QED BY <1>2, <2>1 DEF NewestOf, Waits, RowSame, LogSame
  <1> QED BY <1>1, <1>2

LEMMA RunningKept ==
    ASSUME SoundInv', VisibleInv, LogSame,
           \A d \in Clients : Waits(d) \/ pc'[d] = "idle",
           UNCHANGED <<mu, seqNo>> \/ mu' = NoClient,
           ~crashed' => ~crashed
    PROVE  RunningInv'
  <1>1. ASSUME ~crashed', NEW c \in BatchClients, mu' = c, NEW p \in LogPositions',
               RecAt(p)'.seq = seqNo', RecAt(p)'.key \in Keys
        PROVE  Written(c, RecAt(p).key)' /\ positions'[c][RecAt(p)'.key] = p
    <2>1. c \in Clients /\ c # NoClient
      BY TreeAssumption DEF Clients
    <2>2. mu = c /\ seqNo' = seqNo /\ ~crashed
      BY <1>1, <2>1
    <2>3. pc'[c] # "idle"
      BY <1>1 DEF SoundInv, LockInv, BatchLock
    <2>4. Waits(c)
      BY <2>1, <2>3
    <2>5. p \in LogPositions /\ RecAt(p)' = RecAt(p)
      BY <1>1 DEF LogSame
    <2>6. PICK k \in Keys : k = RecAt(p).key
      BY <1>1, <2>5
    <2>7. Written(c, k) /\ positions[c][k] = p
      BY <1>1, <2>2, <2>5, <2>6 DEF VisibleInv, RunningInv
    <2>8. Written(c, k)' /\ positions'[c][k] = p
      BY <2>4, <2>7, WrittenWaits DEF Waits, RowSame
    <2> QED BY <2>5, <2>6, <2>8 DEF Written
  <1> QED BY <1>1 DEF RunningInv

LEMMA VisibleSame ==
    ASSUME SoundInv, SoundInv', VisibleInv, LogSame, UNCHANGED <<diskTree, acked>>,
           \A d \in Clients : (RowSame(d) /\ UNCHANGED todo) \/ pc'[d] = "idle",
           UNCHANGED <<mu, seqNo>> \/ mu' = NoClient,
           ~crashed' => ~crashed /\ (Locked' <=> Locked)
    PROVE  VisibleInv'
  <1>1. InstanceInv /\ InstanceInv' /\ LogKept
    BY DEF SoundInv, LogSame, LogKept
  <1>2. NewestInv'
    BY NewestKept DEF VisibleInv, NewestInv, Waits
  <1>3. AppliedInv'
    <2>1. ASSUME NEW c \in BatchClients, pc'[c] = "apply", NEW k \in (Staged(c) \ todo)'
          PROVE  diskTree'[k] = EntryOf(c, k)'
      <3>1. RowSame(c) /\ UNCHANGED todo
        BY <2>1 DEF Clients
      <3>2. pc[c] = "apply" /\ k \in Staged(c) \ todo /\ EntryOf(c, k)' = EntryOf(c, k)
        BY <2>1, <3>1 DEF RowSame, Staged, EntryOf
      <3> QED BY <3>2 DEF VisibleInv, AppliedInv
    <2> QED BY <2>1 DEF AppliedInv
  <1>4. AckedInv'
    <2>1. ASSUME NEW k \in Keys, acked[k] # NoAck
          PROVE  acked[k].pos \in LogPositions' /\ RecAt(acked[k].pos)'.key = k
                 /\ Shows(k, acked[k].pos)'
      <3>1. PICK p : p = acked[k].pos /\ p = acked'[k].pos
        OBVIOUS
      <3>2. p \in LogPositions /\ RecAt(p).key = k /\ Shows(k, p)
        BY <2>1, <3>1 DEF VisibleInv, AckedInv
      <3>3. p \in LogPositions' /\ RecAt(p)' = RecAt(p) /\ Shows(k, p)'
        BY <1>1, <3>2, ShowsKept DEF LogKept
      <3> QED BY <3>1, <3>2, <3>3 DEF RecAt, Shows
    <2> QED BY <2>1 DEF AckedInv
  <1>5. RunningInv'
    BY RunningKept DEF Waits
  <1>6. ShownInv'
    <2>1. ASSUME ~crashed', NEW p \in LogPositions',
                 RecAt(p)'.seq # 0, RecAt(p)'.key \in Keys, Locked' => RecAt(p)'.seq # seqNo'
          PROVE  Shows(RecAt(p).key, p)'
      <3>1. p \in LogPositions /\ RecAt(p)' = RecAt(p)
        BY <2>1 DEF LogSame
      <3>2. Locked => RecAt(p).seq # seqNo
        BY <2>1, <3>1 DEF Locked
      <3>3. PICK k \in Keys : k = RecAt(p).key
        BY <2>1, <3>1
      <3>4. Shows(k, p)
        BY <2>1, <3>1, <3>2, <3>3 DEF VisibleInv, ShownInv
      <3>5. Shows(k, p)'
        BY <1>1, <3>4, ShowsKept
      <3> QED BY <3>1, <3>3, <3>5 DEF Shows
    <2> QED BY <2>1 DEF ShownInv
  <1> QED BY <1>2, <1>3, <1>4, <1>5, <1>6 DEF VisibleInv

-----------------------------------------------------------------------------
\* Steps that append a record

\* What is written is a key of the writer's.
LEMMA WrittenKey ==
    ASSUME SoundInv, NEW d \in Clients, NEW k \in Keys, Written(d, k)
    PROVE  /\ k \in KeysOf[d] /\ k \in Staged(d)
           /\ positions[d][k] \in LogPositions
           /\ RecAt(positions[d][k]) = [seq |-> Number(d), key |-> k, val |-> pending[d][k]]
  BY DEF SoundInv, LockInv, WrittenInv, WrittenOf, Written, Staged

LEMMA WrittenRecord ==
    ASSUME SoundInv, NEW d \in Clients, NEW k \in Keys, Written(d, k),
           NEW p, p = positions[d][k]
    PROVE  p \in LogPositions /\ RecAt(p).key = k /\ RecAt(p).val = pending[d][k]
  <1>1. RecAt(p) = [seq |-> Number(d), key |-> k, val |-> pending[d][k]]
    BY WrittenKey
  <1> QED BY <1>1, WrittenKey

LEMMA AppendVisible ==
    ASSUME DisjointKeys, SoundInv, SoundInv', VisibleInv, NEW c \in Clients, NEW pos, NEW rec,
           LogGrown(pos, rec), UNCHANGED <<diskTree, acked, mu, seqNo, crashed>>,
           \A d \in Clients \ {c} : Waits(d),
           rec.key \in KeysOf[c] \cup {TxnFinKey},
           rec.seq = 0 \/ rec.key = TxnFinKey \/ (Locked /\ rec.seq = seqNo),
           \A d \in BatchClients : pc'[d] = "apply" => Staged(d)' \subseteq todo',
           NewestOf(c)', RunningInv'
    PROVE  VisibleInv'
  <1>1. InstanceInv /\ InstanceInv' /\ LogKept
    BY GrownKept DEF SoundInv
  <1>2. /\ LogPositions' = LogPositions \cup {pos} /\ RecAt(pos)' = rec
        /\ \A p \in LogPositions : RecAt(p)' = RecAt(p)
    BY DEF LogGrown
  <1>3. ASSUME NEW d \in Clients, d # c
        PROVE  NewestOf(d)'
    <2>1. ASSUME NEW k \in Keys, Written(d, k)', NEW p \in LogPositions', RecAt(p)'.key = k
          PROVE  p = positions'[d][k] \/ Before(p, positions'[d][k])
      <3>1. Written(d, k) /\ positions'[d] = positions[d]
        BY <1>3, <2>1, WrittenWaits DEF Waits, RowSame
      <3>2. k \in KeysOf[d]
        BY <3>1, WrittenKey
      <3>3. rec.key # k
        BY <1>3, <2>1, <3>2, TreeAssumption DEF DisjointKeys
      <3>4. p \in LogPositions /\ RecAt(p).key = k
        BY <1>2, <2>1, <3>3
      <3> QED BY <2>1, <3>1, <3>4 DEF VisibleInv, NewestInv, NewestOf
    <2> QED BY <2>1 DEF NewestOf
  <1>4. NewestInv'
    BY <1>3 DEF NewestInv
  <1>5. AppliedInv'
    BY DEF AppliedInv
  <1>6. AckedInv'
    <2>1. ASSUME NEW k \in Keys, acked[k] # NoAck
          PROVE  acked[k].pos \in LogPositions' /\ RecAt(acked[k].pos)'.key = k
                 /\ Shows(k, acked[k].pos)'
      <3>1. PICK p : p = acked[k].pos /\ p = acked'[k].pos
        OBVIOUS
      <3>2. p \in LogPositions /\ RecAt(p).key = k /\ Shows(k, p)
        BY <2>1, <3>1 DEF VisibleInv, AckedInv
      <3>3. p \in LogPositions' /\ RecAt(p)' = RecAt(p) /\ Shows(k, p)'
        BY <1>1, <3>2, ShowsKept DEF LogKept
      <3> QED BY <3>1, <3>2, <3>3 DEF RecAt, Shows
    <2> QED BY <2>1 DEF AckedInv
  <1>7. ShownInv'
    <2>1. ASSUME ~crashed', NEW p \in LogPositions',
                 RecAt(p)'.seq # 0, RecAt(p)'.key \in Keys, Locked' => RecAt(p)'.seq # seqNo'
          PROVE  Shows(RecAt(p).key, p)'
      <3>1. p # pos
        BY <1>2, <2>1, TreeAssumption DEF Locked
      <3>2. p \in LogPositions /\ RecAt(p)' = RecAt(p)
        BY <1>2, <2>1, <3>1
      <3>3. Locked => RecAt(p).seq # seqNo
        BY <2>1, <3>2 DEF Locked
      <3>4. PICK k \in Keys : k = RecAt(p).key
        BY <2>1, <3>2
      <3>5. Shows(k, p)
        BY <2>1, <3>2, <3>3, <3>4 DEF VisibleInv, ShownInv
      <3>6. Shows(k, p)'
        BY <1>1, <3>5, ShowsKept
      <3> QED BY <3>2, <3>4, <3>6 DEF Shows
    <2> QED BY <2>1 DEF ShownInv
  <1> QED BY <1>4, <1>5, <1>6, <1>7 DEF VisibleInv

LEMMA DirectAppendVisible ==
    ASSUME DisjointKeys, SoundInv, SoundInv', VisibleInv, NEW c \in DirectClients,
           NEW k \in KeysOf[c], NEW v \in Values \cup {Tombstone}, DirectAppend(c, k, v)
    PROVE  VisibleInv'
  <1>1. StoreInv /\ CallersTypeOK /\ CallersInv
    BY CallersAre
  <1>2. c \in Clients /\ k \in Keys /\ c \notin BatchClients
    BY TreeAssumption DEF Clients
  <1>3. PICK rec : rec = [seq |-> 0, key |-> k, val |-> v]
    OBVIOUS
  <1>4. PICK pos : pos = AppendPos
    OBVIOUS
  <1>5. /\ phase = "open" /\ pc[c] = "idle" /\ ~Locked /\ AppendLogRecord(rec)
        /\ pc' = [pc EXCEPT ![c] = "index"]
        /\ pending' = [pending EXCEPT ![c][k] = v]
        /\ positions' = [positions EXCEPT ![c][k] = pos]
        /\ UNCHANGED <<seqNo, mu, todo>>
    BY <1>3, <1>4 DEF DirectAppend, Calm
  <1>6. UNCHANGED <<diskTree, acked, crashed>>
    BY <1>5 DEF AppendLogRecord, history
  <1>7. rec \in Records
    BY <1>2, <1>3 DEF Records
  <1>8. LogGrown(pos, rec)
    BY <1>1, <1>4, <1>5, <1>7, LogAfterAppend DEF StoreInv
  <1>9. \A d \in Clients \ {c} : Waits(d)
    BY <1>1, <1>2, <1>5 DEF CallersTypeOK, RowSame, Waits
  <1>10. \A d \in BatchClients : pc'[d] = "idle"
    BY <1>1, <1>2, <1>5, <1>9, NoCommit DEF Waits, RowSame, Clients
  <1>11. NewestOf(c)'
    <2>1. ASSUME NEW j \in Keys, Written(c, j)', NEW p \in LogPositions', RecAt(p)'.key = j
          PROVE  p = positions'[c][j] \/ Before(p, positions'[c][j])
      <3>1. Staged(c) = {} /\ pending[c] \in [Keys -> Writes] /\ positions[c] \in [Keys -> Positions]
        BY <1>1, <1>2, <1>5 DEF CallersInv, CallerInv, DirectLock, CallersTypeOK
      <3>2. pending'[c] = [pending[c] EXCEPT ![k] = v] /\ positions'[c] = [positions[c] EXCEPT ![k] = pos]
        BY <1>1, <1>2, <1>5 DEF CallersTypeOK
      <3>3. j = k
        BY <2>1, <3>1, <3>2 DEF Written, Staged
      <3>4. positions'[c][k] = pos
        BY <1>2, <3>1, <3>2
      <3> QED BY <1>8, <2>1, <3>3, <3>4 DEF LogGrown
    <2> QED BY <2>1 DEF NewestOf
  <1>12. RunningInv'
    BY <1>5, TreeAssumption DEF RunningInv, Locked, Clients
  <1> QED BY <1>2, <1>3, <1>5, <1>6, <1>8, <1>9, <1>10, <1>11, <1>12, AppendVisible

LEMMA CommitFinishVisible ==
    ASSUME DisjointKeys, SoundInv, SoundInv', VisibleInv, NEW c \in BatchClients, CommitFinish(c)
    PROVE  VisibleInv'
  <1>1. StoreInv /\ CallersTypeOK /\ CallersInv
    BY CallersAre
  <1>2. c \in Clients /\ c \notin DirectClients
    BY TreeAssumption DEF Clients
  <1>3. PICK rec : rec = [seq |-> seqNo, key |-> TxnFinKey, val |-> Finished]
    OBVIOUS
  <1>4. PICK pos : pos = AppendPos
    OBVIOUS
  <1>5. /\ phase = "open" /\ pc[c] = "finish" /\ AppendLogRecord(rec)
        /\ pc' = [pc EXCEPT ![c] = "apply"] /\ todo' = Staged(c)
        /\ UNCHANGED <<seqNo, mu, pending, positions>>
    BY <1>3 DEF CommitFinish
  <1>6. UNCHANGED <<diskTree, acked, crashed>>
    BY <1>5 DEF AppendLogRecord, history
  <1>7. rec \in Records
    BY <1>1, <1>3 DEF Records, StoreInv, InstanceInv
  <1>8. LogGrown(pos, rec)
    BY <1>1, <1>4, <1>5, <1>7, LogAfterAppend DEF StoreInv
  <1>9. mu = c /\ \A d \in BatchClients \ {c} : pc[d] = "idle"
    BY <1>1, <1>5, OneCommit
  <1>10. \A d \in Clients \ {c} : Waits(d)
    <2>1. \A d \in Clients \ {c} : pc[d] # "append"
      BY <1>1, <1>9 DEF CallersInv, CallerInv, DirectLock, Clients
    <2> QED BY <1>1, <1>2, <1>5, <2>1 DEF CallersTypeOK, RowSame, Waits
  <1>11. \A d \in BatchClients : pc'[d] = "apply" => Staged(d)' \subseteq todo'
    <2>1. \A d \in BatchClients \ {c} : pc'[d] = "idle"
      BY <1>2, <1>9, <1>10 DEF Waits, RowSame, Clients
    <2> QED BY <1>5, <2>1 DEF Staged
  <1>12. \A j \in Keys : Written(c, j)' <=> Written(c, j)
    BY <1>1, <1>2, <1>5 DEF Written, CallersTypeOK
  <1>13. /\ \A p \in LogPositions' : p = pos \/ (p \in LogPositions /\ RecAt(p)' = RecAt(p))
         /\ RecAt(pos)' = rec /\ rec.key \notin Keys
    BY <1>3, <1>8, TreeAssumption DEF LogGrown
  <1>14. NewestOf(c)'
    BY <1>2, <1>5, <1>12, <1>13 DEF VisibleInv, NewestInv, NewestOf
  <1>15. RunningInv'
    <2>1. ASSUME ~crashed', NEW p \in LogPositions',
                 RecAt(p)'.seq = seqNo', RecAt(p)'.key \in Keys
          PROVE  Written(c, RecAt(p).key)' /\ positions'[c][RecAt(p)'.key] = p
      <3>1. p \in LogPositions /\ RecAt(p)' = RecAt(p)
        BY <1>13, <2>1
      <3>2. PICK k \in Keys : k = RecAt(p).key
        BY <2>1, <3>1
      <3>3. Written(c, k) /\ positions[c][k] = p
        BY <1>5, <1>6, <1>9, <2>1, <3>1, <3>2 DEF VisibleInv, RunningInv
      <3>4. Written(c, k)' /\ positions'[c][k] = p
        BY <1>5, <1>12, <3>3
      <3> QED BY <3>1, <3>2, <3>4 DEF Written
    <2> QED BY <1>5, <1>9, <2>1 DEF RunningInv
  <1> QED BY <1>2, <1>3, <1>5, <1>6, <1>8, <1>10, <1>11, <1>14, <1>15, AppendVisible

LEMMA CommitAppendVisible ==
    ASSUME DisjointKeys, SoundInv, SoundInv', VisibleInv, NEW c \in BatchClients, CommitAppend(c)
    PROVE  VisibleInv'
  <1>1. StoreInv /\ CallersTypeOK /\ CallersInv
    BY CallersAre
  <1>2. c \in Clients /\ c \notin DirectClients
    BY TreeAssumption DEF Clients
  <1>3. PICK k \in todo :
          /\ AppendLogRecord([seq |-> seqNo, key |-> k, val |-> pending[c][k]])
          /\ positions' = [positions EXCEPT ![c][k] = AppendPos]
          /\ todo' = IF todo = {k} /\ AfterAppends = "apply" THEN Staged(c) ELSE todo \ {k}
          /\ pc' = IF todo = {k} THEN [pc EXCEPT ![c] = AfterAppends] ELSE pc
    BY DEF CommitAppend
  <1>4. /\ phase = "open" /\ pc[c] = "append" /\ UNCHANGED <<seqNo, mu, pending>>
        /\ todo' = todo \ {k}
    BY <1>3 DEF CommitAppend, AfterAppends
  <1>5. PICK pos : pos = AppendPos
    OBVIOUS
  <1>6. PICK rec : rec = [seq |-> seqNo, key |-> k, val |-> pending[c][k]]
    OBVIOUS
  <1>7. /\ todo \subseteq Staged(c) /\ mu = c /\ Locked /\ Staged(c) \subseteq KeysOf[c]
        /\ \A d \in BatchClients \ {c} : pc[d] = "idle"
    BY <1>1, <1>2, <1>4, OneCommit DEF CallersInv, CallerInv, BatchLock
  <1>8. k \in Keys /\ pending[c][k] \in Values \cup {Tombstone} /\ pending[c][k] # NoWrite
    BY <1>1, <1>2, <1>7 DEF Staged, CallersTypeOK, Writes
  <1>9. rec \in Records
    BY <1>1, <1>6, <1>8 DEF Records, StoreInv, InstanceInv
  <1>10. LogGrown(pos, rec)
    BY <1>1, <1>3, <1>4, <1>5, <1>6, <1>9, LogAfterAppend DEF StoreInv
  <1>11. UNCHANGED <<diskTree, acked, crashed>>
    BY <1>3 DEF AppendLogRecord, history
  <1>12. /\ pc'[c] = IF todo = {k} THEN "finish" ELSE "append"
         /\ pending'[c] = pending[c]
         /\ positions'[c] = [positions[c] EXCEPT ![k] = pos]
    BY <1>1, <1>2, <1>3, <1>4, <1>5 DEF CallersTypeOK, AfterAppends
  <1>13. \A d \in Clients \ {c} : Waits(d)
    <2>1. \A d \in Clients \ {c} : pc[d] # "append"
      BY <1>1, <1>7 DEF CallersInv, CallerInv, DirectLock, Clients
    <2> QED BY <1>1, <1>2, <1>3, <1>4, <1>5, <2>1 DEF CallersTypeOK, RowSame, Waits, AfterAppends
  <1>14. \A d \in BatchClients : pc'[d] # "apply"
    BY <1>7, <1>12, <1>13 DEF Waits, RowSame, Clients
  <1>15. /\ \A j \in Keys \ {k} : /\ Written(c, j)' <=> Written(c, j)
                                  /\ positions'[c][j] = positions[c][j]
         /\ Written(c, k)' /\ ~Written(c, k) /\ positions'[c][k] = pos
    <2>1. positions[c] \in [Keys -> Positions]
      BY <1>1, <1>2 DEF CallersTypeOK
    <2> QED BY <1>4, <1>8, <1>12, <2>1 DEF Written
  <1>16. /\ \A p \in LogPositions' : p = pos \/ (p \in LogPositions /\ RecAt(p)' = RecAt(p))
         /\ \A p \in LogPositions : Before(p, pos)
         /\ RecAt(pos)' = rec /\ rec.key = k
    BY <1>6, <1>10 DEF LogGrown
  <1>17. NewestOf(c)'
    <2>1. ASSUME NEW j \in Keys, Written(c, j)', NEW p \in LogPositions', RecAt(p)'.key = j
          PROVE  p = positions'[c][j] \/ Before(p, positions'[c][j])
      <3>1. CASE j = k
        BY <1>15, <1>16, <3>1
      <3>2. CASE j # k
        BY <1>2, <1>15, <1>16, <2>1, <3>2 DEF VisibleInv, NewestInv, NewestOf
      <3> QED BY <3>1, <3>2
    <2> QED BY <2>1 DEF NewestOf
  <1>18. RunningInv'
    <2>1. ASSUME ~crashed', NEW p \in LogPositions',
                 RecAt(p)'.seq = seqNo', RecAt(p)'.key \in Keys
          PROVE  Written(c, RecAt(p).key)' /\ positions'[c][RecAt(p)'.key] = p
      <3>1. CASE p = pos
        BY <1>15, <1>16, <3>1 DEF Written
      <3>2. CASE p # pos
        <4>1. p \in LogPositions /\ RecAt(p)' = RecAt(p)
          BY <1>16, <2>1, <3>2
        <4>2. PICK j \in Keys : j = RecAt(p).key
          BY <2>1, <4>1
        <4>3. Written(c, j) /\ positions[c][j] = p
          BY <1>4, <1>7, <1>11, <2>1, <4>1, <4>2 DEF VisibleInv, RunningInv
        <4>4. Written(c, j)' /\ positions'[c][j] = p
          BY <1>15, <4>3
        <4> QED BY <4>1, <4>2, <4>4 DEF Written
      <3> QED BY <3>1, <3>2
    <2> QED BY <1>4, <1>7, <2>1 DEF RunningInv
  <1>19. rec.key \in KeysOf[c] /\ rec.seq = seqNo
    BY <1>6, <1>7
  <1> QED BY <1>2, <1>4, <1>7, <1>10, <1>11, <1>13, <1>14, <1>17, <1>18, <1>19, AppendVisible

\* The records of a new number are yet to come.
LEMMA CommitStartVisible ==
    ASSUME SoundInv, SoundInv', LogSame, VisibleInv, NEW c \in BatchClients, CommitStart(c)
    PROVE  VisibleInv'
  <1>1. StoreInv /\ CallersTypeOK /\ CallersInv
    BY CallersAre
  <1>2. c \in Clients /\ c # NoClient
    BY TreeAssumption DEF Clients
  <1>3. /\ phase = "open" /\ ~Locked /\ mu' = c /\ seqNo' = seqNo + 1 /\ todo' = Staged(c)
        /\ pc' = [pc EXCEPT ![c] = "append"]
        /\ UNCHANGED <<diskTree, pending, positions, acked, crashed>>
    BY DEF CommitStart, Calm, directory, history
  <1>4. \A d \in BatchClients : pc[d] = "idle"
    BY <1>1, <1>3, NoCommit
  <1>5. pc'[c] = "append" /\ \A d \in Clients \ {c} : Waits(d)
    <2>1. \A d \in Clients : pc[d] # "append"
      BY <1>1, <1>4 DEF CallersInv, CallerInv, DirectLock, Clients
    <2> QED BY <1>1, <1>2, <1>3, <2>1 DEF CallersTypeOK, RowSame, Waits
  <1>6. \A k \in Keys : ~Written(c, k)'
    BY <1>3, <1>5 DEF Written, Staged
  <1>7. NewestInv'
    <2>1. ASSUME NEW d \in Clients
          PROVE  NewestOf(d)'
      <3>1. CASE d = c
        BY <1>6, <3>1 DEF NewestOf
      <3>2. CASE d # c
        <4>1. NewestOf(d) /\ Waits(d)
          BY <1>5, <3>2 DEF VisibleInv, NewestInv
        <4>2. \A k \in Keys : Written(d, k)' <=> Written(d, k)
          BY <4>1, WrittenWaits
        <4> QED BY <4>1, <4>2 DEF NewestOf, LogSame, Waits, RowSame
      <3> QED BY <3>1, <3>2
    <2> QED BY <2>1 DEF NewestInv
  <1>8. AppliedInv'
    BY <1>3, <1>4, <1>5 DEF AppliedInv, Waits, RowSame, Clients
  <1>9. InstanceInv /\ InstanceInv' /\ LogKept
    BY DEF SoundInv, LogSame, LogKept
  <1>10. AckedInv'
    <2>1. ASSUME NEW k \in Keys, acked[k] # NoAck
          PROVE  acked[k].pos \in LogPositions' /\ RecAt(acked[k].pos)'.key = k
                 /\ Shows(k, acked[k].pos)'
      <3>1. PICK p : p = acked[k].pos /\ p = acked'[k].pos
        BY <1>3
      <3>2. p \in LogPositions /\ RecAt(p).key = k /\ Shows(k, p)
        BY <2>1, <3>1 DEF VisibleInv, AckedInv
      <3>3. p \in LogPositions' /\ RecAt(p)' = RecAt(p) /\ Shows(k, p)'
        BY <1>3, <1>9, <3>2, ShowsKept DEF LogKept
      <3> QED BY <3>1, <3>2, <3>3 DEF RecAt, Shows
    <2> QED BY <1>3, <2>1 DEF AckedInv
  <1>11. RunningInv'
    <2>1. ASSUME ~crashed, NEW p \in LogPositions
          PROVE  RecAt(p).seq # seqNo'
      <3>1. RecAt(p).seq =< seqNo /\ RecAt(p).seq \in Nat /\ seqNo \in Nat
        BY <1>1, <1>3, <2>1, LogEntry DEF StoreInv, NumbersInv, InstanceInv
      <3> QED BY <1>3, <3>1
    <2> QED BY <1>3, <2>1 DEF RunningInv, LogSame
  <1>12. ShownInv'
    <2>1. ASSUME ~crashed', NEW p \in LogPositions',
                 RecAt(p)'.seq # 0, RecAt(p)'.key \in Keys
          PROVE  Shows(RecAt(p).key, p)'
      <3>1. p \in LogPositions /\ RecAt(p)' = RecAt(p)
        BY <2>1 DEF LogSame
      <3>2. PICK k \in Keys : k = RecAt(p).key
        BY <2>1, <3>1
      <3>3. Shows(k, p)
        BY <1>3, <2>1, <3>1, <3>2 DEF VisibleInv, ShownInv
      <3>4. Shows(k, p)'
        BY <1>3, <1>9, <3>3, ShowsKept
      <3> QED BY <3>1, <3>2, <3>4 DEF Shows
    <2> QED BY <2>1 DEF ShownInv
  <1> QED BY <1>7, <1>8, <1>10, <1>11, <1>12 DEF VisibleInv

-----------------------------------------------------------------------------
\* Steps that change an entry, and the end of a Commit

\* Every record of k is shown by the entry made of its newest one; the other
\* keys are shown as they were.
LEMMA UpdateShows ==
    ASSUME SoundInv, SoundInv', VisibleInv, LogSame, NEW c \in Clients, NEW k \in Keys,
           Written(c, k), diskTree' = [diskTree EXCEPT ![k] = EntryOf(c, k)]
    PROVE  \A j \in Keys, p \in LogPositions :
              RecAt(p).key = j /\ (j = k \/ Shows(j, p)) => Shows(j, p)'
  <1>1. InstanceInv /\ InstanceInv' /\ LogKept /\ diskTree \in [Keys -> Positions]
    BY DEF SoundInv, DirectoryTypeOK, LogSame, LogKept
  <1>2. PICK pos : pos = positions[c][k]
    OBVIOUS
  <1>3. pos \in LogPositions /\ RecAt(pos).key = k /\ RecAt(pos).val = pending[c][k]
    BY <1>2, WrittenRecord
  <1>4. ASSUME NEW p \in LogPositions, RecAt(p).key = k
        PROVE  Shows(k, p)'
    <2>1. p = pos \/ Before(p, pos)
      BY <1>2, <1>4 DEF VisibleInv, NewestInv, NewestOf
    <2>2. diskTree'[k] = IF RecAt(pos).val = Tombstone THEN NoPos ELSE pos
      BY <1>1, <1>2, <1>3 DEF EntryOf
    <2> QED BY <1>1, <1>3, <2>1, <2>2, NewestShows
  <1>5. ASSUME NEW j \in Keys, j # k, NEW p \in LogPositions, Shows(j, p)
        PROVE  Shows(j, p)'
    <2>1. diskTree'[j] = diskTree[j]
      BY <1>1, <1>5
    <2> QED BY <1>1, <1>5, <2>1, ShowsKept
  <1> QED BY <1>4, <1>5

LEMMA ShownAfterUpdate ==
    ASSUME SoundInv, SoundInv', VisibleInv, LogSame, NEW c \in Clients, NEW k \in Keys,
           Written(c, k), diskTree' = [diskTree EXCEPT ![k] = EntryOf(c, k)],
           UNCHANGED <<mu, seqNo, crashed>>
    PROVE  ShownInv'
  <1>1. ASSUME ~crashed', NEW p \in LogPositions',
               RecAt(p)'.seq # 0, RecAt(p)'.key \in Keys, Locked' => RecAt(p)'.seq # seqNo'
        PROVE  Shows(RecAt(p).key, p)'
    <2>1. p \in LogPositions /\ RecAt(p)' = RecAt(p)
      BY <1>1 DEF LogSame
    <2>2. Locked => RecAt(p).seq # seqNo
      BY <1>1, <2>1 DEF Locked
    <2>3. PICK j \in Keys : j = RecAt(p).key
      BY <1>1, <2>1
    <2>4. Shows(j, p)
      BY <1>1, <2>1, <2>2, <2>3 DEF VisibleInv, ShownInv
    <2>5. Shows(j, p)'
      BY <2>1, <2>3, <2>4, UpdateShows
    <2> QED BY <2>1, <2>3, <2>5 DEF Shows
  <1> QED BY <1>1 DEF ShownInv

\* An acknowledged write that is shown after the step.
AckedWell(k) == acked[k] # NoAck =>
    /\ acked[k].pos \in LogPositions /\ RecAt(acked[k].pos).key = k
    /\ Shows(k, acked[k].pos)

LEMMA AckedSame ==
    ASSUME VisibleInv, LogSame, NEW k \in Keys, acked'[k] = acked[k],
           \A p \in LogPositions : RecAt(p).key = k /\ Shows(k, p) => Shows(k, p)'
    PROVE  AckedWell(k)'
  <1> SUFFICES ASSUME acked'[k] # NoAck
               PROVE  /\ acked'[k].pos \in LogPositions' /\ RecAt(acked[k].pos)'.key = k
                      /\ Shows(k, acked[k].pos)'
    BY DEF AckedWell
  <1>1. PICK p : p = acked[k].pos /\ p = acked'[k].pos
    OBVIOUS
  <1>2. p \in LogPositions /\ RecAt(p).key = k /\ Shows(k, p)
    BY <1>1 DEF VisibleInv, AckedInv
  <1>3. p \in LogPositions' /\ RecAt(p)' = RecAt(p) /\ Shows(k, p)'
    BY <1>2 DEF LogSame
  <1> QED BY <1>1, <1>2, <1>3 DEF RecAt, Shows

LEMMA AckedNow ==
    ASSUME LogSame, NEW c \in Clients, NEW k \in Keys, NEW pos \in LogPositions,
           RecAt(pos).key = k, acked'[k].pos = pos, Shows(k, pos)'
    PROVE  AckedWell(k)'
  <1>1. pos \in LogPositions' /\ RecAt(pos)' = RecAt(pos)
    BY DEF LogSame
  <1> QED BY <1>1 DEF AckedWell, RecAt, Shows

LEMMA DirectIndexVisible ==
    ASSUME DisjointKeys, SoundInv, SoundInv', LogSame, VisibleInv, NEW c \in DirectClients,
           DirectIndex(c)
    PROVE  VisibleInv'
  <1>1. StoreInv /\ CallersTypeOK /\ CallersInv
    BY CallersAre
  <1>2. c \in Clients /\ c \notin BatchClients
    BY TreeAssumption DEF Clients
  <1>3. /\ phase = "open" /\ pc[c] = "index" /\ Acks(c, Staged(c)) /\ Forget(c)
        /\ UNCHANGED <<mu, todo>>
    BY DEF DirectIndex
  <1>4. PICK k \in Staged(c) : UpdateTree(k, pending[c][k], positions[c][k])
    BY DEF DirectIndex
  <1>5. k \in Keys /\ Written(c, k) /\ Staged(c) = {k}
    BY <1>1, <1>2, <1>3 DEF Staged, Written, CallersInv, CallerInv, DirectLock
  <1>6. /\ diskTree' = [diskTree EXCEPT ![k] = EntryOf(c, k)]
        /\ UNCHANGED <<seqNo, crashed>>
    BY <1>1, <1>3, <1>4 DEF UpdateTree, EntryOf, StoreInv, InstanceInv
  <1>7. pc'[c] = "idle" /\ \A d \in Clients \ {c} : RowSame(d) /\ Waits(d)
    BY <1>1, <1>2, <1>3 DEF Forget, CallersTypeOK, RowSame, Waits
  <1>8. NewestInv'
    BY <1>7, NewestKept DEF VisibleInv, NewestInv
  <1>9. AppliedInv'
    <2>1. ASSUME NEW d \in BatchClients, pc'[d] = "apply", NEW j \in (Staged(d) \ todo)'
          PROVE  diskTree'[j] = EntryOf(d, j)'
      <3>1. RowSame(d) /\ d \in Clients /\ d # c
        BY <1>2, <1>7 DEF Clients
      <3>2. pc[d] = "apply" /\ j \in Staged(d) \ todo /\ EntryOf(d, j)' = EntryOf(d, j)
        BY <1>3, <2>1, <3>1 DEF RowSame, Staged, EntryOf
      <3>3. j \in KeysOf[d] /\ k \in KeysOf[c]
        BY <1>1, <1>2, <3>1, <3>2 DEF CallersInv, CallerInv
      <3>4. j # k /\ j \in Keys
        BY <1>2, <3>1, <3>2, <3>3 DEF DisjointKeys, Staged
      <3>5. diskTree'[j] = diskTree[j]
        BY <1>1, <1>6, <3>4 DEF StoreInv, DirectoryTypeOK
      <3> QED BY <3>2, <3>5 DEF VisibleInv, AppliedInv
    <2> QED BY <2>1 DEF AppliedInv
  <1>10. AckedInv'
    <2>1. AckedWell(k)'
      <3>1. PICK pos : pos = positions[c][k]
        OBVIOUS
      <3>2. pos \in LogPositions /\ RecAt(pos).key = k
        BY <1>2, <1>5, <3>1, WrittenRecord
      <3>3. acked'[k].pos = pos
        BY <1>3, <1>5, <3>1 DEF Acks
      <3>4. Shows(k, pos)'
        BY <1>2, <1>5, <1>6, <3>2, UpdateShows
      <3> QED BY <1>2, <1>5, <3>2, <3>3, <3>4, AckedNow
    <2>2. ASSUME NEW j \in Keys, j # k
          PROVE  AckedWell(j)'
      <3>1. acked'[j] = acked[j]
        BY <1>3, <1>5, <2>2 DEF Acks
      <3>2. \A p \in LogPositions : RecAt(p).key = j /\ Shows(j, p) => Shows(j, p)'
        BY <1>2, <1>5, <1>6, UpdateShows
      <3> QED BY <3>1, <3>2, AckedSame
    <2> QED BY <2>1, <2>2 DEF AckedInv, AckedWell
  <1>11. RunningInv'
    BY <1>3, <1>6, <1>7, RunningKept
  <1>12. ShownInv'
    BY <1>2, <1>3, <1>5, <1>6, ShownAfterUpdate
  <1> QED BY <1>8, <1>9, <1>10, <1>11, <1>12 DEF VisibleInv

LEMMA CommitIndexVisible ==
    ASSUME SoundInv, SoundInv', LogSame, VisibleInv, NEW c \in BatchClients, CommitIndex(c)
    PROVE  VisibleInv'
  <1>1. StoreInv /\ CallersTypeOK /\ CallersInv
    BY CallersAre
  <1>2. c \in Clients /\ c \notin DirectClients
    BY TreeAssumption DEF Clients
  <1>3. /\ phase = "open" /\ pc[c] = "apply"
        /\ UNCHANGED <<mu, pc, pending, positions, acked>>
    BY DEF CommitIndex
  <1>4. PICK k \in todo : /\ UpdateTree(k, pending[c][k], positions[c][k])
                          /\ todo' = todo \ {k}
    BY DEF CommitIndex
  <1>5. todo \subseteq Staged(c) /\ \A d \in BatchClients \ {c} : pc[d] = "idle"
    BY <1>1, <1>2, <1>3, OneCommit DEF CallersInv, CallerInv, BatchLock
  <1>6. k \in Keys /\ Written(c, k)
    BY <1>1, <1>2, <1>3, <1>5 DEF Staged, Written
  <1>7. /\ diskTree' = [diskTree EXCEPT ![k] = EntryOf(c, k)]
        /\ UNCHANGED <<seqNo, crashed>>
    BY <1>1, <1>3, <1>4 DEF UpdateTree, EntryOf, StoreInv, InstanceInv
  <1>8. \A d \in Clients : Waits(d)
    <2>1. \A d \in Clients : pc[d] # "append"
      BY <1>1, <1>3, <1>5 DEF CallersInv, CallerInv, DirectLock, Clients
    <2> QED BY <1>3, <2>1 DEF Waits, RowSame
  <1>9. NewestInv'
    BY <1>8, NewestKept DEF VisibleInv, NewestInv
  <1>10. AppliedInv'
    <2>1. ASSUME NEW d \in BatchClients, pc'[d] = "apply", NEW j \in (Staged(d) \ todo)'
          PROVE  diskTree'[j] = EntryOf(d, j)'
      <3>1. d = c
        BY <1>3, <1>5, <2>1
      <3>2. EntryOf(c, j)' = EntryOf(c, j) /\ j \in Staged(c) /\ j \in Keys /\ j \notin todo'
        BY <1>3, <2>1, <3>1 DEF EntryOf, Staged
      <3>3. CASE j = k
        BY <1>1, <1>7, <3>1, <3>2, <3>3 DEF StoreInv, DirectoryTypeOK
      <3>4. CASE j # k
        <4>1. diskTree'[j] = diskTree[j]
          BY <1>1, <1>7, <3>2, <3>4 DEF StoreInv, DirectoryTypeOK
        <4>2. j \in Staged(c) \ todo
          BY <1>4, <3>2, <3>4
        <4> QED BY <1>3, <3>1, <3>2, <4>1, <4>2 DEF VisibleInv, AppliedInv
      <3> QED BY <3>3, <3>4
    <2> QED BY <2>1 DEF AppliedInv
  <1>11. AckedInv'
    <2>1. ASSUME NEW j \in Keys
          PROVE  AckedWell(j)'
      <3>1. \A p \in LogPositions : RecAt(p).key = j /\ Shows(j, p) => Shows(j, p)'
        BY <1>2, <1>6, <1>7, UpdateShows
      <3> QED BY <1>3, <3>1, AckedSame
    <2> QED BY <2>1 DEF AckedInv, AckedWell
  <1>12. RunningInv'
    BY <1>3, <1>7, <1>8, RunningKept
  <1>13. ShownInv'
    BY <1>2, <1>3, <1>6, <1>7, ShownAfterUpdate
  <1> QED BY <1>9, <1>10, <1>11, <1>12, <1>13 DEF VisibleInv

\* When every key has been visited the tree shows the whole batch.
LEMMA CommitEndVisible ==
    ASSUME SoundInv, SoundInv', LogSame, VisibleInv, NEW c \in BatchClients, CommitEnd(c)
    PROVE  VisibleInv'
  <1>1. StoreInv /\ CallersTypeOK /\ CallersInv
    BY CallersAre
  <1>2. c \in Clients /\ c \notin DirectClients
    BY TreeAssumption DEF Clients
  <1>3. /\ phase = "open" /\ pc[c] = "apply" /\ todo = {} /\ mu' = NoClient
        /\ Acks(c, Staged(c)) /\ Forget(c)
        /\ UNCHANGED <<diskTree, seqNo, todo, crashed>>
    BY DEF CommitEnd, directory, instance
  <1>4. pc'[c] = "idle" /\ \A d \in Clients \ {c} : RowSame(d) /\ Waits(d)
    BY <1>1, <1>2, <1>3 DEF Forget, CallersTypeOK, RowSame, Waits
  <1>5. mu = c /\ \A d \in BatchClients \ {c} : pc[d] = "idle"
    BY <1>1, <1>3, OneCommit
  <1>6. InstanceInv /\ InstanceInv' /\ LogKept
    BY DEF SoundInv, LogSame, LogKept
  <1>7. ASSUME NEW k \in Keys, NEW p, Written(c, k), p = positions[c][k]
        PROVE  p \in LogPositions /\ RecAt(p).key = k /\ Shows(k, p)'
    <2>1. p \in LogPositions /\ RecAt(p).key = k /\ RecAt(p).val = pending[c][k]
      BY <1>2, <1>7, WrittenRecord
    <2>2. k \in Staged(c) \ todo
      BY <1>3, <1>7 DEF Written, Staged
    <2>3. diskTree[k] = EntryOf(c, k)
      BY <1>3, <2>2 DEF VisibleInv, AppliedInv
    <2>4. diskTree'[k] = IF RecAt(p).val = Tombstone THEN NoPos ELSE p
      BY <1>3, <1>7, <2>1, <2>3 DEF EntryOf
    <2> QED BY <1>6, <2>1, <2>4, NewestShows
  <1>8. NewestInv'
    BY <1>4, NewestKept DEF VisibleInv, NewestInv
  <1>9. AppliedInv'
    BY <1>2, <1>4, <1>5 DEF AppliedInv, RowSame, Clients
  <1>10. AckedInv'
    <2>1. ASSUME NEW k \in Staged(c)
          PROVE  AckedWell(k)'
      <3>1. k \in Keys /\ Written(c, k)
        BY <1>3 DEF Staged, Written
      <3>2. PICK p : p = positions[c][k]
        OBVIOUS
      <3>3. p \in LogPositions /\ RecAt(p).key = k /\ Shows(k, p)'
        BY <1>7, <3>1, <3>2
      <3>4. acked'[k].pos = p
        BY <1>3, <3>1, <3>2 DEF Acks
      <3> QED BY <1>2, <3>1, <3>3, <3>4, AckedNow
    <2>2. ASSUME NEW k \in Keys, k \notin Staged(c)
          PROVE  AckedWell(k)'
      <3>1. acked'[k] = acked[k]
        BY <1>3, <2>2 DEF Acks
      <3>2. \A p \in LogPositions : RecAt(p).key = k /\ Shows(k, p) => Shows(k, p)'
        BY <1>3, <1>6, ShowsKept
      <3> QED BY <3>1, <3>2, AckedSame
    <2> QED BY <2>1, <2>2 DEF AckedInv, AckedWell
  <1>11. RunningInv'
    BY <1>3, <1>4, RunningKept
  <1>12. ShownInv'
    <2>1. ASSUME ~crashed', NEW p \in LogPositions',
                 RecAt(p)'.seq # 0, RecAt(p)'.key \in Keys
          PROVE  Shows(RecAt(p).key, p)'
      <3>1. p \in LogPositions /\ RecAt(p)' = RecAt(p)
        BY <2>1 DEF LogSame
      <3>2. PICK k \in Keys : k = RecAt(p).key
        BY <2>1, <3>1
      <3>3. CASE RecAt(p).seq = seqNo
        <4>1. Written(c, k) /\ positions[c][k] = p
          BY <1>3, <1>5, <2>1, <3>1, <3>2, <3>3 DEF VisibleInv, RunningInv
        <4>2. Shows(k, p)'
          BY <1>7, <4>1
        <4> QED BY <3>1, <3>2, <4>2 DEF Shows
      <3>4. CASE RecAt(p).seq # seqNo
        <4>1. Shows(k, p)
          BY <1>3, <2>1, <3>1, <3>2, <3>4 DEF VisibleInv, ShownInv
        <4>2. Shows(k, p)'
          BY <1>3, <1>6, <4>1, ShowsKept
        <4> QED BY <3>1, <3>2, <4>2 DEF Shows
      <3> QED BY <3>3, <3>4
    <2> QED BY <2>1 DEF ShownInv
  <1> QED BY <1>8, <1>9, <1>10, <1>11, <1>12 DEF VisibleInv

-----------------------------------------------------------------------------
\* The second invariant

LEMMA StageVisible ==
    ASSUME SoundInv, SoundInv', LogSame, VisibleInv, NEW c \in BatchClients, WBPut(c) \/ WBDelete(c)
    PROVE  VisibleInv'
  <1>1. c \in Clients
    BY DEF Clients
  <1>2. /\ UNCHANGED <<directory, instance, mu, pc, positions, todo, history>> /\ pc[c] = "idle"
        /\ \E k, w : pending' = [pending EXCEPT ![c][k] = w]
    BY DEF WBPut, WBDelete, Calm
  <1>3. \A d \in Clients : (RowSame(d) /\ UNCHANGED todo) \/ pc'[d] = "idle"
    BY <1>1, <1>2 DEF SoundInv, CallersTypeOK, RowSame
  <1> QED BY <1>2, <1>3, VisibleSame DEF directory, instance, history, Locked

LEMMA InstanceVisible ==
    ASSUME SoundInv, SoundInv', LogSame, VisibleInv,
           Merge \/ Close \/ CrashInClose \/ ProcessCrash \/ ProcessExit \/ UNCHANGED vars
    PROVE  VisibleInv'
  <1>1. CASE Merge \/ ProcessExit \/ UNCHANGED vars
    <2>1. UNCHANGED <<diskTree, seqNo, mu, callers, history>>
      BY <1>1 DEF Merge, ProcessExit, vars, directory, instance
    <2> QED BY <2>1, VisibleSame DEF callers, history, RowSame, Locked
  <1>2. CASE Close \/ CrashInClose \/ ProcessCrash
    <2>1. /\ UNCHANGED <<diskTree, acked>> /\ mu' = NoClient
          /\ pc' = [c \in Clients |-> "idle"]
          /\ ~crashed' => ~crashed /\ ~Locked
      BY <1>2 DEF Close, CrashInClose, ProcessCrash, Stop, CanClose
    <2> QED BY <2>1, VisibleSame DEF Locked
  <1> QED BY <1>1, <1>2

LEMMA OpenVisible ==
    ASSUME SoundInv, SoundInv', LogSame, merged = <<>>, VisibleInv, OpenDB \/ OpenRefused
    PROVE  VisibleInv'
  <1>1. OpenTree /\ phase = "closed"
    BY DEF OpenDB, OpenRefused, OpenTree
  <1>2. UNCHANGED <<diskTree, mu, callers, acked, crashed>>
    BY <1>1 DEF OpenTree
  <1>3. mu' = NoClient /\ \A d \in Clients : pc'[d] = "idle"
    BY <1>1, <1>2 DEF SoundInv, LockInv, callers
  <1> QED BY <1>2, <1>3, VisibleSame DEF Locked

LEMMA NextTreeIndInv ==
    ASSUME DisjointKeys, TreeIndInv, [Next]_vars, ~replaced'
    PROVE  SoundInv' /\ VisibleInv'
  <1>1. ~replaced /\ SoundInv /\ VisibleInv /\ SoundInv'
    BY ReplacedKept, NextSound DEF TreeIndInv
  <1>2. CASE \E c \in DirectClients : DirectStep(c)
    <2>1. PICK c \in DirectClients : DirectStep(c)
      BY <1>2
    <2>2. CASE DirectIndex(c)
      BY <1>1, <2>2, DirectIndexVisible, DirectIndexSound
    <2>3. CASE Put(c) \/ Delete(c)
      BY <1>1, <2>3, DirectAppendVisible DEF Put, Delete
    <2> QED BY <2>1, <2>2, <2>3 DEF DirectStep
  <1>3. CASE \E c \in BatchClients : BatchStep(c)
    <2>1. PICK c \in BatchClients : BatchStep(c)
      BY <1>3
    <2>2. CASE WBPut(c) \/ WBDelete(c)
      BY <1>1, <2>2, StageVisible, WBPutSound, WBDeleteSound
    <2>3. CASE CommitStart(c)
      BY <1>1, <2>3, CommitStartVisible, CommitStartSound
    <2>4. CASE CommitAppend(c)
      BY <1>1, <2>4, CommitAppendVisible
    <2>5. CASE CommitFinish(c)
      BY <1>1, <2>5, CommitFinishVisible
    <2>6. CASE CommitIndex(c)
      BY <1>1, <2>6, CommitIndexVisible, CommitIndexSound
    <2>7. CASE CommitEnd(c)
      BY <1>1, <2>7, CommitEndVisible, CommitEndSound
    <2> QED BY <2>1, <2>2, <2>3, <2>4, <2>5, <2>6, <2>7 DEF BatchStep
  <1>4. CASE Merge \/ Close \/ CrashInClose \/ ProcessCrash \/ ProcessExit \/ UNCHANGED vars
    BY <1>1, <1>4, MergeSound, CloseSound, ExitSound, InstanceVisible
  <1>5. CASE OpenDB \/ OpenRefused
    BY <1>1, <1>5, OpenSound, OpenVisible
  <1> QED BY <1>2, <1>3, <1>4, <1>5 DEF Next

LEMMA InitTreeIndInv ==
    ASSUME Init
    PROVE  TreeIndInv
  <1>1. SoundInv
    BY InitSound
  <1>2. /\ files = [f \in FileIds |-> <<>>] /\ acked = [k \in Keys |-> NoAck]
        /\ pc = [c \in Clients |-> "idle"] /\ mu = NoClient
    BY DEF Init
  <1>3. LogPositions = {}
    <2>1. \A f \in FileIds : Len(files[f]) = 0
      BY <1>2
    <2> QED BY <1>1, <2>1, InLog, LogIs DEF SoundInv, DirectoryTypeOK
  <1>4. VisibleInv
    BY <1>2, <1>3 DEF VisibleInv, NewestInv, NewestOf, AppliedInv, AckedInv, RunningInv, ShownInv,
                      Clients
  <1> QED BY <1>1, <1>4 DEF TreeIndInv

\* The inductive invariant of the store with the B+ tree: what each call has
\* written, which number the running Commit has, and what the tree shows
\* (db.go:229-251, batch.go:75-147, bptree.go:52-90).
THEOREM TreeInvariance ==
    ASSUME DisjointKeys
    PROVE  Spec => []TreeIndInv
  <1>1. TreeIndInv /\ [Next]_vars => TreeIndInv'
    BY NextTreeIndInv DEF TreeIndInv
  <1> QED BY <1>1, InitTreeIndInv, PTL DEF Spec

\* What Put, Delete or Commit has returned for stays visible, through Close,
\* crashes, a Merge and the Open after it, when no key has two writers
\* (db.go:106-138).
THEOREM AckedAlwaysVisible ==
    ASSUME DisjointKeys
    PROVE  Spec => []AckedVisible
  <1>1. TreeIndInv => AckedVisible
    BY DEF TreeIndInv, VisibleInv, AckedInv, AckedVisible, Kept
  <1> QED BY <1>1, TreeInvariance, PTL

\* As long as no instance dies a batch is visible as a whole or not at all once
\* nobody is inside Commit, when no key has two writers (batch.go:127-141).
THEOREM BatchAlwaysVisible ==
    ASSUME DisjointKeys
    PROVE  Spec => []BatchVisible
  <1>1. TreeIndInv => BatchVisible
    <2> SUFFICES ASSUME TreeIndInv, ~crashed, ~replaced, ~Locked, NEW p \in LogPositions,
                        NEW q \in LogPositions, RecAt(p).seq # 0, RecAt(p).seq = RecAt(q).seq,
                        RecAt(q).key \in Keys
                 PROVE  Shows(RecAt(q).key, q)
      BY DEF BatchVisible, BatchWhole
    <2> QED BY DEF TreeIndInv, VisibleInv, ShownInv
  <1> QED BY <1>1, TreeInvariance, PTL
=============================================================================
