----------------------------- MODULE AgreeProofs -----------------------------
(***************************************************************************)
(* The index of a running store is the one a restart would build, for      *)
(* every value of the constants with which no key has two writers and no   *)
(* call fails after it has written: AgreeIndInv is inductive.  If no power *)
(* is lost either, unless every write is synced, Bitcask implements        *)
(* KVStore: every step of the engine is a step of the map it promises, or  *)
(* a stutter.                                                              *)
(***************************************************************************)
EXTENDS AgreeInvariant, BitcaskProofs

USE DEF NoFile

-----------------------------------------------------------------------------
\* The newest record of a key

\* There is one at most, and Last finds it.
LEMMA NewestIsLast ==
    ASSUME NEW L, DOMAIN L \subseteq Positions, NEW k
    PROVE  /\ EffectiveIn(L, k) # {} => IsNewest(L, k, Last(EffectiveIn(L, k)))
           /\ \A p, q : IsNewest(L, k, p) /\ IsNewest(L, k, q) => p = q
  <1>1. EffectiveIn(L, k) \subseteq Positions
    BY DEF EffectiveIn
  <1>2. EffectiveIn(L, k) # {} => IsNewest(L, k, Last(EffectiveIn(L, k)))
    BY <1>1, LastOfPositions DEF IsNewest
  <1>3. ASSUME NEW p, NEW q, IsNewest(L, k, p), IsNewest(L, k, q)
        PROVE  p = q
    BY <1>1, <1>3, BeforeOrder DEF IsNewest
  <1> QED BY <1>2, <1>3

\* Committed, Effective and Newest are those of the log.
LEMMA LogReadings ==
    /\ \A s : CommittedIn(Log, s) <=> Committed(s)
    /\ \A k : EffectiveIn(Log, k) = Effective(k)
    /\ \A k, entry : Agrees(Log, k, entry) => entry = Newest(k)
  <1>1. \A s : CommittedIn(Log, s) <=> Committed(s)
    BY LogDomain DEF CommittedIn, Committed
  <1>2. \A k : EffectiveIn(Log, k) = Effective(k)
    BY <1>1, LogDomain DEF EffectiveIn, Effective
  <1>3. ASSUME NEW k, NEW entry, Agrees(Log, k, entry)
        PROVE  entry = Newest(k)
    <2>1. DOMAIN Log \subseteq Positions
      BY LogDomain DEF LogPositions
    <2>2. CASE EffectiveIn(Log, k) = {}
      BY <1>2, <1>3, <2>2 DEF Agrees, IsNewest, Newest
    <2>3. CASE EffectiveIn(Log, k) # {}
      <3>1. PICK p : p = Last(EffectiveIn(Log, k))
        OBVIOUS
      <3>2. IsNewest(Log, k, p) /\ \A q : IsNewest(Log, k, q) => q = p
        BY <2>1, <2>3, <3>1, NewestIsLast
      <3>3. p \in LogPositions /\ p # NoPos /\ RecAt(p) = Log[p]
        <4>1. p \in LogPositions /\ RecAt(p) = Log[p]
          BY <3>2, LogDomain DEF IsNewest, EffectiveIn
        <4>2. NoPos \notin Positions
          BY SizesAssumption DEF NoPos, Positions, FileIds
        <4> QED BY <4>1, <4>2 DEF LogPositions
      <3>4. Newest(k) = IF Log[p].val = Tombstone THEN NoPos ELSE p
        BY <1>2, <2>3, <3>1, <3>3 DEF Newest, ValueAt
      <3> QED BY <1>3, <2>3, <3>2, <3>4 DEF Agrees
    <2> QED BY <2>2, <2>3
  <1> QED BY <1>1, <1>2, <1>3

\* Where the records that count for a key stay, so does its newest one.
LEMMA SameNewest ==
    ASSUME NEW L, NEW M, NEW k, EffectiveIn(M, k) = EffectiveIn(L, k),
           \A p \in DOMAIN L : p \in DOMAIN M /\ M[p] = L[p]
    PROVE  /\ \A p : IsNewest(L, k, p) => IsNewest(M, k, p)
           /\ \A entry : Agrees(L, k, entry) => Agrees(M, k, entry)
  <1>1. \A p : IsNewest(L, k, p) => /\ IsNewest(M, k, p)
                                    /\ p \in DOMAIN L /\ M[p] = L[p]
    BY DEF IsNewest, EffectiveIn
  <1> QED BY <1>1 DEF Agrees

\* The entry that index.Put or index.Delete makes of the newest record.
LEMMA NewEntry ==
    ASSUME NEW L, NEW k, NEW p, IsNewest(L, k, p)
    PROVE  Agrees(L, k, IndexEntry(L[p].val, p))
  <1>1. p \in DOMAIN L
    BY DEF IsNewest, EffectiveIn
  <1> QED BY <1>1 DEF Agrees, IndexEntry

-----------------------------------------------------------------------------
\* What the next record of a log changes

LEMMA CommittedAfterGrowth ==
    ASSUME NEW L, NEW M, NEW pos, NEW rec, GrownBy(L, M, pos, rec)
    PROVE  \A s : CommittedIn(M, s) <=>
                     CommittedIn(L, s) \/ (rec.seq = s /\ rec.val = Finished)
  BY DEF GrownBy, CommittedIn

\* A record of Put or Delete is the newest of its key at once.
LEMMA DirectEffect ==
    ASSUME NEW L, NEW M, NEW pos, NEW rec, GrownBy(L, M, pos, rec),
           rec.seq = 0, rec.val # Finished
    PROVE  /\ IsNewest(M, rec.key, pos)
           /\ \A k : k # rec.key => EffectiveIn(M, k) = EffectiveIn(L, k)
  <1>1. \A s : CommittedIn(M, s) <=> CommittedIn(L, s)
    BY CommittedAfterGrowth
  <1>2. /\ DOMAIN M = DOMAIN L \cup {pos} /\ M[pos] = rec
        /\ \A p \in DOMAIN L : M[p] = L[p] /\ Before(p, pos)
    BY DEF GrownBy
  <1>3. pos \in EffectiveIn(M, rec.key)
    BY <1>2 DEF EffectiveIn, CommittedIn
  <1>4. \A k : EffectiveIn(M, k) \ {pos} \subseteq DOMAIN L
    BY <1>2 DEF EffectiveIn
  <1>5. IsNewest(M, rec.key, pos)
    BY <1>2, <1>3, <1>4 DEF IsNewest
  <1>6. ASSUME NEW k, k # rec.key
        PROVE  EffectiveIn(M, k) = EffectiveIn(L, k)
    <2>1. pos \notin DOMAIN L
      BY <1>2, BeforeOrder DEF GrownBy
    <2> QED BY <1>1, <1>2, <1>6, <2>1 DEF EffectiveIn
  <1> QED BY <1>5, <1>6

\* A record of a batch without an end counts for nothing.
LEMMA OpenBatchEffect ==
    ASSUME NEW L, NEW M, NEW pos, NEW rec, GrownBy(L, M, pos, rec),
           rec.val # Finished, ~CommittedIn(L, rec.seq)
    PROVE  \A k : EffectiveIn(M, k) = EffectiveIn(L, k)
  <1>1. \A s : CommittedIn(M, s) <=> CommittedIn(L, s)
    BY CommittedAfterGrowth
  <1>2. pos \notin DOMAIN L
    BY BeforeOrder DEF GrownBy
  <1> QED BY <1>1, <1>2 DEF GrownBy, EffectiveIn

\* The end of a batch makes its records the newest of their keys.
LEMMA EndEffect ==
    ASSUME NEW L, NEW M, NEW pos, NEW rec, NEW B, GrownBy(L, M, pos, rec),
           WholeBatches(M, B), rec.val = Finished, rec.seq # 0,
           ~CommittedIn(L, rec.seq), NEW k, rec.key # k
    PROVE  /\ \A p \in DOMAIN L : L[p].seq = rec.seq /\ L[p].key = k => IsNewest(M, k, p)
           /\ (\A p \in DOMAIN L : ~(L[p].seq = rec.seq /\ L[p].key = k))
                 => EffectiveIn(M, k) = EffectiveIn(L, k)
  <1>1. \A s : CommittedIn(M, s) <=> CommittedIn(L, s) \/ s = rec.seq
    BY CommittedAfterGrowth
  <1>2. /\ DOMAIN M = DOMAIN L \cup {pos} /\ M[pos] = rec /\ DOMAIN M \subseteq Positions
        /\ \A p \in DOMAIN L : M[p] = L[p] /\ Before(p, pos)
        /\ pos \notin DOMAIN L
    BY BeforeOrder DEF GrownBy
  <1>3. \A p : p \in EffectiveIn(M, k) <=>
                 /\ p \in DOMAIN L /\ L[p].key = k
                 /\ CommittedIn(L, L[p].seq) \/ L[p].seq = rec.seq
    BY <1>1, <1>2 DEF EffectiveIn
  <1>4. ASSUME NEW p \in DOMAIN L, L[p].seq = rec.seq, L[p].key = k
        PROVE  IsNewest(M, k, p)
    <2>1. p \in EffectiveIn(M, k)
      BY <1>3, <1>4
    <2>2. ASSUME NEW q \in EffectiveIn(M, k) \ {p}
          PROVE  Before(q, p)
      <3>1. q \in DOMAIN L /\ L[q].key = k
        BY <1>3
      <3>2. L[q].seq # rec.seq
        BY <3>1, <1>2, <1>4, <2>2 DEF WholeBatches, WrittenOnce, SameBatch
      <3>3. ~Before(p, q)
        BY <3>1, <3>2, <1>2, <1>4 DEF WholeBatches, SideBySide, SameBatch
      <3> QED BY <3>1, <3>3, <1>2, <2>2, BeforeOrder
    <2> QED BY <2>1, <2>2 DEF IsNewest
  <1>5. ASSUME \A p \in DOMAIN L : ~(L[p].seq = rec.seq /\ L[p].key = k)
        PROVE  EffectiveIn(M, k) = EffectiveIn(L, k)
    BY <1>3, <1>5 DEF EffectiveIn
  <1> QED BY <1>4, <1>5

-----------------------------------------------------------------------------
\* Whose keys a client writes

LEMMA WritesOfOne ==
    ASSUME IndInv, WritesInv, NEW c \in Clients, NEW change,
           pending' = [pending EXCEPT ![c] = change],
           \A k \in Keys : change[k] # NoWrite => k \in KeysOf[c],
           c \in DirectClients => \A j, k \in Keys :
                                     change[j] # NoWrite /\ change[k] # NoWrite => j = k
    PROVE  WritesInv'
  <1>1. \A d \in Clients : pending'[d] = IF d = c THEN change ELSE pending[d]
    BY DEF IndInv, CallersTypeOK
  <1>2. DirectClients \subseteq Clients
    BY DEF Clients
  <1> QED BY <1>1, <1>2 DEF WritesInv

LEMMA WritesNothing ==
    ASSUME IndInv, WritesInv, NEW c \in Clients, pending' = [pending EXCEPT ![c] = NoWrites]
    PROVE  WritesInv'
  <1>1. \A d \in Clients : pending'[d] = IF d = c THEN NoWrites ELSE pending[d]
    BY DEF IndInv, CallersTypeOK
  <1>2. \A k \in Keys : NoWrites[k] = NoWrite
    BY DEF NoWrites
  <1>3. DirectClients \subseteq Clients
    BY DEF Clients
  <1> QED BY <1>1, <1>2, <1>3 DEF WritesInv

LEMMA WritesSingle ==
    ASSUME IndInv, WritesInv, NEW c \in Clients, NEW k \in KeysOf[c], NEW v,
           pending' = [pending EXCEPT ![c] = [NoWrites EXCEPT ![k] = v]]
    PROVE  WritesInv'
  <1>1. PICK change : change = [NoWrites EXCEPT ![k] = v]
    OBVIOUS
  <1>2. \A j \in Keys : change[j] = IF j = k THEN v ELSE NoWrite
    BY <1>1 DEF NoWrites
  <1>3. \A j \in Keys : change[j] # NoWrite => j = k
    BY <1>2
  <1> QED BY <1>1, <1>3, WritesOfOne

LEMMA WritesStaged ==
    ASSUME IndInv, WritesInv, NEW c \in BatchClients, NEW k \in KeysOf[c], NEW v,
           pending' = [pending EXCEPT ![c][k] = v]
    PROVE  WritesInv'
  <1>1. c \in Clients /\ c \notin DirectClients
    BY ClientsAssumption DEF Clients
  <1>2. pending[c] \in WriteSets
    BY <1>1 DEF IndInv, CallersTypeOK
  <1>3. PICK change : change = [pending[c] EXCEPT ![k] = v]
    OBVIOUS
  <1>4. pending' = [pending EXCEPT ![c] = change]
    BY <1>1, <1>3 DEF IndInv, CallersTypeOK
  <1>5. \A j \in Keys : change[j] # NoWrite => j \in KeysOf[c]
    BY <1>1, <1>2, <1>3 DEF WritesInv, WriteSets
  <1> QED BY <1>1, <1>4, <1>5, WritesOfOne

LEMMA NextKeepsWrites ==
    ASSUME IndInv, WritesInv, [Next]_vars
    PROVE  WritesInv'
  <1>0. DirectClients \subseteq Clients /\ BatchClients \subseteq Clients
    BY DEF Clients
  <1>1. CASE \E c \in DirectClients : DirectStep(c)
    <2>1. PICK c \in DirectClients : DirectStep(c)
      BY <1>1
    <2>2. CASE PutAppend(c)
      <3>1. PICK k \in KeysOf[c], v \in Values : DirectAppend(c, k, v)
        BY <2>2 DEF PutAppend
      <3> QED BY <1>0, <3>1, WritesSingle DEF DirectAppend
    <2>3. CASE DeleteCheck(c)
      BY <1>0, <2>3, WritesSingle DEF DeleteCheck
    <2>4. CASE DeleteAppend(c)
      <3>1. PICK k \in Keys : pending[c][k] = Tombstone /\ DirectAppend(c, k, Tombstone)
        BY <2>4 DEF DeleteAppend
      <3>2. k \in KeysOf[c]
        BY <1>0, <3>1, MarkersAssumption DEF WritesInv
      <3> QED BY <1>0, <3>1, <3>2, WritesSingle DEF DirectAppend
    <2>5. CASE DeleteFails(c) \/ DirectIndex(c)
      BY <1>0, <2>5, WritesNothing DEF DeleteFails, DirectIndex
    <2>6. CASE PutFails(c)
      BY <2>6 DEF PutFails, callers, WritesInv
    <2> QED BY <2>1, <2>2, <2>3, <2>4, <2>5, <2>6 DEF DirectStep
  <1>2. CASE \E c \in BatchClients : BatchStep(c)
    <2>1. PICK c \in BatchClients : BatchStep(c)
      BY <1>2
    <2>2. CASE WBPut(c)
      BY <2>2, WritesStaged DEF WBPut
    <2>3. CASE WBDelete(c)
      BY <2>3, WritesStaged DEF WBDelete
    <2>4. CASE CommitEnd(c)
      BY <1>0, <2>4, WritesNothing DEF CommitEnd
    <2>5. CASE UNCHANGED pending
      BY <2>5 DEF WritesInv
    <2> QED BY <2>1, <2>2, <2>3, <2>4, <2>5
            DEF BatchStep, CommitStart, CommitAppend, CommitFinish, CommitFails, CommitIndex
  <1>3. CASE Stop
    <2>1. \A c \in Clients, k \in Keys : pending'[c][k] = NoWrite
      BY <1>3 DEF Stop, NoWrites
    <2> QED BY <1>0, <2>1 DEF WritesInv
  <1>4. CASE UNCHANGED pending
    BY <1>4 DEF WritesInv
  <1>5. CASE Sync \/ OpenDB \/ Load
    BY <1>4, <1>5 DEF Sync, OpenDB, Load, LoadRecord, LoadNextFile, LoadEnd, callers
  <1> QED BY <1>1, <1>2, <1>3, <1>4, <1>5
          DEF Next, Close, ProcessCrash, PowerLoss, vars, callers

\* What c has in progress is about no key that another client writes.
LEMMA OwnKeys ==
    ASSUME DisjointKeys, WritesInv, NEW c \in Clients, NEW d \in Clients, c # d, NEW k \in Keys,
           pending[d][k] # NoWrite
    PROVE  k \notin KeysOf[c]
  BY DEF DisjointKeys, WritesInv

-----------------------------------------------------------------------------
\* The instance at rest, and what Options.SyncWrites leaves unsynced

LEMMA NextKeepsRest ==
    ASSUME IndInv, RestInv, [Next]_vars
    PROVE  RestInv'
  <1>1. CASE phase = "open" /\ phase' = "open"
    BY <1>1 DEF RestInv
  <1>2. CASE Stop
    BY <1>2 DEF RestInv, Stop
  <1>3. CASE OpenDB
    BY <1>3 DEF RestInv, OpenDB, callers
  <1>4. CASE Load
    BY <1>4 DEF RestInv, Load, LoadRecord, LoadNextFile, LoadEnd, AtRecord, AtEnd, callers
  <1>5. CASE UNCHANGED vars
    BY <1>5 DEF RestInv, vars, callers, loader
  <1>6. ASSUME NEW c \in DirectClients, DirectStep(c)
        PROVE  phase = "open" /\ phase' = "open"
    BY <1>6 DEF DirectStep, PutAppend, PutFails, DeleteCheck, DeleteAppend, DeleteFails,
                DirectIndex, DirectAppend, Calm
  <1>7. ASSUME NEW c \in BatchClients, BatchStep(c)
        PROVE  phase = "open" /\ phase' = "open"
    BY <1>7 DEF BatchStep, WBPut, WBDelete, CommitStart, CommitAppend, CommitFinish,
                CommitFails, CommitIndex, CommitEnd, Calm
  <1>8. Sync => phase = "open" /\ phase' = "open"
    BY DEF Sync
  <1> QED BY <1>1, <1>2, <1>3, <1>4, <1>5, <1>6, <1>7, <1>8
          DEF Next, Close, ProcessCrash, PowerLoss

-----------------------------------------------------------------------------
\* The index of an open instance

\* c has written k to the log and is about to put it into the index.
InCall(c, k) == pc[c] \in {"index", "apply"} /\ pending[c][k] # NoWrite

\* The goal of the steps below.
LEMMA OpenInvAfter ==
    ASSUME phase' = "open",
           \A k \in Keys : (\E c \in Clients : InCall(c, k)') \/ Agrees(Log', k, index'[k]),
           \A c \in Clients, k \in Keys : InCall(c, k)' =>
              /\ IsNewest(Log', k, positions'[c][k])
              /\ pc'[c] = "apply" /\ k \notin todo' => Agrees(Log', k, index'[k])
    PROVE  OpenInv' /\ ScanInv'
  <1>1. OpenInv'
    BY DEF OpenInv, Busy, InCall, Agrees, IsNewest, EffectiveIn, CommittedIn, Before
  <1>2. ScanInv'
    BY DEF ScanInv
  <1> QED BY <1>1, <1>2

\* What OpenInv says of an open instance.
LEMMA OpenInvNow ==
    ASSUME OpenInv, phase = "open"
    PROVE  /\ \A k \in Keys : (\E c \in Clients : InCall(c, k)) \/ Agrees(Log, k, index[k])
           /\ \A c \in Clients, k \in Keys : InCall(c, k) =>
                 /\ IsNewest(Log, k, positions[c][k])
                 /\ pc[c] = "apply" /\ k \notin todo => Agrees(Log, k, index[k])
  BY DEF OpenInv, Busy, InCall

\* A step that touches neither the index nor a call about to update it, and
\* under which no new record counts.
LEMMA QuietAgrees ==
    ASSUME OpenInv, phase = "open", phase' = "open", index' = index,
           \A k \in Keys : EffectiveIn(Log', k) = EffectiveIn(Log, k),
           \A p \in DOMAIN Log : p \in DOMAIN Log' /\ Log'[p] = Log[p],
           \A c \in Clients :
              \/ pc[c] \notin {"index", "apply"} /\ pc'[c] \notin {"index", "apply"}
              \/ /\ pc'[c] = pc[c] /\ pending'[c] = pending[c]
                 /\ positions'[c] = positions[c]
                 /\ pc[c] = "apply" => todo' = todo
    PROVE  OpenInv' /\ ScanInv'
  <1>1. \A k \in Keys : /\ \A p : IsNewest(Log, k, p) => IsNewest(Log', k, p)
                        /\ \A entry : Agrees(Log, k, entry) => Agrees(Log', k, entry)
    BY SameNewest
  <1>2. \A c \in Clients, k \in Keys : InCall(c, k)' <=> InCall(c, k)
    BY DEF InCall
  <1>3. \A k \in Keys : (\E c \in Clients : InCall(c, k)') \/ Agrees(Log', k, index'[k])
    BY <1>1, <1>2, OpenInvNow
  <1>4. ASSUME NEW c \in Clients, NEW k \in Keys, InCall(c, k)'
        PROVE  /\ IsNewest(Log', k, positions'[c][k])
               /\ pc'[c] = "apply" /\ k \notin todo' => Agrees(Log', k, index'[k])
    <2>1. /\ InCall(c, k) /\ pc'[c] = pc[c] /\ positions'[c] = positions[c]
          /\ pc[c] = "apply" => todo' = todo
      BY <1>2, <1>4 DEF InCall
    <2> QED BY <1>1, <2>1, OpenInvNow
  <1> QED BY <1>3, <1>4, OpenInvAfter

\* The same where the files stay as they are.
LEMMA QuietFilesAgree ==
    ASSUME OpenInv, phase = "open", phase' = "open", UNCHANGED <<files, index>>,
           \A c \in Clients :
              \/ pc[c] \notin {"index", "apply"} /\ pc'[c] \notin {"index", "apply"}
              \/ /\ pc'[c] = pc[c] /\ pending'[c] = pending[c]
                 /\ positions'[c] = positions[c]
                 /\ pc[c] = "apply" => todo' = todo
    PROVE  OpenInv' /\ ScanInv'
  <1>1. Log' = Log
    BY LogSame
  <1>2. \A k \in Keys : EffectiveIn(Log', k) = EffectiveIn(Log, k)
    BY <1>1
  <1>3. \A p \in DOMAIN Log : p \in DOMAIN Log' /\ Log'[p] = Log[p]
    BY <1>1
  <1> QED BY <1>2, <1>3, QuietAgrees

\* Without a late failure, a call that fails has not written.
LEMMA FailureWritesNothing ==
    ASSUME NoLateFailure, StoreInv, SyncOrder, phase = "open", NEW rec \in Records,
           AppendFails(rec)
    PROVE  UNCHANGED files
  BY FailureOutcome DEF NoLateFailure, NeedSync

-----------------------------------------------------------------------------
\* Put and Delete

LEMMA DirectAppendAgrees ==
    ASSUME DisjointKeys, BatchIndInv, WritesInv, OpenInv, phase = "open",
           NEW c \in DirectClients, pc[c] \notin {"index", "apply"},
           NEW k \in KeysOf[c], NEW v \in Values \cup {Tombstone}, DirectAppend(c, k, v)
    PROVE  OpenInv' /\ ScanInv'
  <1>1. /\ AppendLogRecord(DirectRecord(k, v), FALSE)
        /\ phase' = phase /\ index' = index /\ todo' = todo
        /\ pc' = [pc EXCEPT ![c] = "index"]
        /\ pending' = [pending EXCEPT ![c] = [NoWrites EXCEPT ![k] = v]]
        /\ positions' = [positions EXCEPT ![c][k] = AppendPos]
    BY DEF DirectAppend
  <1>2. c \in Clients /\ k \in Keys
    BY ClientsAssumption DEF Clients
  <1>3. PICK pos : pos = AppendPos
    OBVIOUS
  <1>4. PICK rec : rec = DirectRecord(k, v)
    OBVIOUS
  <1>5. rec \in Records /\ rec.seq = 0 /\ rec.val # Finished /\ rec.key = k
    BY <1>2, <1>4, DirectRecordType, MarkersAssumption DEF DirectRecord
  <1>6. GrownBy(Log, Log', pos, rec)
    BY <1>1, <1>3, <1>4, <1>5, AppendOutcome DEF BatchIndInv, IndInv
  <1>7. /\ IsNewest(Log', k, pos)
        /\ \A j : j # k => EffectiveIn(Log', j) = EffectiveIn(Log, j)
    BY <1>5, <1>6, DirectEffect
  <1>8. \A j \in Keys \ {k} :
           /\ \A p : IsNewest(Log, j, p) => IsNewest(Log', j, p)
           /\ \A entry : Agrees(Log, j, entry) => Agrees(Log', j, entry)
    BY <1>6, <1>7, SameNewest DEF GrownBy
  <1>9. /\ pc'[c] = "index" /\ positions'[c][k] = pos
        /\ \A j \in Keys : pending'[c][j] = IF j = k THEN v ELSE NoWrite
        /\ \A d \in Clients \ {c} : /\ pc'[d] = pc[d] /\ pending'[d] = pending[d]
                                    /\ positions'[d] = positions[d]
    BY <1>1, <1>2, <1>3 DEF BatchIndInv, IndInv, CallersTypeOK, NoWrites
  <1>10. InCall(c, k)' /\ ~\E j \in Keys : InCall(c, j)
    BY <1>2, <1>9, MarkersAssumption DEF InCall
  <1>11. \A d \in Clients \ {c}, j \in Keys : InCall(d, j)' <=> InCall(d, j)
    BY <1>9 DEF InCall
  <1>12. \A d \in Clients \ {c}, j \in Keys : InCall(d, j) => j # k
    BY <1>2, OwnKeys DEF InCall
  <1>13. \A j \in Keys : (\E d \in Clients : InCall(d, j)') \/ Agrees(Log', j, index'[j])
    BY <1>1, <1>2, <1>8, <1>10, <1>11, OpenInvNow
  <1>14. ASSUME NEW d \in Clients, NEW j \in Keys, InCall(d, j)'
         PROVE  /\ IsNewest(Log', j, positions'[d][j])
                /\ pc'[d] = "apply" /\ j \notin todo' => Agrees(Log', j, index'[j])
    <2>1. CASE d = c
      <3>1. j = k
        BY <1>9, <1>14, <2>1 DEF InCall
      <3> QED BY <3>1, <2>1, <1>7, <1>9
    <2>2. CASE d # c
      <3>1. InCall(d, j) /\ j # k
        BY <1>11, <1>12, <1>14, <2>2
      <3> QED BY <3>1, <2>2, <1>1, <1>8, <1>9, OpenInvNow
    <2> QED BY <2>1, <2>2
  <1> QED BY <1>1, <1>13, <1>14, OpenInvAfter

\* The update of the index by Put and Delete.
LEMMA DirectIndexAgrees ==
    ASSUME DisjointKeys, BatchIndInv, WritesInv, OpenInv,
           NEW c \in DirectClients, DirectIndex(c)
    PROVE  OpenInv' /\ ScanInv'
  <1>1. /\ phase = "open" /\ phase' = "open" /\ pc[c] = "index"
        /\ pc' = [pc EXCEPT ![c] = "idle"]
        /\ UNCHANGED <<files, todo>>
        /\ pending' = [pending EXCEPT ![c] = NoWrites]
    BY DEF DirectIndex, disk
  <1>2. PICK k \in Keys :
          /\ pending[c][k] # NoWrite
          /\ index' = [index EXCEPT ![k] = IndexEntry(pending[c][k], positions[c][k])]
          /\ positions' = [positions EXCEPT ![c][k] = NoPos]
    BY DEF DirectIndex, UpdateIndex
  <1>3. c \in Clients /\ Log' = Log
    BY <1>1, LogSame DEF Clients
  <1>4. /\ pc'[c] = "idle"
        /\ \A d \in Clients \ {c} : /\ pc'[d] = pc[d] /\ pending'[d] = pending[d]
                                    /\ positions'[d] = positions[d]
        /\ \A j \in Keys : index'[j] = IF j = k THEN IndexEntry(pending[c][k], positions[c][k])
                                       ELSE index[j]
    BY <1>1, <1>2, <1>3 DEF BatchIndInv, IndInv, CallersTypeOK
  <1>5. Agrees(Log, k, index'[k])
    <2>1. IsNewest(Log, k, positions[c][k])
      BY <1>1, <1>2, <1>3, OpenInvNow DEF InCall
    <2>2. Appended(c, k, 0)
      BY <1>1, <1>2 DEF BatchIndInv, IndInv, CallersInv, DirectInv, Written
    <2>3. Log[positions[c][k]].val = pending[c][k]
      BY <2>2, LogDomain DEF Appended
    <2> QED BY <2>1, <2>3, <1>4, NewEntry
  <1>6. \A d \in Clients \ {c}, j \in Keys : InCall(d, j)' <=> InCall(d, j)
    BY <1>4 DEF InCall
  <1>7. \A d \in Clients \ {c}, j \in Keys : InCall(d, j) => j # k
    BY <1>2, <1>3, OwnKeys DEF InCall, WritesInv
  <1>8. \A j \in Keys : InCall(c, j) => j = k
    BY <1>2 DEF InCall, WritesInv
  <1>9. \A j \in Keys : (\E d \in Clients : InCall(d, j)') \/ Agrees(Log', j, index'[j])
    BY <1>1, <1>3, <1>4, <1>5, <1>6, <1>8, OpenInvNow
  <1>10. ASSUME NEW d \in Clients, NEW j \in Keys, InCall(d, j)'
         PROVE  /\ IsNewest(Log', j, positions'[d][j])
                /\ pc'[d] = "apply" /\ j \notin todo' => Agrees(Log', j, index'[j])
    <2>1. d # c
      BY <1>4, <1>10 DEF InCall
    <2>2. InCall(d, j) /\ j # k
      BY <1>6, <1>7, <1>10, <2>1
    <2> QED BY <2>1, <2>2, <1>1, <1>3, <1>4, OpenInvNow
  <1> QED BY <1>1, <1>9, <1>10, OpenInvAfter

-----------------------------------------------------------------------------
\* WriteBatch

LEMMA WholePrimed ==
    ASSUME WholeBatches(Log, batchOf)'
    PROVE  WholeBatches(Log', batchOf')
  BY DEF WholeBatches, AsCommitted, WrittenOnce, SideBySide, EndLast, AllThere, SameBatch,
         Before

\* The batch of a running Commit is not committed, and where it has a record of
\* a key it has a write of it.
LEMMA RunningBatch ==
    ASSUME BatchIndInv, NEW c \in BatchClients, pc[c] \in {"append", "finish"}
    PROVE  /\ phase = "open" /\ seqNo # 0 /\ ~CommittedIn(Log, seqNo)
           /\ \A p \in DOMAIN Log, k \in Keys :
                 Log[p].seq = seqNo /\ Log[p].key = k => pending[c][k] # NoWrite
           /\ \A d \in Clients \ {c} : pc[d] # "apply"
  <1>1. phase = "open" /\ seqNo # 0 /\ \A d \in BatchClients \ {c} : pc[d] = "idle"
    BY OneCommit DEF BatchIndInv, IndInv
  <1>2. AtTail(c) /\ batchOf[seqNo] = pending[c]
    BY DEF BatchIndInv, CommitRunning
  <1>3. ~CommittedIn(Log, seqNo)
    BY <1>1, <1>2, LogDomain DEF AtTail, CommittedIn
  <1>4. ASSUME NEW p \in DOMAIN Log, NEW k \in Keys, Log[p].seq = seqNo, Log[p].key = k
        PROVE  pending[c][k] # NoWrite
    <2>1. Log[p].val # Finished
      BY <1>2, <1>4, LogDomain DEF AtTail
    <2>2. Log[p].val = pending[c][k]
      BY <1>1, <1>2, <1>4, <2>1 DEF BatchIndInv, WholeBatches, AsCommitted
    <2>3. Log[p].val # NoWrite
      BY <2>1, LogEntry, LogDomain, MarkersAssumption DEF BatchIndInv, IndInv, Records
    <2> QED BY <2>2, <2>3
  <1>5. \A d \in Clients \ {c} : pc[d] # "apply"
    BY <1>1 DEF Clients, BatchIndInv, IndInv, LockInv
  <1> QED BY <1>1, <1>3, <1>4, <1>5

\* A record of a batch does not count before its end is there.
LEMMA CommitAppendAgrees ==
    ASSUME BatchIndInv, OpenInv, NEW c \in BatchClients, CommitAppend(c)
    PROVE  OpenInv' /\ ScanInv'
  <1>1. /\ phase = "open" /\ phase' = "open" /\ pc[c] = "append" /\ index' = index
        /\ pending' = pending
    BY DEF CommitAppend
  <1>2. PICK k \in todo :
          /\ AppendLogRecord(BatchRecord(c, k), FALSE)
          /\ positions' = [positions EXCEPT ![c][k] = AppendPos]
          /\ pc' = IF todo = {k} THEN [pc EXCEPT ![c] = "finish"] ELSE pc
    BY DEF CommitAppend
  <1>3. c \in Clients
    BY DEF Clients
  <1>4. PICK pos : pos = AppendPos
    OBVIOUS
  <1>5. PICK rec : rec = BatchRecord(c, k)
    OBVIOUS
  <1>6. rec \in Records /\ rec.val # Finished /\ rec.seq = seqNo
    BY <1>1, <1>5, BatchRecordType, MarkersAssumption DEF BatchIndInv, BatchRecord
  <1>7. GrownBy(Log, Log', pos, rec)
    BY <1>1, <1>2, <1>4, <1>5, <1>6, AppendOutcome DEF BatchIndInv, IndInv
  <1>8. /\ ~CommittedIn(Log, seqNo)
        /\ \A d \in Clients \ {c} : pc[d] # "apply"
    BY <1>1, RunningBatch
  <1>9. \A j \in Keys : EffectiveIn(Log', j) = EffectiveIn(Log, j)
    BY <1>6, <1>7, <1>8, OpenBatchEffect
  <1>10. /\ pc'[c] \notin {"index", "apply"}
         /\ \A d \in Clients \ {c} : pc'[d] = pc[d] /\ positions'[d] = positions[d]
    BY <1>1, <1>2, <1>3 DEF BatchIndInv, IndInv, CallersTypeOK
  <1>11. \A d \in Clients :
            \/ pc[d] \notin {"index", "apply"} /\ pc'[d] \notin {"index", "apply"}
            \/ /\ pc'[d] = pc[d] /\ pending'[d] = pending[d]
               /\ positions'[d] = positions[d]
               /\ pc[d] = "apply" => todo' = todo
    BY <1>1, <1>8, <1>10
  <1>12. \A p \in DOMAIN Log : p \in DOMAIN Log' /\ Log'[p] = Log[p]
    BY <1>7 DEF GrownBy
  <1> QED BY <1>1, <1>9, <1>11, <1>12, QuietAgrees

\* The end makes the records of the batch the newest ones.
LEMMA CommitFinishAgrees ==
    ASSUME DisjointKeys, BatchIndInv, BatchIndInv', WritesInv, OpenInv,
           NEW c \in BatchClients, CommitFinish(c)
    PROVE  OpenInv' /\ ScanInv'
  <1>1. /\ phase = "open" /\ phase' = "open" /\ pc[c] = "finish" /\ index' = index
        /\ AppendLogRecord(FinishedRecord, BatchSync)
        /\ pending' = pending /\ positions' = positions /\ todo' = Staged(c)
        /\ pc' = [pc EXCEPT ![c] = "apply"]
    BY DEF CommitFinish
  <1>2. c \in Clients
    BY DEF Clients
  <1>3. PICK pos : pos = AppendPos
    OBVIOUS
  <1>4. PICK rec : rec = FinishedRecord
    OBVIOUS
  <1>5. /\ rec \in Records /\ rec.val = Finished /\ rec.seq = seqNo
        /\ \A k \in Keys : rec.key # k
    BY <1>1, <1>4, OneCommit, FinishedRecordType, MarkersAssumption
    DEF BatchIndInv, IndInv, FinishedRecord
  <1>6. GrownBy(Log, Log', pos, rec)
    BY <1>1, <1>3, <1>4, <1>5, AppendOutcome, OptionsAssumption DEF BatchIndInv, IndInv
  <1>7. /\ ~CommittedIn(Log, seqNo) /\ seqNo # 0
        /\ \A p \in DOMAIN Log, k \in Keys :
              Log[p].seq = seqNo /\ Log[p].key = k => pending[c][k] # NoWrite
        /\ \A d \in Clients \ {c} : pc[d] # "apply"
    BY <1>1, RunningBatch
  <1>8. PICK B : B = batchOf'
    OBVIOUS
  <1>9. WholeBatches(Log', B)
    BY <1>8, WholePrimed DEF BatchIndInv
  <1>10. \A k \in Keys :
            /\ \A p \in DOMAIN Log :
                  Log[p].seq = seqNo /\ Log[p].key = k => IsNewest(Log', k, p)
            /\ pending[c][k] = NoWrite => EffectiveIn(Log', k) = EffectiveIn(Log, k)
    BY <1>5, <1>6, <1>7, <1>9, EndEffect
  <1>11. \A k \in Keys : pending[c][k] = NoWrite =>
            /\ \A p : IsNewest(Log, k, p) => IsNewest(Log', k, p)
            /\ \A entry : Agrees(Log, k, entry) => Agrees(Log', k, entry)
    BY <1>6, <1>10, SameNewest DEF GrownBy
  <1>12. /\ pc'[c] = "apply"
         /\ \A d \in Clients \ {c} : pc'[d] = pc[d]
    BY <1>1, <1>2 DEF BatchIndInv, IndInv, CallersTypeOK
  <1>13. \A d \in Clients \ {c}, k \in Keys :
            /\ InCall(d, k)' <=> InCall(d, k)
            /\ InCall(d, k) => pending[c][k] = NoWrite
    <2>1. ASSUME NEW d \in Clients, d # c, NEW k \in Keys, InCall(d, k)
          PROVE  pending[c][k] = NoWrite
      BY <1>2, <2>1, OwnKeys DEF InCall, WritesInv
    <2> QED BY <1>1, <1>12, <2>1 DEF InCall
  <1>14. \A k \in Keys : (\E d \in Clients : InCall(d, k)') \/ Agrees(Log', k, index'[k])
    <2> SUFFICES ASSUME NEW k \in Keys, ~\E d \in Clients : InCall(d, k)'
                 PROVE  Agrees(Log', k, index[k])
      BY <1>1
    <2>1. pending[c][k] = NoWrite
      BY <1>1, <1>2, <1>12 DEF InCall
    <2>2. ~\E d \in Clients : InCall(d, k)
      BY <1>1, <1>13, <2>1 DEF InCall
    <2> QED BY <1>1, <1>11, <2>1, <2>2, OpenInvNow
  <1>15. ASSUME NEW d \in Clients, NEW k \in Keys, InCall(d, k)'
         PROVE  /\ IsNewest(Log', k, positions'[d][k])
                /\ pc'[d] = "apply" /\ k \notin todo' => Agrees(Log', k, index'[k])
    <2>1. CASE d = c
      <3>1. pending[c][k] # NoWrite /\ k \in todo'
        BY <1>1, <1>15, <2>1 DEF InCall, Staged
      <3>2. Appended(c, k, seqNo)
        BY <1>1, <3>1 DEF BatchIndInv, IndInv, CallersInv, BatchInv, Written
      <3>3. /\ positions[c][k] \in DOMAIN Log /\ Log[positions[c][k]].seq = seqNo
            /\ Log[positions[c][k]].key = k
        BY <3>2, LogDomain DEF Appended
      <3> QED BY <1>1, <1>10, <2>1, <3>1, <3>3
    <2>2. CASE d # c
      <3>1. InCall(d, k) /\ pending[c][k] = NoWrite
        BY <1>13, <1>15, <2>2
      <3> QED BY <1>1, <1>7, <1>11, <1>12, <2>2, <3>1, OpenInvNow
    <2> QED BY <2>1, <2>2
  <1> QED BY <1>1, <1>14, <1>15, OpenInvAfter

\* The loop of Commit that updates the index.
LEMMA CommitIndexAgrees ==
    ASSUME DisjointKeys, BatchIndInv, WritesInv, OpenInv,
           NEW c \in BatchClients, CommitIndex(c)
    PROVE  OpenInv' /\ ScanInv'
  <1>1. /\ phase = "open" /\ phase' = "open" /\ pc[c] = "apply"
        /\ UNCHANGED <<files, pc, pending, positions>>
    BY DEF CommitIndex, disk
  <1>2. PICK k \in todo :
          /\ index' = [index EXCEPT ![k] = IndexEntry(pending[c][k], positions[c][k])]
          /\ todo' = todo \ {k}
    BY DEF CommitIndex, UpdateIndex
  <1>3. c \in Clients /\ Log' = Log
    BY <1>1, LogSame DEF Clients
  <1>4. k \in Keys /\ pending[c][k] # NoWrite
    BY <1>1, <1>2 DEF BatchIndInv, IndInv, CallersTypeOK, LockInv, Staged
  <1>5. \A j \in Keys : index'[j] = IF j = k THEN IndexEntry(pending[c][k], positions[c][k])
                                    ELSE index[j]
    BY <1>2 DEF BatchIndInv, IndInv, CallersTypeOK
  <1>6. Agrees(Log, k, index'[k])
    <2>1. IsNewest(Log, k, positions[c][k])
      BY <1>1, <1>3, <1>4, OpenInvNow DEF InCall
    <2>2. Appended(c, k, seqNo)
      BY <1>1, <1>4 DEF BatchIndInv, IndInv, CallersInv, BatchInv, Written
    <2>3. Log[positions[c][k]].val = pending[c][k]
      BY <2>2, LogDomain DEF Appended
    <2> QED BY <2>1, <2>3, <1>4, <1>5, NewEntry
  <1>7. \A d \in Clients, j \in Keys : InCall(d, j)' <=> InCall(d, j)
    BY <1>1 DEF InCall
  <1>8. \A d \in Clients \ {c}, j \in Keys : InCall(d, j) => j # k
    BY <1>3, <1>4, OwnKeys DEF InCall, WritesInv
  <1>9. \A j \in Keys : (\E d \in Clients : InCall(d, j)') \/ Agrees(Log', j, index'[j])
    BY <1>1, <1>3, <1>5, <1>6, <1>7, OpenInvNow
  <1>10. ASSUME NEW d \in Clients, NEW j \in Keys, InCall(d, j)'
         PROVE  /\ IsNewest(Log', j, positions'[d][j])
                /\ pc'[d] = "apply" /\ j \notin todo' => Agrees(Log', j, index'[j])
    <2>1. InCall(d, j)
      BY <1>7, <1>10
    <2>2. IsNewest(Log', j, positions'[d][j])
      BY <2>1, <1>1, <1>3, OpenInvNow
    <2>3. ASSUME j # k, pc[d] = "apply", j \notin todo'
          PROVE  Agrees(Log', j, index'[j])
      BY <2>1, <2>3, <1>1, <1>2, <1>3, <1>5, OpenInvNow
    <2> QED BY <2>2, <2>3, <1>1, <1>3, <1>6
  <1> QED BY <1>1, <1>9, <1>10, OpenInvAfter

\* When Commit returns, the index has each of its writes.
LEMMA CommitEndAgrees ==
    ASSUME BatchIndInv, OpenInv, NEW c \in BatchClients, CommitEnd(c)
    PROVE  OpenInv' /\ ScanInv'
  <1>1. /\ phase = "open" /\ phase' = "open" /\ pc[c] = "apply" /\ todo = {}
        /\ UNCHANGED <<files, index, todo>>
        /\ pc' = [pc EXCEPT ![c] = "idle"]
        /\ pending' = [pending EXCEPT ![c] = NoWrites]
        /\ positions' = [positions EXCEPT ![c] = [k \in Keys |-> NoPos]]
    BY DEF CommitEnd, disk
  <1>2. c \in Clients /\ Log' = Log
    BY <1>1, LogSame DEF Clients
  <1>3. /\ pc'[c] = "idle"
        /\ \A d \in Clients \ {c} : /\ pc'[d] = pc[d] /\ pending'[d] = pending[d]
                                    /\ positions'[d] = positions[d]
    BY <1>1, <1>2 DEF BatchIndInv, IndInv, CallersTypeOK
  <1>4. \A d \in Clients, j \in Keys : InCall(d, j)' <=> (d # c /\ InCall(d, j))
    BY <1>3 DEF InCall
  <1>5. \A j \in Keys : InCall(c, j) => Agrees(Log, j, index[j])
    BY <1>1, <1>2, OpenInvNow
  <1>6. \A j \in Keys : (\E d \in Clients : InCall(d, j)') \/ Agrees(Log', j, index'[j])
    BY <1>1, <1>2, <1>4, <1>5, OpenInvNow
  <1>7. ASSUME NEW d \in Clients, NEW j \in Keys, InCall(d, j)'
        PROVE  /\ IsNewest(Log', j, positions'[d][j])
               /\ pc'[d] = "apply" /\ j \notin todo' => Agrees(Log', j, index'[j])
    BY <1>1, <1>2, <1>3, <1>4, <1>7, OpenInvNow
  <1> QED BY <1>1, <1>6, <1>7, OpenInvAfter

-----------------------------------------------------------------------------
\* The steps of an open instance, together

LEMMA DirectStepAgrees ==
    ASSUME DisjointKeys, NoLateFailure, BatchIndInv, WritesInv, OpenInv,
           NEW c \in DirectClients, DirectStep(c)
    PROVE  OpenInv' /\ ScanInv'
  <1>0. c \in Clients /\ KeysOf[c] \subseteq Keys
    BY ClientsAssumption DEF Clients
  <1>1. CASE PutAppend(c)
    <2>1. PICK k \in KeysOf[c], v \in Values : DirectAppend(c, k, v)
      BY <1>1 DEF PutAppend
    <2> QED BY <1>1, <2>1, DirectAppendAgrees DEF PutAppend, Calm
  <1>2. CASE PutFails(c)
    <2>1. PICK k \in KeysOf[c], v \in Values : AppendFails(DirectRecord(k, v))
      BY <1>2 DEF PutFails
    <2>2. UNCHANGED files
      BY <1>0, <1>2, <2>1, DirectRecordType, FailureWritesNothing
      DEF PutFails, Calm, BatchIndInv, IndInv
    <2> QED BY <1>2, <2>2, QuietFilesAgree DEF PutFails, Calm, callers
  <1>3. CASE DeleteCheck(c)
    <2>1. /\ phase = "open" /\ phase' = "open" /\ UNCHANGED <<files, index, positions, todo>>
          /\ pc[c] = "idle" /\ pc'[c] = "delete"
          /\ \A d \in Clients \ {c} : pc'[d] = pc[d] /\ pending'[d] = pending[d]
      BY <1>0, <1>3 DEF DeleteCheck, Calm, disk, BatchIndInv, IndInv, CallersTypeOK
    <2>2. \A d \in Clients :
             \/ pc[d] \notin {"index", "apply"} /\ pc'[d] \notin {"index", "apply"}
             \/ /\ pc'[d] = pc[d] /\ pending'[d] = pending[d]
                /\ positions'[d] = positions[d]
                /\ pc[d] = "apply" => todo' = todo
      BY <2>1
    <2> QED BY <2>1, <2>2, QuietFilesAgree
  <1>4. CASE DeleteAppend(c)
    <2>1. PICK k \in Keys : pending[c][k] = Tombstone /\ DirectAppend(c, k, Tombstone)
      BY <1>4 DEF DeleteAppend
    <2>2. k \in KeysOf[c]
      BY <1>0, <2>1, MarkersAssumption DEF WritesInv
    <2> QED BY <1>4, <2>1, <2>2, DirectAppendAgrees DEF DeleteAppend
  <1>5. CASE DeleteFails(c)
    <2>1. PICK k \in Keys : AppendFails(DirectRecord(k, Tombstone))
      BY <1>5 DEF DeleteFails
    <2>2. UNCHANGED files
      BY <1>0, <1>5, <2>1, DirectRecordType, FailureWritesNothing
      DEF DeleteFails, BatchIndInv, IndInv
    <2>3. /\ phase = "open" /\ phase' = "open" /\ UNCHANGED <<files, index, positions, todo>>
          /\ pc[c] = "delete" /\ pc'[c] = "idle"
          /\ \A d \in Clients \ {c} : pc'[d] = pc[d] /\ pending'[d] = pending[d]
      BY <1>0, <1>5, <2>2 DEF DeleteFails, BatchIndInv, IndInv, CallersTypeOK
    <2>4. \A d \in Clients :
             \/ pc[d] \notin {"index", "apply"} /\ pc'[d] \notin {"index", "apply"}
             \/ /\ pc'[d] = pc[d] /\ pending'[d] = pending[d]
                /\ positions'[d] = positions[d]
                /\ pc[d] = "apply" => todo' = todo
      BY <2>3
    <2> QED BY <2>3, <2>4, QuietFilesAgree
  <1>6. CASE DirectIndex(c)
    BY <1>6, DirectIndexAgrees
  <1> QED BY <1>1, <1>2, <1>3, <1>4, <1>5, <1>6 DEF DirectStep

LEMMA BatchStepAgrees ==
    ASSUME DisjointKeys, NoLateFailure, BatchIndInv, BatchIndInv', WritesInv, OpenInv,
           NEW c \in BatchClients, BatchStep(c)
    PROVE  OpenInv' /\ ScanInv'
  <1>0. c \in Clients
    BY DEF Clients
  <1>1. CASE WBPut(c) \/ WBDelete(c)
    <2>1. /\ phase = "open" /\ phase' = "open"
          /\ UNCHANGED <<files, index, pc, positions, todo>>
          /\ pc[c] = "idle"
          /\ \E k, v : pending' = [pending EXCEPT ![c][k] = v]
      BY <1>1 DEF WBPut, WBDelete, Calm, disk
    <2>2. \A d \in Clients \ {c} : pending'[d] = pending[d]
      BY <1>0, <2>1 DEF BatchIndInv, IndInv, CallersTypeOK
    <2>3. \A d \in Clients :
             \/ pc[d] \notin {"index", "apply"} /\ pc'[d] \notin {"index", "apply"}
             \/ /\ pc'[d] = pc[d] /\ pending'[d] = pending[d]
                /\ positions'[d] = positions[d]
                /\ pc[d] = "apply" => todo' = todo
      BY <2>1, <2>2
    <2> QED BY <2>1, <2>3, QuietFilesAgree
  <1>2. CASE CommitStart(c)
    <2>1. /\ phase = "open" /\ phase' = "open" /\ mu = NoClient
          /\ UNCHANGED <<files, index, pending, positions>>
          /\ pc[c] = "idle" /\ pc'[c] = "append"
          /\ \A d \in Clients \ {c} : pc'[d] = pc[d]
      BY <1>0, <1>2 DEF CommitStart, Calm, Locked, disk, BatchIndInv, IndInv, CallersTypeOK
    <2>2. \A d \in Clients : pc[d] # "apply"
      BY <2>1, ClientsAssumption DEF Clients, BatchIndInv, IndInv, LockInv
    <2>3. \A d \in Clients :
             \/ pc[d] \notin {"index", "apply"} /\ pc'[d] \notin {"index", "apply"}
             \/ /\ pc'[d] = pc[d] /\ pending'[d] = pending[d]
                /\ positions'[d] = positions[d]
                /\ pc[d] = "apply" => todo' = todo
      BY <2>1, <2>2
    <2> QED BY <2>1, <2>3, QuietFilesAgree
  <1>3. CASE CommitFails(c)
    <2>1. /\ phase = "open" /\ phase' = "open" /\ mu = c
          /\ UNCHANGED <<index, pending>>
          /\ pc[c] \in {"append", "finish"}
          /\ pc' = [pc EXCEPT ![c] = "idle"]
          /\ positions' = [positions EXCEPT ![c] = [k \in Keys |-> NoPos]]
      BY <1>3 DEF CommitFails
    <2>2. UNCHANGED files
      <3>1. CASE \E k \in todo : AppendFails(BatchRecord(c, k)) /\ pc[c] = "append"
        BY <2>1, <3>1, BatchRecordType, FailureWritesNothing DEF BatchIndInv, IndInv
      <3>2. CASE AppendFails(FinishedRecord) /\ pc[c] = "finish"
        BY <2>1, <3>2, OneCommit, FinishedRecordType, FailureWritesNothing
        DEF BatchIndInv, IndInv
      <3> QED BY <1>3, <3>1, <3>2 DEF CommitFails, NoLateFailure
    <2>3. \A d \in Clients \ {c} : pc[d] # "apply" /\ pc'[d] = pc[d]
                                   /\ positions'[d] = positions[d]
      BY <1>0, <2>1, RunningBatch DEF BatchIndInv, IndInv, CallersTypeOK
    <2>4. pc'[c] = "idle"
      BY <1>0, <2>1 DEF BatchIndInv, IndInv, CallersTypeOK
    <2>5. \A d \in Clients :
             \/ pc[d] \notin {"index", "apply"} /\ pc'[d] \notin {"index", "apply"}
             \/ /\ pc'[d] = pc[d] /\ pending'[d] = pending[d]
                /\ positions'[d] = positions[d]
                /\ pc[d] = "apply" => todo' = todo
      BY <2>1, <2>3, <2>4
    <2> QED BY <2>1, <2>2, <2>5, QuietFilesAgree
  <1> QED BY <1>1, <1>2, <1>3, CommitAppendAgrees, CommitFinishAgrees, CommitIndexAgrees,
             CommitEndAgrees
          DEF BatchStep

-----------------------------------------------------------------------------
\* The scan of Open

\* The goal of the steps below.
LEMMA ScanInvAfter ==
    ASSUME phase' = "loading", RestInv', Scanned(Prefix', index', txn')
    PROVE  OpenInv' /\ ScanInv'
  <1>1. OpenInv'
    BY DEF OpenInv, RestInv
  <1>2. Scanned(Prefix, index, txn)'
    BY DEF Scanned, Agrees, IsNewest, EffectiveIn, CommittedIn, RecordsOf, Before
  <1> QED BY <1>1, <1>2 DEF ScanInv

\* The prefix of the log in front of the cursor.
LEMMA PrefixDomain ==
    /\ DOMAIN Prefix = {p \in LogPositions : Before(p, cursor)}
    /\ \A p \in DOMAIN Prefix : Prefix[p] = Log[p]
    /\ DOMAIN Prefix \subseteq Positions
  BY LogDomain DEF Prefix, LogPositions

LEMMA PrefixDomainNext ==
    ASSUME UNCHANGED files
    PROVE  /\ DOMAIN Prefix' = {p \in LogPositions : Before(p, cursor')}
           /\ \A p \in DOMAIN Prefix' : Prefix'[p] = Log[p]
  <1>1. LogPositions' = LogPositions /\ \A p : RecAt(p)' = RecAt(p)
    BY LogUnchanged
  <1>2. DOMAIN Prefix' = {p \in LogPositions' : Before(p, cursor')}
        /\ \A p \in DOMAIN Prefix' : Prefix'[p] = RecAt(p)'
    BY DEF Prefix, Before
  <1> QED BY <1>1, <1>2, LogDomain

\* A turn of the loop adds the record at the cursor; what has been read then is
\* made of whole batches and of the beginning of one.
LEMMA PrefixGrows ==
    ASSUME BatchIndInv, LoadRecord, NEW pos, pos = cursor, NEW rec, rec = RecAt(cursor)
    PROVE  /\ GrownBy(Prefix, Prefix', pos, rec)
           /\ WrittenOnce(Prefix') /\ EndLast(Prefix')
           /\ WholeBatches(Prefix', batchOf)
           /\ rec \in Records /\ WellFormed(rec)
  <1>1. AtRecord /\ cursor' = [cursor EXCEPT !.off = @ + 1] /\ UNCHANGED files
    BY DEF LoadRecord, disk
  <1>2. /\ pos \in LogPositions /\ rec = Log[pos]
        /\ \A p \in LogPositions : Before(p, cursor') <=> (p = pos \/ Before(p, pos))
    BY <1>1, ScannedOneMore, LogDomain DEF BatchIndInv
  <1>3. /\ DOMAIN Prefix' = {p \in LogPositions : p = pos \/ Before(p, pos)}
        /\ \A p \in DOMAIN Prefix' : Prefix'[p] = Log[p]
    BY <1>1, <1>2, PrefixDomainNext
  <1>4. LogPositions \subseteq Positions
    BY DEF LogPositions
  <1>5. GrownBy(Prefix, Prefix', pos, rec)
    BY <1>2, <1>3, <1>4, PrefixDomain DEF GrownBy
  <1>6. WholeBatches(Prefix', batchOf)
    <2>1. PICK M : M = Prefix'
      OBVIOUS
    <2>2. PICK B : B = batchOf
      OBVIOUS
    <2>3. \A p \in DOMAIN Log, q \in DOMAIN M : Before(p, q) => p \in DOMAIN M
      BY <2>1, <1>2, <1>3, <1>4, LogDomain, BeforeOrder
    <2>4. Numbered(Log) /\ WholeBatches(Log, B)
      BY <2>2, LogNumbered DEF BatchIndInv, IndInv
    <2>5. WholeBatches(M, B)
      BY <2>1, <2>3, <2>4, <1>3, LogDomain, WholeAfterLoss
    <2> QED BY <2>1, <2>2, <2>5
  <1>7. rec \in Records /\ WellFormed(rec)
    BY <1>2, LogEntry DEF BatchIndInv, IndInv
  <1> QED BY <1>5, <1>6, <1>7 DEF WholeBatches

\* The first record of a batch, or a later one, with no end in what was read.
LEMMA NoEndYet ==
    ASSUME NEW L, NEW M, NEW pos, NEW rec, GrownBy(L, M, pos, rec),
           WrittenOnce(M), EndLast(M), rec.seq # 0, WellFormed(rec),
           \A p \in DOMAIN L : WellFormed(L[p])
    PROVE  ~CommittedIn(L, rec.seq)
  <1> SUFFICES ASSUME NEW q \in DOMAIN L, L[q].seq = rec.seq, L[q].val = Finished
               PROVE  FALSE
    BY DEF CommittedIn
  <1>1. /\ pos \in DOMAIN M /\ q \in DOMAIN M /\ M[pos] = rec /\ M[q] = L[q]
        /\ Before(q, pos) /\ pos \in Positions /\ q \in Positions
    BY DEF GrownBy
  <1>2. q # pos /\ ~Before(pos, q)
    BY <1>1, BeforeOrder
  <1>3. SameBatch(M, pos, q)
    BY <1>1 DEF SameBatch
  <1> QED BY <1>1, <1>2, <1>3 DEF EndLast

\* A record of Put or Delete goes into the index at once.
LEMMA ScannedDirect ==
    ASSUME NEW L, NEW M, NEW pos, NEW rec, GrownBy(L, M, pos, rec),
           rec.seq = 0, rec.val # Finished, NEW ix, NEW tx, Scanned(L, ix, tx),
           ix \in [Keys -> Positions \cup {NoPos}]
    PROVE  Scanned(M, [ix EXCEPT ![rec.key] = IndexEntry(rec.val, pos)], tx)
  <1>1. /\ IsNewest(M, rec.key, pos) /\ M[pos] = rec
        /\ \A k : k # rec.key => EffectiveIn(M, k) = EffectiveIn(L, k)
        /\ DOMAIN M = DOMAIN L \cup {pos}
        /\ \A p \in DOMAIN L : p \in DOMAIN M /\ M[p] = L[p]
    BY DirectEffect DEF GrownBy
  <1>2. PICK jx : jx = [ix EXCEPT ![rec.key] = IndexEntry(rec.val, pos)]
    OBVIOUS
  <1>3. ASSUME NEW k \in Keys
        PROVE  Agrees(M, k, jx[k])
    <2>1. jx[k] = IF k = rec.key THEN IndexEntry(rec.val, pos) ELSE ix[k]
      BY <1>2
    <2>2. CASE k = rec.key
      BY <1>1, <2>1, <2>2, NewEntry
    <2>3. CASE k # rec.key
      BY <1>1, <2>1, <2>3, SameNewest DEF Scanned
    <2> QED BY <2>2, <2>3
  <1>4. ASSUME NEW s \in SeqNos, ~CommittedIn(M, s)
        PROVE  tx[s] = RecordsOf(M, s)
    <2>1. ~CommittedIn(L, s) /\ rec.seq # s
      BY <1>4, CommittedAfterGrowth, SizesAssumption DEF SeqNos
    <2>2. tx[s] = RecordsOf(L, s)
      BY <2>1 DEF Scanned
    <2>3. RecordsOf(M, s) = RecordsOf(L, s)
      BY <1>1, <2>1 DEF RecordsOf
    <2> QED BY <2>2, <2>3
  <1> QED BY <1>2, <1>3, <1>4 DEF Scanned

\* What ApplyTransaction makes of the index when it has kept the records kept.
AfterTransaction(L, ix, kept) == [k \in Keys |->
    LET written == {p \in kept : L[p].key = k}
    IN  IF written = {} THEN ix[k] ELSE IndexEntry(L[Last(written)].val, Last(written))]

\* The end of a batch brings the records that were kept into the index.
LEMMA ScannedEnd ==
    ASSUME NEW L, NEW M, NEW pos, NEW rec, NEW B, GrownBy(L, M, pos, rec),
           WholeBatches(M, B), rec.val = Finished, rec.seq \in SeqNos,
           rec.key = TxnFinKey, ~CommittedIn(L, rec.seq), DOMAIN L \subseteq Positions,
           NEW ix, NEW tx, Scanned(L, ix, tx), tx \in [SeqNos -> SUBSET Positions]
    PROVE  Scanned(M, AfterTransaction(L, ix, tx[rec.seq]), [tx EXCEPT ![rec.seq] = {}])
  <1>1. /\ DOMAIN M = DOMAIN L \cup {pos} /\ M[pos] = rec
        /\ \A p \in DOMAIN L : p \in DOMAIN M /\ M[p] = L[p]
        /\ rec.seq # 0
    BY SizesAssumption DEF GrownBy, SeqNos
  <1>2. PICK kept : kept = tx[rec.seq] /\ kept = RecordsOf(L, rec.seq)
    BY DEF Scanned
  <1>3. ASSUME NEW k \in Keys
        PROVE  Agrees(M, k, AfterTransaction(L, ix, kept)[k])
    <2>1. PICK written : written = {p \in kept : L[p].key = k}
      OBVIOUS
    <2>2. AfterTransaction(L, ix, kept)[k] =
             IF written = {} THEN ix[k]
             ELSE IndexEntry(L[Last(written)].val, Last(written))
      BY <2>1 DEF AfterTransaction
    <2>3. /\ \A p : p \in written <=> /\ p \in DOMAIN L
                                      /\ L[p].seq = rec.seq /\ L[p].key = k
          /\ k # TxnFinKey
      BY <1>2, <2>1, MarkersAssumption DEF RecordsOf
    <2>4. /\ \A p \in written : IsNewest(M, k, p)
          /\ written = {} => EffectiveIn(M, k) = EffectiveIn(L, k)
      BY <1>1, <2>3, EndEffect
    <2>5. CASE written = {}
      BY <1>1, <2>2, <2>4, <2>5, SameNewest DEF Scanned
    <2>6. CASE written # {}
      <3>1. Last(written) \in written
        BY <2>3, <2>6, LastOfPositions
      <3>2. PICK p \in written : p = Last(written)
        BY <3>1
      <3> QED BY <1>1, <2>2, <2>3, <2>4, <2>6, <3>2, NewEntry
    <2> QED BY <2>5, <2>6
  <1>4. ASSUME NEW s \in SeqNos, ~CommittedIn(M, s)
        PROVE  [tx EXCEPT ![rec.seq] = {}][s] = RecordsOf(M, s)
    <2>1. ~CommittedIn(L, s) /\ rec.seq # s
      BY <1>4, CommittedAfterGrowth
    <2>2. tx[s] = RecordsOf(L, s)
      BY <2>1 DEF Scanned
    <2>3. RecordsOf(M, s) = RecordsOf(L, s)
      BY <1>1, <2>1 DEF RecordsOf
    <2> QED BY <2>1, <2>2, <2>3
  <1> QED BY <1>2, <1>3, <1>4 DEF Scanned

\* Any other record is kept.
LEMMA ScannedKept ==
    ASSUME NEW L, NEW M, NEW pos, NEW rec, GrownBy(L, M, pos, rec),
           rec.val # Finished, ~CommittedIn(L, rec.seq),
           NEW ix, NEW tx, Scanned(L, ix, tx), tx \in [SeqNos -> SUBSET Positions]
    PROVE  Scanned(M, ix, [tx EXCEPT ![rec.seq] = @ \cup {pos}])
  <1>1. /\ DOMAIN M = DOMAIN L \cup {pos} /\ M[pos] = rec
        /\ \A p \in DOMAIN L : p \in DOMAIN M /\ M[p] = L[p]
    BY DEF GrownBy
  <1>2. \A k \in Keys : Agrees(M, k, ix[k])
    BY <1>1, OpenBatchEffect, SameNewest DEF Scanned
  <1>3. ASSUME NEW s \in SeqNos, ~CommittedIn(M, s)
        PROVE  [tx EXCEPT ![rec.seq] = @ \cup {pos}][s] = RecordsOf(M, s)
    <2>1. tx[s] = RecordsOf(L, s)
      BY <1>3, CommittedAfterGrowth DEF Scanned
    <2>2. RecordsOf(M, s) = IF s = rec.seq THEN tx[s] \cup {pos} ELSE tx[s]
      BY <1>1, <2>1 DEF RecordsOf
    <2> QED BY <2>2
  <1> QED BY <1>2, <1>3 DEF Scanned

LEMMA LoadRecordAgrees ==
    ASSUME BatchIndInv, ScanInv, RestInv', LoadRecord
    PROVE  OpenInv' /\ ScanInv'
  <1>1. /\ phase = "loading" /\ phase' = "loading" /\ cursor \in LogPositions
    BY ScannedOneMore DEF LoadRecord, AtRecord, disk, BatchIndInv
  <1>2. PICK L, M, B : L = Prefix /\ M = Prefix' /\ B = batchOf
    OBVIOUS
  <1>3. PICK pos, rec : pos = cursor /\ rec = RecAt(cursor)
    OBVIOUS
  <1>4. PICK ix, tx : ix = index /\ tx = txn
    OBVIOUS
  <1>5. /\ GrownBy(L, M, pos, rec) /\ WrittenOnce(M) /\ EndLast(M) /\ WholeBatches(M, B)
        /\ rec \in Records /\ WellFormed(rec)
    BY <1>2, <1>3, PrefixGrows
  <1>6. /\ Scanned(L, ix, tx)
        /\ ix \in [Keys -> Positions \cup {NoPos}] /\ tx \in [SeqNos -> SUBSET Positions]
    BY <1>1, <1>2, <1>4 DEF ScanInv, BatchIndInv, IndInv, CallersTypeOK
  <1>7. /\ DOMAIN L \subseteq Positions
        /\ \A p \in DOMAIN L : WellFormed(L[p]) /\ L[p] = RecAt(p)
    BY <1>2, PrefixDomain, LogEntry, LogDomain DEF BatchIndInv, IndInv
  <1>8. rec.seq # 0 => rec.seq \in SeqNos /\ ~CommittedIn(L, rec.seq)
    <2>1. rec.seq # 0 => rec.seq \in SeqNos
      BY <1>5, SizesAssumption DEF Records, SeqNos
    <2> QED BY <2>1, <1>5, <1>7, NoEndYet
  <1>9. CASE IsDirect(rec)
    <2>1. /\ rec.seq = 0 /\ rec.val # Finished
          /\ index' = [ix EXCEPT ![rec.key] = IndexEntry(rec.val, pos)]
          /\ txn' = tx
      BY <1>3, <1>4, <1>5, <1>9 DEF LoadRecord, IsDirect, UpdateIndex, WellFormed
    <2>2. Scanned(M, [ix EXCEPT ![rec.key] = IndexEntry(rec.val, pos)], tx)
      BY <1>5, <1>6, <2>1, ScannedDirect
    <2> QED BY <1>1, <1>2, <2>1, <2>2, ScanInvAfter
  <1>10. CASE ~IsDirect(rec) /\ rec.val = Finished
    <2>1. /\ rec.seq # 0 /\ rec.key = TxnFinKey
          /\ index' = [k \in Keys |->
                LET written == {p \in tx[rec.seq] : RecAt(p).key = k}
                IN  IF written = {} THEN ix[k]
                    ELSE IndexEntry(RecAt(Last(written)).val, Last(written))]
          /\ txn' = [tx EXCEPT ![rec.seq] = {}]
      BY <1>3, <1>4, <1>5, <1>10 DEF LoadRecord, IsDirect, ApplyTransaction, WellFormed
    <2>2. tx[rec.seq] \subseteq DOMAIN L
      BY <1>6, <1>8, <2>1 DEF Scanned, RecordsOf
    <2>3. ASSUME NEW k \in Keys
          PROVE  index'[k] = AfterTransaction(L, ix, tx[rec.seq])[k]
      <3>1. PICK written : written = {p \in tx[rec.seq] : L[p].key = k}
        OBVIOUS
      <3>2. written = {p \in tx[rec.seq] : RecAt(p).key = k}
        BY <1>7, <2>2, <3>1
      <3>3. index'[k] = IF written = {} THEN ix[k]
                        ELSE IndexEntry(RecAt(Last(written)).val, Last(written))
        BY <2>1, <3>2
      <3>4. written # {} => RecAt(Last(written)) = L[Last(written)]
        <4>1. written # {} => Last(written) \in written
          BY <1>7, <2>2, <3>1, LastOfPositions
        <4>2. \A p \in written : RecAt(p) = L[p]
          BY <1>7, <2>2, <3>1
        <4> QED BY <4>1, <4>2
      <3> QED BY <3>1, <3>3, <3>4 DEF AfterTransaction
    <2>4. index' = AfterTransaction(L, ix, tx[rec.seq])
      BY <2>1, <2>3 DEF AfterTransaction
    <2>5. rec.val = Finished /\ rec.seq \in SeqNos /\ ~CommittedIn(L, rec.seq)
      BY <1>8, <1>10, <2>1
    <2>6. Scanned(M, AfterTransaction(L, ix, tx[rec.seq]), [tx EXCEPT ![rec.seq] = {}])
      BY <1>5, <1>6, <1>7, <2>1, <2>5, ScannedEnd
    <2> QED BY <1>1, <1>2, <2>1, <2>4, <2>6, ScanInvAfter
  <1>11. CASE ~IsDirect(rec) /\ rec.val # Finished
    <2>1. /\ rec.seq # 0 /\ index' = ix
          /\ txn' = [tx EXCEPT ![rec.seq] = @ \cup {pos}]
      BY <1>3, <1>4, <1>11 DEF LoadRecord, IsDirect
    <2>2. Scanned(M, index', txn')
      BY <1>5, <1>6, <1>8, <1>11, <2>1, ScannedKept
    <2> QED BY <1>1, <1>2, <2>2, ScanInvAfter
  <1> QED BY <1>9, <1>10, <1>11

LEMMA LoadNextFileAgrees ==
    ASSUME BatchIndInv, ScanInv, RestInv', LoadNextFile
    PROVE  OpenInv' /\ ScanInv'
  <1>1. phase = "loading" /\ phase' = "loading" /\ UNCHANGED <<files, index, txn>>
    BY DEF LoadNextFile, AtEnd, disk
  <1>2. \A p \in LogPositions : Before(p, cursor') <=> Before(p, cursor)
    BY ScannedNoMore DEF BatchIndInv
  <1>3. /\ DOMAIN Prefix' = DOMAIN Prefix
        /\ \A p \in DOMAIN Prefix' : Prefix'[p] = Prefix[p]
    BY <1>1, <1>2, PrefixDomain, PrefixDomainNext
  <1>4. \A s : CommittedIn(Prefix', s) <=> CommittedIn(Prefix, s)
    BY <1>3 DEF CommittedIn
  <1>5. \A k : EffectiveIn(Prefix', k) = EffectiveIn(Prefix, k)
    BY <1>3, <1>4 DEF EffectiveIn
  <1>6. \A k \in Keys : Agrees(Prefix', k, index'[k])
    BY <1>1, <1>3, <1>5, SameNewest DEF ScanInv, Scanned
  <1>7. \A s \in SeqNos : ~CommittedIn(Prefix', s) => txn'[s] = RecordsOf(Prefix', s)
    BY <1>1, <1>3, <1>4 DEF ScanInv, Scanned, RecordsOf
  <1>8. Scanned(Prefix', index', txn')
    BY <1>6, <1>7 DEF Scanned
  <1> QED BY <1>1, <1>8, ScanInvAfter

\* No call is in progress when the instance opens.
LEMMA OpenedAgrees ==
    ASSUME phase # "open", phase' = "open", RestInv, pc' = pc,
           \A k \in Keys : Agrees(Log', k, index'[k])
    PROVE  OpenInv' /\ ScanInv'
  <1>1. \A c \in Clients, k \in Keys : ~InCall(c, k)'
    BY DEF RestInv, InCall
  <1> QED BY <1>1, OpenInvAfter

\* At its end the scan has read the log.
LEMMA LoadedAll ==
    ASSUME BatchIndInv, ScanInv, LoadEnd
    PROVE  \A k \in Keys : Agrees(Log, k, index[k])
  <1>1. phase = "loading"
    BY DEF LoadEnd, AtEnd
  <1>2. DOMAIN Prefix = DOMAIN Log /\ \A p \in DOMAIN Log : Prefix[p] = Log[p]
    BY PrefixDomain, ScannedAll, LogDomain DEF BatchIndInv
  <1>3. \A s : CommittedIn(Prefix, s) <=> CommittedIn(Log, s)
    BY <1>2 DEF CommittedIn
  <1>4. \A k : EffectiveIn(Prefix, k) = EffectiveIn(Log, k)
    BY <1>2, <1>3 DEF EffectiveIn
  <1> QED BY <1>1, <1>2, <1>4, SameNewest DEF ScanInv, Scanned

LEMMA LoadEndAgrees ==
    ASSUME BatchIndInv, ScanInv, RestInv, LoadEnd
    PROVE  OpenInv' /\ ScanInv'
  <1>1. phase = "loading" /\ phase' = "open" /\ UNCHANGED <<files, index, pc>>
    BY DEF LoadEnd, AtEnd, disk, callers
  <1>2. Log' = Log
    BY <1>1, LogSame
  <1> QED BY <1>1, <1>2, LoadedAll, OpenedAgrees

\* A log without records has no keys.
LEMMA EmptyAgrees ==
    ASSUME NEW L, DOMAIN L = {}
    PROVE  \A k \in Keys : Agrees(L, k, NoPos)
  BY DEF Agrees, EffectiveIn

LEMMA OpenDBAgrees ==
    ASSUME BatchIndInv, RestInv, RestInv', OpenDB
    PROVE  OpenInv' /\ ScanInv'
  <1>1. /\ phase = "closed" /\ UNCHANGED <<files, index, txn, pc>>
        /\ \/ onDisk = {} /\ phase' = "open"
           \/ phase' = "loading"
        /\ index = [k \in Keys |-> NoPos] /\ txn = [s \in SeqNos |-> {}]
    BY DEF OpenDB, disk, callers, RestInv
  <1>2. CASE onDisk = {} /\ phase' = "open"
    <2>1. LogPositions = {}
      BY <1>2, LogEntry DEF BatchIndInv, IndInv
    <2>2. DOMAIN Log' = {}
      BY <1>1, <2>1, LogSame, LogDomain
    <2> QED BY <1>1, <1>2, <2>2, EmptyAgrees, OpenedAgrees
  <1>3. CASE phase' = "loading"
    <2>1. DOMAIN Prefix' = {}
      BY <1>1, <1>3, PrefixDomainNext, ScannedNothing DEF BatchIndInv
    <2>2. \A k \in Keys : Agrees(Prefix', k, index'[k])
      BY <1>1, <2>1, EmptyAgrees
    <2>3. \A s \in SeqNos : txn'[s] = RecordsOf(Prefix', s)
      BY <1>1, <2>1 DEF RecordsOf
    <2>4. Scanned(Prefix', index', txn')
      BY <2>2, <2>3 DEF Scanned
    <2> QED BY <1>3, <2>4, ScanInvAfter
  <1> QED BY <1>1, <1>2, <1>3

LEMMA StopAgrees ==
    ASSUME Stop
    PROVE  OpenInv' /\ ScanInv'
  BY DEF Stop, OpenInv, ScanInv, Clients

-----------------------------------------------------------------------------
\* What Options.SyncWrites leaves unsynced

LEMMA SyncedAfterAppend ==
    ASSUME BatchIndInv, IndInv', phase = "open", NEW rec \in Records,
           NEW alsoSync \in BOOLEAN, AppendLogRecord(rec, alsoSync)
    PROVE  AllSynced'
  <1> SUFFICES ASSUME SyncWrites, NEW f \in FileIds
               PROVE  synced'[f] = Len(files'[f])
    BY DEF AllSynced
  <1>1. PICK pos : pos = AppendPos
    OBVIOUS
  <1>2. \A g \in onDisk' : synced'[g] = Len(files'[g])
    BY <1>1, AppendOutcome DEF NeedSync, BatchIndInv, IndInv
  <1>3. f \notin onDisk' => synced'[f] = Len(files'[f])
    BY DEF IndInv, StoreInv, StoreTypeOK, DiskInv
  <1> QED BY <1>2, <1>3

LEMMA SyncedAfterOther ==
    ASSUME IndInv, IndInv', AllSynced, UNCHANGED files, SyncAdvances
    PROVE  AllSynced'
  <1> SUFFICES ASSUME SyncWrites, NEW f \in FileIds
               PROVE  synced'[f] = Len(files'[f])
    BY DEF AllSynced
  <1>1. synced[f] = Len(files[f]) /\ synced[f] =< synced'[f] /\ synced'[f] =< Len(files[f])
    BY DEF AllSynced, SyncAdvances
  <1>2. synced[f] \in Nat /\ synced'[f] \in Nat
    BY DEF IndInv, StoreInv, StoreTypeOK
  <1> QED BY <1>1, <1>2

LEMMA SyncedAfterFailure ==
    ASSUME NoLateFailure, BatchIndInv, IndInv', AllSynced, phase = "open",
           NEW rec \in Records, AppendFails(rec)
    PROVE  AllSynced'
  BY SyncedAfterOther, FailureOutcome DEF NoLateFailure, NeedSync, BatchIndInv, IndInv

LEMMA NextKeepsSynced ==
    ASSUME NoLateFailure, BatchIndInv, IndInv', AllSynced, [Next]_vars
    PROVE  AllSynced'
  <1>1. CASE UNCHANGED <<files, synced>>
    BY <1>1 DEF AllSynced
  <1>2. CASE \E c \in DirectClients : DirectStep(c)
    <2>1. PICK c \in DirectClients : DirectStep(c)
      BY <1>2
    <2>2. c \in Clients /\ KeysOf[c] \subseteq Keys
      BY ClientsAssumption DEF Clients
    <2>3. CASE PutAppend(c) \/ DeleteAppend(c)
      <3>1. PICK k \in Keys, v \in Values \cup {Tombstone} : DirectAppend(c, k, v)
        BY <2>2, <2>3 DEF PutAppend, DeleteAppend
      <3> QED BY <2>3, <3>1, DirectRecordType, SyncedAfterAppend
              DEF PutAppend, DeleteAppend, Calm, DirectAppend
    <2>4. CASE PutFails(c) \/ DeleteFails(c)
      <3>1. PICK k \in Keys, v \in Values \cup {Tombstone} : AppendFails(DirectRecord(k, v))
        BY <2>2, <2>4 DEF PutFails, DeleteFails
      <3> QED BY <2>4, <3>1, DirectRecordType, SyncedAfterFailure
              DEF PutFails, DeleteFails, Calm
    <2>5. CASE DeleteCheck(c) \/ DirectIndex(c)
      BY <1>1, <2>5 DEF DeleteCheck, DirectIndex, disk
    <2> QED BY <2>1, <2>3, <2>4, <2>5 DEF DirectStep
  <1>3. CASE \E c \in BatchClients : BatchStep(c)
    <2>1. PICK c \in BatchClients : BatchStep(c)
      BY <1>3
    <2>2. CASE CommitAppend(c)
      <3>1. PICK k \in todo : AppendLogRecord(BatchRecord(c, k), FALSE)
        BY <2>2 DEF CommitAppend
      <3> QED BY <2>2, <3>1, BatchRecordType, SyncedAfterAppend DEF CommitAppend, BatchIndInv
    <2>3. CASE CommitFinish(c)
      BY <2>3, OneCommit, FinishedRecordType, OptionsAssumption, SyncedAfterAppend
      DEF CommitFinish, BatchIndInv, IndInv
    <2>4. CASE CommitFails(c)
      <3>1. CASE \E k \in todo : AppendFails(BatchRecord(c, k)) /\ pc[c] = "append"
        BY <2>4, <3>1, BatchRecordType, SyncedAfterFailure DEF CommitFails, BatchIndInv
      <3>2. CASE AppendFails(FinishedRecord) /\ pc[c] = "finish"
        BY <2>4, <3>2, OneCommit, FinishedRecordType, SyncedAfterFailure
        DEF CommitFails, BatchIndInv, IndInv
      <3> QED BY <2>4, <3>1, <3>2 DEF CommitFails, NoLateFailure
    <2>5. CASE WBPut(c) \/ WBDelete(c) \/ CommitStart(c) \/ CommitIndex(c) \/ CommitEnd(c)
      BY <1>1, <2>5 DEF WBPut, WBDelete, CommitStart, CommitIndex, CommitEnd, disk
    <2> QED BY <2>1, <2>2, <2>3, <2>4, <2>5 DEF BatchStep
  <1>4. CASE Sync
    <2>1. /\ activeFile \in FileIds /\ UNCHANGED files
          /\ synced' = [synced EXCEPT ![activeFile] = Len(files[activeFile])]
      BY <1>4 DEF Sync, BatchIndInv, IndInv, StoreInv, StoreTypeOK
    <2>2. \A f \in FileIds : synced'[f] = IF f = activeFile THEN Len(files[f]) ELSE synced[f]
      BY <2>1 DEF BatchIndInv, IndInv, StoreInv, StoreTypeOK
    <2> QED BY <2>1, <2>2 DEF AllSynced
  <1>5. CASE PowerLoss
    <2> SUFFICES ASSUME SyncWrites, NEW f \in FileIds
                 PROVE  synced'[f] = Len(files'[f])
      BY DEF AllSynced
    <2>1. PICK kept \in [FileIds -> 0 .. DataFileSize] :
             /\ \A g \in FileIds : synced[g] =< kept[g] /\ kept[g] =< Len(files[g])
             /\ files' = [g \in FileIds |-> SubSeq(files[g], 1, kept[g])]
             /\ synced' = kept
      BY <1>5 DEF PowerLoss
    <2>2. files[f] \in Seq(Records) /\ kept[f] \in 0 .. Len(files[f])
      BY <2>1, SizesAssumption DEF BatchIndInv, IndInv, StoreInv, StoreTypeOK
    <2>3. Len(SubSeq(files[f], 1, kept[f])) = kept[f]
      BY <2>2
    <2> QED BY <2>1, <2>3
  <1>6. CASE Close \/ ProcessCrash \/ OpenDB \/ Load \/ UNCHANGED vars
    BY <1>1, <1>6 DEF Close, ProcessCrash, OpenDB, Load, LoadRecord, LoadNextFile, LoadEnd,
                      disk, vars
  <1> QED BY <1>2, <1>3, <1>4, <1>5, <1>6 DEF Next

-----------------------------------------------------------------------------
\* The invariant is inductive

LEMMA InitAgreeInv ==
    ASSUME Init
    PROVE  AgreeInv
  <1>1. WritesInv
    BY DEF Init, WritesInv, NoWrites, Clients
  <1>2. RestInv /\ ScanInv
    BY DEF Init, RestInv, ScanInv
  <1>3. OpenInv
    BY DEF Init, OpenInv
  <1>4. AllSynced
    BY DEF Init, AllSynced
  <1> QED BY <1>1, <1>2, <1>3, <1>4 DEF AgreeInv

LEMMA NextKeepsOpenAndScan ==
    ASSUME DisjointKeys, NoLateFailure, BatchIndInv, BatchIndInv', AgreeInv, RestInv',
           [Next]_vars
    PROVE  OpenInv' /\ ScanInv'
  <1>0. WritesInv /\ RestInv /\ OpenInv /\ ScanInv
    BY DEF AgreeInv
  <1>1. CASE \E c \in DirectClients : DirectStep(c)
    BY <1>0, <1>1, DirectStepAgrees
  <1>2. CASE \E c \in BatchClients : BatchStep(c)
    BY <1>0, <1>2, BatchStepAgrees
  <1>3. CASE Sync
    BY <1>0, <1>3, QuietFilesAgree DEF Sync, callers
  <1>4. CASE Close \/ ProcessCrash \/ PowerLoss
    BY <1>4, StopAgrees DEF Close, ProcessCrash, PowerLoss
  <1>5. CASE OpenDB
    BY <1>0, <1>5, OpenDBAgrees
  <1>6. CASE Load
    BY <1>0, <1>6, LoadRecordAgrees, LoadNextFileAgrees, LoadEndAgrees DEF Load
  <1>7. CASE UNCHANGED vars
    <2>1. UNCHANGED <<files, phase, index, txn, cursor, pc, pending, positions, todo>>
      BY <1>7 DEF vars, disk, loader, callers
    <2>2. Log' = Log /\ LogPositions' = LogPositions /\ \A p : RecAt(p)' = RecAt(p)
      BY <2>1, LogSame, LogUnchanged
    <2>3. CASE phase = "open"
      BY <1>0, <2>1, <2>3, QuietFilesAgree
    <2>4. CASE phase # "open"
      <3>1. OpenInv'
        BY <2>1, <2>4 DEF OpenInv, RestInv
      <3>2. Prefix' = Prefix
        BY <2>1, <2>2 DEF Prefix, Before
      <3>3. phase' = "loading" => Scanned(Prefix', index', txn')
        BY <1>0, <2>1, <3>2 DEF ScanInv
      <3> QED BY <3>1, <3>3, ScanInvAfter DEF ScanInv
    <2> QED BY <2>3, <2>4
  <1> QED BY <1>1, <1>2, <1>3, <1>4, <1>5, <1>6, <1>7 DEF Next

LEMMA NextKeepsAgreeInv ==
    ASSUME DisjointKeys, NoLateFailure, BatchIndInv, BatchIndInv', AgreeInv, [Next]_vars
    PROVE  AgreeInv'
  <1>1. IndInv /\ IndInv'
    BY DEF BatchIndInv
  <1>2. WritesInv' /\ RestInv' /\ AllSynced'
    BY <1>1, NextKeepsWrites, NextKeepsRest, NextKeepsSynced DEF AgreeInv
  <1>3. OpenInv' /\ ScanInv'
    BY <1>2, NextKeepsOpenAndScan
  <1> QED BY <1>2, <1>3 DEF AgreeInv

\* AgreeIndInv holds in every reachable state.
THEOREM AgreeInvariance ==
    ASSUME DisjointKeys, NoLateFailure
    PROVE  Spec => []AgreeIndInv
  <1>1. Init => AgreeIndInv
    BY InitBatchIndInv, InitAgreeInv DEF AgreeIndInv
  <1>2. AgreeIndInv /\ [Next]_vars => AgreeIndInv'
    BY NextKeepsBatchIndInv, NextKeepsAgreeInv DEF AgreeIndInv
  <1> QED BY <1>1, <1>2, PTL DEF Spec

\* Between calls the index of a running store is what a restart would rebuild
\* from the files, whatever ran concurrently, failed, crashed or was lost with
\* the power before.
THEOREM IndexAlwaysAgrees ==
    ASSUME DisjointKeys, NoLateFailure
    PROVE  Spec => []IndexAgrees
  <1>1. ASSUME AgreeIndInv PROVE IndexAgrees
    <2>1. OpenInv
      BY <1>1 DEF AgreeIndInv, AgreeInv
    <2> QED BY <2>1, LogReadings DEF OpenInv, IndexAgrees
  <1> QED BY <1>1, AgreeInvariance, PTL

-----------------------------------------------------------------------------
\* The refinement of KVStore

\* The power fails only where Options.SyncWrites is set: otherwise it takes
\* writes that have returned with it, which KVStore does not do.
NothingLost == "power" \in Faults => SyncWrites

-----------------------------------------------------------------------------
\* What the log says of a key

\* The newest record that counts is what LogView tells, and so is an index
\* entry that agrees with it.
LEMMA LogViewReads ==
    ASSUME StoreInv, NEW k \in Keys
    PROVE  /\ \A p : IsNewest(Log, k, p) => LogView[k] = RecAt(p).val
           /\ \A entry : Agrees(Log, k, entry) => LogView[k] = ValueAt(entry)
  <1>1. DOMAIN Log \subseteq Positions
    BY LogDomain DEF LogPositions
  <1>2. EffectiveIn(Log, k) = Effective(k)
    BY LogReadings
  <1>3. LogView[k] = IF Effective(k) = {} THEN Tombstone ELSE ValueAt(Last(Effective(k)))
    BY DEF LogView
  <1>4. ASSUME NEW p, IsNewest(Log, k, p)
        PROVE  LogView[k] = ValueAt(p) /\ ValueAt(p) = RecAt(p).val /\ Log[p] = RecAt(p)
    <2>1. p \in EffectiveIn(Log, k)
      BY <1>4 DEF IsNewest
    <2>2. p = Last(Effective(k))
      BY <1>1, <1>2, <1>4, <2>1, NewestIsLast
    <2>3. p \in LogPositions
      BY <2>1, LogDomain DEF EffectiveIn
    <2>4. p # NoPos
      BY <2>3, LogEntry, SizesAssumption DEF NoPos, FileIds
    <2> QED BY <1>2, <1>3, <2>1, <2>2, <2>3, <2>4, LogDomain DEF ValueAt
  <1>5. ASSUME NEW entry, Agrees(Log, k, entry)
        PROVE  LogView[k] = ValueAt(entry)
    <2>1. CASE EffectiveIn(Log, k) = {} /\ entry = NoPos
      BY <1>2, <1>3, <2>1 DEF ValueAt
    <2>2. CASE entry = NoPos /\ \E p \in DOMAIN Log : IsNewest(Log, k, p) /\ Log[p].val = Tombstone
      BY <1>4, <2>2 DEF ValueAt
    <2>3. CASE IsNewest(Log, k, entry)
      BY <1>4, <2>3
    <2> QED BY <1>5, <2>1, <2>2, <2>3 DEF Agrees
  <1> QED BY <1>4, <1>5

\* It is a function of the files alone.
LEMMA LogViewSame ==
    ASSUME UNCHANGED files
    PROVE  LogView' = LogView
  <1>1. /\ LogPositions' = LogPositions
        /\ \A p : RecAt(p)' = RecAt(p)
        /\ \A s : Committed(s)' = Committed(s)
    BY LogUnchanged
  <1>2. \A k : Effective(k)' = Effective(k)
    BY <1>1 DEF Effective
  <1>3. \A S : Last(S)' = Last(S)
    BY DEF Last, Before
  <1>4. \A k \in Keys : LogView'[k] = LogView[k]
    BY <1>1, <1>2, <1>3 DEF LogView, ValueAt
  <1> QED BY <1>4 DEF LogView

-----------------------------------------------------------------------------
\* What a reader of an open instance sees

\* The writes of the batch that is on its way into the index.
Ending == Locked /\ pc[mu] = "apply"
Shown(k) == IF Ending /\ pending[mu][k] # NoWrite THEN pending[mu][k] ELSE IndexView[k]

LEMMA VisibleOpen ==
    ASSUME phase = "open"
    PROVE  Visible = [k \in Keys |-> Shown(k)]
  BY DEF Visible, Shown, Ending

LEMMA VisibleOpenNext ==
    ASSUME phase' = "open"
    PROVE  Visible' = [k \in Keys |-> Shown(k)']
  BY DEF Visible, Shown, Ending

\* Whoever holds the lock is a batch; it is the only client that can apply one.
LEMMA EndingClient ==
    ASSUME LockInv, CallersTypeOK
    PROVE  /\ Ending => mu \in BatchClients /\ mu \in Clients /\ pc[mu] = "apply"
           /\ \A c \in Clients : pc[c] = "apply" => Ending /\ mu = c
  BY ClientsAssumption DEF LockInv, CallersTypeOK, Ending, Locked, Clients

\* An index entry reads the same as long as its record stands.
LEMMA IndexViewKept ==
    ASSUME IndexSound, LogKept, NEW k \in Keys, index'[k] = index[k]
    PROVE  IndexView'[k] = IndexView[k]
  BY DEF IndexView, ValueAt, IndexSound, EntrySound, LogKept

\* A step that leaves the index and the batch that is applied alone.
LEMMA ShownSame ==
    ASSUME IndexSound, LogKept, phase = "open", phase' = "open", UNCHANGED index,
           Ending' <=> Ending,
           Ending => mu' = mu /\ pending'[mu] = pending[mu]
    PROVE  Visible' = Visible
  <1>1. \A k \in Keys : IndexView'[k] = IndexView[k]
    BY IndexViewKept
  <1>2. \A k \in Keys : Shown(k)' = Shown(k)
    BY <1>1 DEF Shown
  <1> QED BY <1>2, VisibleOpen, VisibleOpenNext

-----------------------------------------------------------------------------
\* Steps of KVStore

\* What a client has asked for and not seen applied.
Asked(c) == IF pc[c] \in {"index", "append", "finish"} THEN pending[c] ELSE NoWrites

LEMMA InFlightAsked ==
    /\ InFlight = [c \in Clients |-> Asked(c)]
    /\ InFlight' = [c \in Clients |-> Asked(c)']
  BY DEF InFlight, Asked

\* KVStore sees nothing.
LEMMA Stutter ==
    ASSUME Visible' = Visible, \A c \in Clients : Asked(c)' = Asked(c)
    PROVE  [KV!Next]_(KV!vars)
  BY InFlightAsked DEF KV!vars

\* A client asks for its writes.
LEMMA BeginStep ==
    ASSUME NEW c \in Clients, Asked(c) = NoWrites, Asked(c)' \in WriteSets \ {NoWrites},
           \A d \in Clients \ {c} : Asked(d)' = Asked(d),
           Visible' = Visible
    PROVE  [KV!Next]_(KV!vars)
  <1>1. PICK change : change = Asked(c)'
    OBVIOUS
  <1>2. change \in KV!Change \ {KV!NoChange} /\ InFlight[c] = KV!NoChange
    BY <1>1, InFlightAsked DEF KV!Change, KV!NoChange, WriteSets, NoWrites
  <1>3. InFlight' = [InFlight EXCEPT ![c] = change]
    BY <1>1, InFlightAsked
  <1>4. KV!Begin(c)
    BY <1>2, <1>3 DEF KV!Begin
  <1> QED BY <1>4 DEF KV!Next

\* A request ends: applied, or with an error.
LEMMA EndStep ==
    ASSUME NEW c \in Clients, Asked(c)' = NoWrites,
           \A d \in Clients \ {c} : Asked(d)' = Asked(d),
           \/ Visible' = Visible
           \/ Visible' = [k \in Keys |-> IF Asked(c)[k] = NoWrite THEN Visible[k]
                                         ELSE Asked(c)[k]]
    PROVE  [KV!Next]_(KV!vars)
  <1>1. InFlight' = [InFlight EXCEPT ![c] = KV!NoChange]
    BY InFlightAsked DEF KV!NoChange, NoWrites
  <1>2. InFlight[c] = Asked(c)
    BY InFlightAsked
  <1>3. Visible = [k \in Keys |-> Visible[k]]
    BY DEF Visible, LogView
  <1>4. CASE Asked(c) = NoWrites
    <2>1. \A d \in Clients : Asked(d)' = Asked(d)
      BY <1>4
    <2>2. Visible' = Visible
      BY <1>3, <1>4 DEF NoWrites
    <2> QED BY <2>1, <2>2, Stutter
  <1>5. CASE Asked(c) # NoWrites /\ Visible' = Visible
    <2>1. KV!Fail(c)
      BY <1>1, <1>2, <1>5 DEF KV!Fail, KV!NoChange, NoWrites
    <2> QED BY <2>1 DEF KV!Next
  <1>6. CASE Asked(c) # NoWrites /\ Visible' # Visible
    <2>1. KV!Apply(c)
      BY <1>1, <1>2, <1>6 DEF KV!Apply, KV!Overlay, KV!NoChange, NoWrites
    <2> QED BY <2>1 DEF KV!Next
  <1> QED BY <1>4, <1>5, <1>6

\* The process stops: of the requests in flight those in applied have taken
\* effect.
LEMMA CrashStep ==
    ASSUME NEW applied \in SUBSET Clients,
           \A c \in Clients : Asked(c)' = NoWrites,
           \A k \in Keys :
              /\ \A c \in applied : Asked(c)[k] # NoWrite => Visible'[k] = Asked(c)[k]
              /\ (\A c \in applied : Asked(c)[k] = NoWrite) => Visible'[k] = Visible[k]
    PROVE  [KV!Next]_(KV!vars)
  <1>1. InFlight' = [c \in Clients |-> KV!NoChange]
    BY InFlightAsked DEF KV!NoChange, NoWrites
  <1>2. \A c \in applied : InFlight[c] = Asked(c)
    BY InFlightAsked
  <1>3. Visible' = [k \in Keys |-> Visible'[k]]
    BY DEF Visible, LogView
  <1>4. ASSUME NEW k \in Keys
        PROVE  Visible'[k] = IF \E c \in applied : InFlight[c][k] # NoWrite
                             THEN LET c == CHOOSE d \in applied : InFlight[d][k] # NoWrite
                                  IN  InFlight[c][k]
                             ELSE Visible[k]
    <2>1. CASE \E c \in applied : InFlight[c][k] # NoWrite
      <3>1. PICK c : c = CHOOSE d \in applied : InFlight[d][k] # NoWrite
        OBVIOUS
      <3>2. c \in applied /\ InFlight[c][k] # NoWrite
        BY <2>1, <3>1
      <3>3. Visible'[k] = InFlight[c][k]
        BY <1>2, <3>2
      <3> QED BY <2>1, <3>1, <3>3
    <2>2. CASE \A c \in applied : InFlight[c][k] = NoWrite
      BY <1>2, <2>2
    <2> QED BY <2>1, <2>2
  <1>5. KV!Crash
    BY <1>1, <1>3, <1>4 DEF KV!Crash
  <1> QED BY <1>5 DEF KV!Next

-----------------------------------------------------------------------------
\* Put and Delete

\* Until its index update, a Put or Delete changes nothing a reader sees.
LEMMA DirectQuiet ==
    ASSUME IndInv, NEW c \in DirectClients, phase = "open", phase' = "open", LogKept,
           UNCHANGED <<index, mu>>,
           \A d \in Clients \ {c} : pc'[d] = pc[d] /\ pending'[d] = pending[d]
    PROVE  Visible' = Visible /\ \A d \in Clients \ {c} : Asked(d)' = Asked(d)
  <1>1. Ending => mu \in Clients \ {c}
    BY EndingClient, ClientsAssumption DEF IndInv
  <1>2. Locked => mu \in Clients \ {c}
    BY ClientsAssumption DEF IndInv, CallersTypeOK, Locked, Clients
  <1>3. (Ending' <=> Ending) /\ (Ending => pending'[mu] = pending[mu])
    BY <1>1, <1>2 DEF Ending, Locked
  <1>4. Visible' = Visible
    BY <1>3, ShownSame DEF IndInv
  <1>5. \A d \in Clients \ {c} : Asked(d)' = Asked(d)
    BY DEF Asked
  <1> QED BY <1>4, <1>5

LEMMA DirectAppendRefines ==
    ASSUME IndInv, NEW c \in DirectClients, phase = "open", pc[c] \in {"idle", "delete"},
           NEW k \in Keys, NEW v \in Values \cup {Tombstone}, DirectAppend(c, k, v)
    PROVE  [KV!Next]_(KV!vars)
  <1>1. c \in Clients
    BY DEF Clients
  <1>2. /\ pc' = [pc EXCEPT ![c] = "index"]
        /\ pending' = [pending EXCEPT ![c] = [NoWrites EXCEPT ![k] = v]]
        /\ UNCHANGED <<phase, index, mu>>
        /\ AppendLogRecord(DirectRecord(k, v), FALSE)
    BY DEF DirectAppend
  <1>3. LogKept
    BY <1>2, DirectRecordType, StoreAfterAppend DEF IndInv
  <1>4. /\ pc'[c] = "index" /\ pending'[c] = [NoWrites EXCEPT ![k] = v]
        /\ \A d \in Clients \ {c} : pc'[d] = pc[d] /\ pending'[d] = pending[d]
    BY <1>1, <1>2 DEF IndInv, CallersTypeOK
  <1>5. Asked(c) = NoWrites /\ Asked(c)' = [NoWrites EXCEPT ![k] = v]
    BY <1>4 DEF Asked
  <1>6. [NoWrites EXCEPT ![k] = v] \in WriteSets \ {NoWrites}
    BY MarkersAssumption DEF WriteSets, NoWrites
  <1>7. Visible' = Visible /\ \A d \in Clients \ {c} : Asked(d)' = Asked(d)
    BY <1>2, <1>3, <1>4, DirectQuiet
  <1> QED BY <1>1, <1>5, <1>6, <1>7, BeginStep

\* The index update is the instant at which a Put or Delete takes effect.
LEMMA DirectIndexRefines ==
    ASSUME DisjointKeys, IndInv, WritesInv, NEW c \in DirectClients, DirectIndex(c)
    PROVE  [KV!Next]_(KV!vars)
  <1>1. c \in Clients
    BY DEF Clients
  <1>2. PICK k \in Keys : /\ pending[c][k] # NoWrite
                          /\ UpdateIndex(k, pending[c][k], positions[c][k])
    BY DEF DirectIndex
  <1>3. /\ phase = "open" /\ phase' = "open" /\ pc[c] = "index"
        /\ UNCHANGED <<files, mu>>
        /\ pc' = [pc EXCEPT ![c] = "idle"]
        /\ pending' = [pending EXCEPT ![c] = NoWrites]
    BY DEF DirectIndex, disk
  <1>4. /\ pc'[c] = "idle"
        /\ \A d \in Clients \ {c} : pc'[d] = pc[d] /\ pending'[d] = pending[d]
    BY <1>1, <1>3 DEF IndInv, CallersTypeOK
  <1>5. \A j \in Keys \ {k} : pending[c][j] = NoWrite
    BY <1>2 DEF WritesInv
  <1>6. LogKept /\ \A p : RecAt(p)' = RecAt(p)
    BY <1>3, LogUnchanged
  <1>7. Appended(c, k, 0)
    BY <1>2, <1>3 DEF IndInv, CallersInv, DirectInv, Written
  <1>8. /\ index' = [index EXCEPT ![k] = IndexEntry(pending[c][k], positions[c][k])]
        /\ index \in [Keys -> Positions \cup {NoPos}]
    BY <1>2 DEF UpdateIndex, IndInv, CallersTypeOK
  <1>9. IndexView'[k] = pending[c][k]
    <2>1. positions[c][k] # NoPos
      BY <1>7, LogEntry, SizesAssumption DEF Appended, NoPos, FileIds, IndInv
    <2>2. RecAt(positions[c][k]).val = pending[c][k]
      BY <1>7 DEF Appended
    <2> QED BY <1>6, <1>8, <2>1, <2>2 DEF IndexView, ValueAt, IndexEntry
  <1>10. \A j \in Keys \ {k} : IndexView'[j] = IndexView[j]
    BY <1>6, <1>8, IndexViewKept DEF IndInv
  <1>11. Ending => mu \in Clients /\ mu # c /\ pending[mu][k] = NoWrite
    <2>1. Ending => mu \in Clients /\ mu # c
      BY <1>3, EndingClient DEF IndInv, Ending
    <2>2. \A d \in Clients \ {c} : pending[d][k] = NoWrite
      BY <1>1, <1>2, OwnKeys DEF WritesInv
    <2> QED BY <2>1, <2>2
  <1>12. /\ Ending' <=> Ending
         /\ Ending => pending'[mu] = pending[mu]
    <2>1. Locked => mu \in Clients
      BY DEF IndInv, CallersTypeOK, Locked, Clients
    <2>2. Ending' => mu # c
      BY <1>3, <1>4 DEF Ending
    <2> QED BY <1>3, <1>4, <1>11, <2>1, <2>2 DEF Ending, Locked
  <1>13. Shown(k)' = pending[c][k] /\ \A j \in Keys \ {k} : Shown(j)' = Shown(j)
    BY <1>3, <1>9, <1>10, <1>11, <1>12 DEF Shown
  <1>14. Asked(c) = pending[c] /\ Asked(c)' = NoWrites
    <2>1. pending'[c] = NoWrites
      BY <1>1, <1>3 DEF IndInv, CallersTypeOK
    <2> QED BY <1>3, <1>4, <2>1 DEF Asked
  <1>15. \A j \in Keys : Shown(j)' = IF Asked(c)[j] = NoWrite THEN Shown(j) ELSE Asked(c)[j]
    BY <1>2, <1>5, <1>13, <1>14
  <1>16. Visible' = [j \in Keys |-> IF Asked(c)[j] = NoWrite THEN Visible[j] ELSE Asked(c)[j]]
    BY <1>3, <1>15, VisibleOpen, VisibleOpenNext
  <1>17. \A d \in Clients \ {c} : Asked(d)' = Asked(d)
    BY <1>4 DEF Asked
  <1> QED BY <1>1, <1>14, <1>16, <1>17, EndStep

LEMMA DirectRefines ==
    ASSUME DisjointKeys, AgreeIndInv, NEW c \in DirectClients, DirectStep(c)
    PROVE  [KV!Next]_(KV!vars)
  <1>0. /\ c \in Clients /\ KeysOf[c] \subseteq Keys
        /\ IndInv /\ WritesInv
    BY ClientsAssumption DEF Clients, AgreeIndInv, AgreeInv, BatchIndInv
  <1>1. CASE PutAppend(c)
    <2>1. PICK k \in KeysOf[c], v \in Values : DirectAppend(c, k, v)
      BY <1>1 DEF PutAppend
    <2> QED BY <1>0, <1>1, <2>1, DirectAppendRefines DEF PutAppend, Calm
  <1>2. CASE PutFails(c)
    <2>1. PICK k \in KeysOf[c], v \in Values : AppendFails(DirectRecord(k, v))
      BY <1>2 DEF PutFails
    <2>2. phase = "open" /\ phase' = "open" /\ UNCHANGED <<phase, index, mu, pc, pending>>
      BY <1>2 DEF PutFails, Calm, callers
    <2>3. LogKept
      BY <1>0, <2>1, <2>2, DirectRecordType, StoreAfterFailure DEF IndInv
    <2>4. Visible' = Visible
      BY <1>0, <2>2, <2>3, DirectQuiet
    <2>5. \A d \in Clients : Asked(d)' = Asked(d)
      BY <2>2 DEF Asked
    <2> QED BY <2>4, <2>5, Stutter
  <1>3. CASE DeleteCheck(c)
    <2>1. /\ phase = "open" /\ phase' = "open" /\ UNCHANGED <<files, index, mu>>
          /\ pc[c] = "idle" /\ pc'[c] = "delete"
          /\ \A d \in Clients \ {c} : pc'[d] = pc[d] /\ pending'[d] = pending[d]
      BY <1>0, <1>3 DEF DeleteCheck, Calm, disk, IndInv, CallersTypeOK
    <2>2. Visible' = Visible /\ \A d \in Clients \ {c} : Asked(d)' = Asked(d)
      BY <1>0, <2>1, LogUnchanged, DirectQuiet
    <2>3. Asked(c)' = Asked(c)
      BY <2>1 DEF Asked
    <2> QED BY <2>2, <2>3, Stutter
  <1>4. CASE DeleteAppend(c)
    <2>1. PICK k \in Keys : pending[c][k] = Tombstone /\ DirectAppend(c, k, Tombstone)
      BY <1>4 DEF DeleteAppend
    <2> QED BY <1>0, <1>4, <2>1, DirectAppendRefines DEF DeleteAppend
  <1>5. CASE DeleteFails(c)
    <2>1. PICK k \in Keys : AppendFails(DirectRecord(k, Tombstone))
      BY <1>5 DEF DeleteFails
    <2>2. /\ phase = "open" /\ phase' = phase /\ UNCHANGED <<index, mu>>
          /\ pc[c] = "delete" /\ pc'[c] = "idle"
          /\ \A d \in Clients \ {c} : pc'[d] = pc[d] /\ pending'[d] = pending[d]
      BY <1>0, <1>5 DEF DeleteFails, IndInv, CallersTypeOK
    <2>3. LogKept
      BY <1>0, <2>1, <2>2, DirectRecordType, StoreAfterFailure DEF IndInv
    <2>4. Visible' = Visible /\ \A d \in Clients \ {c} : Asked(d)' = Asked(d)
      BY <1>0, <2>2, <2>3, DirectQuiet
    <2>5. Asked(c)' = Asked(c)
      BY <2>2 DEF Asked
    <2> QED BY <2>4, <2>5, Stutter
  <1>6. CASE DirectIndex(c)
    BY <1>0, <1>6, DirectIndexRefines
  <1> QED BY <1>1, <1>2, <1>3, <1>4, <1>5, <1>6 DEF DirectStep

-----------------------------------------------------------------------------
\* Commit

\* A step of a batch that is not on its way into the index, before and after.
LEMMA BatchQuiet ==
    ASSUME IndInv, NEW c \in BatchClients, phase = "open", phase' = "open", LogKept,
           UNCHANGED index, ~Ending, ~Ending',
           \A d \in Clients \ {c} : pc'[d] = pc[d] /\ pending'[d] = pending[d]
    PROVE  Visible' = Visible /\ \A d \in Clients \ {c} : Asked(d)' = Asked(d)
  <1>1. Visible' = Visible
    BY ShownSame DEF IndInv
  <1>2. \A d \in Clients \ {c} : Asked(d)' = Asked(d)
    BY DEF Asked
  <1> QED BY <1>1, <1>2

\* Staging a write, under no lock and perhaps while another batch is applied.
LEMMA StagingRefines ==
    ASSUME IndInv, NEW c \in BatchClients, WBPut(c) \/ WBDelete(c)
    PROVE  [KV!Next]_(KV!vars)
  <1>1. /\ phase = "open" /\ phase' = "open" /\ UNCHANGED <<files, index, mu, pc>>
        /\ pc[c] = "idle"
        /\ \E k, v : pending' = [pending EXCEPT ![c][k] = v]
    BY DEF WBPut, WBDelete, Calm, disk
  <1>2. \A d \in Clients \ {c} : pending'[d] = pending[d]
    BY <1>1 DEF IndInv, CallersTypeOK
  <1>3. Ending => mu \in Clients \ {c}
    BY <1>1, EndingClient DEF IndInv, Ending
  <1>4. (Ending' <=> Ending) /\ (Ending => pending'[mu] = pending[mu])
    BY <1>1, <1>2, <1>3 DEF Ending, Locked
  <1>5. Visible' = Visible
    BY <1>1, <1>4, LogUnchanged, ShownSame DEF IndInv
  <1>6. \A d \in Clients : Asked(d)' = Asked(d)
    BY <1>1, <1>2 DEF Asked
  <1> QED BY <1>5, <1>6, Stutter

LEMMA CommitStartRefines ==
    ASSUME IndInv, NEW c \in BatchClients, CommitStart(c)
    PROVE  [KV!Next]_(KV!vars)
  <1>1. /\ phase = "open" /\ phase' = "open" /\ UNCHANGED <<files, index, pending>>
        /\ pc[c] = "idle" /\ ~Locked /\ mu' = c /\ Staged(c) # {}
        /\ pc' = [pc EXCEPT ![c] = "append"]
    BY DEF CommitStart, Calm, disk
  <1>2. c \in Clients
    BY DEF Clients
  <1>3. pc'[c] = "append" /\ \A d \in Clients \ {c} : pc'[d] = pc[d]
    BY <1>1, <1>2 DEF IndInv, CallersTypeOK
  <1>4. ~Ending /\ ~Ending'
    BY <1>1, <1>3 DEF Ending
  <1>5. Visible' = Visible /\ \A d \in Clients \ {c} : Asked(d)' = Asked(d)
    BY <1>1, <1>3, <1>4, LogUnchanged, BatchQuiet
  <1>6. Asked(c) = NoWrites /\ Asked(c)' = pending[c]
    BY <1>1, <1>3 DEF Asked
  <1>7. pending[c] \in WriteSets \ {NoWrites}
    BY <1>1, <1>2 DEF IndInv, CallersTypeOK, Staged, NoWrites
  <1> QED BY <1>2, <1>5, <1>6, <1>7, BeginStep

LEMMA CommitAppendRefines ==
    ASSUME IndInv, NEW c \in BatchClients, CommitAppend(c)
    PROVE  [KV!Next]_(KV!vars)
  <1>1. /\ phase = "open" /\ phase' = phase /\ UNCHANGED <<index, mu, pending>>
        /\ pc[c] = "append"
        /\ pc' \in {pc, [pc EXCEPT ![c] = "finish"]}
    BY DEF CommitAppend
  <1>2. PICK k \in todo : AppendLogRecord(BatchRecord(c, k), FALSE)
    BY DEF CommitAppend
  <1>3. LogKept
    BY <1>1, <1>2, BatchRecordType, StoreAfterAppend DEF IndInv
  <1>4. c \in Clients /\ mu = c
    BY <1>1, OneCommit DEF Clients, IndInv
  <1>5. pc'[c] \in {"append", "finish"} /\ \A d \in Clients \ {c} : pc'[d] = pc[d]
    BY <1>1, <1>4 DEF IndInv, CallersTypeOK
  <1>6. ~Ending /\ ~Ending'
    BY <1>1, <1>4, <1>5 DEF Ending
  <1>7. Visible' = Visible /\ \A d \in Clients \ {c} : Asked(d)' = Asked(d)
    BY <1>1, <1>3, <1>5, <1>6, BatchQuiet
  <1>8. Asked(c)' = Asked(c)
    BY <1>1, <1>5 DEF Asked
  <1> QED BY <1>7, <1>8, Stutter

\* The append of the end is the instant at which a Commit takes effect.
LEMMA CommitFinishRefines ==
    ASSUME IndInv, NEW c \in BatchClients, CommitFinish(c)
    PROVE  [KV!Next]_(KV!vars)
  <1>1. /\ phase = "open" /\ phase' = phase /\ UNCHANGED <<index, mu, pending>>
        /\ pc[c] = "finish"
        /\ pc' = [pc EXCEPT ![c] = "apply"]
        /\ AppendLogRecord(FinishedRecord, BatchSync)
    BY DEF CommitFinish
  <1>2. /\ c \in Clients /\ mu = c /\ mu # NoClient /\ seqNo # 0
    BY <1>1, OneCommit DEF Clients, IndInv
  <1>3. LogKept
    BY <1>1, <1>2, FinishedRecordType, StoreAfterAppend, OptionsAssumption DEF IndInv
  <1>4. pc'[c] = "apply" /\ \A d \in Clients \ {c} : pc'[d] = pc[d]
    BY <1>1, <1>2 DEF IndInv, CallersTypeOK
  <1>5. ~Ending /\ Ending'
    BY <1>1, <1>2, <1>4 DEF Ending, Locked
  <1>6. \A k \in Keys : IndexView'[k] = IndexView[k]
    BY <1>1, <1>3, IndexViewKept DEF IndInv
  <1>7. Asked(c) = pending[c] /\ Asked(c)' = NoWrites
    BY <1>1, <1>4 DEF Asked
  <1>8. \A k \in Keys : Shown(k)' = IF Asked(c)[k] = NoWrite THEN Shown(k) ELSE Asked(c)[k]
    BY <1>1, <1>2, <1>5, <1>6, <1>7 DEF Shown
  <1>9. Visible' = [k \in Keys |-> IF Asked(c)[k] = NoWrite THEN Visible[k] ELSE Asked(c)[k]]
    BY <1>1, <1>8, VisibleOpen, VisibleOpenNext
  <1>10. \A d \in Clients \ {c} : Asked(d)' = Asked(d)
    BY <1>1, <1>4 DEF Asked
  <1> QED BY <1>2, <1>7, <1>9, <1>10, EndStep

LEMMA CommitFailsRefines ==
    ASSUME NoLateFailure, IndInv, NEW c \in BatchClients, CommitFails(c)
    PROVE  [KV!Next]_(KV!vars)
  <1>1. /\ phase = "open" /\ phase' = phase /\ UNCHANGED <<index, pending>>
        /\ mu = c /\ mu' = NoClient
        /\ pc[c] \in {"append", "finish"}
        /\ pc' = [pc EXCEPT ![c] = "idle"]
    BY DEF CommitFails
  <1>2. c \in Clients /\ seqNo # 0
    BY <1>1, OneCommit DEF Clients, IndInv
  <1>3. LogKept
    <2>1. CASE \E k \in todo : AppendFails(BatchRecord(c, k)) /\ pc[c] = "append"
      BY <1>1, <2>1, BatchRecordType, StoreAfterFailure DEF IndInv
    <2>2. CASE AppendFails(FinishedRecord)
      BY <1>1, <1>2, <2>2, FinishedRecordType, StoreAfterFailure DEF IndInv
    <2> QED BY <2>1, <2>2 DEF CommitFails, NoLateFailure
  <1>4. pc'[c] = "idle" /\ \A d \in Clients \ {c} : pc'[d] = pc[d]
    BY <1>1, <1>2 DEF IndInv, CallersTypeOK
  <1>5. ~Ending /\ ~Ending'
    BY <1>1 DEF Ending, Locked
  <1>6. Visible' = Visible /\ \A d \in Clients \ {c} : Asked(d)' = Asked(d)
    BY <1>1, <1>3, <1>4, <1>5, BatchQuiet
  <1>7. Asked(c)' = NoWrites
    BY <1>4 DEF Asked
  <1> QED BY <1>2, <1>6, <1>7, EndStep

\* While the batch goes into the index, its writes are seen already.
LEMMA CommitIndexRefines ==
    ASSUME IndInv, NEW c \in BatchClients, CommitIndex(c)
    PROVE  [KV!Next]_(KV!vars)
  <1>1. PICK k \in todo : UpdateIndex(k, pending[c][k], positions[c][k])
    BY DEF CommitIndex
  <1>2. /\ phase = "open" /\ phase' = "open" /\ pc[c] = "apply"
        /\ UNCHANGED <<files, mu, pc, pending>>
    BY DEF CommitIndex, disk
  <1>3. /\ c \in Clients /\ mu = c /\ mu # NoClient /\ Ending /\ Ending'
        /\ pending[c][k] # NoWrite
    <2>1. c \in Clients /\ mu = c /\ mu # NoClient
      BY <1>2, OneCommit DEF Clients, IndInv
    <2> QED BY <1>2, <2>1 DEF Ending, Locked, IndInv, LockInv, Staged
  <1>4. \A j \in Keys \ {k} : index'[j] = index[j]
    BY <1>1 DEF UpdateIndex, IndInv, CallersTypeOK
  <1>5. \A j \in Keys \ {k} : IndexView'[j] = IndexView[j]
    BY <1>2, <1>4, LogUnchanged, IndexViewKept DEF IndInv
  <1>6. \A j \in Keys : Shown(j)' = Shown(j)
    BY <1>2, <1>3, <1>5 DEF Shown
  <1>7. Visible' = Visible
    BY <1>2, <1>6, VisibleOpen, VisibleOpenNext
  <1>8. \A d \in Clients : Asked(d)' = Asked(d)
    BY <1>2 DEF Asked
  <1> QED BY <1>7, <1>8, Stutter

\* When Commit releases the lock the index tells what was seen all along.
LEMMA CommitEndRefines ==
    ASSUME AgreeIndInv, NEW c \in BatchClients, CommitEnd(c)
    PROVE  [KV!Next]_(KV!vars)
  <1>0. IndInv /\ OpenInv
    BY DEF AgreeIndInv, AgreeInv, BatchIndInv
  <1>1. /\ phase = "open" /\ phase' = "open" /\ pc[c] = "apply" /\ todo = {}
        /\ UNCHANGED <<files, index>> /\ mu' = NoClient
        /\ pc' = [pc EXCEPT ![c] = "idle"]
        /\ pending' = [pending EXCEPT ![c] = NoWrites]
    BY DEF CommitEnd, disk
  <1>2. /\ c \in Clients /\ mu = c /\ mu # NoClient /\ Ending /\ ~Ending'
    <2>1. c \in Clients /\ mu = c /\ mu # NoClient
      BY <1>0, <1>1, OneCommit DEF Clients, IndInv
    <2> QED BY <1>1, <2>1 DEF Ending, Locked
  <1>3. \A k \in Keys : IndexView'[k] = IndexView[k]
    BY <1>0, <1>1, LogUnchanged, IndexViewKept DEF IndInv
  <1>4. ASSUME NEW k \in Keys, pending[c][k] # NoWrite
        PROVE  IndexView[k] = pending[c][k]
    <2>1. InCall(c, k)
      BY <1>1, <1>4 DEF InCall
    <2>2. IsNewest(Log, k, positions[c][k]) /\ Agrees(Log, k, index[k])
      BY <1>0, <1>1, <1>2, <2>1, OpenInvNow
    <2>3. RecAt(positions[c][k]).val = ValueAt(index[k])
      BY <1>0, <2>2, LogViewReads DEF IndInv
    <2>4. Appended(c, k, seqNo)
      BY <1>0, <1>1, <1>4 DEF IndInv, CallersInv, BatchInv, Written
    <2> QED BY <2>3, <2>4 DEF Appended, IndexView
  <1>5. \A k \in Keys : Shown(k)' = Shown(k)
    BY <1>2, <1>3, <1>4 DEF Shown
  <1>6. Visible' = Visible
    BY <1>1, <1>5, VisibleOpen, VisibleOpenNext
  <1>7. /\ pc'[c] = "idle"
        /\ \A d \in Clients \ {c} : pc'[d] = pc[d] /\ pending'[d] = pending[d]
    BY <1>0, <1>1, <1>2 DEF IndInv, CallersTypeOK
  <1>8. \A d \in Clients : Asked(d)' = Asked(d)
    BY <1>1, <1>7 DEF Asked
  <1> QED BY <1>6, <1>8, Stutter

LEMMA BatchRefines ==
    ASSUME NoLateFailure, AgreeIndInv, NEW c \in BatchClients, BatchStep(c)
    PROVE  [KV!Next]_(KV!vars)
  <1>1. IndInv
    BY DEF AgreeIndInv, BatchIndInv
  <1> QED BY <1>1, StagingRefines, CommitStartRefines, CommitAppendRefines,
             CommitFinishRefines, CommitFailsRefines, CommitIndexRefines, CommitEndRefines
          DEF BatchStep

-----------------------------------------------------------------------------
\* The end of an instance

\* No record is lost.
LEMMA StopKeepsFiles ==
    ASSUME NothingLost, AllSynced, IndInv, Close \/ ProcessCrash \/ PowerLoss
    PROVE  UNCHANGED files /\ Stop
  <1>1. CASE Close \/ ProcessCrash
    BY <1>1 DEF Close, ProcessCrash, disk
  <1>2. CASE PowerLoss
    <2>1. PICK kept \in [FileIds -> 0 .. DataFileSize] :
            /\ \A f \in FileIds : synced[f] =< kept[f] /\ kept[f] =< Len(files[f])
            /\ files' = [f \in FileIds |-> SubSeq(files[f], 1, kept[f])]
      BY <1>2 DEF PowerLoss
    <2>2. files \in [FileIds -> Seq(Records)]
      BY DEF IndInv, StoreInv, StoreTypeOK
    <2>3. ASSUME NEW f \in FileIds
          PROVE  files'[f] = files[f]
      <3>1. synced[f] = Len(files[f]) /\ files[f] \in Seq(Records)
        BY <1>2, <2>2 DEF PowerLoss, NothingLost, AllSynced
      <3>2. kept[f] \in 0 .. DataFileSize
        BY <2>1
      <3>3. Len(files[f]) =< kept[f] /\ kept[f] =< Len(files[f])
        BY <2>1, <3>1
      <3>4. kept[f] = Len(files[f])
        BY <3>1, <3>2, <3>3, SizesAssumption
      <3> QED BY <2>1, <3>1, <3>4, SubSeqFull
    <2>4. files' = files
      BY <2>1, <2>2, <2>3
    <2> QED BY <1>2, <2>4 DEF PowerLoss
  <1> QED BY <1>1, <1>2

\* What the next Open will build holds what was seen, and the Puts and Deletes
\* that had not reached the index: these take effect with the end.
LEMMA StoppedView ==
    ASSUME AgreeIndInv, phase = "open", NEW k \in Keys
    PROVE  /\ \A c \in Clients : pc[c] = "index" /\ pending[c][k] # NoWrite
                                    => LogView[k] = pending[c][k]
           /\ (\A c \in Clients : pc[c] = "index" => pending[c][k] = NoWrite)
                 => LogView[k] = Shown(k)
  <1>0. IndInv /\ OpenInv /\ StoreInv
    BY DEF AgreeIndInv, AgreeInv, BatchIndInv, IndInv
  <1>1. ASSUME NEW c \in Clients, InCall(c, k)
        PROVE  LogView[k] = pending[c][k]
    <2>1. IsNewest(Log, k, positions[c][k])
      BY <1>0, <1>1, OpenInvNow
    <2>2. LogView[k] = RecAt(positions[c][k]).val
      BY <1>0, <2>1, LogViewReads
    <2>3. RecAt(positions[c][k]).val = pending[c][k]
      <3>1. CASE pc[c] = "index"
        <4>1. c \in DirectClients
          BY <1>0, <3>1 DEF IndInv, LockInv, Clients
        <4>2. DirectInv(c)
          BY <1>0, <4>1 DEF IndInv, CallersInv
        <4>3. Appended(c, k, 0)
          BY <1>1, <3>1, <4>2 DEF InCall, DirectInv, Written
        <4> QED BY <4>3 DEF Appended
      <3>2. CASE pc[c] = "apply"
        <4>1. c \in BatchClients
          BY <1>0, <3>2 DEF IndInv, LockInv, Clients
        <4>2. BatchInv(c)
          BY <1>0, <4>1 DEF IndInv, CallersInv
        <4>3. Appended(c, k, seqNo)
          BY <1>1, <3>2, <4>2 DEF InCall, BatchInv, Written
        <4> QED BY <4>3 DEF Appended
      <3> QED BY <1>1, <3>1, <3>2 DEF InCall
    <2> QED BY <2>2, <2>3
  <1>2. ASSUME \A c \in Clients : pc[c] = "index" => pending[c][k] = NoWrite
        PROVE  LogView[k] = Shown(k)
    <2>1. CASE Ending /\ pending[mu][k] # NoWrite
      <3>1. mu \in Clients /\ InCall(mu, k)
        BY <1>0, <2>1, EndingClient DEF IndInv, InCall
      <3> QED BY <1>1, <2>1, <3>1 DEF Shown
    <2>2. CASE ~(Ending /\ pending[mu][k] # NoWrite)
      <3>1. \A c \in Clients : ~InCall(c, k)
        BY <1>0, <1>2, <2>2, EndingClient DEF IndInv, InCall
      <3>2. Agrees(Log, k, index[k])
        BY <1>0, <3>1, OpenInvNow
      <3> QED BY <1>0, <2>2, <3>2, LogViewReads DEF Shown, IndexView
    <2> QED BY <2>1, <2>2
  <1> QED BY <1>1, <1>2 DEF InCall

LEMMA StopRefines ==
    ASSUME AgreeIndInv, UNCHANGED files, Stop
    PROVE  [KV!Next]_(KV!vars)
  <1>1. Visible' = LogView
    BY LogViewSame DEF Visible, Stop
  <1>2. \A c \in Clients : Asked(c)' = NoWrites
    BY DEF Stop, Asked
  <1>3. CASE phase = "open"
    <2>1. PICK applied \in SUBSET Clients : applied = {c \in Clients : pc[c] = "index"}
      OBVIOUS
    <2>2. ASSUME NEW k \in Keys
          PROVE  /\ \A c \in applied : Asked(c)[k] # NoWrite => Visible'[k] = Asked(c)[k]
                 /\ (\A c \in applied : Asked(c)[k] = NoWrite) => Visible'[k] = Visible[k]
      <3>1. \A c \in applied : Asked(c) = pending[c]
        BY <2>1 DEF Asked
      <3>2. Visible[k] = Shown(k)
        BY <1>3, VisibleOpen
      <3> QED BY <1>1, <1>3, <2>1, <3>1, <3>2, StoppedView
    <2> QED BY <1>2, <2>2, CrashStep
  <1>4. CASE phase # "open"
    <2>1. Visible' = Visible
      BY <1>1, <1>4 DEF Visible
    <2>2. \A c \in Clients : Asked(c) = NoWrites
      BY <1>4 DEF AgreeIndInv, AgreeInv, RestInv, Asked
    <2> QED BY <1>2, <2>1, <2>2, Stutter
  <1> QED BY <1>3, <1>4

-----------------------------------------------------------------------------
\* Open

\* Opening shows no reader anything new.
LEMMA OpenRefines ==
    ASSUME AgreeIndInv, OpenDB \/ Load
    PROVE  [KV!Next]_(KV!vars)
  <1>1. /\ phase # "open" /\ UNCHANGED <<files, mu, pc, pending>>
    BY DEF OpenDB, Load, LoadRecord, LoadNextFile, LoadEnd, AtRecord, AtEnd, disk, callers
  <1>2. \A c \in Clients : Asked(c)' = Asked(c)
    BY <1>1 DEF Asked
  <1>3. Visible = LogView /\ LogView' = LogView
    BY <1>1, LogViewSame DEF Visible
  <1>4. CASE phase' # "open"
    <2>1. Visible' = Visible
      BY <1>3, <1>4 DEF Visible
    <2> QED BY <1>2, <2>1, Stutter
  <1>5. CASE phase' = "open"
    <2>1. \A k \in Keys : Agrees(Log, k, index[k]) /\ index'[k] = index[k]
      <3>1. CASE OpenDB
        <4>1. /\ onDisk = {} /\ index = [k \in Keys |-> NoPos] /\ index' = index
          BY <1>5, <3>1 DEF OpenDB, AgreeIndInv, AgreeInv, RestInv
        <4>2. DOMAIN Log = {}
          BY <4>1, LogEntry, LogDomain DEF AgreeIndInv, BatchIndInv, IndInv
        <4> QED BY <4>1, <4>2, EmptyAgrees
      <3>2. CASE Load
        <4>1. LoadEnd
          BY <1>5, <3>2 DEF Load, LoadRecord, LoadNextFile, AtRecord, AtEnd
        <4>2. index' = index
          BY <4>1 DEF LoadEnd
        <4> QED BY <4>1, <4>2, LoadedAll DEF AgreeIndInv, AgreeInv
      <3> QED BY <3>1, <3>2
    <2>2. mu' = NoClient
      BY <1>1 DEF AgreeIndInv, BatchIndInv, IndInv, LockInv
    <2>3. ASSUME NEW k \in Keys
          PROVE  Shown(k)' = LogView[k]
      <3>1. LogView[k] = IndexView[k]
        BY <2>1, LogViewReads DEF IndexView, AgreeIndInv, BatchIndInv, IndInv
      <3>2. IndexView'[k] = IndexView[k]
        BY <1>1, <2>1, LogUnchanged, IndexViewKept DEF AgreeIndInv, BatchIndInv, IndInv
      <3> QED BY <2>2, <3>1, <3>2 DEF Shown, Ending, Locked
    <2>4. LogView = [k \in Keys |-> LogView[k]]
      BY DEF LogView
    <2>5. Visible' = [k \in Keys |-> Shown(k)']
      BY <1>5, VisibleOpenNext
    <2>6. Visible' = Visible
      BY <1>3, <2>3, <2>4, <2>5
    <2> QED BY <1>2, <2>6, Stutter
  <1> QED BY <1>4, <1>5

-----------------------------------------------------------------------------
\* The refinement

LEMMA InitRefines ==
    ASSUME Init
    PROVE  KV!Init
  <1>1. LogPositions = {}
    BY DEF Init, LogPositions, Positions
  <1>2. \A k \in Keys : Effective(k) = {}
    BY <1>1 DEF Effective
  <1>3. Visible = [k \in Keys |-> Tombstone]
    BY <1>2 DEF Init, Visible, LogView
  <1>4. InFlight = [c \in Clients |-> KV!NoChange]
    BY DEF Init, InFlight, NoWrites, KV!NoChange
  <1> QED BY <1>3, <1>4 DEF KV!Init

\* Every step of the engine is a step of the map, or a stutter.
LEMMA NextRefines ==
    ASSUME DisjointKeys, NoLateFailure, NothingLost, AgreeIndInv, [Next]_vars
    PROVE  [KV!Next]_(KV!vars)
  <1>0. IndInv /\ AllSynced
    BY DEF AgreeIndInv, AgreeInv, BatchIndInv
  <1>1. CASE \E c \in DirectClients : DirectStep(c)
    BY <1>1, DirectRefines
  <1>2. CASE \E c \in BatchClients : BatchStep(c)
    BY <1>2, BatchRefines
  <1>3. CASE Close \/ ProcessCrash \/ PowerLoss
    BY <1>0, <1>3, StopKeepsFiles, StopRefines
  <1>4. CASE OpenDB \/ Load
    BY <1>4, OpenRefines
  <1>5. CASE Sync \/ UNCHANGED vars
    <2>1. UNCHANGED <<files, phase, index, mu, pc, pending>>
      BY <1>5 DEF Sync, vars, disk, callers
    <2>2. Visible' = Visible
      <3>1. CASE phase = "open"
        BY <1>0, <2>1, <3>1, LogUnchanged, ShownSame DEF IndInv, Ending, Locked
      <3>2. CASE phase # "open"
        BY <2>1, <3>2, LogViewSame DEF Visible
      <3> QED BY <3>1, <3>2
    <2>3. \A c \in Clients : Asked(c)' = Asked(c)
      BY <2>1 DEF Asked
    <2> QED BY <2>2, <2>3, Stutter
  <1> QED BY <1>1, <1>2, <1>3, <1>4, <1>5 DEF Next

\* The engine behaves as one map: every Put, Delete and Commit takes effect as
\* a whole at one instant between its call and its return, or fails and leaves
\* no trace, and what has taken effect survives Close, crashes and losses of
\* power (db.go, batch.go).
THEOREM EngineIsOneMap ==
    ASSUME DisjointKeys, NoLateFailure, NothingLost
    PROVE  Spec => Refines
  <1>1. Init => KV!Init
    BY InitRefines
  <1>2. AgreeIndInv /\ [Next]_vars => [KV!Next]_(KV!vars)
    BY NextRefines
  <1> QED BY <1>1, <1>2, AgreeInvariance, PTL DEF Spec, Refines, KV!Spec
=============================================================================
