--------------------------- MODULE TreeInvariant ---------------------------
(***************************************************************************)
(* The inductive invariants behind the properties of TreeStore: the first  *)
(* for any callers, the second when no key has two writers.                *)
(***************************************************************************)
EXTENDS TreeStore

DisjointKeys == \A c, d \in Clients : c # d => KeysOf[c] \cap KeysOf[d] = {}

Records == [seq : Nat, key : Keys \cup {TxnFinKey}, val : Values \cup {Tombstone, Finished}]
Positions == [fid : FileIds \cup {NoFile}, off : Nat]
Writes == Values \cup {Tombstone, NoWrite}

DirectoryTypeOK ==
    /\ files \in [FileIds -> Seq(Records)]
    /\ lastFile \in FileIds \cup {NoFile}
    /\ seqNoFile \in Nat \cup {NoSeqNo, EmptySeqNo}
    /\ diskTree \in [Keys -> Positions]
    /\ tree \in [Keys -> Positions]
CallersTypeOK ==
    /\ pc \in [Clients -> {"idle", "index", "append", "finish", "apply"}]
    /\ pending \in [Clients -> [Keys -> Writes]]
    /\ positions \in [Clients -> [Keys -> Positions]]
    /\ todo \subseteq Keys
    /\ acked \in [Keys -> [pos : Positions, val : Writes]]

\* The instance writes behind the last record and works on the file that the
\* next Open finds.
InstanceInv ==
    /\ phase \in {"closed", "open"}
    /\ linked
    /\ lastFile # 1 => files[1] = <<>>
    /\ lastFile = NoFile => files[0] = <<>>
    /\ seqNo \in Nat
    /\ redirected => merged # <<>>
    /\ phase = "open" => tree = diskTree /\ writeOff = SizeOfLastFile

\* db.mu is held by the one client inside Commit; a direct writer has one key.
DirectLock(c) ==
    /\ pc[c] \in {"idle", "index"}
    /\ pc[c] = "idle" => Staged(c) = {}
    /\ pc[c] = "index" => \E k \in Keys : Staged(c) = {k}
BatchLock(c) ==
    /\ pc[c] \in {"idle", "append", "finish", "apply"}
    /\ pc[c] # "idle" <=> mu = c
    /\ pc[c] \in {"append", "apply"} => todo \subseteq Staged(c)
LockInv ==
    /\ mu \in BatchClients \cup {NoClient}
    /\ \A c \in DirectClients : DirectLock(c)
    /\ \A c \in BatchClients : BatchLock(c)
    /\ \A c \in Clients : Staged(c) \subseteq KeysOf[c]
    /\ phase = "closed" => mu = NoClient /\ \A c \in Clients : pc[c] = "idle"

\* Where a call says it has written a record, that record stands.
Written(c, k) ==
    pc[c] # "idle" /\ pending[c][k] # NoWrite /\ (pc[c] = "append" => k \notin todo)
Number(c) == IF c \in DirectClients THEN 0 ELSE seqNo
WrittenOf(c) == \A k \in Keys : Written(c, k) =>
    /\ positions[c][k] \in LogPositions
    /\ RecAt(positions[c][k]) = [seq |-> Number(c), key |-> k, val |-> pending[c][k]]
WrittenInv == \A c \in Clients : WrittenOf(c)

\* The end of a batch precedes its entries in the tree.
FinishOf(c) == pc[c] = "apply" =>
    \E q \in LogPositions : RecAt(q).val = Finished /\ RecAt(q).seq = seqNo
FinishInv == \A c \in BatchClients : FinishOf(c)

\* What Close writes to seq-no, and Open finds there, is no less than any
\* number in the log.
NumbersInv == ~crashed =>
    /\ seqNoFile # EmptySeqNo
    /\ phase = "open" => \A p \in LogPositions : RecAt(p).seq =< seqNo
    /\ phase = "closed" /\ merged = <<>> /\ lastFile # NoFile =>
          seqNoFile \in Nat /\ \A p \in LogPositions : RecAt(p).seq =< seqNoFile

SoundInv ==
    /\ DirectoryTypeOK /\ CallersTypeOK /\ InstanceInv /\ LockInv
    /\ WrittenInv /\ FinishInv /\ EntriesSound /\ NumbersInv

-----------------------------------------------------------------------------
\* When no key has two writers

\* Nobody writes a key behind the back of its writer.
NewestOf(c) == \A k \in Keys : Written(c, k) =>
    \A p \in LogPositions : RecAt(p).key = k =>
        p = positions[c][k] \/ Before(p, positions[c][k])
NewestInv == \A c \in Clients : NewestOf(c)

EntryOf(c, k) == IF pending[c][k] = Tombstone THEN NoPos ELSE positions[c][k]
AppliedInv == \A c \in BatchClients : pc[c] = "apply" =>
    \A k \in Staged(c) \ todo : diskTree[k] = EntryOf(c, k)

AckedInv == \A k \in Keys : acked[k] # NoAck =>
    /\ acked[k].pos \in LogPositions /\ RecAt(acked[k].pos).key = k
    /\ Shows(k, acked[k].pos)

\* The records that carry the number of the Commit in progress are its own.
RunningInv == ~crashed => \A c \in BatchClients : mu = c =>
    \A p \in LogPositions : RecAt(p).seq = seqNo /\ RecAt(p).key \in Keys =>
        Written(c, RecAt(p).key) /\ positions[c][RecAt(p).key] = p

\* Every other batch can be seen.
ShownInv == ~crashed => \A p \in LogPositions :
    RecAt(p).seq # 0 /\ RecAt(p).key \in Keys /\ (Locked => RecAt(p).seq # seqNo) =>
        Shows(RecAt(p).key, p)

VisibleInv == NewestInv /\ AppliedInv /\ AckedInv /\ RunningInv /\ ShownInv

\* An Open that moves the files of a Merge in ends all of it.
TreeIndInv == ~replaced => SoundInv /\ VisibleInv
=============================================================================
