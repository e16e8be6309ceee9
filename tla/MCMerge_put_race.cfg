SPECIFICATION Spec
CONSTANTS
    k1 = k1
    k2 = k2
    v1 = v1
    v2 = v2
    d1 = d1
    b1 = b1
    Keys = {k1}
    Values = {v1, v2}
    DirectClients = {d1}
    BatchClients = {}
    DataFileSize = 2
    SyncWrites = FALSE
    BatchSync = FALSE
    Faults = {}
    MaxFileId = 3
    MaxSeqNo = 1
    MaxDir = 1
    NoClient = NoClient
    TxnFinKey = TxnFinKey
    Tombstone = Tombstone
    Finished = Finished
    NoHint = NoHint
    Unreadable = Unreadable
INVARIANTS
    MergeEquivalent
SYMMETRY Symmetry
