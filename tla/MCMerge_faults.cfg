SPECIFICATION Spec
CONSTANTS
    k1 = k1
    k2 = k2
    v1 = v1
    v2 = v2
    d1 = d1
    b1 = b1
    Keys = {k1, k2}
    Values = {v1}
    DirectClients = {d1}
    BatchClients = {}
    DataFileSize = 1
    SyncWrites = FALSE
    BatchSync = FALSE
    Faults = {"crash", "swap", "merge", "rename"}
    MaxFileId = 3
    MaxSeqNo = 1
    MaxDir = 1
    NoClient = NoClient
    TxnFinKey = TxnFinKey
    Tombstone = Tombstone
    Finished = Finished
    NoHint = NoHint
    Unreadable = Unreadable
INVARIANTS
    MergeIndInv
    HintSound
    WritersApart
SYMMETRY Symmetry
