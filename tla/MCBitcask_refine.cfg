SPECIFICATION Spec
CONSTANTS
    k1 = k1
    k2 = k2
    k3 = k3
    v1 = v1
    v2 = v2
    d1 = d1
    d2 = d2
    b1 = b1
    Keys = {k1, k2, k3}
    Values = {v1}
    DirectClients = {d1}
    BatchClients = {b1}
    KeysOf <- Disjoint
    DataFileSize = 3
    SyncWrites = TRUE
    BytesPerSync = 0
    BatchSync = FALSE
    MaxBatchNum = 2
    Faults = {"open", "write", "crash", "power"}
    MaxFileId = 1
    MaxSeqNo = 2
    NoClient = NoClient
    TxnFinKey = TxnFinKey
    Tombstone = Tombstone
    Finished = Finished
    NoWrite = NoWrite
INVARIANTS
    AgreeIndInv
    IndexAgrees
PROPERTIES
    Refines
SYMMETRY BatchSymmetry
