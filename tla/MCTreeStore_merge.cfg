SPECIFICATION Spec
CONSTANTS
    k1 = k1
    k2 = k2
    k3 = k3
    v1 = v1
    d1 = d1
    b1 = b1
    Keys = {k1, k2, k3}
    Values = {v1}
    DirectClients = {d1}
    BatchClients = {b1}
    KeysOf <- Disjoint
    Faults = {"merge"}
    MaxRecords = 5
    MaxSeqNo = 3
    NoClient = NoClient
    TxnFinKey = TxnFinKey
    Tombstone = Tombstone
    Finished = Finished
    NoWrite = NoWrite
INVARIANTS
    ReadableAfterMerge
