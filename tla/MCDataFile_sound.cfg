SPECIFICATION Spec
CONSTANTS
    k1 = k1
    k2 = k2
    v1 = v1
    v2 = v2
    Keys = {k1, k2}
    Values = {v1, v2}
    Faults = {"write", "sync", "power", "zeros"}
    MaxCells = 22
    MaxFaults = 2
    Tombstone = Tombstone
    Nothing = Nothing
INVARIANTS
    FileIndInv
    EntriesRead
    SyncedKept
SYMMETRY Symmetry
