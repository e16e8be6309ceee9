SPECIFICATION Spec
CONSTANTS
    k1 = k1
    m1 = m1
    m2 = m2
    x1 = x1
    e1 = e1
    w1 = w1
    r1 = r1
    Keys = {k1}
    Members = {m1, m2}
    Scores = {1, 2}
    Values = {x1}
    Elements = {e1}
    Writers = {w1}
    Readers = {r1}
    KeysOf <- Shared
    Faults = {"batch", "direct"}
    MaxVersion = 2
    MinIndex <- IndexFloor
    MaxIndex <- IndexCeiling
    Nil = Nil
    Gone = Gone
INVARIANTS
    RedisIndInv
    SizeIsCount
    ScoresAgree
    ListIsWhole
    ReadsAreCurrent
PROPERTIES
    Refines
SYMMETRY Symmetry
