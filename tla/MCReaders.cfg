SPECIFICATION Spec
CONSTANTS
    PutKeys <- OnePut
    BatchKeys <- TwoInBatch
    IterPrefixes <- AllOrOne
    SeekKeys <- BetweenAndOn
    Putters = {p1}
    Committers = {b1}
    Readers = {r1, r2}
    Iterating = {r2}
    NoWriter = NoWriter
INVARIANTS
    FoldInv
    FoldWhole
    IterInv
    IterationComplete
PROPERTIES
    EveryCallReturns
