SPECIFICATION PoolFairSpec
CONSTANTS
    Slots = 4
    Writers = {t1, t2}
    Readers = {t1, t2}
    Elem = {0, 1, 2}
    NoElem = NoElem
    MaxLag = 3
INVARIANT NoCorruption
PROPERTY CommitEnds
