CONSTANTS
    r1 = r1
    fd = fd
    w1 = w1
    Readers = {r1}
    Words = {fd, w1}
    FdWord = fd
    MaxUpdates = 3
    MaxRestarts = 1
CHECK_DEADLOCK FALSE
SPECIFICATION FairSpec
INVARIANT TypeOK
INVARIANT NoTornRead
PROPERTY ReadsAdvance
PROPERTY ClientsCatchUp
PROPERTY ImplementsSnapshot
