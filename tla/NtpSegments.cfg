CONSTANTS
    MaxDevices = 2
    NTPSHMSEGS = 4
    Attached = {0, 1, 2, 3}
    Pps = TRUE
    MaxAdds = 3
CHECK_DEADLOCK FALSE
SPECIFICATION FairSpec
INVARIANT UndisturbedSegmentsAreExclusive
INVARIANT OneLatePulse
PROPERTY StoppedThreadsEnd
