CONSTANTS
    Shapes = {"short", "inverted", "square", "half", "hidden"}
    Phases = {0, 5}
    Delay = 2
    FixesWanted = 1
    Begin = 105
    End = 130
    MaxUnread = 2
    MaxBehind = 1
    MaxMishaps = 1
CHECK_DEADLOCK FALSE
SPECIFICATION Spec
PROPERTY LabelIsRight
PROPERTY SampleSpansOnePut
INVARIANT OneSamplePerSecond
