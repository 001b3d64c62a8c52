CONSTANTS
    p1 = p1
    p2 = p2
    NoPath = NoPath
    MaxDevices = 2
    MaxSubscribers = 1
    Fds = {3, 4, 5}
    Paths = {p1}
    CommandLine = {p1}
    RtcmPaths = {}
    Nowait = FALSE
    ControlSocket = FALSE
    Reconfigure = FALSE
    MaxLeaked = 1
    ClockRuns = FALSE
    COMMAND_TIMEOUT = 0
    RELEASE_TIMEOUT = 0
    DEVICE_REAWAKE = 0
    DEVICE_RECONNECT = 0
CHECK_DEADLOCK FALSE
SPECIFICATION HupSpec
INVARIANT SelectSetValid
