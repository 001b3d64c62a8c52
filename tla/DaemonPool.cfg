CONSTANTS
    p1 = p1
    p2 = p2
    t1 = t1
    NoPath = NoPath
    MaxDevices = 2
    MaxSubscribers = 1
    Fds = {3, 4}
    Paths = {p1, p2}
    CommandLine = {p1, p2}
    RtcmPaths = {}
    Nowait = TRUE
    ControlSocket = TRUE
    Reconfigure = FALSE
    ClockRuns = FALSE
    COMMAND_TIMEOUT = 0
    RELEASE_TIMEOUT = 0
    DEVICE_REAWAKE = 0
    DEVICE_RECONNECT = 0
    MaxLeaked = 0
    Threads = {t1}
CONSTRAINT Undisturbed
INVARIANT PathsAreUnique
SYMMETRY SwapPaths
CHECK_DEADLOCK FALSE

SPECIFICATION ThreadSpec
INVARIANT SelectSetValidBetween
