CONSTANTS
    p1 = p1
    p2 = p2
    t1 = t1
    NoPath = NoPath
    MaxDevices = 1
    MaxSubscribers = 2
    Fds = {3, 4}
    Paths = {p1}
    CommandLine = {p1}
    RtcmPaths = {}
    Nowait = TRUE
    ControlSocket = TRUE
    Reconfigure = TRUE
    ClockRuns = FALSE
    COMMAND_TIMEOUT = 0
    RELEASE_TIMEOUT = 0
    DEVICE_REAWAKE = 0
    DEVICE_RECONNECT = 0
    MaxLeaked = 1
    Threads = {t1}
CHECK_DEADLOCK FALSE
CONSTRAINT Undisturbed
SPECIFICATION ThreadHupSpec
INVARIANT OneOwnerBetween
INVARIANT FreeSlotsAreCleanBetween
INVARIANT NoDescriptorLostBetween
INVARIANT EveryoneIsHeardBetween
INVARIANT OpenDevicesAreInPool
