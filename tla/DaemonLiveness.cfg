CONSTANTS
    p1 = p1
    p2 = p2
    NoPath = NoPath
    MaxDevices = 1
    MaxSubscribers = 1
    Fds = {3, 4, 5, 6}
    Paths = {p1}
    CommandLine = {p1}
    RtcmPaths = {p1}
    Nowait = FALSE
    ControlSocket = TRUE
    Reconfigure = TRUE
    MaxLeaked = 1
    ClockRuns = TRUE
    COMMAND_TIMEOUT = 0
    RELEASE_TIMEOUT = 0
    DEVICE_REAWAKE = 0
    DEVICE_RECONNECT = 0
CHECK_DEADLOCK FALSE
SPECIFICATION BusySpec
INVARIANT TypeOK
PROPERTY WatchedDeviceStaysOpen
PROPERTY ZeroReadIsRepolled
PROPERTY WatchedDeviceReopens
PROPERTY UnneededDeviceCloses
