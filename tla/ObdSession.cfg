CONSTANT MaxAttempts = 3
CHECK_DEADLOCK FALSE
SPECIFICATION FairSpec
INVARIANT SocketsAreOwned
PROPERTY DeadConnectionIsCleared
