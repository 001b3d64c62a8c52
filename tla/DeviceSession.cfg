CONSTANTS
    HuntRates <- MCHuntRates
    OtherRates = {12}
    ProbeRate = 96
    SniffRetries = 3
    Receivers <- MCReceivers
    MaxOpens = 2
    MaxSpoilt = 1
    MaxConfigures = 1
    MaxPlugs = 1
CHECK_DEADLOCK FALSE
SPECIFICATION FairSpec
INVARIANT HuntIsComplete
INVARIANT SavedSpeedWasHeard
PROPERTY SyncIsFound
