CONSTANTS
    MaxAttempts = 1
    MaxOpens = 2
    MaxRecordings = 2
CHECK_DEADLOCK FALSE
CONSTRAINT OneOfEither
SPECIFICATION Spec
INVARIANT BackgroundCameraIsClosed
INVARIANT StuckOnlyByOpening
INVARIANT RecordingHasReadings
INVARIANT LateLinesBounded
PROPERTY ImplementsSession
