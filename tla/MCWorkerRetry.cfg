CONSTANTS
    MaxAttempts = 2
    MaxBeats = 1
    MaxTorn = 1
    MaxStops = 1
    Measures <- MCMeasures
    Raising <- MCRaising
SPECIFICATION Spec
INVARIANTS
    NoStaleResponse
    NumberedWithoutGap
    TranscriptIsClosed
CHECK_DEADLOCK FALSE
