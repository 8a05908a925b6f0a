CONSTANTS
    MaxAttempts = 1
    MaxBeats = 0
    MaxTorn = 1
    MaxStops = 1
    Measures <- MCMeasures
    Raising <- MCRaising
SPECIFICATION FairSpec
INVARIANTS
    TypeOK
    MeasuredOnlyIfCorrect
PROPERTY
    RunEnds
CHECK_DEADLOCK FALSE
