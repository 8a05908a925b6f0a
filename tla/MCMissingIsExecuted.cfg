CONSTANTS
    MaxAttempts = 2
    MaxBeats = 0
    MaxTorn = 0
    MaxStops = 1
    Measures <- MCMeasures
    Raising <- MCRaising
SPECIFICATION Spec
INVARIANT
    MissingIsExecuted
CHECK_DEADLOCK FALSE
