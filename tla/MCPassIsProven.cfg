CONSTANTS
    MaxAttempts = 1
    MaxBeats = 0
    MaxTorn = 0
    MaxStops = 0
    Measures <- MCMeasures
    Raising <- MCRaising
SPECIFICATION Spec
INVARIANT
    PassIsProven
CHECK_DEADLOCK FALSE
