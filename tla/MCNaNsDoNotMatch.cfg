CONSTANTS
    Finite = {0, 2}
    NIndices = 3
    K = 2
    Score = {0, 1, 2}
    ScoreTolerance = 1
    MaxCode = 1
    OutputTolerance = 1
SPECIFICATION VerdictSpec
INVARIANT
    NaNsDoNotMatch
CHECK_DEADLOCK FALSE
