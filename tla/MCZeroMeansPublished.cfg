CONSTANTS
    NEval <- MCNEval
    NCase <- MCNCase
    Answers <- MCAnswers
    MaxStops <- MCMaxStops
SPECIFICATION Spec
INVARIANT
    ZeroMeansPublished
CHECK_DEADLOCK FALSE
