CONSTANTS
    NEval <- MCNEval
    NCase <- MCNCase
    Answers <- MCAnswers
    MaxStops <- MCMaxStops
SPECIFICATION Spec
INVARIANT
    FailuresHaveNoSamples
CHECK_DEADLOCK FALSE
