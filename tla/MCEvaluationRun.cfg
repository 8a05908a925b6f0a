CONSTANTS
    NEval <- MCNEval
    NCase <- MCNCase
    Answers <- MCAnswers
    MaxStops <- MCMaxStops
SPECIFICATION FairSpec
INVARIANTS
    TypeOK
    DetailsAreCurrent
    ZeroMeansPassed
PROPERTIES
    ResultsAreFinal
    ImplementsPromise
    ResumedRunCompletes
CHECK_DEADLOCK FALSE
