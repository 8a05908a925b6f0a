SPECIFICATION FairSession
CONSTANTS
    Proc = {c1, c2, c3}
    Mortal = {c1}
    Raising = {c2}
    MaxAcquires = 1
    MaxPolls = 1
INVARIANTS
    SessionTypeOK
    ExclusionUnlessStale
    OneWorkerUnlessStale
PROPERTY
    AcquireTerminates
CHECK_DEADLOCK FALSE
