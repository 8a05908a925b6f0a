SPECIFICATION SessionSpec
CONSTANTS
    Proc = {c1, c2, c3}
    Mortal = {c1}
    Raising = {c2}
    MaxAcquires = 1
    MaxPolls = 1
INVARIANT
    OneWorkerPerGpu
CHECK_DEADLOCK FALSE
