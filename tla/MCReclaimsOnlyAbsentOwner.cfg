SPECIFICATION SessionSpec
CONSTANTS
    Proc = {c1, c2, c3}
    Mortal = {c1}
    Raising = {}
    MaxAcquires = 1
    MaxPolls = 1
PROPERTY
    ReclaimsOnlyAbsentOwner
CHECK_DEADLOCK FALSE
