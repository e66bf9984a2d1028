CONSTANTS
    Now = 1763200000
    Firsts <- MCSysV
    Seconds = {}
    Overs = {}
    Lens = {2, 14}
    MaxFiles = 2
SPECIFICATION Spec
INVARIANT
    SysVDetected
CHECK_DEADLOCK FALSE
