CONSTANTS
    Now = 1763200000
    Firsts <- MCFirsts
    Seconds <- MCSeconds
    Overs <- MCOvers
    Lens = {2, 14}
    MaxFiles = 2
SPECIFICATION Spec
INVARIANTS
    Recognised
    FsckExact
    ScanFinds
CHECK_DEADLOCK FALSE
