CONSTANTS
    Runs = {r1, r2}
    NSub = 2
    MaxFaults = 0
    MaxCrashes = 0
SPECIFICATION Spec
CHECK_DEADLOCK FALSE
INVARIANTS
    SharedDirectoryUsed
