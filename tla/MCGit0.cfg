CONSTANTS
    InitRuns = {r1, r2}
    NSub = 2
    MaxFaults = 1
    MaxCrashes = 1
    CatRuns = {c1, c2}
    Objects <- MCObjects
    TempNames = {t1}
    W = 4
    MaxShortWrites = 1
SPECIFICATION Spec
\* The tools end: once every invocation has exited, nothing is left to do.
CHECK_DEADLOCK FALSE
INVARIANTS
    TypeOK
    SuccessMeansStore
    PrintedFileHoldsObject
