CONSTANTS
    p1 = p1
    p2 = p2
    n1 = n1
    n2 = n2
    Procs <- MCProcs
    Names <- MCNames
    W = 6
    TotalSize = 24
    HeaderSize = 1
    MaxAlign = 1
    CacheLine = 4
    SlockSize = 1
    VarCacheSize = 1
    IndexSize = 2
    IndexElems = 1
    NElemAlloc = 1
    ElemChunk = 1
    Requests <- MCHugeRequests
    MaxCalls = 2
SPECIFICATION Spec
\* each backend makes MaxCalls calls; the model ends when all have returned
CHECK_DEADLOCK FALSE
INVARIANT
    AllocationsDisjoint
