\* One page header under every sequence of setter calls: LSNs on both
\* sides of the half boundary, xids that wrap past 2^XidBits within half
\* the circle, new and initialised pages with 0 to 2 line pointers.
CONSTANTS
    HalfBits = 3
    XidBits = 4
    SizeBits = 30
    BLCKSZ = 8192
    SpecialSizes = {0, 16}
    MaxItems = 2
    Lsns = {5, 8, 63}
    Xids = {13, 15, 4}
    PageSizes = {8192, 32768}
    Versions = {4, 255}
SPECIFICATION Spec
INVARIANTS
    TypeOK
    HeaderFieldsReadBack
    FlagsTrackCalls
    PrunableIsOldest
    LinePointerCount
    PageAreasLaidOut
