\* Spec section 6: malformed history lines are fatal.
CONSTANTS
  Buffers <- HistoryFiles
  TargetTLIs = {3}
SPECIFICATION Spec
CHECK_DEADLOCK FALSE
INVARIANTS
  SpecMalformedRejected
