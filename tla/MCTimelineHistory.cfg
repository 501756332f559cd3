\* sscanf and the line cutting on every short buffer, and multi-line
\* history files: ordering of TLIs, chaining of entries, target.
CONSTANTS
  Buffers <- AllBuffers
  TargetTLIs = {0, 1, 2, 3, 11}
SPECIFICATION Spec
\* The parse ends: a run stops once the buffer is parsed or rejected.
CHECK_DEADLOCK FALSE
INVARIANTS
  TypeOK
  ParseMatchesReference
