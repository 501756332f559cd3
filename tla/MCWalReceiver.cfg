\* Durability of what is published and acknowledged, under crashes and
\* restarts at a segment start below the flushed position.
CONSTANTS
  SegSize = 2
  NumSegs = 2
  MaxFrame = 1
  MaxChan = 1
  ReceiverTimeout = 0
  StatusIntervals = {0}
  FeedbackValues = {FALSE}
  ArchiveAlways = FALSE
  MaxCrashes = 1
  MaxKeepalives = 1
  KeepaliveReplies = {TRUE}
  MaxTLI = 1
SPECIFICATION Spec
INVARIANTS
  TypeOK
  FlushedUptoDurable
  AckedFlushDurable
  CompleteSegmentArchiveStatus
PROPERTIES
  ReceiverFlushMonotone
