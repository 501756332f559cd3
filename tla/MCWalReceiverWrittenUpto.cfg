\* The spec's flushedUpto <= writtenUpto against a receiver restart.
CONSTANTS
  SegSize = 1
  NumSegs = 2
  MaxFrame = 1
  MaxChan = 1
  ReceiverTimeout = 0
  StatusIntervals = {0}
  FeedbackValues = {FALSE}
  ArchiveAlways = FALSE
  MaxCrashes = 0
  MaxKeepalives = 0
  KeepaliveReplies = {TRUE}
  MaxTLI = 1
SPECIFICATION Spec
INVARIANTS
  SpecFlushedBelowWritten
