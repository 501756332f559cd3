\* The spec's "only completed segments are marked" with archive_mode=always.
CONSTANTS
  SegSize = 2
  NumSegs = 1
  MaxFrame = 1
  MaxChan = 1
  ReceiverTimeout = 0
  StatusIntervals = {0}
  FeedbackValues = {FALSE}
  ArchiveAlways = TRUE
  MaxCrashes = 0
  MaxKeepalives = 0
  KeepaliveReplies = {TRUE}
  MaxTLI = 1
SPECIFICATION Spec
INVARIANTS
  SpecOnlyCompleteSegmentsReady
