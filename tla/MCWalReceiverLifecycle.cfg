\* The shared lifecycle state against the process, under shutdowns,
\* restarts and a crash, and its refinement of WalRcvLifecycle; frames
\* here cross segment boundaries, so flushedUpto is checked too.  Forced
\* replies, restarts and shutdowns complete, with the receiver process and
\* the startup process's own steps weakly fair and the crash not.
CONSTANTS
  SegSize = 1
  NumSegs = 2
  MaxFrame = 2
  MaxChan = 1
  ReceiverTimeout = 0
  StatusIntervals = {0}
  FeedbackValues = {FALSE}
  ArchiveAlways = FALSE
  MaxCrashes = 1
  MaxKeepalives = 1
  KeepaliveReplies = {FALSE, TRUE}
  MaxTLI = 1
SPECIFICATION Spec
INVARIANTS
  LifecycleConsistent
  FlushedUptoDurable
PROPERTIES
  LifecycleRefined
  ForceReplyHonored
  RestartHonored
  ShutdownCompletes
