\* The reporter's timers and hot standby feedback under configuration
\* reloads, keepalives and the silence timeout; a primary that switches
\* to timeline 2 at any connection or end of streaming, and one crash, so
\* that the history file fetch is cut short and redone.
CONSTANTS
  SegSize = 1
  NumSegs = 1
  MaxFrame = 1
  MaxChan = 1
  ReceiverTimeout = 2
  StatusIntervals = {0, 1}
  FeedbackValues = {FALSE, TRUE}
  ArchiveAlways = FALSE
  MaxCrashes = 1
  MaxKeepalives = 1
  KeepaliveReplies = {FALSE, TRUE}
  MaxTLI = 2
SPECIFICATION Spec
INVARIANTS
  ForgottenXminCleared
  HistoryBeforeStream
PROPERTIES
  TimerRearmed
  TerminateOnlyAfterSilence
