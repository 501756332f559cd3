----------------------------- MODULE WalReceiver -----------------------------
(***************************************************************************)
(* The WAL receiver process of a PostgreSQL standby                        *)
(* (src/src/backend/replication/walreceiver.c) together with the actors   *)
(* it shares state with: the startup (recovery) process, the postmaster   *)
(* that launches it, the walsender on the primary that streams frames to  *)
(* it, the clock that drives its wakeup timers, and server crashes.       *)
(*                                                                         *)
(* Data is abstracted to positions: the primary's WAL is the positions    *)
(* 0 .. MaxLSN-1 of one timeline, and the standby's pg_wal keeps, per     *)
(* position, whether the byte is absent, written (in the OS cache) or     *)
(* synced (durable).  Timestamps are abstracted to the distance, in       *)
(* ticks, of each wakeup from now.                                         *)
(***************************************************************************)
EXTENDS Integers, Sequences, FiniteSetsExt

CONSTANTS
  SegSize,          \* wal_segment_size, in positions
  NumSegs,          \* segments spanned by the primary's WAL
  MaxFrame,         \* largest payload of one 'w' frame
  MaxChan,          \* frames the socket holds before the walsender blocks
  ReceiverTimeout,  \* wal_receiver_timeout, in ticks (0 disables it)
  StatusIntervals,  \* values wal_receiver_status_interval may be reloaded to
  FeedbackValues,   \* values hot_standby_feedback may be reloaded to
  ArchiveAlways,    \* XLogArchiveMode = ARCHIVE_MODE_ALWAYS
  MaxCrashes,       \* bound on server crashes (PANIC or power failure)
  MaxKeepalives,    \* bound on keepalives the walsender sends per connection
  KeepaliveReplies, \* values of the reply-requested flag of its keepalives
  MaxTLI            \* highest timeline the primary may report (1: no switch)

ASSUME SegSize \in Nat \ {0} /\ NumSegs \in Nat \ {0}
ASSUME MaxFrame \in Nat \ {0} /\ MaxChan \in Nat \ {0}
ASSUME ReceiverTimeout \in Nat /\ StatusIntervals \subseteq Nat
ASSUME FeedbackValues \subseteq BOOLEAN /\ ArchiveAlways \in BOOLEAN
ASSUME MaxCrashes \in Nat /\ MaxKeepalives \in Nat
ASSUME KeepaliveReplies \subseteq BOOLEAN
ASSUME MaxTLI \in Nat \ {0}

MaxLSN == SegSize * NumSegs
Pos    == 0 .. MaxLSN
Segs   == 0 .. NumSegs - 1

\* TIMESTAMP_INFINITY: a wakeup distance no tick ever brings to zero.
MaxWake == Max({ReceiverTimeout} \cup StatusIntervals)
TIMESTAMP_INFINITY == MaxWake + 1

\* WalRcvWakeupReason
Reasons == {"TERMINATE", "PING", "REPLY", "HSFEEDBACK"}

\* WalRcvState
States == {"STOPPED", "STARTING", "STREAMING", "WAITING", "RESTARTING",
           "STOPPING"}

\* Control points of the receiver process; "none" is no process at all.
PCs == {"none", "launched", "connect", "identify", "fetch", "fetchmark",
        "looptop", "drain", "write", "wait", "forced", "endstream",
        "waitstart", "waitcheck", "sleepstart", "exit"}

\* Timelines that have a history file (there is none for timeline 1).
HistTLIs == 2 .. MaxTLI
NoFetch == [tli |-> 0, cont |-> "none"]

\* Frames the walsender puts on the connection: 'w' data, 'k' keepalive,
\* end of COPY (walrcv_receive returns -1) and a failed or invalid read
\* (walrcv_receive or XLogWalRcvProcessMsg raise ERROR).
Frames == [type : {"w"}, start : 0 .. MaxLSN - 1, len : 1 .. MaxFrame]
          \cup [type : {"k"}, reply : BOOLEAN]
          \cup [type : {"end", "err"}]

VARIABLES
  \* WalRcvData, the shared-memory struct
  walRcvState, pid, receiveStart, flushedUpto, writtenUpto, force_reply,
  latchPub,         \* walrcv->latch is set
  \* the receiver process
  pc, latch, shutdownPending, reloadPending,
  guc,              \* [interval: wal_receiver_status_interval, hsf: hot_standby_feedback]
  startpoint,       \* startpoint of WalReceiverMain (TLI is fixed)
  recvFile,         \* segment number of the open segment, -1 when none
  LogstreamResult,  \* [Write, Flush]
  wr,               \* the XLogWalRcvWrite in progress: [ptr: recptr, left: nbytes]
  rep,              \* reporter statics and what the primary was told, see below
  \* pg_wal on the standby
  disk, archStatus,
  \* the startup process
  replayPtr, hotStandbyActive,
  startupPc,        \* "run", "signal" (about to kill()) or "waitstop" (waiting for STOPPED)
  killPid,          \* ShutdownWalRcv read a non-zero walrcv->pid
  \* the walsender and the connection
  chan, sendPtr, senderActive,
  kaSent,           \* keepalives sent on this connection
  crashes,
  \* timelines: the receiver's startpointTLI is 1 throughout
  primaryTLI,       \* the primary's timeline as last reported to the receiver
  histFile,         \* pg_wal: per timeline 2.., its history file and status
  fetch             \* WalRcvFetchTimeLineHistoryFiles in progress: [tli, cont]

(***************************************************************************)
(* rep holds the statics of the reporter (wakeup[], writePtr and flushPtr *)
(* of XLogWalRcvSendReply, primary_has_standby_xmin of                     *)
(* XLogWalRcvSendHSFeedback) and, as history, what the primary knows:   *)
(* xmin, the validity of the xmin it holds from this standby; owed,       *)
(* whether a WalRcvForceReply has not been answered by a reply yet;      *)
(* silence, the ticks since streaming started or the last frame came in  *)
(* (capped at MaxWake).                                                   *)
(***************************************************************************)

shmVars     == <<walRcvState, pid, receiveStart, flushedUpto, writtenUpto,
                 force_reply, latchPub>>
rcvVars     == <<pc, latch, shutdownPending, reloadPending, guc, startpoint,
                 recvFile, LogstreamResult, wr, rep>>
diskVars    == <<disk, archStatus>>
startupVars == <<replayPtr, hotStandbyActive, startupPc, killPid>>
senderVars  == <<chan, sendPtr, senderActive, kaSent>>
histVars    == <<primaryTLI, histFile, fetch>>
vars == <<shmVars, rcvVars, diskVars, startupVars, senderVars, crashes,
          histVars>>

-----------------------------------------------------------------------------
(* Positions and segments (XLByteToSeg, XLByteInSeg, XLogSegmentOffset).   *)

SegOf(p) == p \div SegSize
SegStart(p) == SegOf(p) * SegSize
XLByteInSeg(p, seg) == SegOf(p) = seg
XLogSegmentOffset(p) == p % SegSize

\* Every position below d is durable.
DurableUpTo(d) == \A p \in 0 .. d - 1 : disk[p] = "synced"

-----------------------------------------------------------------------------
(* The wakeup scheduler: WalRcvComputeNextWakeup, as a distance from now.  *)

NextWakeup(reason, g) ==
  CASE reason = "TERMINATE" ->
         IF ReceiverTimeout <= 0 THEN TIMESTAMP_INFINITY ELSE ReceiverTimeout
    [] reason = "PING" ->
         IF ReceiverTimeout <= 0 THEN TIMESTAMP_INFINITY
         ELSE ReceiverTimeout \div 2
    [] reason = "HSFEEDBACK" ->
         IF ~g.hsf \/ g.interval <= 0 THEN TIMESTAMP_INFINITY ELSE g.interval
    [] reason = "REPLY" ->
         IF g.interval <= 0 THEN TIMESTAMP_INFINITY ELSE g.interval

AllWakeups(g) == [r \in Reasons |-> NextWakeup(r, g)]

Due(r, reason) == r.wakeup[reason] = 0

-----------------------------------------------------------------------------
(* The status/feedback reporter.                                           *)

\* XLogWalRcvSendReply(force, requestReply) with LogstreamResult ls; the
\* reply reports ls.Write, ls.Flush and the replay position.
ReplyDue(force, ls, r) ==
  \/ force
  \/ /\ guc.interval > 0
     /\ \/ r.writePtr # ls.Write
        \/ r.flushPtr # ls.Flush
        \/ Due(r, "REPLY")

\* Mutant: the reply reports the write position as flushed.
SendReplyWriteAsFlush(force, ls, r) ==
  IF ReplyDue(force, ls, r)
  THEN [r EXCEPT !.wakeup["REPLY"] = NextWakeup("REPLY", guc),
                 !.writePtr = ls.Write, !.flushPtr = ls.Write, !.owed = FALSE]
  ELSE r

SendReply(force, ls, r) ==
  IF ReplyDue(force, ls, r)
  THEN [r EXCEPT !.wakeup["REPLY"] = NextWakeup("REPLY", guc),
                 !.writePtr = ls.Write, !.flushPtr = ls.Flush,
                 !.owed = FALSE]
  ELSE r

\* XLogWalRcvSendHSFeedback(immed) under settings g.  The xmin sent is
\* valid exactly when hot_standby_feedback is on.
\* Mutant: feedback is skipped whenever it is disabled, so the final
\* message that clears the xmin is never sent.
FeedbackSkippedWhenOff(immed, g, r) ==
  \/ g.interval <= 0 \/ ~g.hsf
  \/ ~immed /\ ~Due(r, "HSFEEDBACK")

FeedbackSkipped(immed, g, r) ==
  \/ (g.interval <= 0 \/ ~g.hsf) /\ ~r.hasXmin
  \/ ~immed /\ ~Due(r, "HSFEEDBACK")

\* Mutant: the early return for a standby not in hot standby comes before
\* the feedback wakeup is recomputed.
SendHSFeedbackLateRearm(immed, g, r) ==
  IF FeedbackSkipped(immed, g, r) \/ ~hotStandbyActive THEN r
  ELSE [r EXCEPT !.wakeup["HSFEEDBACK"] = NextWakeup("HSFEEDBACK", g),
                 !.hasXmin = g.hsf,
                 !.xmin = IF g.hsf THEN "valid" ELSE "invalid"]

SendHSFeedback(immed, g, r) ==
  IF FeedbackSkipped(immed, g, r) THEN r
  ELSE LET r1 == [r EXCEPT !.wakeup["HSFEEDBACK"] = NextWakeup("HSFEEDBACK", g)]
       IN  IF ~hotStandbyActive THEN r1
           ELSE [r1 EXCEPT !.hasXmin = g.hsf,
                           !.xmin = IF g.hsf THEN "valid" ELSE "invalid"]

-----------------------------------------------------------------------------
(***************************************************************************)
(* The durable write path.  Its operators map a record w of the state     *)
(* they touch, [disk, arch, recvFile, ls, flushedUpto, rep], to the new   *)
(* record, so that the handlers can call them as the code does.           *)
(***************************************************************************)

WState == [disk |-> disk, arch |-> archStatus, recvFile |-> recvFile,
           ls |-> LogstreamResult, flushedUpto |-> flushedUpto, rep |-> rep]

\* issue_xlog_fsync on the open segment: its written bytes become durable.
Fsync(d, seg) ==
  [p \in DOMAIN d |-> IF SegOf(p) = seg /\ d[p] = "written" THEN "synced"
                      ELSE d[p]]

\* Mutant: flushedUpto is set without the check that it only advances.
XLogWalRcvFlushNoGuard(dying, w) ==
  IF w.ls.Flush < w.ls.Write
  THEN LET w1 == [w EXCEPT !.disk = Fsync(@, w.recvFile),
                           !.ls.Flush = w.ls.Write,
                           !.flushedUpto = w.ls.Write]
       IN  IF dying THEN w1
           ELSE [w1 EXCEPT !.rep = SendHSFeedback(FALSE, guc,
                                     SendReply(FALSE, w1.ls, @))]
  ELSE w

\* XLogWalRcvFlush(dying): fsync, publish flushedUpto, report progress.
XLogWalRcvFlush(dying, w) ==
  IF w.ls.Flush < w.ls.Write
  THEN LET w1 == [w EXCEPT !.disk = Fsync(@, w.recvFile),
                           !.ls.Flush = w.ls.Write,
                           !.flushedUpto = IF @ < w.ls.Write THEN w.ls.Write
                                           ELSE @]
       IN  IF dying THEN w1
           ELSE [w1 EXCEPT !.rep = SendHSFeedback(FALSE, guc,
                                     SendReply(FALSE, w1.ls, @))]
  ELSE w

\* The archive status file of a closed segment: .ready when archive_mode
\* is always, a forced .done otherwise.
ArchiveMark == IF ArchiveAlways THEN "ready" ELSE "done"

\* Mutant: the segment is closed without being flushed first.
XLogWalRcvCloseNoFlush(w) ==
  [w EXCEPT !.arch[w.recvFile] = ArchiveMark, !.recvFile = -1]

\* XLogWalRcvClose: flush, close, create the archive status file.
XLogWalRcvClose(w) ==
  LET w1 == XLogWalRcvFlush(FALSE, w)
  IN  [w1 EXCEPT !.arch[w.recvFile] = ArchiveMark, !.recvFile = -1]

\* Store w back into the variables.
SetW(w) ==
  /\ disk' = w.disk
  /\ archStatus' = w.arch
  /\ recvFile' = w.recvFile
  /\ LogstreamResult' = w.ls
  /\ flushedUpto' = w.flushedUpto
  /\ rep' = w.rep


\* Settings the configuration file may hold.
Settings == [interval : StatusIntervals, hsf : FeedbackValues]

\* The statics of a process that has not run yet.
FreshStatics(r) ==
  [r EXCEPT !.wakeup = [x \in Reasons |-> 0], !.writePtr = 0,
            !.flushPtr = 0, !.hasXmin = TRUE]

NoWrite == [ptr |-> 0, left |-> 0]

\* The connection is closed: the walsender on the other end exits.
WalSenderGone ==
  /\ senderActive' = FALSE
  /\ sendPtr' = 0
  /\ kaSent' = 0

\* The receiver process is gone: its private state is discarded.
ProcessGone ==
  /\ pc' = "none"
  /\ latch' = FALSE
  /\ shutdownPending' = FALSE
  /\ reloadPending' = FALSE
  /\ guc' = CHOOSE g \in Settings : TRUE
  /\ startpoint' = 0
  /\ recvFile' = -1
  /\ LogstreamResult' = [Write |-> 0, Flush |-> 0]
  /\ wr' = NoWrite

-----------------------------------------------------------------------------
Init ==
  /\ walRcvState = "STOPPED"
  /\ pid = 0
  /\ receiveStart = 0
  /\ flushedUpto = 0
  /\ writtenUpto = 0
  /\ force_reply = FALSE
  /\ latchPub = FALSE
  /\ pc = "none"
  /\ latch = FALSE
  /\ shutdownPending = FALSE
  /\ reloadPending = FALSE
  /\ guc = CHOOSE g \in Settings : TRUE
  /\ startpoint = 0
  /\ recvFile = -1
  /\ LogstreamResult = [Write |-> 0, Flush |-> 0]
  /\ wr = NoWrite
  /\ rep = [wakeup |-> [x \in Reasons |-> 0], writePtr |-> 0, flushPtr |-> 0,
            hasXmin |-> TRUE, xmin |-> "invalid",
            owed |-> FALSE, silence |-> 0]
  /\ disk = [p \in 0 .. MaxLSN - 1 |-> "none"]
  /\ archStatus = [s \in Segs |-> "none"]
  /\ replayPtr = 0
  /\ hotStandbyActive = FALSE
  /\ startupPc = "run"
  /\ killPid = FALSE
  /\ chan = <<>>
  /\ sendPtr = 0
  /\ senderActive = FALSE
  /\ kaSent = 0
  /\ crashes = 0
  /\ primaryTLI = 1
  /\ histFile = [t \in HistTLIs |-> "none"]
  /\ fetch = NoFetch

-----------------------------------------------------------------------------
(***************************************************************************)
(* The receiver process: WalReceiverMain and the functions it calls.       *)
(***************************************************************************)

\* Claim the slot: advertise the PID, publish STREAMING, take the start
\* point, advertise the latch, reset writtenUpto.
\* Mutant: the PID is not advertised.
ClaimSlotNoPid ==
  /\ pid' = pid
  /\ walRcvState' = "STREAMING"
  /\ startpoint' = receiveStart
  /\ latchPub' = TRUE
  /\ writtenUpto' = 0

ClaimSlot ==
  /\ pid' = 1
  /\ walRcvState' = "STREAMING"
  /\ startpoint' = receiveStart
  /\ latchPub' = TRUE
  /\ writtenUpto' = 0

\* WalReceiverMain, up to on_shmem_exit(WalRcvDie): check the state the
\* startup process left, claim it and advertise the PID and latch.
ReceiverStart ==
  /\ pc = "launched"
  /\ \/ /\ walRcvState \in {"STOPPED", "STOPPING"}
        /\ walRcvState' = "STOPPED"
        /\ ProcessGone
        /\ UNCHANGED <<pid, receiveStart, flushedUpto, writtenUpto,
                       force_reply, latchPub, rep>>
     \/ /\ walRcvState = "STARTING"
        /\ ClaimSlot
        /\ pc' = "connect"
        /\ \E g \in Settings : guc' = g
        /\ UNCHANGED <<receiveStart, flushedUpto, force_reply, latch,
                       shutdownPending, reloadPending, recvFile,
                       LogstreamResult, wr, rep>>
  /\ UNCHANGED <<diskVars, startupVars, senderVars, crashes, histVars>>

\* Load libpqwalreceiver and connect to the primary; ERROR on failure.
Connect ==
  /\ pc = "connect"
  /\ pc' \in {"identify", "exit"}
  /\ UNCHANGED <<shmVars, latch, shutdownPending, reloadPending, guc,
                 startpoint, recvFile, LogstreamResult, wr, rep, diskVars,
                 startupVars, senderVars, crashes, histVars>>

\* START_REPLICATION and the set-up of the streaming loop; creating the
\* temporary slot may ERROR, and when the primary has no WAL on the
\* timeline the receiver goes straight to closing the last segment.
StartReplication ==
  \/ /\ pc' \in {"exit", "endstream"}
     /\ UNCHANGED <<LogstreamResult, rep, senderVars>>
  \/ LET ls == [Write |-> replayPtr, Flush |-> replayPtr]
         r0 == [rep EXCEPT !.wakeup = AllWakeups(guc), !.xmin = "invalid",
                           !.silence = 0]
     IN  /\ LogstreamResult' = ls
         /\ rep' = SendHSFeedback(TRUE, guc, SendReply(TRUE, ls, r0))
         /\ senderActive' = TRUE
         /\ sendPtr' = startpoint
         /\ chan' = <<>>
         /\ kaSent' = 0
         /\ pc' = "looptop"

\* Mutant: the loop stops one timeline short of last.
MissingOneShort(last) ==
  {t \in HistTLIs : t < last /\ histFile[t] = "none"}

\* The timelines WalRcvFetchTimeLineHistoryFiles(startpointTLI, last)
\* fetches: every one up to last but timeline 1 and those whose history
\* file exists.
Missing(last) == {t \in HistTLIs : t <= last /\ histFile[t] = "none"}

\* Where WalReceiverMain goes on after WalRcvFetchTimeLineHistoryFiles.
FetchReturn(cont) ==
  IF cont = "identify" THEN StartReplication
  ELSE pc' = "endstream" /\ UNCHANGED <<LogstreamResult, rep, senderVars>>

\* Call WalRcvFetchTimeLineHistoryFiles(startpointTLI, last).  Iterations
\* that skip a timeline change nothing and are folded into the next one.
FetchHistory(last, cont) ==
  IF Missing(last) = {} THEN FetchReturn(cont) /\ UNCHANGED fetch
  ELSE /\ pc' = "fetch"
       /\ fetch' = [tli |-> 0, cont |-> cont]
       /\ UNCHANGED <<LogstreamResult, rep, senderVars>>

\* One pass of the outer loop up to the streaming loop: IDENTIFY_SYSTEM
\* (which, with the system identifier check, may ERROR) reports the
\* primary's timeline, which is never behind startpointTLI = 1 and never
\* goes back; then the missing history files are fetched.
StartStreaming ==
  /\ pc = "identify"
  /\ \/ /\ pc' = "exit"
        /\ UNCHANGED <<LogstreamResult, rep, senderVars, histVars>>
     \/ \E t \in primaryTLI .. MaxTLI :
          /\ primaryTLI' = t
          /\ FetchHistory(t, "identify")
          /\ UNCHANGED histFile
  /\ UNCHANGED <<shmVars, latch, shutdownPending, reloadPending, guc,
                 startpoint, recvFile, wr, diskVars, startupVars, crashes>>

\* One iteration of the loop of WalRcvFetchTimeLineHistoryFiles that
\* fetches: walrcv_readtimelinehistoryfile and the file name check may
\* ERROR; then writeTimeLineHistoryFile puts the file durably in pg_wal.
\* With no timeline left the loop returns.
FetchStep ==
  /\ pc = "fetch"
  /\ IF Missing(primaryTLI) = {}
     THEN /\ FetchReturn(fetch.cont)
          /\ fetch' = NoFetch
          /\ UNCHANGED histFile
     ELSE LET t == Min(Missing(primaryTLI))
          IN  /\ \/ /\ pc' = "exit"
                    /\ fetch' = NoFetch
                    /\ UNCHANGED histFile
                 \/ /\ histFile' = [histFile EXCEPT ![t] = "written"]
                    /\ fetch' = [fetch EXCEPT !.tli = t]
                    /\ pc' = "fetchmark"
              /\ UNCHANGED <<LogstreamResult, rep, senderVars>>
  /\ UNCHANGED <<shmVars, latch, shutdownPending, reloadPending, guc,
                 startpoint, recvFile, wr, diskVars, startupVars, crashes,
                 primaryTLI>>

\* The rest of the iteration: XLogArchiveForceDone, or XLogArchiveNotify
\* when archive_mode is always, on the file just written.
FetchMark ==
  /\ pc = "fetchmark"
  /\ histFile' = [histFile EXCEPT ![fetch.tli] = ArchiveMark]
  /\ pc' = "fetch"
  /\ UNCHANGED <<shmVars, latch, shutdownPending, reloadPending, guc,
                 startpoint, recvFile, LogstreamResult, wr, rep, diskVars,
                 startupVars, senderVars, crashes, primaryTLI, fetch>>

\* Top of the streaming loop: ProcessWalRcvInterrupts, a pending config
\* reload, and the first walrcv_receive (its frame is taken by the drain
\* actions; with nothing to read the receiver naps).
LoopTop ==
  /\ pc = "looptop"
  /\ \/ /\ shutdownPending
        /\ pc' = "exit"
        /\ UNCHANGED <<reloadPending, guc, rep>>
     \/ /\ ~shutdownPending
        /\ pc' = IF chan = <<>> THEN "wait" ELSE "drain"
        /\ IF reloadPending
           THEN \E g \in Settings :
                  /\ guc' = g
                  /\ reloadPending' = FALSE
                  /\ rep' = SendHSFeedback(TRUE, g,
                              [rep EXCEPT !.wakeup = AllWakeups(g)])
           ELSE UNCHANGED <<reloadPending, guc, rep>>
  /\ UNCHANGED <<shmVars, latch, shutdownPending, startpoint, recvFile,
                 LogstreamResult, wr, diskVars, startupVars, senderVars,
                 crashes, histVars>>

\* A received frame re-arms only the PING wakeup
HeardNoTerminate(r) == [r EXCEPT !.wakeup["PING"] = NextWakeup("PING", guc),
                                 !.silence = 0]

\* Something was received: re-arm the TERMINATE and PING wakeups.
Heard(r) == [r EXCEPT !.wakeup["TERMINATE"] = NextWakeup("TERMINATE", guc),
                      !.wakeup["PING"] = NextWakeup("PING", guc),
                      !.silence = 0]

\* After the frames that could be read without blocking: report, then
\* XLogWalRcvFlush(false).
EndOfBatch(w) ==
  XLogWalRcvFlush(FALSE, [w EXCEPT !.rep = SendReply(FALSE, w.ls, @)])

\* A 'w' frame: XLogWalRcvProcessMsg hands its payload to XLogWalRcvWrite.
RecvData ==
  /\ pc = "drain"
  /\ chan # <<>> /\ Head(chan).type = "w"
  /\ chan' = Tail(chan)
  /\ rep' = Heard(rep)
  /\ wr' = [ptr |-> Head(chan).start, left |-> Head(chan).len]
  /\ pc' = "write"
  /\ UNCHANGED <<shmVars, latch, shutdownPending, reloadPending, guc,
                 startpoint, recvFile, LogstreamResult, diskVars, startupVars,
                 sendPtr, senderActive, kaSent, crashes, histVars>>

\* A 'k' frame: answer at once when the primary asks for a reply.
RecvKeepalive ==
  /\ pc = "drain"
  /\ chan # <<>> /\ Head(chan).type = "k"
  /\ chan' = Tail(chan)
  /\ rep' = IF Head(chan).reply
            THEN SendReply(TRUE, LogstreamResult, Heard(rep))
            ELSE Heard(rep)
  /\ UNCHANGED <<shmVars, pc, latch, shutdownPending, reloadPending, guc,
                 startpoint, recvFile, LogstreamResult, wr, diskVars,
                 startupVars, sendPtr, senderActive, kaSent, crashes, histVars>>

\* walrcv_receive returns -1: end of WAL on this timeline.  The loop ends
\* with the flush of the batch; walrcv_endstreaming reports the timeline
\* the primary went on to, whose history file is fetched if missing.
RecvEnd ==
  /\ pc = "drain"
  /\ chan # <<>> /\ Head(chan).type = "end"
  /\ chan' = Tail(chan)
  /\ SetW(EndOfBatch(WState))
  /\ \E t \in primaryTLI .. MaxTLI :
       /\ primaryTLI' = t
       /\ IF Missing(t) = {}
          THEN pc' = "endstream" /\ UNCHANGED fetch
          ELSE pc' = "fetch" /\ fetch' = [tli |-> 0, cont |-> "endstream"]
  /\ UNCHANGED <<pid, walRcvState, receiveStart, writtenUpto, force_reply,
                 latchPub, latch, shutdownPending, reloadPending, guc,
                 startpoint, wr, startupVars, sendPtr, senderActive, kaSent,
                 crashes, histFile>>

\* A failed read or an invalid frame: ERROR.
RecvError ==
  /\ pc = "drain"
  /\ chan # <<>> /\ Head(chan).type = "err"
  /\ chan' = Tail(chan)
  /\ pc' = "exit"
  /\ UNCHANGED <<shmVars, latch, shutdownPending, reloadPending, guc,
                 startpoint, recvFile, LogstreamResult, wr, rep, diskVars,
                 startupVars, sendPtr, senderActive, kaSent, crashes, histVars>>

\* walrcv_receive returns 0: the batch is over.
DrainDone ==
  /\ pc = "drain"
  /\ chan = <<>>
  /\ SetW(EndOfBatch(WState))
  /\ pc' = "wait"
  /\ UNCHANGED <<pid, walRcvState, receiveStart, writtenUpto, force_reply,
                 latchPub, latch, shutdownPending, reloadPending, guc,
                 startpoint, wr, startupVars, senderVars, crashes, histVars>>

(***************************************************************************)
(* A server crash: a PANIC, or a power failure when lose is TRUE (bytes   *)
(* not yet fsynced are lost).  Shared memory is re-initialised, every     *)
(* process is restarted, and the startup process resumes recovery at its  *)
(* replay position; hot standby must become consistent again.             *)
(***************************************************************************)
CrashRestart(d) ==
  /\ crashes < MaxCrashes
  /\ crashes' = crashes + 1
  /\ disk' = d
  /\ walRcvState' = "STOPPED"
  /\ pid' = 0
  /\ receiveStart' = 0
  /\ flushedUpto' = 0
  /\ writtenUpto' = 0
  /\ force_reply' = FALSE
  /\ latchPub' = FALSE
  /\ ProcessGone
  /\ rep' = [FreshStatics(rep) EXCEPT !.owed = FALSE, !.xmin = "invalid"]
  /\ hotStandbyActive' = FALSE
  /\ startupPc' = "run"
  /\ killPid' = FALSE
  /\ chan' = <<>>
  /\ WalSenderGone
  /\ fetch' = NoFetch
  /\ UNCHANGED <<archStatus, replayPtr, primaryTLI, histFile>>

\* Mutant: nbytes is not decreased by what was written.
WrAdvanceKeepLeft(n) == [ptr |-> wr.ptr + n, left |-> wr.left]

\* recptr and nbytes after pg_pwrite wrote n bytes.
WrAdvance(n) == [ptr |-> wr.ptr + n, left |-> wr.left - n]

\* One iteration of the loop of XLogWalRcvWrite: close the segment when
\* recptr left it, open (XLogFileInit) the segment of recptr, pg_pwrite up
\* to its end.  pg_pwrite may write fewer bytes than asked; when it writes
\* none the receiver PANICs.
WriteStep ==
  /\ pc = "write"
  /\ wr.left > 0
  /\ LET w1 == IF recvFile >= 0 /\ ~XLByteInSeg(wr.ptr, recvFile)
               THEN XLogWalRcvClose(WState) ELSE WState
         w2 == IF w1.recvFile < 0 THEN [w1 EXCEPT !.recvFile = SegOf(wr.ptr)]
               ELSE w1
         segbytes == Min({wr.left, SegSize - XLogSegmentOffset(wr.ptr)})
     IN  \/ \E n \in 1 .. segbytes :
              /\ SetW([w2 EXCEPT
                    !.disk = [p \in DOMAIN @ |->
                               IF p \in wr.ptr .. wr.ptr + n - 1
                                  /\ @[p] # "synced"
                               THEN "written" ELSE @[p]],
                    !.ls.Write = wr.ptr + n])
              /\ wr' = WrAdvance(n)
              /\ UNCHANGED <<pid, walRcvState, receiveStart, writtenUpto,
                             force_reply, latchPub, pc, latch,
                             shutdownPending, reloadPending, guc,
                             startpoint, startupVars, senderVars, crashes, histVars>>
         \/ /\ archStatus' = w2.arch
            /\ CrashRestart(w2.disk)

\* Mutant: a segment the write filled stays open until the next write.
WriteDoneNoTailClose ==
  /\ pc = "write"
  /\ wr.left = 0
  /\ writtenUpto' = LogstreamResult.Write
  /\ wr' = NoWrite
  /\ pc' = "drain"
  /\ UNCHANGED <<pid, walRcvState, receiveStart, flushedUpto, force_reply,
                 latchPub, latch, shutdownPending, reloadPending, guc,
                 startpoint, recvFile, LogstreamResult, rep, diskVars,
                 startupVars, senderVars, crashes, histVars>>

\* The end of XLogWalRcvWrite: publish writtenUpto, and close the segment
\* at once when the write filled it.
WriteDone ==
  /\ pc = "write"
  /\ wr.left = 0
  /\ writtenUpto' = LogstreamResult.Write
  /\ SetW(IF recvFile >= 0 /\ ~XLByteInSeg(wr.ptr, recvFile)
          THEN XLogWalRcvClose(WState) ELSE WState)
  /\ wr' = NoWrite
  /\ pc' = "drain"
  /\ UNCHANGED <<pid, walRcvState, receiveStart, force_reply, latchPub,
                 latch, shutdownPending, reloadPending, guc, startpoint,
                 startupVars, senderVars, crashes, histVars>>

\* WaitLatchOrSocket returns WL_LATCH_SET: ResetLatch,
\* ProcessWalRcvInterrupts, and clear force_reply before replying.
WakeLatch ==
  /\ pc = "wait"
  /\ latch
  /\ latch' = FALSE
  /\ \/ /\ shutdownPending
        /\ pc' = "exit"
        /\ UNCHANGED force_reply
     \/ /\ ~shutdownPending
        /\ force_reply' = FALSE
        /\ pc' = IF force_reply THEN "forced" ELSE "looptop"
  /\ UNCHANGED <<walRcvState, pid, receiveStart, flushedUpto, writtenUpto,
                 latchPub, shutdownPending, reloadPending, guc, startpoint,
                 recvFile, LogstreamResult, wr, rep, diskVars, startupVars,
                 senderVars, crashes, histVars>>

\* The reply the recovery process asked for.
ForcedReply ==
  /\ pc = "forced"
  /\ rep' = SendReply(TRUE, LogstreamResult, rep)
  /\ pc' = "looptop"
  /\ UNCHANGED <<shmVars, latch, shutdownPending, reloadPending, guc,
                 startpoint, recvFile, LogstreamResult, wr, diskVars,
                 startupVars, senderVars, crashes, histVars>>

\* WaitLatchOrSocket returns WL_SOCKET_READABLE.
WakeSocket ==
  /\ pc = "wait"
  /\ ~latch
  /\ chan # <<>>
  /\ pc' = "looptop"
  /\ UNCHANGED <<shmVars, latch, shutdownPending, reloadPending, guc,
                 startpoint, recvFile, LogstreamResult, wr, rep, diskVars,
                 startupVars, senderVars, crashes, histVars>>

\* WaitLatchOrSocket returns WL_TIMEOUT: the nearest wakeup is due.
\* Silence for wal_receiver_timeout is an ERROR; half of it sends a ping
\* (a reply that requests a reply); then the periodic reply and feedback.
WakeTimeout ==
  /\ pc = "wait"
  /\ ~latch
  /\ chan = <<>>
  /\ \E x \in Reasons : Due(rep, x)
  /\ \/ /\ Due(rep, "TERMINATE")
        /\ pc' = "exit"
        /\ UNCHANGED rep
     \/ /\ ~Due(rep, "TERMINATE")
        /\ LET ping == Due(rep, "PING")
               r0 == IF ping THEN [rep EXCEPT !.wakeup["PING"] = TIMESTAMP_INFINITY]
                     ELSE rep
           IN  rep' = SendHSFeedback(FALSE, guc, SendReply(ping, LogstreamResult, r0))
        /\ pc' = "looptop"
  /\ UNCHANGED <<shmVars, latch, shutdownPending, reloadPending, guc,
                 startpoint, recvFile, LogstreamResult, wr, diskVars,
                 startupVars, senderVars, crashes, histVars>>

\* After streaming ended (walrcv_endstreaming and the history files may
\* ERROR): flush and close the last segment, then the first half of
\* WalRcvWaitForStartPosition, which exits unless the state is still
\* STREAMING and otherwise publishes WAITING.
CloseLastSegment ==
  IF recvFile >= 0
  THEN [XLogWalRcvFlush(FALSE, WState) EXCEPT !.arch[recvFile] = ArchiveMark,
                                              !.recvFile = -1]
  ELSE WState

EndStream ==
  /\ pc = "endstream"
  /\ \/ /\ pc' = "exit"
        /\ UNCHANGED <<walRcvState, receiveStart, recvFile, LogstreamResult,
                       flushedUpto, rep, diskVars>>
     \/ /\ SetW(CloseLastSegment)
        /\ IF walRcvState = "STREAMING"
           THEN /\ walRcvState' = "WAITING"
                /\ receiveStart' = 0
                /\ pc' = "waitstart"
           ELSE /\ pc' = "exit"
                /\ UNCHANGED <<walRcvState, receiveStart>>
  /\ WalSenderGone
  /\ UNCHANGED <<pid, writtenUpto, force_reply, latchPub, latch,
                 shutdownPending, reloadPending, guc, startpoint, wr,
                 startupVars, chan, crashes, histVars>>

\* The loop of WalRcvWaitForStartPosition, in the three steps between which
\* the startup process can act: ResetLatch; ProcessWalRcvInterrupts and the
\* state check under the spinlock; WaitLatch.
WaitStart ==
  /\ pc = "waitstart"
  /\ latch' = FALSE
  /\ pc' = "waitcheck"
  /\ UNCHANGED <<shmVars, shutdownPending, reloadPending, guc, startpoint,
                 recvFile, LogstreamResult, wr, rep, diskVars, startupVars,
                 senderVars, crashes, histVars>>

\* Mutant: the loop resumes streaming unless told to stop, without
\* waiting for RESTARTING.
WaitStartDispatchAnyResume ==
  \/ /\ shutdownPending \/ walRcvState = "STOPPING"
     /\ pc' = "exit"
     /\ UNCHANGED <<walRcvState, startpoint, latch>>
  \/ /\ ~shutdownPending /\ walRcvState \in {"RESTARTING", "WAITING"}
     /\ startpoint' = receiveStart
     /\ walRcvState' = "STREAMING"
     /\ pc' = "identify"
     /\ UNCHANGED latch

WaitStartDispatch ==
  \/ /\ shutdownPending \/ walRcvState = "STOPPING"
     /\ pc' = "exit"
     /\ UNCHANGED <<walRcvState, startpoint, latch>>
  \/ /\ ~shutdownPending /\ walRcvState = "RESTARTING"
     /\ startpoint' = receiveStart
     /\ walRcvState' = "STREAMING"
     /\ pc' = "identify"
     /\ UNCHANGED latch
  \/ /\ ~shutdownPending /\ walRcvState = "WAITING"
     /\ pc' = "sleepstart"
     /\ UNCHANGED <<walRcvState, startpoint, latch>>

WaitCheck ==
  /\ pc = "waitcheck"
  /\ WaitStartDispatch
  /\ UNCHANGED <<pid, receiveStart, flushedUpto, writtenUpto, force_reply,
                 latchPub, shutdownPending, reloadPending, guc, recvFile,
                 LogstreamResult, wr, rep, diskVars, startupVars, senderVars,
                 crashes, histVars>>

\* Mutant: ResetLatch moved from the top of the loop to just before
\* WaitLatch, after the state check: the reset may come after a SetLatch
\* that followed the check, and WaitLatch then sleeps through it.
SleepStartResetLate ==
  /\ pc = "sleepstart"
  /\ \/ /\ latch
        /\ pc' = "waitstart"
        /\ UNCHANGED latch
     \/ /\ latch' = FALSE
        /\ UNCHANGED pc
  /\ UNCHANGED <<shmVars, shutdownPending, reloadPending, guc,
                 startpoint, recvFile, LogstreamResult, wr, rep, diskVars,
                 startupVars, senderVars, crashes, histVars>>

\* WaitLatch(WL_LATCH_SET) returns once the latch is set.
SleepStart ==
  /\ pc = "sleepstart"
  /\ latch
  /\ pc' = "waitstart"
  /\ UNCHANGED <<shmVars, latch, shutdownPending, reloadPending, guc,
                 startpoint, recvFile, LogstreamResult, wr, rep, diskVars,
                 startupVars, senderVars, crashes, histVars>>

\* WalRcvDie, run by proc_exit after ERROR, FATAL or exit: flush what was
\* written, publish STOPPED, disconnect, and the process is gone.
\* Mark the receiver inactive in shared memory.
\* Mutant: STOPPED is never published.
MarkStoppedKeepState ==
  /\ UNCHANGED walRcvState
  /\ pid' = 0
  /\ latchPub' = FALSE

MarkStopped ==
  /\ walRcvState' = "STOPPED"
  /\ pid' = 0
  /\ latchPub' = FALSE

WalRcvDie ==
  /\ pc = "exit"
  /\ LET w == XLogWalRcvFlush(TRUE, WState)
     IN  /\ disk' = w.disk
         /\ flushedUpto' = w.flushedUpto
  /\ MarkStopped
  /\ ProcessGone
  /\ rep' = [FreshStatics(rep) EXCEPT !.xmin = "invalid"]
  /\ chan' = <<>>
  /\ WalSenderGone
  /\ UNCHANGED <<receiveStart, writtenUpto, force_reply, archStatus,
                 startupVars, crashes, histVars>>

ReceiverNext ==
  \/ ReceiverStart \/ Connect \/ StartStreaming \/ FetchStep \/ FetchMark
  \/ LoopTop
  \/ RecvData \/ RecvKeepalive \/ RecvEnd \/ RecvError \/ DrainDone
  \/ WriteStep \/ WriteDone
  \/ WakeLatch \/ ForcedReply \/ WakeSocket \/ WakeTimeout
  \/ EndStream \/ WaitStart \/ WaitCheck \/ SleepStart \/ WalRcvDie

-----------------------------------------------------------------------------
(***************************************************************************)
(* The startup process and the postmaster (walreceiverfuncs.c and         *)
(* xlogrecovery.c, outside src/: modelled from the spec, section 4.1).    *)
(***************************************************************************)

\* RequestXLogStreaming: ask for streaming from the start of the segment
\* holding the replay position.  A stopped receiver is launched (the
\* postmaster starts one unless its child still exists); a waiting one is
\* given the new start and woken.  flushedUpto starts at the request point
\* the first time.
RequestXLogStreaming ==
  /\ startupPc = "run"
  /\ walRcvState \in {"STOPPED", "WAITING"}
  /\ LET recptr == SegStart(replayPtr)
     IN  /\ receiveStart' = recptr
         /\ flushedUpto' = IF receiveStart = 0 THEN recptr ELSE flushedUpto
  /\ IF walRcvState = "STOPPED"
     THEN /\ walRcvState' = "STARTING"
          /\ pc' = IF pc = "none" THEN "launched" ELSE pc
          /\ UNCHANGED latch
     ELSE /\ walRcvState' = "RESTARTING"
          /\ latch' = (latch \/ latchPub)
          /\ UNCHANGED pc
  /\ UNCHANGED <<pid, writtenUpto, force_reply, latchPub, shutdownPending,
                 reloadPending, guc, startpoint, recvFile, LogstreamResult,
                 wr, rep, diskVars, startupVars, senderVars, crashes, histVars>>

\* ShutdownWalRcv, first half: a receiver that has not claimed STARTING is
\* stopped at once, a running one is told to stop; the PID is read.
ShutdownWalRcv ==
  /\ startupPc = "run"
  /\ walRcvState \in {"STARTING", "STREAMING", "WAITING", "RESTARTING"}
  /\ walRcvState' = IF walRcvState = "STARTING" THEN "STOPPED" ELSE "STOPPING"
  /\ killPid' = (pid # 0)
  /\ startupPc' = "signal"
  /\ UNCHANGED <<pid, receiveStart, flushedUpto, writtenUpto, force_reply,
                 latchPub, rcvVars, diskVars, replayPtr, hotStandbyActive,
                 senderVars, crashes, histVars>>

\* ShutdownWalRcv, second half: SIGTERM (the handler sets the flag and the
\* latch), then wait on walRcvStoppedCV.
SignalWalRcv ==
  /\ startupPc = "signal"
  /\ IF killPid /\ pc # "none"
     THEN shutdownPending' = TRUE /\ latch' = TRUE
     ELSE UNCHANGED <<shutdownPending, latch>>
  /\ startupPc' = "waitstop"
  /\ UNCHANGED <<shmVars, pc, reloadPending, guc, startpoint, recvFile,
                 LogstreamResult, wr, rep, diskVars, replayPtr,
                 hotStandbyActive, killPid, senderVars, crashes, histVars>>

ShutdownWaitDone ==
  /\ startupPc = "waitstop"
  /\ walRcvState = "STOPPED"
  /\ startupPc' = "run"
  /\ UNCHANGED <<shmVars, rcvVars, diskVars, replayPtr, hotStandbyActive,
                 killPid, senderVars, crashes, histVars>>

\* WalRcvForceReply: raise force_reply and wake the receiver through the
\* latch it advertised, if any.  The startup process calls it whenever it
\* applies a record a remote_apply committer may be waiting for.
\* Mutant: the flag is raised but the latch is not set.
WalRcvForceReplyNoLatch ==
  /\ force_reply' = TRUE
  /\ latch' = latch
  /\ rep' = [rep EXCEPT !.owed = TRUE]

WalRcvForceReply ==
  /\ force_reply' = TRUE
  /\ latch' = (latch \/ latchPub)
  /\ rep' = [rep EXCEPT !.owed = TRUE]

\* Replay proceeds up to what the receiver has flushed; the records
\* applied may call for apply feedback.
StartupReplay ==
  /\ startupPc = "run"
  /\ \E p \in replayPtr + 1 .. flushedUpto : replayPtr' = p
  /\ \/ WalRcvForceReply
     \/ UNCHANGED <<force_reply, latch, rep>>
  /\ UNCHANGED <<walRcvState, pid, receiveStart, flushedUpto, writtenUpto,
                 latchPub, pc, shutdownPending, reloadPending, guc,
                 startpoint, recvFile, LogstreamResult, wr, diskVars,
                 hotStandbyActive, startupPc, killPid, senderVars, crashes, histVars>>

\* Hot standby reaches consistency and accepts read-only queries.
EnableHotStandby ==
  /\ ~hotStandbyActive
  /\ hotStandbyActive' = TRUE
  /\ UNCHANGED <<shmVars, rcvVars, diskVars, replayPtr, startupPc, killPid,
                 senderVars, crashes, histVars>>

\* SIGHUP: SignalHandlerForConfigReload sets the flag and the latch.
SigHup ==
  /\ pc \notin {"none", "launched"}
  /\ ~reloadPending
  /\ reloadPending' = TRUE
  /\ latch' = TRUE
  /\ UNCHANGED <<shmVars, pc, shutdownPending, guc, startpoint, recvFile,
                 LogstreamResult, wr, rep, diskVars, startupVars, senderVars,
                 crashes, histVars>>

-----------------------------------------------------------------------------
(* The walsender: frames from the start point, in order, over TCP.         *)

Send(f) ==
  /\ senderActive
  /\ Len(chan) < MaxChan
  /\ chan' = Append(chan, f)

SendData ==
  /\ sendPtr < MaxLSN
  /\ \E n \in 1 .. Min({MaxFrame, MaxLSN - sendPtr}) :
       /\ Send([type |-> "w", start |-> sendPtr, len |-> n])
       /\ sendPtr' = sendPtr + n
  /\ UNCHANGED <<shmVars, rcvVars, diskVars, startupVars, senderActive,
                 kaSent, crashes, histVars>>

SendKeepalive ==
  /\ kaSent < MaxKeepalives
  /\ \E b \in KeepaliveReplies : Send([type |-> "k", reply |-> b])
  /\ kaSent' = kaSent + 1
  /\ UNCHANGED <<shmVars, rcvVars, diskVars, startupVars, sendPtr,
                 senderActive, crashes, histVars>>

\* End of the timeline (CopyDone) or a broken connection: nothing follows.
SendLast ==
  /\ \E t \in {"end", "err"} : Send([type |-> t])
  /\ WalSenderGone
  /\ UNCHANGED <<shmVars, rcvVars, diskVars, startupVars, crashes, histVars>>

-----------------------------------------------------------------------------
(* Time and failures.                                                      *)

\* The clock advances one tick: every pending finite wakeup comes closer.
Tick ==
  /\ \E x \in Reasons : rep.wakeup[x] \in 1 .. MaxWake
  /\ rep' = [rep EXCEPT !.wakeup = [x \in Reasons |->
               IF @[x] \in 1 .. MaxWake THEN @[x] - 1 ELSE @[x]],
                        !.silence = IF @ < MaxWake THEN @ + 1 ELSE @]
  /\ UNCHANGED <<shmVars, pc, latch, shutdownPending, reloadPending, guc,
                 startpoint, recvFile, LogstreamResult, wr, diskVars,
                 startupVars, senderVars, crashes, histVars>>

\* Power failure: what was only written is lost.
PowerFailure ==
  /\ CrashRestart([p \in DOMAIN disk |->
                     IF disk[p] = "written" THEN "none" ELSE disk[p]])

EnvNext ==
  \/ RequestXLogStreaming \/ ShutdownWalRcv \/ SignalWalRcv
  \/ ShutdownWaitDone \/ StartupReplay \/ EnableHotStandby \/ SigHup
  \/ SendData \/ SendKeepalive \/ SendLast
  \/ Tick \/ PowerFailure

Next == ReceiverNext \/ EnvNext

(***************************************************************************)
(* Fairness.  The receiver is an OS process: whenever it can run it       *)
(* eventually does.  The startup process eventually finishes its own      *)
(* shutdown sequence, and the clock keeps moving.  The walsender, the     *)
(* recovery decisions, signals and failures are not fair.                 *)
(***************************************************************************)
Fairness ==
  /\ WF_vars(ReceiverNext)
  /\ WF_vars(SignalWalRcv)
  /\ WF_vars(ShutdownWaitDone)
  /\ WF_vars(Tick)

Spec == Init /\ [][Next]_vars /\ Fairness

-----------------------------------------------------------------------------
(***************************************************************************)
(* Properties.                                                             *)
(***************************************************************************)

\* Control points of a receiver that has claimed the slot.
LivePCs == PCs \ {"none", "launched"}

\* Control points inside the streaming loop of WalReceiverMain.
LoopPCs == {"looptop", "drain", "write", "wait", "forced"}

TypeOK ==
  /\ walRcvState \in States
  /\ pid \in {0, 1}
  /\ receiveStart \in Pos /\ flushedUpto \in Pos /\ writtenUpto \in Pos
  /\ force_reply \in BOOLEAN /\ latchPub \in BOOLEAN
  /\ pc \in PCs /\ latch \in BOOLEAN
  /\ shutdownPending \in BOOLEAN /\ reloadPending \in BOOLEAN
  /\ guc \in Settings
  /\ startpoint \in Pos
  /\ recvFile \in Segs \cup {-1}
  /\ LogstreamResult \in [Write : Pos, Flush : Pos]
  /\ wr \in [ptr : Pos, left : 0 .. MaxFrame]
  /\ rep \in [wakeup : [Reasons -> 0 .. TIMESTAMP_INFINITY],
              writePtr : Pos, flushPtr : Pos, hasXmin : BOOLEAN,
              xmin : {"valid", "invalid"}, owed : BOOLEAN,
              silence : 0 .. MaxWake]
  /\ disk \in [0 .. MaxLSN - 1 -> {"none", "written", "synced"}]
  /\ archStatus \in [Segs -> {"none", "done", "ready"}]
  /\ replayPtr \in Pos /\ hotStandbyActive \in BOOLEAN
  /\ startupPc \in {"run", "signal", "waitstop"} /\ killPid \in BOOLEAN
  /\ chan \in Seq(Frames) /\ Len(chan) <= MaxChan
  /\ sendPtr \in Pos /\ senderActive \in BOOLEAN
  /\ kaSent \in 0 .. MaxKeepalives
  /\ crashes \in 0 .. MaxCrashes
  /\ primaryTLI \in 1 .. MaxTLI
  /\ histFile \in [HistTLIs -> {"none", "written", "done", "ready"}]
  /\ fetch \in [tli : 0 .. MaxTLI, cont : {"none", "identify", "endstream"}]

\* XLogWalRcvFlush publishes flushedUpto only after issue_xlog_fsync: the
\* startup process, which replays up to flushedUpto, never reads WAL that
\* a power failure could take away, across restarts and segment switches.
FlushedUptoDurable == DurableUpTo(flushedUpto)

\* The flush position XLogWalRcvSendReply last reported to the primary is
\* durable on the standby.  Durable positions stay durable, so every flush
\* position ever reported is: a synchronous commit acknowledged on the
\* strength of a reply survives a power failure of the standby.
AckedFlushDurable == DurableUpTo(rep.flushPtr)

\* The shared state tells the truth about the receiver process: a claimed
\* state (STREAMING, WAITING, RESTARTING) has a live receiver with its PID
\* advertised; a freshly launched process finds STOPPED, STARTING or
\* STOPPING, so the PANIC "walreceiver still running according to shared
\* memory state" of WalReceiverMain is unreachable; the process waiting
\* for a start position sees only the states its Assert allows, and the
\* Asserts of WalRcvDie hold when it runs.
LifecycleConsistent ==
  /\ walRcvState \in {"STREAMING", "WAITING", "RESTARTING"}
       => pc \in LivePCs /\ pid # 0
  /\ pc = "launched" => walRcvState \in {"STOPPED", "STARTING", "STOPPING"}
  /\ pc \in {"waitstart", "waitcheck", "sleepstart"}
       => walRcvState \in {"WAITING", "RESTARTING", "STOPPING"}
  /\ pc = "exit" => walRcvState # "STOPPED" /\ pid # 0

\* When hot_standby_feedback is off in the streaming loop, the primary
\* holds no xmin from this standby: turning the setting off makes
\* XLogWalRcvSendHSFeedback send one final invalid xmin, which the
\* primary_has_standby_xmin static must not suppress.
ForgottenXminCleared ==
  (pc \in LoopPCs /\ ~guc.hsf) => rep.xmin = "invalid"

\* pg_wal holds the history file of every timeline up to the primary's
\* before the receiver streams, and before it closes the last segment
\* when streaming ended at a timeline switch: WalRcvFetchTimeLineHistoryFiles
\* runs after IDENTIFY_SYSTEM and again after walrcv_endstreaming, skips
\* only the files that exist, and a crash or ERROR in the middle of it is
\* made good by the next connection.
HistoryBeforeStream ==
  pc \in LoopPCs \cup {"endstream"} =>
    \A t \in HistTLIs : t <= primaryTLI => histFile[t] # "none"

\* A segment the receiver has filled and left has its archive status file
\* (XLogWalRcvClose, at a segment switch or right after the write that
\* filled it), unless a crash intervened.
SegComplete(s) == \A p \in 0 .. MaxLSN - 1 : SegOf(p) = s => disk[p] # "none"

CompleteSegmentArchiveStatus ==
  crashes = 0 =>
    \A s \in Segs : SegComplete(s) /\ recvFile # s => archStatus[s] # "none"

\* No step of the receiver (other than a PANIC, which re-initialises
\* shared memory) moves flushedUpto backwards, even when it restarts
\* streaming below what it had flushed before.
ReceiverFlushMonotone ==
  [][ReceiverNext /\ crashes' = crashes => flushedUpto' >= flushedUpto]_vars

\* After a timeout wakeup that keeps streaming, no wakeup is left due:
\* the ping wakeup is parked at infinity, and a reply or feedback that was
\* due is rescheduled even when XLogWalRcvSendHSFeedback then returns
\* early because hot standby is not active.  Otherwise the next nap is
\* zero and the loop spins.
TimerRearmed ==
  [][WakeTimeout /\ pc' = "looptop" => \A x \in Reasons : ~Due(rep', x)]_vars

\* The receiver ends streaming for wal_receiver_timeout only after hearing
\* nothing from the primary for that long: every received frame re-arms
\* the TERMINATE wakeup (and a configuration reload only postpones it).
TerminateOnlyAfterSilence ==
  [][WakeTimeout /\ pc' = "exit" => rep.silence >= ReceiverTimeout]_vars

\* The shared state moves only along the edges of the lifecycle machine of
\* WalRcvLifecycle, with a process behind every edge the receiver takes.
Lifecycle == INSTANCE WalRcvLifecycle WITH state <- walRcvState,
                                           alive <- (pc # "none")

LifecycleRefined == Lifecycle!Spec

\* A reply the startup process forced with WalRcvForceReply is sent while
\* the receiver keeps streaming: the flag is cleared before the reply,
\* and setting it sets the latch the receiver sleeps on.
ForceReplyHonored ==
  rep.owed ~> (~rep.owed \/ walRcvState # "STREAMING")

\* A receiver waiting for a start position that the startup process moved
\* to RESTARTING eventually resumes streaming (or stops): in every order of
\* RequestXLogStreaming's state change and SetLatch against the wait loop's
\* ResetLatch, check and WaitLatch, the wakeup is not lost.
RestartHonored ==
  walRcvState = "RESTARTING" ~> walRcvState # "RESTARTING"

\* ShutdownWalRcv returns: whatever the receiver is doing when SIGTERM
\* arrives, it reaches WalRcvDie and publishes STOPPED.
ShutdownCompletes ==
  startupPc = "waitstop" ~> startupPc = "run"

-----------------------------------------------------------------------------
(* Statements of the spec the code does not keep (violation runs).         *)

\* Spec sections 3 and 8: flushedUpto <= writtenUpto after every
\* operation.  WalReceiverMain resets writtenUpto to 0 when a receiver
\* starts, while flushedUpto keeps what an earlier receiver flushed.
SpecFlushedBelowWritten == flushedUpto <= writtenUpto

\* Spec sections 4.3 and 6: only a completed segment gets an archive
\* status file, .ready when archive_mode is always.  At the end of
\* streaming WalReceiverMain closes the last, partial segment and calls
\* XLogArchiveNotify on it.
SpecOnlyCompleteSegmentsReady ==
  \A s \in Segs : archStatus[s] = "ready" => SegComplete(s)
=============================================================================
