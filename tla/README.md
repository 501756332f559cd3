# TLA+ models of the WAL receiver, the shared memory allocator, the timeline history parser, the page header and the git0 tools (wochatyou/pgsrc)

This directory holds TLA+ models of the C sources under `src/`, the TLC
configurations that check them, and `PROJECT.json`. That file lists the
components, the runs, the mutants, the map from definitions to source lines,
the findings and the hazards.

## The system

The repository has seven source files. Most of its behaviour is in
`src/src/backend/replication/walreceiver.c`, the WAL receiver process of a
PostgreSQL standby. The receiver interacts with four other actors:

- **The startup (recovery) process.** It asks the receiver to stream from a
  start position (RequestXLogStreaming), to stop (ShutdownWalRcv), or to reply
  at once (WalRcvForceReply). It replays WAL only up to the receiver's
  `flushedUpto`. They share `WalRcvData` in shared memory, under a spinlock.
  The startup process wakes the receiver through the latch the receiver
  advertises.
- **The postmaster.** It launches the receiver process and delivers SIGHUP
  and SIGTERM to it.
- **The walsender on the primary.** It sends `'w'` data frames and `'k'`
  keepalives, then end-of-COPY. It also reads the receiver's status replies
  (write/flush/apply positions) and its hot-standby feedback (xmin).
- **The disk.** `pg_wal` segments are written with `pg_pwrite`, made durable
  with `issue_xlog_fsync`, and get a `.ready`/`.done` archive status when
  they are closed.

The other files are:

- `shmem.c`: the shared memory allocator. The postmaster lays out the
  segment: the `ShmemLock` spinlock, `ShmemVariableCache` and the
  `ShmemIndex` hash table. Every backend then attaches to the index. Backends
  create or find named structures with `ShmemInitStruct` under
  `ShmemIndexLock`. They also take anonymous space with `ShmemAlloc` under
  the spinlock; dynahash does this whenever a shared table grows.
  `pg_get_shmem_allocations` reports what is used.
- `pg_rewind/timeline.c`: `rewind_parseTimeLineHistory`, which parses a
  timeline history file into a list of (tli, begin, end) entries.
- `bufpage.h`: the page header (`PageHeaderData`) and its inline accessors
  and setters: LSN, flags, prunable xid, page size and layout version,
  line-pointer count, special space. Every heap and index page goes through
  them.
- `replnodes.h`: node types.
- The git0 tools, two small programs that work on the current directory.
  `init-db` creates `.dircache`, then `.dircache/objects` and its
  subdirectories `00` to `ff`. `cat-file` copies an object into a new
  temporary file made by `mkstemp` and prints the file's name and the
  object's type. Several invocations of either may run in the same
  directory at once.

See "Not modelled" below.

## Modules

| module | models |
|---|---|
| `WalRcvLifecycle` | Abstract specification: the `WalRcvState` machine of spec §4.1, plus whether a receiver process exists. Each edge is labelled with the actor that takes it. |
| `WalReceiver` | The receiver process, action by action, with the startup process, postmaster, walsender, clock and crashes as environment actions. |
| `MCWalReceiver` | Model-checking instance; the `.cfg` files give the constants. |
| `Shmem` | `shmem.c`: the postmaster's setup as two actions, and each backend as a process stepping through `ShmemInitStruct`, `ShmemAllocRaw` and `pg_get_shmem_allocations`. |
| `MCShmem` | Two backends, two structure names, a 6-bit `Size`. |
| `TimelineHistory` | `rewind_parseTimeLineHistory`: one action per line of the parse loop plus the tip entry; `sscanf` as RECURSIVE scanning operators; a declarative reference parser. |
| `MCTimelineHistory` | The buffers and target TLIs to parse. |
| `InitDb` | `git0/init-db.c`: each invocation as a process, one action per system call of `main`, with kills between calls and mkdir failures. |
| `CatFile` | `git0/cat-file.c`: each invocation as a process, one action per step of `main`, over the temporary files of one directory. |
| `Git0` | The two tools in one working directory: `InitDb` and `CatFile` instantiated side by side and interleaved. |
| `MCGit0` | The objects `cat-file` may read. |
| `BufPage` | `bufpage.h`: the header fields as a record, each accessor and setter as an operator, and one action per setter call on a page. Checked directly with `MCBufPage.cfg`. |

### WalReceiver: state

| variable(s) | code |
|---|---|
| `walRcvState, pid, receiveStart, flushedUpto, writtenUpto, force_reply, latchPub` | `WalRcvData` in shared memory (`latchPub`: `walrcv->latch` is set) |
| `pc` | where the receiver process is in `WalReceiverMain` and its callees; `"none"` means no process |
| `latch, shutdownPending, reloadPending` | `MyLatch`, `ShutdownRequestPending`, `ConfigReloadPending` |
| `guc` | `wal_receiver_status_interval`, `hot_standby_feedback` |
| `recvFile, LogstreamResult, wr` | the open segment, the `LogstreamResult` static, an `XLogWalRcvWrite` in progress (`recptr`, `nbytes`) |
| `rep` | the reporter's statics: `wakeup[]`, `writePtr`/`flushPtr` of `XLogWalRcvSendReply`, `primary_has_standby_xmin` (`hasXmin`). It also holds two history fields: the xmin the primary holds, and whether a forced reply is owed. |
| `disk, archStatus` | per WAL position: `none` / `written` / `synced`; per segment: archive status file |
| `replayPtr, hotStandbyActive, startupPc, killPid` | the startup process |
| `chan, sendPtr, senderActive, kaSent` | the connection and the walsender |
| `primaryTLI, histFile, fetch` | the primary's timeline as `walrcv_identify_system` / `walrcv_endstreaming` last reported it (`primaryTLI`); per timeline 2..`MaxTLI`, its history file in `pg_wal` and archive status (`none` / `written` / `done` / `ready`); the timeline `WalRcvFetchTimeLineHistoryFiles` is working on and the call site it returns to |

Two abstractions apply to this state:

- **Positions are abstract LSNs.** `SegSize` positions make a segment.
- **Timestamps are abstracted to ticks.** `rep.wakeup[r]` is the distance of
  wakeup `r` from now. `Tick` brings every finite wakeup one tick closer, and
  `TIMESTAMP_INFINITY` is a distance no tick reaches.

### WalReceiver: actions

- **Receiver process actions**, one per step of the code:
  - `ReceiverStart` and `ClaimSlot`: the start-state switch and the slot claim.
  - `Connect`
  - `StartStreaming`: IDENTIFY_SYSTEM, which reports the primary's timeline
    (never lower than before), and the history fetch it calls
    (`FetchHistory`). When no file is missing the fetch returns at once
    into `StartReplication`: START_REPLICATION, the initial wakeups, the
    initial reply and feedback.
  - `FetchStep` and `FetchMark`: one iteration of the loop of
    `WalRcvFetchTimeLineHistoryFiles` that fetches a file (read, the
    name-check ERROR, the durable `writeTimeLineHistoryFile`), then its
    `XLogArchiveForceDone` or `XLogArchiveNotify`. Timelines whose file
    exists are skipped without a step of their own: `Missing` is what the
    loop would fetch, and the next step takes its least element.
  - `LoopTop`: interrupts and config reload.
  - `RecvData`, `RecvKeepalive`, `RecvEnd`, `RecvError`, `DrainDone`: the
    drain loop and `XLogWalRcvProcessMsg`. `RecvEnd` also takes the timeline
    `walrcv_endstreaming` reports and enters the second history fetch.
  - `WriteStep`: one `pg_pwrite` of `XLogWalRcvWrite`, with the segment
    switch, short writes and the zero-write PANIC.
  - `WriteDone`
  - `WakeLatch`, `ForcedReply`, `WakeSocket`, `WakeTimeout`
  - `EndStream`: the last segment's close, and the entry of
    `WalRcvWaitForStartPosition`.
  - `WaitStart`, `WaitCheck` and `SleepStart`: the loop of
    `WalRcvWaitForStartPosition` as its three steps (ResetLatch; interrupts
    and the state check; WaitLatch), so a RESTARTING request and its
    SetLatch can fall between any two of them.
  - `WalRcvDie`
- **Helper operators.** `XLogWalRcvFlush`, `XLogWalRcvClose`, `SendReply`,
  `SendHSFeedback` and `NextWakeup` are operators on a record of the state
  they touch. Each handler calls them in the order the code does, so a
  trailing flush, reply or feedback is part of the action that makes it.
- **Environment actions:**
  - `RequestXLogStreaming`
  - `ShutdownWalRcv`, `SignalWalRcv`, `ShutdownWaitDone`
  - `StartupReplay`: this may call `WalRcvForceReply`.
  - `EnableHotStandby`, `SigHup`
  - `SendData`, `SendKeepalive`, `SendLast`
  - `Tick`, `PowerFailure`
  - A PANIC and a power failure both lead to `CrashRestart`.

  The startup-process functions are in files outside `src/`, so they are
  modelled from the spec and marked `spec_modelled` in the map.
- **Refinement.** `WalReceiver` implements `WalRcvLifecycle` under the mapping
  `state <- walRcvState, alive <- (pc # "none")`. The run `lifecycle` checks
  this as `LifecycleRefined`.

### Shmem: state and actions

| variable | code |
|---|---|
| `hdr` | `PGShmemHeader`: `freeoffset`, `totalsize`, `index` (offsets from `ShmemBase`) |
| `index` | the `ShmemIndex` table: name -> `ShmemIndexEnt` (`size`, `allocated_size`, `location`); a field `hash_search` entered but nobody set yet is `Unset` |
| `freeElems` | elements on the `ShmemIndex` free list: `SHMEM_INDEX_SIZE` (scaled to `IndexElems`) after `hash_create` |
| `spin`, `idxLock`, `idxShared` | holder of `ShmemLock`; of `ShmemIndexLock` in exclusive mode; the backends holding it in shared mode |
| `pc`, `call`, `newStart`, `newFree`, `newSpace` | where each backend is, its call's arguments, and `ShmemAllocRaw`'s locals |
| `regions`, `got`, `report` | history: every chunk handed out (with the size its caller will use), every pointer `ShmemInitStruct` returned, the last report |

The actions are as follows:

- **Postmaster.** `InitShmemAllocation` and `InitShmemIndex` run before any
  backend exists, so their allocations are single steps. The
  `ShmemAllocUnlocked` and `ShmemAllocRaw` operators model those steps.
- **Backends.**
  - `Attach` is the `IsUnderPostmaster` branch.
  - `Call` computes the size with `add_size(mul_size(n, entry), extra)` and
    enters `ShmemInitStruct` or `ShmemAlloc`. An overflow is an ERROR.
  - `IdxAcquire`, then `Search`: `hash_search(HASH_ENTER_NULL)`, with the
    found and size-mismatch paths. A new entry takes an element from the
    free list. When the list is empty, `GrowIndex` starts dynahash's
    `element_alloc`: a `ShmemAllocNoError` of `ElemChunk` bytes through the
    same spinlock section, with `ShmemIndexLock` still held. `GrowDone` is
    its return. On NULL, `hash_search` returns NULL, and `ShmemInitStruct`
    releases the lock and ERRORs (shmem.c:441-448). Otherwise the batch goes
    on the free list, and the call goes on to its own `ShmemAllocRaw`.
  - `SpinAcquire`, `AllocRead`, `AllocWrite`, `SpinRelease`: the spinlock
    section of `ShmemAllocRaw`, split where another backend could interleave.
    `SpinRelease` also covers the caller's continuation: filling in the
    entry, or removing it on out-of-memory (`RemoveFailedEntry`, which puts
    its element back on the free list).
  - `ReportStart` and `ReportUnused` are `pg_get_shmem_allocations`. The
    first takes `ShmemIndexLock` shared (`idxShared`, which keeps out
    exclusive holders), sums the entries and reads `freeoffset` for the
    `<anonymous>` row. The second reads `freeoffset` again for the unused
    row and releases the lock. Neither read takes the spinlock, so a
    `ShmemAlloc`, which needs no `ShmemIndexLock`, can run between them:
    TLC finds such a report whose rows sum to less than `totalsize`.

Undefined behaviour is modelled as a choice. A read of an unset entry field
may return any value (`SizeMatches`, `ReadAllocated`); only mutants can reach
such a read.

### TimelineHistory: state and actions

The model's state is the buffer, the target TLI, and the parser's locals:
`bufptr`, `lastline`, `entries`, `lasttli` and `prevend`. `ParseLine` is one
iteration of the `while (!lastline)` loop, and it covers:

- the cut at the next newline;
- the whitespace/comment skip;
- `sscanf("%u\t%X/%X")`;
- the three fatal checks;
- the append.

`ParseTip` adds the tip entry, after the check against `targetTLI`.

XLogRecPtrs are `<<hi, lo>>` pairs. Digits are restricted to 0, 1 and A, the
only whitespace is a tab, and the newline is the separator.

`Sscanf` follows C's rules:

- leading whitespace is skipped;
- the format's tab matches any run of whitespace, or none;
- `%X` skips whitespace, but `/` must come next.

`RefHistory` and `RefAccepts` state the same parse without a loop: split
the buffer at newlines, drop blank and comment lines, and read each line's
fields from its maximal digit runs.

### BufPage: state and actions

`page` is a `PageHeaderData`: `pd_lsn` as its two halves, `pd_flags`,
`pd_lower`, `pd_upper`, `pd_special`, `pd_pagesize_version` and
`pd_prune_xid`. The operators follow the header line by line:
`PageXLogRecPtrGet` widens the high half before the shift, the flag setters
`|` the bit in and the clears `&` with the 16-bit complement,
`PageGetMaxOffsetNumber` guards the unsigned subtraction, and
`PageSetPrunable` keeps the older xid by the modular `TransactionIdPrecedes`.
The pointer accessors `PageGetItemId`, `PageGetContents` and
`PageGetSpecialPointer` are byte offsets from the start of the page.

The page starts either all zeros (a new page) or as `PageInit` plus some
`PageAddItem` calls leave it (`BuiltPage`). `PageInit` is in `bufpage.c`,
which is not in the repository, so that start state is taken from spec and
header. Then the actions `SetLSN`, `SetFlag`, `ClearFlag`, `SetPrunable`,
`ClearPrunable` and `SetPageSizeAndVersion` call the setters in any order.
History variables record what each setter was last given.

### InitDb and CatFile: state and actions

In `InitDb`, `fs` maps each path (`.dircache`, `objects`, the subdirectories
`00`.. and the directory `SHA1_FILE_DIRECTORY` names) to `"none"` or
`"dir"`. Per invocation there are `pc`, `env`, the loop index `i` and the exit
`status`. The actions follow `main`:

- `Start` (with or without the variable);
- `MkDircache` (lines 9-13);
- `CheckEnv` (lines 21-28, with the test of line 25 as written);
- `MkObjects` (lines 33-41);
- `MkSub` (one loop iteration);
- `Finish` (`return 0`).

`MkdirResults` gives the errno `mkdir` sets: EEXIST, ENOENT, or any other one
while faults remain. `Kill` ends an invocation between two calls.

In `CatFile`, `tmp` maps each temporary name to its content: the object it
came from and how many bytes were written. Per invocation the model keeps
the object read, the name `mkstemp` chose, the type to print, and what was
printed. The actions are `Start`, `Read`, `Mkstemp`, `Write` and `PrintResult`.
`read_sha1_file` is not in the repository, so its result is a choice of an
object or NULL. `write` may return the full size, a shorter count or -1.

## Runs

| run | cfg | checks | shows |
|---|---|---|---|
| core | `MCWalReceiver.cfg` | `TypeOK`, `FlushedUptoDurable`, `AckedFlushDurable`, `CompleteSegmentArchiveStatus`, `ReceiverFlushMonotone` | flushedUpto and every flush position reported to the primary are durable, across restarts below the flushed point, segment switches, short writes and a crash/power failure; filled segments get their archive status; the receiver never moves flushedUpto back |
| lifecycle | `MCWalReceiverLifecycle.cfg` | `LifecycleConsistent`, `FlushedUptoDurable`, `LifecycleRefined`, `ForceReplyHonored`, `RestartHonored`, `ShutdownCompletes` | the shared state agrees with the process in every interleaving with the startup process and a crash; the code implements the abstract lifecycle; a forced reply is sent, a RESTARTING request is taken up (no lost latch wakeup), and `ShutdownWalRcv` returns |
| feedback | `MCWalReceiverFeedback.cfg` | `ForgottenXminCleared`, `HistoryBeforeStream`, `TimerRearmed`, `TerminateOnlyAfterSilence` | turning `hot_standby_feedback` off makes the primary forget the xmin despite `primary_has_standby_xmin`; a timeout wakeup never leaves a wakeup due (no spinning); the receiver ends streaming for `wal_receiver_timeout` only after that much silence (every frame re-arms TERMINATE; `rep.silence` counts ticks since the last frame); `HistoryBeforeStream`: whenever the receiver streams or closes its last segment, pg_wal holds the history file of every timeline up to the primary's, a crash in the middle of the fetch loop included (a loop that stops one timeline short breaks it) |
| writtenupto | `MCWalReceiverWrittenUpto.cfg` | `SpecFlushedBelowWritten` (violation) | spec §3/§8 say `flushedUpto <= writtenUpto`; a new receiver resets `writtenUpto` to 0 (walreceiver.c:271) below an earlier `flushedUpto` |
| partial_ready | `MCWalReceiverPartialReady.cfg` | `SpecOnlyCompleteSegmentsReady` (violation) | with `archive_mode=always` the partial last segment is marked `.ready` at end of streaming (walreceiver.c:652), against spec §4.3/§6 |
| shmem | `MCShmem.cfg` | `TypeOK`, `AllocationsDisjoint`, `IndexEntriesAgree`, `ReportWithinSegment`, `CallsReturn` | concurrent ShmemAlloc/ShmemInitStruct never hand out overlapping, misaligned or out-of-segment space, nor a size smaller than the caller means; every caller of a name gets the same pointer and no half-made index entry is visible; a report's rows never sum to more than the segment (`<anonymous>` never wraps), though a concurrent ShmemAlloc can make them sum to less; every call returns, the out-of-memory paths of the structure and of the index's element batch included (a `GrowDone` that keeps `ShmemIndexLock` on NULL makes `CallsReturn` fail) |
| shmem_wrap | `MCShmemWrap.cfg` | `AllocationsDisjoint` (violation) | a request near the size_t limit wraps to 0 in `CACHELINEALIGN` (shmem.c:213) and ShmemAlloc returns space the segment does not have |
| timeline_history | `MCTimelineHistory.cfg` | `TypeOK`, `ParseMatchesReference` | over every buffer of up to 4 characters (plus 5-character lines) and every history file of 1 to 3 realistic lines (comments, bad order, tli 0, missing fields), with five target TLIs, the parser accepts exactly what the reference accepts and returns the reference history |
| bufpage | `MCBufPage.cfg` | `TypeOK`, `HeaderFieldsReadBack`, `FlagsTrackCalls`, `PrunableIsOldest`, `LinePointerCount` | whatever order the setters are called in, the accessors read back the whole LSN, the size and version apart, each flag as its own last call left it, the oldest prunable xid across the xid wraparound, and the right line-pointer count, for an all-zero page too; `PageAreasLaidOut`: the ItemIds of offsets 1 to the count lie between the header and `pd_lower`, and the special pointer is at or past `pd_upper` and its space ends at the page end (indexing `pd_linp` without the `- 1` breaks it) |
| initdb_shared | `MCInitDbShared.cfg` | `SharedDirectoryUsed` (violation) | with `SHA1_FILE_DIRECTORY` naming a directory, init-db still creates a private store: the test `!stat(...) < 0` (init-db.c:25) is never true |
| git0 | `MCGit0.cfg` | `TypeOK`, `SuccessMeansStore`, `PrintedFileHoldsObject` | with two init-db and two cat-file invocations interleaved, a mkdir failure, a kill and a short or failed write: an init-db that exits 0 has created `objects` and every subdirectory, and a file printed with the object's type holds the whole object |
| timeline_strict | `MCTimelineHistoryStrict.cfg` | `SpecMalformedRejected` (violation) | `"1A/1"` (no tab) is accepted as tli 1 with switchpoint A/1, and trailing text is ignored, against spec §6 |

Each property of a passing run has a mutant in `PROJECT.json`. A mutant is a
plausible bug in a mapped definition, and TLC finds it under that run's cfg.
Examples:

- the close without a flush;
- the reply that reports the write position as flushed;
- the flush without the monotonic guard;
- feedback skipped whenever it is disabled;
- the wait loop resetting its latch after the RESTARTING check instead of before it;
- a frame that re-arms PING but not TERMINATE;
- a history fetch loop that stops one timeline short;
- a spinlock taken without waiting;
- `ShmemIndexLock` given up before the new entry is filled in;
- the out-of-memory path keeping the lock, or returning NULL;
- a report taken without the lock;
- `add_size` without its check;
- a `sscanf` whose last `%X` does not skip whitespace;
- the order check applied to the first line;
- a cursor that skips a character after the newline;
- the LSN's high half shifted without widening;
- a flag set by `+` or cleared without the complement;
- `PageSetPrunable` without its validity test;
- `PageGetMaxOffsetNumber` without its guard;
- `PageGetItemId` without the `- 1`;
- a failed `mkdir` other than EEXIST tolerated;
- `exit(-1)` in place of `exit(1)`;
- `mkstemp` without its exclusive create.

## Bounds

| run | segments | other bounds | why |
|---|---|---|---|
| core | 2 segments of 2 positions | `MaxFrame 1`, one frame in flight, one crash, one keepalive | A restart can begin below what was flushed, a write can end mid-segment or exactly at a boundary, and a crash can hit between write and fsync. |
| lifecycle | 2 segments of 1 position | `MaxFrame 2`, one crash, keepalives with and without reply request | A single frame crosses a segment boundary, so `WriteStep` closes a segment in the middle of `XLogWalRcvWrite`. The liveness properties are checked with the crash possible but not forced: the crash is not a fair action. |
| feedback | 1 segment of 1 position | `wal_receiver_timeout` 2 ticks (ping at 1); status interval reloadable between 0 and 1; `hot_standby_feedback` reloadable; `MaxTLI 2`, one crash | Every branch of `WalRcvComputeNextWakeup` and of the two early returns of `XLogWalRcvSendHSFeedback` is reached. The primary can switch to timeline 2 before identify or during streaming, so both fetch call sites fetch, and the crash can hit between the write of a history file and its status. |

In every run the walsender's keepalives per connection are bounded by
`MaxKeepalives`, and crashes by `MaxCrashes`.

The Shmem runs use a 6-bit `Size`, a 24-byte segment, a cache line of 4
bytes and a MAXALIGN of 1. Two backends make two calls each over two names.
The postmaster's setup takes 12 bytes, which leaves room for three small
requests or one 9-byte request. So the following cases all happen:

- two backends race for the last space;
- the second creator of a name finds the first one's entry, or a
  size-mismatched one;
- out-of-memory happens with the entry already entered;
- with one preallocated index element, the second name grows the free list.
  The 4-byte batch either fits, or comes back NULL after a 9-byte structure
  took the last 12 bytes;
- `9 x 9` overflows `mul_size`, and `1 + 63` overflows `add_size`.

In the passing run, no request is within a cache line of 2^6, so
`newStart + size` cannot wrap there. That is true of real segments too, whose
`totalsize` is far below 2^64. The wrap run adds a 62-byte request.

The bufpage run scales the widths: an LSN half of 3 bits (LSN 63 has both
halves set, 8 only the high one), 4-bit xids with the normal ones from 3,
and xids 13, 15 and 4, which lie within half the circle of each other and
wrap past 15. The page offsets, the 24-byte header and the 4-byte line
pointer are the real ones, with 0 to 2 items and a special space of 0 or
16 bytes, sizes 8192 and 32768 and versions 4 and 255, so the size and
version bytes are both full.

The git0 run has two init-db invocations, two subdirectories (for 256), one
`mkdir` failure other than EEXIST and one kill. So an invocation races
another for `.dircache`, fails in the middle of the loop, or dies with
`.dircache` made. Its two cat-file invocations share one
temporary name, so the second finds no free name, and a `mkstemp` without
its exclusive create would give both the same file. Objects are of size 1 and 2, so a short
write of 0 or 1 bytes and a -1 are all possible. `unsigned long` is 4 bits:
the comparison only needs -1 to convert to a value no size has.

The timeline runs enumerate buffers, not lines:

- every string of up to 4 characters over `0 1 A / # z TAB NL`, plus all
  5-character lines over `0 1 A / TAB` (about 52,000 buffers);
- joins of 1 to 3 lines from nine shapes: well-formed, out of order, tli 0,
  no tab, trailing text, missing switchpoint, comment, empty.

## Fairness

`WF_vars(ReceiverNext)`: the receiver is a process that the OS keeps
scheduling, so while it can take a step it eventually does. Its waits are
encoded as guards:

- `WaitLatchOrSocket` waits on the latch, the socket or a due wakeup.
- `WaitLatch` waits on the latch.

A process that is blocked therefore has no enabled step.

The startup process's shutdown sequence (`SignalWalRcv`, `ShutdownWaitDone`)
is weakly fair, because ShutdownWalRcv runs to completion once called. `Tick`
is weakly fair because time passes.

The walsender, the recovery decisions, SIGHUP and failures are not fair. None
of them is promised to happen.

In `Shmem`, each backend is weakly fair, and so is the postmaster's setup.
Weak fairness suffices for the locks because every backend makes at most
`MaxCalls` calls. A backend waiting for a lock therefore finds it
continuously free once the others are done. The runs set `CHECK_DEADLOCK
FALSE` because the model ends when every backend has made its calls.

In `InitDb`, each started invocation's steps are weakly fair: a running
process keeps running. Starting one and killing one are not fair. No
liveness property is checked there: that an invocation ends follows from
the bound of its one loop, which no property needs to restate. The
git0 run sets `CHECK_DEADLOCK FALSE` because the system stops once every
invocation has exited.

`BufPage` has no fairness and no liveness property: its setters are
called by whoever holds the buffer, and nothing obliges anyone to call
them. Its properties are invariants.

`TimelineHistory` is a terminating loop. Its runs set `CHECK_DEADLOCK FALSE`
because parsing ends in `done` or `error`.

## Findings

The two violation runs are disagreements between spec.md and the code (see
`PROJECT.json` "findings"):

- `writtenUpto` is reset on every receiver start. This breaks the spec's
  invariant `flushedUpto <= writtenUpto` and its claim that `writtenUpto`
  only advances.
- The partial final segment gets `XLogArchiveNotify`.
- `rewind_parseTimeLineHistory`'s `sscanf` accepts lines that are not
  `<tli>\t<hi>/<lo>`: the tab may be missing, and text after the switchpoint
  is ignored.

Two are bugs in the code:

- `ShmemAllocRaw` aligns the size and adds it to `freeoffset` without an
  overflow check. A size within a cache line of `SIZE_MAX` becomes 0, and the
  call returns a pointer instead of the ERROR its comment promises.
- `init-db` tests `!stat(sha1_dir, &st) < 0`. That is `(!stat(...)) < 0`, which
  is never true. So `SHA1_FILE_DIRECTORY` is never honoured, against the
  comment at lines 15-19. init-db always reports a bad directory and creates
  its private store.

## Not modelled

- **Telemetry and reporting.** `ProcessWalSndrMessage` (statistics fields),
  `pg_stat_get_wal_receiver` and `WalRcvGetStateString`. They are readers and
  formatting, and change no state the receiver uses.
- **Archive status of a fetched history file.** The fetch loop is modelled,
  and the feedback run reaches a crash between `writeTimeLineHistoryFile`
  and the status call: after a restart the loop skips the file because it
  exists, so it never gets `.done` or `.ready`. The project states no
  property about this. Nothing in the code or the spec promises a status
  for a history file, and a file without one is only a missed archive.
  The hazard in PROJECT.json records the 7-state trace.
- **Timelines of the stream.** The receiver's `startpointTLI` stays 1 and
  the streamed WAL carries no timeline. Only the primary's timeline moves,
  which is all the history fetch reads. The contents of a history file are
  the subject of `TimelineHistory`.
- **Unreachable PANIC and FATAL paths.** The `close()` PANIC, and the FATAL
  when recovery has ended. The first needs an OS failure; the second is the
  "should not happen" cross-check.
- **Shmem details.**
  - `ShmemInitHash`'s `hash_create` is not modelled, and only its size
    reaches the model. It is dynahash, which is not in the repository. The
    one piece of it the index depends on, the element free list and its
    growth through `ShmemAllocNoError`, is modelled.
  - The report's text formatting is not modelled.
- **Timeline history.** Digit values above A, whitespace other than the tab,
  and XLogRecPtr values past a few hex digits are not modelled. The parse is
  the same for any digits, and the model keeps every rule that decides
  acceptance.
- **bufpage.c.** `PageInit`, `PageAddItemExtended`, `PageIsVerified` and
  the other functions `bufpage.h` declares are not in the repository, so
  `PageAddItem` and `PageIsVerified`, which only wrap them, are not
  modelled. `PageGetItem` needs `ItemIdGetOffset` from `itemid.h`, which is
  not in the repository either, so it is not modelled.
- **git0 details.**
  - The messages `init-db` and `cat-file` print are not modelled.
  - `cat-file` never removes its temporary file, so the files pile up until
    `mkstemp` runs out of names. The model has the resulting `usage()` exit
    (`Mkstemp` with no free name), but no property is about the leak: one
    test that runs the tool twice shows it.
  - The bytes of an object are not modelled, only how many of them a file
    holds.
  - `get_sha1_hex`, `read_sha1_file` and `usage` are not in the
    repository.
  - In `init-db`, the EEXIST tolerance for `objects` and the subdirectories
    is dead code in practice. Only the invocation that created `.dircache`
    reaches those `mkdir` calls, and no other program writes there in the
    model.
  - A killed or failed `init-db` leaves a partial store that no rerun can
    complete. Nothing in the code promises otherwise, so no property
    states it.
- **`replnodes.h`.** It declares node types only, and has no behaviour.

## Plan for later work

1. **In `WalReceiver`:** let the stream start on a later timeline
   (`startpointTLI` above 1), so the fetch loop's lower bound moves.
2. **Composition.** Feed the files the receiver fetches to
   `TimelineHistory`'s parser.
