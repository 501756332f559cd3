-------------------------------- MODULE Shmem --------------------------------
(***************************************************************************)
(* The shared memory allocator of shmem.c.  The postmaster sets up the     *)
(* segment (InitShmemAllocation, then InitShmemIndex, which bootstraps    *)
(* the ShmemIndex); backends then attach to the index and, concurrently,  *)
(* call ShmemInitStruct (lookup-or-create under ShmemIndexLock) and       *)
(* ShmemAlloc (bump allocation under the ShmemLock spinlock, as dynahash  *)
(* does when a shared table grows).  Offsets and sizes are Size values of *)
(* W bits, so every sum, product and alignment wraps modulo 2^W as size_t *)
(* does.                                                                   *)
(***************************************************************************)
EXTENDS Integers, FiniteSets, Functions, TLC

CONSTANTS
    Procs,          \* backends (model values)
    Names,          \* names of shared structures (model values)
    W,              \* width of Size in bits
    TotalSize,      \* shmhdr->totalsize
    HeaderSize,     \* MAXALIGN(sizeof(PGShmemHeader)): the first freeoffset
    MaxAlign,       \* MAXIMUM_ALIGNOF
    CacheLine,      \* PG_CACHE_LINE_SIZE
    SlockSize,      \* sizeof(slock_t)
    VarCacheSize,   \* sizeof(*ShmemVariableCache)
    IndexSize,      \* hash_get_shared_size() of the ShmemIndex
    IndexElems,     \* SHMEM_INDEX_SIZE: elements ShmemInitHash preallocates
    NElemAlloc,     \* elements one element_alloc batch adds
    ElemChunk,      \* bytes element_alloc asks ShmemAllocNoError for
    Requests,       \* <<count, entry size, extra>>: a caller's size is
                    \* add_size(mul_size(count, entry size), extra)
    MaxCalls        \* calls each backend makes

ASSUME W \in Nat /\ TotalSize < 2^W /\ HeaderSize <= TotalSize
ASSUME MaxCalls \in Nat
ASSUME IndexElems \in Nat /\ NElemAlloc \in Nat \ {0} /\ ElemChunk \in Nat

VARIABLES
    hdr,        \* the PGShmemHeader: freeoffset, totalsize, index
    pmPhase,    \* where the postmaster is in its setup
    index,      \* the ShmemIndex hash table: name -> ShmemIndexEnt
    freeElems,  \* elements on the ShmemIndex free list
    spin,       \* holder of the ShmemLock spinlock, or "free"
    idxLock,    \* exclusive holder of ShmemIndexLock, or "free"
    idxShared,  \* the backends holding ShmemIndexLock in LW_SHARED mode
    pc,         \* per backend: where it is in ShmemInitStruct/ShmemAllocRaw
    call,       \* per backend: the call in progress (kind, name, size)
    newStart,   \* per backend: ShmemAllocRaw's newStart and newFree locals
    newFree,
    newSpace,   \* per backend: ShmemAllocRaw's result
    calls,      \* per backend: calls made so far
    regions,    \* history: every chunk handed out, [start, len, align]
    got,        \* history: every (name, pointer) ShmemInitStruct returned
    report      \* the last pg_get_shmem_allocations result, or NoReport

vars == <<hdr, pmPhase, index, freeElems, spin, idxLock, idxShared, pc, call, newStart, newFree,
          newSpace, calls, regions, got, report>>

SizeT == 0 .. 2^W - 1
NULL  == -1     \* a NULL pointer
Unset == -2     \* a field of a ShmemIndexEnt that hash_search left unset

\* A call's arguments; want is the size the caller means, before mul_size
NoReport == [named |-> 0, anonymous |-> 0, unused |-> 0, taken |-> FALSE]

\* grow: the ShmemAllocRaw in progress is element_alloc's, for the index
NoCall == [kind |-> "none", name |-> "none", size |-> 0, want |-> 0,
           grow |-> FALSE]

-----------------------------------------------------------------------------
(* Size arithmetic *)

\* TYPEALIGN(a, len): add a-1 in size_t, then clear the low bits
TYPEALIGN(a, len) == LET s == (len + a - 1) % 2^W IN s - (s % a)

MAXALIGN(len)       == TYPEALIGN(MaxAlign, len)
CACHELINEALIGN(len) == TYPEALIGN(CacheLine, len)

\* add_size without its overflow check
AddSizeUnchecked(s1, s2) == [err |-> FALSE, val |-> (s1 + s2) % 2^W]

\* add_size: the sum in size_t, ERROR when it wrapped
add_size(s1, s2) ==
    LET r == (s1 + s2) % 2^W
    IN  [err |-> r < s1 \/ r < s2, val |-> r]

\* mul_size: the product in size_t, ERROR when dividing back fails
mul_size(s1, s2) ==
    LET r == (s1 * s2) % 2^W
    IN  IF s1 = 0 \/ s2 = 0 THEN [err |-> FALSE, val |-> 0]
        ELSE [err |-> r \div s2 # s1, val |-> r]

\* ShmemAddrIsValid, as an offset from ShmemBase
ShmemAddrIsValid(addr) == addr >= 0 /\ addr < hdr.totalsize

-----------------------------------------------------------------------------
(* Allocation *)

\* ShmemAllocUnlocked: MAXALIGN the size, bump freeoffset, ERROR past the end
ShmemAllocUnlocked(off, size) ==
    LET sz == MAXALIGN(size)
        nf == (off + sz) % 2^W
    IN  [err |-> nf > hdr.totalsize, start |-> off, next |-> nf, len |-> sz]

\* The body of ShmemAllocRaw when no other process can be allocating
\* (the postmaster before any backend exists): space is NULL past the end
ShmemAllocRaw(off, size) ==
    LET sz == CACHELINEALIGN(size)
        nf == (off + sz) % 2^W
    IN  IF nf <= hdr.totalsize
        THEN [space |-> off, next |-> nf, allocated |-> sz]
        ELSE [space |-> NULL, next |-> off, allocated |-> sz]

\* A chunk handed out: its start, the bytes its caller will use, the
\* alignment promised, and who asked for it
Chunk(start, len, align, by) ==
    [start |-> start, len |-> len, align |-> align, by |-> by]

-----------------------------------------------------------------------------
(* The postmaster *)

\* InitShmemAccess: the segment as PGSharedMemoryCreate leaves it
Init ==
    /\ hdr = [freeoffset |-> HeaderSize, totalsize |-> TotalSize,
              index |-> NULL]
    /\ pmPhase = "allocation"
    /\ index = <<>>
    /\ freeElems = 0
    /\ spin = "free"
    /\ idxLock = "free"
    /\ idxShared = {}
    /\ pc = [p \in Procs |-> "attach"]
    /\ call = [p \in Procs |-> NoCall]
    /\ newStart = [p \in Procs |-> 0]
    /\ newFree = [p \in Procs |-> 0]
    /\ newSpace = [p \in Procs |-> NULL]
    /\ calls = [p \in Procs |-> 0]
    /\ regions = {}
    /\ got = {}
    /\ report = NoReport

\* InitShmemAllocation: the spinlock by ShmemAllocUnlocked, freeoffset
\* moved to a cache line, the index pointer cleared, and
\* ShmemVariableCache by ShmemAlloc (which cannot fail to find the lock
\* free: no backend exists yet)
InitShmemAllocation ==
    /\ pmPhase = "allocation"
    /\ LET lock    == ShmemAllocUnlocked(hdr.freeoffset, SlockSize)
           aligned == CACHELINEALIGN(lock.next)
           vc      == ShmemAllocRaw(aligned, VarCacheSize)
       IN  /\ ~lock.err
           /\ vc.space # NULL
           /\ hdr' = [hdr EXCEPT !.freeoffset = vc.next, !.index = NULL]
           /\ regions' = regions \cup
                 {Chunk(lock.start, SlockSize, MaxAlign, "postmaster"),
                  Chunk(vc.space, VarCacheSize, CacheLine, "postmaster")}
    /\ pmPhase' = "index"
    /\ UNCHANGED <<index, freeElems, spin, idxLock, idxShared, pc, call, newStart, newFree,
                   newSpace, calls, got, report>>

\* InitShmemIndex in the postmaster: ShmemInitStruct("ShmemIndex") finds
\* no ShmemIndex and IsUnderPostmaster false, so it allocates the table
\* with ShmemAlloc and publishes it in hdr->index; hash_create then puts
\* SHMEM_INDEX_SIZE preallocated elements on the free list (their space is
\* counted in IndexSize)
InitShmemIndex ==
    /\ pmPhase = "index"
    /\ idxLock = "free" /\ idxShared = {}
    /\ LET ix == ShmemAllocRaw(hdr.freeoffset, IndexSize)
       IN  /\ ix.space # NULL
           /\ hdr' = [hdr EXCEPT !.freeoffset = ix.next, !.index = ix.space]
           /\ regions' = regions \cup {Chunk(ix.space, IndexSize, CacheLine,
                                                    "postmaster")}
           /\ got' = got \cup {[name |-> "ShmemIndex", loc |-> ix.space]}
    /\ pmPhase' = "up"
    /\ freeElems' = IndexElems
    /\ UNCHANGED <<index, spin, idxLock, idxShared, pc, call, newStart, newFree,
                   newSpace, calls, report>>

-----------------------------------------------------------------------------
(* A backend *)

Entry(size, allocated, location) ==
    [size |-> size, allocated_size |-> allocated, location |-> location]

\* The locals a call leaves behind are reset when it returns
Return(p) ==
    /\ pc' = [pc EXCEPT ![p] = "idle"]
    /\ call' = [call EXCEPT ![p] = NoCall]
    /\ newStart' = [newStart EXCEPT ![p] = 0]
    /\ newFree' = [newFree EXCEPT ![p] = 0]
    /\ newSpace' = [newSpace EXCEPT ![p] = NULL]
    /\ calls' = [calls EXCEPT ![p] = @ + 1]

\* InitShmemIndex in a backend: ShmemInitStruct("ShmemIndex") under
\* ShmemIndexLock finds IsUnderPostmaster and takes hdr->index, found
Attach(p) ==
    /\ pc[p] = "attach"
    /\ pmPhase = "up"
    /\ idxLock = "free" /\ idxShared = {}
    /\ pc' = [pc EXCEPT ![p] = "idle"]
    /\ got' = got \cup {[name |-> "ShmemIndex", loc |-> hdr.index]}
    /\ UNCHANGED <<hdr, pmPhase, index, freeElems, spin, idxLock, idxShared, call, newStart,
                   newFree, newSpace, calls, regions, report>>

\* A caller computes its size with mul_size and add_size and calls ShmemInitStruct
\* (kind "struct") or ShmemAlloc (kind "alloc"); an overflow is an ERROR
\* before the call
Call(p) ==
    /\ pc[p] = "idle"
    /\ calls[p] < MaxCalls
    /\ \E r \in Requests, kind \in {"struct", "alloc"}, n \in Names :
         LET m  == mul_size(r[1], r[2])
             sz == add_size(m.val, r[3])
         IN  IF m.err \/ sz.err
             THEN /\ calls' = [calls EXCEPT ![p] = @ + 1]
                  /\ UNCHANGED <<pc, call>>
             ELSE /\ call' = [call EXCEPT ![p] =
                        [kind |-> kind,
                         name |-> IF kind = "struct" THEN n ELSE "none",
                         size |-> sz.val, want |-> r[1] * r[2] + r[3],
                         grow |-> FALSE]]
                  /\ pc' = [pc EXCEPT ![p] =
                        IF kind = "struct" THEN "idxwait" ELSE "spinwait"]
                  /\ UNCHANGED calls
    /\ UNCHANGED <<hdr, pmPhase, index, freeElems, spin, idxLock, idxShared, newStart, newFree,
                   newSpace, regions, got, report>>

\* LWLockAcquire(ShmemIndexLock, LW_EXCLUSIVE)
IdxAcquire(p) ==
    /\ pc[p] = "idxwait"
    /\ idxLock = "free" /\ idxShared = {}
    /\ idxLock' = p
    /\ pc' = [pc EXCEPT ![p] = "search"]
    /\ UNCHANGED <<hdr, pmPhase, index, freeElems, spin, idxShared, call, newStart, newFree,
                   newSpace, calls, regions, got, report>>

\* Whether result->size equals size: a field hash_search left unset holds
\* whatever the element held before, so either answer is possible
SizeMatches(e, size) ==
    IF e.size = Unset THEN {TRUE, FALSE} ELSE {e.size = size}

\* The entry entered with the lock given up before it is filled in
EnterEntryReleaseEarly(p, n) ==
    /\ index' = index @@ (n :> Entry(Unset, Unset, Unset))
    /\ freeElems' = freeElems - 1
    /\ idxLock' = "free"
    /\ pc' = [pc EXCEPT ![p] = "spinwait"]
    /\ UNCHANGED <<got, call, newStart, newFree, newSpace, calls>>

\* hash_search entered a new entry: ShmemAllocRaw comes next, with
\* ShmemIndexLock still held
EnterEntry(p, n) ==
    /\ index' = index @@ (n :> Entry(Unset, Unset, Unset))
    /\ freeElems' = freeElems - 1
    /\ pc' = [pc EXCEPT ![p] = "spinwait"]
    /\ UNCHANGED <<idxLock, idxShared, got, call, newStart, newFree, newSpace, calls>>

\* hash_search with the free list empty: element_alloc asks
\* ShmemAllocNoError (ShmemAllocRaw, NULL rather than ERROR) for a batch
\* of elements, under ShmemLock, with ShmemIndexLock still held
GrowIndex(p) ==
    /\ call' = [call EXCEPT ![p].grow = TRUE]
    /\ pc' = [pc EXCEPT ![p] = "spinwait"]
    /\ UNCHANGED <<idxLock, idxShared, got, freeElems, newStart, newFree, newSpace,
                   calls>>

\* hash_search(HASH_ENTER_NULL).  Found: a size mismatch releases the lock
\* and ERRORs, otherwise the stored location is returned.  Not found: an
\* element is taken from the free list (grown first when it is empty),
\* the entry is entered (its fields unset) and ShmemAllocRaw is called.
Search(p) ==
    /\ pc[p] = "search"
    /\ LET n == call[p].name
       IN  IF n \in DOMAIN index
           THEN /\ idxLock' = "free"
                /\ \E match \in SizeMatches(index[n], call[p].size) :
                      got' = IF match
                             THEN got \cup {[name |-> n,
                                             loc |-> index[n].location]}
                             ELSE got
                /\ Return(p)
                /\ UNCHANGED <<index, freeElems>>
           ELSE IF freeElems > 0 THEN EnterEntry(p, n)
           ELSE GrowIndex(p) /\ UNCHANGED index
    /\ UNCHANGED <<hdr, pmPhase, spin, idxShared, regions, report>>

\* Out of memory, the entry is removed but ShmemIndexLock is kept
RemoveFailedEntryKeepLock(n) ==
    /\ index' = [k \in DOMAIN index \ {n} |-> index[k]]
    /\ freeElems' = freeElems + 1
    /\ UNCHANGED <<idxLock, idxShared, got>>

\* Out of memory, NULL is returned as before Postgres 9.0
RemoveFailedEntryReturnNull(n) ==
    /\ index' = [k \in DOMAIN index \ {n} |-> index[k]]
    /\ freeElems' = freeElems + 1
    /\ idxLock' = "free"
    /\ got' = got \cup {[name |-> n, loc |-> NULL]}

\* Out of memory in ShmemInitStruct: hash_search(HASH_REMOVE) of the
\* failed entry and LWLockRelease before the ERROR
RemoveFailedEntry(n) ==
    /\ index' = [k \in DOMAIN index \ {n} |-> index[k]]
    /\ freeElems' = freeElems + 1
    /\ idxLock' = "free"
    /\ UNCHANGED got

\* element_alloc's batch returned: on NULL hash_search returns NULL and
\* ShmemInitStruct releases ShmemIndexLock and ERRORs; otherwise the batch
\* goes on the free list, one element of it becomes the entry, and
\* ShmemInitStruct goes on to its own ShmemAllocRaw
GrowDone(p, n, s) ==
    IF s = NULL
    THEN /\ idxLock' = "free"
         /\ UNCHANGED <<index, freeElems, got>>
         /\ Return(p)
    ELSE /\ index' = index @@ (n :> Entry(Unset, Unset, Unset))
         /\ freeElems' = freeElems + NElemAlloc - 1
         /\ call' = [call EXCEPT ![p].grow = FALSE]
         /\ pc' = [pc EXCEPT ![p] = "spinwait"]
         /\ newSpace' = [newSpace EXCEPT ![p] = NULL]
         /\ UNCHANGED <<idxLock, idxShared, got, newStart, newFree, calls>>

\* SpinLockAcquire without waiting for the holder
SpinAcquireUnguarded(p) ==
    /\ pc[p] = "spinwait"
    /\ spin' = p
    /\ pc' = [pc EXCEPT ![p] = "read"]
    /\ UNCHANGED <<hdr, pmPhase, index, freeElems, idxLock, idxShared, call, newStart, newFree,
                   newSpace, calls, regions, got, report>>

\* SpinLockAcquire(ShmemLock) in ShmemAllocRaw
SpinAcquire(p) ==
    /\ pc[p] = "spinwait"
    /\ spin = "free"
    /\ spin' = p
    /\ pc' = [pc EXCEPT ![p] = "read"]
    /\ UNCHANGED <<hdr, pmPhase, index, freeElems, idxLock, idxShared, call, newStart, newFree,
                   newSpace, calls, regions, got, report>>

\* The size ShmemAllocRaw is asked for, and the bytes its caller uses
AllocSize(c) == IF c.grow THEN ElemChunk ELSE c.size
AllocWant(c) == IF c.grow THEN ElemChunk ELSE c.want

\* newStart = freeoffset; newFree = newStart + CACHELINEALIGN(size); a
\* newFree past totalsize makes the result NULL
AllocRead(p) ==
    /\ pc[p] = "read"
    /\ LET nf == (hdr.freeoffset + CACHELINEALIGN(AllocSize(call[p]))) % 2^W
       IN  /\ newStart' = [newStart EXCEPT ![p] = hdr.freeoffset]
           /\ newFree' = [newFree EXCEPT ![p] = nf]
           /\ pc' = [pc EXCEPT ![p] =
                       IF nf <= hdr.totalsize THEN "write" ELSE "release"]
    /\ UNCHANGED <<hdr, pmPhase, index, freeElems, spin, idxLock, idxShared, call, newSpace,
                   calls, regions, got, report>>

\* freeoffset = newFree; newSpace = ShmemBase + newStart
AllocWrite(p) ==
    /\ pc[p] = "write"
    /\ hdr' = [hdr EXCEPT !.freeoffset = newFree[p]]
    /\ newSpace' = [newSpace EXCEPT ![p] = newStart[p]]
    /\ regions' = regions \cup {Chunk(newStart[p], AllocWant(call[p]), CacheLine, p)}
    /\ pc' = [pc EXCEPT ![p] = "release"]
    /\ UNCHANGED <<pmPhase, index, freeElems, spin, idxLock, idxShared, call, newStart, newFree,
                   calls, got, report>>

\* SpinLockRelease, and the return to the caller.  ShmemAlloc returns (or
\* ERRORs on NULL).  ShmemInitStruct removes the entry on NULL, releases
\* ShmemIndexLock and ERRORs; otherwise it fills in the entry, releases
\* the lock and returns the space.
SpinRelease(p) ==
    /\ pc[p] = "release"
    /\ spin' = "free"
    /\ LET n == call[p].name
           s == newSpace[p]
       IN  CASE call[p].grow -> GrowDone(p, n, s)
             [] call[p].kind = "alloc" ->
                  UNCHANGED <<index, freeElems, idxLock, idxShared, got>> /\ Return(p)
             [] s = NULL -> RemoveFailedEntry(n) /\ Return(p)
             [] OTHER ->
                  /\ index' = [index EXCEPT ![n] =
                        Entry(call[p].size, CACHELINEALIGN(call[p].size), s)]
                  /\ idxLock' = "free"
                  /\ got' = got \cup {[name |-> n, loc |-> s]}
                  /\ UNCHANGED freeElems
                  /\ Return(p)
    /\ UNCHANGED <<hdr, pmPhase, idxShared, regions, report>>

\* An entry's allocated_size as a reader sees it: a field hash_search left
\* unset holds whatever the element held before
ReadAllocated(e) ==
    IF e.allocated_size = Unset THEN SizeT ELSE {e.allocated_size}

\* The sum of the entries' allocated sizes as read, in size_t
NamedAllocated(alloc) == FoldFunction(LAMBDA x, y : (x + y) % 2^W, 0, alloc)

\* pg_get_shmem_allocations without ShmemIndexLock
ReportStartUnlocked(p) ==
    /\ pc[p] = "idle"
    /\ calls[p] < MaxCalls
    /\ \E alloc \in [DOMAIN index -> SizeT] :
          /\ \A n \in DOMAIN index : alloc[n] \in ReadAllocated(index[n])
          /\ report' = [named     |-> NamedAllocated(alloc),
                        anonymous |-> (hdr.freeoffset - NamedAllocated(alloc)) % 2^W,
                        unused    |-> 0,
                        taken     |-> FALSE]
    /\ pc' = [pc EXCEPT ![p] = "report"]
    /\ UNCHANGED <<hdr, pmPhase, index, freeElems, spin, idxLock, idxShared,
                   call, newStart, newFree, newSpace, calls, regions, got>>

\* pg_get_shmem_allocations up to the "<anonymous>" row: ShmemIndexLock in
\* LW_SHARED mode (no exclusive holder), the sum of every entry's
\* allocated_size, then freeoffset - named_allocated in size_t, with
\* freeoffset read without the spinlock.  The entries cannot change under
\* the shared lock, so the scan is one step with the read of freeoffset.
ReportStart(p) ==
    /\ pc[p] = "idle"
    /\ calls[p] < MaxCalls
    /\ idxLock = "free"
    /\ idxShared' = idxShared \cup {p}
    /\ \E alloc \in [DOMAIN index -> SizeT] :
          /\ \A n \in DOMAIN index : alloc[n] \in ReadAllocated(index[n])
          /\ report' = [named     |-> NamedAllocated(alloc),
                        anonymous |-> (hdr.freeoffset - NamedAllocated(alloc)) % 2^W,
                        unused    |-> 0,
                        taken     |-> FALSE]
    /\ pc' = [pc EXCEPT ![p] = "report"]
    /\ UNCHANGED <<hdr, pmPhase, index, freeElems, spin, idxLock, call,
                   newStart, newFree, newSpace, calls, regions, got>>

\* The "unused" row: freeoffset read again, without the spinlock, so a
\* ShmemAlloc (which takes no ShmemIndexLock) may have moved it since the
\* "<anonymous>" row; then LWLockRelease
ReportUnused(p) ==
    /\ pc[p] = "report"
    /\ report' = [report EXCEPT !.unused = (hdr.totalsize - hdr.freeoffset) % 2^W,
                                 !.taken = TRUE]
    /\ idxShared' = idxShared \ {p}
    /\ pc' = [pc EXCEPT ![p] = "idle"]
    /\ calls' = [calls EXCEPT ![p] = @ + 1]
    /\ UNCHANGED <<hdr, pmPhase, index, freeElems, spin, idxLock, call,
                   newStart, newFree, newSpace, regions, got>>

Postmaster == InitShmemAllocation \/ InitShmemIndex

Backend(p) ==
    \/ Attach(p) \/ Call(p) \/ ReportStart(p) \/ ReportUnused(p)
    \/ IdxAcquire(p) \/ Search(p)
    \/ SpinAcquire(p) \/ AllocRead(p) \/ AllocWrite(p) \/ SpinRelease(p)

Next == Postmaster \/ \E p \in Procs : Backend(p)

\* The postmaster finishes its setup, and each backend is a process the
\* OS keeps scheduling
Spec == Init /\ [][Next]_vars /\ WF_vars(Postmaster)
                /\ \A p \in Procs : WF_vars(Backend(p))

-----------------------------------------------------------------------------
(* Properties *)

Offsets == 0 .. TotalSize - 1
Pcs == {"attach", "idle", "idxwait", "search", "spinwait", "read", "write",
        "release", "report"}

TypeOK ==
    /\ hdr.freeoffset \in SizeT /\ hdr.totalsize = TotalSize
    /\ hdr.index \in Offsets \cup {NULL}
    /\ pmPhase \in {"allocation", "index", "up"}
    /\ DOMAIN index \subseteq Names /\ freeElems \in Nat
    /\ spin \in Procs \cup {"free"} /\ idxLock \in Procs \cup {"free"}
    /\ idxShared \subseteq Procs
    /\ pc \in [Procs -> Pcs]
    /\ newStart \in [Procs -> SizeT] /\ newFree \in [Procs -> SizeT]
    /\ newSpace \in [Procs -> Offsets \cup {NULL}]
    /\ calls \in [Procs -> 0 .. MaxCalls]
    /\ got \subseteq [name : Names \cup {"ShmemIndex"}, loc : Offsets]
    /\ report \in [named : SizeT, anonymous : SizeT, unused : SizeT,
                   taken : BOOLEAN]

\* Every chunk ShmemAllocUnlocked or ShmemAllocRaw hands out, for the
\* bytes its caller means to use, lies below freeoffset and inside the
\* segment, starts at the alignment promised, and overlaps no other chunk
\* (the spinlock serialises concurrent ShmemAllocRaw calls); and no call
\* asks for fewer bytes than its caller means (add_size and mul_size
\* ERROR rather than wrap).
AllocationsDisjoint ==
    /\ \A p \in Procs : call[p].size >= call[p].want
    /\ hdr.freeoffset <= hdr.totalsize
    /\ \A c \in regions :
          /\ c.start % c.align = 0
          /\ c.start + c.len <= hdr.freeoffset
    /\ \A c, d \in regions :
          c # d => c.start + c.len <= d.start \/ d.start + d.len <= c.start

\* ShmemInitStruct gives every caller of one name the same valid,
\* cache-aligned pointer, the one in the ShmemIndex; and whenever
\* ShmemIndexLock is free, every ShmemIndex entry is filled in with a chunk
\* of its size (the entry is entered before its space is allocated).
IndexEntriesAgree ==
    /\ \A g, h \in got : g.name = h.name => g.loc = h.loc
    /\ \A g \in got : ShmemAddrIsValid(g.loc) /\ g.loc % CacheLine = 0
    /\ \A g \in got : g.name \in DOMAIN index => index[g.name].location = g.loc
    /\ idxLock = "free" =>
          \A n \in DOMAIN index :
             \E c \in regions : c.start = index[n].location
                               /\ c.len = index[n].size

\* A pg_get_shmem_allocations result never claims more than the segment:
\* its named, "<anonymous>" and unused rows together are at most totalsize.
\* They may be less, since a concurrent ShmemAlloc can move freeoffset
\* between the two unlocked reads, but "<anonymous>" (freeoffset -
\* named_allocated in size_t) never wraps: the shared ShmemIndexLock keeps
\* out entries whose allocated_size is not yet set.
ReportWithinSegment ==
    report.taken =>
        report.named + report.anonymous + report.unused <= hdr.totalsize

\* Every call a backend starts (and its attach to the ShmemIndex) returns:
\* ShmemIndexLock and the spinlock are released on every path, the
\* out-of-memory ERROR included.
CallsReturn ==
    \A p \in Procs : pc[p] # "idle" ~> pc[p] = "idle"

====
