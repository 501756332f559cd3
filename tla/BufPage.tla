------------------------------- MODULE BufPage -------------------------------
(***************************************************************************)
(* The page header of bufpage.h and its inline accessors and setters.     *)
(* The state is one page's PageHeaderData; the actions are the setters a  *)
(* caller may apply in any order (PageSetLSN, the three flag set/clear    *)
(* pairs, PageSetPrunable, PageClearPrunable, PageSetPageSizeAndVersion), *)
(* and history variables record what was set, so that the accessors can   *)
(* be checked against it.  The LSN halves and transaction ids are scaled  *)
(* from 32 bits to HalfBits and XidBits; the header offsets keep their    *)
(* real sizes.                                                             *)
(***************************************************************************)
EXTENDS Integers, FiniteSets, Bitwise

CONSTANTS
    HalfBits,       \* width of pd_lsn.xlogid and pd_lsn.xrecoff
    XidBits,        \* width of a TransactionId
    SizeBits,       \* width of size_t (only its low 16 bits reach a result)
    BLCKSZ,
    SpecialSizes,   \* sizes of the special space pages are built with
    MaxItems,       \* line pointers a page may start with
    Lsns,           \* LSNs passed to PageSetLSN
    Xids,           \* normal xids passed to PageSetPrunable
    PageSizes,      \* sizes passed to PageSetPageSizeAndVersion
    Versions        \* layout versions passed to PageSetPageSizeAndVersion

VARIABLES
    page,       \* PageHeaderData
    items,      \* history: line pointers the page was built with
    special,    \* history: size of the special space it was built with
    lastLsn,    \* history: the last LSN PageSetLSN stored
    lastSize,   \* history: the last PageSetPageSizeAndVersion arguments
    lastVersion,
    flagOn,     \* history: per flag, whether its last setter set it
    pruneHist   \* history: xids passed to PageSetPrunable since the clear

vars == <<page, items, special, lastLsn, lastSize, lastVersion, flagOn,
          pruneHist>>

SizeOfPageHeaderData == 24      \* offsetof(PageHeaderData, pd_linp)
SizeOfItemIdData     == 4       \* sizeof(ItemIdData)
PD_HAS_FREE_LINES    == 1
PD_PAGE_FULL         == 2
PD_ALL_VISIBLE       == 4
PD_VALID_FLAG_BITS   == 7
Flags == {PD_HAS_FREE_LINES, PD_PAGE_FULL, PD_ALL_VISIBLE}
InvalidTransactionId == 0
FirstNormalTransactionId == 3

\* ~mask as a uint16
Compl16(mask) == 65535 - mask

-----------------------------------------------------------------------------
(* Transaction ids (access/transam.c) *)

TransactionIdIsValid(x)  == x # InvalidTransactionId
TransactionIdIsNormal(x) == x >= FirstNormalTransactionId

\* TransactionIdPrecedes: plain comparison unless both are normal, then
\* the sign of the difference as an int32 (modulo 2^XidBits here)
TransactionIdPrecedes(id1, id2) ==
    IF ~TransactionIdIsNormal(id1) \/ ~TransactionIdIsNormal(id2)
    THEN id1 < id2
    ELSE (id1 - id2) % 2^XidBits >= 2^(XidBits - 1)

-----------------------------------------------------------------------------
(* Accessors *)

\* PageXLogRecPtrGet with the shift done in 32 bits: xlogid | xrecoff
PageXLogRecPtrGetNoWiden(v) == v.xlogid | v.xrecoff

\* PageXLogRecPtrGet: (uint64) xlogid << 32 | xrecoff
PageXLogRecPtrGet(v) == v.xlogid * 2^HalfBits + v.xrecoff

\* PageXLogRecPtrSet: the high and the low half, each as a uint32
PageXLogRecPtrSet(lsn) ==
    [xlogid |-> (lsn \div 2^HalfBits) % 2^HalfBits,
     xrecoff |-> lsn % 2^HalfBits]

PageGetLSN(p) == PageXLogRecPtrGet(p.pd_lsn)

PageIsEmpty(p) == p.pd_lower <= SizeOfPageHeaderData

PageIsNew(p) == p.pd_upper = 0

\* PageGetMaxOffsetNumber without the guard for an empty header
PageGetMaxOffsetNumberUnguarded(p) ==
    (((p.pd_lower - SizeOfPageHeaderData) % 2^SizeBits)
        \div SizeOfItemIdData) % 2^16

\* PageGetMaxOffsetNumber: (pd_lower - SizeOfPageHeaderData) is a size_t,
\* the quotient is truncated to an OffsetNumber (uint16)
PageGetMaxOffsetNumber(p) ==
    IF p.pd_lower <= SizeOfPageHeaderData THEN 0
    ELSE (((p.pd_lower - SizeOfPageHeaderData) % 2^SizeBits)
            \div SizeOfItemIdData) % 2^16

PageGetPageSize(p) == p.pd_pagesize_version & 65280    \* & 0xFF00

PageGetPageLayoutVersion(p) == p.pd_pagesize_version & 255

\* PageGetSpecialSize: a uint16 difference
PageGetSpecialSize(p) == (PageGetPageSize(p) - p.pd_special) % 2^16

\* PageValidateSpecialPointer's assertions
PageValidateSpecialPointer(p) ==
    p.pd_special <= BLCKSZ /\ p.pd_special >= SizeOfPageHeaderData

PageHasFlag(p, f) == (p.pd_flags & f) # 0

(* The pointer accessors, as byte offsets from the start of the page *)

MAXIMUM_ALIGNOF == 8
MAXALIGN(len) == ((len + MAXIMUM_ALIGNOF - 1) \div MAXIMUM_ALIGNOF)
                    * MAXIMUM_ALIGNOF

\* PageGetItemId indexing pd_linp by the offset number itself
PageGetItemIdNoMinus(p, offsetNumber) ==
    SizeOfPageHeaderData + offsetNumber * SizeOfItemIdData

\* PageGetItemId: &pd_linp[offsetNumber - 1]; offset numbers start at 1,
\* and the subtraction is done in int
PageGetItemId(p, offsetNumber) ==
    SizeOfPageHeaderData + (offsetNumber - 1) * SizeOfItemIdData

PageGetContents(p) == MAXALIGN(SizeOfPageHeaderData)

\* PageGetSpecialPointer: the assertions, then page + pd_special
PageGetSpecialPointer(p) ==
    IF PageValidateSpecialPointer(p) THEN p.pd_special ELSE "assert"

-----------------------------------------------------------------------------
(* Setters *)

\* Setting a flag by adding it instead of or-ing it in
PageSetFlagByAdd(p, f) == [p EXCEPT !.pd_flags = (@ + f) % 2^16]

\* PageSetHasFreeLinePointers, PageSetFull, PageSetAllVisible: pd_flags |= f
PageSetFlag(p, f) == [p EXCEPT !.pd_flags = @ | f]

\* Clearing a flag with the mask itself instead of its complement
PageClearFlagNoCompl(p, f) == [p EXCEPT !.pd_flags = @ & f]

\* PageClearHasFreeLinePointers, PageClearFull, PageClearAllVisible:
\* pd_flags &= ~f
PageClearFlag(p, f) == [p EXCEPT !.pd_flags = @ & Compl16(f)]

\* PageSetPrunable relying on TransactionIdPrecedes alone
PageSetPrunableNoValidCheck(p, xid) ==
    IF TransactionIdPrecedes(xid, p.pd_prune_xid)
    THEN [p EXCEPT !.pd_prune_xid = xid] ELSE p

\* PageSetPrunable: keep the oldest xid; an invalid pd_prune_xid is
\* replaced by any xid
PageSetPrunable(p, xid) ==
    IF ~TransactionIdIsValid(p.pd_prune_xid)
       \/ TransactionIdPrecedes(xid, p.pd_prune_xid)
    THEN [p EXCEPT !.pd_prune_xid = xid] ELSE p

PageClearPrunable(p) == [p EXCEPT !.pd_prune_xid = InvalidTransactionId]

\* PageSetPageSizeAndVersion: size | version (the asserts hold for the
\* arguments: size has no low byte, version fits one)
PageSetPageSizeAndVersion(p, size, version) ==
    [p EXCEPT !.pd_pagesize_version = size | version]

PageSetLSN(p, lsn) == [p EXCEPT !.pd_lsn = PageXLogRecPtrSet(lsn)]

-----------------------------------------------------------------------------
(* The page and the calls made on it *)

PG_PAGE_LAYOUT_VERSION == 4

\* A page as PageInit and PageAddItem leave it, with k line pointers and a
\* special space of sz bytes, or all zeros (a new page)
BuiltPage(k, sz) ==
    [pd_lsn |-> PageXLogRecPtrSet(0), pd_checksum |-> 0, pd_flags |-> 0,
     pd_lower |-> SizeOfPageHeaderData + k * SizeOfItemIdData,
     pd_upper |-> BLCKSZ - sz - 32 * k,
     pd_special |-> BLCKSZ - sz,
     pd_pagesize_version |-> BLCKSZ + PG_PAGE_LAYOUT_VERSION,
     pd_prune_xid |-> InvalidTransactionId]

NewPage ==
    [pd_lsn |-> PageXLogRecPtrSet(0), pd_checksum |-> 0, pd_flags |-> 0,
     pd_lower |-> 0, pd_upper |-> 0, pd_special |-> 0,
     pd_pagesize_version |-> 0, pd_prune_xid |-> InvalidTransactionId]

Init ==
    /\ \/ /\ page = NewPage
          /\ items = 0 /\ special = 0 /\ lastSize = 0 /\ lastVersion = 0
       \/ \E k \in 0 .. MaxItems, sz \in SpecialSizes :
             /\ page = BuiltPage(k, sz)
             /\ items = k /\ special = sz
             /\ lastSize = BLCKSZ /\ lastVersion = PG_PAGE_LAYOUT_VERSION
    /\ lastLsn = 0
    /\ flagOn = [f \in Flags |-> FALSE]
    /\ pruneHist = {}

SetLSN ==
    \E lsn \in Lsns :
        /\ page' = PageSetLSN(page, lsn)
        /\ lastLsn' = lsn
        /\ UNCHANGED <<items, special, lastSize, lastVersion, flagOn,
                       pruneHist>>

SetFlag ==
    \E f \in Flags :
        /\ page' = PageSetFlag(page, f)
        /\ flagOn' = [flagOn EXCEPT ![f] = TRUE]
        /\ UNCHANGED <<items, special, lastLsn, lastSize, lastVersion,
                       pruneHist>>

ClearFlag ==
    \E f \in Flags :
        /\ page' = PageClearFlag(page, f)
        /\ flagOn' = [flagOn EXCEPT ![f] = FALSE]
        /\ UNCHANGED <<items, special, lastLsn, lastSize, lastVersion,
                       pruneHist>>

SetPrunable ==
    \E xid \in Xids :
        /\ page' = PageSetPrunable(page, xid)
        /\ pruneHist' = pruneHist \cup {xid}
        /\ UNCHANGED <<items, special, lastLsn, lastSize, lastVersion,
                       flagOn>>

ClearPrunable ==
    /\ page' = PageClearPrunable(page)
    /\ pruneHist' = {}
    /\ UNCHANGED <<items, special, lastLsn, lastSize, lastVersion, flagOn>>

SetPageSizeAndVersion ==
    \E size \in PageSizes, version \in Versions :
        /\ page' = PageSetPageSizeAndVersion(page, size, version)
        /\ lastSize' = size /\ lastVersion' = version
        /\ UNCHANGED <<items, special, lastLsn, flagOn, pruneHist>>

Next ==
    \/ SetLSN \/ SetFlag \/ ClearFlag \/ SetPrunable \/ ClearPrunable
    \/ SetPageSizeAndVersion

Spec == Init /\ [][Next]_vars

-----------------------------------------------------------------------------
(* Properties *)

TypeOK ==
    /\ page.pd_lsn \in [xlogid : 0 .. 2^HalfBits - 1,
                        xrecoff : 0 .. 2^HalfBits - 1]
    /\ page.pd_flags \in 0 .. PD_VALID_FLAG_BITS
    /\ page.pd_prune_xid \in Xids \cup {InvalidTransactionId}
    /\ pruneHist \subseteq Xids
    /\ flagOn \in [Flags -> BOOLEAN]

\* What the header setters stored reads back through the accessors: the
\* LSN, split by PageXLogRecPtrSet into two 32-bit halves, is whole again
\* through PageGetLSN, and the size and layout version packed into one
\* uint16 come back apart.
HeaderFieldsReadBack ==
    /\ PageGetLSN(page) = lastLsn
    /\ PageGetPageSize(page) = lastSize
    /\ PageGetPageLayoutVersion(page) = lastVersion

\* Each flag reads as its last PageSet*/PageClear* call left it, whatever
\* was done to the other flags, and pd_flags has no bit outside
\* PD_VALID_FLAG_BITS.
FlagsTrackCalls ==
    /\ \A f \in Flags : PageHasFlag(page, f) = flagOn[f]
    /\ page.pd_flags & Compl16(PD_VALID_FLAG_BITS) = 0

\* pd_prune_xid is invalid exactly when no PageSetPrunable happened since
\* PageClearPrunable, and otherwise is the oldest xid passed since then
\* (the xids callers pass lie within half the xid circle of each other).
PrunableIsOldest ==
    /\ (pruneHist = {}) = ~TransactionIdIsValid(page.pd_prune_xid)
    /\ pruneHist # {} =>
          /\ page.pd_prune_xid \in pruneHist
          /\ \A x \in pruneHist :
                ~TransactionIdPrecedes(x, page.pd_prune_xid)

\* PageGetMaxOffsetNumber counts the line pointers the page was built
\* with, a new all-zero page (pd_lower 0) included, and PageIsEmpty agrees
\* with it; an initialised page passes PageValidateSpecialPointer, and
\* while its size is BLCKSZ its special space has the size it was built
\* with.
LinePointerCount ==
    /\ PageGetMaxOffsetNumber(page) = items
    /\ PageIsEmpty(page) = (items = 0)
    /\ ~PageIsNew(page) => PageValidateSpecialPointer(page)
    /\ ~PageIsNew(page) /\ lastSize = BLCKSZ =>
          PageGetSpecialSize(page) = special

\* On an initialised page the accessors' pointers fall in the right areas:
\* the ItemIds of offsets 1 .. PageGetMaxOffsetNumber lie between the
\* header and pd_lower, the contents start past the header, and the
\* special space runs from PageGetSpecialPointer, at or past pd_upper, for
\* PageGetSpecialSize bytes to the end of a BLCKSZ page.
PageAreasLaidOut ==
    ~PageIsNew(page) =>
        /\ \A o \in 1 .. PageGetMaxOffsetNumber(page) :
              /\ PageGetItemId(page, o) >= SizeOfPageHeaderData
              /\ PageGetItemId(page, o) + SizeOfItemIdData <= page.pd_lower
        /\ PageGetContents(page) >= SizeOfPageHeaderData
        /\ page.pd_lower <= page.pd_upper
        /\ page.pd_upper <= PageGetSpecialPointer(page)
        /\ lastSize = BLCKSZ =>
              PageGetSpecialPointer(page) + PageGetSpecialSize(page) = BLCKSZ

====
