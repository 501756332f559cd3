------------------------------- MODULE MCShmem -------------------------------
(***************************************************************************)
(* Model-checking instance of Shmem.  Size is 6 bits wide; the segment    *)
(* has 24 bytes, a cache line is 4 bytes and MAXALIGN is 1, so the        *)
(* postmaster's setup leaves 12 bytes: room for three 1-byte requests or  *)
(* one 9-byte one.  A 9 x 9 request overflows mul_size and 1 + 63         *)
(* overflows add_size.                                                     *)
(***************************************************************************)
EXTENDS Shmem

CONSTANTS p1, p2, n1, n2

MCProcs == {p1, p2}
MCNames == {n1, n2}
MCRequests == {<<1, 1, 0>>, <<1, 9, 0>>, <<9, 9, 0>>, <<1, 1, 63>>}

\* Requests whose size is close to 2^W: CACHELINEALIGN and newStart + size
\* wrap in ShmemAllocRaw
MCHugeRequests == {<<1, 1, 0>>, <<1, 62, 0>>}

Symm == Permutations(MCProcs) \cup Permutations(MCNames)

====
