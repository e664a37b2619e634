----------------------------- MODULE BlockCache -----------------------------
(***************************************************************************)
(* The superblock's cache of free block numbers, sb.FreeBlock[0] ..        *)
(* sb.FreeBlock[sb.NFreeBlock-1], as AllocBlock and FreeBlock of           *)
(* pkg/ufs/alloc.go change it.  The cache is the sequence of those         *)
(* entries, oldest first, so sb.NFreeBlock is its length, FreeBlock[0] its *)
(* first element and the entry handed out next its last.                   *)
(*                                                                         *)
(* The content of a sector is abstracted to what AllocBlock makes of it:   *)
(* the list of sector numbers it loads when it takes the sector for a      *)
(* chain block, and <<>> when the first word is 0 or above MaxFreeBlock.   *)
(***************************************************************************)
EXTENDS Naturals, SequencesExt

CONSTANT MaxFreeBlock   \* entries of the cache and of a chain block (51)

ASSUME MaxFreeBlockAssumption == MaxFreeBlock \in Nat /\ MaxFreeBlock >= 2

\* Mutants of the definitions below: the guard against the last block's old
\* content dropped; the entry handed out left in the reloaded cache; the
\* test for a full cache off by one; the spilled entries not written, or kept
\* in the cache as well.
LoadedUnguarded(cache, total, content) == IF Len(cache) = 1 THEN content ELSE <<>>
CacheNotPopped(cache, chain) == IF chain = <<>> THEN Front(cache) ELSE chain
FullOffByOne(cache) == Len(cache) > MaxFreeBlock
ChainNotWritten(cache, content) == content
CacheNotReset(cache, b) ==
    Append(IF Len(cache) >= MaxFreeBlock THEN Front(cache) ELSE cache, b)

\* The list AllocBlock reloads after popping the last entry, whose sector
\* reads as content; <<>> when it keeps the popped block instead.
ChainLoaded(cache, total, content) ==
    IF Len(cache) = 1 /\ total > 1 THEN content ELSE <<>>

\* The block AllocBlock returns, having reloaded chain.
BlockTaken(cache, chain) == IF chain = <<>> THEN Last(cache) ELSE Last(chain)

\* What is left of the cache after that.
CacheAfterAlloc(cache, chain) ==
    IF chain = <<>> THEN Front(cache) ELSE Front(chain)

CacheFull(cache) == Len(cache) >= MaxFreeBlock

\* FreeBlock pushes b, or starts a new cache whose only entry b chains to
\* the entries of the full one.
CacheAfterFree(cache, b) == IF CacheFull(cache) THEN <<b>> ELSE Append(cache, b)

\* What FreeBlock leaves in sector b, whose content it was.
ContentAfterFree(cache, content) == IF CacheFull(cache) THEN cache ELSE content

=============================================================================
