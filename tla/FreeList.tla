------------------------------ MODULE FreeList ------------------------------
(***************************************************************************)
(* The free block list of a UFS370 image: buildFreeBlockChain and          *)
(* createRootDir (pkg/ufs/image.go) set it up, AllocBlock and FreeBlock    *)
(* (pkg/ufs/alloc.go) work on it for as long as the image is open.         *)
(*                                                                         *)
(* The callers (MkDir, CreateFile, addDirEntry, freeFileBlocks) are the    *)
(* environment: they write what they like into blocks they were given and  *)
(* give back blocks they hold, except the root directory's.                *)
(***************************************************************************)
EXTENDS BlockCache

CONSTANTS
    DataBlockStart,  \* first data sector
    VolumeSize,      \* sectors of the image
    Payloads,        \* what callers write, as AllocBlock would read it back
    MaxWord,         \* largest uint32
    FaultyDisk       \* whether a sector read or write may fail

\* What AllocBlock can make of a sector.
Contents == {c \in Seq(Nat) : Len(c) <= MaxFreeBlock}

ASSUME GeometryAssumption ==
    /\ DataBlockStart \in Nat /\ VolumeSize \in Nat
    /\ DataBlockStart < VolumeSize
    /\ MaxWord \in Nat /\ VolumeSize <= MaxWord
    /\ Payloads \subseteq Contents
    /\ FaultyDisk \in BOOLEAN

Sectors    == 0 .. (VolumeSize - 1)
DataBlocks == DataBlockStart .. (VolumeSize - 1)
IOResults  == IF FaultyDisk THEN BOOLEAN ELSE {TRUE}

VARIABLES
    freeBlock,       \* sb.FreeBlock[0 .. NFreeBlock-1]
    totalFreeBlock,  \* sb.TotalFreeBlock
    disk,            \* the sectors of the image file
    phase,           \* "format" inside Create, then "ready"
    block,           \* buildFreeBlockChain: next block to enter
    chain,           \*   entries of the chain block being filled
    chainSector,     \*   where that chain block will be written
    used,            \* history: blocks handed out and not given back
    lost,            \* history: blocks neither in use nor ever free again
    misread,         \* history: whether a read in AllocBlock has failed
    chained,         \* history: sectors that hold a chain block as Create or
                     \* FreeBlock wrote it
    astray           \* history: whether AllocBlock has loaded its cache from
                     \* a sector that only reads like one

fmtVars  == <<phase, block, chain, chainSector>>
histVars == <<used, lost, misread, chained, astray>>
vars     == <<freeBlock, totalFreeBlock, disk, fmtVars, histVars>>

\* The blocks that nobody holds and that were not dropped.
Free == DataBlocks \ (used \cup lost)

\* A read past the end of the file is an error, which AllocBlock ignores.
ReadSector(s) == IF s \in DOMAIN disk THEN disk[s] ELSE <<>>

\* A write past the end extends the file, with a hole up to s.
WriteSector(s, content) ==
    [t \in DOMAIN disk \cup {s} |-> IF t = s THEN content ELSE disk[t]]

\* uint32 arithmetic.
Decrement(n) == IF n = 0 THEN MaxWord ELSE n - 1
Increment(n) == IF n = MaxWord THEN 0 ELSE n + 1

-----------------------------------------------------------------------------
Init ==
    /\ freeBlock = <<>>
    /\ totalFreeBlock = VolumeSize - DataBlockStart
    /\ disk = [s \in Sectors |-> <<>>]
    /\ phase = "format"
    /\ block = DataBlockStart
    /\ chain = <<>>
    /\ chainSector = DataBlockStart
    /\ used = {}
    /\ lost = {}
    /\ misread = 0
    /\ chained = {}
    /\ astray = FALSE

\* First loop of buildFreeBlockChain.
FillCache ==
    /\ phase = "format"
    /\ block < VolumeSize
    /\ Len(freeBlock) < MaxFreeBlock
    /\ freeBlock' = Append(freeBlock, block)
    /\ block' = block + 1
    /\ UNCHANGED <<totalFreeBlock, disk, phase, chain, chainSector, histVars>>

\* One round of its second loop: enter a block, and write the chain block
\* when it is full or the volume ends.
FillChain ==
    /\ phase = "format"
    /\ block < VolumeSize
    /\ Len(freeBlock) = MaxFreeBlock
    /\ LET filled == Append(chain, block)
           last   == block + 1 = VolumeSize
       IN IF Len(filled) = MaxFreeBlock \/ last
          THEN /\ disk' = WriteSector(chainSector, filled)
               /\ chained' = chained \cup {chainSector}
               /\ chainSector' = IF last THEN chainSector ELSE filled[1]
               /\ chain' = <<>>
          ELSE /\ chain' = filled
               /\ UNCHANGED <<disk, chained, chainSector>>
    /\ block' = block + 1
    /\ UNCHANGED <<freeBlock, totalFreeBlock, phase, used, lost, misread, astray>>

\* Mutant: the root directory's block not taken off the count.
CreateRootUncounted ==
    /\ phase = "format" /\ block = VolumeSize
    /\ \E p \in Payloads : disk' = WriteSector(Last(freeBlock), p)
    /\ used' = {Last(freeBlock)} /\ freeBlock' = Front(freeBlock)
    /\ phase' = "ready"
    /\ chained' = chained \ {Last(freeBlock)}
    /\ UNCHANGED <<totalFreeBlock, block, chain, chainSector, lost, misread, astray>>

\* createRootDir takes the top of the cache without looking for a chain.
CreateRootDir ==
    /\ phase = "format"
    /\ block = VolumeSize
    /\ \E p \in Payloads :
          disk' = WriteSector(Last(freeBlock), p)
    /\ used' = {Last(freeBlock)}
    /\ chained' = chained \ {Last(freeBlock)}
    /\ freeBlock' = Front(freeBlock)
    /\ totalFreeBlock' = Decrement(totalFreeBlock)
    /\ phase' = "ready"
    /\ UNCHANGED <<block, chain, chainSector, lost, misread, astray>>

-----------------------------------------------------------------------------
\* AllocBlock, which fails without a change when the cache is empty.  The
\* chain block a reload comes from is not handed out and not kept; when the
\* zero-fill fails, neither is the block that was to be handed out.
AllocBlock ==
    /\ phase = "ready"
    /\ freeBlock # <<>>
    /\ \E readOk, writeOk \in IOResults :
          LET content == IF readOk THEN ReadSector(Last(freeBlock)) ELSE <<>>
              list    == ChainLoaded(freeBlock, totalFreeBlock, content)
              taken   == BlockTaken(freeBlock, list)
          IN /\ freeBlock' = CacheAfterAlloc(freeBlock, list)
             /\ disk' = IF writeOk THEN WriteSector(taken, <<>>) ELSE disk
             /\ used' = IF writeOk THEN used \cup {taken} ELSE used
             /\ chained' = IF writeOk THEN chained \ {taken} ELSE chained
             /\ astray' = (astray \/ (list # <<>> /\ Last(freeBlock) \notin chained))
             /\ lost' = lost \cup (IF list = <<>> THEN {} ELSE {Last(freeBlock)})
                             \cup (IF writeOk THEN {} ELSE {taken})
             /\ misread' = IF readOk THEN misread ELSE 1
    /\ totalFreeBlock' = Decrement(totalFreeBlock)
    /\ UNCHANGED fmtVars

\* The block Create gave to the root directory, which is never removed.
RootBlock ==
    IF VolumeSize - DataBlockStart <= MaxFreeBlock
    THEN VolumeSize - 1
    ELSE DataBlockStart + MaxFreeBlock - 1

\* FreeBlock, called on a block of a file or directory being removed.  When
\* it cannot write the chain block it fails without a change.
FreeBlock(b) ==
    /\ phase = "ready"
    /\ b \in used \ {RootBlock}
    /\ freeBlock' = CacheAfterFree(freeBlock, b)
    /\ disk' = WriteSector(b, ContentAfterFree(freeBlock, ReadSector(b)))
    /\ totalFreeBlock' = Increment(totalFreeBlock)
    /\ used' = used \ {b}
    /\ chained' = IF CacheFull(freeBlock) THEN chained \cup {b} ELSE chained
    /\ UNCHANGED <<fmtVars, lost, misread, astray>>

\* A caller fills a block it was given.
WriteData(b, p) ==
    /\ phase = "ready"
    /\ b \in used
    /\ disk' = WriteSector(b, p)
    /\ chained' = chained \ {b}
    /\ UNCHANGED <<freeBlock, totalFreeBlock, fmtVars, used, lost, misread, astray>>

Step ==
    \/ FillCache
    \/ FillChain
    \/ CreateRootDir
    \/ AllocBlock
    \/ \E b \in used : FreeBlock(b)
    \/ \E b \in used, p \in Payloads : WriteData(b, p)

\* A list gone astray is followed no further.
StaysAstray == astray /\ UNCHANGED vars

Next == (~astray /\ Step) \/ StaysAstray

Spec == Init /\ [][Next]_vars

-----------------------------------------------------------------------------
\* The lists that chain blocks hold; what callers wrote holds none.
Lists == [s \in DOMAIN disk |-> IF s \in chained THEN disk[s] ELSE <<>>]

\* Types, as long as the list has not gone astray: no more than MaxFreeBlock
\* entries, and every block handed out is a data block.
Typed ==
    /\ freeBlock \in Seq(Nat) /\ Len(freeBlock) <= MaxFreeBlock
    /\ disk \in [Sectors -> Contents]
    /\ chained \subseteq Sectors
    /\ totalFreeBlock \in 0 .. MaxWord
    /\ phase \in {"format", "ready"}
    /\ block \in DataBlockStart .. VolumeSize
    /\ chain \in Seq(Nat) /\ Len(chain) < MaxFreeBlock
    /\ chainSector \in Nat
    /\ used \subseteq DataBlocks
    /\ lost \subseteq DataBlocks
    /\ misread \in {0, 1}
TypeOK == astray \in BOOLEAN /\ (astray \/ Typed)

Distinct(s)    == \A i, j \in DOMAIN s : s[i] = s[j] => i = j
Within(s, S)   == \A i \in DOMAIN s : s[i] \in S
Disjoint(s, t) == \A i \in DOMAIN s, j \in DOMAIN t : s[i] # t[j]

\* The blocks of S that hold a list, when d[c] is the list in c.
Chains(d, S) == {c \in S : d[c] # <<>>}

\* The cache and the lists d of the blocks of S list blocks of S, each at
\* most once.
SoundLists(cache, d, S) ==
    /\ Distinct(cache) /\ Within(cache, S)
    /\ \A c \in Chains(d, S) :
          /\ Distinct(d[c]) /\ Within(d[c], S) /\ Disjoint(d[c], cache)
          /\ \A e \in Chains(d, S) \ {c} : Disjoint(d[c], d[e])

\* Whatever callers write, until AllocBlock takes that for a chain block:
\* every block number the list can ever hand out, in the cache or in a chain
\* block, is a free data block and stands in one place only.  The reload in
\* AllocBlock and the spill in FreeBlock neither copy an entry nor take in
\* one that a file still holds.
ListsHoldFreeBlocks == astray \/ SoundLists(freeBlock, Lists, Free)

\* Until then, TotalFreeBlock never reports fewer blocks than are free, nor
\* more than are not in use; what lies between is lost to chain reloads and
\* failed zero-fills.
Bracketed ==
    /\ Cardinality(Free) <= totalFreeBlock
    /\ totalFreeBlock <= Cardinality(DataBlocks) - Cardinality(used)
CountBracket == astray \/ Bracketed

\* Until then, AllocBlock says "no free blocks" only when none is free: as
\* long as its reads succeed, every free block can still be reached from the
\* cache.
NoFalseExhaustion ==
    phase = "ready" /\ misread = 0 /\ ~astray /\ freeBlock = <<>> => Free = {}

\* As long as no chain block was reloaded, whatever the callers write, the
\* next allocation hands out a data block and TotalFreeBlock counts the free
\* ones exactly: the test of TotalFreeBlock keeps AllocBlock from taking the
\* last block's old content for a chain.
SafeBeforeReload ==
    phase = "ready" /\ lost = {} =>
        /\ used' \subseteq DataBlocks
        /\ lost' = {} => totalFreeBlock' = Cardinality(Free')
SafeUntilFirstReload == [][SafeBeforeReload]_vars

\* AllocBlock and FreeBlock implement the abstract pool of blocks, up to the
\* step at which the list goes astray.
Pool == INSTANCE BlockPool WITH
            Blocks <- DataBlocks, held <- used, gone <- lost,
            count <- totalFreeBlock
ImplementsPool ==
    Pool!Init /\ [][Pool!Next \/ astray']_<<used, lost, totalFreeBlock>>

\* alloc.go: "AllocBlock allocates one free data block from the free block
\* chain."
AllocatesDataBlocks == used \subseteq DataBlocks

=============================================================================
