----------------------------- MODULE InodeTable -----------------------------
(***************************************************************************)
(* The inode list of a UFS370 image and the superblock's cache of free     *)
(* inode numbers, while one program has the image open: createRootDir and  *)
(* seedFreeInodeCache (pkg/ufs/image.go) set them up, AllocInode,          *)
(* WriteInode and FreeInode (pkg/ufs/alloc.go) work on them.               *)
(*                                                                         *)
(* An inode is free on disk when its mode is 0; AllocInode does not change *)
(* the mode, WriteInode does, later.  CreateFile and MkDir may fail        *)
(* between the two and never give the number back.                         *)
(***************************************************************************)
EXTENDS Naturals, FiniteSets, SequencesExt

CONSTANTS
    InodesPerBlock,  \* sb.InodesPerBlock
    InodeBlocks,     \* sectors of the inode list
    MaxFreeInode,    \* entries of the superblock's cache (64)
    MaxWord,         \* largest uint32
    MaxAbandoned,    \* bound on the failed creations of a behaviour
    FaultyDisk       \* whether a sector read or write may fail

InodeBALBLK == 1
InodeRoot   == 2

Inodes == 1 .. (InodesPerBlock * InodeBlocks)

ASSUME InodeGeometryAssumption ==
    /\ InodesPerBlock \in Nat /\ InodesPerBlock >= 2
    /\ InodeBlocks \in Nat /\ InodeBlocks >= 2
    /\ MaxFreeInode \in Nat /\ MaxFreeInode >= 1
    /\ MaxWord \in Nat /\ InodesPerBlock * InodeBlocks <= MaxWord
    /\ MaxAbandoned \in Nat /\ MaxAbandoned <= MaxWord
    /\ FaultyDisk \in BOOLEAN

VARIABLES
    inUse,           \* inodes whose mode on disk is not 0
    freeInode,       \* sb.FreeInode[0 .. NFreeInode-1]
    totalFreeInode,  \* sb.TotalFreeInode
    cursor,          \* seedFreeInodeCache: next inode to look at; 0 when done
    held,            \* the number AllocInode returned to the running
                     \* operation, until it writes the inode or fails; else 0
    abandoned        \* history: how many operations failed holding a number

vars == <<inUse, freeInode, totalFreeInode, cursor, held, abandoned>>

Decrement(n) == IF n = 0 THEN MaxWord ELSE n - 1
Increment(n) == IF n = MaxWord THEN 0 ELSE n + 1

\* The inode list, sector by sector, as the scans read it.
SectorOf(ino) == (ino - 1) \div InodesPerBlock
Skipped       == IF FaultyDisk THEN SUBSET (0 .. (InodeBlocks - 1)) ELSE {{}}

Idle == cursor = 0 /\ held = 0

-----------------------------------------------------------------------------
\* Create and createRootDir: inode 1 is reserved, inode 2 the root's.
Init ==
    /\ inUse = {InodeBALBLK, InodeRoot}
    /\ freeInode = <<>>
    /\ totalFreeInode = InodesPerBlock * InodeBlocks - 2
    /\ cursor = 1
    /\ held = 0
    /\ abandoned = 0

\* One round of the inner loop of seedFreeInodeCache, which returns when the
\* cache is full or the list ends.
Seed ==
    /\ cursor # 0
    /\ freeInode' = IF cursor \in inUse \/ cursor <= InodeBALBLK
                    THEN freeInode ELSE Append(freeInode, cursor)
    /\ cursor' = IF Len(freeInode') >= MaxFreeInode \/ cursor + 1 \notin Inodes
                 THEN 0 ELSE cursor + 1
    /\ UNCHANGED <<inUse, totalFreeInode, held, abandoned>>

\* A sector that cannot be read is left out.
SeedSkipsSector ==
    /\ FaultyDisk
    /\ cursor # 0
    /\ (cursor - 1) % InodesPerBlock = 0
    /\ cursor' = IF cursor + InodesPerBlock \notin Inodes
                 THEN 0 ELSE cursor + InodesPerBlock
    /\ UNCHANGED <<inUse, freeInode, totalFreeInode, held, abandoned>>

-----------------------------------------------------------------------------
\* AllocInode with numbers in the cache: it does not look at the inode.
AllocCached ==
    /\ Idle
    /\ freeInode # <<>>
    /\ held' = Last(freeInode)
    /\ freeInode' = Front(freeInode)
    /\ totalFreeInode' = Decrement(totalFreeInode)
    /\ UNCHANGED <<inUse, cursor, abandoned>>

\* The inodes a scan that misses the sectors in skipped can find.
Found(skipped) ==
    {ino \in Inodes \ inUse : ino > InodeBALBLK /\ SectorOf(ino) \notin skipped}

\* Mutant: the inode found also enters the cache that the scan refills.
ScanCachesFound ==
    /\ Idle /\ freeInode = <<>>
    /\ \E ino \in Found({}) :
          /\ \A other \in Found({}) : ino <= other
          /\ held' = ino /\ freeInode' = <<ino>>
    /\ totalFreeInode' = Decrement(totalFreeInode)
    /\ UNCHANGED <<inUse, cursor, abandoned>>

\* AllocInode with an empty cache: the first free inode of the list, or an
\* error and no change.
AllocScanned ==
    /\ Idle
    /\ freeInode = <<>>
    /\ \E skipped \in Skipped : \E ino \in Found(skipped) :
          /\ \A other \in Found(skipped) : ino <= other
          /\ held' = ino
    /\ totalFreeInode' = Decrement(totalFreeInode)
    /\ UNCHANGED <<inUse, freeInode, cursor, abandoned>>

\* CreateFile or MkDir writes the inode it allocated.
WriteInode ==
    /\ held # 0
    /\ inUse' = inUse \cup {held}
    /\ held' = 0
    /\ UNCHANGED <<freeInode, totalFreeInode, cursor, abandoned>>

\* CreateFile or MkDir returns an error after AllocInode: no free blocks,
\* file too large, a write that failed.  Under cp -r the program goes on.
FailCreation ==
    /\ held # 0
    /\ abandoned < MaxAbandoned
    /\ held' = 0
    /\ abandoned' = abandoned + 1
    /\ UNCHANGED <<inUse, freeInode, totalFreeInode, cursor>>

\* Mutants: the cache overrun; only what is cached counted.
FreeInodeOverrun(ino) ==
    /\ Idle /\ ino \in inUse \ {InodeBALBLK, InodeRoot}
    /\ inUse' = inUse \ {ino} /\ freeInode' = Append(freeInode, ino)
    /\ totalFreeInode' = Increment(totalFreeInode)
    /\ UNCHANGED <<cursor, held, abandoned>>
FreeInodeUncounted(ino) ==
    /\ Idle /\ ino \in inUse \ {InodeBALBLK, InodeRoot}
    /\ inUse' = inUse \ {ino}
    /\ IF Len(freeInode) < MaxFreeInode
       THEN /\ freeInode' = Append(freeInode, ino)
            /\ totalFreeInode' = Increment(totalFreeInode)
       ELSE UNCHANGED <<freeInode, totalFreeInode>>
    /\ UNCHANGED <<cursor, held, abandoned>>

\* FreeInode; when it cannot write the inode it fails without a change.
FreeInode(ino) ==
    /\ Idle
    /\ ino \in inUse \ {InodeBALBLK, InodeRoot}
    /\ inUse' = inUse \ {ino}
    /\ freeInode' = IF Len(freeInode) < MaxFreeInode
                    THEN Append(freeInode, ino) ELSE freeInode
    /\ totalFreeInode' = Increment(totalFreeInode)
    /\ UNCHANGED <<cursor, held, abandoned>>

Next ==
    \/ Seed
    \/ SeedSkipsSector
    \/ AllocCached
    \/ AllocScanned
    \/ WriteInode
    \/ FailCreation
    \/ \E ino \in inUse : FreeInode(ino)

Spec == Init /\ [][Next]_vars

-----------------------------------------------------------------------------
FreeInodes == Inodes \ inUse

TypeOK ==
    /\ inUse \subseteq Inodes
    /\ freeInode \in Seq(Nat) /\ Len(freeInode) <= MaxFreeInode
    /\ totalFreeInode \in 0 .. MaxWord
    /\ cursor \in {0} \cup Inodes
    /\ held \in {0} \cup Inodes
    /\ abandoned \in 0 .. MaxAbandoned

\* What the next operation can be given is a free inode and is given once: a
\* cached number stands there once and its inode is free on disk, the number
\* held is free and no longer cached, and both are above the root's.  (So
\* AllocInode may skip the look at the mode, and a scan, which runs on an
\* empty cache only, cannot find a number that is cached.)
IssuesFreeInodes ==
    /\ \A i, j \in DOMAIN freeInode : freeInode[i] = freeInode[j] => i = j
    /\ \A i \in DOMAIN freeInode :
          /\ freeInode[i] \in FreeInodes /\ freeInode[i] > InodeRoot
          /\ freeInode[i] # held
    /\ held # 0 => held \in FreeInodes /\ held > InodeRoot

\* TotalFreeInode falls short of the free inodes by exactly the number of
\* failed creations, modulo the width of the counter.
Short == abandoned + (IF held = 0 THEN 0 ELSE 1)
CountShortByFailures ==
    \/ totalFreeInode + Short = Cardinality(FreeInodes)
    \/ totalFreeInode + Short = Cardinality(FreeInodes) + MaxWord + 1

=============================================================================
