----------------------------- MODULE FileSystem -----------------------------
(***************************************************************************)
(* The operations of pkg/ufs/write.go on an image: MkDir, CreateFile,      *)
(* Remove, RemoveDir and RemoveAll, with the allocators of alloc.go below  *)
(* them, in steps of at most one sector write each, so that a crash can    *)
(* fall between any two writes.                                            *)
(*                                                                         *)
(* The superblock is kept in memory while the image is open and written to *)
(* the image by FlushSuperBlock, the last step of an operation.  A command *)
(* that fails exits without writing it; a session (cp -r, a program that   *)
(* uses the package) goes on after a failure with what it has in memory.   *)
(*                                                                         *)
(* AllocBlock takes a block for a chain block by its first word.  When it  *)
(* takes one that is none, what it issues next may be any sector; the      *)
(* model follows a program up to that call (LoadWords), so the properties  *)
(* below are about programs whose AllocBlock has loaded chain blocks only. *)
(***************************************************************************)
EXTENDS BlockCache

CONSTANTS
    DataBlockStart,  \* first data sector
    VolumeSize,      \* sectors of the image
    LastInode,       \* number of inodes
    MaxFreeInode,    \* entries of the superblock's inode cache
    NAddrDirect,     \* direct addresses of an inode
    IndirectCap,     \* addresses in an indirect block
    DirSlots,        \* entries in a directory block
    Names,           \* names callers use
    DotNames,        \* last components "." and ".." callers use to remove
    Stored,          \* the name read back after a name was stored
    FileSizes,       \* lengths in blocks of the files callers create
    MaxCrashes       \* bound on the crashes of a behaviour

InodeRoot  == 2
Inodes     == InodeRoot .. LastInode
DataBlocks == DataBlockStart .. (VolumeSize - 1)

ASSUME LayoutAssumption ==
    /\ DataBlockStart \in Nat \ {0} /\ VolumeSize \in Nat
    /\ DataBlockStart < VolumeSize
    /\ LastInode \in Nat /\ LastInode > InodeRoot
    /\ MaxFreeInode \in Nat \ {0} /\ NAddrDirect \in Nat \ {0}
    /\ IndirectCap \in Nat /\ DirSlots \in Nat /\ DirSlots > 2
    /\ "." \notin Names /\ ".." \notin Names /\ DotNames \subseteq {".", ".."}
    /\ DOMAIN Stored = Names
    /\ FileSizes \subseteq Nat /\ MaxCrashes \in Nat

VARIABLES
    inodes,   \* the inode list on the image
    disk,     \* the data blocks on the image
    sbDisk,   \* the superblock on the image; its count of free inodes,
              \* which decides nothing here, is left to InodeTable
    sb,       \* the superblock in memory
    job,      \* the running operation and its local variables
    crashes   \* how often a program died

vars == <<inodes, disk, sbDisk, sb, job, crashes>>

-----------------------------------------------------------------------------
\* What a block can hold: nothing, part of a file (which file, which part),
\* directory slots, block addresses, or a list of free blocks.
Zero        == [tag |-> "zero", list |-> <<>>]
Data(i, k)  == [tag |-> "data", list |-> <<i, k>>]
Dir(slots)  == [tag |-> "dir", list |-> slots]
Indirect(s) == [tag |-> "ind", list |-> s]
Chain(s)    == [tag |-> "chain", list |-> s]

\* The list of free blocks that Create or FreeBlock wrote into a block.
Listed(content) == IF content.tag = "chain" THEN content.list ELSE <<>>

\* A block without such a list that AllocBlock takes for a chain block all
\* the same, because its first word is in 1 .. MaxFreeBlock: the inode number
\* in a directory's first slot, the first address in an indirect block.
LooksListed(content) ==
    \/ content.tag = "dir" /\ content.list[1].ino \in 1 .. MaxFreeBlock
    \/ content.tag = "ind" /\ content.list[1] \in 1 .. MaxFreeBlock

\* A file may begin with any word.
MayLookListed(content) == LooksListed(content) \/ content.tag = "data"

FreeInodeRecord == [mode |-> "free", nlink |-> 0, addr |-> <<>>, ind |-> 0]
Idle   == [op |-> "idle"]
Astray == [op |-> "astray"]

Slot(i, name) == [ino |-> i, name |-> name]
EmptySlot     == Slot(0, "")

\* A directory block whose first slots are given.
DirBlock(first) ==
    Dir([k \in 1 .. DirSlots |-> IF k \in DOMAIN first THEN first[k] ELSE EmptySlot])

\* The slots of directory d, numbered in the order they are read; an empty
\* one has inode number 0.  (The block of a directory being removed may be a
\* chain block already; no operation reads it any more.)
Positions(d)    == 1 .. (DirSlots * Len(inodes[d].addr))
SlotBlock(d, p) == inodes[d].addr[((p - 1) \div DirSlots) + 1]
SlotIndex(p)    == ((p - 1) % DirSlots) + 1
SlotAt(d, p) ==
    LET content == disk[SlotBlock(d, p)]
    IN IF content.tag = "dir" THEN content.list[SlotIndex(p)] ELSE EmptySlot

\* ReadDir, and what it reads but for "." and "..".
ReadDir(d)  == {p \in Positions(d) : SlotAt(d, p).ino # 0}
Children(d) ==
    {p \in Positions(d) : LET s == SlotAt(d, p)
                          IN s.ino # 0 /\ s.name \notin {".", ".."}}
DirNames(d) == {SlotAt(d, p).name : p \in ReadDir(d)}
IsDir(i)    == inodes[i].mode = "dir"

\* The first entry of directory d by that name, as ResolvePath and
\* removeDirEntry find it.
SlotNamed(d, name) ==
    Min({p \in ReadDir(d) : SlotAt(d, p).name = name})
Resolves(d, name) == name = "." \/ name \in DirNames(d)
Resolve(d, name)  == IF name = "." THEN d ELSE SlotAt(d, SlotNamed(d, name)).ino

\* The inodes some path leads to: the least set that holds the root and what
\* the entries of its directories lead to.
Links ==
    UNION {{<<d, SlotAt(d, p).ino>> : p \in Children(d)} : d \in {i \in Inodes : IsDir(i)}}
PathClosed(links) ==
    {S \in SUBSET Inodes : InodeRoot \in S /\ \A l \in links : l[1] \in S => l[2] \in S}
Reached(links) == LET closed == PathClosed(links) IN {i \in Inodes : \A S \in closed : i \in S}
Reachable == UNION {Reached(links) : links \in {Links}}  \* Links evaluated once

\* freeFileBlocks: the blocks of an inode in the order they are freed.
BlocksOf(i) ==
    LET ind == inodes[i].ind
    IN inodes[i].addr \o (IF ind = 0 THEN <<>> ELSE Append(disk[ind].list, ind))

-----------------------------------------------------------------------------
\* Create: the free list in chunks of MaxFreeBlock, the first in the cache,
\* each further one in the first block of the one before it; the root
\* directory in the last block of the first.
Chunk(n) ==
    LET from == DataBlockStart + n * MaxFreeBlock
        to   == from + MaxFreeBlock - 1
    IN IF to < VolumeSize THEN [k \in 1 .. MaxFreeBlock |-> from + k - 1]
       ELSE [k \in 1 .. (VolumeSize - from) |-> from + k - 1]

RootBlock == Last(Chunk(0))

Init ==
    /\ sb = [freeBlock      |-> Front(Chunk(0)),
             totalFreeBlock |-> VolumeSize - DataBlockStart - 1,
             freeInode      |-> [k \in 1 .. (IF LastInode - InodeRoot < MaxFreeInode
                                             THEN LastInode - InodeRoot
                                             ELSE MaxFreeInode) |-> InodeRoot + k]]
    /\ sbDisk = sb
    /\ disk = [b \in DataBlocks |->
                 LET n == (b - DataBlockStart) \div MaxFreeBlock
                 IN IF b = RootBlock
                    THEN DirBlock(<<Slot(InodeRoot, "."), Slot(InodeRoot, "..")>>)
                    ELSE IF b = Chunk(n)[1] /\ Chunk(n + 1) # <<>>
                         THEN Chain(Chunk(n + 1)) ELSE Zero]
    /\ inodes = [i \in Inodes |->
                   IF i = InodeRoot
                   THEN [mode |-> "dir", nlink |-> 2, addr |-> <<RootBlock>>, ind |-> 0]
                   ELSE FreeInodeRecord]
    /\ job = Idle
    /\ crashes = 0

-----------------------------------------------------------------------------
\* AllocBlock looks for a list in the last entry of the cache, if the count
\* says that it is not the last free block.
LooksForList == Len(sb.freeBlock) = 1 /\ sb.totalFreeBlock > 1

\* AllocBlock hands out b and fills it with zeros.
AllocBlock(b) ==
    /\ sb.freeBlock # <<>>
    /\ ~(LooksForList /\ LooksListed(disk[Last(sb.freeBlock)]))
    /\ LET list == ChainLoaded(sb.freeBlock, sb.totalFreeBlock,
                               Listed(disk[Last(sb.freeBlock)]))
       IN /\ b = BlockTaken(sb.freeBlock, list)
          /\ sb' = [sb EXCEPT !.freeBlock = CacheAfterAlloc(@, list),
                              !.totalFreeBlock = @ - 1]
    /\ disk' = [disk EXCEPT ![b] = Zero]

\* Mutant: the inode issued stays in the cache.
AllocInodeNotPopped(i) ==
    /\ IF sb.freeInode # <<>>
       THEN i = Last(sb.freeInode)
       ELSE /\ inodes[i].mode = "free"
            /\ \A j \in Inodes : inodes[j].mode = "free" => i <= j
    /\ sb' = sb

\* AllocInode issues i, from the cache or by a scan of the inode list.
AllocInode(i) ==
    /\ IF sb.freeInode # <<>>
       THEN i = Last(sb.freeInode)
       ELSE /\ inodes[i].mode = "free"
            /\ \A j \in Inodes : inodes[j].mode = "free" => i <= j
    /\ sb' = [sb EXCEPT !.freeInode = IF @ = <<>> THEN @ ELSE Front(@)]

\* The checks of MkDir and CreateFile, and their local variables once
\* AllocInode has returned: want data blocks to allocate, data those it has,
\* ind the indirect block, block the one allocated last.
Begin(d, name, kind, want, i) ==
    /\ job = Idle
    /\ IsDir(d)
    /\ name \notin DirNames(d)
    /\ AllocInode(i)
    /\ job' = IF want > NAddrDirect + IndirectCap THEN Idle
              ELSE [op |-> "create", pc |-> IF want = 0 THEN "inode" ELSE "alloc",
                    dir |-> d, name |-> name, kind |-> kind, want |-> want,
                    ino |-> i, data |-> <<>>, ind |-> 0, block |-> 0]
    /\ UNCHANGED <<inodes, disk, sbDisk, crashes>>

MkDir(d, name, i)         == Begin(d, name, "dir", 1, i)
CreateFile(d, name, n, i) == Begin(d, name, "reg", n, i)

Creating(pc) == job.op = "create" /\ job.pc = pc

AllocDataBlock(b) ==
    /\ Creating("alloc")
    /\ AllocBlock(b)
    /\ job' = [job EXCEPT !.block = b,
                          !.pc = IF Len(job.data) >= NAddrDirect /\ job.ind = 0
                                 THEN "allocInd" ELSE "fill"]
    /\ UNCHANGED <<inodes, sbDisk, crashes>>

AllocIndirectBlock(b) ==
    /\ Creating("allocInd")
    /\ AllocBlock(b)
    /\ job' = [job EXCEPT !.ind = b, !.pc = "fill"]
    /\ UNCHANGED <<inodes, sbDisk, crashes>>

\* Mutant: the indirect block allocated but not written.
IndirectNotWritten(n) == IF n < job.want THEN "alloc" ELSE "inode"

\* What follows when n blocks of the file have been written.
AfterFill(n) ==
    IF n < job.want THEN "alloc" ELSE IF job.ind # 0 THEN "writeInd" ELSE "inode"

\* The block's part of the file, or the entries "." and "..".
WriteDataBlock ==
    /\ Creating("fill")
    /\ LET n == Len(job.data) + 1
       IN /\ disk' = [disk EXCEPT ![job.block] =
                         IF job.kind = "reg" THEN Data(job.ino, n)
                         ELSE DirBlock(<<Slot(job.ino, "."), Slot(job.dir, "..")>>)]
          /\ job' = [job EXCEPT !.data = Append(@, job.block), !.pc = AfterFill(n)]
    /\ UNCHANGED <<inodes, sbDisk, sb, crashes>>

WriteIndirectBlock ==
    /\ Creating("writeInd")
    /\ disk' = [disk EXCEPT ![job.ind] =
                   Indirect(SubSeq(job.data, NAddrDirect + 1, Len(job.data)))]
    /\ job' = [job EXCEPT !.pc = "inode"]
    /\ UNCHANGED <<inodes, sbDisk, sb, crashes>>

\* Mutant: no limit on the direct addresses.
NoDirectLimit(blocks) == blocks

\* The blocks that fit the direct addresses.
DirectPart(blocks) ==
    IF Len(blocks) <= NAddrDirect THEN blocks ELSE SubSeq(blocks, 1, NAddrDirect)

\* The new inode's link count; the parent's is not touched.
NewLinks == IF job.kind = "dir" THEN 2 ELSE 1

WriteInode ==
    /\ Creating("inode")
    /\ inodes' = [inodes EXCEPT ![job.ino] =
                    [mode  |-> job.kind,
                     nlink |-> NewLinks,
                     addr  |-> DirectPart(job.data),
                     ind   |-> job.ind]]
    /\ job' = [job EXCEPT !.pc = "entry"]
    /\ UNCHANGED <<disk, sbDisk, sb, crashes>>

\* addDirEntry: the first slot that is empty.
NewSlot      == Slot(job.ino, Stored[job.name])
FreeSlots(d) == Positions(d) \ ReadDir(d)

AddEntry ==
    /\ Creating("entry")
    /\ FreeSlots(job.dir) # {}
    /\ LET p == Min(FreeSlots(job.dir))
       IN disk' = [disk EXCEPT ![SlotBlock(job.dir, p)].list[SlotIndex(p)] = NewSlot]
    /\ job' = [job EXCEPT !.pc = "flush"]
    /\ UNCHANGED <<inodes, sbDisk, sb, crashes>>

\* No slot is empty: addDirEntry adds a block to the directory, if it may.
NoSlot == FreeSlots(job.dir) = {}

ExpandDirectory(b) ==
    /\ Creating("entry")
    /\ NoSlot
    /\ Len(inodes[job.dir].addr) < NAddrDirect
    /\ AllocBlock(b)
    /\ job' = [job EXCEPT !.block = b, !.pc = "dirBlock"]
    /\ UNCHANGED <<inodes, sbDisk, crashes>>

WriteDirBlock ==
    /\ Creating("dirBlock")
    /\ disk' = [disk EXCEPT ![job.block] = DirBlock(<<NewSlot>>)]
    /\ job' = [job EXCEPT !.pc = "dirInode"]
    /\ UNCHANGED <<inodes, sbDisk, sb, crashes>>

WriteDirInode ==
    /\ Creating("dirInode")
    /\ inodes' = [inodes EXCEPT ![job.dir].addr = Append(@, job.block)]
    /\ job' = [job EXCEPT !.pc = "flush"]
    /\ UNCHANGED <<disk, sbDisk, sb, crashes>>

\* Mutant: FlushSuperBlock forgotten.
NotFlushed ==
    /\ Creating("flush")
    /\ job' = Idle
    /\ UNCHANGED <<inodes, disk, sbDisk, sb, crashes>>

FlushCreated ==
    /\ Creating("flush")
    /\ sbDisk' = sb
    /\ job' = Idle
    /\ UNCHANGED <<inodes, disk, sb, crashes>>

\* The running operation calls AllocBlock.
Allocating ==
    \/ Creating("alloc") \/ Creating("allocInd")
    \/ Creating("entry") /\ NoSlot /\ Len(inodes[job.dir].addr) < NAddrDirect

\* AllocBlock loads the cache from a block that only looks like a chain
\* block: what it issues from then on are that block's old words.  The model
\* follows the program to here, before the first sector it zeroes for them.
LoadWords ==
    /\ Allocating
    /\ LooksForList
    /\ MayLookListed(disk[Last(sb.freeBlock)])
    /\ job' = Astray
    /\ UNCHANGED <<inodes, disk, sbDisk, sb, crashes>>

LoadTreeWords == LoadWords /\ LooksListed(disk[Last(sb.freeBlock)])
LoadFileWords == LoadWords /\ disk[Last(sb.freeBlock)].tag = "data"

StaysAstray == job = Astray /\ UNCHANGED vars

\* The operation returns an error: no free blocks, or directory full.
FailCreate ==
    /\ job.op = "create"
    /\ \/ job.pc \in {"alloc", "allocInd"} /\ sb.freeBlock = <<>>
       \/ /\ job.pc = "entry" /\ NoSlot
          /\ Len(inodes[job.dir].addr) >= NAddrDirect \/ sb.freeBlock = <<>>
    /\ job' = Idle
    /\ UNCHANGED <<inodes, disk, sbDisk, sb, crashes>>

-----------------------------------------------------------------------------
\* The removals share their steps.  A frame is one activation of RemoveAll,
\* or the only one of Remove and RemoveDir: the directory and name of the
\* target, its inode, and the slots it read whose entries are to go first.
Frame(d, name, i, rest) == [dir |-> d, name |-> name, ino |-> i, rest |-> rest]
Top == Last(job.stack)

Removing(pc) == job.op = "remove" /\ job.pc = pc

Removal(stack) ==
    LET f == Last(stack)
    IN IF f.rest = {}
       THEN [op |-> "remove", pc |-> "blocks", todo |-> BlocksOf(f.ino), stack |-> stack]
       ELSE [op |-> "remove", pc |-> "children", todo |-> <<>>, stack |-> stack]

BeginRemoval(d, name, rest) ==
    /\ job = Idle
    /\ job' = Removal(<<Frame(d, name, Resolve(d, name), rest)>>)
    /\ UNCHANGED <<inodes, disk, sbDisk, sb, crashes>>

RemoveFile(d, name) ==
    /\ ~IsDir(Resolve(d, name))
    /\ BeginRemoval(d, name, {})

\* Mutant: the directory need not be empty.
RemoveDirUnchecked(d, name) ==
    /\ IsDir(Resolve(d, name))
    /\ BeginRemoval(d, name, {})

RemoveDir(d, name) ==
    /\ IsDir(Resolve(d, name))
    /\ Children(Resolve(d, name)) = {}
    /\ BeginRemoval(d, name, {})

RemoveAll(d, name) ==
    /\ IsDir(Resolve(d, name))
    /\ BeginRemoval(d, name, Children(Resolve(d, name)))

\* RemoveAll calls itself on the next entry it read.
RemoveChild ==
    /\ Removing("children")
    /\ LET d    == Top.ino
           next == Min(Top.rest)
           name == SlotAt(d, next).name
           i    == Resolve(d, name)
           rest == IF IsDir(i) THEN Children(i) ELSE {}
       IN job' = Removal(Append(Front(job.stack) \o <<[Top EXCEPT !.rest = @ \ {next}]>>,
                                Frame(d, name, i, rest)))
    /\ UNCHANGED <<inodes, disk, sbDisk, sb, crashes>>

\* Mutant: the block given back is not counted.
FreeBlockUncounted ==
    /\ Removing("blocks")
    /\ job.todo # <<>>
    /\ LET b == Head(job.todo)
       IN /\ disk' = IF CacheFull(sb.freeBlock)
                     THEN [disk EXCEPT ![b] = Chain(sb.freeBlock)] ELSE disk
          /\ sb' = [sb EXCEPT !.freeBlock = CacheAfterFree(@, b)]
    /\ job' = [job EXCEPT !.todo = Tail(@)]
    /\ UNCHANGED <<inodes, sbDisk, crashes>>

\* FreeBlock on the next block of the target.
FreeBlock ==
    /\ Removing("blocks")
    /\ job.todo # <<>>
    /\ LET b == Head(job.todo)
       IN /\ disk' = IF CacheFull(sb.freeBlock)
                     THEN [disk EXCEPT ![b] = Chain(sb.freeBlock)] ELSE disk
          /\ sb' = [sb EXCEPT !.freeBlock = CacheAfterFree(@, b),
                              !.totalFreeBlock = @ + 1]
    /\ job' = [job EXCEPT !.todo = Tail(@)]
    /\ UNCHANGED <<inodes, sbDisk, crashes>>

FreeInode ==
    /\ Removing("blocks")
    /\ job.todo = <<>>
    /\ inodes' = [inodes EXCEPT ![Top.ino] = FreeInodeRecord]
    /\ sb' = [sb EXCEPT !.freeInode = IF Len(@) < MaxFreeInode THEN Append(@, Top.ino) ELSE @]
    /\ job' = [job EXCEPT !.pc = "entry"]
    /\ UNCHANGED <<disk, sbDisk, crashes>>

\* removeDirEntry; an error when there is no such entry.
RemoveEntry ==
    /\ Removing("entry")
    /\ IF Top.name \in DirNames(Top.dir)
       THEN /\ LET p == SlotNamed(Top.dir, Top.name)
               IN disk' = [disk EXCEPT ![SlotBlock(Top.dir, p)].list[SlotIndex(p)] = EmptySlot]
            /\ job' = [job EXCEPT !.pc = "flush"]
       ELSE /\ job' = Idle
            /\ disk' = disk
    /\ UNCHANGED <<inodes, sbDisk, sb, crashes>>

\* The activation flushes and returns to the one that called it.
FlushRemoved ==
    /\ Removing("flush")
    /\ sbDisk' = sb
    /\ job' = IF Len(job.stack) = 1 THEN Idle ELSE Removal(Front(job.stack))
    /\ UNCHANGED <<inodes, disk, sb, crashes>>

-----------------------------------------------------------------------------
\* Close after a failed operation, then Open: what was not flushed is gone.
Reopen ==
    /\ job = Idle
    /\ sb # sbDisk
    /\ sb' = sbDisk
    /\ UNCHANGED <<inodes, disk, sbDisk, job, crashes>>

\* The inodes that block and inode lists must leave alone: those in the
\* tree, except the one whose blocks are being freed.
BeingFreed == IF Removing("blocks") \/ Removing("entry") THEN {Top.ino} ELSE {}
Live == Reachable \ BeingFreed

\* The entries of the tree, "." and ".." left out.
Entry(d, p) ==
    LET s == SlotAt(d, p)
    IN [dir |-> d, name |-> s.name, ino |-> s.ino, kind |-> inodes[s.ino].mode]
Tree == {e \in UNION {{Entry(d, p) : p \in Children(d)} : d \in {i \in Live : IsDir(i)}} :
            e.ino \notin BeingFreed}

\* The free blocks a superblock with this cache leads to, when lists[b] is the
\* list that block b holds: those in the cache, and those in the lists of the
\* chain blocks, which are followed from the first block of the cache to the
\* first block of its list and so on.
Lists == [b \in DataBlocks |-> Listed(disk[b])]
LeadsInto(list, lists, S) == list # <<>> /\ lists[Head(list)] # <<>> => Head(list) \in S
ChainClosed(cache, lists) ==
    {S \in SUBSET {b \in DataBlocks : lists[b] # <<>>} :
        LeadsInto(cache, lists, S) /\ \A b \in S : LeadsInto(lists[b], lists, S)}
ChainBlocks(cache, lists) ==
    LET closed == ChainClosed(cache, lists)
    IN {b \in DataBlocks : \A S \in closed : b \in S}
FreeBlocks(cache, lists) ==
    Range(cache) \cup UNION {Range(lists[b]) : b \in ChainBlocks(cache, lists)}

Distinct(s) == \A i, j \in DOMAIN s : s[i] = s[j] => i = j

\* No block is listed twice.
ListedOnce(cache, lists) ==
    LET chain == ChainBlocks(cache, lists)
    IN /\ Distinct(cache)
       /\ \A b \in chain :
             Distinct(lists[b]) /\ Range(lists[b]) \cap Range(cache) = {}
       /\ \A b, c \in chain :
             b # c => Range(lists[b]) \cap Range(lists[c]) = {}

\* Every entry leads to an inode in use, and no two to the same.
TreeSound ==
    LET entries == UNION {{<<d, p, SlotAt(d, p).ino>> : p \in Children(d)} :
                             d \in {i \in Reachable : IsDir(i)}}
    IN /\ \A e \in entries : e[3] # InodeRoot /\ inodes[e[3]].mode # "free"
       /\ \A e, f \in entries : e[3] = f[3] => e = f

\* No block serves twice: as a part of two files, of a file and the free
\* list s leads to, or twice of one of them; no inode of the tree is in the
\* inode cache of s, and none is there twice.
Free(s) == FreeBlocks(s.freeBlock, Lists)
NothingShared(s, live) ==
    /\ LET free == Free(s)
           parts == [i \in live |-> BlocksOf(i)]
       IN /\ \A i \in live : Distinct(parts[i]) /\ Range(parts[i]) \cap free = {}
          /\ \A i, j \in live : i # j => Range(parts[i]) \cap Range(parts[j]) = {}
    /\ ListedOnce(s.freeBlock, Lists)
    /\ Distinct(s.freeInode)
    /\ Range(s.freeInode) \cap live = {}

\* What a program that opens the image finds: a sound tree, nothing shared
\* with the free lists of the superblock on the image, and no list of free
\* blocks left in a block of a file, to be taken for one later.
ImageSafe ==
    /\ TreeSound
    /\ NothingShared(sbDisk, Reachable)
    /\ \A i \in Reachable : \A b \in Range(BlocksOf(i)) : Listed(disk[b]) = <<>>

\* The program dies between two writes.  The model follows an image that is
\* not safe no further.
Crash ==
    /\ job # Idle
    /\ crashes < MaxCrashes
    /\ ImageSafe
    /\ job' = Idle
    /\ sb' = sbDisk
    /\ crashes' = crashes + 1
    /\ UNCHANGED <<inodes, disk, sbDisk>>

Creation ==
    \/ /\ job = Idle
       /\ \E d \in Reachable, name \in Names, i \in Inodes :
             \/ MkDir(d, name, i)
             \/ \E n \in FileSizes : CreateFile(d, name, n, i)
    \/ \E b \in DataBlocks :
          AllocDataBlock(b) \/ AllocIndirectBlock(b) \/ ExpandDirectory(b)
    \/ WriteDataBlock \/ WriteIndirectBlock \/ WriteInode
    \/ AddEntry \/ WriteDirBlock \/ WriteDirInode \/ FlushCreated \/ FailCreate
    \/ LoadTreeWords \/ LoadFileWords \/ StaysAstray

RemovalStep ==
    \/ /\ job = Idle
       /\ \E d \in Reachable, name \in Names \cup DotNames :
             /\ IsDir(d) /\ Resolves(d, name)
             /\ RemoveFile(d, name) \/ RemoveDir(d, name) \/ RemoveAll(d, name)
    \/ RemoveChild \/ FreeBlock \/ FreeInode \/ RemoveEntry \/ FlushRemoved

Next == Creation \/ RemovalStep \/ Reopen \/ Crash

Spec == Init /\ [][Next]_vars

-----------------------------------------------------------------------------
TypeOK ==
    /\ \A i \in Inodes :
          /\ inodes[i].mode \in {"free", "reg", "dir"}
          /\ inodes[i].addr \in Seq(DataBlocks) /\ Len(inodes[i].addr) <= NAddrDirect
          /\ inodes[i].ind \in {0} \cup DataBlocks
    /\ \A b \in DataBlocks : disk[b].tag \in {"zero", "data", "dir", "ind", "chain"}
    /\ \A s \in {sb, sbDisk} :
          /\ s.freeBlock \in Seq(DataBlocks) /\ Len(s.freeBlock) <= MaxFreeBlock
          /\ s.freeInode \in Seq(Inodes) /\ Len(s.freeInode) <= MaxFreeInode
          /\ s.totalFreeBlock \in Nat
    /\ job.op \in {"idle", "astray", "create", "remove"}
    /\ crashes \in 0 .. MaxCrashes

\* The blocks the running operation has taken but not yet linked, or has
\* still to free.
InHand ==
    IF job.op = "create" /\ job.pc # "flush"
    THEN job.data \o (IF job.ind = 0 THEN <<>> ELSE <<job.ind>>)
                  \o (IF job.pc \in {"allocInd", "fill", "dirBlock", "dirInode"}
                      THEN <<job.block>> ELSE <<>>)
    ELSE IF job.op = "remove" THEN job.todo ELSE <<>>

\* While a program runs, no block is shared by two files, by a file and the
\* free list, or by one of them and the running operation, and no inode in
\* the cache is in the tree or in hand.  Whatever failed, was not flushed or
\* was rolled back before, and as long as AllocBlock has loaded chain blocks
\* only, the free list leads to nobody's blocks.
NothingSharedInMemory ==
    LET taken == Range(InHand)
    IN /\ NothingShared(sb, Live)
       /\ Distinct(InHand)
       /\ taken \cap Free(sb) = {}
       /\ \A i \in Live : taken \cap Range(BlocksOf(i)) = {}
       /\ job.op = "create" /\ job.pc # "flush" =>
             job.ino \notin Live \cup Range(sb.freeInode)

\* ReadFileData: what the blocks of a file hold, in order.
ReadFileData(i) ==
    LET ind   == inodes[i].ind
        parts == inodes[i].addr \o (IF ind = 0 THEN <<>> ELSE disk[ind].list)
    IN [k \in DOMAIN parts |-> disk[parts[k]]]

\* A file in the tree reads back what CreateFile wrote, block for block, and
\* a directory's blocks hold directory slots, however blocks and inodes were
\* used before.
ContentsIntact ==
    \A i \in Live :
        LET ind     == inodes[i].ind
            content == ReadFileData(i)
        IN IF IsDir(i) THEN \A k \in DOMAIN content : content[k].tag = "dir"
           ELSE /\ ind # 0 => disk[ind].tag = "ind"
                /\ \A k \in DOMAIN content : /\ content[k].tag = "data"
                                             /\ content[k].list = <<i, k>>

\* As long as AllocBlock has loaded chain blocks only, TotalFreeBlock covers
\* the blocks the free list leads to, in memory and on the image: until then
\* its decrement cannot wrap, and its test for the last block cannot hide a
\* chain block.
CountCoversFreeList ==
    \A s \in {sb, sbDisk} : Cardinality(Free(s)) <= s.totalFreeBlock

\* A crash costs at most leaked blocks and inodes, except in three windows:
\* after the entry of a new file is written and before the superblock is
\* (AllocBlock and AllocInode would issue its blocks and inode again), after
\* a removed inode is zeroed and before its entry is, and while the blocks of
\* a file being removed are turned into chain blocks.
Window ==
    \/ Creating("flush")
    \/ Removing("entry")
    \/ Removing("blocks") /\ job.todo # BlocksOf(Top.ino)

CrashSafeOutsideWindows == ImageSafe \/ Window

\* The operations implement the abstract tree; a file goes when the first of
\* its blocks is about to be freed.
Files == INSTANCE FileTree WITH
             Root <- InodeRoot, Nodes <- Inodes, Names <- Range(Stored), tree <- Tree
ImplementsTree == Files!Spec

\* image_test.go: "verifies that root cannot be removed".
RootStays == inodes[InodeRoot].mode = "dir"

\* image_test.go, TestDuplicateNameFails: no name twice in a directory.
NamesUnique ==
    \A d \in Reachable : IsDir(d) =>
        \A p, q \in ReadDir(d) : SlotAt(d, p).name = SlotAt(d, q).name => p = q

=============================================================================
