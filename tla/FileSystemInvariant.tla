------------------------ MODULE FileSystemInvariant ------------------------
(***************************************************************************)
(* The inductive invariant behind the safety properties of FileSystem.     *)
(***************************************************************************)
EXTENDS FileSystem

-----------------------------------------------------------------------------
(* Types.                                                                  *)

SlotNames == Range(Stored) \cup {".", "..", ""}
Slots     == [ino : {0} \cup Inodes, name : SlotNames]
DirSectors == [tag : {"dir"}, list : [1 .. DirSlots -> Slots]]
Sectors ==
    {Zero} \cup [tag : {"data"}, list : Seq(Nat)] \cup DirSectors
           \cup [tag : {"ind", "chain"}, list : Seq(DataBlocks)]

InodeRecords ==
    [mode : {"free", "reg", "dir"}, nlink : Nat, addr : Seq(DataBlocks),
     ind : {0} \cup DataBlocks]

SuperBlocks ==
    [freeBlock : Seq(DataBlocks), totalFreeBlock : Nat, freeInode : Seq(Inodes)]

Creations ==
    [op : {"create"},
     pc : {"alloc", "allocInd", "fill", "writeInd", "inode", "entry", "dirBlock",
           "dirInode", "flush"},
     dir : Inodes, name : Names, kind : {"reg", "dir"},
     want : 0 .. (NAddrDirect + IndirectCap), ino : Inodes, data : Seq(DataBlocks),
     ind : {0} \cup DataBlocks, block : {0} \cup DataBlocks]

Frames   == [dir : Inodes, name : SlotNames, ino : Inodes, rest : SUBSET Nat]
Removals ==
    [op : {"remove"}, pc : {"children", "blocks", "entry", "flush"},
     todo : Seq(DataBlocks), stack : Seq(Frames)]

ListsShort(cache, lists) ==
    Len(cache) <= MaxFreeBlock /\ \A b \in DataBlocks : Len(lists[b]) <= MaxFreeBlock

Typed ==
    /\ inodes \in [Inodes -> InodeRecords]
    /\ disk \in [DataBlocks -> Sectors]
    /\ sb \in SuperBlocks /\ sbDisk \in SuperBlocks
    /\ job \in {Idle, Astray} \cup Creations \cup Removals
    /\ crashes \in 0 .. MaxCrashes

Bounded ==
    /\ \A i \in Inodes : Len(inodes[i].addr) <= NAddrDirect
    /\ ListsShort(sb.freeBlock, Lists) /\ ListsShort(sbDisk.freeBlock, Lists)
    /\ Len(sb.freeInode) <= MaxFreeInode /\ Len(sbDisk.freeInode) <= MaxFreeInode

-----------------------------------------------------------------------------
(* The free lists of a superblock.                                         *)

\* Only the first block of a list may hold a list.
FirstLeads(list, lists) == \A k \in 2 .. Len(list) : lists[list[k]] = <<>>

\* A list read from a chain block has a second block unless it is the last.
Longer(list, lists) == Len(list) = 1 => lists[list[1]] = <<>>

ListsSound(cache, lists) ==
    /\ ListedOnce(cache, lists)
    /\ FirstLeads(cache, lists)
    /\ \A b \in ChainBlocks(cache, lists) :
          FirstLeads(lists[b], lists) /\ Longer(lists[b], lists)

SuperSound(s) ==
    /\ ListsSound(s.freeBlock, Lists)
    /\ Cardinality(Free(s)) <= s.totalFreeBlock
    /\ Distinct(s.freeInode)

-----------------------------------------------------------------------------
(* The tree.                                                               *)

\* The inode whose blocks or whose entry a removal has begun to take.
Gone ==
    IF Removing("entry") \/ (Removing("blocks") /\ job.todo # BlocksOf(Top.ino))
    THEN {Top.ino} ELSE {}
Whole == Reachable \ Gone

Entries == UNION {{<<d, p, SlotAt(d, p).ino>> : p \in Children(d)} :
                     d \in {i \in Reachable : IsDir(i)}}

TreeLinked ==
    /\ IsDir(InodeRoot)
    /\ \A e \in Entries : e[3] # InodeRoot /\ (e[3] \in Gone \/ inodes[e[3]].mode # "free")
    /\ \A e, f \in Entries : e[3] = f[3] => e = f

Parts(i) == inodes[i].addr \o (IF inodes[i].ind = 0 THEN <<>> ELSE disk[inodes[i].ind].list)
Intact(i) ==
    IF IsDir(i)
    THEN inodes[i].ind = 0 /\ \A b \in Range(inodes[i].addr) : disk[b].tag = "dir"
    ELSE /\ inodes[i].ind # 0 => disk[inodes[i].ind].tag = "ind"
         /\ \A k \in DOMAIN Parts(i) : disk[Parts(i)[k]] = Data(i, k)

BlocksApart(live) ==
    /\ \A i \in live : Distinct(BlocksOf(i))
    /\ \A i, j \in live : i # j => Range(BlocksOf(i)) \cap Range(BlocksOf(j)) = {}

ApartFrom(s, live) ==
    \A i \in live : Range(BlocksOf(i)) \cap Free(s) = {} /\ i \notin Range(s.freeInode)

TreeSafe ==
    /\ TreeLinked
    /\ \A i \in Whole : Intact(i)
    /\ BlocksApart(Whole)
    /\ ApartFrom(sb, Whole)
    /\ ~Creating("flush") => ApartFrom(sbDisk, Whole)

-----------------------------------------------------------------------------
(* The running operation.                                                  *)

HandSafe ==
    /\ Distinct(InHand)
    /\ Range(InHand) \cap Free(sb) = {}
    /\ job.op = "remove" => Range(InHand) \cap Free(sbDisk) = {}
    /\ \A i \in Live : Range(InHand) \cap Range(BlocksOf(i)) = {}
    /\ \A b \in Range(InHand) : Lists[b] = <<>>

\* What the blocks written so far hold.
Filled(k) ==
    disk[job.data[k]] = IF job.kind = "reg" THEN Data(job.ino, k)
                        ELSE DirBlock(<<Slot(job.ino, "."), Slot(job.dir, "..")>>)

CreateSound ==
    job.op = "create" =>
        /\ job.dir \in Reachable /\ IsDir(job.dir)
        /\ job.pc # "flush" =>
              /\ job.ino \notin Reachable \cup Range(sb.freeInode)
              /\ \A k \in DOMAIN job.data : Filled(k)
        /\ job.kind = "dir" => job.want = 1
        /\ job.pc \in {"alloc", "allocInd", "fill"} => Len(job.data) < job.want
        /\ Len(job.data) > NAddrDirect => job.ind # 0
        /\ job.ind # 0 => NAddrDirect < job.want
        /\ job.pc = "allocInd" => job.ind = 0 /\ NAddrDirect < job.want
        /\ job.pc = "fill" /\ Len(job.data) >= NAddrDirect => job.ind # 0
        /\ job.pc = "writeInd" => job.ind # 0
        /\ job.pc \in {"allocInd", "fill", "dirBlock", "dirInode"} => job.block # 0
        /\ job.pc \in {"inode", "entry", "dirBlock", "dirInode"} /\ job.ind # 0 =>
              disk[job.ind] = Indirect(SubSeq(job.data, NAddrDirect + 1, Len(job.data)))
        /\ job.pc \in {"entry", "dirBlock", "dirInode"} =>
              /\ inodes[job.ino].mode = job.kind
              /\ inodes[job.ino].addr = DirectPart(job.data)
              /\ inodes[job.ino].ind = job.ind
        /\ job.pc \in {"dirBlock", "dirInode"} => Len(inodes[job.dir].addr) < NAddrDirect
        /\ job.pc = "dirInode" => disk[job.block] = DirBlock(<<NewSlot>>)

\* The entry a frame is to remove is there.
Linked(f) ==
    /\ f.dir \in Reachable /\ IsDir(f.dir)
    /\ f.name \notin {".", ".."} /\ f.name \in DirNames(f.dir)
    /\ SlotAt(f.dir, SlotNamed(f.dir, f.name)).ino = f.ino

\* The activations below the last one: each is the caller of the next, and
\* has that one's entry and those in rest left.
CallersSound ==
    \A k \in 1 .. (Len(job.stack) - 1) :
        LET f == job.stack[k]
            g == job.stack[k + 1]
            done == job.pc = "flush" /\ k + 1 = Len(job.stack)
            next == SlotNamed(g.dir, g.name)
        IN /\ Linked(f) /\ IsDir(f.ino)
           /\ g.dir = f.ino
           /\ IF done THEN Children(f.ino) = f.rest
              ELSE next \notin f.rest /\ Children(f.ino) = f.rest \cup {next}

\* No directory is below itself.
StackApart ==
    \A k \in DOMAIN job.stack :
        /\ job.stack[k].ino # job.stack[1].dir
        /\ \A l \in DOMAIN job.stack : job.stack[k].ino = job.stack[l].ino => k = l

RemoveSound ==
    job.op = "remove" =>
        /\ job.stack # <<>>
        /\ CallersSound
        /\ StackApart
        /\ job.pc # "flush" => Linked(Top)
        /\ job.pc = "children" =>
              IsDir(Top.ino) /\ Top.rest = Children(Top.ino) /\ Top.rest # {}
        /\ job.pc # "children" => Top.rest = {}
        /\ job.pc = "blocks" => (IsDir(Top.ino) => Children(Top.ino) = {})
        /\ job.pc = "entry" => inodes[Top.ino] = FreeInodeRecord
        /\ job.pc # "blocks" => job.todo = <<>>
        /\ job.pc \in {"children", "blocks"} => Top.ino \notin Range(sb.freeInode)

\* While blocks are freed: what is left to free are the last blocks of the
\* inode, which is intact as long as none of its blocks is a chain block.
FreeingSound ==
    Removing("blocks") =>
        /\ Len(job.todo) <= Len(BlocksOf(Top.ino))
        /\ Range(job.todo) \subseteq Range(BlocksOf(Top.ino))
        /\ (job.todo # <<>> /\ inodes[Top.ino].ind # 0) => Last(job.todo) = inodes[Top.ino].ind
        /\ \/ Intact(Top.ino)
           \/ \E b \in Range(BlocksOf(Top.ino)) \cap DataBlocks : Lists[b] # <<>>

IInv ==
    /\ Typed /\ Bounded
    /\ SuperSound(sb) /\ SuperSound(sbDisk)
    /\ TreeSafe /\ HandSafe
    /\ CreateSound /\ RemoveSound /\ FreeingSound

-----------------------------------------------------------------------------
(* The names, for the tree the operations implement.                       *)

\* Every entry of the tree: directory, name and inode.
Named ==
    UNION {{<<d, SlotAt(d, p).name, SlotAt(d, p).ino>> : p \in Children(d)} :
              d \in {i \in Reachable : IsDir(i)}}

\* No name twice in a directory, and the one a creation is about to enter is
\* not there yet.
NamesSound ==
    /\ \A x \in Named : x[2] \in Names
    /\ \A x, y \in Named : x[1] = y[1] /\ x[2] = y[2] => x = y
    /\ job.op = "create" /\ job.pc # "flush" =>
          \A x \in Named : x[1] = job.dir => x[2] # job.name

=============================================================================
