----------------------------- MODULE ImageFile -----------------------------
(***************************************************************************)
(* Create and Open (pkg/ufs/image.go) on one path of the host.  Several    *)
(* programs, each running one command, use the path without a lock; every  *)
(* call of the host may fail and a program may be killed at any point.     *)
(*                                                                         *)
(* A file is the sequence of its sectors, counted from 0.  It outlives its *)
(* name as long as a program has it open.  All images have one block size. *)
(***************************************************************************)
EXTENDS Geometry, FiniteSets, Sequences

CONSTANTS
    Programs,
    NoProgram,
    Sizes,         \* sizes asked for, in blocks
    Word,          \* number of uint32 values
    Percents,      \* values of --inodes
    Ipb,           \* inodes per block
    MaxFreeBlock,  \* entries of the free block cache and of a chain block
    MaxFreeInode   \* entries of the free inode cache

\* With chain blocks of one entry the first chain block would be the block
\* that Create takes for the root directory; the code's chain blocks have 51.
ASSUME ImageAssumption ==
    /\ NoProgram \notin Programs
    /\ Sizes \subseteq Nat /\ Percents \subseteq Nat
    /\ Word \in Nat /\ Word > 9   \* the sectors of the foreign file of Init
    /\ Ipb \in Nat /\ Ipb >= InodesPerBlock(MinBlockSize)
    /\ MaxFreeBlock \in Nat /\ MaxFreeBlock >= 2 /\ MaxFreeInode \in Nat \ {0}

VARIABLES
    path,   \* number of the file the path leads to, 0 when there is none
    files,  \* files ever made, those without a name included
    pc,     \* where each program is
    job,    \* img of each program: file, asked, total, start, step
    view,   \* the superblock Open returned
    last,   \* history: the program whose os.Create was the latest
    mixed   \* history: programs whose os.Create fell into another's Create

vars == <<path, files, pc, job, view, last, mixed>>

-----------------------------------------------------------------------------
(* What stands in a sector.                                                *)

Zero    == [kind |-> "zero"]
Boot    == [kind |-> "boot"]
RootDir == [kind |-> "rootdir"]
Foreign == [kind |-> "foreign"]
Chain(entries) == [kind |-> "chain", entries |-> entries]

\* The first inode block: whether inode 1 is marked as reserved, and the data
\* block of inode 2, 0 while that slot holds no inode.
FirstInodes(reserved, root) == [kind |-> "inodes", reserved |-> reserved, root |-> root]

Smaller(a, b) == IF a < b THEN a ELSE b
UpTo(first, end) == [i \in 1 .. (end - first) |-> first + i - 1]

\* Mutant: every chain block in the block after the one before.
ChainSectorNext(start, k) == start + k - 1

\* sb.FreeBlock after the first loop of buildFreeBlockChain, and the blocks
\* and sectors of its second: block k of the chain lists the next blocks and
\* stands in the first block of the list before it.
Cached(start, total) == UpTo(start, Smaller(start + MaxFreeBlock, total))
ChainSector(start, k) == start + (k - 1) * MaxFreeBlock
ChainLength(start, total) ==
    (total - start - 1) \div MaxFreeBlock
ChainEntries(start, total, k) ==
    UpTo(ChainSector(start, k + 1), Smaller(ChainSector(start, k + 2), total))

RootBlockOf(start, total) == Smaller(start + MaxFreeBlock, total) - 1

LastInode(start) == (start - IListSector) * Ipb

\* The sector writes of Create from the inode blocks to the root directory.
At(s, c) == <<s, c>>
FormatWrites(start, total) ==
    <<At(IListSector, FirstInodes(TRUE, 0))>>
    \o [i \in 1 .. (start - IListSector - 1) |-> At(IListSector + i, Zero)]
    \o [k \in 1 .. ChainLength(start, total) |->
           At(ChainSector(start, k), Chain(ChainEntries(start, total, k)))]

FreeSlots(file, sectors, start) ==
    {ino \in 1 .. LastInode(start) :
        LET s == IListSector + (ino - 1) \div Ipb
        IN /\ s \in sectors /\ s \in DOMAIN file
           /\ CASE ino = 1 -> ~(file[s].kind = "inodes" /\ file[s].reserved)
                [] ino = 2 -> file[s].kind # "inodes"
                [] OTHER   -> TRUE}

\* seedFreeInodeCache: the first free inodes above 1 of the sectors it can
\* read.
Seeded(file, sectors, start) ==
    LET free == FreeSlots(file, sectors, start) \ {1}
    IN {i \in free : Cardinality({e \in free : e < i}) < MaxFreeInode}

Super(start, total, seeded) ==
    [kind |-> "super", start |-> start, total |-> total,
     cache |-> SubSeq(Cached(start, total), 1, Len(Cached(start, total)) - 1),
     freeBlocks |-> total - start - 1,
     inodes |-> seeded, freeInodes |-> LastInode(start) - 2]

\* WriteSector, beyond the end of the file too.
Written(file, s, c) ==
    [t \in DOMAIN file \cup 0 .. s |->
        IF t = s THEN c ELSE IF t \in DOMAIN file THEN file[t] ELSE Zero]

-----------------------------------------------------------------------------
NoJob == [file |-> 0, asked |-> 0, total |-> 0, start |-> 0, step |-> 0]

\* No file, or one that is not an image.
Init ==
    /\ \E there \in BOOLEAN :
          /\ path = IF there THEN 1 ELSE 0
          /\ files = IF there THEN <<[s \in 0 .. 9 |-> Foreign]>> ELSE <<>>
    /\ pc = [p \in Programs |-> "idle"]
    /\ job = [p \in Programs |-> NoJob]
    /\ view = [p \in Programs |-> Zero]
    /\ last = NoProgram
    /\ mixed = {}

Formatting == {"truncate", "boot", "format", "rootinode", "rootdir", "super", "remove"}
Reading    == {"openboot", "opensuper"}

Goto(p, there) == pc' = [pc EXCEPT ![p] = there]

\* Mutant: the number of blocks not cut to 32 bits.
BlocksUncut(asked) == asked

Blocks(asked) == asked % Word

\* Create up to os.Create, which empties a file that is there.
RefuseCreate(p, asked) ==
    /\ pc[p] = "idle"
    /\ Blocks(asked) < MinBlocks
    /\ Goto(p, "refused")
    /\ UNCHANGED <<path, files, job, view, last, mixed>>

CreateFails(p) ==
    /\ pc[p] = "idle"
    /\ Goto(p, "refused")
    /\ UNCHANGED <<path, files, job, view, last, mixed>>

CreateFile(p, asked) ==
    /\ pc[p] = "idle"
    /\ Blocks(asked) >= MinBlocks
    /\ LET target == IF path = 0 THEN Len(files) + 1 ELSE path
       IN /\ path' = target
          /\ files' = IF path = 0 THEN Append(files, <<>>)
                                  ELSE [files EXCEPT ![path] = <<>>]
          /\ \E pct \in Percents :
             \E start \in DataStarts(Blocks(asked), Ipb, Percentage(pct)) :
                job' = [job EXCEPT ![p] = [file |-> target, asked |-> asked,
                            total |-> Blocks(asked), start |-> start, step |-> 1]]
    /\ Goto(p, "truncate")
    /\ last' = p
    /\ mixed' = IF \E q \in Programs \ {p} : pc[q] \in Formatting
                THEN mixed \cup {p} ELSE mixed
    /\ UNCHANGED view

\* A step of Create that changes its file, or fails.
Change(p, from, to, file) ==
    /\ pc[p] = from
    /\ \/ Goto(p, to) /\ files' = [files EXCEPT ![job[p].file] = file]
       \/ Goto(p, "remove") /\ UNCHANGED files
    /\ UNCHANGED <<path, view, last, mixed>>

Mine(p) == files[job[p].file]

Truncate(p) ==
    /\ Change(p, "truncate", "boot",
              [s \in 0 .. (job[p].total - 1) |-> IF s \in DOMAIN Mine(p) THEN Mine(p)[s] ELSE Zero])
    /\ UNCHANGED job

WriteBootBlock(p) ==
    /\ Change(p, "boot", "format", Written(Mine(p), 0, Boot))
    /\ UNCHANGED job

\* Inode blocks and free chain, one sector at a time.
Format(p) ==
    LET writes == FormatWrites(job[p].start, job[p].total)
        write  == writes[job[p].step]
    IN /\ Change(p, "format", IF job[p].step = Len(writes) THEN "rootinode" ELSE "format",
                 Written(Mine(p), write[1], write[2]))
       /\ job' = [job EXCEPT ![p].step = @ + 1]

\* createRootDir reads the first inode block and writes it back with inode 2
\* in it.
WriteRootInode(p) ==
    /\ pc[p] = "rootinode"
    /\ LET block  == Mine(p)[IListSector]
           marked == block.kind = "inodes" /\ block.reserved
       IN IF IListSector \in DOMAIN Mine(p)
          THEN Change(p, "rootinode", "rootdir",
                   Written(Mine(p), IListSector,
                           FirstInodes(marked, RootBlockOf(job[p].start, job[p].total))))
          ELSE Goto(p, "remove") /\ UNCHANGED <<path, files, view, last, mixed>>
    /\ UNCHANGED job

WriteRootDir(p) ==
    /\ Change(p, "rootdir", "super",
              Written(Mine(p), RootBlockOf(job[p].start, job[p].total), RootDir))
    /\ UNCHANGED job

\* seedFreeInodeCache, which leaves out sectors it cannot read, and
\* writeSuperBlock.
WriteSuperBlock(p) ==
    /\ pc[p] = "super"
    /\ \E read \in SUBSET (IListSector .. (job[p].start - 1)) :
          Change(p, "super", "created",
                 Written(Mine(p), 1, Super(job[p].start, job[p].total,
                                           Seeded(Mine(p), read, job[p].start))))
    /\ UNCHANGED job

\* Mutant: a failure that leaves the file.
NotRemoved(p) ==
    /\ pc[p] = "remove"
    /\ Goto(p, "failed")
    /\ UNCHANGED <<path, files, job, view, last, mixed>>

\* Close and os.Remove after a failure.  Errors of both are ignored.
Remove(p) ==
    /\ pc[p] = "remove"
    /\ \/ path' = 0 /\ Goto(p, "failed")
       \/ path' = path /\ Goto(p, "left")
    /\ UNCHANGED <<files, job, view, last, mixed>>

-----------------------------------------------------------------------------
OpenFile(p) ==
    /\ pc[p] = "idle"
    /\ IF path = 0
       THEN Goto(p, "refused") /\ UNCHANGED job
       ELSE Goto(p, "openboot") /\ job' = [job EXCEPT ![p].file = path]
    /\ UNCHANGED <<path, files, view, last, mixed>>

\* Mutant: the boot block not validated.
ReadBootBlockUnchecked(p) ==
    /\ pc[p] = "openboot"
    /\ Goto(p, "opensuper")
    /\ UNCHANGED <<path, files, job, view, last, mixed>>

\* Type and checksum of the boot block are all that is validated.
ReadBootBlock(p) ==
    /\ pc[p] = "openboot"
    /\ \/ 0 \in DOMAIN Mine(p) /\ Mine(p)[0] = Boot /\ Goto(p, "opensuper")
       \/ Goto(p, "refused")
    /\ UNCHANGED <<path, files, job, view, last, mixed>>

ReadSuperBlock(p) ==
    /\ pc[p] = "opensuper"
    /\ \/ /\ 1 \in DOMAIN Mine(p)
          /\ view' = [view EXCEPT ![p] = Mine(p)[1]]
          /\ Goto(p, "opened")
       \/ Goto(p, "refused") /\ UNCHANGED view
    /\ UNCHANGED <<path, files, job, last, mixed>>

Kill(p) ==
    /\ pc[p] \in Formatting \cup Reading
    /\ Goto(p, "killed")
    /\ UNCHANGED <<path, files, job, view, last, mixed>>

Create(p) ==
    \/ \E asked \in Sizes : RefuseCreate(p, asked) \/ CreateFile(p, asked)
    \/ CreateFails(p)
    \/ Truncate(p)
    \/ WriteBootBlock(p)
    \/ Format(p)
    \/ WriteRootInode(p)
    \/ WriteRootDir(p)
    \/ WriteSuperBlock(p)
    \/ Remove(p)

Open(p) == OpenFile(p) \/ ReadBootBlock(p) \/ ReadSuperBlock(p)

Next == \E p \in Programs : Create(p) \/ Open(p) \/ Kill(p)

Spec == Init /\ [][Next]_vars

-----------------------------------------------------------------------------
\* Types; an image never has more blocks than uint32 counts.
TypeOK ==
    /\ path \in 0 .. Len(files)
    /\ \A i \in DOMAIN files : DOMAIN files[i] \subseteq 0 .. (Word - 1)
    /\ pc \in [Programs -> Formatting \cup Reading \cup
                 {"idle", "refused", "created", "failed", "left", "opened", "killed"}]
    /\ \A p \in Programs : job[p].file \in 0 .. Len(files)
    /\ last \in Programs \cup {NoProgram}
    /\ mixed \subseteq Programs

\* The free lists of an image: the cache and its chain blocks.
Lists(file) == {file[1].cache} \cup {file[s].entries : s \in {t \in DOMAIN file : file[t].kind = "chain"}}
Listed(file) == UNION {{l[i] : i \in DOMAIN l} : l \in Lists(file)}

\* A file that is an image as the other commands expect it: as long as its
\* superblock says, root directory in a data block of its own, every other
\* data block in one place of one list, every chain block first in a list
\* so that AllocBlock comes to it, nothing left over in the others, and the
\* counts exact.
Whole(file) ==
    /\ 0 .. IListSector \subseteq DOMAIN file /\ file[0] = Boot
    /\ file[1].kind = "super"
    /\ LET sb     == file[1]
           data   == sb.start .. (sb.total - 1)
           chains == {s \in data : file[s].kind = "chain"}
           root   == file[IListSector].root
       IN /\ DOMAIN file = 0 .. (sb.total - 1)
          /\ file[IListSector].kind = "inodes" /\ file[IListSector].reserved
          /\ \A s \in (IListSector + 1) .. (sb.start - 1) : file[s] = Zero
          /\ root \in data /\ file[root] = RootDir
          /\ \A s \in data \ (chains \cup {root}) : file[s] = Zero
          /\ Listed(file) = data \ {root}
          /\ \A k, l \in Lists(file), i, j \in 1 .. MaxFreeBlock :
                i \in DOMAIN k /\ j \in DOMAIN l /\ k[i] = l[j] => k = l /\ i = j
          /\ \A s \in chains : \E l \in Lists(file) : l # <<>> /\ l[1] = s
          /\ sb.freeBlocks = Cardinality(data \ {root})
          /\ sb.inodes \subseteq 3 .. LastInode(sb.start)
          /\ sb.freeInodes = Cardinality(3 .. LastInode(sb.start))

\* A Create that no other fell into and that reports success leaves a whole
\* image under the path, of the size asked for as long as the number of
\* blocks fits into 32 bits.
SuccessIsWhole ==
    \A p \in Programs :
        pc[p] = "created" /\ last = p /\ mixed = {} =>
            /\ path = job[p].file /\ Whole(Mine(p))
            /\ Mine(p)[1].total = job[p].asked \/ job[p].asked >= Word

\* A Create that no other fell into and that fails leaves nothing under the
\* path unless the removal fails too; one that is refused before os.Create
\* leaves the path and what stands there alone.
FailureIsClean ==
    /\ \A p \in Programs : pc[p] = "failed" /\ last = p /\ mixed = {} => path = 0
    /\ last = NoProgram =>
          \/ path = 0 /\ files = <<>>
          \/ path = 1 /\ files = <<[s \in 0 .. 9 |-> Foreign]>>

\* Whether the file a program has open was left, or is being worked on, by a
\* Create that has not returned success.
Unfinished(p) ==
    \E q \in Programs :
        /\ job[q].file = job[p].file /\ job[q].total # 0
        /\ pc[q] \in Formatting \cup {"killed", "failed", "left"}

\* Open accepts whole images only, and what it returns is their superblock,
\* except where a Create was killed, failed or still runs: the superblock
\* itself is never validated.
OpensWhole(p) == Whole(Mine(p)) /\ view'[p] = Mine(p)[1]
AcceptsWhole ==
    \A p \in Programs :
        pc[p] # "opened" /\ pc'[p] = "opened" => OpensWhole(p) \/ mixed # {} \/ Unfinished(p)
OpenAcceptsWholeImages == [][AcceptsWhole]_vars

=============================================================================
