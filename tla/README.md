# TLA+ models of ufsd-utils

ufsd-utils creates and changes disk images of the UFS370 file system, a
Unix V7 file system in an MVS dataset, and uploads them to MVS.  This
directory holds models of its image library (`pkg/ufs`), of the code pages
(`pkg/ebcdic`) and of the commands on top (`cmd/ufsd-utils`), the TLC
configurations that check them, and TLAPS proofs about what matters most.

The first part of this file lists the parts of the system, what each keeps
and does, what is hard about it and what makes it correct.  The second part
describes the models and how they correspond to the code.  Then come the
runs, the disagreements they show between the code and what its comments,
tests and documents say, fairness, the proofs, and what is left out.

## 1. The system

A command of `cmd/ufsd-utils` opens an image file, calls one or more
operations of `pkg/ufs` and exits.  Nothing runs concurrently inside a
program, only `upload` waits for anything, and there are no callbacks.  What
makes the code hard is that an operation is a sequence of sector writes
without a journal, that the superblock is kept in memory and written last,
that the two free lists are caches whose correctness is a property of the
whole history of calls, and that nothing locks what several programs share:
an image file, or a dataset on the server.

| part | source | state | operations |
|---|---|---|---|
| free block list | `alloc.go`, `image.go:407-448` | `sb.FreeBlock[0..NFreeBlock-1]`, `sb.TotalFreeBlock`, chain blocks on disk | `buildFreeBlockChain`, `AllocBlock`, `FreeBlock` |
| inode list | `alloc.go`, `image.go:537-568` | `sb.FreeInode[0..NFreeInode-1]`, `sb.TotalFreeInode`, the modes of the inodes on disk | `seedFreeInodeCache`, `AllocInode`, `FreeInode`, `WriteInode` |
| file and directory operations | `write.go` | inodes, directory blocks, indirect blocks, file blocks; local variables of the running operation | `MkDir`, `MkDirAll`, `CreateFile`, `addDirEntry`, `Remove`, `RemoveDir`, `RemoveAll`, `freeFileBlocks`, `removeDirEntry` |
| path resolution | `write.go:329-380, 667-685` | none | `ResolvePath`, `splitPath` |
| reading | `write.go:260-325`, `image.go:265-330` | none | `ReadFileData`, `ReadInode`, `ReadDir` |
| image creation and opening | `image.go:31-230, 349-520` | the image file, boot block, superblock | `Create`, `Open`, `Close`, `FlushSuperBlock` |
| timestamps | `timev.go` | none | `TimeFromGo`, `ToGo`, `IsV1` |
| EBCDIC codec | `ebcdic.go` | the active code page | `SetCodepage`, `Encode`, `Decode`, the tables |
| file commands | `main.go` | the open image, the walk over a host directory | `create`, `cp`, `cat`, `mkdir`, `rm`, `rmdir` |
| argument parsing | `main.go:612-779` | none | `reorderArgs`, `parseSize`, `parseImagePath`, `parseImgPath` |
| reports | `main.go:165-300` | none | `info`, `ls` |
| upload to MVS | `upload.go` | the dataset on the server | `datasetExists`, `deleteDataset`, `allocateDataset`, `uploadBinary` |

**Free block list.**  A V7 chain: the superblock caches up to 51 free block
numbers; when `AllocBlock` takes the last one it looks into that block for
the next list, and when `FreeBlock` finds the cache full it writes the cache
into the block being freed.  `AllocBlock` tells a chain block from an old
data block by its first word (1..51) and by `TotalFreeBlock > 1`.  Correct
means: a block number stands in one place of the list only and its block is
in no file; the count never reports fewer blocks than are free; "no free
blocks" is said only when there are none.  Hard: reloads and spills in any
order, old contents that look like a chain block, sector reads and writes
that fail half-way through.

**Inode list.**  `AllocInode` pops a number from the cache without looking at
the inode, or scans the list for a mode of 0; it does not change the inode,
so between it and `WriteInode` the inode is free on disk and taken in memory.
Correct means: a number is issued only when its inode is free, and to one
operation.  Hard: creations that fail in between, numbers that the cache has
no room for, sectors that a scan cannot read.

**File and directory operations.**  Each calls the two allocators several
times and writes data blocks, the indirect block, the inode, the directory
entry and the superblock, in that order; removals go the other way.  Callers
see them as changes of a tree of named files.  Correct means: no block and no
inode serves twice, a file reads back what was written to it, the tree
changes by one leaf at a time, and a failure or a crash loses space at most.
Hard: failures half-way (nothing is undone), a superblock rolled back by
reopening the image after a failure, crashes between two writes, directories
that grow, recursion that resolves every path again, names that do not come
back as they were stored.

**Image creation and opening.**  `Create` lays out boot block, superblock,
inode list and data blocks from a size and a percentage, builds the free
list, the root directory and the inode cache, and removes the file when any
of its writes fails; `Open` validates the boot block and reads the
superblock.  Correct means: areas are disjoint and within the volume, every
data block is in one place of the free list, a `Create` that fails leaves
nothing, and what `Open` accepts is an image that a `Create` completed.
Hard: floating-point shares and conversions to 32 bits at extreme sizes, a
kill between boot block and superblock, two programs on one path.

**Timestamps, codec, arguments.**  Pure functions: two timestamp formats told
apart by the low word, translation tables that must be inverse to each other
where text goes both ways, command lines in which flags may follow
arguments, sizes.  Correct means: what goes in comes back.  Hard: the
boundaries where it does not.

**File commands.**  One operation per program, except `cp -r`, which creates
many files and goes on after one failed; `mkdir -p`, several directories.
Correct means: `cp -r` puts every file where its path leads or warns about
it, and touches nothing else.  Hard: an ignored error, names that are taken,
names that read back as each other's, the recursion with failures in it.

**Upload.**  Check, delete, allocate, put: four requests to a server, each of
which may fail before or after it took effect.  Correct means: "Done." is
said only when the dataset holds the image, a dataset is deleted only with
`--replace`, and a program writes only what it allocated.  Hard: stopping
between the deletion and the put; requests that are carried out after their
program has given up; other users of the dataset; images of different sizes
where each program asks for the room of its own.

## 2. The models

| module | models | extends / instantiates |
|---|---|---|
| `BlockCache` | the operators of the free block cache that `FreeList` and `FileSystem` share | |
| `FreeList` | the free block list, from `Create` on, with I/O faults | `BlockCache`, `BlockPool` |
| `BlockPool` | abstract: what the block allocator promises its callers | |
| `InodeTable` | the inode list, from `Create` on, with I/O faults and failed creations | |
| `FileSystem` | the operations of `write.go` on top of both allocators, one sector write per step, with sessions and crashes | `BlockCache`, `FileTree` |
| `FileTree` | abstract: a tree of files that changes by one leaf at a time | |
| `BatchCopy` | `cp` from the host and `mkdir -p`: the walk over host directory and image, file by file | `FileTree` |
| `Geometry` | the layout `Create` chooses | |
| `ImageFile` | `Create` and `Open` of several programs on one path, call by call, with failures and kills | `Geometry` |
| `Upload` | uploads of several programs to one dataset, request by request | |
| `MachineWords` | Go's fixed-width integers | |
| `FileSizing` | lengths, blocks and bytes of `CreateFile` and `ReadFileData` | `MachineWords` |
| `Timestamps` | the two formats of timestamps | `MachineWords` |
| `CommandLine` | `reorderArgs` with the flag package, `parseSize`, blocks and tracks | `MachineWords` |
| `CodePages` | the four tables, names, text and binary copies | |
| `Conversions` | the conversions of the four modules above as calls | all four |
| `FileSystemInvariant` | the inductive invariant of `FileSystem`, and what its refinement adds to it | `FileSystem` |
| `FreeListProofs`, `InodeTableProofs`, `FileSystemProofs`, `FileTreeProofs`, `BatchCopyProofs`, `UploadProofs`, `ImageProofs`, `ConversionProofs` | theorems | the module they are about |
| `MCFreeList`, `MCFileSystem`, `MCBatchCopy`, `MCUpload`, `MCConversions` | values of constants for TLC | |

`PROJECT.json` maps every definition that models code to the lines it stands
for.

### FreeList

`freeBlock` is the sequence `sb.FreeBlock[0..NFreeBlock-1]`, so `Append` and
`Last` are the code's push and pop; `totalFreeBlock` is a uint32
(`Decrement` and `Increment` wrap at `MaxWord`).  A sector's content is what
`AllocBlock` would make of it: the list it holds if its first word is between
1 and the cache size, and `<<>>` otherwise.  `FillCache` and `FillChain` are the
two loops of `buildFreeBlockChain`, `CreateRootDir` takes the root's block,
after which `AllocBlock`, `FreeBlock` and the callers' writes (`WriteData`)
interleave freely.  With `FaultyDisk`, any read or zero-fill of `AllocBlock`
may fail; `AllocBlock` ignores a failed read (`alloc.go:28`), and a failed
zero-fill loses the block.  `used`, `lost`, `misread`, `chained` and `astray`
are history variables: the blocks handed out and not given back, the blocks
that are neither in use nor in the list, whether a read has failed, the
sectors that hold a list which `Create` or `FreeBlock` wrote, and whether
`AllocBlock` has loaded its cache from a sector that holds none and only reads
as if it did.  Once that has happened anything may be issued, so the model
stops (`StaysAstray`), and the properties say what holds until then.

The callers are the environment.  What they are assumed to do is what
`write.go` does: they give back only blocks they hold, and never the root
directory's.  That `write.go` keeps to this is what `FileSystem` checks
(`NothingSharedInMemory`).

### InodeTable

`freeInode` and `totalFreeInode` as above; `inUse` are the inodes whose mode
on disk is not 0; `held` is the number that `AllocInode` gave to the running
operation and that `WriteInode` has not yet written.  `Seed` and
`SeedSkipsSector` are the loops of `seedFreeInodeCache`.  `FailCreation`
stands for every return with an error after `AllocInode`; `abandoned` counts
them.  The bound `MaxAbandoned` limits the failed creations of a behaviour.

### FileSystem

The image is `inodes`, `disk` (the data blocks) and `sbDisk` (the
superblock); the program has `sb` and `job`, the running operation with its
program counter and local variables.  One step of the model is one sector
write of the code, with the computation up to the next one: `AllocBlock`
(the zero-fill), `WriteDataBlock`, `WriteIndirectBlock`, `WriteInode`,
`AddEntry` or the three steps by which a directory grows (`ExpandDirectory`,
`WriteDirBlock`, `WriteDirInode`), `FlushCreated`; and for removals
`FreeBlock` per block, `FreeInode`, `RemoveEntry`, `FlushRemoved`.
`RemoveAll` is a stack of frames, one for each activation, with the entries
the activation read when it began (`rest`); `RemoveChild` resolves the next
one by its name again, as the code does with its path.  `FailCreate` is an
error return for want of blocks or directory slots; the failing operation
does not flush, and what it took stays taken in memory (`sb`) and untouched
on the image (`sbDisk`).  A session may go on after it, as `cp -r` does, or
end: `Reopen` is `Close` and `Open`, which brings the older superblock back.
`Crash` ends the program between any two writes.  `LoadWords` is the
`AllocBlock` that loads its cache from a block that holds no list but begins
with a word in `1 .. MaxFreeBlock` (`LoadTreeWords` a directory or indirect
block, `LoadFileWords` a file's, if its first word is such); there the model
stops (below).

A block is `Zero`, a numbered part of a file, directory slots, addresses or a
list of free blocks, so that `ContentsIntact` can tell a file's own blocks
from any other's.

### BatchCopy

A step creates at most one file or directory; what such a creation writes is
`FileSystem`'s matter.  A path is the sequence of its components; the image
is a sequence of entries in the order they were added, each with its slot in
its directory.  `Create` takes the first slot that is free, as `addDirEntry`
does, and `Lookup` the first slot whose name reads back as the one asked for,
as `ResolvePath` does; images to begin with may have slots that removed
entries left free.  A new entry can so come before an older one that reads
the same, and paths through that lead elsewhere (`Overtaken`).  The target of
a single file that is `/` or ends in `/` gets the file's name appended
(`PathsFor`).  `stack` holds the
activations of `cpDirToImage` with the entries each has still to copy;
`making`, `part` and `child` are the state of `MkDirAll`, which is called
both for the activation's own directory (`child = NoNode`, the error of
`main.go:407` that is not looked at) and for a subdirectory (a warning, and
on with the next entry).  Entries are taken in any order: `os.ReadDir` sorts
them, and no property depends on the order.  `failures` bounds full volumes,
full directories and unreadable files; a name that is taken fails without
counting.  `NameMaps` gives what names read back as, so that names with
letters beyond the code page may meet.  `from` of an entry is a history
field: the host node whose copy it is.  Inodes are numbered in the order they
are issued: which number is free is `InodeTable`'s matter, only that no two
entries have the same counts here.

The host's tree has no loops: `cpDirToImage` descends where the entry itself
is a directory (`main.go:418`), which a symbolic link is not.  An image to
begin with is `Sound`: each entry stands in a directory and has an inode of
its own, as `FileSystem` shows of the trees its operations leave.

### ImageFile and Geometry

A file is the sequence of its sectors and outlives its name as long as a
program has it open, as the host's files do: a program that removes the path
or empties the file changes what another sees.  One step is one call of the
host: `CreateFile` (`os.Create`, which empties a file that is there),
`Truncate`, `WriteBootBlock`, `Format` (one sector of inode blocks or chain
per step), `WriteRootInode`, which reads the first inode block back and
changes it, `WriteRootDir`, `WriteSuperBlock`; each may fail instead, and
then `Remove` closes and removes, ignoring errors of both.  `Open` is
`OpenFile`, `ReadBootBlock`, `ReadSuperBlock`, and validates what the code
validates: type and checksum of the boot block.  `Kill` ends a program
anywhere.  Sectors keep what `Whole` needs to tell: chain entries, the root's
block number in the first inode block, the superblock's lists and counts.
`last` and `mixed` are history: which program emptied the file last, and
which did so while another was formatting.  The share of the inode blocks is
a rounded floating-point number; `Rounded` takes every nearest integer.
What happens to an image after `Open` is `FileSystem`'s matter.

### Upload

`wire[c]` is a request that the server may still carry out, `reply[c]` an
answer on its way.  `Break` ends a program whose connection failed while its
request stays on the wire, so that it may be carried out later or lost:
`Serve` and `Lose` then act for a program that is gone.  `AfterReply` is the
control of `cmdUpload`.  The server, the network and other users are
external; the server is assumed to keep MVS's rules (a name is allocated once
at a time, only a dataset that exists is written or deleted), and may fail
any request with an error, a `PUT` also half-way, and may leave the dataset
out of the list `datasetExists` searches.  A dataset has the room that was
asked for by the program that allocated it: as many tracks as its own image
takes, and no secondary space (`upload.go:193-197`).  A larger image put into
it is cut short, and the server answers with an error (`MayBurst`); what room
another user's dataset has is open.  That an image fits what its own program
asked for is assumed.  `disturbed`, `robbed` and `troubled` are history: the
programs into whose run somebody else's change fell, those whose own dataset
was taken away, and those that the server or the network failed.

### Conversions

`call` is the conversion made last, with what went in and what came out; a
conversion follows another through `Return`, and each is a function of its
arguments alone.  Words are smaller than the machine's (`Word32`,
`Signed64`, `Thousand`) and keep their arithmetic; the 8-bit tables are the
code's, byte for byte.  `CommandLine` tells arguments apart by their kind
and position: a switch takes no value, an option does, and the code's
`reorderArgs` cannot tell one from the other.

### Abstractions, and why they are sound

* *Look-alikes.*  `AllocBlock` takes a block for a chain block by its first
  word (1..51), which other blocks may begin with as well: a directory with
  the inode number of its first slot, an indirect block with its first
  address, a file with anything.  Both `FreeList` and `FileSystem` tell what a
  block looks like (`Contents`, `LooksListed`, `MayLookListed`) from what was
  written into it (`chained`, `Listed`).  While `AllocBlock` loads only what
  was written as a list, the two agree.  When it loads anything else, the
  words of a directory or a file become block numbers, and which sectors are
  zeroed and linked from there on depends on bytes the models do not have; so
  they follow the program to that call and no further (`astray`,
  `LoadWords`).  Every property of `FileSystem`, and of `FreeList` but for
  `SafeUntilFirstReload`, is a statement about programs up to there, and no
  hypothesis keeps them from getting there.  Nor does it take much: the run
  `free_list_lookalike` shows it of the allocator alone, and the passing runs
  of `FileSystem` fire `LoadTreeWords` (the block of a removed directory) and
  `LoadFileWords`, the first after `mkdir` until the cache is used up (its
  reload leaves the count one too high), `rmdir` of the last and `cp`.
  With 51 entries and 64 inodes the first 49 directories begin with such a
  word.
* *Counts of free inodes* decide nothing in `write.go` and are left to
  `InodeTable`.
* *I/O errors* are in `FreeList` and `InodeTable`; in `FileSystem` the disk
  works, and the failures are full volumes, full directories, files that are
  too large, and crashes.
* *After a crash* that leaves an unsafe image the model stops following that
  image (`Crash` requires `ImageSafe`); whether the image is safe is the
  invariant `CrashSafeOutsideWindows`, which is checked in every state, not
  only where `Crash` happens.
* *Sector writes* are atomic; a torn write is not modelled.  Writes reach the
  image in the order they are issued: the program is killed, the host keeps
  running.
* *Paths* are a directory and a last component.  Every directory in the tree
  is reached by some path, and no operation keeps anything of the path but
  its parent directory and its last name.
* *Names* read back as they were given (`Stored <- Kept`), except in the run
  about names, and are interchangeable (`NameSymmetry`); callers use the last component `.` only in the run about the
  root.
* Modes, owners, times, sizes in bytes and the boot block do not influence
  any decision modelled here.

## 3. The runs

State counts are of complete searches, up to the symmetry of names.  All sizes are small against the
code's (51 entries, 64 inodes, 16 direct addresses): what the code compares
is only "empty", "one", "full" and "one more", and each of these happens.

| run | what it asks | bounds | states |
|---|---|---|---|
| `free_list` | types, no block listed twice or in use, the count's bracket, no false "no free blocks", refinement of `BlockPool`, with I/O faults, until the list goes astray | 10 blocks, cache of 2: five chunks, so chains of chains, spills onto reloaded lists; callers write text, or a directory that reads as a list | 161,850 |
| `free_list_any_payload` | callers may write blocks that look like chains: until the first reload the count protects | 5 blocks, all in the cache of 5 | 2,086 |
| `inode_table` | only free inodes issued, and once; the drift of the count, wrapping included | 8 inodes in 4 sectors, cache of 3, counter of 4 bits, up to 8 failed creations | 29,873 |
| `file_system` | no block or inode serves twice; files read back; refinement of `FileTree`; until `AllocBlock` loads what is no list | 7 blocks, cache of 3 (three chunks), 4 inodes, 2 direct addresses and 1 indirect, 3 slots (so the second child makes a directory grow), files of 3 blocks, which have an indirect block | 87,352 |
| `file_system_crash` | one crash anywhere, then the session goes on; directories that grow, full directories and volumes, files too large | 6 blocks, cache of 3, 3 inodes, 2 direct addresses and 1 indirect, files of 3 and 4 blocks, one crash | 83,099 |
| `upload` | what "Done." and an error mean; who deletes and writes what; races; every upload ends | 2 programs, one with an image too large for the other's room, with and without `--replace`, each with any failure; 2 changes by another user | 52,408 |
| `batch_copy` | nothing lost without a warning; `cp` only adds; it ends | 6 host nodes on 3 levels, 6 images with names taken by files and directories, two of them with a free slot before an older entry, 3 targets, 2 failures, three ways names read back, two of which make names collide | 32,202 |
| `image_file` | success leaves a whole image, failure none; what `Open` accepts | 2 programs, sizes 7 (refused), 9, 20, and 40, which wraps to 8 with words of 5 bits; cache of 3, so that chains are of no block, one and several | 476,305 |
| `conversions` | what comes back as it went in | words of 6 bits, files to 140 bytes (more than two wraps), all times around 0, the wrap and both ends of 64 bits, all command lines to 5 arguments, all 256 bytes of both code pages, all names to 4 of 9 bytes | 10,388 |

The bound of one crash in `file_system_crash` is more than a search limit:
each crash may leak an inode, and with as many crashes as inodes the tree is
stuck with nothing to remove and nothing to create.  Empty files are in
neither of the two runs; the theorems hold for files of any size.  Only `image_file`
switches the deadlock check off: its programs run one command each and end.
`Upload` and `BatchCopy` say in an action of their own where they may stop
(`Rest`, `Exited`), so that stopping anywhere else is a deadlock.

`file_system` and `batch_copy` take up to a minute, the others less than
half of one.

Two programs are enough in `upload` and `image_file` because a program meets
the others only through the dataset or the file: what a third could do to
these between two steps, the second can do, or the other user.  For `Upload`
the theorems do away with the bound.

What the passing runs show:

* `ListsHoldFreeBlocks`, `NoFalseExhaustion`, `ImplementsPool`: the chain
  arithmetic of `AllocBlock` and `FreeBlock` is right; a reload costs one
  block (below) but never shares one, and a free block is out of reach only
  after a read failed.  All of this until the list goes astray; a step in
  which it does is an exit of `ImplementsPool`.
* `CountBracket`: until then `TotalFreeBlock` is never below the number of
  free blocks, so it cannot wrap and the test `TotalFreeBlock > 1` cannot hide
  a chain block; it may be too high, and that is what lets the list go astray.
* `NothingSharedInMemory`: after any mixture of failed creations, reopened
  images and one crash, the free list leads to nobody's blocks, as long as
  `AllocBlock` has loaded chain blocks only.  This is the caller's half of the
  allocators' contract.
* `CrashSafeOutsideWindows`: there are exactly three windows in which a crash
  does more than leak space.  (1) Between the entry of a new file and the
  superblock: the file is linked and its blocks and inode are still free in
  the superblock on the image.  (2) Between `FreeInode` and `removeDirEntry`:
  the entry leads to an inode that will be given to another file.  (3) Between
  the first `FreeBlock` and `FreeInode`: a spill has turned a block of a file
  that is still linked into a chain block.  Leaving out any one of the three
  makes the run fail.
* `ImplementsTree`: seen from the tree, an operation takes effect at one
  write; no subtree is orphaned, no name stands twice in a directory.

* `DoneMeansUploaded`, `FailsForCause`, `NoReplaceNoLoss`,
  `RaceLeavesWhole`: the refusal of the server to allocate a name in use is
  what most of it rests on.  With it no order of check, delete and allocate
  leaves the dataset deleted or empty unless something failed, and a program
  writes only into the dataset it allocated; `upload` skips no step that this
  needs.  One gap is left, between the allocation and the `PUT`: if another
  program with `--replace` takes the dataset in between, the `PUT` goes into
  the new one.  It overwrites it, also when its program was not given
  `--replace`, or, if it is the larger image, is cut short and leaves part of
  an image where the other program has said "Done.".  Both properties name
  this case and nothing else, and fail without it.  A failure after the
  deletion, and the late request of a program that gave up, are the other
  exceptions.
* `EveryFileAccounted`, `EveryDirectoryAccounted`: `cp -r` loses no file
  without a warning, in spite of the ignored error; a directory it may lose,
  when a regular file has its name and nothing below it was copied (see
  below).  Where names read back as each other's, a copy may still be out of
  reach: an entry made later took a free slot before an older one on the
  path, so that the path leads elsewhere (`Overtaken`); the file is in the
  image, in the directory the path used to lead to.  The run fails without
  this exception.  `GrowsTheTree`: it only adds.
* `SuccessIsWhole`, `FailureIsClean`: a `Create` on its own path leaves all
  or nothing, whichever call fails, except when the removal itself fails.
  A size of more than 2^32 blocks wraps, and succeeds with less.
* `OpenAcceptsWholeImages`: the only files that are not whole and that `Open`
  accepts are those of a `Create` that was killed, failed to remove its
  file, or still runs; `Open` then returns a superblock of zeros, which no
  check catches.
* The properties of `conversions` are equivalences: each says exactly what
  does not come back, within the lengths, sizes and names it is about
  (`FilesReadBack` and `SizesAsAsked` stop where 32 bits wrap, `CopiesReadBack`
  is about names of one kind).  A time is read wrong for 1,000 seconds in every 49.7
  days.  A word after a switch (`cp -r src img:/`) is taken for its value
  and reaches the command all the same, unless a flag follows it or an
  argument stands before it.  A name loses trailing blanks and every byte
  beyond ASCII but 0xC3.

Every property of a passing run is also checked against a mutated definition
of the code (the operators marked "Mutant" next to the definitions they
change), which it must reject.

## 4. Where the code and its descriptions differ

Each is a run that TLC must find violated; the property states what the
quoted text says.

| run | what happens |
|---|---|
| `free_list_lookalike` | once a reload has left the count too high (below), the last free block's old content can be taken for a chain block, and `AllocBlock` hands out and zeroes sectors that are not free data blocks, such as 0 (`alloc.go:23`, `alloc.go:29`).  A removed directory's block is enough, which begins with its inode number (`write.go:63`). |
| `file_system_root` | `rmdir img:/.` passes the check for the root, frees its block and zeroes its inode (`write.go:485`). |
| `file_system_names` | `"a "` is created beside `"a"` and reads back as `"a"` (`write.go:154`). |

Others, which a passing run or the model itself shows:

* `AllocBlock` returns the last entry of a reloaded list and keeps the chain
  block nowhere (`alloc.go:35`): one block in 51 is lost, and
  `TotalFreeBlock`, the "total free data blocks" (`types.go:107`), counts it.
  `CountBracket` is exact about how far the count is off.
* A creation that fails after `AllocInode` leaves `TotalFreeInode` one too
  low (`alloc.go:68`, `types.go:108`); `CountShortByFailures` is exact about
  it.
* `MkDir` leaves the parent's link count alone (`write.go:90`), while
  `doc/ufsdisk-spec.md:189` counts the child directories.
* The comment at `alloc.go:93` says that the scan will "also refill cache
  while we're here", and it returns with the cache empty (`AllocScanned`), so
  every allocation after it scans again.
* `MkDirAll` "creates a directory" (`write.go:97`) also where a regular file
  stands, and `mkdir -p` then prints "created" (`main.go:546`).
* IBM1047 does not convert 0x85 and 0xF7 back to what they were
  (`ebcdic.go:180-284`); the header of `ebcdic.go` claims it for printable
  ASCII only, where it holds.
* `upload` prints the number of blocks as the number of tracks
  (`upload.go:115`); what it asks for are tracks (`Tracks`).

## 5. Fairness and liveness

`Upload` assumes weak fairness of `Receive` for each program (a program that
has an answer goes on: nothing else runs in it) and of "served or broken":
every request is answered in the end or its connection fails.  The code sets
no timeout and relies on exactly this: `http.DefaultClient` returns when the
server answers or the connection breaks, which TCP keep-alive makes it do
when the server is gone.  Fairness of the answer alone is not assumed, and
nothing is assumed of `Start`, of other users, or of requests whose program
has given up.  Under it `EveryUploadEnds`: no answer leads a program to wait
for what will not come.

`BatchCopy` assumes weak fairness of the program's steps, as a single
sequential program that waits for nobody has.  Under it `CopyEnds`: the
recursion through `cpDirToImage` and `MkDirAll` ends for every image, every
target and every way names read back.

The other specifications state no fairness.  An operation of `FileSystem` is
a bounded sequence of steps, which the absence of deadlocks and the bounds
on its local variables cover; that `RemoveAll` ends is not checked
separately.

## 6. What is proved

`FreeListProofs`, for every geometry, every cache size from 2 on, every
pattern of I/O faults and whatever callers write, until `AllocBlock` loads its
cache from a sector that holds no list (`astray`):

* `FreeListTypes`, `FreeListsSound`: `TypeOK` and `ListsHoldFreeBlocks`.
  Neither is inductive.  `ListInv` adds that a block in use is in no list's
  place (`UsedBlocksInert`; otherwise giving it back could add a list out of
  nowhere) and, while `Create` runs, that everything listed lies below the
  next block to enter and that the chain block being filled shares nothing
  with the cache or with written chains (`Formatting`).
* `FreeCountBracketed`: `CountBracket`, by counting: an allocation takes one
  block off the count and one or two off the free blocks.
* `FreeListImplementsPool`: the initial states map to those of `BlockPool`
  and each step, up to the one in which the list goes astray, to `Take`,
  `Drop`, `Give` or a stutter.

* `NeverFalselyExhausted`: `NoFalseExhaustion`.  That a free block can be
  reached is a statement about a chain of sectors of any length; instead of
  an induction over it, the inductive invariant `ReachInv` carries the chain
  as a function `st` on `1 .. n` (`Linked`), whose first sector is the bottom
  of the cache and each other the first entry of the one before.  `AllocBlock`
  takes one off the front or none, `FreeBlock` puts one there, and
  `buildFreeBlockChain` adds one at the end (`Extending`).  Two facts carry
  the proof.  A list that leads on to another has two entries or more (a cache
  of one entry would not do: hence `MaxFreeBlock >= 2`), so the entry handed
  out after a reload is never the next chain block.  And a chain block at the
  top of the cache is always reloaded, for `CountBracket` makes
  `TotalFreeBlock` cover it and what it lists.  A failed write loses a block
  but breaks no chain; a failed read does, which is why the property asks for
  `misread = 0`.

And on a disk without faults:

* `SafeWithAnyPayload`: `SafeUntilFirstReload`.  While `Create` runs the
  invariants above hold, since callers write nothing yet.  Then `Clean(T)`
  keeps the set `T` of the true chain blocks apart from the look-alikes: as
  soon as there is one, one is at the bottom of the cache, and the count is
  exact, so a count above 1 with one block in the cache means that this block
  is a true chain block.

`InodeTableProofs`, for every list and cache size, without hypotheses beyond
the geometry:

* `InodeTableTypes`, `AllocInodeSound`, `InodeCountDrift`: `TypeOK`,
  `IssuesFreeInodes` and `CountShortByFailures`, from `InodeInv`, which adds
  that inodes 1 and 2 are never free and that the cache holds numbers below
  the cursor while it is seeded.

`FileSystemProofs`, for every image with a data block, every inode list, every
cache of two entries or more, every size of directories and files, every set
of names and every number of crashes, up to the `AllocBlock`, if the program
comes to one, that loads a block which is no chain block (`LoadWords`), and
under the hypothesis `DotNames = {}` (nobody removes `.` or `..`; the run
`file_system_root` shows that the root itself goes otherwise):

* `TypesHold`, `NothingIsShared`, `ContentsStayIntact`, `CountCovers`,
  `CrashSafe`: `TypeOK`, `NothingSharedInMemory`, `ContentsIntact`,
  `CountCoversFreeList` and `CrashSafeOutsideWindows`, all of them from
  `InvariantHolds`: `IInv` of `FileSystemInvariant` is inductive.  TLC agrees
  with `IInv` and `NamesSound` on the instances of both runs.

None of the five is inductive.  `IInv` is made of these parts:

* `SuperSound`, of the superblock in memory and of the one on the image: a
  block stands once in the list (`ListedOnce`), only the first block of a
  list leads on to another (`FirstLeads`), and a list read from a chain block
  that leads on has a second block (`Longer`); so what a reload hands out is
  never the next chain block.  A new image has such a list because `Create`
  fills chunk after chunk (`ChunkNumber`, `ChunksApart`, `InitFree`).
* `TreeSafe`, of the inodes in the tree but the one a removal has begun to
  take apart (`Whole`): entries lead to inodes in use and no two to the same;
  blocks are intact, in one file only, in neither free list.  The free list
  on the image is the older one; it stays apart from the tree because a
  removal flushes before another operation begins, and a creation links its
  file last: only between the entry and the flush do they meet.
* `HandSafe` and `CreateSound`: what the running creation has taken belongs to
  nobody, and is written the way its inode will say.
* `RemoveSound`: the frames of `RemoveAll` form a path, each the caller of the
  next; the slots a frame has still to remove (`rest`) are, with the one it is
  at, all its directory has.  This is what makes `RemoveAll` free only
  directories that are empty by then, though it read their entries long
  before.  `StackApart`, no directory below itself, needs that the tree is
  one, which a least set of inodes closed under links gives
  (`ReachedFrom`, `NoCycle`).
* `FreeingSound`: while the blocks of a file are given back, those still to go
  are its last ones, and the file stays readable up to the first spill.

The free blocks a superblock leads to and the inodes paths reach are defined
as least closed sets (`ChainBlocks`, `Reached`), not by recursion: what a step
does to them follows from closure and leastness alone, without an induction
over the length of a chain or path.

`FileTreeProofs`, under the same hypothesis and `NamesKept`, that a name reads
back as it was stored (the code compares a new name with the names it reads,
so that two names that read back the same stand side by side: the run
`file_system_names`):

* `TreeImplemented`: `ImplementsTree`.  The proof reads the tree as a set of
  entries (`Named`: directory, name and inode) without the one whose inode is
  being removed (`TreeRead`).  Most steps leave both (`Untouched`, `SameTree`).
  A removal takes the entry out of the tree when the first block is about to
  be freed (`StillStep`), long before the slot is cleared (`RemovedTree`); a
  crash in between puts it back, and nothing else can have taken its name
  meanwhile.  A creation adds it with its slot or with the block that holds
  it (`AddedTree`).
* `NamesStaySound`: `NamesSound`, by which `IInv` has to be strengthened: the
  name of a running creation, checked before anything was written, is still
  not taken when its entry is.

`BatchCopyProofs`, for every tree on the host, every sound image with whatever
slots free, every target, every pattern of failures and every way names read
back:

* `CopyTypes`, `EveryFileAlwaysAccounted`, `EveryDirectoryAlwaysAccounted`:
  `TypeOK`, `EveryFileAccounted` and `EveryDirectoryAccounted`, from `CopyInv`,
  on which TLC agrees for the instance of the run.
* `CopyGrowsTheTree`: `GrowsTheTree`, of which a step is one that creates an
  entry (`OnlyCreates`, `LinksOne`).

The two accounts speak of the end of the walk; `CopyInv` says what has become
of every file and directory at any time.  A node is `Waiting` if it or one
above it is `Pending`: an entry some activation has still to copy, or the one
the walk is at.

* `FilesKept`: a file has arrived, has a warning (or one above it has), or
  waits.  `DirectoriesKept`: so has a directory, or else all files below it
  have a warning or wait; this is the way of a directory whose `MkDirAll`
  reported success over a file that is in its place.  `Accounts` names what a
  step has to show.  Opening a directory is where it stops waiting and its
  children begin to (`NextBelow`); a file that is copied stops waiting
  alone, for nothing is below it, and shows that the directories it is in are
  there (`DirectoriesAbove`).
* `Placed`: an activation has the image path that belongs to its host
  directory, and `cpDirToImage` is called only where the directory is there, a
  file blocks it, or it is the source.  `LastMade` carries that through
  `MkDirAll`: the component made last leads somewhere, or reads back
  differently from what was looked for.
* What a path leads to changes only by an entry in an earlier slot
  (`HitsKept`): a path leads where it led or is `Overtaken` (`PathsStay`), and
  what is overtaken stays so (`OvertakenStays`), because slots and entries
  are never given up.  So what has arrived stays (`LeftBehindStays` for
  directories whose path was overtaken since), and so does what blocks a path
  (`BarredStays`).  This needs `Sound`: an entry in a directory that is made
  later would change paths.

`Walk` and `HostPath` are recursive functions.  That functions with these
equations exist is proved first, by least counterexamples in the place of an
induction: over the numbers (`WalkIs`), and over the tree on the host
(`HostPathIs`), which is why the assumption that it has no loops says that
every set of nodes has one whose parent is not in it.

`UploadProofs`, for every set of programs and any amount of interference:

* `UploadTypes`, `UploadDone`, `UploadFailure`, `UploadKeepsOthers`,
  `UploadRace`: the type invariant and the safety properties of the run
  `upload`.  The inductive invariant is `Shape /\ Knowledge`.  `Shape` says
  that a program waits for exactly one request or answer and which answers
  fit it, and that a program which knows of its allocation has the dataset or
  was robbed of it; `NoReplaceNoLoss` follows from this alone.  `Knowledge` says what a program may rely on: while nobody else
  changes the dataset, it owns it from the answer to `POST` on (`Owns`), and
  if the server did not fail it either, the answers it has are true
  (`Informed`).  The others are not inductive without it, as they speak of
  the end of a run only.  A change by one program puts all the
  others into `disturbed`, so that the invariant is kept by each program on
  its own.  `UploadRace` needs `Racing` besides: as long as nothing fails,
  whoever found or made the name free is about to allocate it, whoever
  allocated it is about to fill it, and a `PUT` meets a dataset that some
  program allocated, so that only a robbed program's `PUT` can be cut short.

`ImageProofs`, for any number of programs and any sizes:

* `FailuresAlwaysClean`: `FailureIsClean`, from `CleanInv`, which adds that
  nobody is inside `Create` before the first `os.Create`.
* `ImageTypesHold`, `SuccessAlwaysWhole`, `OpenAlwaysAcceptsWhole`: `TypeOK`,
  `SuccessIsWhole` and `OpenAcceptsWholeImages`, from `ImageInv`, on which TLC
  agrees for the instance of the run.

`SuccessIsWhole` speaks of the end of `Create` only, and `Open` meets files at
any time, so `ImageInv` says where a file stands in between, as long as no two
`Create`s were mixed:

* `Stage`: the file of a `Create` that nobody fell into is empty, then blank,
  then what the first writes of `FormatWrites` make of a blank volume (`Laid`),
  then that with the root inode, then with the root directory.  `LaidNext` and
  the lemmas after it are one write each: they need that chain blocks have
  sectors of their own (`ChainApart`), that the root block is none of them, and
  that all lie within the volume, which `LayoutRoom` takes from `LayoutFits`.
* `Finished`: with the superblock the last stage is `Whole`
  (`FinishedIsWhole`).  The chunks `Create` cuts the data blocks into
  (`ChunkIn`, `ChunkCovers`, `ChunkSame`) are disjoint, leave out the root block
  and nothing else, and each chain block but the one in the superblock stands
  first in the chunk before its own.  With chain blocks of one entry the first
  of them would be the block `Create` takes for the root, hence the assumption
  `MaxFreeBlock >= 2` (the code has 51).
* `Sound`: every file with a boot block is whole or belongs to a `Create` that
  has not returned success (`Claimed`).  This holds of every file, also of one
  without a name that a program still has open, and of a program between the
  two reads of `Open`; so checking the boot block alone, as `Open` does, is
  enough wherever no `Create` was cut short.

and for every block size, percentage and volume that `Create` accepts, and
however the floating-point share is rounded:

* `LayoutFits`: at least two inode blocks and three data blocks, all areas
  within the volume and no count wraps.  It is what `ImageFile` relies on
  when it takes any value of `DataStarts`, and what keeps
  `totalBlocks - dataBlockStart` (`image.go:95`) from wrapping.

`ConversionProofs`, for every size of words, blocks, tracks and name fields:

* `FilesAlwaysReadBack`, `TimesAlwaysReadBack`, `SizesAlwaysAsAsked`:
  `FilesReadBack`, `TimesReadBack` and `SizesAsAsked`.  The inductive part is
  small (`call` is the result of a conversion of its arguments); the work is in
  the arithmetic of division and remainder (`Division`, `QuotientAtMost`,
  `NoWrap` and the lemmas after them).  `SizesAsAsked` needs
  `BlockAssumption`: with blocks of more than half of what a word holds,
  `parseSize` would wrap below 2^32 blocks, and on a track shorter than a block
  no number of tracks would do; the code's 8192 bytes are far from both
  (`image.go:34`, `upload.go:189`).
* `BytesAlwaysReadBack`, `NamesAlwaysReadBack`, `CopiesAlwaysReadBack`:
  `BytesReadBack`, `NamesReadBack` and `CopiesReadBack`, from two facts about
  the tables that the prover computes from them (`TablesReadBack`,
  `NameBytes`).  `NameSurvives` shows where `Decode` stops, for names and fields
  of any length (`GreatestOf`).
* `ArgumentsAlwaysUnderstood`: `ArgumentsUnderstood` for any number of
  arguments, in both directions.  `InOrderIs` gives what the loop of
  `reorderArgs` collects (the positions of a set in increasing order, each once,
  which determines the list: `SortedIsUnique`), `ValuesAre` and `ParseIs` what
  the flag package takes and where it stops.  A word that goes with a flag is a
  value in the new order exactly if it was one in the old (`ValuesKept`), and no
  argument becomes one unless the last option lacks its own (`ValuesAll`).  What
  is meant is then read if no word of a switch was moved (`NoneMisled`) or
  nothing changes places (`NothingMoves`, `InPlace`).  Otherwise a flag is lost
  (`FlagLost`), an argument comes too late (`WordsSwapped`), or the missing value
  goes unreported (`LackHidden`).

The assumptions on the constants, each named in the module that declares
them, are evaluated by TLC on every run.

Only model-checked: that uploads and copies end (`EveryUploadEnds`,
`CopyEnds`), for liveness and `ENABLED` are out of the prover's reach; every
other property of a passing run has a theorem.  What a recursion returns
(`Walk` in `BatchCopy`, the two loops in `CommandLine`) is proved with the least
argument for which it would fail (`MinOf`, `LeastOf`), since the prover cannot
use the library's induction theorems.

## 7. What is not modelled

* Reports (`info`, `ls`), build files, tests: they change nothing.
* Two programs that change one open image: nothing keeps them apart, and two
  superblocks in memory issue the same block; there is no property of the
  code to check.
* I/O errors inside the operations of `write.go`.  Each returns at once
  without a flush, as `FailCreate` does, or as a crash does for a program
  that exits; the allocators' own I/O errors are in `FreeList` and
  `InodeTable`.
* Torn sector writes, and writes that reach the disk out of order: the
  program is killed, the host is not.
* Where `upload` gets host, user and password from (`loadDotEnv`,
  `envOrDefault`), and the text of error messages.
* The splitting of strings: `splitPath`, `parseImagePath`, `parseImgPath`,
  `filepath_base`, the list of text extensions, and the digits of
  `parseSize`.
* A `V0` image: `Open` reads its boot block, and no operation depends on the
  version.
