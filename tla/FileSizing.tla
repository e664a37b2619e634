----------------------------- MODULE FileSizing -----------------------------
(***************************************************************************)
(* How CreateFile cuts the content of a file into blocks and ReadFileData  *)
(* puts it together again (pkg/ufs/write.go), for lengths up to and beyond *)
(* what 32 bits hold.  The content of a file of len bytes is the sequence  *)
(* 1 .. len; a byte of the result that was never stored is 0.              *)
(***************************************************************************)
EXTENDS MachineWords, Sequences

CONSTANTS
    BlkSize,      \* bytes of a block
    NAddrDirect,  \* blocks addressed in the inode
    IndirectCap   \* blocks addressed by the indirect block

MaxBlocks == NAddrDirect + IndirectCap
Capacity  == MaxBlocks * BlkSize

ASSUME SizingAssumption ==
    /\ BlkSize \in Nat \ {0} /\ NAddrDirect \in Nat /\ IndirectCap \in Nat
    /\ BlkSize < Word32

\* Mutant: the last block forgotten when it is not full.
BlocksForFloor(size) == size \div BlkSize

BlocksFor(size) == Uint32(size + BlkSize - 1) \div BlkSize

Min2(a, b) == IF a < b THEN a ELSE b

\* CreateFile: the size in the inode and the bytes in each block.
FileSize(len) == Uint32(len)
NBlocks(len)  == IF FileSize(len) = 0 THEN 0 ELSE BlocksFor(FileSize(len))
TooLarge(len) == NBlocks(len) > MaxBlocks

Stored(len) ==
    [size   |-> FileSize(len),
     blocks |-> [i \in 1 .. NBlocks(len) |-> Min2(BlkSize, FileSize(len) - (i - 1) * BlkSize)]]

\* ReadFileData: the blocks it reads; those beyond the direct ones only when
\* the file has an indirect block.
BlocksRead(file) ==
    LET direct == Min2(BlocksFor(file.size), NAddrDirect)
    IN {i \in DOMAIN file.blocks :
           \/ i <= direct
           \/ /\ i > NAddrDirect /\ i <= MaxBlocks
              /\ direct * BlkSize < file.size
              /\ (direct + i - NAddrDirect - 1) * BlkSize < file.size}

ReadFileData(file) ==
    LET blocks == BlocksRead(file)
    IN [j \in 1 .. file.size |->
           LET i == (j - 1) \div BlkSize + 1
           IN IF i \in blocks /\ j - (i - 1) * BlkSize <= file.blocks[i] THEN j ELSE 0]

=============================================================================
