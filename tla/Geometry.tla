------------------------------ MODULE Geometry ------------------------------
(***************************************************************************)
(* The layout Create (pkg/ufs/image.go) chooses for an image of `total'    *)
(* blocks of `blkSize' bytes: boot block, superblock, inode blocks, data.  *)
(***************************************************************************)
EXTENDS Integers

MinBlockSize == 512
MaxBlockSize == 8192
InodeSize    == 128
IListSector  == 2
MinBlocks    == 8

ValidBlockSize(blkSize) ==
    /\ blkSize \in MinBlockSize .. MaxBlockSize
    /\ blkSize % 512 = 0

InodesPerBlock(blkSize) == blkSize \div InodeSize

\* Percentages out of range are replaced, not refused.  Whole ones only here.
Percentage(inodePct) == IF inodePct \in 1 .. 50 THEN inodePct ELSE 10

\* What math.Round may make of total / ipb * pct / 100 in floating point: a
\* nearest integer, either of them at a tie.
Rounded(total, ipb, pct) ==
    {q \in 0 .. total : /\ 200 * ipb * q <= 2 * total * pct + 100 * ipb
                        /\ 2 * total * pct <= 200 * ipb * q + 100 * ipb}

InodeBlocks(total, ipb, pct) ==
    {IF q < 2 THEN 2 ELSE q : q \in Rounded(total, ipb, pct)}

DataStarts(total, ipb, pct) ==
    {IListSector + n : n \in InodeBlocks(total, ipb, pct)}

=============================================================================
