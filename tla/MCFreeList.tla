----------------------------- MODULE MCFreeList -----------------------------
(***************************************************************************)
(* Values of the constants of FreeList for TLC.                            *)
(***************************************************************************)
EXTENDS FreeList

\* Text, whose first word is none of 1 .. 51, and the first block of a
\* directory whose inode number is MaxFreeBlock: its first word, the inode
\* number of ".", reads as an entry count, and the words that follow, the
\* name "." padded with NULs, as the entries.
DotName == 20
TextOrDirectory == {<<>>, [i \in 1 .. MaxFreeBlock |-> IF i = 1 THEN DotName ELSE 0]}

=============================================================================
