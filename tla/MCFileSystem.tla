---------------------------- MODULE MCFileSystem ----------------------------
(***************************************************************************)
(* Values of the constants of FileSystem for TLC.                          *)
(***************************************************************************)
EXTENDS FileSystem

\* Names that are read back as they were given.
Kept == [n \in Names |-> n]

\* "a " loses its trailing blank when it is read back.
BlankTrimmed == [n \in Names |-> IF n = "a " THEN "a" ELSE n]

\* Names are interchangeable.
NameSymmetry == Permutations(Names)

=============================================================================
