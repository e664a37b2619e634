---------------------------- MODULE MCBatchCopy ----------------------------
(***************************************************************************)
(* Values of the constants of BatchCopy for TLC: a source directory with a *)
(* file a, a directory b that holds a directory t with a file c, and an    *)
(* empty directory d.                                                      *)
(***************************************************************************)
EXTENDS BatchCopy

Kinds   == [n \in HostNodes |-> IF n \in {"src/a", "src/b/t/c"} THEN "reg" ELSE "dir"]
Parents == [n \in HostNodes |->
               CASE n = "src" -> NoNode [] n = "src/b/t" -> "src/b" [] n = "src/b/t/c" -> "src/b/t"
                 [] OTHER -> "src"]
Called  == [n \in HostNodes |->
               CASE n = "src/a" -> "a"   [] n = "src/b" -> "b" [] n = "src/b/t/c" -> "c"
                 [] n = "src/d" -> "d"   [] OTHER -> "t"]

\* To the root, to a directory that may exist, and to one below it.
Destinations == {<<>>, <<"b">>, <<"b", "t">>}

Kept == [n \in Names |-> n]
\* b and d are names that read back as a, as two names do whose letters are
\* not in the code page.
Blurred == [n \in Names |-> IF n \in {"b", "d"} THEN "a" ELSE n]

\* d reads back as b, t as c.
Mistaken == [n \in Names |-> CASE n = "d" -> "b" [] n = "t" -> "c" [] OTHER -> n]

Maps == {Kept, Blurred, Mistaken}

\* An empty image, and images where names of the source are taken: by
\* files, by directories, and with a free slot before them.
OldImages ==
    { <<>>,
      <<Entry(InodeRoot, 1, "b", 3, "reg", NoNode)>>,
      <<Entry(InodeRoot, 1, "b", 3, "dir", NoNode), Entry(3, 1, "c", 4, "reg", NoNode)>>,
      <<Entry(InodeRoot, 1, "a", 3, "dir", NoNode), Entry(InodeRoot, 2, "d", 4, "reg", NoNode)>>,
      <<Entry(InodeRoot, 2, "b", 3, "dir", NoNode), Entry(3, 1, "t", 4, "reg", NoNode)>>,
      <<Entry(InodeRoot, 2, "b", 3, "dir", NoNode), Entry(3, 2, "t", 4, "dir", NoNode)>> }

=============================================================================
