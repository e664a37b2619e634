------------------------------ MODULE FileTree ------------------------------
(***************************************************************************)
(* What the file operations of pkg/ufs promise: a tree of named files and  *)
(* directories that grows and shrinks by one leaf at a time.               *)
(***************************************************************************)
EXTENDS Naturals

CONSTANTS Root, Nodes, Names

VARIABLE tree   \* the entries: parent, name, node and its kind

Entries == [dir : Nodes, name : Names, ino : Nodes, kind : {"reg", "dir"}]

Directories == {Root} \cup {e.ino : e \in {f \in tree : f.kind = "dir"}}

Init == tree = {}

\* A new node under a directory, by a name that is not taken there.
Link(e) ==
    /\ e.dir \in Directories
    /\ e.ino \notin {Root} \cup {f.ino : f \in tree}
    /\ \A f \in tree : f.dir = e.dir => f.name # e.name
    /\ tree' = tree \cup {e}

\* A node that has no children goes.
Unlink(e) ==
    /\ \A f \in tree : f.dir # e.ino
    /\ tree' = tree \ {e}

Next ==
    \/ \E e \in tree' \ tree : e \in Entries /\ Link(e)
    \/ \E e \in tree \ tree' : Unlink(e)

Spec == Init /\ [][Next]_tree

=============================================================================
