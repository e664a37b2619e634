----------------------------- MODULE BatchCopy -----------------------------
(***************************************************************************)
(* ufsd-utils cp from the host into an image and mkdir -p: cpHostToImage,  *)
(* cpDirToImage and cmdMkdir (cmd/ufsd-utils/main.go), with MkDirAll,      *)
(* ResolvePath and the checks of MkDir and CreateFile (pkg/ufs/write.go)   *)
(* below them.                                                             *)
(*                                                                         *)
(* One step creates at most one file or directory; FileSystem says what    *)
(* such a creation writes.  A path is the sequence of its components, none *)
(* of them "." or "..".                                                    *)
(***************************************************************************)
EXTENDS Naturals, SequencesExt

CONSTANTS
    HostNodes,    \* files and directories of the host
    HostKind,     \* of each host node: "reg" or "dir"
    HostParent,   \* the directory it is in; NoNode for the uppermost one
    HostName,     \* its name in there
    Targets,      \* paths in the image to copy to or to make
    Names,        \* names in these paths, on the host and in the image
    NameMaps,     \* what names are read back as, once stored
    Images,       \* the images to begin with
    MaxFailures   \* bound on full volumes, full directories, unreadable files

InodeRoot == 2
NoNode    == "none"   \* of entries that were in the image before

\* An entry of the image: its directory and slot in there, the name it reads
\* back as, its inode, and the host node it was copied from.
Entry(dir, slot, name, ino, kind, from) ==
    [dir |-> dir, slot |-> slot, name |-> name, ino |-> ino, kind |-> kind, from |-> from]

Entries == [dir : Nat, slot : Nat \ {0}, name : Names, ino : Nat, kind : {"reg", "dir"},
            from : HostNodes \cup {NoNode}]

\* An image as the other commands leave it: every entry has an inode and a
\* slot of its own and stands in a directory, where removed entries have left
\* slots free.
Sound(old) ==
    /\ \A p \in DOMAIN old :
          /\ old[p].ino \in (InodeRoot + 1) .. (InodeRoot + Len(old))
          /\ \/ old[p].dir = InodeRoot
             \/ \E q \in DOMAIN old : old[q].ino = old[p].dir /\ old[q].kind = "dir"
    /\ \A p, q \in DOMAIN old :
          /\ old[p].ino = old[q].ino => p = q
          /\ old[p].dir = old[q].dir /\ old[p].slot = old[q].slot => p = q

\* The entries of an image to begin with are listed slot by slot.
BySlot(old) ==
    \A p, q \in DOMAIN old : p < q /\ old[p].dir = old[q].dir => old[p].slot < old[q].slot

ASSUME BatchCopyAssumption ==
    /\ NoNode \notin HostNodes
    /\ HostKind \in [HostNodes -> {"reg", "dir"}]
    /\ HostParent \in [HostNodes -> HostNodes \cup {NoNode}]
    /\ \A n \in HostNodes : HostParent[n] \in HostNodes => HostKind[HostParent[n]] = "dir"
    /\ \A S \in SUBSET HostNodes :   \* no directory is below itself
          S # {} => \E n \in S : HostParent[n] \notin S
    /\ HostName \in [HostNodes -> Names]
    /\ NameMaps \subseteq [Names -> Names]
    /\ Targets \subseteq Seq(Names)
    /\ Images \subseteq Seq(Entries) /\ \A old \in Images : Sound(old) /\ BySlot(old)
    /\ MaxFailures \in Nat

VARIABLES
    stored,    \* how names read back
    source,    \* what cp copies; NoNode for mkdir -p
    target,    \* the image path to copy to or to make
    image,     \* entries of all directories, in the order they were added
    pc,        \* what the program does next
    stack,     \* activations of cpDirToImage: host directory, image path,
               \* entries of it still to copy
    making,    \* the path MkDirAll makes
    part,      \* how many of its components are there
    child,     \* the host directory it is for, NoNode for the activation's own
    warned,    \* host nodes a warning was printed for
    failures   \* failures so far

given == <<stored, source, target>>
vars == <<given, image, pc, stack, making, part, child, warned, failures>>

Ended == pc \in {"done", "died"}

Children(n) == {m \in HostNodes : HostParent[m] = n}
Top == Last(stack)

-----------------------------------------------------------------------------
\* The entry of directory d that reads back as name, the one in the first
\* slot if there are several; 0 if there is none, or d is no directory.
Hits(d, name) == {p \in DOMAIN image : image[p].name = name /\ image[p].dir = d}
First(hits)   == CHOOSE p \in hits : \A q \in hits : image[p].slot <= image[q].slot
Lookup(d, name) ==
    IF Hits(d, name) = {} THEN 0 ELSE image[First(Hits(d, name))].ino

\* The inodes that the components of a path lead to, one after the other.
Walk(path) ==
    LET reached[k \in 0 .. Len(path)] ==
            IF k = 0 THEN InodeRoot ELSE Lookup(reached[k - 1], path[k])
    IN reached

ResolvePath(path) == Walk(path)[Len(path)]

IsDir(i) ==
    \/ i = InodeRoot
    \/ \E p \in DOMAIN image : image[p].ino = i /\ image[p].kind = "dir"

\* Mutant: the name not looked for.
ParentOnly(path) == path # <<>> /\ IsDir(ResolvePath(Front(path)))

\* The checks of MkDir and CreateFile.
MayCreate(path) ==
    /\ path # <<>>
    /\ IsDir(ResolvePath(Front(path)))
    /\ Lookup(ResolvePath(Front(path)), Last(path)) = 0

\* The first free slot of a directory, at its end if no entry of it was
\* removed.
SlotsOf(d)  == {image[p].slot : p \in {q \in DOMAIN image : image[q].dir = d}}
FreeSlot(d) == Min((1 .. Len(image) + 1) \ SlotsOf(d))

Create(path, kind, from) ==
    /\ MayCreate(path)
    /\ LET dir == ResolvePath(Front(path))
       IN image' = Append(image, Entry(dir, FreeSlot(dir), stored[Last(path)],
                                       InodeRoot + Len(image) + 1, kind, from))
    /\ failures' = failures

Fail ==
    /\ failures < MaxFailures
    /\ failures' = failures + 1

\* A creation returns an error: a check fails, or there is no space.
CreateFails(path) ==
    /\ image' = image
    /\ IF MayCreate(path) THEN Fail ELSE failures' = failures

-----------------------------------------------------------------------------
\* The path a single file gets: a path that is / or ends in / has the name
\* of the file appended.
PathsFor(n, path) == {Append(path, HostName[n])} \cup ({path} \ {<<>>})

Init ==
    /\ stored \in NameMaps
    /\ image \in Images
    /\ source \in HostNodes \cup {NoNode}
    /\ \E path \in Targets :
          target \in IF source \in HostNodes /\ HostKind[source] = "reg"
                    THEN PathsFor(source, path) ELSE {path}
    /\ pc = IF source = NoNode THEN "parts"
            ELSE IF HostKind[source] = "dir" THEN "open" ELSE "single"
    /\ stack = <<>>
    /\ making = target
    /\ part = 0
    /\ child = source
    /\ warned = {}
    /\ failures = 0

\* A single file, without -r.
CopySingle ==
    /\ pc = "single"
    /\ \/ Create(target, "reg", source) /\ pc' = "done"
       \/ CreateFails(target) /\ pc' = "died"
       \/ Fail /\ pc' = "died" /\ image' = image
    /\ UNCHANGED <<given, stack, making, part, child, warned>>

\* cpDirToImage is called for child, whose path in the image is making; a
\* directory that cannot be read ends the program.
OpenDirectory ==
    /\ pc = "open"
    /\ \/ /\ stack' = Append(stack, [node |-> child, path |-> making, rest |-> Children(child)])
          /\ pc' = "parts"
          /\ failures' = failures
       \/ Fail /\ pc' = "died" /\ stack' = stack
    /\ part' = 0
    /\ child' = NoNode
    /\ UNCHANGED <<given, image, making, warned>>

\* MkDirAll, for the next component: whatever the path so far leads to will
\* do; if it leads nowhere, it is made a directory.
MakePart ==
    /\ pc = "parts"
    /\ part < Len(making)
    /\ LET next == SubSeq(making, 1, part + 1)
       IN IF ResolvePath(next) # 0
          THEN part' = part + 1 /\ UNCHANGED <<image, pc, failures, warned>>
          ELSE \/ /\ Create(next, "dir", child)
                  /\ part' = part + 1
                  /\ UNCHANGED <<pc, warned>>
               \/ /\ CreateFails(next)
                  /\ pc' = IF stack = <<>> THEN "died" ELSE "entries"
                  /\ warned' = warned \cup ({child} \ {NoNode})
                  /\ part' = part
    /\ UNCHANGED <<given, stack, making, child>>

\* MkDirAll returns nil, to mkdir -p or to cpDirToImage.
MadeAll ==
    /\ pc = "parts"
    /\ part = Len(making)
    /\ pc' = IF stack = <<>> THEN "done" ELSE IF child = NoNode THEN "entries" ELSE "open"
    /\ UNCHANGED <<given, image, stack, making, part, child, warned, failures>>

PathTo(n) == Append(Top.path, HostName[n])
Took(n)   == stack' = Front(stack) \o <<[Top EXCEPT !.rest = @ \ {n}]>>

\* Mutant: the count of components not reset.
CopyDirectoryStale(n) ==
    /\ pc = "entries"
    /\ n \in Top.rest /\ HostKind[n] = "dir"
    /\ Took(n)
    /\ pc' = "parts" /\ making' = PathTo(n) /\ child' = n
    /\ UNCHANGED <<given, image, part, warned, failures>>

\* The next entry is a directory.
CopyDirectory(n) ==
    /\ pc = "entries"
    /\ n \in Top.rest /\ HostKind[n] = "dir"
    /\ Took(n)
    /\ pc' = "parts" /\ making' = PathTo(n) /\ part' = 0 /\ child' = n
    /\ UNCHANGED <<given, image, warned, failures>>

\* Mutant: no warning for a file that could not be created.
CopyFileSilently(n) ==
    /\ pc = "entries"
    /\ n \in Top.rest /\ HostKind[n] = "reg"
    /\ Took(n)
    /\ \/ Create(PathTo(n), "reg", n) /\ warned' = warned
       \/ CreateFails(PathTo(n)) /\ warned' = warned
    /\ UNCHANGED <<given, pc, making, part, child>>

\* The next entry is a file: read, create, or warn and go on.
CopyFile(n) ==
    /\ pc = "entries"
    /\ n \in Top.rest /\ HostKind[n] = "reg"
    /\ Took(n)
    /\ \/ Create(PathTo(n), "reg", n) /\ warned' = warned
       \/ CreateFails(PathTo(n)) /\ warned' = warned \cup {n}
       \/ Fail /\ image' = image /\ warned' = warned \cup {n}
    /\ UNCHANGED <<given, pc, making, part, child>>

\* Mutants: the end of the first activation not noticed; it begins again.
ReturnTooFar ==
    /\ pc = "entries" /\ Top.rest = {}
    /\ stack' = Front(stack)
    /\ UNCHANGED <<given, image, pc, making, part, child, warned, failures>>
NeverReturns ==
    /\ pc = "entries" /\ Top.rest = {}
    /\ stack' = Front(stack)
    /\ pc' = IF Len(stack) = 1 THEN "open" ELSE "entries"
    /\ child' = source /\ making' = target
    /\ UNCHANGED <<given, image, part, warned, failures>>

Return ==
    /\ pc = "entries"
    /\ Top.rest = {}
    /\ stack' = Front(stack)
    /\ pc' = IF Len(stack) = 1 THEN "done" ELSE "entries"
    /\ UNCHANGED <<given, image, making, part, child, warned, failures>>

\* The program has ended.
Exited == Ended /\ UNCHANGED vars

Step ==
    \/ CopySingle \/ OpenDirectory \/ MakePart \/ MadeAll \/ Return
    \/ \E n \in HostNodes : CopyDirectory(n) \/ CopyFile(n)

Next == Step \/ Exited

Spec == Init /\ [][Next]_vars

\* The program runs until it ends.
FairSpec == Spec /\ WF_vars(Step)

-----------------------------------------------------------------------------
TypeOK ==
    /\ stored \in NameMaps /\ source \in HostNodes \cup {NoNode} /\ target \in Seq(Names)
    /\ image \in Seq(Entries)
    /\ pc \in {"single", "open", "parts", "entries", "done", "died"}
    /\ pc = "entries" => stack # <<>>
    /\ stack \in Seq([node : HostNodes, path : Seq(Names), rest : SUBSET HostNodes])
    /\ making \in Seq(Names) /\ part \in 0 .. Len(making)
    /\ child \in HostNodes \cup {NoNode} /\ warned \subseteq HostNodes
    /\ failures \in 0 .. MaxFailures

\* What is copied: the nodes above a node, itself among them, those below,
\* and where a node of the source belongs in the image.
Upwards(S) == \A m \in S : HostParent[m] \in S \cup {NoNode}
Above == [n \in HostNodes |->
             {a \in HostNodes : \A S \in SUBSET HostNodes : n \in S /\ Upwards(S) => a \in S}]
Below(n) == {m \in HostNodes : n \in Above[m]}
Copied   == {m \in HostNodes : source \in Above[m]}
HostPath[n \in HostNodes] ==
    IF n = source \/ HostParent[n] = NoNode THEN target
    ELSE Append(HostPath[HostParent[n]], HostName[n])

Reported(n) == Above[n] \cap warned # {}

Faithful == \A name \in Names : stored[name] = name

\* Along a path, an entry made by cp stands in front of an older one that
\* reads the same, in a slot that was free: the path leads elsewhere now.
Overtaken(path) ==
    /\ ~Faithful
    /\ \E k \in 1 .. Len(path) : \E p, q \in Hits(ResolvePath(SubSeq(path, 1, k - 1)), path[k]) :
          p < q /\ image[q].slot < image[p].slot

\* In the directory where n belongs an entry of n's kind, from one of the
\* given nodes, shows what is left of n's name; if the path of the directory
\* was overtaken, the entry is in the image, but maybe not there.
Made(n, froms) ==
    {p \in DOMAIN image : /\ image[p].name = stored[Last(HostPath[n])]
                          /\ image[p].kind = HostKind[n] /\ image[p].from \in froms}
Arrived(n, froms) ==
    /\ HostPath[n] # <<>>
    /\ \E p \in Made(n, froms) : \/ image[p].dir = ResolvePath(Front(HostPath[n]))
                                 \/ Overtaken(Front(HostPath[n]))

\* When cp -r ends without an error, every file of the source is in the
\* image, or there was a warning about it or a directory it is in: no failure
\* gets lost in the recursion, nor in the errors of MkDirAll that are not
\* looked at.  And the file is in the directory its path leads to, unless
\* an entry that was made since and reads back as another name took a free
\* slot before the one the path went through.
EveryFileAccounted ==
    pc = "done" =>
        \A n \in Copied : HostKind[n] = "reg" => Arrived(n, {n}) \/ Reported(n)

\* A directory of the source is where its path leads, or it was made or found
\* there and its path was overtaken since, or it has a warning.  It is
\* missing without one only when every file below it has one (it may have
\* none) and either a regular file stands somewhere on its path, where
\* MkDirAll takes it for the directory, or stood there until the path was
\* overtaken, or the directory is the source itself, the error of whose
\* MkDirAll is not looked at.
Blocked(path) ==
    \E k \in 1 .. Len(path) :
        LET i == ResolvePath(SubSeq(path, 1, k)) IN i # 0 /\ ~IsDir(i)
LeftBehind(path) ==
    /\ Overtaken(path)
    /\ \E p \in DOMAIN image : image[p].kind = "dir" /\ image[p].name = Last(path)

EveryDirectoryAccounted ==
    pc = "done" =>
        \A n \in Copied : HostKind[n] = "dir" =>
            \/ IsDir(ResolvePath(HostPath[n])) \/ Arrived(n, HostNodes \cup {NoNode})
            \/ LeftBehind(HostPath[n])
            \/ Reported(n)
            \/ /\ \A m \in Below(n) : HostKind[m] = "reg" => Reported(m)
               /\ Blocked(HostPath[n]) \/ Overtaken(HostPath[n]) \/ n = source

\* As long as names read back as they are stored, cp only adds to the tree of
\* files, one name at a time that is not taken, and changes nothing that was
\* there.
Tree == {[dir |-> e.dir, name |-> e.name, ino |-> e.ino, kind |-> e.kind] : e \in Range(image)}
Files == INSTANCE FileTree WITH
             Root <- InodeRoot, Nodes <- Nat, Names <- Names, tree <- Tree
GrowsTheTree ==
    [][Faithful => \E e \in Tree' \ Tree : Tree' = Tree \cup {e} /\ Files!Link(e)]_Tree

\* cp ends, whatever fails and however names read back.
CopyEnds == <>Ended

=============================================================================
