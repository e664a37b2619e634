--------------------------- MODULE BatchCopyProofs ---------------------------
(***************************************************************************)
(* What cp from the host and mkdir -p do for every tree on the host, every *)
(* image and every way names read back: nothing is lost without a warning, *)
(* and cp only adds to the image.                                          *)
(***************************************************************************)
EXTENDS BatchCopy, FiniteSetTheorems, SequenceTheorems, TLAPS

-----------------------------------------------------------------------------
(* The inductive invariant.                                                *)

\* Directories and files the walk has still to come to: the entries left of
\* all activations, and the node it is at.
Pending ==
    (UNION {stack[k].rest : k \in DOMAIN stack})
        \cup (IF pc \in {"single", "open", "parts"} THEN {child} \ {NoNode} ELSE {})
Waiting(n) == Above[n] \cap Pending # {}

\* A directory of the source that is there, or whose name is taken by the
\* one that was made for it, or was there until its path was overtaken.
There(n) ==
    \/ IsDir(ResolvePath(HostPath[n])) \/ Arrived(n, HostNodes \cup {NoNode})
    \/ LeftBehind(HostPath[n])

Barred(path) == Blocked(path) \/ Overtaken(path)

\* The activations, and the node the walk is at, have the paths that belong
\* to them; cpDirToImage is called only where MkDirAll reported success.
Placed ==
    /\ \A k \in DOMAIN stack :
          /\ stack[k].node \in Copied /\ HostKind[stack[k].node] = "dir"
          /\ stack[k].path = HostPath[stack[k].node]
          /\ stack[k].rest \subseteq Children(stack[k].node)
    /\ pc = "single" =>
          child = source /\ source \in HostNodes /\ HostKind[source] = "reg" /\ making = target
    /\ pc \in {"single", "done"} => stack = <<>>
    /\ pc = "open" =>
          /\ child \in Copied /\ HostKind[child] = "dir" /\ making = HostPath[child]
          /\ child = source \/ There(child) \/ Barred(making)
    /\ pc = "parts" /\ stack = <<>> => source = NoNode
    /\ pc = "parts" /\ child # NoNode =>
          child \in Copied /\ HostKind[child] = "dir" /\ making = HostPath[child]

\* The component MkDirAll made last leads somewhere, or reads back
\* differently from what was looked for.
LastMade ==
    pc = "parts" /\ part > 0 =>
        LET path == SubSeq(making, 1, part)
        IN \/ ResolvePath(path) # 0
           \/ \E p \in DOMAIN image :
                 /\ image[p].dir = ResolvePath(Front(path)) \/ Overtaken(Front(path))
                 /\ image[p].name = stored[Last(path)]
                 /\ image[p].kind = "dir"

\* Every file that is not in the image has a warning or its turn to come,
\* and so has every directory or else all files below it.
FilesKept ==
    \A n \in Copied : HostKind[n] = "reg" => Arrived(n, {n}) \/ Reported(n) \/ Waiting(n)
DirectoriesKept ==
    \A n \in Copied : HostKind[n] = "dir" =>
        \/ There(n) \/ Reported(n) \/ Waiting(n)
        \/ /\ \A m \in Below(n) : HostKind[m] = "reg" => Reported(m) \/ Waiting(m)
           /\ Barred(HostPath[n]) \/ n = source

BatchTypes == TypeOK /\ Sound(image) /\ (pc = "open" => child \in HostNodes)
CopyInv ==
    /\ BatchTypes
    /\ pc # "died" => Placed /\ LastMade /\ FilesKept /\ DirectoriesKept

-----------------------------------------------------------------------------
(* The tree on the host.                                                   *)

LEMMA Constants ==
    /\ NoNode \notin HostNodes
    /\ HostParent \in [HostNodes -> HostNodes \cup {NoNode}]
    /\ \A n \in HostNodes : HostParent[n] \in HostNodes => HostKind[HostParent[n]] = "dir"
    /\ \A S \in SUBSET HostNodes : S # {} => \E n \in S : HostParent[n] \notin S
    /\ HostName \in [HostNodes -> Names]
    /\ HostKind \in [HostNodes -> {"reg", "dir"}]
BY BatchCopyAssumption

LEMMA AboveIs ==
    /\ \A n \in HostNodes : Above[n] \subseteq HostNodes /\ n \in Above[n] /\ Upwards(Above[n])
    /\ \A n \in HostNodes, S \in SUBSET HostNodes :
          n \in S /\ Upwards(S) => Above[n] \subseteq S
<1>1. ASSUME NEW n \in HostNodes
      PROVE  Above[n] = {a \in HostNodes : \A S \in SUBSET HostNodes :
                            n \in S /\ Upwards(S) => a \in S}
  BY <1>1 DEF Above
<1>2. ASSUME NEW n \in HostNodes
      PROVE  Upwards(Above[n])
  <2> SUFFICES ASSUME NEW m \in Above[n] PROVE HostParent[m] \in Above[n] \cup {NoNode}
    BY DEF Upwards
  <2>1. m \in HostNodes /\ HostParent[m] \in HostNodes \cup {NoNode}
    BY <1>1, Constants
  <2>2. ASSUME NEW S \in SUBSET HostNodes, n \in S, Upwards(S), HostParent[m] # NoNode
        PROVE  HostParent[m] \in S
    <3>1. m \in S
      BY <1>1, <2>2
    <3> QED
      BY <2>2, <3>1 DEF Upwards
  <2> QED
    BY <1>1, <2>1, <2>2
<1> QED
  BY <1>1, <1>2

LEMMA AboveParent ==
    ASSUME NEW n \in HostNodes
    PROVE  /\ HostParent[n] = NoNode => Above[n] = {n}
           /\ HostParent[n] # NoNode =>
                 HostParent[n] \in HostNodes /\ Above[n] = {n} \cup Above[HostParent[n]]
<1> DEFINE up == HostParent[n]
<1>1. up \in HostNodes \cup {NoNode} /\ NoNode \notin HostNodes
  BY Constants
<1>2. Upwards(Above[n]) /\ n \in Above[n] /\ Above[n] \subseteq HostNodes
  BY AboveIs
<1>3. CASE up = NoNode
  <2>1. Upwards({n})
    BY <1>3 DEF Upwards
  <2>2. Above[n] \subseteq {n}
    BY <2>1, AboveIs
  <2> QED
    BY <1>2, <1>3, <2>2
<1>4. CASE up # NoNode
  <2>1. up \in HostNodes /\ up \in Above[up] /\ Upwards(Above[up]) /\ Above[up] \subseteq HostNodes
    BY <1>1, <1>4, AboveIs
  <2>2. Upwards({n} \cup Above[up])
    BY <2>1 DEF Upwards
  <2>3. Above[n] \subseteq {n} \cup Above[up]
    BY <2>1, <2>2, AboveIs
  <2>4. up \in Above[n]
    BY <1>2, <1>4 DEF Upwards
  <2>5. Above[up] \subseteq Above[n]
    BY <1>2, <2>1, <2>4, AboveIs
  <2> QED
    BY <1>2, <1>4, <2>1, <2>3, <2>5
<1> QED
  BY <1>3, <1>4

LEMMA AboveTransitive ==
    ASSUME NEW n \in HostNodes, NEW a \in Above[n]
    PROVE  a \in HostNodes /\ Above[a] \subseteq Above[n]
BY AboveIs

\* What is above a node but not the node itself has a child that is.
LEMMA NextBelow ==
    ASSUME NEW n \in HostNodes, NEW a \in Above[n], a # n
    PROVE  \E m \in Children(a) : m \in Above[n]
<1> DEFINE S == {x \in HostNodes : x = n \/ \E m \in Children(x) : m \in Above[n]}
<1>1. Upwards(Above[n]) /\ n \in Above[n] /\ Above[n] \subseteq HostNodes
  BY AboveIs
<1>2. Upwards(S)
  <2> SUFFICES ASSUME NEW x \in S, HostParent[x] # NoNode PROVE HostParent[x] \in S
    BY DEF Upwards
  <2>1. x \in Above[n]
    <3>1. CASE x = n
      BY <1>1, <3>1
    <3>2. CASE x # n
      <4>1. PICK m \in Children(x) : m \in Above[n]
        BY <3>2
      <4>2. HostParent[m] = x /\ x # NoNode
        BY <4>1, Constants DEF Children
      <4> QED
        BY <1>1, <4>1, <4>2 DEF Upwards
    <3> QED
      BY <3>1, <3>2
  <2>2. HostParent[x] \in HostNodes
    BY Constants
  <2>3. x \in Children(HostParent[x])
    BY DEF Children
  <2> QED
    BY <2>1, <2>2, <2>3
<1>3. Above[n] \subseteq S
  BY <1>2, AboveIs
<1> QED
  BY <1>3

LEMMA FilesAreLeaves ==
    ASSUME NEW n \in HostNodes, NEW a \in Above[n], HostKind[a] = "reg"
    PROVE  a = n
<1> SUFFICES ASSUME a # n PROVE FALSE
  OBVIOUS
<1>1. PICK m \in Children(a) : m \in Above[n]
  BY NextBelow
<1>2. m \in HostNodes /\ HostParent[m] = a /\ a \in HostNodes
  BY <1>1, AboveIs DEF Children
<1> QED
  BY <1>2, Constants

\* Two nodes are not above each other.
LEMMA NoLoop ==
    ASSUME NEW d \in HostNodes, NEW e \in HostNodes, d \in Above[e], e \in Above[d]
    PROVE  d = e
<1> SUFFICES ASSUME d # e PROVE FALSE
  OBVIOUS
<1> DEFINE T == {x \in HostNodes : d \in Above[x] /\ x \in Above[d]}
<1>1. d \in T
  BY AboveIs
<1>2. ASSUME NEW x \in T PROVE HostParent[x] \in T
  <2>1. Above[x] # {x}
    <3>1. x = d => e \in Above[x]
      OBVIOUS
    <3>2. x # d => d \in Above[x]
      OBVIOUS
    <3> QED
      BY <3>1, <3>2
  <2>2. HostParent[x] \in HostNodes /\ Above[x] = {x} \cup Above[HostParent[x]]
    BY <2>1, AboveParent
  <2>3. HostParent[x] \in Above[x]
    BY <2>2, AboveIs
  <2>4. HostParent[x] \in Above[d]
    BY <2>3, AboveTransitive
  <2>5. d \in Above[HostParent[x]]
    <3>1. CASE x # d
      BY <2>2, <3>1
    <3>2. CASE x = d
      <4>1. e \in Above[HostParent[x]]
        BY <2>2, <3>2
      <4> QED
        BY <2>2, <4>1, AboveTransitive
    <3> QED
      BY <3>1, <3>2
  <2> QED
    BY <2>2, <2>4, <2>5
<1>3. T \in SUBSET HostNodes /\ T # {}
  BY <1>1
<1> QED
  BY <1>2, <1>3, Constants

\* The nodes copied.
LEMMA CopiedAre ==
    /\ source \notin HostNodes => Copied = {}
    /\ source \in HostNodes => source \in Copied
    /\ Copied \subseteq HostNodes
    /\ \A n \in Copied : \A m \in Children(n) : m \in Copied /\ m # source /\ HostParent[m] = n
    /\ \A n \in Copied : n # source => HostParent[n] \in Copied /\ n \in Children(HostParent[n])
<1>1. source \notin HostNodes => Copied = {}
  BY AboveIs DEF Copied
<1>2. source \in HostNodes => source \in Copied
  BY AboveIs DEF Copied
<1>3. Copied \subseteq HostNodes
  BY DEF Copied
<1>4. ASSUME NEW n \in Copied, NEW m \in Children(n)
      PROVE  m \in Copied /\ m # source /\ HostParent[m] = n
  <2>1. n \in HostNodes /\ m \in HostNodes /\ HostParent[m] = n /\ n # NoNode /\ source \in Above[n]
    BY Constants DEF Copied, Children
  <2>2. Above[m] = {m} \cup Above[n]
    BY <2>1, AboveParent
  <2>3. m # source
    <3> SUFFICES ASSUME m = source PROVE FALSE
      OBVIOUS
    <3>1. n \in Above[m] /\ m \in Above[n]
      BY <2>1, <2>2, AboveIs
    <3>2. m = n
      BY <2>1, <3>1, NoLoop
    <3>3. {n} \in SUBSET HostNodes /\ {n} # {}
      BY <2>1
    <3> QED
      BY <2>1, <3>2, <3>3, Constants
  <2> QED
    BY <2>1, <2>2, <2>3 DEF Copied
<1>5. ASSUME NEW n \in Copied, n # source
      PROVE  HostParent[n] \in Copied /\ n \in Children(HostParent[n])
  <2>1. n \in HostNodes /\ source \in Above[n]
    BY DEF Copied
  <2> QED
    BY <1>5, <2>1, AboveParent DEF Copied, Children
<1> QED
  BY <1>1, <1>2, <1>3, <1>4, <1>5


-----------------------------------------------------------------------------
(* The paths nodes have in the image: HostPath is defined, because the     *)
(* tree on the host is one.                                                *)

Partial(n, f) ==
    /\ f \in [Above[n] -> Seq(Names)]
    /\ \A x \in Above[n] :
          f[x] = IF x = source \/ HostParent[x] = NoNode THEN target
                 ELSE Append(f[HostParent[x]], HostName[x])

LEMMA PartialExists ==
    ASSUME target \in Seq(Names)
    PROVE  \A n \in HostNodes : \E f : Partial(n, f)
<1> DEFINE T == {n \in HostNodes : ~\E f : Partial(n, f)}
<1> SUFFICES ASSUME T # {} PROVE FALSE
  OBVIOUS
<1>1. PICK n \in T : HostParent[n] \notin T
  <2>1. T \in SUBSET HostNodes
    OBVIOUS
  <2> HIDE DEF T
  <2> QED
    BY <2>1, Constants
<1>2. n \in HostNodes /\ HostName[n] \in Names
  BY Constants
<1>3. CASE HostParent[n] = NoNode
  <2> DEFINE f == [x \in {n} |-> target]
  <2>1. Above[n] = {n}
    BY <1>2, <1>3, AboveParent
  <2>2. Partial(n, f)
    BY <1>3, <2>1 DEF Partial
  <2> QED
    BY <2>2
<1>4. CASE HostParent[n] # NoNode
  <2> DEFINE up == HostParent[n]
  <2>1. up \in HostNodes /\ Above[n] = {n} \cup Above[up]
    BY <1>2, <1>4, AboveParent
  <2>2. n \notin Above[up]
    <3> SUFFICES ASSUME n \in Above[up] PROVE FALSE
      OBVIOUS
    <3>1. up \in Above[n]
      BY <2>1, AboveIs
    <3>2. n = up
      BY <1>2, <2>1, <3>1, NoLoop
    <3>3. {n} \in SUBSET HostNodes /\ {n} # {}
      BY <1>2
    <3> QED
      BY <3>2, <3>3, Constants
  <2>3. PICK g : Partial(up, g)
    BY <1>1, <2>1
  <2> DEFINE here == IF n = source THEN target ELSE Append(g[up], HostName[n])
             f == [x \in Above[n] |-> IF x = n THEN here ELSE g[x]]
  <2>4. up \in Above[up] /\ Upwards(Above[up])
    BY <2>1, AboveIs
  <2>5. g[up] \in Seq(Names) /\ here \in Seq(Names)
    BY <1>2, <2>3, <2>4, AppendProperties DEF Partial
  <2>6. f \in [Above[n] -> Seq(Names)]
    <3> HIDE DEF here
    <3> QED
      BY <2>1, <2>3, <2>5 DEF Partial
  <2>7. ASSUME NEW x \in Above[n]
        PROVE  f[x] = IF x = source \/ HostParent[x] = NoNode THEN target
                      ELSE Append(f[HostParent[x]], HostName[x])
    <3>1. CASE x = n
      <4>1. f[up] = g[up] /\ f[n] = here
        BY <2>1, <2>2, <2>4
      <4> HIDE DEF f
      <4> QED
        BY <1>4, <3>1, <4>1
    <3>2. CASE x # n
      <4>1. x \in Above[up] /\ HostParent[x] \in Above[up] \cup {NoNode}
        BY <2>1, <2>4, <3>2 DEF Upwards
      <4>2. f[x] = g[x]
        BY <2>1, <3>2, <4>1
      <4>3. HostParent[x] # NoNode => f[HostParent[x]] = g[HostParent[x]]
        BY <2>1, <2>2, <4>1
      <4> HIDE DEF f
      <4> QED
        BY <2>3, <4>1, <4>2, <4>3 DEF Partial
    <3> QED
      BY <3>1, <3>2
  <2> HIDE DEF f
  <2>8. Partial(n, f)
    BY <2>6, <2>7 DEF Partial
  <2> QED
    BY <2>8
<1> QED
  BY <1>3, <1>4

LEMMA PartialAgree ==
    ASSUME NEW n \in HostNodes, NEW m \in HostNodes,
           NEW f, NEW g, Partial(n, f), Partial(m, g)
    PROVE  \A x \in Above[n] \cap Above[m] : f[x] = g[x]
<1> DEFINE T == {x \in Above[n] \cap Above[m] : f[x] # g[x]}
<1> SUFFICES ASSUME T # {} PROVE FALSE
  OBVIOUS
<1>1. /\ Above[n] \subseteq HostNodes /\ Upwards(Above[n]) /\ Upwards(Above[m])
  BY AboveIs
<1>2. PICK x \in T : HostParent[x] \notin T
  <2>1. T \in SUBSET HostNodes
    BY <1>1
  <2> HIDE DEF T
  <2> QED
    BY <2>1, Constants
<1>3. HostParent[x] # NoNode => f[HostParent[x]] = g[HostParent[x]]
  BY <1>1, <1>2 DEF Upwards
<1> QED
  BY <1>2, <1>3 DEF Partial

LEMMA HostPathIs ==
    ASSUME target \in Seq(Names)
    PROVE  \A n \in HostNodes :
              /\ HostPath[n] \in Seq(Names)
              /\ HostPath[n] = IF n = source \/ HostParent[n] = NoNode THEN target
                               ELSE Append(HostPath[HostParent[n]], HostName[n])
<1> DEFINE some[n \in HostNodes] == CHOOSE f : Partial(n, f)
           h == [n \in HostNodes |-> some[n][n]]
           Fits(f) == f = [n \in HostNodes |->
                              IF n = source \/ HostParent[n] = NoNode THEN target
                              ELSE Append(f[HostParent[n]], HostName[n])]
<1>1. \A n \in HostNodes : Partial(n, some[n])
  BY PartialExists
<1> HIDE DEF some
<1>2. \A n \in HostNodes : n \in Above[n]
  BY AboveIs
<1>3. \A n \in HostNodes : h[n] \in Seq(Names)
  BY <1>1, <1>2 DEF Partial
<1>4. ASSUME NEW n \in HostNodes
      PROVE  h[n] = IF n = source \/ HostParent[n] = NoNode THEN target
                    ELSE Append(h[HostParent[n]], HostName[n])
  <2>1. some[n][n] = IF n = source \/ HostParent[n] = NoNode THEN target
                     ELSE Append(some[n][HostParent[n]], HostName[n])
    BY <1>1, <1>2 DEF Partial
  <2>2. ASSUME HostParent[n] # NoNode
        PROVE  /\ HostParent[n] \in HostNodes
               /\ some[n][HostParent[n]] = some[HostParent[n]][HostParent[n]]
    <3>1. /\ HostParent[n] \in HostNodes /\ HostParent[n] \in Above[HostParent[n]]
          /\ HostParent[n] \in Above[n]
      BY <1>2, <2>2, AboveParent
    <3>2. Partial(n, some[n]) /\ Partial(HostParent[n], some[HostParent[n]])
      BY <1>1, <3>1
    <3> QED
      BY <3>1, <3>2, PartialAgree
  <2> QED
    BY <2>1, <2>2
<1>5. Fits(h)
  <2>1. h = [n \in HostNodes |-> h[n]]
    OBVIOUS
  <2> HIDE DEF h
  <2> QED
    BY <1>4, <2>1
<1>6. Fits(HostPath)
  <2>1. HostPath = CHOOSE f : Fits(f)
    BY DEF HostPath
  <2> HIDE DEF Fits, h
  <2> QED
    BY <1>5, <2>1
<1>7. \A n \in HostNodes : HostPath[n] =
         IF n = source \/ HostParent[n] = NoNode THEN target
         ELSE Append(HostPath[HostParent[n]], HostName[n])
  BY <1>6
<1>8. \A n \in HostNodes : HostPath[n] \in Seq(Names)
  <2> DEFINE T == {n \in HostNodes : HostPath[n] \notin Seq(Names)}
  <2> SUFFICES ASSUME T # {} PROVE FALSE
    OBVIOUS
  <2>1. PICK n \in T : HostParent[n] \notin T
    <3>1. T \in SUBSET HostNodes
      OBVIOUS
    <3> HIDE DEF T
    <3> QED
      BY <3>1, Constants
  <2>2. n \in HostNodes /\ HostParent[n] \in HostNodes \cup {NoNode} /\ HostName[n] \in Names
    BY Constants
  <2>3. HostParent[n] # NoNode => HostPath[HostParent[n]] \in Seq(Names)
    BY <2>1, <2>2
  <2>4. HostParent[n] # NoNode => Append(HostPath[HostParent[n]], HostName[n]) \in Seq(Names)
    BY <2>2, <2>3, AppendProperties
  <2> QED
    BY <1>7, <2>1, <2>4
<1> QED
  BY <1>7, <1>8


-----------------------------------------------------------------------------
(* Paths in the image, one component after the other.                      *)

\* Every set of numbers has a least one: the intervals that end in them have
\* a least one by inclusion.
LEMMA MinOf ==
    ASSUME NEW S \in SUBSET Nat, S # {}
    PROVE  Min(S) \in S /\ \A x \in S : Min(S) <= x
<1> DEFINE R == StrictSubsetOrdering(Nat)
           F == FiniteSubsetsOf(Nat)
           T == {1 .. n : n \in S}
<1>1. IsWellFoundedOn(R, F)
  BY FS_StrictSubsetOrderingWellFounded
<1>2. T # {} /\ T \subseteq F
  <2>1. ASSUME NEW n \in Nat PROVE 1 .. n \in F
    <3>1. 1 .. n \in SUBSET Nat
      OBVIOUS
    <3>2. IsFiniteSet(1 .. n)
      BY FS_Interval
    <3> QED
      BY <3>1, <3>2 DEF FiniteSubsetsOf
  <2> QED
    BY <2>1
<1>3. \E I \in T : \A J \in T : ~(<<J, I>> \in R)
  <2> HIDE DEF R, F, T
  <2> QED
    BY <1>1, <1>2, WFMin, Zenon
<1>4. PICK x \in S : \A y \in S : ~(<<1 .. y, 1 .. x>> \in R)
  BY <1>3
<1>5. ASSUME NEW y \in S PROVE x <= y
  <2> SUFFICES ASSUME y < x PROVE FALSE
    OBVIOUS
  <2>1. 1 .. y \subseteq 1 .. x /\ x \in 1 .. x /\ x \notin 1 .. y
    OBVIOUS
  <2>2. <<1 .. y, 1 .. x>> \in R
    BY <2>1 DEF StrictSubsetOrdering
  <2> QED
    BY <1>4, <2>2
<1> QED
  BY <1>5 DEF Min

\* Walk is defined: its values are found from the first on.
WalkFits(path, f) ==
    f = [k \in 0 .. Len(path) |-> IF k = 0 THEN InodeRoot ELSE Lookup(f[k - 1], path[k])]

LEMMA WalkIs ==
    ASSUME NEW path \in Seq(Names)
    PROVE  WalkFits(path, Walk(path))
<1> DEFINE So(m, f) ==
               /\ DOMAIN f = 0 .. m
               /\ \A k \in 0 .. m : f[k] = IF k = 0 THEN InodeRoot ELSE Lookup(f[k - 1], path[k])
           T == {m \in Nat : ~\E f : So(m, f)}
<1>1. Len(path) \in Nat
  OBVIOUS
<1>2. T = {}
  <2> SUFFICES ASSUME T # {} PROVE FALSE
    OBVIOUS
  <2>1. PICK m \in T : \A x \in T : m <= x
    <3>1. T \in SUBSET Nat
      OBVIOUS
    <3> HIDE DEF T
    <3> QED
      BY <3>1, MinOf
  <2>2. m \in Nat
    OBVIOUS
  <2>3. CASE m = 0
    <3> DEFINE f == [k \in 0 .. 0 |-> InodeRoot]
    <3>1. So(0, f)
      OBVIOUS
    <3> QED
      BY <2>3, <3>1
  <2>4. CASE m # 0
    <3>1. m - 1 \in Nat /\ m - 1 \notin T
      BY <2>1, <2>2, <2>4
    <3>2. PICK g : So(m - 1, g)
      BY <3>1
    <3> DEFINE top == Lookup(g[m - 1], path[m])
               f == [k \in 0 .. m |-> IF k = m THEN top ELSE g[k]]
    <3> HIDE DEF top
    <3>3. ASSUME NEW k \in 0 .. m
          PROVE  f[k] = IF k = 0 THEN InodeRoot ELSE Lookup(f[k - 1], path[k])
      <4>1. CASE k = m
        <5>1. m - 1 \in 0 .. m /\ m - 1 # m /\ f[m - 1] = g[m - 1] /\ f[m] = top
          BY <2>2, <2>4
        <5> HIDE DEF f
        <5> QED
          BY <2>4, <4>1, <5>1 DEF top
      <4>2. CASE k # m
        <5>1. k \in 0 .. (m - 1) /\ f[k] = g[k]
          BY <2>2, <4>2
        <5>2. k # 0 => f[k - 1] = g[k - 1]
          BY <2>2, <4>2
        <5> HIDE DEF f
        <5> QED
          BY <3>2, <5>1, <5>2
      <4> QED
        BY <4>1, <4>2
    <3>4. DOMAIN f = 0 .. m
      OBVIOUS
    <3> HIDE DEF f
    <3>5. So(m, f)
      BY <3>3, <3>4
    <3> QED
      BY <3>5
  <2> QED
    BY <2>3, <2>4
<1>3. PICK f : So(Len(path), f)
  BY <1>1, <1>2
<1> DEFINE g == [k \in 0 .. Len(path) |-> f[k]]
<1>4. WalkFits(path, g)
  <2>1. \A k \in 0 .. Len(path) : g[k] = IF k = 0 THEN InodeRoot ELSE Lookup(g[k - 1], path[k])
    <3> SUFFICES ASSUME NEW k \in 0 .. Len(path)
                 PROVE  g[k] = IF k = 0 THEN InodeRoot ELSE Lookup(g[k - 1], path[k])
      OBVIOUS
    <3>1. g[k] = f[k] /\ (k # 0 => g[k - 1] = f[k - 1])
      BY <1>1
    <3> HIDE DEF g
    <3> QED
      BY <1>3, <3>1
  <2>2. g = [k \in 0 .. Len(path) |-> g[k]]
    OBVIOUS
  <2> HIDE DEF g
  <2> QED
    BY <2>1, <2>2 DEF WalkFits
<1>5. Walk(path) = CHOOSE h : WalkFits(path, h)
  BY DEF Walk, WalkFits
<1> HIDE DEF g
<1> QED
  BY <1>4, <1>5

\* Paths with a common beginning lead to the same inodes as far as it goes.
LEMMA WalksAgree ==
    ASSUME NEW p \in Seq(Names), NEW q \in Seq(Names), NEW n \in Nat,
           n <= Len(p), n <= Len(q), \A k \in 1 .. n : p[k] = q[k]
    PROVE  \A k \in 0 .. n : Walk(p)[k] = Walk(q)[k]
<1> DEFINE T == {k \in 0 .. n : Walk(p)[k] # Walk(q)[k]}
<1> SUFFICES ASSUME T # {} PROVE FALSE
  OBVIOUS
<1>1. PICK m \in T : \A x \in T : m <= x
  <2>1. T \in SUBSET Nat
    OBVIOUS
  <2> HIDE DEF T
  <2> QED
    BY <2>1, MinOf
<1>2. m \in 0 .. n /\ m \in 0 .. Len(p) /\ m \in 0 .. Len(q) /\ Walk(p)[m] # Walk(q)[m]
  BY <1>1
<1>3. \A r \in {p, q} : Walk(r)[m] = IF m = 0 THEN InodeRoot ELSE Lookup(Walk(r)[m - 1], r[m])
  <2> SUFFICES ASSUME NEW r \in {p, q}
               PROVE  Walk(r)[m] = IF m = 0 THEN InodeRoot ELSE Lookup(Walk(r)[m - 1], r[m])
    OBVIOUS
  <2>1. WalkFits(r, Walk(r)) /\ m \in 0 .. Len(r)
    BY <1>2, WalkIs
  <2> QED
    BY <2>1 DEF WalkFits
<1>4. m # 0 /\ m \in 1 .. n
  BY <1>2, <1>3
<1>5. m - 1 \in 0 .. n /\ m - 1 \notin T
  <2>1. m - 1 < m /\ m - 1 \in 0 .. n
    BY <1>4
  <2> QED
    BY <1>1, <2>1
<1>6. Walk(p)[m - 1] = Walk(q)[m - 1]
  BY <1>5
<1> QED
  BY <1>2, <1>3, <1>4, <1>6

PathFacts ==
    /\ ResolvePath(<<>>) = InodeRoot
    /\ \A path \in Seq(Names), name \in Names :
          ResolvePath(Append(path, name)) = Lookup(ResolvePath(path), name)

LEMMA Resolves == PathFacts
<1>1. ResolvePath(<<>>) = InodeRoot
  <2>1. <<>> \in Seq(Names) /\ Len(<<>>) = 0
    OBVIOUS
  <2>2. WalkFits(<<>>, Walk(<<>>))
    BY <2>1, WalkIs
  <2> QED
    BY <2>1, <2>2 DEF ResolvePath, WalkFits
<1>2. ASSUME NEW path \in Seq(Names), NEW name \in Names
      PROVE  ResolvePath(Append(path, name)) = Lookup(ResolvePath(path), name)
  <2> DEFINE more == Append(path, name)
             n == Len(path)
  <2>1. /\ n \in Nat /\ more \in Seq(Names) /\ Len(more) = n + 1
        /\ \A k \in 1 .. n : more[k] = path[k]
        /\ more[n + 1] = name
    BY AppendProperties
  <2> HIDE DEF more
  <2>2. Walk(more)[n] = Walk(path)[n]
    <3>1. n <= Len(path) /\ n <= Len(more) /\ n \in 0 .. n
      BY <2>1
    <3> QED
      BY <2>1, <3>1, WalksAgree
  <2>3. Walk(more)[n + 1] = Lookup(Walk(more)[n], name)
    <3>1. WalkFits(more, Walk(more)) /\ n + 1 \in 0 .. Len(more) /\ n + 1 # 0 /\ (n + 1) - 1 = n
      BY <2>1, WalkIs
    <3> QED
      BY <2>1, <3>1 DEF WalkFits
  <2> QED
    BY <2>1, <2>2, <2>3 DEF ResolvePath, more
<1> QED
  BY <1>1, <1>2 DEF PathFacts


-----------------------------------------------------------------------------
(* The image grows by one entry at a time, so what a path leads to stays,  *)
(* or the path is overtaken.                                               *)

GoodImage == image \in Seq(Entries) /\ Sound(image)

Grows ==
    /\ stored' = stored
    /\ \/ image' = image
       \/ \E e \in Entries, name \in Names :
             /\ image' = Append(image, e)
             /\ e.ino = InodeRoot + Len(image) + 1 /\ IsDir(e.dir)
             /\ e.slot \notin SlotsOf(e.dir)
             /\ e.name = stored[name] /\ Lookup(e.dir, name) = 0

LEMMA HitsAre ==
    ASSUME GoodImage, NEW d, NEW name
    PROVE  /\ Hits(d, name) \subseteq DOMAIN image /\ DOMAIN image \in SUBSET Nat
           /\ \A p \in Hits(d, name) : image[p].dir = d /\ image[p].name = name
           /\ \A p \in DOMAIN image : image[p].dir = d /\ image[p].name = name => p \in Hits(d, name)
           /\ \A p \in DOMAIN image : image[p] \in Entries /\ image[p].slot \in Nat
           /\ \A p, q \in Hits(d, name) : image[p].slot = image[q].slot => p = q
<1>1. /\ Hits(d, name) \subseteq DOMAIN image
      /\ \A p \in Hits(d, name) : image[p].dir = d /\ image[p].name = name
      /\ \A p \in DOMAIN image : image[p].dir = d /\ image[p].name = name => p \in Hits(d, name)
  BY DEF Hits
<1>2. DOMAIN image \in SUBSET Nat /\ \A p \in DOMAIN image : image[p] \in Entries
  BY DEF GoodImage
<1>3. \A p \in DOMAIN image : image[p].slot \in Nat
  BY <1>2 DEF Entries
<1>4. \A p, q \in DOMAIN image :
         image[p].dir = image[q].dir /\ image[p].slot = image[q].slot => p = q
  BY DEF GoodImage, Sound
<1> QED
  BY <1>1, <1>2, <1>3, <1>4

LEMMA LookupIs ==
    ASSUME GoodImage, NEW d, NEW name
    PROVE  LET hits == Hits(d, name)
           IN /\ hits = {} => Lookup(d, name) = 0
              /\ hits # {} =>
                    /\ First(hits) \in hits /\ \A q \in hits : image[First(hits)].slot <= image[q].slot
                    /\ Lookup(d, name) = image[First(hits)].ino
                    /\ Lookup(d, name) \in (InodeRoot + 1) .. (InodeRoot + Len(image))
<1> DEFINE hits == Hits(d, name)
           slots == {image[p].slot : p \in hits}
<1>1. hits \subseteq DOMAIN image /\ slots \in SUBSET Nat
  BY HitsAre
<1>2. Lookup(d, name) = IF hits = {} THEN 0 ELSE image[First(hits)].ino
  BY DEF Lookup
<1>3. ASSUME hits # {}
      PROVE  \E p \in hits : \A q \in hits : image[p].slot <= image[q].slot
  <2>1. slots # {} /\ \A q \in hits : image[q].slot \in slots
    BY <1>3
  <2> HIDE DEF slots
  <2>2. Min(slots) \in slots /\ \A x \in slots : Min(slots) <= x
    BY <1>1, <2>1, MinOf
  <2>3. PICK p \in hits : image[p].slot = Min(slots)
    BY <2>2 DEF slots
  <2> QED
    BY <2>1, <2>2, <2>3
<1> HIDE DEF hits, slots
<1>4. hits # {} =>
         First(hits) \in hits /\ \A q \in hits : image[First(hits)].slot <= image[q].slot
  BY <1>3 DEF First
<1>5. \A p \in DOMAIN image : image[p].ino \in (InodeRoot + 1) .. (InodeRoot + Len(image))
  BY DEF GoodImage, Sound
<1>6. hits # {} => /\ Lookup(d, name) = image[First(hits)].ino
                   /\ Lookup(d, name) \in (InodeRoot + 1) .. (InodeRoot + Len(image))
  BY <1>1, <1>2, <1>4, <1>5
<1> QED
  BY <1>2, <1>4, <1>6 DEF hits

\* What is looked up is in a directory.
LEMMA LookedUp ==
    ASSUME GoodImage, NEW d, NEW name, Lookup(d, name) # 0
    PROVE  /\ IsDir(d) /\ d # 0
           /\ Lookup(d, name) \in (InodeRoot + 1) .. (InodeRoot + Len(image))
<1> DEFINE hits == Hits(d, name)
<1>1. PICK p \in DOMAIN image : image[p].dir = d
  <2>1. hits # {}
    BY LookupIs
  <2> QED
    BY <2>1, HitsAre
<1>2. Lookup(d, name) \in (InodeRoot + 1) .. (InodeRoot + Len(image))
  <2>1. hits # {}
    BY LookupIs
  <2> QED
    BY <2>1, LookupIs
<1>3. IsDir(d)
  <2>1. \/ d = InodeRoot
        \/ \E q \in DOMAIN image : image[q].ino = d /\ image[q].kind = "dir"
    BY <1>1 DEF GoodImage, Sound
  <2> QED
    BY <2>1 DEF IsDir
<1>4. d # 0
  BY <1>3 DEF IsDir, GoodImage, Sound, InodeRoot
<1> QED
  BY <1>2, <1>3, <1>4

LEMMA Appended ==
    ASSUME GoodImage, NEW e \in Entries, image' = Append(image, e)
    PROVE  /\ image' \in Seq(Entries) /\ Len(image') = Len(image) + 1
           /\ Len(image) \in Nat /\ DOMAIN image = 1 .. Len(image)
           /\ DOMAIN image' = DOMAIN image \cup {Len(image) + 1}
           /\ \A p \in DOMAIN image : image'[p] = image[p] /\ p < Len(image) + 1
           /\ image'[Len(image) + 1] = e
<1>1. image \in Seq(Entries)
  BY DEF GoodImage
<1>2. /\ image' \in Seq(Entries) /\ Len(image') = Len(image) + 1
      /\ \A p \in 1 .. Len(image) : image'[p] = image[p]
      /\ image'[Len(image) + 1] = e
  BY <1>1, AppendProperties
<1>3. Len(image) \in Nat /\ DOMAIN image = 1 .. Len(image) /\ DOMAIN image' = 1 .. Len(image')
  BY <1>1, <1>2
<1> QED
  BY <1>2, <1>3

\* The entries of a directory by one name, when the image has grown.
LEMMA HitsKept ==
    ASSUME GoodImage, Grows, NEW d, NEW name
    PROVE  /\ Hits(d, name) \subseteq Hits(d, name)'
           /\ \A p \in Hits(d, name) : image'[p] = image[p]
           /\ DOMAIN image \subseteq DOMAIN image'
           /\ \A p \in DOMAIN image : image'[p] = image[p]
<1>1. DOMAIN image \subseteq DOMAIN image' /\ \A p \in DOMAIN image : image'[p] = image[p]
  <2>1. CASE image' = image
    BY <2>1
  <2>2. CASE image' # image
    BY <2>2, Appended DEF Grows
  <2> QED
    BY <2>1, <2>2
<1>2. Hits(d, name) = {p \in DOMAIN image : image[p].name = name /\ image[p].dir = d}
  BY DEF Hits
<1>3. Hits(d, name)' = {p \in DOMAIN image' : image'[p].name = name /\ image'[p].dir = d}
  BY DEF Hits
<1> QED
  BY <1>1, <1>2, <1>3

\* An entry overtaken by a later one.
Passed(d, name) ==
    /\ ~Faithful
    /\ \E p, q \in Hits(d, name) : p < q /\ image[q].slot < image[p].slot

LEMMA LookupKept ==
    ASSUME GoodImage, Grows, NEW d, NEW name, Lookup(d, name) # 0
    PROVE  Lookup(d, name)' = Lookup(d, name) \/ Passed(d, name)'
<1>1. CASE image' = image
  BY <1>1 DEF Lookup, Hits, First
<1>2. CASE image' # image
  <2>1. PICK e \in Entries, to \in Names :
           /\ image' = Append(image, e) /\ e.ino = InodeRoot + Len(image) + 1 /\ IsDir(e.dir)
           /\ e.slot \notin SlotsOf(e.dir)
           /\ e.name = stored[to] /\ Lookup(e.dir, to) = 0
    BY <1>2 DEF Grows
  <2> DEFINE hits == Hits(d, name)
             L    == Len(image) + 1
  <2>2. PICK now : now = Hits(d, name)'
    OBVIOUS
  <2>3. /\ L \in Nat /\ DOMAIN image' = DOMAIN image \cup {L} /\ image'[L] = e
        /\ \A p \in DOMAIN image : image'[p] = image[p] /\ p < L
    BY <2>1, Appended
  <2>4. PICK f : f = First(hits)
    OBVIOUS
  <2>5. /\ f \in hits /\ \A q \in hits : image[f].slot <= image[q].slot
        /\ Lookup(d, name) = image[f].ino
    BY <2>4, LookupIs
  <2>6. /\ hits \subseteq DOMAIN image /\ DOMAIN image \in SUBSET Nat
        /\ \A p \in hits : image[p].dir = d /\ image[p].name = name
        /\ \A p \in DOMAIN image : image[p].dir = d /\ image[p].name = name => p \in hits
        /\ \A p \in DOMAIN image : image[p].slot \in Nat
        /\ \A p, q \in hits : image[p].slot = image[q].slot => p = q
    BY HitsAre
  <2>7. now = {p \in DOMAIN image' : image'[p].name = name /\ image'[p].dir = d}
    BY <2>2 DEF Hits
  <2> HIDE DEF hits, L
  <2>8. hits \subseteq now /\ now \subseteq hits \cup {L}
    BY <2>3, <2>6, <2>7
  <2>9. \A p \in hits : image'[p] = image[p] /\ p < L
    BY <2>3, <2>6
  <2>10. Lookup(d, name)' =
            IF now = {} THEN 0
            ELSE image'[CHOOSE p \in now : \A q \in now : image'[p].slot <= image'[q].slot].ino
    BY <2>2 DEF Lookup, First
  <2>11. e.slot \in Nat
    BY DEF Entries
  <2>12. L \in now => e.dir = d /\ e.name = name
    BY <2>3, <2>7
  <2>13. L \in now => e.slot # image[f].slot
    <3>1. image[f].dir = d /\ f \in DOMAIN image
      BY <2>5, <2>6
    <3>2. image[f].slot \in SlotsOf(d)
      BY <3>1 DEF SlotsOf
    <3> QED
      BY <2>1, <2>12, <3>2
  <2>14. CASE L \in now /\ e.slot < image[f].slot
    <3>1. ~Faithful
      <4> SUFFICES ASSUME Faithful PROVE FALSE
        OBVIOUS
      <4>1. e.name = to
        BY <2>1 DEF Faithful
      <4> QED
        BY <2>1, <2>12, <2>14, <4>1
    <3>2. f \in now /\ f < L /\ image'[L].slot < image'[f].slot
      BY <2>3, <2>5, <2>8, <2>9, <2>14
    <3>3. ~Faithful'
      BY <3>1 DEF Faithful, Grows
    <3> QED
      BY <2>2, <2>14, <3>2, <3>3 DEF Passed
  <2>15. CASE ~(L \in now /\ e.slot < image[f].slot)
    <3>1. ASSUME NEW q \in now
          PROVE  image'[f].slot <= image'[q].slot /\ (image'[f].slot = image'[q].slot => f = q)
      <4>1. CASE q \in hits
        BY <2>5, <2>6, <2>9, <4>1
      <4>2. CASE q = L
        <5>1. image[f].slot \in Nat /\ image'[f].slot = image[f].slot /\ image'[q].slot = e.slot
          BY <2>3, <2>5, <2>6, <2>9, <4>2
        <5>2. ~(e.slot < image[f].slot) /\ e.slot # image[f].slot
          BY <2>13, <2>15, <4>2
        <5> QED
          BY <2>11, <5>1, <5>2
      <4> QED
        BY <2>8, <4>1, <4>2
    <3>2. f \in now /\ now # {}
      BY <2>5, <2>8
    <3>3. \A q \in now : image'[q].slot \in Nat
      BY <2>3, <2>6, <2>8, <2>9, <2>11
    <3>4. (CHOOSE p \in now : \A q \in now : image'[p].slot <= image'[q].slot) = f
      <4>1. PICK c : c = CHOOSE p \in now : \A q \in now : image'[p].slot <= image'[q].slot
        OBVIOUS
      <4>2. c \in now /\ \A q \in now : image'[c].slot <= image'[q].slot
        BY <3>1, <3>2, <4>1
      <4>3. image'[c].slot = image'[f].slot
        BY <3>1, <3>2, <3>3, <4>2
      <4> QED
        BY <3>1, <4>1, <4>2, <4>3
    <3>5. Lookup(d, name)' = image'[f].ino
      BY <2>10, <3>2, <3>4
    <3> QED
      BY <2>5, <2>9, <3>5
  <2> QED
    BY <2>14, <2>15
<1> QED
  BY <1>1, <1>2

LEMMA DirectoriesStay ==
    ASSUME GoodImage, Grows
    PROVE  /\ \A i : IsDir(i) => IsDir(i)'
           /\ \A i \in 1 .. (InodeRoot + Len(image)) : IsDir(i)' => IsDir(i)
<1>1. CASE image' = image
  BY <1>1 DEF IsDir
<1>2. CASE image' # image
  <2>1. PICK e \in Entries : image' = Append(image, e) /\ e.ino = InodeRoot + Len(image) + 1
    BY <1>2 DEF Grows
  <2>2. /\ DOMAIN image' = DOMAIN image \cup {Len(image) + 1} /\ Len(image) \in Nat
        /\ \A p \in DOMAIN image : image'[p] = image[p]
        /\ image'[Len(image) + 1] = e
    BY <2>1, Appended
  <2>3. ASSUME NEW i, IsDir(i) PROVE IsDir(i)'
    BY <2>2, <2>3 DEF IsDir
  <2>4. ASSUME NEW i \in 1 .. (InodeRoot + Len(image)), IsDir(i)' PROVE IsDir(i)
    <3>1. e.ino # i
      BY <2>1, <2>2 DEF InodeRoot
    <3> QED
      BY <2>2, <2>4, <3>1 DEF IsDir
  <2> QED
    BY <2>3, <2>4
<1> QED
  BY <1>1, <1>2

LEMMA ImageStaysGood ==
    ASSUME GoodImage, Grows
    PROVE  GoodImage'
<1>1. CASE image' = image
  BY <1>1 DEF GoodImage
<1>2. CASE image' # image
  <2>1. PICK e \in Entries : /\ image' = Append(image, e)
                             /\ e.ino = InodeRoot + Len(image) + 1 /\ IsDir(e.dir)
                             /\ e.slot \notin SlotsOf(e.dir)
    BY <1>2 DEF Grows
  <2>2. /\ image' \in Seq(Entries) /\ Len(image') = Len(image) + 1
        /\ DOMAIN image' = DOMAIN image \cup {Len(image) + 1} /\ Len(image) \in Nat
        /\ \A p \in DOMAIN image : image'[p] = image[p]
        /\ image'[Len(image) + 1] = e
    BY <2>1, Appended
  <2>3. \A p \in DOMAIN image : image[p].ino \in (InodeRoot + 1) .. (InodeRoot + Len(image))
    BY DEF GoodImage, Sound
  <2>4. \A p, q \in DOMAIN image : image[p].ino = image[q].ino => p = q
    BY DEF GoodImage, Sound
  <2>5. ASSUME NEW p \in DOMAIN image'
        PROVE  image'[p].ino \in (InodeRoot + 1) .. (InodeRoot + Len(image'))
    BY <2>1, <2>2, <2>3 DEF InodeRoot
  <2>6. ASSUME NEW p \in DOMAIN image', NEW q \in DOMAIN image', image'[p].ino = image'[q].ino
        PROVE  p = q
    <3>1. \A r \in DOMAIN image : image[r].ino # e.ino
      BY <2>1, <2>2, <2>3 DEF InodeRoot
    <3> QED
      BY <2>2, <2>4, <2>6, <3>1
  <2>8. ASSUME NEW p \in DOMAIN image', NEW q \in DOMAIN image',
               image'[p].dir = image'[q].dir, image'[p].slot = image'[q].slot
        PROVE  p = q
    <3>1. \A r \in DOMAIN image : ~(image[r].dir = e.dir /\ image[r].slot = e.slot)
      BY <2>1 DEF SlotsOf
    <3>2. \A r, x \in DOMAIN image :
             image[r].dir = image[x].dir /\ image[r].slot = image[x].slot => r = x
      BY DEF GoodImage, Sound
    <3> QED
      BY <2>2, <2>8, <3>1, <3>2
  <2>7. ASSUME NEW p \in DOMAIN image' PROVE IsDir(image[p].dir)'
    <3>1. IsDir(image'[p].dir)
      <4>1. CASE p \in DOMAIN image
        BY <2>2, <4>1 DEF GoodImage, Sound, IsDir
      <4>2. CASE p \notin DOMAIN image
        BY <2>1, <2>2, <4>2
      <4> QED
        BY <4>1, <4>2
    <3>2. \A i : IsDir(i) => IsDir(i)'
      BY DirectoriesStay
    <3>3. PICK i : i = image'[p].dir
      OBVIOUS
    <3>4. IsDir(i)'
      BY <3>1, <3>2, <3>3
    <3> QED
      BY <3>3, <3>4 DEF IsDir
  <2> QED
    BY <2>2, <2>5, <2>6, <2>7, <2>8 DEF GoodImage, Sound, IsDir
<1> QED
  BY <1>1, <1>2

\* A path is overtaken where a part of it is.
OvertakenFacts ==
    \A path \in Seq(Names) : \A k \in 1 .. Len(path) :
       /\ Passed(ResolvePath(SubSeq(path, 1, k - 1)), path[k]) => Overtaken(path)
       /\ Overtaken(SubSeq(path, 1, k - 1)) => Overtaken(path)

LEMMA Overtakes == OvertakenFacts
<1> SUFFICES ASSUME NEW path \in Seq(Names), NEW k \in 1 .. Len(path)
             PROVE  /\ Passed(ResolvePath(SubSeq(path, 1, k - 1)), path[k]) => Overtaken(path)
                    /\ Overtaken(SubSeq(path, 1, k - 1)) => Overtaken(path)
  BY DEF OvertakenFacts
<1>1. Passed(ResolvePath(SubSeq(path, 1, k - 1)), path[k]) => Overtaken(path)
  BY DEF Passed, Overtaken
<1>2. ASSUME Overtaken(SubSeq(path, 1, k - 1)) PROVE Overtaken(path)
  <2>1. PICK to : to = SubSeq(path, 1, k - 1)
    OBVIOUS
  <2>2. to \in Seq(Names) /\ Len(to) = k - 1 /\ k - 1 \in Nat
    BY <2>1
  <2>3. PICK j \in 1 .. (k - 1) : Passed(ResolvePath(SubSeq(to, 1, j - 1)), to[j])
    BY <1>2, <2>1, <2>2 DEF Overtaken, Passed
  <2>4. SubSeq(to, 1, j - 1) = SubSeq(path, 1, j - 1) /\ to[j] = path[j] /\ j \in 1 .. Len(path)
    BY <2>1, <2>2
  <2> QED
    BY <2>3, <2>4 DEF Passed, Overtaken
<1> QED
  BY <1>1, <1>2

\* What a path leads to, if anything.
LEMMA PathsStay ==
    ASSUME GoodImage, Grows, NEW path \in Seq(Names), ResolvePath(path) # 0
    PROVE  /\ ResolvePath(path)' = ResolvePath(path) \/ Overtaken(path)'
           /\ ResolvePath(path) \in 1 .. (InodeRoot + Len(image))
<1> DEFINE n == Len(path)
           to(k) == SubSeq(path, 1, k)
<1>1. n \in Nat /\ to(n) = path /\ to(0) = <<>>
  BY SubSeqFull
<1>2. ASSUME NEW k \in 1 .. n
      PROVE  /\ to(k) = Append(to(k - 1), path[k]) /\ path[k] \in Names
             /\ to(k - 1) \in Seq(Names)
  OBVIOUS
<1>3. PathFacts /\ PathFacts' /\ OvertakenFacts'
  BY Resolves, Overtakes, PTL
<1>8. ASSUME NEW k \in 1 .. n, NEW d, d = ResolvePath(to(k - 1))', Passed(d, path[k])'
      PROVE  Overtaken(path)'
  <2>1. Passed(ResolvePath(SubSeq(path, 1, k - 1)), path[k])'
    BY <1>8 DEF Passed, Hits
  <2> QED
    BY <1>3, <2>1 DEF OvertakenFacts
<1> HIDE DEF to
<1>4. ASSUME NEW k \in 1 .. n
      PROVE  /\ ResolvePath(to(k)) = Lookup(ResolvePath(to(k - 1)), path[k])
             /\ ResolvePath(to(k))' = Lookup(ResolvePath(to(k - 1)), path[k])'
  BY <1>2, <1>3 DEF PathFacts
<1>5. ResolvePath(to(0)) = InodeRoot /\ ResolvePath(to(0))' = InodeRoot
  BY <1>1, <1>3 DEF PathFacts
<1> DEFINE T == {k \in 0 .. n : /\ ResolvePath(to(k)) # 0
                                /\ ~(/\ ResolvePath(to(k))' = ResolvePath(to(k)) \/ Overtaken(path)'
                                     /\ ResolvePath(to(k)) \in 1 .. (InodeRoot + Len(image)))}
<1>6. T = {}
  <2> SUFFICES ASSUME T # {} PROVE FALSE
    OBVIOUS
  <2>1. PICK k \in T : \A x \in T : k <= x
    <3>1. T \in SUBSET Nat
      OBVIOUS
    <3> HIDE DEF T
    <3> QED
      BY <3>1, MinOf
  <2>2. Len(image) \in Nat
    BY DEF GoodImage
  <2>3. k # 0
    BY <1>5, <2>2 DEF InodeRoot
  <2>4. k \in 1 .. n /\ k - 1 \in 0 .. n /\ k - 1 < k
    BY <1>1, <2>3
  <2>5. k - 1 \notin T
    BY <2>1, <2>4
  <2>6. PICK d : d = ResolvePath(to(k - 1))
    OBVIOUS
  <2>7. Lookup(d, path[k]) # 0 /\ ResolvePath(to(k)) = Lookup(d, path[k])
    BY <1>4, <2>4, <2>6
  <2>8. d # 0 /\ Lookup(d, path[k]) \in (InodeRoot + 1) .. (InodeRoot + Len(image))
    BY <2>7, LookedUp
  <2>12. ResolvePath(to(k)) \in 1 .. (InodeRoot + Len(image))
    BY <2>2, <2>7, <2>8 DEF InodeRoot
  <2>13. ~Overtaken(path)'
    BY <2>12
  <2>9. ResolvePath(to(k - 1))' = d
    BY <2>4, <2>5, <2>6, <2>8, <2>13
  <2>10. ResolvePath(to(k))' = Lookup(d, path[k])'
    <3>1. ResolvePath(to(k))' = Lookup(ResolvePath(to(k - 1)), path[k])'
      BY <1>4, <2>4
    <3> QED
      BY <2>9, <3>1 DEF Lookup, Hits
  <2>14. ~Passed(d, path[k])'
    BY <1>8, <2>4, <2>9, <2>13
  <2>11. ResolvePath(to(k))' = ResolvePath(to(k))
    BY <2>7, <2>10, <2>14, LookupKept
  <2> QED
    BY <2>11, <2>12
<1>7. n \in 0 .. n /\ ResolvePath(to(n)) # 0
  BY <1>1
<1> QED
  BY <1>1, <1>6, <1>7

LEMMA DirectoryNumber ==
    ASSUME GoodImage, NEW i, IsDir(i)
    PROVE  i \in Nat /\ i # 0
<1>1. \A p \in DOMAIN image : image[p].ino \in (InodeRoot + 1) .. (InodeRoot + Len(image))
  BY DEF GoodImage, Sound
<1>2. Len(image) \in Nat
  BY DEF GoodImage
<1> QED
  BY <1>1, <1>2 DEF IsDir, InodeRoot

LEMMA OvertakenStays ==
    ASSUME GoodImage, Grows, NEW path \in Seq(Names), Overtaken(path)
    PROVE  Overtaken(path)'
<1>1. ~Faithful /\ ~Faithful' /\ OvertakenFacts'
  <2>1. OvertakenFacts'
    BY Overtakes, PTL
  <2> QED
    BY <2>1 DEF Overtaken, Faithful, Grows
<1>2. PICK k \in 1 .. Len(path) : \E p, q \in Hits(ResolvePath(SubSeq(path, 1, k - 1)), path[k]) :
         p < q /\ image[q].slot < image[p].slot
  BY DEF Overtaken
<1>3. PICK to, d : to = SubSeq(path, 1, k - 1) /\ d = ResolvePath(to)
  OBVIOUS
<1>4. PICK p, q \in Hits(d, path[k]) : p < q /\ image[q].slot < image[p].slot
  BY <1>2, <1>3
<1>5. p \in DOMAIN image /\ image[p].dir = d
  BY HitsAre
<1>6. d # 0
  <2>1. IsDir(d)
    BY <1>5 DEF GoodImage, Sound, IsDir
  <2> QED
    BY <2>1, DirectoryNumber
<1>7. to \in Seq(Names)
  BY <1>3
<1>8. CASE ResolvePath(to)' = d
  <2>1. p \in Hits(d, path[k])' /\ q \in Hits(d, path[k])' /\ image'[p] = image[p] /\ image'[q] = image[q]
    BY HitsKept
  <2>2. Passed(d, path[k])'
    BY <1>1, <1>4, <2>1 DEF Passed
  <2>3. ResolvePath(SubSeq(path, 1, k - 1))' = d
    BY <1>3, <1>8 DEF ResolvePath, Walk
  <2>4. Passed(ResolvePath(SubSeq(path, 1, k - 1)), path[k])'
    BY <2>2, <2>3 DEF Passed, Hits
  <2> QED
    BY <1>1, <2>4 DEF OvertakenFacts
<1>9. CASE Overtaken(to)'
  <2>1. Overtaken(SubSeq(path, 1, k - 1))'
    BY <1>3, <1>9
  <2> QED
    BY <1>1, <2>1 DEF OvertakenFacts
<1> QED
  BY <1>3, <1>6, <1>7, <1>8, <1>9, PathsStay


-----------------------------------------------------------------------------
(* Types.                                                                  *)

Frames == [node : HostNodes, path : Seq(Names), rest : SUBSET HostNodes]

LEMMA FrontIs ==
    ASSUME NEW S, NEW s \in Seq(S), s # <<>>
    PROVE  /\ Len(s) \in Nat \ {0} /\ Last(s) \in S
           /\ Front(s) \in Seq(S) /\ Len(Front(s)) = Len(s) - 1
           /\ \A k \in 1 .. (Len(s) - 1) : Front(s)[k] = s[k]
<1>1. Len(s) \in Nat \ {0}
  BY EmptySeq
<1>2. /\ SubSeq(s, 1, Len(s) - 1) \in Seq(S)
      /\ Len(SubSeq(s, 1, Len(s) - 1)) = Len(s) - 1
      /\ \A k \in 1 .. (Len(s) - 1) : SubSeq(s, 1, Len(s) - 1)[k] = s[k]
  <2> DEFINE m == Len(s) - 1
             f == SubSeq(s, 1, m)
  <2>1. m \in Nat /\ \A k \in 1 .. m : s[k] \in S
    BY <1>1
  <2> HIDE DEF m
  <2>2. f \in Seq(S) /\ Len(f) = (IF 1 <= m THEN m - 1 + 1 ELSE 0)
    BY <2>1, SubSeqProperties
  <2>3. Len(f) = m
    BY <2>1, <2>2
  <2>4. \A i \in 1 .. (m - 1 + 1) : f[i] = s[1 + i - 1]
    BY <2>1, SubSeqProperties
  <2>5. \A k \in 1 .. m : f[k] = s[k]
    BY <2>1, <2>4
  <2> QED
    BY <2>2, <2>3, <2>5 DEF m
<1>4. Last(s) \in S
  BY <1>1 DEF Last
<1> QED
  BY <1>1, <1>2, <1>4 DEF Front

LEMMA TookIs ==
    ASSUME stack \in Seq(Frames), stack # <<>>, NEW n, Took(n)
    PROVE  /\ stack' \in Seq(Frames) /\ stack' # <<>> /\ Top \in Frames
           /\ Len(stack) \in Nat \ {0} /\ Top = stack[Len(stack)]
           /\ DOMAIN stack = 1 .. Len(stack) /\ DOMAIN stack' = DOMAIN stack
           /\ \A k \in DOMAIN stack : k # Len(stack) => stack'[k] = stack[k]
           /\ stack'[Len(stack)].node = Top.node
           /\ stack'[Len(stack)].path = Top.path
           /\ stack'[Len(stack)].rest = Top.rest \ {n}
<1> DEFINE f == Front(stack)
           t == [Top EXCEPT !.rest = @ \ {n}]
           u == <<t>>
           m == Len(stack)
<1>1. /\ m \in Nat \ {0} /\ Top \in Frames /\ Top = stack[m]
      /\ f \in Seq(Frames) /\ Len(f) = m - 1
      /\ \A k \in 1 .. (m - 1) : f[k] = stack[k]
  <2>1. Last(stack) = stack[m]
    BY DEF Last
  <2> QED
    BY <2>1, FrontIs DEF Top
<1>2. t \in Frames /\ t.node = Top.node /\ t.path = Top.path /\ t.rest = Top.rest \ {n}
  BY <1>1 DEF Frames
<1> HIDE DEF f, t
<1>3. u \in Seq(Frames) /\ Len(u) = 1 /\ u[1] = t
  BY <1>2
<1>4. stack' = f \o u
  BY DEF Took, f, t
<1> HIDE DEF u, m
<1>5. /\ f \o u \in Seq(Frames) /\ Len(f \o u) = m
      /\ \A i \in 1 .. m : (f \o u)[i] = IF i <= m - 1 THEN f[i] ELSE u[i - (m - 1)]
  <2>1. /\ f \o u \in Seq(Frames) /\ Len(f \o u) = Len(f) + Len(u)
        /\ \A i \in 1 .. (Len(f) + Len(u)) :
              (f \o u)[i] = IF i <= Len(f) THEN f[i] ELSE u[i - Len(f)]
    BY <1>1, <1>3, ConcatProperties
  <2>2. Len(f) + Len(u) = m
    BY <1>1, <1>3
  <2> QED
    BY <1>1, <2>1, <2>2
<1>6. /\ stack' \in Seq(Frames) /\ Len(stack') = m
      /\ \A i \in 1 .. m : stack'[i] = IF i <= m - 1 THEN f[i] ELSE u[i - (m - 1)]
  BY <1>4, <1>5
<1>7. DOMAIN stack = 1 .. m /\ DOMAIN stack' = 1 .. m
  BY <1>1, <1>6 DEF m
<1>8. stack'[m] = t
  <2>1. m \in 1 .. m /\ ~(m <= m - 1) /\ m - (m - 1) = 1
    BY <1>1
  <2> QED
    BY <1>3, <1>6, <2>1
<1>9. ASSUME NEW k \in DOMAIN stack, k # m PROVE stack'[k] = stack[k]
  <2>1. k \in 1 .. m /\ k <= m - 1 /\ k \in 1 .. (m - 1)
    BY <1>1, <1>7, <1>9
  <2> QED
    BY <1>1, <1>6, <2>1
<1>10. stack' # <<>>
  BY <1>1, <1>6
<1> QED
  BY <1>1, <1>2, <1>6, <1>7, <1>8, <1>9, <1>10 DEF m

LEMMA FreeSlotIs ==
    ASSUME GoodImage, NEW d
    PROVE  FreeSlot(d) \in Nat \ {0} /\ FreeSlot(d) \notin SlotsOf(d)
<1> DEFINE L == Len(image)
           all == {image[p].slot : p \in 1 .. L}
           free == (1 .. L + 1) \ SlotsOf(d)
<1>1. L \in Nat /\ DOMAIN image = 1 .. L
  BY DEF GoodImage
<1>2. SlotsOf(d) \subseteq all
  BY <1>1 DEF SlotsOf
<1>3. IsFiniteSet(1 .. L) /\ Cardinality(1 .. L) = L /\ Cardinality(1 .. (L + 1)) = L + 1
  <2>1. 1 \in Int /\ L \in Int /\ L + 1 \in Int
    BY <1>1
  <2> HIDE DEF L
  <2>2. IsFiniteSet(1 .. L) /\ Cardinality(1 .. L) = (IF 1 > L THEN 0 ELSE L - 1 + 1)
    BY <2>1, FS_Interval
  <2>3. Cardinality(1 .. (L + 1)) = (IF 1 > L + 1 THEN 0 ELSE (L + 1) - 1 + 1)
    BY <2>1, FS_Interval
  <2> QED
    BY <1>1, <2>2, <2>3
<1>4. IsFiniteSet(all) /\ Cardinality(all) <= L
  <2> DEFINE f == [p \in 1 .. L |-> image[p].slot]
  <2>1. all = {f[p] : p \in 1 .. L}
    OBVIOUS
  <2>2. f \in Surjection(1 .. L, all)
    BY <2>1 DEF Surjection
  <2> HIDE DEF f, all, L
  <2> QED
    BY <1>3, <2>2, FS_Surjection
<1>5. free # {}
  <2> SUFFICES ASSUME free = {} PROVE FALSE
    OBVIOUS
  <2>1. 1 .. (L + 1) \subseteq all
    BY <1>2
  <2> HIDE DEF all, L, free
  <2>2. Cardinality(1 .. (L + 1)) <= Cardinality(all)
    BY <1>4, <2>1, FS_Subset
  <2>3. Cardinality(all) \in Nat
    BY <1>4, FS_CardinalityType
  <2> QED
    BY <1>1, <1>3, <1>4, <2>2, <2>3
<1>6. free \in SUBSET Nat
  OBVIOUS
<1>7. FreeSlot(d) = Min(free)
  BY DEF FreeSlot
<1>8. Min(free) \in free
  <2> HIDE DEF free
  <2> QED
    BY <1>5, <1>6, MinOf
<1> QED
  BY <1>7, <1>8

\* What Create adds.
Added(e, path, kind, from) ==
    /\ e = Entry(ResolvePath(Front(path)), FreeSlot(ResolvePath(Front(path))), stored[Last(path)],
                 InodeRoot + Len(image) + 1, kind, from)
    /\ e.slot \notin SlotsOf(e.dir)
    /\ e \in Entries /\ image' = Append(image, e) /\ IsDir(e.dir)
    /\ path # <<>> /\ Last(path) \in Names /\ Lookup(e.dir, Last(path)) = 0

LEMMA Creates ==
    ASSUME TypeOK, GoodImage, NEW path \in Seq(Names), NEW kind \in {"reg", "dir"},
           NEW from \in HostNodes \cup {NoNode}, Create(path, kind, from), UNCHANGED given
    PROVE  (\E e : Added(e, path, kind, from)) /\ Grows /\ failures' = failures
<1> DEFINE dir == ResolvePath(Front(path))
           e == Entry(dir, FreeSlot(dir), stored[Last(path)], InodeRoot + Len(image) + 1, kind, from)
<1>1. /\ image' = Append(image, e) /\ failures' = failures /\ path # <<>>
      /\ IsDir(ResolvePath(Front(path))) /\ Lookup(ResolvePath(Front(path)), Last(path)) = 0
  BY DEF Create, MayCreate
<1>2. ResolvePath(Front(path)) \in Nat
  BY <1>1, DirectoryNumber
<1>3. Last(path) \in Names /\ stored[Last(path)] \in Names
  <2>1. Last(path) \in Names
    BY <1>1, FrontIs
  <2>2. stored \in [Names -> Names]
    BY BatchCopyAssumption DEF TypeOK
  <2> QED
    BY <2>1, <2>2
<1>4. InodeRoot + Len(image) + 1 \in Nat
  BY DEF GoodImage, InodeRoot
<1>8. FreeSlot(dir) \in Nat \ {0} /\ FreeSlot(dir) \notin SlotsOf(dir)
  BY FreeSlotIs
<1>5. /\ e \in Entries /\ e.dir = dir /\ e.ino = InodeRoot + Len(image) + 1
      /\ e.slot = FreeSlot(dir) /\ e.name = stored[Last(path)]
  <2> HIDE DEF dir
  <2> QED
    BY <1>2, <1>3, <1>4, <1>8 DEF Entry, Entries, dir
<1>6. Added(e, path, kind, from)
  <2>1. e.dir = dir /\ e \in Entries /\ e.slot \notin SlotsOf(e.dir)
    BY <1>5, <1>8
  <2> QED
    BY <1>1, <1>3, <2>1 DEF Added
<1>7. Grows
  <2>1. e.slot \notin SlotsOf(e.dir) /\ Lookup(e.dir, Last(path)) = 0 /\ IsDir(e.dir)
    BY <1>1, <1>5, <1>8
  <2>2. stored' = stored
    BY DEF given
  <2> HIDE DEF e, dir
  <2> QED
    BY <1>1, <1>3, <1>5, <2>1, <2>2 DEF Grows
<1> QED
  BY <1>1, <1>6, <1>7

LEMMA NotCreated ==
    ASSUME TypeOK, NEW path, CreateFails(path) \/ (Fail /\ image' = image), UNCHANGED given
    PROVE  image' = image /\ failures' \in 0 .. MaxFailures /\ Grows
<1>1. MaxFailures \in Nat /\ failures \in 0 .. MaxFailures
  BY BatchCopyAssumption DEF TypeOK
<1>2. Fail => failures' \in 0 .. MaxFailures
  BY <1>1 DEF Fail
<1> QED
  BY <1>1, <1>2 DEF CreateFails, Grows, given

LEMMA PathToIs ==
    ASSUME TypeOK, pc = "entries", NEW n \in HostNodes
    PROVE  PathTo(n) \in Seq(Names) /\ Top \in Frames /\ stack # <<>> /\ stack \in Seq(Frames)
<1>1. stack # <<>> /\ stack \in Seq(Frames)
  BY DEF TypeOK, Frames
<1>2. Top \in Frames
  BY <1>1, FrontIs DEF Top
<1>3. Top.path \in Seq(Names) /\ HostName[n] \in Names
  BY <1>2, Constants DEF Frames
<1> QED
  BY <1>1, <1>2, <1>3, AppendProperties DEF PathTo

\* The parts of a path.
LEMMA PartOf ==
    ASSUME NEW path \in Seq(Names), NEW k \in 1 .. Len(path)
    PROVE  /\ SubSeq(path, 1, k) \in Seq(Names) /\ SubSeq(path, 1, k) # <<>>
           /\ SubSeq(path, 1, k) = Append(SubSeq(path, 1, k - 1), path[k])
           /\ Front(SubSeq(path, 1, k)) = SubSeq(path, 1, k - 1)
           /\ Last(SubSeq(path, 1, k)) = path[k] /\ path[k] \in Names
           /\ SubSeq(path, 1, k - 1) \in Seq(Names)
<1>1. Len(path) \in Nat /\ k \in Nat /\ k >= 1 /\ k <= Len(path)
  OBVIOUS
<1>2. /\ SubSeq(path, 1, k) \in Seq(Names) /\ SubSeq(path, 1, k - 1) \in Seq(Names)
      /\ path[k] \in Names
      /\ SubSeq(path, 1, k) = Append(SubSeq(path, 1, k - 1), path[k])
      /\ Len(SubSeq(path, 1, k)) = k /\ SubSeq(path, 1, k)[k] = path[k]
  BY <1>1
<1>3. SubSeq(SubSeq(path, 1, k), 1, k - 1) = SubSeq(path, 1, k - 1)
  BY <1>1
<1>4. SubSeq(path, 1, k) # <<>>
  BY <1>1, <1>2
<1> QED
  BY <1>2, <1>3, <1>4 DEF Front, Last

LEMMA TypesStep == BatchTypes /\ [Next]_vars => BatchTypes' /\ Grows
<1> SUFFICES ASSUME BatchTypes, [Next]_vars PROVE BatchTypes' /\ Grows
  OBVIOUS
<1>1. TypeOK /\ GoodImage
  BY DEF BatchTypes, TypeOK, GoodImage
<1>2. ASSUME Grows, TypeOK', pc' = "open" => child' \in HostNodes
      PROVE  BatchTypes' /\ Grows
  <2>1. GoodImage'
    BY <1>1, <1>2, ImageStaysGood
  <2> QED
    BY <1>2, <2>1 DEF BatchTypes, GoodImage
<1>3. Grows => image' \in Seq(Entries)
  BY <1>1, ImageStaysGood DEF GoodImage
<1>4. CASE CopySingle
  <2>1. target \in Seq(Names) /\ source \in HostNodes \cup {NoNode}
    BY <1>1, BatchCopyAssumption DEF TypeOK
  <2>2. Grows /\ failures' \in 0 .. MaxFailures
    BY <1>1, <1>4, <2>1, Creates, NotCreated DEF CopySingle, TypeOK
  <2>3. TypeOK' /\ pc' # "open"
    BY <1>1, <1>3, <1>4, <2>2 DEF CopySingle, TypeOK, given
  <2> QED
    BY <1>2, <2>2, <2>3
<1>5. CASE OpenDirectory
  <2>1. child \in HostNodes
    BY <1>5 DEF BatchTypes, OpenDirectory
  <2>2. Grows /\ failures' \in 0 .. MaxFailures /\ (pc' = "died" \/ pc' = "parts")
    BY <1>1, <1>5, NotCreated DEF OpenDirectory, TypeOK, Grows, given
  <2>3. [node |-> child, path |-> making, rest |-> Children(child)] \in Frames
    BY <1>1, <2>1 DEF TypeOK, Frames, Children
  <2>4. stack' \in Seq(Frames)
    <3> DEFINE top == [node |-> child, path |-> making, rest |-> Children(child)]
    <3>1. top \in Frames /\ stack \in Seq(Frames)
      BY <1>1, <2>3 DEF TypeOK, Frames
    <3>2. stack' = Append(stack, top) \/ stack' = stack
      BY <1>5 DEF OpenDirectory
    <3> HIDE DEF top
    <3> QED
      BY <3>1, <3>2, AppendProperties
  <2>5. part' \in 0 .. Len(making') /\ child' \in HostNodes \cup {NoNode}
    <3>1. making' = making /\ part' = 0 /\ child' = NoNode /\ Len(making) \in Nat
      BY <1>1, <1>5 DEF OpenDirectory, TypeOK
    <3> QED
      BY <3>1
  <2>6. TypeOK'
    BY <1>1, <1>3, <1>5, <2>2, <2>4, <2>5 DEF OpenDirectory, TypeOK, given, Frames
  <2> QED
    BY <1>2, <2>2, <2>6
<1>6. CASE MakePart
  <2> DEFINE next == SubSeq(making, 1, part + 1)
  <2>1. part + 1 \in 1 .. Len(making) /\ making \in Seq(Names) /\ part \in Nat
        /\ child \in HostNodes \cup {NoNode}
    BY <1>1, <1>6 DEF MakePart, TypeOK
  <2>2. next \in Seq(Names)
    BY <2>1, PartOf
  <2>3. \/ UNCHANGED <<image, pc, failures, warned>> /\ part' = part + 1
        \/ Create(next, "dir", child) /\ UNCHANGED <<pc, warned>> /\ part' = part + 1
        \/ /\ CreateFails(next) /\ part' = part
           /\ pc' = IF stack = <<>> THEN "died" ELSE "entries"
           /\ warned' = warned \cup ({child} \ {NoNode})
    BY <1>6 DEF MakePart
  <2> HIDE DEF next
  <2>4. Grows /\ failures' \in 0 .. MaxFailures
    <3>1. UNCHANGED given /\ stored' = stored /\ failures \in 0 .. MaxFailures
      BY <1>1, <1>6 DEF MakePart, TypeOK, given
    <3> QED
      BY <1>1, <2>1, <2>2, <2>3, <3>1, Creates, NotCreated DEF Grows
  <2>5. part' \in 0 .. Len(making')
    <3>1. part' = part \/ part' = part + 1
      BY <2>3
    <3> QED
      BY <1>6, <2>1, <3>1 DEF MakePart
  <2>6. warned' \subseteq HostNodes
    BY <1>1, <2>1, <2>3 DEF TypeOK
  <2>7. /\ pc' \in {"parts", "died", "entries"} /\ (pc' = "entries" => stack # <<>>)
        /\ UNCHANGED <<given, stack, making, child>>
    BY <1>6, <2>3 DEF MakePart
  <2>8. TypeOK'
    BY <1>1, <1>3, <2>4, <2>5, <2>6, <2>7 DEF TypeOK, given
  <2> QED
    BY <1>2, <2>4, <2>7, <2>8
<1>7. CASE MadeAll
  <2>1. Grows
    BY <1>7 DEF MadeAll, Grows, given
  <2>2. TypeOK'
    BY <1>1, <1>7 DEF MadeAll, TypeOK, given
  <2> QED
    BY <1>1, <1>2, <1>7, <2>1, <2>2 DEF MadeAll, TypeOK
<1>8. CASE Return
  <2>1. Grows
    BY <1>8 DEF Return, Grows, given
  <2>2. stack \in Seq(Frames) /\ stack # <<>>
    BY <1>1, <1>8 DEF Return, TypeOK, Frames
  <2>3. stack' \in Seq(Frames) /\ Len(stack') = Len(stack) - 1 /\ Len(stack) \in Nat \ {0}
    BY <1>8, <2>2, FrontIs DEF Return
  <2>4. pc' = "entries" => stack' # <<>>
    BY <1>8, <2>3 DEF Return
  <2>5. TypeOK' /\ pc' # "open"
    BY <1>1, <1>8, <2>3, <2>4 DEF Return, TypeOK, Frames, given
  <2> QED
    BY <1>2, <2>1, <2>5
<1>9. ASSUME NEW n \in HostNodes, CopyDirectory(n) PROVE BatchTypes' /\ Grows
  <2>1. Grows
    BY <1>9 DEF CopyDirectory, Grows, given
  <2>2. pc = "entries" /\ Took(n)
    BY <1>9 DEF CopyDirectory
  <2>3. PathTo(n) \in Seq(Names) /\ stack' \in Seq(Frames)
    BY <1>1, <2>2, PathToIs, TookIs
  <2>4. making' \in Seq(Names) /\ part' \in 0 .. Len(making')
    BY <1>9, <2>3 DEF CopyDirectory
  <2>5. TypeOK' /\ pc' # "open"
    BY <1>1, <1>3, <1>9, <2>1, <2>3, <2>4 DEF CopyDirectory, TypeOK, Frames, given
  <2> QED
    BY <1>2, <2>1, <2>5
<1>10. ASSUME NEW n \in HostNodes, CopyFile(n) PROVE BatchTypes' /\ Grows
  <2>1. pc = "entries" /\ Took(n) /\ n \in HostNodes \cup {NoNode}
    BY <1>10 DEF CopyFile
  <2>2. PathTo(n) \in Seq(Names) /\ stack' \in Seq(Frames) /\ stack' # <<>>
    BY <1>1, <2>1, PathToIs, TookIs
  <2>3. Grows /\ failures' \in 0 .. MaxFailures
    BY <1>1, <1>10, <2>1, <2>2, Creates, NotCreated DEF CopyFile, TypeOK
  <2>4. TypeOK' /\ pc' # "open"
    BY <1>1, <1>3, <1>10, <2>2, <2>3 DEF CopyFile, TypeOK, Frames, given
  <2> QED
    BY <1>2, <2>3, <2>4
<1>11. CASE UNCHANGED vars
  BY <1>1, <1>11 DEF BatchTypes, TypeOK, Sound, Grows, vars, given
<1> QED
  BY <1>4, <1>5, <1>6, <1>7, <1>8, <1>9, <1>10, <1>11 DEF Next, Step, Exited

LEMMA TypesInit == Init => BatchTypes
<1> SUFFICES ASSUME Init PROVE BatchTypes
  OBVIOUS
<1>1. target \in Seq(Names) /\ Len(target) \in Nat /\ MaxFailures \in Nat
  <2>1. PICK path \in Seq(Names) :
           \/ target = path
           \/ source \in HostNodes /\ target = Append(path, HostName[source])
    BY BatchCopyAssumption DEF Init, PathsFor
  <2>2. source \in HostNodes => Append(path, HostName[source]) \in Seq(Names)
    BY Constants, AppendProperties
  <2> QED
    BY <2>1, <2>2, BatchCopyAssumption
<1>2. image \in Seq(Entries) /\ Sound(image)
  BY BatchCopyAssumption DEF Init
<1>3. pc = "open" => source \in HostNodes
  BY Constants DEF Init
<1> QED
  BY <1>1, <1>2, <1>3 DEF Init, BatchTypes, TypeOK

\* Types, for every tree on the host and every image: in particular the
\* recursion returns as often as it was entered.
THEOREM CopyTypes == Spec => []TypeOK
<1>1. BatchTypes => TypeOK
  BY DEF BatchTypes
<1>2. BatchTypes /\ [Next]_vars => BatchTypes'
  BY TypesStep
<1> QED
  BY <1>1, <1>2, TypesInit, PTL DEF Spec


-----------------------------------------------------------------------------
(* cp only adds.                                                           *)

LEMMA OnlyCreates ==
    ASSUME BatchTypes, [Next]_vars
    PROVE  \/ image' = image
           \/ \E e, path, kind, from : Added(e, path, kind, from)
<1>1. TypeOK /\ GoodImage
  BY DEF BatchTypes, TypeOK, GoodImage
<1>2. CASE CopySingle
  <2>1. target \in Seq(Names) /\ source \in HostNodes \cup {NoNode}
    BY <1>1, BatchCopyAssumption DEF TypeOK
  <2>2. Create(target, "reg", source) \/ image' = image
    BY <1>2 DEF CopySingle, CreateFails
  <2>3. UNCHANGED given
    BY <1>2 DEF CopySingle
  <2> QED
    BY <1>1, <2>1, <2>2, <2>3, Creates
<1>3. CASE MakePart
  <2> DEFINE next == SubSeq(making, 1, part + 1)
  <2>1. part + 1 \in 1 .. Len(making) /\ making \in Seq(Names) /\ child \in HostNodes \cup {NoNode}
    BY <1>1, <1>3 DEF MakePart, TypeOK
  <2>2. next \in Seq(Names)
    BY <2>1, PartOf
  <2>3. Create(next, "dir", child) \/ image' = image
    BY <1>3 DEF MakePart, CreateFails
  <2>4. UNCHANGED given
    BY <1>3 DEF MakePart
  <2> HIDE DEF next
  <2> QED
    BY <1>1, <2>1, <2>2, <2>3, <2>4, Creates
<1>4. ASSUME NEW n \in HostNodes, CopyFile(n)
      PROVE  image' = image \/ \E e, path, kind, from : Added(e, path, kind, from)
  <2>1. PathTo(n) \in Seq(Names) /\ n \in HostNodes \cup {NoNode}
    BY <1>1, <1>4, PathToIs DEF CopyFile
  <2>2. Create(PathTo(n), "reg", n) \/ image' = image
    BY <1>4 DEF CopyFile, CreateFails
  <2>3. UNCHANGED given
    BY <1>4 DEF CopyFile
  <2> QED
    BY <1>1, <2>1, <2>2, <2>3, Creates
<1>5. CASE OpenDirectory \/ MadeAll \/ Return \/ (\E n \in HostNodes : CopyDirectory(n)) \/ UNCHANGED vars
  BY <1>5 DEF OpenDirectory, MadeAll, Return, CopyDirectory, vars
<1> QED
  BY <1>2, <1>3, <1>4, <1>5 DEF Next, Step, Exited

\* An entry as the tree shows it.
Shown(e) == [dir |-> e.dir, name |-> e.name, ino |-> e.ino, kind |-> e.kind]

LEMMA TreeIs ==
    ASSUME GoodImage
    PROVE  Tree = {Shown(image[p]) : p \in DOMAIN image}
<1>1. Range(image) = {image[p] : p \in DOMAIN image}
  BY DEF Range
<1> QED
  BY <1>1 DEF Tree, Shown

LEMMA LinksOne ==
    ASSUME GoodImage, Grows, Faithful,
           NEW e, NEW path, NEW kind, NEW from, Added(e, path, kind, from)
    PROVE  /\ Shown(e) \in Tree' \ Tree /\ Tree' = Tree \cup {Shown(e)}
           /\ Files!Link(Shown(e))
<1> DEFINE s == Shown(e)
           L == Len(image)
<1>1. /\ e \in Entries /\ image' = Append(image, e) /\ e.ino = InodeRoot + L + 1
      /\ IsDir(e.dir) /\ e.name = stored[Last(path)] /\ Last(path) \in Names
      /\ Lookup(e.dir, Last(path)) = 0
  BY DEF Added, Entry
<1>2. /\ DOMAIN image' = DOMAIN image \cup {L + 1} /\ L \in Nat
      /\ \A p \in DOMAIN image : image'[p] = image[p]
      /\ image'[L + 1] = e
  BY <1>1, Appended
<1>3. GoodImage'
  BY ImageStaysGood
<1>4. Tree = {Shown(image[p]) : p \in DOMAIN image}
  BY TreeIs
<1>5. Tree' = {Shown(image'[p]) : p \in DOMAIN image'}
  <2>1. Range(image)' = {image'[p] : p \in DOMAIN image'}
    BY DEF Range
  <2> QED
    BY <2>1 DEF Tree, Shown
<1>6. s.dir = e.dir /\ s.name = e.name /\ s.ino = e.ino /\ s.kind = e.kind
  BY DEF Shown
<1>7. ASSUME NEW f \in Tree
      PROVE  \E p \in DOMAIN image : /\ f = Shown(image[p]) /\ f.dir = image[p].dir
                                     /\ f.name = image[p].name /\ f.ino = image[p].ino
                                     /\ f.kind = image[p].kind
  BY <1>4 DEF Shown
<1>8. \A f \in Tree : f.ino # s.ino
  <2>1. \A p \in DOMAIN image : image[p].ino \in (InodeRoot + 1) .. (InodeRoot + L)
    BY DEF GoodImage, Sound
  <2> QED
    BY <1>1, <1>2, <1>6, <1>7, <2>1 DEF InodeRoot
<1>9. s \notin Tree
  BY <1>8
<1>10. Tree' = Tree \cup {s}
  BY <1>2, <1>4, <1>5
<1>11. \A f \in Tree : f.dir = s.dir => f.name # s.name
  <2>1. e.name = Last(path)
    BY <1>1 DEF Faithful
  <2>2. \A p \in DOMAIN image : ~(image[p].dir = e.dir /\ image[p].name = Last(path))
    <3> DEFINE hits == Hits(e.dir, Last(path))
    <3>1. hits # {} => Lookup(e.dir, Last(path)) \in (InodeRoot + 1) .. (InodeRoot + L)
      BY LookupIs
    <3>2. hits = {}
      BY <1>1, <1>2, <3>1 DEF InodeRoot
    <3> QED
      BY <3>2, HitsAre
  <2> QED
    BY <1>6, <1>7, <2>1, <2>2
<1>12. s.dir \in Files!Directories
  <2>1. CASE e.dir = InodeRoot
    BY <1>6, <2>1 DEF Files!Directories
  <2>2. CASE e.dir # InodeRoot
    <3>1. PICK p \in DOMAIN image : image[p].ino = e.dir /\ image[p].kind = "dir"
      BY <1>1, <2>2 DEF IsDir
    <3>2. Shown(image[p]) \in Tree
      BY <1>4
    <3>3. Shown(image[p]).kind = "dir" /\ Shown(image[p]).ino = e.dir
      BY <3>1 DEF Shown
    <3> QED
      BY <1>6, <3>2, <3>3 DEF Files!Directories
  <2> QED
    BY <2>1, <2>2
<1>13. s.ino \notin {InodeRoot} \cup {f.ino : f \in Tree}
  BY <1>1, <1>2, <1>6, <1>8 DEF InodeRoot
<1> HIDE DEF s
<1>14. Files!Link(s)
  BY <1>10, <1>11, <1>12, <1>13 DEF Files!Link
<1> QED
  BY <1>9, <1>10, <1>14 DEF s

\* As long as names read back as they are stored, every step that changes the
\* tree of files adds one entry to it, in a directory, by a name not taken
\* there, with an inode of its own.
THEOREM CopyGrowsTheTree == Spec => GrowsTheTree
<1> DEFINE Adds == Faithful => \E e \in Tree' \ Tree : Tree' = Tree \cup {e} /\ Files!Link(e)
<1>1. BatchTypes /\ [Next]_vars => [Adds]_Tree
  <2> SUFFICES ASSUME BatchTypes, [Next]_vars, Tree' # Tree, Faithful
               PROVE  \E e \in Tree' \ Tree : Tree' = Tree \cup {e} /\ Files!Link(e)
    OBVIOUS
  <2>1. GoodImage /\ Grows
    BY TypesStep DEF BatchTypes, TypeOK, GoodImage
  <2>2. image' # image
    BY DEF Tree, Range
  <2>3. PICK e, path, kind, from : Added(e, path, kind, from)
    BY <2>2, OnlyCreates
  <2> QED
    BY <2>1, <2>3, LinksOne
<1>2. BatchTypes /\ [Next]_vars => BatchTypes'
  BY TypesStep
<1> QED
  BY <1>1, <1>2, TypesInit, PTL DEF Spec, GrowsTheTree


-----------------------------------------------------------------------------
(* What is in the image stays there.                                       *)

LEMMA PathsFixed ==
    ASSUME UNCHANGED given
    PROVE  HostPath' = HostPath /\ Copied' = Copied
<1>1. source' = source /\ target' = target
  BY DEF given
<1>2. HostPath' = HostPath
  BY <1>1 DEF HostPath
<1>3. Copied' = Copied
  BY <1>1 DEF Copied
<1> QED
  BY <1>2, <1>3

LEMMA CopiedPaths ==
    ASSUME TypeOK
    PROVE  /\ \A n \in Copied : HostPath[n] \in Seq(Names)
           /\ source \in HostNodes => HostPath[source] = target
           /\ \A n \in Copied : \A m \in Children(n) :
                 HostPath[m] = Append(HostPath[n], HostName[m])
           /\ \A n \in Copied : n # source =>
                 HostPath[n] = Append(HostPath[HostParent[n]], HostName[n])
<1>1. target \in Seq(Names)
  BY BatchCopyAssumption DEF TypeOK
<1>2. Copied \subseteq HostNodes /\ NoNode \notin HostNodes
  BY CopiedAre, Constants
<1>3. \A n \in HostNodes :
         /\ HostPath[n] \in Seq(Names)
         /\ HostPath[n] = IF n = source \/ HostParent[n] = NoNode THEN target
                          ELSE Append(HostPath[HostParent[n]], HostName[n])
  BY <1>1, HostPathIs
<1>4. ASSUME NEW n \in Copied, n # source
      PROVE  HostPath[n] = Append(HostPath[HostParent[n]], HostName[n])
  <2>1. n \in HostNodes /\ HostParent[n] \in HostNodes
    BY <1>2, <1>4, CopiedAre
  <2> QED
    BY <1>2, <1>3, <1>4, <2>1
<1>5. ASSUME NEW n \in Copied, NEW m \in Children(n)
      PROVE  HostPath[m] = Append(HostPath[n], HostName[m])
  BY <1>4, CopiedAre
<1> QED
  BY <1>2, <1>3, <1>4, <1>5

LEMMA FrontOfAppend ==
    ASSUME NEW S, NEW s \in Seq(S), NEW x \in S
    PROVE  Front(Append(s, x)) = s /\ Last(Append(s, x)) = x /\ Append(s, x) # <<>>
<1>1. /\ Append(s, x) \in Seq(S) /\ Append(s, x) # <<>> /\ Len(Append(s, x)) = Len(s) + 1
      /\ \A i \in 1 .. Len(s) : Append(s, x)[i] = s[i]
      /\ Append(s, x)[Len(s) + 1] = x
  BY AppendProperties
<1> DEFINE t == Append(s, x)
<1> HIDE DEF t
<1>2. /\ t \in Seq(S) /\ t # <<>> /\ Len(t) = Len(s) + 1 /\ Len(s) \in Nat
      /\ \A i \in 1 .. Len(s) : t[i] = s[i]
      /\ t[Len(s) + 1] = x
  BY <1>1 DEF t
<1>3. /\ Front(t) \in Seq(S) /\ Len(Front(t)) = Len(t) - 1
      /\ \A k \in 1 .. (Len(t) - 1) : Front(t)[k] = t[k]
  BY <1>2, FrontIs
<1>4. Len(Front(t)) = Len(s) /\ \A k \in 1 .. Len(s) : Front(t)[k] = s[k]
  BY <1>2, <1>3
<1>5. Front(t) = s
  BY <1>3, <1>4, SeqEqual
<1>6. Last(t) = x
  BY <1>2 DEF Last
<1> QED
  BY <1>2, <1>5, <1>6 DEF t

\* A path that leads to a directory goes through directories.
LEMMA DirectoriesAbove ==
    ASSUME TypeOK, GoodImage, NEW d \in Copied, NEW e \in Copied, d \in Above[e],
           IsDir(ResolvePath(HostPath[e]))
    PROVE  IsDir(ResolvePath(HostPath[d]))
<1> SUFFICES ASSUME ~IsDir(ResolvePath(HostPath[d])) PROVE FALSE
  OBVIOUS
<1> DEFINE T == {x \in Copied : d \in Above[x] /\ IsDir(ResolvePath(HostPath[x]))}
<1>1. Copied \subseteq HostNodes /\ PathFacts
  BY CopiedAre, Resolves
<1>2. ASSUME NEW x \in T PROVE HostParent[x] \in T
  <2> DEFINE f == HostParent[x]
  <2>1. x # d
    OBVIOUS
  <2>2. x # source
    <3> SUFFICES ASSUME x = source PROVE FALSE
      OBVIOUS
    <3>1. source \in Above[d]
      BY DEF Copied
    <3> QED
      BY <1>1, <2>1, <3>1, NoLoop
  <2>3. f \in Copied /\ f \in HostNodes /\ f # NoNode /\ x \in HostNodes /\ HostName[x] \in Names
    BY <1>1, <2>2, CopiedAre, Constants
  <2>4. d \in Above[f]
    BY <2>1, <2>3, AboveParent
  <2>5. HostPath[f] \in Seq(Names) /\ HostPath[x] = Append(HostPath[f], HostName[x])
    BY <2>2, <2>3, CopiedPaths
  <2>6. ResolvePath(HostPath[x]) = Lookup(ResolvePath(HostPath[f]), HostName[x])
    BY <1>1, <2>3, <2>5 DEF PathFacts
  <2>7. ResolvePath(HostPath[x]) # 0
    BY DirectoryNumber
  <2>8. IsDir(ResolvePath(HostPath[f]))
    BY <2>6, <2>7, LookedUp
  <2> QED
    BY <2>3, <2>4, <2>8
<1>3. T \in SUBSET HostNodes /\ e \in T
  BY <1>1
<1> HIDE DEF T
<1> QED
  BY <1>2, <1>3, Constants

LEMMA ArrivedStays ==
    ASSUME TypeOK, GoodImage, Grows, UNCHANGED given,
           NEW n \in Copied, NEW froms, Arrived(n, froms)
    PROVE  Arrived(n, froms)'
<1>1. stored' = stored /\ HostPath' = HostPath /\ HostPath[n] # <<>> /\ HostPath[n] \in Seq(Names)
  BY PathsFixed, CopiedPaths DEF given, Arrived
<1>2. PICK front \in Seq(Names) : front = Front(HostPath[n])
  BY <1>1, FrontIs
<1>3. PICK p \in DOMAIN image :
         /\ image[p].name = stored[Last(HostPath[n])]
         /\ image[p].kind = HostKind[n] /\ image[p].from \in froms
         /\ image[p].dir = ResolvePath(front) \/ Overtaken(front)
  BY <1>2 DEF Arrived, Made
<1>4. image'[p].dir = ResolvePath(front)' \/ Overtaken(front)'
  <2>1. CASE Overtaken(front)
    BY <2>1, OvertakenStays
  <2>2. CASE image[p].dir = ResolvePath(front)
    <3>1. IsDir(image[p].dir)
      BY DEF GoodImage, Sound, IsDir
    <3>2. ResolvePath(front) # 0
      BY <2>2, <3>1, DirectoryNumber
    <3>3. image'[p] = image[p]
      BY HitsKept
    <3> QED
      BY <2>2, <3>2, <3>3, PathsStay
  <2> QED
    BY <1>3, <2>1, <2>2
<1>5. p \in DOMAIN image' /\ image'[p] = image[p]
  BY HitsKept
<1>6. p \in Made(n, froms)'
  BY <1>1, <1>3, <1>5 DEF Made
<1>7. image'[p].dir = ResolvePath(Front(HostPath[n]))' \/ Overtaken(Front(HostPath[n]))'
  BY <1>1, <1>2, <1>4
<1> QED
  BY <1>1, <1>6, <1>7 DEF Arrived

\* What is behind an overtaken path stays in the image.
LEMMA LeftBehindStays ==
    ASSUME GoodImage, Grows, NEW path \in Seq(Names),
           \/ LeftBehind(path)
           \/ IsDir(ResolvePath(path)) /\ Overtaken(path)'
    PROVE  LeftBehind(path)'
<1>1. CASE LeftBehind(path)
  <2>1. PICK p \in DOMAIN image : image[p].kind = "dir" /\ image[p].name = Last(path)
    BY <1>1 DEF LeftBehind
  <2>2. p \in DOMAIN image' /\ image'[p] = image[p]
    BY HitsKept
  <2>3. Overtaken(path)'
    BY <1>1, OvertakenStays DEF LeftBehind
  <2> QED
    BY <2>1, <2>2, <2>3 DEF LeftBehind
<1>2. CASE IsDir(ResolvePath(path)) /\ Overtaken(path)'
  <2>1. path # <<>>
    <3>1. \E k \in 1 .. Len(path) : TRUE
      BY <1>2 DEF Overtaken
    <3> QED
      BY <3>1
  <2>2. PICK d, i : d = ResolvePath(Front(path)) /\ i = ResolvePath(path)
    OBVIOUS
  <2>3. i # 0 /\ IsDir(i)
    BY <1>2, <2>2, DirectoryNumber
  <2>4. i = Lookup(d, Last(path))
    <3>1. Len(path) \in 1 .. Len(path) /\ SubSeq(path, 1, Len(path)) = path
      BY <2>1, SubSeqFull
    <3>2. /\ Front(path) \in Seq(Names) /\ Last(path) \in Names
          /\ path = Append(Front(path), Last(path))
      <4>1. Front(path) \in Seq(Names) /\ Last(path) \in Names
        BY <2>1, FrontIs
      <4>2. /\ SubSeq(path, 1, Len(path)) = Append(SubSeq(path, 1, Len(path) - 1), path[Len(path)])
        BY <3>1, PartOf
      <4> QED
        BY <3>1, <4>1, <4>2 DEF Front, Last
    <3> QED
      BY <2>2, <3>2, Resolves DEF PathFacts
  <2>5. PICK p \in Hits(d, Last(path)) : i = image[p].ino
    BY <2>3, <2>4, LookupIs
  <2>6. p \in DOMAIN image /\ image[p].name = Last(path)
    BY HitsAre
  <2>7. image[p].kind = "dir"
    <3>1. i # InodeRoot
      <4>1. image[p].ino \in (InodeRoot + 1) .. (InodeRoot + Len(image))
        BY <2>6 DEF GoodImage, Sound
      <4> QED
        BY <2>5, <4>1 DEF InodeRoot
    <3>2. PICK q \in DOMAIN image : image[q].ino = i /\ image[q].kind = "dir"
      BY <2>3, <3>1 DEF IsDir
    <3> QED
      BY <2>5, <2>6, <3>2 DEF GoodImage, Sound
  <2>8. p \in DOMAIN image' /\ image'[p] = image[p]
    BY <2>6, HitsKept
  <2> QED
    BY <1>2, <2>6, <2>7, <2>8 DEF LeftBehind
<1> QED
  BY <1>1, <1>2

LEMMA ThereStays ==
    ASSUME TypeOK, GoodImage, Grows, UNCHANGED given, NEW n \in Copied, There(n)
    PROVE  There(n)'
<1>1. HostPath' = HostPath
  BY PathsFixed
<1>2. PICK path \in Seq(Names) : path = HostPath[n]
  BY CopiedPaths
<1>3. CASE IsDir(ResolvePath(HostPath[n])) /\ ~Overtaken(path)'
  <2>1. PICK i : i = ResolvePath(path)
    OBVIOUS
  <2>2. i # 0 /\ IsDir(i)
    BY <1>2, <1>3, <2>1, DirectoryNumber
  <2>3. ResolvePath(path)' = i
    BY <1>3, <2>1, <2>2, PathsStay
  <2>4. IsDir(i)'
    BY <2>2, DirectoriesStay
  <2>5. ResolvePath(HostPath[n])' = i
    BY <1>1, <1>2, <2>3 DEF ResolvePath, Walk
  <2> QED
    BY <2>4, <2>5 DEF There, IsDir
<1>4. CASE \/ LeftBehind(HostPath[n])
           \/ IsDir(ResolvePath(HostPath[n])) /\ Overtaken(path)'
  <2>1. LeftBehind(path)'
    BY <1>2, <1>4, LeftBehindStays
  <2>2. LeftBehind(HostPath[n])'
    BY <1>1, <1>2, <2>1
  <2> QED
    BY <2>2 DEF There
<1>5. CASE Arrived(n, HostNodes \cup {NoNode})
  BY <1>5, ArrivedStays DEF There
<1> QED
  BY <1>3, <1>4, <1>5 DEF There

LEMMA BarredStays ==
    ASSUME TypeOK, GoodImage, Grows, NEW path \in Seq(Names), Barred(path)
    PROVE  Barred(path)'
<1>1. CASE Overtaken(path)
  BY <1>1, OvertakenStays DEF Barred
<1>2. CASE Blocked(path) /\ ~Overtaken(path)'
  <2>1. PICK k \in 1 .. Len(path) :
           LET i == ResolvePath(SubSeq(path, 1, k)) IN i # 0 /\ ~IsDir(i)
    BY <1>2 DEF Blocked
  <2>2. PICK to, i : to \in Seq(Names) /\ to = SubSeq(path, 1, k) /\ i = ResolvePath(to)
    BY PartOf
  <2>3. i # 0 /\ ~IsDir(i) /\ i \in 1 .. (InodeRoot + Len(image))
    BY <2>1, <2>2, PathsStay
  <2>4. ~Overtaken(to)'
    <3>1. OvertakenFacts'
      BY Overtakes, PTL
    <3>2. CASE k = Len(path)
      <4>1. to = path
        BY <2>2, <3>2, SubSeqFull
      <4> QED
        BY <1>2, <4>1
    <3>3. CASE k # Len(path)
      <4>1. k + 1 \in 1 .. Len(path) /\ (k + 1) - 1 = k
        BY <3>3
      <4>2. Overtaken(SubSeq(path, 1, (k + 1) - 1))' => Overtaken(path)'
        BY <3>1, <4>1 DEF OvertakenFacts
      <4>3. Overtaken(SubSeq(path, 1, k))' => Overtaken(path)'
        BY <4>1, <4>2
      <4> QED
        BY <1>2, <2>2, <4>3
    <3> QED
      BY <3>2, <3>3
  <2>5. ResolvePath(to)' = i
    BY <2>2, <2>3, <2>4, PathsStay
  <2>6. ~IsDir(i)'
    BY <2>3, DirectoriesStay
  <2>7. Blocked(path)'
    BY <2>2, <2>3, <2>5, <2>6 DEF Blocked, IsDir
  <2> QED
    BY <2>7 DEF Barred
<1>3. Overtaken(path)' => Barred(path)'
  BY DEF Barred
<1> QED
  BY <1>1, <1>2, <1>3 DEF Barred

LEMMA Arrives ==
    ASSUME TypeOK, GoodImage, Grows, UNCHANGED given, NEW n \in Copied,
           NEW froms, NEW from \in froms, NEW e, Added(e, HostPath[n], HostKind[n], from)
    PROVE  Arrived(n, froms)'
<1>1. stored' = stored /\ HostPath' = HostPath /\ HostPath[n] # <<>> /\ HostPath[n] \in Seq(Names)
  BY PathsFixed, CopiedPaths DEF given, Added
<1>2. /\ e.dir = ResolvePath(Front(HostPath[n])) /\ e.name = stored[Last(HostPath[n])]
      /\ e.kind = HostKind[n] /\ e.from = from /\ e \in Entries /\ image' = Append(image, e)
      /\ IsDir(e.dir)
  BY DEF Added, Entry
<1>3. PICK path \in Seq(Names) : path = Front(HostPath[n])
  BY <1>1, FrontIs
<1>4. ResolvePath(path)' = e.dir \/ Overtaken(path)'
  BY <1>2, <1>3, DirectoryNumber, PathsStay
<1>5. ResolvePath(Front(HostPath[n]))' = e.dir \/ Overtaken(Front(HostPath[n]))'
  BY <1>1, <1>3, <1>4
<1>6. Len(image) + 1 \in DOMAIN image' /\ image'[Len(image) + 1] = e
  BY <1>2, Appended
<1>7. Len(image) + 1 \in Made(n, froms)'
  BY <1>1, <1>2, <1>6 DEF Made
<1> QED
  BY <1>1, <1>2, <1>5, <1>6, <1>7 DEF Arrived


-----------------------------------------------------------------------------
(* Nothing is lost without a warning.                                      *)

\* A step that changes what is pending, and says what becomes of the files
\* and directories that no longer wait.
LEMMA Accounts ==
    ASSUME TypeOK, GoodImage, Grows, UNCHANGED given, FilesKept, DirectoriesKept,
           warned \subseteq warned',
           \A n \in Copied : HostKind[n] = "reg" /\ Waiting(n) =>
              Waiting(n)' \/ Reported(n)' \/ Arrived(n, {n})',
           \A n \in Copied : HostKind[n] = "dir" /\ Waiting(n) =>
              \/ Waiting(n)' \/ Reported(n)' \/ There(n)'
              \/ /\ \A m \in Below(n) : HostKind[m] = "reg" => Reported(m)' \/ Waiting(m)'
                 /\ Barred(HostPath[n])' \/ n = source,
           \A n \in Copied : HostKind[n] = "dir" =>
              \/ There(n)'
              \/ \A m \in Below(n) : HostKind[m] = "reg" /\ Waiting(m) => Reported(m)' \/ Waiting(m)'
    PROVE  FilesKept' /\ DirectoriesKept'
<1>1. Copied' = Copied /\ HostPath' = HostPath /\ source' = source
  BY PathsFixed DEF given
<1>2. \A n \in HostNodes : Reported(n) => Reported(n)'
  BY DEF Reported
<1>3. Copied \subseteq HostNodes /\ \A n \in HostNodes : Below(n) \subseteq HostNodes
  BY CopiedAre DEF Below
<1>4. ASSUME NEW n \in Copied, HostKind[n] = "reg"
      PROVE  Arrived(n, {n})' \/ Reported(n)' \/ Waiting(n)'
  <2>1. Arrived(n, {n}) \/ Reported(n) \/ Waiting(n)
    BY <1>4 DEF FilesKept
  <2>2. Arrived(n, {n}) => Arrived(n, {n})'
    BY ArrivedStays
  <2> QED
    BY <1>2, <1>3, <1>4, <2>1, <2>2
<1>5. ASSUME NEW n \in Copied, HostKind[n] = "dir"
      PROVE  \/ There(n)' \/ Reported(n)' \/ Waiting(n)'
             \/ /\ \A m \in Below(n) : HostKind[m] = "reg" => Reported(m)' \/ Waiting(m)'
                /\ Barred(HostPath[n])' \/ n = source
  <2>1. \/ There(n) \/ Reported(n) \/ Waiting(n)
        \/ /\ \A m \in Below(n) : HostKind[m] = "reg" => Reported(m) \/ Waiting(m)
           /\ Barred(HostPath[n]) \/ n = source
    BY <1>5 DEF DirectoriesKept
  <2>2. There(n) => There(n)'
    BY ThereStays
  <2>3. Barred(HostPath[n]) => Barred(HostPath[n])'
    <3>1. PICK path \in Seq(Names) : path = HostPath[n]
      BY CopiedPaths
    <3>2. Barred(path) => Barred(path)'
      BY BarredStays
    <3> QED
      BY <1>1, <3>1, <3>2
  <2> QED
    BY <1>2, <1>3, <1>5, <2>1, <2>2, <2>3
<1>6. FilesKept'
  <2>1. \A n \in Copied : HostKind[n] = "reg" => (Arrived(n, {n}) \/ Reported(n) \/ Waiting(n))'
    BY <1>4
  <2> QED
    BY <1>1, <2>1 DEF FilesKept
<1>7. DirectoriesKept'
  <2>1. \A n \in Copied : HostKind[n] = "dir" =>
           \/ There(n)' \/ Reported(n)' \/ Waiting(n)'
           \/ /\ \A m \in Below(n) : HostKind[m] = "reg" => Reported(m)' \/ Waiting(m)'
              /\ Barred(HostPath[n])' \/ n = source'
    BY <1>1, <1>5
  <2> QED
    BY <1>1, <2>1 DEF DirectoriesKept
<1> QED
  BY <1>6, <1>7

PendingMeans ==
    \A a : a \in Pending <=> \/ \E k \in DOMAIN stack : a \in stack[k].rest
                            \/ /\ pc \in {"single", "open", "parts"}
                               /\ a = child /\ a # NoNode

LEMMA PendingIs == PendingMeans
<1> SUFFICES ASSUME NEW a
             PROVE  a \in Pending <=> \/ \E k \in DOMAIN stack : a \in stack[k].rest
                                     \/ /\ pc \in {"single", "open", "parts"}
                                        /\ a = child /\ a # NoNode
  BY DEF PendingMeans
<1> DEFINE rests == UNION {stack[k].rest : k \in DOMAIN stack}
           own   == IF pc \in {"single", "open", "parts"} THEN {child} \ {NoNode} ELSE {}
<1>1. a \in rests <=> \E k \in DOMAIN stack : a \in stack[k].rest
  OBVIOUS
<1>2. a \in own <=> pc \in {"single", "open", "parts"} /\ a = child /\ a # NoNode
  OBVIOUS
<1>3. Pending = rests \cup own
  BY DEF Pending
<1> HIDE DEF rests, own
<1> QED
  BY <1>1, <1>2, <1>3

LEMMA PendingNow == PendingMeans'
BY PendingIs, PTL

LEMMA AllPending ==
    ASSUME TypeOK, GoodImage, Grows, UNCHANGED given, FilesKept, DirectoriesKept,
           warned \subseteq warned', Pending \subseteq Pending' \cup warned'
    PROVE  FilesKept' /\ DirectoriesKept'
<1>1. \A n \in HostNodes : Waiting(n) => Waiting(n)' \/ Reported(n)'
  BY DEF Waiting, Reported
<1>2. Copied \subseteq HostNodes /\ \A n \in HostNodes : Below(n) \subseteq HostNodes
  BY CopiedAre DEF Below
<1> QED
  BY <1>1, <1>2, Accounts

LEMMA CopyInit == Init => CopyInv
<1> SUFFICES ASSUME Init PROVE CopyInv
  OBVIOUS
<1>1. BatchTypes /\ TypeOK
  BY TypesInit DEF BatchTypes
<1>2. stack = <<>> /\ DOMAIN stack = {} /\ child = source /\ making = target /\ part = 0
  BY DEF Init
<1>3. source \in HostNodes \cup {NoNode} /\ NoNode \notin HostNodes
  BY Constants DEF Init
<1>4. Placed
  <2>1. CASE source = NoNode
    BY <1>2, <2>1 DEF Init, Placed
  <2>2. CASE source # NoNode
    <3>1. source \in HostNodes /\ source \in Copied /\ HostPath[source] = target
          /\ HostKind[source] \in {"reg", "dir"}
      BY <1>1, <1>3, <2>2, CopiedAre, CopiedPaths, Constants
    <3> QED
      BY <1>2, <2>2, <3>1 DEF Init, Placed
  <2> QED
    BY <2>1, <2>2
<1>5. LastMade
  BY <1>2 DEF LastMade
<1>6. \A n \in Copied : Waiting(n)
  <2> SUFFICES ASSUME NEW n \in Copied PROVE Waiting(n)
    OBVIOUS
  <2>1. source \in Above[n] /\ source \in HostNodes
    BY CopiedAre DEF Copied
  <2>2. source \in Pending
    <3>1. pc \in {"single", "open", "parts"}
      BY DEF Init
    <3>2. child = source /\ source # NoNode
      BY <1>2, <1>3, <2>1
    <3> QED
      BY <3>1, <3>2, PendingIs DEF PendingMeans
  <2> QED
    BY <2>1, <2>2 DEF Waiting
<1> QED
  BY <1>1, <1>4, <1>5, <1>6 DEF CopyInv, FilesKept, DirectoriesKept

\* What every step may use.
Ready == CopyInv /\ pc # "died" /\ BatchTypes' /\ Grows

LEMMA Steady ==
    ASSUME Ready
    PROVE  /\ TypeOK /\ GoodImage /\ Placed /\ LastMade /\ FilesKept /\ DirectoriesKept
           /\ stack \in Seq(Frames) /\ DOMAIN stack = 1 .. Len(stack) /\ Len(stack) \in Nat
           /\ \A k \in DOMAIN stack : stack[k] \in Frames
<1>1. /\ TypeOK /\ GoodImage /\ Placed /\ LastMade /\ FilesKept /\ DirectoriesKept
      /\ stack \in Seq(Frames)
  BY DEF Ready, CopyInv, BatchTypes, TypeOK, GoodImage, Frames
<1> QED
  BY <1>1

LEMMA SingleStep == Ready /\ CopySingle => CopyInv'
<1> SUFFICES ASSUME Ready, CopySingle, pc' # "died" PROVE CopyInv'
  BY DEF CopyInv, Ready
<1>1. /\ TypeOK /\ GoodImage /\ Placed /\ Grows /\ BatchTypes'
  BY Steady DEF Ready
<1>2. /\ pc' = "done" /\ pc = "single" /\ Create(target, "reg", source)
      /\ UNCHANGED <<given, stack, making, part, child, warned>>
  BY DEF CopySingle
<1>3. stack = <<>> /\ DOMAIN stack = {} /\ source \in HostNodes /\ HostKind[source] = "reg"
  BY <1>1, <1>2 DEF Placed
<1>4. Placed' /\ LastMade'
  <2>1. stack' = <<>> /\ DOMAIN stack' = {}
    BY <1>2, <1>3
  <2> QED
    BY <1>2, <2>1 DEF Placed, LastMade
<1>5. Copied' = {source}
  <2>1. Copied = {source}
    BY <1>3, FilesAreLeaves, CopiedAre DEF Copied
  <2> QED
    BY <1>2, <2>1, PathsFixed
<1>6. Arrived(source, {source})'
  <2>1. target \in Seq(Names) /\ HostPath[source] = target /\ source \in Copied
    BY <1>1, <1>3, CopiedPaths, CopiedAre, BatchCopyAssumption DEF TypeOK
  <2>2. PICK e : Added(e, target, "reg", source)
    BY <1>1, <1>2, <1>3, <2>1, Creates
  <2>3. UNCHANGED given /\ source \in {source} /\ Added(e, HostPath[source], HostKind[source], source)
    BY <1>2, <1>3, <2>1, <2>2
  <2>4. PICK n \in Copied : n = source
    BY <2>1
  <2>5. Added(e, HostPath[n], HostKind[n], n)
    BY <2>3, <2>4
  <2>6. Arrived(n, {n})'
    BY <1>1, <2>3, <2>5, Arrives
  <2>7. source' = n
    BY <1>2, <2>4 DEF given
  <2> QED
    BY <2>6, <2>7 DEF Arrived
<1>7. FilesKept' /\ DirectoriesKept'
  <2>1. source' = source
    BY <1>2 DEF given
  <2> QED
    BY <1>3, <1>5, <1>6, <2>1 DEF FilesKept, DirectoriesKept
<1> QED
  BY <1>1, <1>4, <1>7 DEF CopyInv

LEMMA PartStep == Ready /\ MakePart => CopyInv'
<1> SUFFICES ASSUME Ready, MakePart, pc' # "died" PROVE CopyInv'
  BY DEF CopyInv, Ready
<1> DEFINE next == SubSeq(making, 1, part + 1)
<1>1. /\ TypeOK /\ GoodImage /\ Placed /\ Grows /\ BatchTypes' /\ FilesKept /\ DirectoriesKept
  BY Steady DEF Ready
<1>2. /\ pc = "parts" /\ UNCHANGED <<given, stack, making, child>>
      /\ \/ /\ ResolvePath(next) # 0
            /\ part' = part + 1 /\ UNCHANGED <<image, pc, failures, warned>>
         \/ Create(next, "dir", child) /\ part' = part + 1 /\ UNCHANGED <<pc, warned>>
         \/ /\ CreateFails(next)
            /\ pc' = IF stack = <<>> THEN "died" ELSE "entries"
            /\ warned' = warned \cup ({child} \ {NoNode}) /\ part' = part
  BY DEF MakePart
<1>3. /\ part + 1 \in 1 .. Len(making) /\ making \in Seq(Names) /\ part \in Nat
      /\ child \in HostNodes \cup {NoNode}
  BY <1>1 DEF MakePart, TypeOK
<1>4. next \in Seq(Names) /\ next # <<>>
  BY <1>3, PartOf
<1>5. /\ pc' = "parts" \/ (pc' = "entries" /\ stack # <<>> /\ warned' = warned \cup ({child} \ {NoNode}))
      /\ warned \subseteq warned'
  BY <1>2
<1>6. Copied' = Copied /\ HostPath' = HostPath /\ source' = source
  BY <1>2, PathsFixed DEF given
<1>7. Placed'
  BY <1>1, <1>2, <1>5, <1>6 DEF Placed
<1>8. LastMade'
  <2> SUFFICES ASSUME pc' = "parts" PROVE LastMade'
    BY DEF LastMade
  <2>1. PICK to \in Seq(Names) : to = next
    BY <1>4
  <2>2. SubSeq(making', 1, part') = to
    BY <1>2, <1>5, <2>1
  <2>3. \/ ResolvePath(to)' # 0
        \/ \E p \in DOMAIN image' :
              /\ image'[p].dir = ResolvePath(Front(to))' \/ Overtaken(Front(to))'
              /\ image'[p].name = stored'[Last(to)]
              /\ image'[p].kind = "dir"
    <3>1. CASE ResolvePath(next) # 0 /\ image' = image
      <4>1. ResolvePath(to)' = ResolvePath(to)
        <5>1. image' = image
          BY <3>1
        <5> QED
          BY <5>1 DEF ResolvePath, Walk, Lookup, Hits, First
      <4> QED
        BY <2>1, <3>1, <4>1
    <3>2. CASE Create(next, "dir", child)
      <4>1. PICK e : Added(e, to, "dir", child)
        BY <1>1, <1>2, <1>3, <2>1, <3>2, Creates
      <4>2. PICK front \in Seq(Names) : front = Front(to)
        BY <1>4, <2>1, FrontIs
      <4>3. /\ e.dir = ResolvePath(front) /\ e.name = stored[Last(to)] /\ e.kind = "dir"
            /\ e \in Entries /\ image' = Append(image, e) /\ IsDir(e.dir)
        BY <4>1, <4>2 DEF Added, Entry
      <4>4. ResolvePath(front)' = e.dir \/ Overtaken(front)'
        BY <1>1, <4>3, DirectoryNumber, PathsStay
      <4>5. Len(image) + 1 \in DOMAIN image' /\ image'[Len(image) + 1] = e
        BY <1>1, <4>3, Appended
      <4>6. stored' = stored
        BY <1>2 DEF given
      <4>7. e.dir = ResolvePath(Front(to))' \/ Overtaken(Front(to))'
        BY <4>2, <4>4
      <4> QED
        BY <4>2, <4>3, <4>5, <4>6, <4>7
    <3> QED
      BY <1>2, <1>5, <3>1, <3>2
  <2> QED
    BY <2>2, <2>3 DEF LastMade
<1>9. FilesKept' /\ DirectoriesKept'
  <2>1. ASSUME NEW a \in Pending PROVE a \in Pending' \cup warned'
    <3>1. \/ \E k \in DOMAIN stack : a \in stack[k].rest
          \/ a = child /\ a # NoNode
      BY PendingIs DEF PendingMeans
    <3>2. CASE \E k \in DOMAIN stack : a \in stack[k].rest
      BY <1>2, <3>2, PendingNow DEF PendingMeans
    <3>3. CASE a = child /\ a # NoNode
      BY <1>2, <1>5, <3>3, PendingNow DEF PendingMeans
    <3> QED
      BY <3>1, <3>2, <3>3
  <2> QED
    BY <1>1, <1>2, <1>5, <2>1, AllPending
<1> QED
  BY <1>1, <1>7, <1>8, <1>9 DEF CopyInv


LEMMA OpenStep == Ready /\ OpenDirectory => CopyInv'
<1> SUFFICES ASSUME Ready, OpenDirectory, pc' # "died" PROVE CopyInv'
  BY DEF CopyInv, Ready
<1> DEFINE top == [node |-> child, path |-> making, rest |-> Children(child)]
           m == Len(stack)
<1>1. /\ TypeOK /\ GoodImage /\ Placed /\ Grows /\ BatchTypes' /\ FilesKept /\ DirectoriesKept
      /\ stack \in Seq(Frames) /\ DOMAIN stack = 1 .. m /\ m \in Nat
  BY Steady DEF Ready
<1>2. /\ pc = "open" /\ pc' = "parts" /\ stack' = Append(stack, top)
      /\ part' = 0 /\ child' = NoNode /\ UNCHANGED <<given, image, making, warned>>
  BY DEF OpenDirectory
<1>3. /\ child \in Copied /\ HostKind[child] = "dir" /\ making = HostPath[child]
      /\ child = source \/ There(child) \/ Barred(making)
      /\ child \in HostNodes /\ making \in Seq(Names)
  BY <1>1, <1>2, CopiedAre DEF Placed, TypeOK
<1>4. top \in Frames
  BY <1>3 DEF Frames, Children
<1>5. top.node = child /\ top.path = making /\ top.rest = Children(child)
  OBVIOUS
<1> HIDE DEF top
<1>6. /\ DOMAIN stack' = DOMAIN stack \cup {m + 1} /\ stack' # <<>>
      /\ \A k \in DOMAIN stack : stack'[k] = stack[k]
      /\ stack'[m + 1] = top
  <2>1. /\ stack' \in Seq(Frames) /\ stack' # <<>> /\ Len(stack') = m + 1
        /\ \A k \in 1 .. m : stack'[k] = stack[k]
        /\ stack'[m + 1] = top
    BY <1>1, <1>2, <1>4, AppendProperties
  <2>2. DOMAIN stack' = 1 .. (m + 1)
    BY <2>1
  <2> QED
    BY <1>1, <2>1, <2>2
<1>7. Copied' = Copied /\ HostPath' = HostPath /\ source' = source
  BY <1>2, PathsFixed DEF given
<1>8. Placed' /\ LastMade'
  <2>1. ASSUME NEW k \in DOMAIN stack'
        PROVE  /\ stack'[k].node \in Copied /\ HostKind[stack'[k].node] = "dir"
               /\ stack'[k].path = HostPath[stack'[k].node]
               /\ stack'[k].rest \subseteq Children(stack'[k].node)
    <3>1. CASE k \in DOMAIN stack
      BY <1>1, <1>6, <3>1 DEF Placed
    <3>2. CASE k = m + 1
      BY <1>3, <1>5, <1>6, <3>2
    <3> QED
      BY <1>6, <3>1, <3>2
  <2> QED
    BY <1>2, <1>6, <1>7, <2>1 DEF Placed, LastMade
<1>9. ASSUME NEW a, a \in Pending
      PROVE  a \in Pending' \/ a = child
  <2>1. \/ \E k \in DOMAIN stack : a \in stack[k].rest
        \/ a = child
    BY <1>9, PendingIs DEF PendingMeans
  <2>2. ASSUME NEW k \in DOMAIN stack, a \in stack[k].rest PROVE a \in Pending'
    <3>1. k \in DOMAIN stack' /\ a \in stack'[k].rest
      BY <1>6, <2>2
    <3> QED
      BY <3>1, PendingNow DEF PendingMeans
  <2> QED
    BY <2>1, <2>2
<1>10. Children(child) \subseteq Pending'
  <2> SUFFICES ASSUME NEW a \in Children(child) PROVE a \in Pending'
    OBVIOUS
  <2>1. m + 1 \in DOMAIN stack' /\ a \in stack'[m + 1].rest
    BY <1>5, <1>6
  <2> QED
    BY <2>1, PendingNow DEF PendingMeans
<1>11. ASSUME NEW n \in HostNodes, Waiting(n), n # child PROVE Waiting(n)'
  <2>1. PICK a \in Above[n] : a \in Pending
    BY <1>11 DEF Waiting
  <2>2. CASE a \in Pending'
    BY <2>2 DEF Waiting
  <2>3. CASE a = child
    <3>1. PICK x \in Children(child) : x \in Above[n]
      BY <1>11, <2>3, NextBelow
    <3> QED
      BY <1>10, <3>1 DEF Waiting
  <2> QED
    BY <1>9, <2>1, <2>2, <2>3
<1>12. Copied \subseteq HostNodes /\ \A n \in HostNodes : Below(n) \subseteq HostNodes
  BY CopiedAre DEF Below
<1>13. \A n \in HostNodes : HostKind[n] = "reg" /\ Waiting(n) => Waiting(n)'
  BY <1>3, <1>11
<1>14. \A n \in Copied : HostKind[n] = "dir" /\ Waiting(n) =>
          \/ Waiting(n)' \/ Reported(n)' \/ There(n)'
          \/ /\ \A x \in Below(n) : HostKind[x] = "reg" => Reported(x)' \/ Waiting(x)'
             /\ Barred(HostPath[n])' \/ n = source
  <2> SUFFICES ASSUME NEW n \in Copied, n = child
               PROVE  \/ There(n)'
                      \/ /\ \A x \in Below(n) : HostKind[x] = "reg" => Waiting(x)'
                         /\ Barred(HostPath[n])' \/ n = source
    BY <1>11, <1>12
  <2>1. ASSUME NEW x \in Below(n), HostKind[x] = "reg" PROVE Waiting(x)'
    <3>1. x \in HostNodes /\ child \in Above[x] /\ child # x
      BY <1>3, <2>1 DEF Below
    <3>2. PICK y \in Children(child) : y \in Above[x]
      BY <3>1, NextBelow
    <3> QED
      BY <1>10, <3>2 DEF Waiting
  <2>2. There(n) => There(n)'
    BY <1>1, <1>2, ThereStays
  <2>3. Barred(making) => Barred(HostPath[n])'
    <3>1. PICK path \in Seq(Names) : path = making
      BY <1>3
    <3>2. Barred(path) => Barred(path)'
      BY <1>1, BarredStays
    <3>3. HostPath'[n] = path
      BY <1>3, <1>7, <3>1
    <3> QED
      BY <3>1, <3>2, <3>3
  <2> QED
    BY <1>3, <2>1, <2>2, <2>3
<1>15. FilesKept' /\ DirectoriesKept'
  <2>1. warned \subseteq warned' /\ UNCHANGED given
    BY <1>2
  <2> QED
    BY <1>1, <1>12, <1>13, <1>14, <2>1, Accounts
<1> QED
  BY <1>1, <1>8, <1>15 DEF CopyInv

LEMMA MadeStep == Ready /\ MadeAll => CopyInv'
<1> SUFFICES ASSUME Ready, MadeAll PROVE CopyInv'
  OBVIOUS
<1>1. /\ TypeOK /\ GoodImage /\ Placed /\ LastMade /\ Grows /\ BatchTypes'
      /\ FilesKept /\ DirectoriesKept
  BY Steady DEF Ready
<1>2. /\ pc = "parts" /\ part = Len(making)
      /\ pc' = IF stack = <<>> THEN "done" ELSE IF child = NoNode THEN "entries" ELSE "open"
      /\ UNCHANGED <<given, image, stack, making, part, child, warned>>
  BY DEF MadeAll
<1>3. Copied' = Copied /\ HostPath' = HostPath /\ source' = source
  BY <1>2, PathsFixed DEF given
<1>4. ASSUME pc' = "open"
      PROVE  /\ child \in Copied /\ HostKind[child] = "dir" /\ making = HostPath[child]
             /\ There(child) \/ Barred(making)
  <2>1. child \in Copied /\ HostKind[child] = "dir" /\ making = HostPath[child]
    BY <1>1, <1>2, <1>4 DEF Placed
  <2>2. making \in Seq(Names) /\ Len(making) \in Nat
    BY <1>1 DEF TypeOK
  <2>3. CASE Len(making) = 0
    <3>1. making = <<>>
      BY <2>2, <2>3
    <3>2. IsDir(ResolvePath(making))
      BY <3>1, Resolves DEF PathFacts, IsDir
    <3> QED
      BY <2>1, <3>2 DEF There
  <2>4. CASE Len(making) > 0
    <3>1. SubSeq(making, 1, part) = making /\ making # <<>> /\ Len(making) \in 1 .. Len(making)
      BY <1>2, <2>2, <2>4, SubSeqFull
    <3>2. CASE ResolvePath(making) # 0
      <4>1. ~IsDir(ResolvePath(making)) => Barred(making)
        <5>1. SubSeq(making, 1, Len(making)) = making
          BY <1>2, <3>1
        <5> QED
          BY <3>1, <3>2, <5>1 DEF Blocked, Barred
      <4> QED
        BY <2>1, <4>1 DEF There
    <3>3. CASE \E p \in DOMAIN image :
                  /\ image[p].dir = ResolvePath(Front(making)) \/ Overtaken(Front(making))
                  /\ image[p].name = stored[Last(making)]
                  /\ image[p].kind = "dir"
      <4>1. PICK p \in DOMAIN image :
               /\ image[p].dir = ResolvePath(Front(making)) \/ Overtaken(Front(making))
               /\ image[p].name = stored[Last(making)]
               /\ image[p].kind = "dir"
        BY <3>3
      <4>2. image[p] \in Entries
        BY <1>1 DEF GoodImage
      <4>3. image[p].from \in HostNodes \cup {NoNode}
        BY <4>2 DEF Entries
      <4>4. Arrived(child, HostNodes \cup {NoNode})
        BY <2>1, <3>1, <4>1, <4>3 DEF Arrived, Made
      <4> QED
        BY <2>1, <4>4 DEF There
    <3> QED
      BY <1>1, <1>2, <2>4, <3>1, <3>2, <3>3 DEF LastMade
  <2> QED
    BY <2>1, <2>2, <2>3, <2>4
<1>5. pc' = "open" => child = source \/ There(child)' \/ Barred(making)'
  <2> SUFFICES ASSUME pc' = "open" PROVE There(child)' \/ Barred(making)'
    OBVIOUS
  <2>1. There(child) => There(child)'
    <3>1. PICK n \in Copied : n = child
      BY <1>4
    <3>2. There(n) => There(n)'
      BY <1>1, <1>2, ThereStays
    <3>3. child' = n
      BY <1>2, <3>1
    <3> QED
      BY <3>1, <3>2, <3>3
  <2>2. Barred(making) => Barred(making)'
    <3>1. PICK path \in Seq(Names) : path = making
      BY <1>1 DEF TypeOK
    <3>2. Barred(path) => Barred(path)'
      BY <1>1, BarredStays
    <3>3. making' = path
      BY <1>2, <3>1
    <3> QED
      BY <3>1, <3>2, <3>3
  <2> QED
    BY <1>4, <2>1, <2>2
<1>6. Placed' /\ LastMade'
  <2>1. pc' = "done" => stack' = <<>>
    BY <1>2
  <2>2. pc' \in {"done", "entries", "open"}
    BY <1>2
  <2>3. pc' = "open" =>
          /\ child' \in Copied' /\ HostKind[child'] = "dir" /\ making' = HostPath'[child']
          /\ child' = source' \/ There(child)' \/ Barred(making)'
    BY <1>2, <1>3, <1>4, <1>5
  <2>4. \A k \in DOMAIN stack' :
           /\ stack'[k].node \in Copied' /\ HostKind[stack'[k].node] = "dir"
           /\ stack'[k].path = HostPath'[stack'[k].node]
           /\ stack'[k].rest \subseteq Children(stack'[k].node)
    BY <1>1, <1>2, <1>3 DEF Placed
  <2> QED
    BY <2>1, <2>2, <2>3, <2>4 DEF Placed, LastMade
<1>7. FilesKept' /\ DirectoriesKept'
  <2>1. CASE stack = <<>>
    <3>1. source = NoNode
      BY <1>1, <1>2, <2>1 DEF Placed
    <3>2. Copied' = {}
      BY <1>3, <3>1, CopiedAre, Constants
    <3> QED
      BY <3>2 DEF FilesKept, DirectoriesKept
  <2>2. CASE stack # <<>>
    <3>1. Pending \subseteq Pending' \cup warned'
      <4> SUFFICES ASSUME NEW a \in Pending PROVE a \in Pending'
        OBVIOUS
      <4> QED
        BY <1>2, <2>2, PendingIs, PendingNow DEF PendingMeans
    <3> QED
      BY <1>1, <1>2, <3>1, AllPending
  <2> QED
    BY <2>1, <2>2
<1> QED
  BY <1>1, <1>6, <1>7 DEF CopyInv

LEMMA ReturnStep == Ready /\ Return => CopyInv'
<1> SUFFICES ASSUME Ready, Return PROVE CopyInv'
  OBVIOUS
<1> DEFINE m == Len(stack)
<1>1. /\ TypeOK /\ GoodImage /\ Placed /\ Grows /\ BatchTypes' /\ FilesKept /\ DirectoriesKept
      /\ stack \in Seq(Frames) /\ DOMAIN stack = 1 .. m
  BY Steady DEF Ready
<1>2. /\ pc = "entries" /\ Top.rest = {} /\ stack' = Front(stack)
      /\ pc' = IF m = 1 THEN "done" ELSE "entries"
      /\ UNCHANGED <<given, image, making, part, child, warned>>
  BY DEF Return
<1>3. stack # <<>> /\ m \in Nat \ {0} /\ Top = stack[m]
  <2>1. stack # <<>>
    BY <1>1, <1>2 DEF TypeOK
  <2> QED
    BY <1>1, <2>1, FrontIs DEF Top, Last
<1>4. /\ DOMAIN stack' = 1 .. (m - 1)
      /\ \A k \in DOMAIN stack' : k \in DOMAIN stack /\ stack'[k] = stack[k]
      /\ m = 1 => stack' = <<>>
  <2>1. /\ stack' \in Seq(Frames) /\ Len(stack') = m - 1
        /\ \A k \in 1 .. (m - 1) : stack'[k] = stack[k]
    BY <1>1, <1>2, <1>3, FrontIs
  <2>2. DOMAIN stack' = 1 .. (m - 1)
    BY <2>1
  <2>3. m = 1 => stack' = <<>>
    BY <2>1
  <2> QED
    BY <1>1, <1>3, <2>1, <2>2, <2>3
<1>5. Copied' = Copied /\ HostPath' = HostPath /\ source' = source
  BY <1>2, PathsFixed DEF given
<1>6. Placed' /\ LastMade'
  <2>1. \A k \in DOMAIN stack' :
           /\ stack'[k].node \in Copied' /\ HostKind[stack'[k].node] = "dir"
           /\ stack'[k].path = HostPath'[stack'[k].node]
           /\ stack'[k].rest \subseteq Children(stack'[k].node)
    BY <1>1, <1>4, <1>5 DEF Placed
  <2>2. pc' = "entries" \/ (pc' = "done" /\ stack' = <<>>)
    BY <1>2, <1>4
  <2> QED
    BY <2>1, <2>2 DEF Placed, LastMade
<1>7. Pending \subseteq Pending' \cup warned'
  <2> SUFFICES ASSUME NEW a \in Pending PROVE a \in Pending'
    OBVIOUS
  <2>1. PICK k \in DOMAIN stack : a \in stack[k].rest
    BY <1>2, PendingIs DEF PendingMeans
  <2>2. k # m
    BY <1>2, <1>3, <2>1
  <2>3. k \in DOMAIN stack' /\ stack'[k] = stack[k]
    <3>1. k \in 1 .. (m - 1)
      BY <1>1, <1>3, <2>2
    <3> QED
      BY <1>4, <3>1
  <2> QED
    BY <2>1, <2>3, PendingNow DEF PendingMeans
<1>8. FilesKept' /\ DirectoriesKept'
  BY <1>1, <1>2, <1>7, AllPending
<1> QED
  BY <1>1, <1>6, <1>8 DEF CopyInv

\* The entry an activation takes next.
LEMMA Taken ==
    ASSUME Ready, pc = "entries", NEW n \in HostNodes, n \in Top.rest, Took(n)
    PROVE  /\ n \in Copied /\ Top.node \in Copied /\ HostParent[n] = Top.node
           /\ PathTo(n) = HostPath[n] /\ HostPath[n] = Append(HostPath[Top.node], HostName[n])
           /\ HostPath[Top.node] \in Seq(Names) /\ HostName[n] \in Names
           /\ stack' # <<>>
           /\ \A k \in DOMAIN stack' :
                 /\ stack'[k].node \in Copied /\ HostKind[stack'[k].node] = "dir"
                 /\ stack'[k].path = HostPath[stack'[k].node]
                 /\ stack'[k].rest \subseteq Children(stack'[k].node)
           /\ \A a \in Pending : a = n \/ a \in Pending'
<1> DEFINE m == Len(stack)
<1>1. /\ TypeOK /\ Placed /\ stack \in Seq(Frames) /\ stack # <<>>
  BY Steady, PathToIs
<1>2. /\ stack' # <<>> /\ m \in Nat \ {0} /\ Top = stack[m]
      /\ DOMAIN stack = 1 .. m /\ DOMAIN stack' = DOMAIN stack
      /\ \A k \in DOMAIN stack : k # m => stack'[k] = stack[k]
      /\ stack'[m].node = Top.node /\ stack'[m].path = Top.path
      /\ stack'[m].rest = Top.rest \ {n}
  BY <1>1, TookIs
<1>3. m \in DOMAIN stack
  BY <1>2
<1>4. /\ Top.node \in Copied /\ HostKind[Top.node] = "dir"
      /\ Top.path = HostPath[Top.node] /\ Top.rest \subseteq Children(Top.node)
  BY <1>1, <1>2, <1>3 DEF Placed
<1>5. n \in Copied /\ HostParent[n] = Top.node /\ n \in Children(Top.node)
  BY <1>4, CopiedAre
<1>6. /\ HostPath[n] = Append(HostPath[Top.node], HostName[n])
      /\ HostPath[Top.node] \in Seq(Names) /\ HostName[n] \in Names
  BY <1>1, <1>4, <1>5, CopiedPaths, Constants
<1>7. PathTo(n) = HostPath[n]
  BY <1>4, <1>6 DEF PathTo
<1>8. ASSUME NEW k \in DOMAIN stack'
      PROVE  /\ stack'[k].node \in Copied /\ HostKind[stack'[k].node] = "dir"
             /\ stack'[k].path = HostPath[stack'[k].node]
             /\ stack'[k].rest \subseteq Children(stack'[k].node)
  <2>1. CASE k = m
    BY <1>2, <1>4, <2>1
  <2>2. CASE k # m
    BY <1>1, <1>2, <2>2 DEF Placed
  <2> QED
    BY <2>1, <2>2
<1>9. ASSUME NEW a \in Pending, a # n PROVE a \in Pending'
  <2>1. PICK k \in DOMAIN stack : a \in stack[k].rest
    BY PendingIs DEF PendingMeans
  <2>2. k \in DOMAIN stack' /\ a \in stack'[k].rest
    BY <1>2, <1>9, <2>1
  <2> QED
    BY <2>2, PendingNow DEF PendingMeans
<1> QED
  BY <1>2, <1>4, <1>5, <1>6, <1>7, <1>8, <1>9

LEMMA CopyDirectoryStep ==
    ASSUME Ready, NEW n \in HostNodes, CopyDirectory(n)
    PROVE  CopyInv'
<1>1. /\ TypeOK /\ GoodImage /\ Grows /\ BatchTypes' /\ FilesKept /\ DirectoriesKept
  BY Steady DEF Ready
<1>2. /\ pc = "entries" /\ n \in Top.rest /\ HostKind[n] = "dir" /\ Took(n)
      /\ pc' = "parts" /\ making' = PathTo(n) /\ part' = 0 /\ child' = n
      /\ UNCHANGED <<given, image, warned>>
  BY DEF CopyDirectory
<1>3. /\ n \in Copied /\ PathTo(n) = HostPath[n] /\ stack' # <<>>
      /\ \A k \in DOMAIN stack' :
            /\ stack'[k].node \in Copied /\ HostKind[stack'[k].node] = "dir"
            /\ stack'[k].path = HostPath[stack'[k].node]
            /\ stack'[k].rest \subseteq Children(stack'[k].node)
      /\ \A a \in Pending : a = n \/ a \in Pending'
  BY <1>2, Taken
<1>4. Copied' = Copied /\ HostPath' = HostPath /\ source' = source
  BY <1>2, PathsFixed DEF given
<1>5. Placed' /\ LastMade'
  BY <1>2, <1>3, <1>4 DEF Placed, LastMade
<1>6. n \in Pending'
  <2>1. n # NoNode
    BY Constants
  <2> QED
    BY <1>2, <2>1, PendingNow DEF PendingMeans
<1>7. FilesKept' /\ DirectoriesKept'
  BY <1>1, <1>2, <1>3, <1>6, AllPending
<1> QED
  BY <1>1, <1>5, <1>7 DEF CopyInv

LEMMA CopyFileStep ==
    ASSUME Ready, NEW n \in HostNodes, CopyFile(n)
    PROVE  CopyInv'
<1>1. /\ TypeOK /\ GoodImage /\ Grows /\ BatchTypes' /\ FilesKept /\ DirectoriesKept
  BY Steady DEF Ready
<1>2. /\ pc = "entries" /\ n \in Top.rest /\ HostKind[n] = "reg" /\ Took(n)
      /\ \/ Create(PathTo(n), "reg", n) /\ warned' = warned
         \/ image' = image /\ warned' = warned \cup {n}
      /\ UNCHANGED <<given, pc, making, part, child>>
  BY DEF CopyFile, CreateFails
<1>3. /\ n \in Copied /\ Top.node \in Copied /\ HostParent[n] = Top.node
      /\ PathTo(n) = HostPath[n] /\ HostPath[n] = Append(HostPath[Top.node], HostName[n])
      /\ HostPath[Top.node] \in Seq(Names) /\ HostName[n] \in Names
      /\ stack' # <<>>
      /\ \A k \in DOMAIN stack' :
            /\ stack'[k].node \in Copied /\ HostKind[stack'[k].node] = "dir"
            /\ stack'[k].path = HostPath[stack'[k].node]
            /\ stack'[k].rest \subseteq Children(stack'[k].node)
      /\ \A a \in Pending : a = n \/ a \in Pending'
  BY <1>2, Taken
<1>4. Copied' = Copied /\ HostPath' = HostPath /\ source' = source
  BY <1>2, PathsFixed DEF given
<1>5. Placed' /\ LastMade'
  BY <1>2, <1>3, <1>4 DEF Placed, LastMade
<1>6. CASE warned' = warned \cup {n}
  <2>1. warned \subseteq warned' /\ Pending \subseteq Pending' \cup warned'
    BY <1>3, <1>6
  <2>2. FilesKept' /\ DirectoriesKept'
    BY <1>1, <1>2, <2>1, AllPending
  <2> QED
    BY <1>1, <1>5, <2>2 DEF CopyInv
<1>7. CASE Create(PathTo(n), "reg", n) /\ warned' = warned
  <2>1. PICK path \in Seq(Names) : path = HostPath[n]
    BY <1>1, <1>3, CopiedPaths
  <2>2. PICK e : Added(e, HostPath[n], HostKind[n], n)
    <3>1. Create(path, "reg", n) /\ n \in HostNodes \cup {NoNode}
      BY <1>3, <1>7, <2>1
    <3> QED
      BY <1>1, <1>2, <2>1, <3>1, Creates
  <2>3. Arrived(n, {n})'
    BY <1>1, <1>2, <1>3, <2>2, Arrives
  <2>4. IsDir(ResolvePath(HostPath[Top.node]))
    <3>1. Front(HostPath[n]) = HostPath[Top.node]
      BY <1>3, FrontOfAppend
    <3>2. IsDir(ResolvePath(Front(HostPath[n])))
      BY <1>3, <1>7 DEF Create, MayCreate
    <3> QED
      BY <3>1, <3>2
  <2>5. ASSUME NEW a \in HostNodes, Waiting(a)
        PROVE  Waiting(a)' \/ n \in Above[a]
    BY <1>3, <2>5 DEF Waiting
  <2>6. \A a \in HostNodes : n \in Above[a] => a = n
    BY <1>2, FilesAreLeaves
  <2>7. \A a \in HostNodes : Waiting(a) => Waiting(a)' \/ a = n
    BY <2>5, <2>6
  <2>8. Copied \subseteq HostNodes /\ \A a \in HostNodes : Below(a) \subseteq HostNodes
    BY CopiedAre DEF Below
  <2>9. ASSUME NEW a \in Copied, HostKind[a] = "reg", Waiting(a)
        PROVE  Waiting(a)' \/ Arrived(a, {a})'
    BY <2>3, <2>7, <2>8, <2>9
  <2>10. ASSUME NEW a \in Copied, HostKind[a] = "dir", Waiting(a)
         PROVE  Waiting(a)'
    BY <1>2, <2>7, <2>8, <2>10
  <2>11. ASSUME NEW d \in Copied, HostKind[d] = "dir",
                NEW a \in Below(d), Waiting(a), ~Waiting(a)'
         PROVE  There(d)'
    <3>1. a = n /\ d \in Above[n]
      BY <2>7, <2>8, <2>11 DEF Below
    <3>2. d # n /\ Top.node \in HostNodes /\ Top.node # NoNode
      BY <1>2, <1>3, <2>8, <2>11, Constants
    <3>3. d \in Above[Top.node]
      BY <1>3, <3>1, <3>2, AboveParent
    <3>4. There(d)
      BY <1>1, <1>3, <2>4, <3>3, DirectoriesAbove DEF There
    <3> QED
      BY <1>1, <1>2, <3>4, ThereStays
  <2>12. warned \subseteq warned' /\ UNCHANGED given
    BY <1>2, <1>7
  <2>13. FilesKept' /\ DirectoriesKept'
    BY <1>1, <2>9, <2>10, <2>11, <2>12, Accounts
  <2> QED
    BY <1>1, <1>5, <2>13 DEF CopyInv
<1> QED
  BY <1>2, <1>6, <1>7

LEMMA CopyStep == CopyInv /\ [Next]_vars => CopyInv'
<1> SUFFICES ASSUME CopyInv, [Next]_vars, pc' # "died" PROVE CopyInv'
  <2>1. CopyInv /\ [Next]_vars => BatchTypes'
    BY TypesStep DEF CopyInv
  <2> QED
    BY <2>1 DEF CopyInv
<1>1. BatchTypes' /\ Grows
  BY TypesStep DEF CopyInv
<1>2. CASE UNCHANGED vars
  <2>1. /\ UNCHANGED <<image, stack, pc, part, making, child, warned>> /\ UNCHANGED given
        /\ pc # "died"
    BY <1>2 DEF vars
  <2>2. Ready
    BY <1>1, <2>1 DEF Ready
  <2>3. TypeOK /\ GoodImage /\ Placed /\ LastMade /\ FilesKept /\ DirectoriesKept
    BY <2>2, Steady
  <2>4. UNCHANGED <<Pending, Copied, HostPath, There(child), Barred(making)>>
    <3>1. Copied' = Copied /\ HostPath' = HostPath
      BY <2>1, PathsFixed
    <3>2. Pending' = Pending
      BY <2>1 DEF Pending
    <3>3. UNCHANGED <<There(child), Barred(making)>>
      BY <2>1, <3>1 DEF There, Arrived, Made, LeftBehind, Barred, Blocked, Overtaken, Faithful, IsDir, ResolvePath, Walk, Lookup, Hits, First, given
    <3> QED
      BY <3>1, <3>2, <3>3
  <2>5. Placed'
    BY <2>1, <2>3, <2>4 DEF Placed, given
  <2>6. LastMade'
    <3>1. PICK path, front : path = SubSeq(making, 1, part) /\ front = Front(path)
      OBVIOUS
    <3>2. SubSeq(making', 1, part') = path /\ image' = image /\ stored' = stored
      BY <2>1, <3>1 DEF given
    <3>3. /\ ResolvePath(path)' = ResolvePath(path) /\ ResolvePath(front)' = ResolvePath(front)
          /\ Overtaken(front)' <=> Overtaken(front)
      BY <3>2 DEF ResolvePath, Walk, Lookup, Hits, First, Overtaken, Faithful
    <3>4. pc' = "parts" /\ part' > 0 =>
             \/ ResolvePath(path)' # 0
             \/ \E p \in DOMAIN image' :
                   /\ image'[p].dir = ResolvePath(front)' \/ Overtaken(front)'
                   /\ image'[p].name = stored'[Last(path)]
                   /\ image'[p].kind = "dir"
      BY <2>1, <2>3, <3>1, <3>2, <3>3 DEF LastMade
    <3> QED
      BY <3>1, <3>2, <3>4 DEF LastMade
  <2>7. FilesKept' /\ DirectoriesKept'
    BY <1>1, <2>1, <2>3, <2>4, AllPending
  <2> QED
    BY <1>1, <2>5, <2>6, <2>7 DEF CopyInv
<1>3. CASE Step
  <2>1. pc # "died"
    BY <1>3 DEF Step, CopySingle, OpenDirectory, MakePart, MadeAll, Return, CopyDirectory, CopyFile
  <2>2. Ready
    BY <1>1, <2>1 DEF Ready
  <2> QED
    BY <1>3, <2>2, SingleStep, OpenStep, PartStep, MadeStep, ReturnStep,
       CopyDirectoryStep, CopyFileStep DEF Step
<1> QED
  BY <1>2, <1>3 DEF Next, Exited

LEMMA NothingLeft ==
    ASSUME CopyInv, pc = "done", NEW n
    PROVE  ~Waiting(n)
<1>1. stack = <<>> /\ DOMAIN stack = {}
  BY DEF CopyInv, Placed
<1>2. \A a : a \notin Pending
  BY <1>1, PendingIs DEF PendingMeans
<1> QED
  BY <1>2 DEF Waiting

\* When cp ends without an error, every file of the source is in the image,
\* as an entry made for it, or there was a warning about it or a directory
\* above it: no failure gets lost in the recursion of cpDirToImage, for every
\* tree on the host and every image.  The entry is in the directory its path
\* leads to, unless names read back differently and an entry made later, in
\* a slot that was free, stands before one on that path.
THEOREM EveryFileAlwaysAccounted == Spec => []EveryFileAccounted
<1>1. CopyInv => EveryFileAccounted
  <2> SUFFICES ASSUME CopyInv, pc = "done" PROVE EveryFileAccounted
    BY DEF EveryFileAccounted
  <2>1. FilesKept /\ \A n \in Copied : ~Waiting(n)
    BY NothingLeft DEF CopyInv
  <2> QED
    BY <2>1 DEF FilesKept, EveryFileAccounted
<1> QED
  BY <1>1, CopyInit, CopyStep, PTL DEF Spec

\* A directory of the source may be missing without a warning of its own only
\* where MkDirAll took a file on its path for it, or its own error was not
\* looked at, and then every file below it has a warning; or its path was
\* overtaken by an entry made later, and it is left behind.
THEOREM EveryDirectoryAlwaysAccounted == Spec => []EveryDirectoryAccounted
<1>1. CopyInv => EveryDirectoryAccounted
  <2> SUFFICES ASSUME CopyInv, pc = "done" PROVE EveryDirectoryAccounted
    BY DEF EveryDirectoryAccounted
  <2>1. DirectoriesKept /\ \A n : ~Waiting(n)
    BY NothingLeft DEF CopyInv
  <2> QED
    BY <2>1 DEF DirectoriesKept, There, Barred, EveryDirectoryAccounted
<1> QED
  BY <1>1, CopyInit, CopyStep, PTL DEF Spec

=============================================================================
