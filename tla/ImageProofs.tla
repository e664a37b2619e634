---------------------------- MODULE ImageProofs ----------------------------
(***************************************************************************)
(* Create and Open for any number of programs and any sizes of images:     *)
(* every layout leaves room for data and inodes, a Create that fails       *)
(* cleans up, one that succeeds leaves a whole image, and Open accepts no  *)
(* file that a Create has finished otherwise.                              *)
(***************************************************************************)
EXTENDS ImageFile, FiniteSetTheorems, SequenceTheorems, TLAPS

-----------------------------------------------------------------------------
(* The layout.                                                             *)

\* A nearest integer to half of total / 4, or less, is at most
\* (total + 4) / 8.
LEMMA ShareBound ==
    ASSUME NEW total \in Nat, NEW ipb \in Nat, ipb >= 4,
           NEW pct \in 1 .. 50, NEW q \in Rounded(total, ipb, pct)
    PROVE  q \in Nat /\ 8 * q <= total + 4
<1>1. q \in Nat /\ 200 * ipb * q <= 2 * total * pct + 100 * ipb
  BY DEF Rounded
<1>2. total * pct <= total * 50
  OBVIOUS
<1>3. total * 4 <= total * ipb
  OBVIOUS
<1>4. ipb * (200 * q) <= ipb * (25 * total + 100)
  <2>1. 200 * ipb * q = ipb * (200 * q)
    BY <1>1
  <2>2. ipb * (25 * total + 100) = 25 * (total * ipb) + 100 * ipb
    OBVIOUS
  <2>3. 2 * total * pct = 2 * (total * pct)
    OBVIOUS
  <2> DEFINE tp == total * pct
             ti == total * ipb
             iq == ipb * (200 * q)
  <2>4. tp \in Int /\ ti \in Int /\ iq \in Int
    BY <1>1
  <2>5. iq <= 2 * tp + 100 * ipb /\ tp <= total * 50 /\ total * 4 <= ti
    BY <1>1, <1>2, <1>3, <2>1, <2>3
  <2> HIDE DEF tp, ti, iq
  <2>6. iq <= 25 * ti + 100 * ipb
    BY <2>4, <2>5
  <2> QED
    BY <2>2, <2>6 DEF ti, iq
<1>5. 200 * q <= 25 * total + 100
  <2> DEFINE a == 200 * q
             b == 25 * total + 100
  <2>1. a \in Int /\ b \in Int /\ ipb * a <= ipb * b
    BY <1>1, <1>4
  <2> HIDE DEF a, b
  <2>2. a <= b
    BY <2>1
  <2> QED
    BY <2>2 DEF a, b
<1> QED
  BY <1>1, <1>5

\* Every layout has at least two inode blocks and three data blocks.
LEMMA LayoutRoom ==
    ASSUME NEW total \in Nat, total >= MinBlocks,
           NEW ipb \in Nat, ipb >= 4, NEW inodePct \in Int,
           NEW start \in DataStarts(total, ipb, Percentage(inodePct))
    PROVE  start \in Nat /\ IListSector + 2 <= start /\ start + 3 <= total
<1> DEFINE pct == Percentage(inodePct)
<1>1. pct \in 1 .. 50
  BY DEF Percentage
<1> HIDE DEF pct
<1>2. PICK q \in Rounded(total, ipb, pct) : start = IListSector + (IF q < 2 THEN 2 ELSE q)
  BY DEF DataStarts, InodeBlocks, pct
<1>3. q \in Nat /\ 8 * q <= total + 4
  BY <1>1, <1>2, ShareBound
<1> QED
  BY <1>2, <1>3 DEF IListSector, MinBlocks

\* Whatever block size Create accepts, from 8 blocks up and for every
\* percentage: there are at least two inode blocks and three data blocks, and
\* the counts it starts from do not wrap below zero.
THEOREM LayoutFits ==
    ASSUME NEW blkSize \in Nat, ValidBlockSize(blkSize),
           NEW total \in Nat, total >= MinBlocks,
           NEW inodePct \in Int,
           NEW start \in DataStarts(total, InodesPerBlock(blkSize), Percentage(inodePct))
    PROVE  /\ start \in Nat
           /\ IListSector + 2 <= start /\ start + 3 <= total
           /\ (start - IListSector) * InodesPerBlock(blkSize) - 2 > 0
<1> DEFINE ipb == InodesPerBlock(blkSize)
<1>1. ipb \in Nat /\ ipb >= 4
  BY DEF InodesPerBlock, InodeSize, ValidBlockSize, MinBlockSize, MaxBlockSize
<1> HIDE DEF ipb
<1>2. start \in Nat /\ IListSector + 2 <= start /\ start + 3 <= total
  BY <1>1, LayoutRoom DEF ipb
<1>3. (start - IListSector) * ipb - 2 > 0
  <2> DEFINE n == start - IListSector
  <2>1. n \in Nat /\ n >= 2
    BY <1>2 DEF IListSector
  <2> HIDE DEF n
  <2>2. n * ipb >= 2 * ipb
    BY <1>1, <2>1
  <2>3. n * ipb \in Int
    BY <1>1, <2>1
  <2>4. n * ipb - 2 > 0
    BY <1>1, <2>2, <2>3
  <2> QED
    BY <2>4 DEF n
<1> QED
  BY <1>2, <1>3 DEF ipb

-----------------------------------------------------------------------------
(* Failures of Create.                                                     *)

Places == Formatting \cup Reading \cup
              {"idle", "refused", "created", "failed", "left", "opened", "killed"}

AsFound ==
    \/ path = 0 /\ files = <<>>
    \/ path = 1 /\ files = <<[s \in 0 .. 9 |-> Foreign]>>

\* What FailureIsClean needs to be inductive: before the first os.Create no
\* program is inside Create, and a program that failed inside it has made
\* its file.
CleanInv ==
    /\ pc \in [Programs -> Places]
    /\ \A p \in Programs : pc[p] \in Formatting \cup {"failed"} => last # NoProgram
    /\ \A p \in Programs : pc[p] = "failed" /\ last = p /\ mixed = {} => path = 0
    /\ last = NoProgram => AsFound

\* A step that leaves path, files, last and mixed alone, and does not bring a
\* program into Create.
LEMMA Harmless ==
    ASSUME CleanInv, NEW p \in Programs, NEW there \in Places,
           Goto(p, there), UNCHANGED <<path, files, last, mixed>>,
           there \in Formatting => pc[p] \in Formatting,
           there # "failed"
    PROVE  CleanInv'
<1>1. pc' \in [Programs -> Places]
  BY DEF CleanInv, Goto
<1>2. \A q \in Programs : pc'[q] = IF q = p THEN there ELSE pc[q]
  BY DEF CleanInv, Goto
<1> QED
  BY <1>1, <1>2 DEF CleanInv, AsFound

\* A step of Create on the contents of a file.
LEMMA Working ==
    ASSUME CleanInv, NEW p \in Programs, NEW from \in Formatting,
           NEW to \in Places, NEW file, Change(p, from, to, file),
           to # "failed"
    PROVE  CleanInv'
<1>1. PICK there \in {to, "remove"} : Goto(p, there)
  BY DEF Change
<1>2. path' = path /\ last' = last /\ mixed' = mixed
  BY DEF Change
<1>3. last # NoProgram
  BY DEF Change, CleanInv
<1>4. there \in Places /\ there # "failed"
  BY DEF Formatting, Places
<1>5. pc' \in [Programs -> Places]
  BY <1>1, <1>4 DEF CleanInv, Goto
<1>6. \A q \in Programs : pc'[q] = IF q = p THEN there ELSE pc[q]
  BY <1>1 DEF CleanInv, Goto
<1> QED
  BY <1>2, <1>3, <1>4, <1>5, <1>6 DEF CleanInv

LEMMA CleanStep == CleanInv /\ [Next]_vars => CleanInv'
<1> SUFFICES ASSUME CleanInv, [Next]_vars PROVE CleanInv'
  OBVIOUS
<1>1. CASE UNCHANGED vars
  BY <1>1 DEF vars, CleanInv, AsFound
<1>2. ASSUME NEW p \in Programs, Create(p) PROVE CleanInv'
  <2>1. ASSUME NEW asked \in Sizes, RefuseCreate(p, asked) PROVE CleanInv'
    BY <2>1, Harmless DEF RefuseCreate, Formatting, Reading, Places
  <2>2. ASSUME NEW asked \in Sizes, CreateFile(p, asked) PROVE CleanInv'
    <3>1. /\ pc' \in [Programs -> Places] /\ last' = p /\ last' # NoProgram
          /\ pc'[p] = "truncate"
      <4>1. pc' = [pc EXCEPT ![p] = "truncate"] /\ last' = p
        BY <2>2 DEF CreateFile, Goto
      <4>2. pc \in [Programs -> Places] /\ "truncate" \in Places
        BY DEF CleanInv, Formatting, Places
      <4> QED
        BY <4>1, <4>2, ImageAssumption
    <3> QED
      BY <3>1 DEF CleanInv
  <2>3. CASE CreateFails(p)
    BY <2>3, Harmless DEF CreateFails, Formatting, Reading, Places
  <2>4. CASE Truncate(p)
    BY <2>4, Working DEF Truncate, Formatting, Reading, Places
  <2>5. CASE WriteBootBlock(p)
    BY <2>5, Working DEF WriteBootBlock, Formatting, Reading, Places
  <2>6. CASE Format(p)
    <3> DEFINE writes == FormatWrites(job[p].start, job[p].total)
               to     == IF job[p].step = Len(writes) THEN "rootinode" ELSE "format"
               write  == writes[job[p].step]
               file   == Written(Mine(p), write[1], write[2])
    <3>1. Change(p, "format", to, file)
      BY <2>6 DEF Format
    <3>2. to \in Places /\ to # "failed" /\ "format" \in Formatting
      BY DEF Formatting, Reading, Places
    <3> HIDE DEF to, file
    <3> QED
      BY <3>1, <3>2, Working
  <2>7. CASE WriteRootInode(p)
    <3>1. CASE IListSector \in DOMAIN Mine(p)
      <4>1. \E file : Change(p, "rootinode", "rootdir", file)
        BY <2>7, <3>1 DEF WriteRootInode
      <4> QED
        BY <4>1, Working DEF Formatting, Reading, Places
    <3>2. CASE IListSector \notin DOMAIN Mine(p)
      <4>1. /\ pc[p] = "rootinode" /\ Goto(p, "remove")
            /\ UNCHANGED <<path, files, view, last, mixed>>
        BY <2>7, <3>2 DEF WriteRootInode
      <4> QED
        BY <4>1, Harmless DEF Formatting, Reading, Places
    <3> QED
      BY <3>1, <3>2
  <2>8. CASE WriteRootDir(p)
    BY <2>8, Working DEF WriteRootDir, Formatting, Reading, Places
  <2>9. CASE WriteSuperBlock(p)
    <3>1. \E file : Change(p, "super", "created", file)
      BY <2>9 DEF WriteSuperBlock
    <3> QED
      BY <3>1, Working DEF Formatting, Reading, Places
  <2>10. CASE Remove(p)
    <3>1. last # NoProgram /\ UNCHANGED <<last, mixed>> /\ path' \in {0, path}
      BY <2>10 DEF Remove, CleanInv, Formatting, Reading, Places
    <3>2. PICK there \in {"failed", "left"} : Goto(p, there) /\ (there = "failed" => path' = 0)
      <4>1. CASE path' = 0 /\ Goto(p, "failed")
        BY <4>1
      <4>2. CASE Goto(p, "left")
        BY <4>2
      <4> QED
        BY <2>10, <4>1, <4>2 DEF Remove
    <3>3. pc' \in [Programs -> Places]
      BY <3>2 DEF CleanInv, Goto, Places
    <3>4. \A q \in Programs : pc'[q] = IF q = p THEN there ELSE pc[q]
      BY <3>2 DEF CleanInv, Goto
    <3> QED
      BY <3>1, <3>2, <3>3, <3>4 DEF CleanInv
  <2> QED
    BY <1>2, <2>1, <2>2, <2>3, <2>4, <2>5, <2>6, <2>7, <2>8, <2>9, <2>10 DEF Create
<1>3. ASSUME NEW p \in Programs, Open(p) PROVE CleanInv'
  <2>1. /\ UNCHANGED <<path, files, last, mixed>>
        /\ \E there \in {"refused", "openboot", "opensuper", "opened"} : Goto(p, there)
    BY <1>3 DEF Open, OpenFile, ReadBootBlock, ReadSuperBlock
  <2> QED
    BY <2>1, Harmless DEF Formatting, Reading, Places
<1>4. ASSUME NEW p \in Programs, Kill(p) PROVE CleanInv'
  BY <1>4, Harmless DEF Kill, Formatting, Reading, Places
<1> QED
  BY <1>1, <1>2, <1>3, <1>4 DEF Next

\* A Create that fails leaves nothing under the path unless the removal fails
\* too or another Create fell into it, and until os.Create has succeeded the
\* path and what stands there are as they were found.
THEOREM FailuresAlwaysClean == Spec => []FailureIsClean
<1>1. Init => CleanInv
  BY DEF Init, CleanInv, AsFound, Formatting, Reading, Places
<1>2. CleanInv => FailureIsClean
  BY DEF CleanInv, AsFound, FailureIsClean
<1> QED
  BY <1>1, <1>2, CleanStep, PTL DEF Spec


-----------------------------------------------------------------------------
(* What a Create has written, and what that makes of the files.            *)

\* The image with n of the sector writes of Format done, the root inode in
\* the first inode block when root # 0, the root directory in dir when
\* dir # 0.
Laid(file, start, total, n, root, dir) ==
    /\ DOMAIN file = 0 .. (total - 1)
    /\ file[0] = Boot
    /\ n > 0 => file[IListSector] = FirstInodes(TRUE, root)
    /\ \A k \in 1 .. ChainLength(start, total) :
          start - IListSector + k <= n =>
              file[ChainSector(start, k)] = Chain(ChainEntries(start, total, k))
    /\ \A s \in 1 .. (total - 1) :
          \/ s = IListSector
          \/ \E k \in 1 .. ChainLength(start, total) : s = ChainSector(start, k)
          \/ file[s] = IF s = dir THEN RootDir ELSE Zero

\* The file of job j where a Create undisturbed by others stands at `there'.
Stage(there, file, j) ==
    LET all  == Len(FormatWrites(j.start, j.total))
        root == RootBlockOf(j.start, j.total)
    IN CASE there = "truncate"  -> DOMAIN file = {}
         [] there = "boot"      -> /\ DOMAIN file = 0 .. (j.total - 1)
                                   /\ \A s \in 0 .. (j.total - 1) : file[s] = Zero
         [] there = "format"    -> Laid(file, j.start, j.total, j.step - 1, 0, 0)
         [] there = "rootinode" -> Laid(file, j.start, j.total, all, 0, 0)
         [] there = "rootdir"   -> Laid(file, j.start, j.total, all, root, 0)
         [] there = "super"     -> Laid(file, j.start, j.total, all, root, root)
         [] OTHER               -> TRUE

Asked(j) == j.total = j.asked \/ j.asked >= Word
Finished(file, j) == Whole(file) /\ file[1].total = j.total

Jobs == [file : Nat, asked : Nat, total : Nat, start : Nat, step : Nat]

\* The job of a program inside Create.
Layout(j) ==
    /\ j.file # 0 /\ j.total < Word /\ Asked(j)
    /\ IListSector + 2 <= j.start /\ j.start + 3 <= j.total

\* Claimed(i): the file was left, or is being worked on, by a Create that has
\* not returned success.
Claimed(i) ==
    \E q \in Programs :
        /\ job[q].file = i /\ job[q].total # 0
        /\ pc[q] \in Formatting \cup {"killed", "failed", "left"}
Sound(i) == Whole(files[i]) \/ Claimed(i)

\* Being a sequence, whatever its entries are.
IsSeq(s) == s \in Seq({s[i] : i \in DOMAIN s})

ImageTypes ==
    /\ IsSeq(files)
    /\ path \in 0 .. Len(files)
    /\ \A i \in DOMAIN files : DOMAIN files[i] \subseteq 0 .. (Word - 1)
    /\ pc \in [Programs -> Places]
    /\ job \in [Programs -> Jobs]
    /\ view = [p \in Programs |-> view[p]]
    /\ last \in Programs \cup {NoProgram}
    /\ mixed \subseteq Programs
    /\ \A p \in Programs :
          /\ job[p].file \in 0 .. Len(files)
          /\ pc[p] = "idle" => job[p] = NoJob
          /\ pc[p] \in Formatting => Layout(job[p])
          /\ pc[p] \in Reading => job[p].file # 0
          /\ pc[p] \in {"truncate", "boot"} => job[p].step = 1
          /\ pc[p] = "format" =>
                job[p].step \in 1 .. Len(FormatWrites(job[p].start, job[p].total))

ImageContents ==
    /\ \A p \in Programs :
          /\ pc[p] \in Formatting =>
                last = p /\ path = job[p].file /\ Stage(pc[p], Mine(p), job[p])
          /\ pc[p] = "created" /\ last = p =>
                path = job[p].file /\ Finished(Mine(p), job[p]) /\ Asked(job[p])
          /\ pc[p] = "opensuper" => Sound(job[p].file)
    /\ \A i \in DOMAIN files : 0 \in DOMAIN files[i] /\ files[i][0] = Boot => Sound(i)

ImageInv == ImageTypes /\ (mixed = {} => ImageContents)


-----------------------------------------------------------------------------
(* The free lists of a new image.                                          *)

LEMMA Product ==
    ASSUME NEW k \in Nat
    PROVE  /\ k * MaxFreeBlock \in Nat
           /\ (k + 1) * MaxFreeBlock = k * MaxFreeBlock + MaxFreeBlock
           /\ k >= 1 => /\ (k - 1) * MaxFreeBlock = k * MaxFreeBlock - MaxFreeBlock
                        /\ (k - 1) * MaxFreeBlock \in Nat
BY ImageAssumption

LEMMA Ordered ==
    ASSUME NEW k \in Nat, NEW l \in Nat, k < l
    PROVE  k * MaxFreeBlock + MaxFreeBlock <= l * MaxFreeBlock
<1>1. (k + 1) * MaxFreeBlock <= l * MaxFreeBlock
  BY ImageAssumption
<1> QED
  BY <1>1, Product

\* A block is in one list, at one place.
LEMMA OnePlace ==
    ASSUME NEW k \in Nat, NEW l \in Nat,
           NEW i \in 1 .. MaxFreeBlock, NEW j \in 1 .. MaxFreeBlock,
           k * MaxFreeBlock + i = l * MaxFreeBlock + j
    PROVE  k = l /\ i = j
<1>1. k * MaxFreeBlock \in Nat /\ l * MaxFreeBlock \in Nat /\ MaxFreeBlock \in Nat
  BY Product, ImageAssumption
<1>2. ~(k < l)
  <2> SUFFICES ASSUME k < l PROVE FALSE
    OBVIOUS
  <2> QED
    BY <1>1, Ordered
<1>3. ~(l < k)
  <2> SUFFICES ASSUME l < k PROVE FALSE
    OBVIOUS
  <2> QED
    BY <1>1, Ordered
<1> QED
  BY <1>1, <1>2, <1>3

\* The lists, the cache among them, reach to the end of the image, and the
\* last is not empty.
LEMMA ChainReach ==
    ASSUME NEW start \in Nat, NEW total \in Nat, start + 3 <= total
    PROVE  /\ ChainLength(start, total) \in Nat
           /\ ChainLength(start, total) * MaxFreeBlock <= total - start - 1
           /\ total - start - 1 < ChainLength(start, total) * MaxFreeBlock + MaxFreeBlock
<1> DEFINE a == total - start - 1
           q == a \div MaxFreeBlock
           r == a % MaxFreeBlock
<1>1. a \in Nat /\ MaxFreeBlock \in Nat /\ MaxFreeBlock > 0
  BY ImageAssumption
<1> HIDE DEF a
<1>2. q \in Int /\ r \in 0 .. (MaxFreeBlock - 1) /\ a = MaxFreeBlock * q + r
  BY <1>1
<1> HIDE DEF q, r
<1>3. q >= 0
  <2> SUFFICES ASSUME q <= 0 - 1 PROVE FALSE
    BY <1>2
  <2>1. MaxFreeBlock * q <= MaxFreeBlock * (0 - 1)
    BY <1>1, <1>2
  <2> QED
    BY <1>1, <1>2, <2>1
<1>4. q * MaxFreeBlock = MaxFreeBlock * q /\ q * MaxFreeBlock \in Int
  BY <1>1, <1>2
<1>5. q \in Nat /\ q * MaxFreeBlock <= a /\ a < q * MaxFreeBlock + MaxFreeBlock
  BY <1>1, <1>2, <1>3, <1>4
<1> QED
  BY <1>5 DEF a, q, ChainLength

\* List k of a new image without the root block: the cache is list 0.
ListIn(start, total, k, i) ==
    /\ i \in 1 .. MaxFreeBlock
    /\ start + k * MaxFreeBlock + i - 1 < total

LEMMA UpToEntries ==
    ASSUME NEW first \in Nat, NEW end \in Nat, first <= end
    PROVE  /\ UpTo(first, end) \in Seq(Nat) /\ Len(UpTo(first, end)) = end - first
           /\ DOMAIN UpTo(first, end) = 1 .. (end - first)
           /\ \A i \in 1 .. (end - first) : UpTo(first, end)[i] = first + i - 1
<1>1. end - first \in Nat /\ UpTo(first, end) = [i \in 1 .. (end - first) |-> first + i - 1]
  BY DEF UpTo
<1>2. \A i \in 1 .. (end - first) : first + i - 1 \in Nat
  OBVIOUS
<1>3. UpTo(first, end) \in Seq(Nat)
  BY <1>1, <1>2
<1> QED
  BY <1>1, <1>3

LEMMA ChainEntriesAre ==
    ASSUME NEW start \in Nat, NEW total \in Nat, start + 3 <= total,
           NEW k \in 1 .. ChainLength(start, total)
    PROVE  /\ DOMAIN ChainEntries(start, total, k) \subseteq 1 .. MaxFreeBlock
           /\ ChainEntries(start, total, k) \in Seq(Nat)
           /\ 1 \in DOMAIN ChainEntries(start, total, k)
           /\ \A i \in 1 .. MaxFreeBlock :
                 i \in DOMAIN ChainEntries(start, total, k) <=> ListIn(start, total, k, i)
           /\ \A i \in DOMAIN ChainEntries(start, total, k) :
                 ChainEntries(start, total, k)[i] = start + k * MaxFreeBlock + i - 1
<1> DEFINE m   == k * MaxFreeBlock
           top == ChainLength(start, total) * MaxFreeBlock
           first == ChainSector(start, k + 1)
           end   == Smaller(ChainSector(start, k + 2), total)
<1>1. k \in Nat /\ MaxFreeBlock \in Nat /\ MaxFreeBlock >= 2 /\ ChainLength(start, total) \in Nat
  BY ImageAssumption, ChainReach
<1>2. m \in Nat /\ top \in Nat /\ top <= total - start - 1
  BY <1>1, Product, ChainReach
<1>3. m <= top
  <2>1. CASE k = ChainLength(start, total)
    BY <1>2, <2>1
  <2>2. CASE k < ChainLength(start, total)
    <3>1. m + MaxFreeBlock <= top
      BY <1>1, <2>2, Ordered
    <3> QED
      BY <1>1, <1>2, <3>1
  <2> QED
    BY <1>1, <2>1, <2>2
<1>4. first = start + m
  <2>1. k + 1 - 1 = k
    BY <1>1
  <2> QED
    BY <2>1 DEF ChainSector
<1>5. ChainSector(start, k + 2) = start + m + MaxFreeBlock
  <2>1. k + 2 - 1 = k + 1 /\ (k + 1) * MaxFreeBlock = m + MaxFreeBlock
    BY <1>1, Product
  <2> QED
    BY <1>1, <1>2, <2>1 DEF ChainSector
<1> HIDE DEF m, top
<1>6. end = IF start + m + MaxFreeBlock < total THEN start + m + MaxFreeBlock ELSE total
  BY <1>5 DEF Smaller
<1>7. ChainEntries(start, total, k) = UpTo(first, end)
  BY DEF ChainEntries
<1> HIDE DEF first, end
<1>8. first \in Nat /\ end \in Nat /\ first < end /\ end - first <= MaxFreeBlock
  BY <1>1, <1>2, <1>3, <1>4, <1>6
<1>9. \A i \in 1 .. MaxFreeBlock : i \in 1 .. (end - first) <=> start + m + i - 1 < total
  BY <1>1, <1>2, <1>3, <1>4, <1>6
<1>10. /\ UpTo(first, end) \in Seq(Nat)
       /\ DOMAIN UpTo(first, end) = 1 .. (end - first)
       /\ \A i \in 1 .. (end - first) : UpTo(first, end)[i] = start + m + i - 1
  <2>1. first <= end
    BY <1>8
  <2>2. /\ UpTo(first, end) \in Seq(Nat)
        /\ DOMAIN UpTo(first, end) = 1 .. (end - first)
        /\ \A i \in 1 .. (end - first) : UpTo(first, end)[i] = first + i - 1
    BY <1>8, <2>1, UpToEntries
  <2> QED
    BY <1>4, <2>2
<1>11. 1 .. (end - first) \subseteq 1 .. MaxFreeBlock /\ 1 \in 1 .. (end - first)
  BY <1>1, <1>8
<1> QED
  BY <1>7, <1>9, <1>10, <1>11 DEF ListIn, m

\* The cache as writeSuperBlock writes it, and the root block left out of it.
WrittenCache(start, total) == SubSeq(Cached(start, total), 1, Len(Cached(start, total)) - 1)

CacheEntries(cache, start, total) ==
    /\ cache \in Seq(Nat) /\ DOMAIN cache \subseteq 1 .. MaxFreeBlock
    /\ 1 \in DOMAIN cache
    /\ \A i \in 1 .. MaxFreeBlock :
          i \in DOMAIN cache <=>
              ListIn(start, total, 0, i) /\ start + i - 1 # RootBlockOf(start, total)
    /\ \A i \in DOMAIN cache : cache[i] = start + i - 1

LEMMA CacheIs ==
    ASSUME NEW start \in Nat, NEW total \in Nat, start + 3 <= total
    PROVE  /\ RootBlockOf(start, total) \in Nat
           /\ start < RootBlockOf(start, total)
           /\ RootBlockOf(start, total) < total
           /\ RootBlockOf(start, total) < start + MaxFreeBlock
           /\ CacheEntries(WrittenCache(start, total), start, total)
<1> DEFINE cache == WrittenCache(start, total)
           end == Smaller(start + MaxFreeBlock, total)
           s   == Cached(start, total)
           root == RootBlockOf(start, total)
<1>1. MaxFreeBlock \in Nat /\ MaxFreeBlock >= 2 /\ 0 * MaxFreeBlock = 0
  BY ImageAssumption
<1>2. end = IF start + MaxFreeBlock < total THEN start + MaxFreeBlock ELSE total
  BY DEF Smaller
<1>3. s = UpTo(start, end) /\ root = end - 1
  BY DEF Cached, RootBlockOf
<1> HIDE DEF end, s, root
<1>4. end \in Nat /\ start + 2 <= end /\ end <= total /\ end - start <= MaxFreeBlock
  BY <1>1, <1>2
<1>5. /\ s \in Seq(Nat) /\ Len(s) = end - start
      /\ \A i \in 1 .. (end - start) : s[i] = start + i - 1
  <2>1. start <= end
    BY <1>4
  <2> QED
    BY <1>3, <1>4, <2>1, UpToEntries
<1>6. /\ 1 \in 1 .. (Len(s) + 1) /\ end - start - 1 \in 0 .. Len(s)
      /\ end - start - 1 \in Nat
  BY <1>4, <1>5
<1>7. cache = SubSeq(s, 1, end - start - 1)
  BY <1>5 DEF s, WrittenCache
<1> HIDE DEF cache
<1>8. /\ cache \in Seq(Nat) /\ DOMAIN cache = 1 .. (end - start - 1)
      /\ \A i \in 1 .. (end - start - 1) : cache[i] = s[i]
  <2> DEFINE n == end - start - 1
  <2>1. n \in Nat /\ n >= 1 /\ \A i \in 1 .. n : s[i] \in Nat
    BY <1>4, <1>5
  <2> HIDE DEF n
  <2>2. /\ SubSeq(s, 1, n) \in Seq(Nat) /\ Len(SubSeq(s, 1, n)) = n - 1 + 1
        /\ \A i \in 1 .. n - 1 + 1 : SubSeq(s, 1, n)[i] = s[1 + i - 1]
    BY <2>1, SubSeqProperties
  <2>3. cache = SubSeq(s, 1, n)
    BY <1>7 DEF n
  <2>4. n - 1 + 1 = n /\ \A i \in 1 .. n : 1 + i - 1 = i
    BY <2>1
  <2>5. cache \in Seq(Nat) /\ Len(cache) = n /\ \A i \in 1 .. n : cache[i] = s[1 + i - 1]
    BY <2>2, <2>3, <2>4, Zenon
  <2> QED
    BY <2>1, <2>4, <2>5 DEF n
<1>9. \A i \in 1 .. MaxFreeBlock :
         i \in 1 .. (end - start - 1) <=> start + i - 1 < total /\ start + i - 1 # root
  BY <1>1, <1>2, <1>3, <1>4
<1>10. \A i \in 1 .. MaxFreeBlock :
          ListIn(start, total, 0, i) <=> start + i - 1 < total
  BY <1>1 DEF ListIn
<1>11. \A i \in 1 .. (end - start - 1) : i \in 1 .. (end - start)
  BY <1>4
<1>12. 1 .. (end - start - 1) \subseteq 1 .. MaxFreeBlock /\ 1 \in 1 .. (end - start - 1)
  BY <1>1, <1>4
<1>13. root \in Nat /\ start < root /\ root < total /\ root < start + MaxFreeBlock
  BY <1>1, <1>2, <1>3, <1>4
<1> QED
  BY <1>5, <1>8, <1>9, <1>10, <1>11, <1>12, <1>13 DEF root, cache, CacheEntries

\* Where the chain blocks stand.
LEMMA ChainSectorsAre ==
    ASSUME NEW start \in Nat, NEW total \in Nat, start + 3 <= total,
           NEW k \in 1 .. ChainLength(start, total)
    PROVE  /\ ChainSector(start, k) \in start .. (total - 1)
           /\ ChainSector(start, k) = start + (k - 1) * MaxFreeBlock
           /\ ChainSector(start, k) # RootBlockOf(start, total)
           /\ \A l \in 1 .. ChainLength(start, total) :
                 ChainSector(start, k) = ChainSector(start, l) => k = l
<1>1. k \in Nat /\ k - 1 \in Nat /\ MaxFreeBlock \in Nat /\ MaxFreeBlock >= 2
      /\ ChainLength(start, total) \in Nat
  BY ImageAssumption, ChainReach
<1>2. (k - 1) * MaxFreeBlock + MaxFreeBlock <= ChainLength(start, total) * MaxFreeBlock
  BY <1>1, Ordered
<1>3. ChainLength(start, total) * MaxFreeBlock <= total - start - 1
      /\ ChainLength(start, total) * MaxFreeBlock \in Nat /\ (k - 1) * MaxFreeBlock \in Nat
  BY <1>1, ChainReach, Product
<1>4. ChainSector(start, k) = start + (k - 1) * MaxFreeBlock
  BY DEF ChainSector
<1>5. ChainSector(start, k) \in start .. (total - 1)
  BY <1>1, <1>2, <1>3, <1>4
<1>6. ChainSector(start, k) # RootBlockOf(start, total)
  <2>1. start < RootBlockOf(start, total) /\ RootBlockOf(start, total) < start + MaxFreeBlock
        /\ RootBlockOf(start, total) \in Nat
    BY CacheIs
  <2>2. CASE k = 1
    <3>1. (k - 1) * MaxFreeBlock = 0
      BY <1>1, <2>2
    <3> QED
      BY <1>4, <2>1, <3>1
  <2>3. CASE k > 1
    <3>1. 0 * MaxFreeBlock + MaxFreeBlock <= (k - 1) * MaxFreeBlock
      BY <1>1, <2>3, Ordered
    <3>2. 0 * MaxFreeBlock = 0
      BY <1>1
    <3> QED
      BY <1>1, <1>3, <1>4, <2>1, <3>1, <3>2
  <2> QED
    BY <1>1, <2>2, <2>3
<1>7. ASSUME NEW l \in 1 .. ChainLength(start, total), ChainSector(start, k) = ChainSector(start, l)
      PROVE  k = l
  <2>1. l - 1 \in Nat /\ (l - 1) * MaxFreeBlock \in Nat
    BY <1>1, Product
  <2>2. (k - 1) * MaxFreeBlock + 1 = (l - 1) * MaxFreeBlock + 1
    BY <1>3, <1>7, <2>1 DEF ChainSector
  <2>3. 1 \in 1 .. MaxFreeBlock
    BY <1>1
  <2>4. k - 1 = l - 1
    BY <1>1, <2>1, <2>2, <2>3, OnePlace
  <2> QED
    BY <1>1, <2>1, <2>4
<1> QED
  BY <1>4, <1>5, <1>6, <1>7


-----------------------------------------------------------------------------
(* The writes of Create, one by one.                                       *)

LEMMA WrittenIs ==
    ASSUME NEW file, NEW total \in Nat, DOMAIN file = 0 .. (total - 1),
           NEW s \in 0 .. (total - 1), NEW c
    PROVE  /\ DOMAIN Written(file, s, c) = 0 .. (total - 1)
           /\ \A t \in 0 .. (total - 1) :
                 Written(file, s, c)[t] = IF t = s THEN c ELSE file[t]
<1>1. DOMAIN file \cup 0 .. s = 0 .. (total - 1)
  OBVIOUS
<1> QED
  BY <1>1 DEF Written

\* Written never reaches beyond the sectors that were there and its own.
LEMMA WrittenWithin ==
    ASSUME NEW file, NEW end \in Nat, DOMAIN file \subseteq 0 .. end,
           NEW s \in 0 .. end, NEW c
    PROVE  DOMAIN Written(file, s, c) \subseteq 0 .. end
<1>1. 0 .. s \subseteq 0 .. end
  OBVIOUS
<1> QED
  BY <1>1 DEF Written

Joins(c, a, b) ==
    /\ Len(c) = Len(a) + Len(b)
    /\ \A i \in 1 .. Len(a) : c[i] = a[i]
    /\ \A i \in 1 .. Len(b) : c[Len(a) + i] = b[i]

LEMMA Joined ==
    ASSUME NEW T, NEW a \in Seq(T), NEW b \in Seq(T)
    PROVE  a \o b \in Seq(T) /\ Joins(a \o b, a, b)
<1> DEFINE c == a \o b
<1>1. /\ c \in Seq(T) /\ Len(c) = Len(a) + Len(b)
      /\ \A i \in 1 .. Len(a) + Len(b) : c[i] = IF i <= Len(a) THEN a[i] ELSE b[i - Len(a)]
  BY ConcatProperties
<1> HIDE DEF c
<1>2. Len(a) \in Nat /\ Len(b) \in Nat
  OBVIOUS
<1>3. \A i \in 1 .. Len(a) : c[i] = a[i]
  BY <1>1, <1>2
<1>4. ASSUME NEW i \in 1 .. Len(b) PROVE c[Len(a) + i] = b[i]
  <2> DEFINE j == Len(a) + i
  <2>1. j \in 1 .. Len(a) + Len(b) /\ ~(j <= Len(a)) /\ j - Len(a) = i
    BY <1>2
  <2> HIDE DEF j
  <2>2. c[j] = b[i]
    BY <1>1, <2>1
  <2> QED
    BY <2>2 DEF j
<1>5. c \in Seq(T) /\ Joins(c, a, b)
  BY <1>1, <1>3, <1>4 DEF Joins
<1> QED
  BY <1>5 DEF c

AreWrites(writes, start, total) ==
    LET n == start - IListSector
    IN /\ Len(writes) = n + ChainLength(start, total)
       /\ Len(writes) \in Nat
       /\ writes[1] = At(IListSector, FirstInodes(TRUE, 0))
       /\ \A i \in 2 .. n : writes[i] = At(IListSector + i - 1, Zero)
       /\ \A k \in 1 .. ChainLength(start, total) :
             writes[n + k] = At(ChainSector(start, k), Chain(ChainEntries(start, total, k)))

LEMMA WritesAre ==
    ASSUME NEW start \in Nat, NEW total \in Nat,
           IListSector + 2 <= start, start + 3 <= total
    PROVE  AreWrites(FormatWrites(start, total), start, total)
<1> DEFINE n == start - IListSector
           L == ChainLength(start, total)
           a == <<At(IListSector, FirstInodes(TRUE, 0))>>
           b == [i \in 1 .. (start - IListSector - 1) |-> At(IListSector + i, Zero)]
           c == [k \in 1 .. L |-> At(ChainSector(start, k), Chain(ChainEntries(start, total, k)))]
           T == {a[1]} \cup {b[i] : i \in 1 .. (n - 1)} \cup {c[k] : k \in 1 .. L}
<1>1. L \in Nat /\ n \in Nat /\ n >= 2 /\ n - 1 \in Nat /\ IListSector \in Nat /\ start - IListSector - 1 = n - 1
  BY ChainReach DEF IListSector
<1>2. a \in Seq(T) /\ Len(a) = 1 /\ a[1] = At(IListSector, FirstInodes(TRUE, 0))
  <2> DEFINE x == At(IListSector, FirstInodes(TRUE, 0))
  <2> HIDE DEF x
  <2>1. <<x>> \in Seq({x}) /\ Len(<<x>>) = 1 /\ <<x>>[1] = x
    OBVIOUS
  <2>2. a = <<x>>
    BY DEF x
  <2> HIDE DEF a
  <2>3. {x} \subseteq T
    BY <2>1, <2>2
  <2> QED
    BY <2>1, <2>2, <2>3 DEF x
<1>3. b \in Seq(T) /\ Len(b) = n - 1 /\ \A i \in 1 .. (n - 1) : b[i] = At(IListSector + i, Zero)
  <2>1. b = [i \in 1 .. (n - 1) |-> At(IListSector + i, Zero)]
    BY <1>1
  <2>2. \A i \in 1 .. (n - 1) : b[i] = At(IListSector + i, Zero)
    BY <2>1
  <2> HIDE DEF a, c
  <2>3. b \in [1 .. (n - 1) -> T]
    BY <2>1
  <2> HIDE DEF b, T
  <2> QED
    BY <1>1, <2>2, <2>3
<1>4. c \in Seq(T) /\ Len(c) = L
      /\ \A k \in 1 .. L : c[k] = At(ChainSector(start, k), Chain(ChainEntries(start, total, k)))
  <2>1. \A k \in 1 .. L : c[k] = At(ChainSector(start, k), Chain(ChainEntries(start, total, k)))
    OBVIOUS
  <2>2. c \in [1 .. L -> {c[k] : k \in 1 .. L}]
    OBVIOUS
  <2> HIDE DEF a, b, c
  <2>3. c \in [1 .. L -> T]
    BY <2>2
  <2> HIDE DEF T, L
  <2> QED
    BY <1>1, <2>1, <2>3
<1>5. FormatWrites(start, total) = a \o b \o c
  BY DEF FormatWrites
<1> HIDE DEF a, b, c, T, L
<1>6. a \o b \in Seq(T) /\ Len(a \o b) = n
      /\ (a \o b)[1] = a[1] /\ \A i \in 2 .. n : (a \o b)[i] = b[i - 1]
  <2> DEFINE ab == a \o b
  <2>1. ab \in Seq(T) /\ Joins(ab, a, b)
    BY <1>2, <1>3, Joined
  <2> HIDE DEF ab
  <2>2. ab[1] = a[1] /\ Len(ab) = n
    <3>1. Len(a) = 1 /\ Len(b) = n - 1 /\ 1 \in 1 .. 1 /\ 1 + (n - 1) = n
      BY <1>1, <1>2, <1>3
    <3>2. Len(ab) = n
      BY <2>1, <3>1 DEF Joins
    <3>3. ab[1] = a[1]
      BY <2>1, <3>1 DEF Joins
    <3> QED
      BY <3>2, <3>3
  <2>3. ASSUME NEW i \in 2 .. n PROVE ab[i] = b[i - 1]
    <3>1. i - 1 \in 1 .. Len(b) /\ Len(a) + (i - 1) = i
      BY <1>1, <1>2, <1>3
    <3> QED
      BY <2>1, <3>1 DEF Joins
  <2> QED
    BY <2>1, <2>2, <2>3 DEF ab
<1> DEFINE ab == a \o b
<1>7. ab \in Seq(T) /\ Len(ab) = n /\ ab[1] = a[1] /\ \A i \in 2 .. n : ab[i] = b[i - 1]
  BY <1>6
<1>8. FormatWrites(start, total) = ab \o c
  BY <1>5
<1> HIDE DEF ab
<1>9. /\ Len(ab \o c) = n + L /\ (ab \o c)[1] = ab[1]
      /\ \A i \in 2 .. n : (ab \o c)[i] = ab[i]
      /\ \A k \in 1 .. L : (ab \o c)[n + k] = c[k]
  <2> DEFINE abc == ab \o c
  <2>1. Joins(abc, ab, c)
    BY <1>4, <1>7, Joined
  <2> HIDE DEF abc
  <2>2. /\ Len(abc) = n + L
        /\ \A i \in 1 .. n : abc[i] = ab[i]
        /\ \A k \in 1 .. L : abc[n + k] = c[k]
    BY <1>4, <1>7, <2>1 DEF Joins
  <2>3. 1 \in 1 .. n /\ \A i \in 2 .. n : i \in 1 .. n
    BY <1>1
  <2> QED
    BY <2>2, <2>3 DEF abc
<1>10. \A i \in 2 .. n : b[i - 1] = At(IListSector + i - 1, Zero)
  <2> TAKE i \in 2 .. n
  <2>1. i - 1 \in 1 .. (n - 1) /\ IListSector + (i - 1) = IListSector + i - 1
    BY <1>1
  <2> QED
    BY <1>3, <2>1
<1>11. n + L \in Nat
  BY <1>1
<1> QED
  BY <1>2, <1>4, <1>7, <1>8, <1>9, <1>10, <1>11 DEF L, AreWrites

\* A write of Format.
LEMMA LaidNext ==
    ASSUME NEW start \in Nat, NEW total \in Nat,
           IListSector + 2 <= start, start + 3 <= total,
           NEW step \in 1 .. Len(FormatWrites(start, total)),
           NEW s, NEW c, s = FormatWrites(start, total)[step][1], c = FormatWrites(start, total)[step][2]
    PROVE  /\ s \in 1 .. (total - 1)
           /\ \A file : Laid(file, start, total, step - 1, 0, 0) =>
                  Laid(Written(file, s, c), start, total, step, 0, 0)
<1> DEFINE n == start - IListSector
           L == ChainLength(start, total)
           writes == FormatWrites(start, total)
           w == writes[step]
<1>0. /\ Len(writes) = n + L
      /\ writes[1] = At(IListSector, FirstInodes(TRUE, 0))
      /\ \A i \in 2 .. n : writes[i] = At(IListSector + i - 1, Zero)
      /\ \A k \in 1 .. L :
            writes[n + k] = At(ChainSector(start, k), Chain(ChainEntries(start, total, k)))
  <2>1. AreWrites(writes, start, total)
    BY WritesAre
  <2> HIDE DEF writes
  <2> QED
    BY <2>1 DEF AreWrites
<1>1. /\ step \in 1 .. (n + L) /\ n \in Nat /\ n >= 2 /\ L \in Nat /\ IListSector = 2 /\ start = n + 2
      /\ s = w[1] /\ c = w[2]
  <2>1. L \in Nat
    BY ChainReach
  <2>2. s = w[1] /\ c = w[2]
    OBVIOUS
  <2>3. step \in 1 .. Len(writes)
    OBVIOUS
  <2> HIDE DEF L, w, writes
  <2>4. n \in Nat /\ n >= 2 /\ IListSector = 2 /\ start = n + 2
    BY DEF IListSector
  <2> HIDE DEF n
  <2>5. step \in 1 .. (n + L)
    BY <1>0, <2>3, Zenon
  <2> QED
    BY <2>1, <2>2, <2>4, <2>5, Zenon
<1> HIDE DEF writes
<1>2. /\ step = 1 => w = At(IListSector, FirstInodes(TRUE, 0))
      /\ step \in 2 .. n => w = At(IListSector + step - 1, Zero)
      /\ \A k \in 1 .. L : step = n + k =>
            w = At(ChainSector(start, k), Chain(ChainEntries(start, total, k)))
  BY <1>0
<1> HIDE DEF n, w
<1>3. /\ step = 1 => s = IListSector /\ c = FirstInodes(TRUE, 0)
      /\ step \in 2 .. n => s = IListSector + step - 1 /\ c = Zero
      /\ \A k \in 1 .. L : step = n + k =>
            s = ChainSector(start, k) /\ c = Chain(ChainEntries(start, total, k))
  <2>1. \A x, y : w = At(x, y) => s = x /\ c = y
    BY <1>1 DEF At
  <2>2. step = 1 => s = IListSector /\ c = FirstInodes(TRUE, 0)
    BY <1>2, <2>1
  <2>3. step \in 2 .. n => s = IListSector + step - 1 /\ c = Zero
    BY <1>2, <2>1
  <2>4. \A k \in 1 .. L : step = n + k =>
            s = ChainSector(start, k) /\ c = Chain(ChainEntries(start, total, k))
    BY <1>2, <2>1
  <2> QED
    BY <2>2, <2>3, <2>4, Zenon
<1>4. \/ step = 1 \/ step \in 2 .. n \/ \E k \in 1 .. L : step = n + k
  <2>1. CASE step <= n
    BY <1>1, <2>1
  <2>2. CASE step > n
    <3>1. step - n \in 1 .. L /\ step = n + (step - n)
      BY <1>1, <2>2
    <3> QED
      BY <3>1
  <2> QED
    BY <1>1, <2>1, <2>2
<1>5. /\ \A k \in 1 .. L : ChainSector(start, k) \in start .. (total - 1)
      /\ \A k, l \in 1 .. L : ChainSector(start, k) = ChainSector(start, l) => k = l
  BY ChainSectorsAre
<1> HIDE DEF L
<1>6. s \in 1 .. (total - 1)
  <2>1. CASE step = 1
    BY <1>1, <1>3, <2>1
  <2>2. CASE step \in 2 .. n
    BY <1>1, <1>3, <2>2
  <2>3. ASSUME NEW k \in 1 .. L, step = n + k PROVE s \in 1 .. (total - 1)
    BY <1>1, <1>3, <1>5, <2>3
  <2> QED
    BY <1>4, <2>1, <2>2, <2>3
<1>7. ASSUME NEW file, Laid(file, start, total, step - 1, 0, 0)
      PROVE  Laid(Written(file, s, c), start, total, step, 0, 0)
  <2> DEFINE new == Written(file, s, c)
  <2>1. /\ DOMAIN file = 0 .. (total - 1) /\ file[0] = Boot
        /\ step - 1 > 0 => file[IListSector] = FirstInodes(TRUE, 0)
        /\ \A k \in 1 .. L : start - IListSector + k <= step - 1 =>
              file[ChainSector(start, k)] = Chain(ChainEntries(start, total, k))
        /\ \A t \in 1 .. (total - 1) :
              t = IListSector \/ (\E k \in 1 .. L : t = ChainSector(start, k)) \/ file[t] = Zero
    <3>1. \A t \in 1 .. (total - 1) : t # 0
      OBVIOUS
    <3> QED
      BY <1>7, <3>1 DEF Laid, L
  <2>2. /\ DOMAIN new = 0 .. (total - 1)
        /\ \A t \in 0 .. (total - 1) : new[t] = IF t = s THEN c ELSE file[t]
    BY <1>6, <2>1, WrittenIs
  <2> HIDE DEF new
  <2>3. new[0] = Boot
    BY <1>6, <2>1, <2>2
  <2>4. step > 0 => new[IListSector] = FirstInodes(TRUE, 0)
    <3>1. IListSector \in 0 .. (total - 1)
      BY <1>1
    <3>2. CASE step = 1
      BY <1>3, <2>2, <3>1, <3>2
    <3>3. CASE step # 1
      <4>1. step - 1 > 0
        BY <1>1, <3>3
      <4>2. s # IListSector
        <5>1. CASE step \in 2 .. n
          BY <1>1, <1>3, <5>1
        <5>2. ASSUME NEW k \in 1 .. L, step = n + k PROVE s # IListSector
          BY <1>1, <1>3, <1>5, <5>2
        <5> QED
          BY <1>4, <3>3, <5>1, <5>2
      <4> QED
        BY <2>1, <2>2, <3>1, <4>1, <4>2
    <3> QED
      BY <3>2, <3>3
  <2>5. ASSUME NEW k \in 1 .. L, start - IListSector + k <= step
        PROVE  new[ChainSector(start, k)] = Chain(ChainEntries(start, total, k))
    <3>1. ChainSector(start, k) \in 0 .. (total - 1)
      BY <1>1, <1>5
    <3>2. CASE step = n + k
      BY <1>3, <2>2, <3>1, <3>2
    <3>3. CASE step # n + k
      <4>1. start - IListSector + k <= step - 1
        BY <1>1, <2>5, <3>3
      <4>2. file[ChainSector(start, k)] = Chain(ChainEntries(start, total, k))
        BY <2>1, <4>1
      <4>3. step > n
        BY <1>1, <2>5
      <4>4. PICK l \in 1 .. L : step = n + l
        BY <1>1, <1>4, <4>3
      <4>5. s = ChainSector(start, l) /\ l # k
        BY <1>3, <3>3, <4>4
      <4>6. s # ChainSector(start, k)
        BY <1>5, <4>5
      <4> QED
        BY <2>2, <3>1, <4>2, <4>6
    <3> QED
      BY <3>2, <3>3
  <2>6. ASSUME NEW t \in 1 .. (total - 1), t # IListSector, \A k \in 1 .. L : t # ChainSector(start, k)
        PROVE  new[t] = Zero
    <3>1. t \in 0 .. (total - 1) /\ file[t] = Zero
      BY <1>1, <2>1, <2>6
    <3>2. t = s => c = Zero
      BY <1>3, <1>4, <2>6
    <3> QED
      BY <2>2, <3>1, <3>2
  <2>7. \A t \in 1 .. (total - 1) : t # 0
    OBVIOUS
  <2> QED
    BY <2>2, <2>3, <2>4, <2>5, <2>6, <2>7 DEF Laid, L, new
<1> QED
  BY <1>6, <1>7

\* WriteBootBlock, over an empty file.
LEMMA LaidBoot ==
    ASSUME NEW start \in Nat, NEW total \in Nat,
           IListSector + 2 <= start, start + 3 <= total, NEW file,
           DOMAIN file = 0 .. (total - 1), \A s \in 0 .. (total - 1) : file[s] = Zero
    PROVE  Laid(Written(file, 0, Boot), start, total, 0, 0, 0)
<1> DEFINE new == Written(file, 0, Boot)
<1>1. 0 \in 0 .. (total - 1)
  OBVIOUS
<1>2. DOMAIN new = 0 .. (total - 1) /\ \A t \in 0 .. (total - 1) : new[t] = IF t = 0 THEN Boot ELSE file[t]
  BY <1>1, WrittenIs
<1> HIDE DEF new
<1>3. new[0] = Boot /\ \A t \in 1 .. (total - 1) : new[t] = Zero
  BY <1>1, <1>2
<1>4. \A k \in 1 .. ChainLength(start, total) : ~(start - IListSector + k <= 0)
  BY ChainReach DEF IListSector
<1>5. \A t \in 1 .. (total - 1) : t # 0
  OBVIOUS
<1> QED
  BY <1>2, <1>3, <1>4, <1>5 DEF Laid, new

\* WriteRootInode and WriteRootDir.
LEMMA LaidRoot ==
    ASSUME NEW start \in Nat, NEW total \in Nat,
           IListSector + 2 <= start, start + 3 <= total, NEW file,
           NEW n, n = Len(FormatWrites(start, total)),
           NEW root, root = RootBlockOf(start, total)
    PROVE  /\ root \in 1 .. (total - 1)
           /\ Laid(file, start, total, n, 0, 0) =>
                 /\ IListSector \in DOMAIN file
                 /\ file[IListSector].kind = "inodes" /\ file[IListSector].reserved = TRUE
                 /\ Laid(Written(file, IListSector, FirstInodes(TRUE, root)), start, total, n, root, 0)
           /\ Laid(file, start, total, n, root, 0) =>
                 Laid(Written(file, root, RootDir), start, total, n, root, root)
<1> DEFINE L == ChainLength(start, total)
<1>1. /\ n \in Nat /\ n > 0 /\ n = start - IListSector + L /\ L \in Nat
      /\ IListSector \in 1 .. (total - 1) /\ IListSector = 2
  <2> HIDE DEF L
  <2>1. n = start - IListSector + L /\ L \in Nat
    BY WritesAre, ChainReach DEF L, AreWrites
  <2> QED
    BY <2>1 DEF IListSector
<1>2. root \in Nat /\ start < root /\ root < total
  BY CacheIs
<1>3. root \in 1 .. (total - 1) /\ root # IListSector
  BY <1>1, <1>2
<1>4. \A k \in 1 .. L : /\ ChainSector(start, k) \in start .. (total - 1)
                        /\ ChainSector(start, k) # root /\ ChainSector(start, k) # IListSector
                        /\ ChainSector(start, k) \in 0 .. (total - 1)
  BY <1>1, ChainSectorsAre
<1>5. \A s \in 1 .. (total - 1) : s \in 0 .. (total - 1) /\ s # 0
  OBVIOUS
<1>6. 0 \in 0 .. (total - 1)
  OBVIOUS
<1>7. \A k \in 1 .. L : start - IListSector + k <= n
  BY <1>1
<1> HIDE DEF L
<1>8. ASSUME Laid(file, start, total, n, 0, 0)
      PROVE  /\ IListSector \in DOMAIN file
             /\ file[IListSector].kind = "inodes" /\ file[IListSector].reserved = TRUE
             /\ Laid(Written(file, IListSector, FirstInodes(TRUE, root)), start, total, n, root, 0)
  <2> DEFINE new == Written(file, IListSector, FirstInodes(TRUE, root))
  <2>1. /\ DOMAIN file = 0 .. (total - 1) /\ file[0] = Boot /\ file[IListSector] = FirstInodes(TRUE, 0)
        /\ \A k \in 1 .. L : file[ChainSector(start, k)] = Chain(ChainEntries(start, total, k))
        /\ \A s \in 1 .. (total - 1) :
              s = IListSector \/ (\E k \in 1 .. L : s = ChainSector(start, k)) \/ file[s] = Zero
    BY <1>1, <1>5, <1>7, <1>8 DEF Laid, L
  <2>2. /\ DOMAIN new = 0 .. (total - 1)
        /\ \A t \in 0 .. (total - 1) :
              new[t] = IF t = IListSector THEN FirstInodes(TRUE, root) ELSE file[t]
    <3> DEFINE x == FirstInodes(TRUE, root)
    <3>1. IListSector \in 0 .. (total - 1)
      BY <1>1, <1>5
    <3> HIDE DEF x
    <3>2. /\ DOMAIN Written(file, IListSector, x) = 0 .. (total - 1)
          /\ \A t \in 0 .. (total - 1) :
                Written(file, IListSector, x)[t] = IF t = IListSector THEN x ELSE file[t]
      BY <2>1, <3>1, WrittenIs
    <3> QED
      BY <3>2 DEF x
  <2> HIDE DEF new
  <2>3. Laid(new, start, total, n, root, 0)
    <3>1. new[0] = Boot /\ new[IListSector] = FirstInodes(TRUE, root)
      BY <1>1, <1>5, <1>6, <2>1, <2>2
    <3>2. \A k \in 1 .. L : new[ChainSector(start, k)] = Chain(ChainEntries(start, total, k))
      BY <1>4, <2>1, <2>2
    <3>3. \A s \in 1 .. (total - 1) :
             s = IListSector \/ (\E k \in 1 .. L : s = ChainSector(start, k)) \/ new[s] = Zero
      BY <1>5, <2>1, <2>2
    <3> QED
      BY <1>5, <2>2, <3>1, <3>2, <3>3 DEF Laid, L
  <2>4. IListSector \in DOMAIN file
    BY <1>1, <1>5, <2>1
  <2> QED
    BY <2>1, <2>3, <2>4 DEF FirstInodes, new
<1>9. ASSUME Laid(file, start, total, n, root, 0)
      PROVE  Laid(Written(file, root, RootDir), start, total, n, root, root)
  <2> DEFINE new == Written(file, root, RootDir)
  <2>1. /\ DOMAIN file = 0 .. (total - 1) /\ file[0] = Boot /\ file[IListSector] = FirstInodes(TRUE, root)
        /\ \A k \in 1 .. L : file[ChainSector(start, k)] = Chain(ChainEntries(start, total, k))
        /\ \A s \in 1 .. (total - 1) :
              s = IListSector \/ (\E k \in 1 .. L : s = ChainSector(start, k)) \/ file[s] = Zero
    BY <1>1, <1>5, <1>7, <1>9 DEF Laid, L
  <2>2. /\ DOMAIN new = 0 .. (total - 1)
        /\ \A t \in 0 .. (total - 1) : new[t] = IF t = root THEN RootDir ELSE file[t]
    BY <1>3, <1>5, <2>1, WrittenIs
  <2> HIDE DEF new
  <2>3. new[0] = Boot /\ new[IListSector] = FirstInodes(TRUE, root)
    BY <1>1, <1>3, <1>5, <1>6, <2>1, <2>2
  <2>4. \A k \in 1 .. L : new[ChainSector(start, k)] = Chain(ChainEntries(start, total, k))
    BY <1>4, <2>1, <2>2
  <2>5. \A s \in 1 .. (total - 1) :
           \/ s = IListSector
           \/ \E k \in 1 .. L : s = ChainSector(start, k)
           \/ new[s] = IF s = root THEN RootDir ELSE Zero
    BY <1>5, <2>1, <2>2
  <2> QED
    BY <2>2, <2>3, <2>4, <2>5 DEF Laid, L, new
<1> QED
  BY <1>3, <1>8, <1>9


-----------------------------------------------------------------------------
(* The superblock makes the image whole.                                   *)

\* Every block has a place in one of the lists.
LEMMA SomePlace ==
    ASSUME NEW start \in Nat, NEW total \in Nat, start + 3 <= total,
           NEW b \in start .. (total - 1)
    PROVE  \E k \in 0 .. ChainLength(start, total), i \in 1 .. MaxFreeBlock :
              b = start + k * MaxFreeBlock + i - 1
<1> DEFINE x == b - start
           q == x \div MaxFreeBlock
           r == x % MaxFreeBlock
           L == ChainLength(start, total)
<1>1. x \in Nat /\ x <= total - start - 1 /\ MaxFreeBlock \in Nat /\ MaxFreeBlock > 0 /\ b = start + x
  BY ImageAssumption
<1> HIDE DEF x
<1>2. q \in Int /\ r \in 0 .. (MaxFreeBlock - 1) /\ x = MaxFreeBlock * q + r
  BY <1>1
<1> HIDE DEF q, r
<1>3. q >= 0
  <2> SUFFICES ASSUME q <= 0 - 1 PROVE FALSE
    BY <1>2
  <2>1. MaxFreeBlock * q <= MaxFreeBlock * (0 - 1)
    BY <1>1, <1>2
  <2> QED
    BY <1>1, <1>2, <2>1
<1>4. q \in Nat /\ q * MaxFreeBlock = MaxFreeBlock * q /\ q * MaxFreeBlock \in Nat
  BY <1>1, <1>2, <1>3, Product
<1>5. /\ L \in Nat /\ L * MaxFreeBlock \in Nat
      /\ total - start - 1 < L * MaxFreeBlock + MaxFreeBlock
  BY ChainReach, Product
<1> HIDE DEF L
<1>6. ~(L < q)
  <2> SUFFICES ASSUME L < q PROVE FALSE
    OBVIOUS
  <2>1. L * MaxFreeBlock + MaxFreeBlock <= q * MaxFreeBlock
    BY <1>4, <1>5, Ordered
  <2> QED
    BY <1>1, <1>2, <1>4, <1>5, <2>1
<1>7. q \in 0 .. L /\ r + 1 \in 1 .. MaxFreeBlock
  BY <1>1, <1>2, <1>4, <1>5, <1>6
<1>8. b = start + q * MaxFreeBlock + (r + 1) - 1
  BY <1>1, <1>2, <1>4
<1> QED
  BY <1>7, <1>8 DEF L

\* The lists of a new image, the cache as list 0.
FreshList(start, total, k) ==
    IF k = 0 THEN WrittenCache(start, total) ELSE ChainEntries(start, total, k)

FreshEntries(l, start, total, k) ==
    /\ DOMAIN l \subseteq 1 .. MaxFreeBlock
    /\ 1 \in DOMAIN l /\ l # <<>>
    /\ \A i \in 1 .. MaxFreeBlock :
          i \in DOMAIN l <=> /\ start + k * MaxFreeBlock + i - 1 < total
                             /\ start + k * MaxFreeBlock + i - 1 # RootBlockOf(start, total)
    /\ \A i \in DOMAIN l : l[i] = start + k * MaxFreeBlock + i - 1

LEMMA FreshListIs ==
    ASSUME NEW start \in Nat, NEW total \in Nat, start + 3 <= total,
           NEW k \in 0 .. ChainLength(start, total)
    PROVE  FreshEntries(FreshList(start, total, k), start, total, k)
<1>1. CASE k = 0
  <2> DEFINE cache == WrittenCache(start, total)
  <2>1. FreshList(start, total, k) = cache
    BY <1>1 DEF FreshList
  <2>2. /\ cache \in Seq(Nat) /\ DOMAIN cache \subseteq 1 .. MaxFreeBlock
        /\ 1 \in DOMAIN cache
        /\ \A i \in 1 .. MaxFreeBlock :
              i \in DOMAIN cache <=>
                  ListIn(start, total, 0, i) /\ start + i - 1 # RootBlockOf(start, total)
        /\ \A i \in DOMAIN cache : cache[i] = start + i - 1
    BY CacheIs DEF CacheEntries
  <2> HIDE DEF cache
  <2>3. k * MaxFreeBlock = 0 /\ \A i \in 1 .. MaxFreeBlock : start + 0 + i - 1 = start + i - 1
    BY <1>1, ImageAssumption
  <2>4. cache # <<>>
    BY <2>2
  <2> QED
    BY <1>1, <2>1, <2>2, <2>3, <2>4 DEF ListIn, FreshEntries
<1>2. CASE k # 0
  <2> DEFINE l == ChainEntries(start, total, k)
             m == k * MaxFreeBlock
             root == RootBlockOf(start, total)
  <2>1. k \in 1 .. ChainLength(start, total) /\ k \in Nat /\ ChainLength(start, total) \in Nat
    BY <1>2, ChainReach
  <2>2. FreshList(start, total, k) = l
    BY <1>2 DEF FreshList
  <2>3. /\ DOMAIN l \subseteq 1 .. MaxFreeBlock /\ l \in Seq(Nat) /\ 1 \in DOMAIN l
        /\ \A i \in 1 .. MaxFreeBlock : i \in DOMAIN l <=> ListIn(start, total, k, i)
        /\ \A i \in DOMAIN l : l[i] = start + m + i - 1
    BY <2>1, ChainEntriesAre
  <2> HIDE DEF l
  <2>4. root \in Nat /\ root < start + MaxFreeBlock
    BY CacheIs
  <2>5. m \in Nat /\ MaxFreeBlock \in Nat /\ MaxFreeBlock <= m
    <3>1. 0 * MaxFreeBlock + MaxFreeBlock <= m
      BY <1>2, <2>1, Ordered
    <3>2. 0 * MaxFreeBlock = 0 /\ MaxFreeBlock \in Nat /\ m \in Nat
      BY <2>1, Product, ImageAssumption
    <3> QED
      BY <3>1, <3>2
  <2>6. \A i \in 1 .. MaxFreeBlock : i \in DOMAIN l <=> start + m + i - 1 < total
    BY <2>3 DEF ListIn
  <2> HIDE DEF m, root
  <2>7. \A i \in 1 .. MaxFreeBlock : start + m + i - 1 # root
    BY <2>4, <2>5
  <2>8. l # <<>>
    BY <2>3
  <2> QED
    BY <2>2, <2>3, <2>6, <2>7, <2>8 DEF m, root, FreshEntries
<1> QED
  BY <1>1, <1>2

LEMMA SealedWhole ==
    ASSUME NEW start \in Nat, NEW total \in Nat,
           IListSector + 2 <= start, start + 3 <= total,
           NEW root, root = RootBlockOf(start, total),
           NEW file, Laid(file, start, total, Len(FormatWrites(start, total)), root, root),
           NEW seeded \in SUBSET (3 .. LastInode(start)), LastInode(start) \in Nat,
           LastInode(start) >= 3
    PROVE  /\ Whole(Written(file, 1, Super(start, total, seeded)))
           /\ Written(file, 1, Super(start, total, seeded))[1].total = total
<1> DEFINE sb  == Super(start, total, seeded)
           new == Written(file, 1, sb)
           L   == ChainLength(start, total)
           cache == FreshList(start, total, 0)
           data  == start .. (total - 1)
           Chains == {ChainSector(start, k) : k \in 1 .. L}
           last0 == LastInode(start)
<1>1. /\ sb.kind = "super" /\ sb.start = start /\ sb.total = total /\ sb.cache = cache
      /\ sb.freeBlocks = total - start - 1 /\ sb.inodes = seeded
      /\ sb.freeInodes = last0 - 2
  BY DEF Super, FreshList, WrittenCache
<1> HIDE DEF sb, cache
<1>2. /\ IListSector = 2 /\ L \in Nat
      /\ 0 \in 0 .. (total - 1) /\ 1 \in 0 .. (total - 1) /\ 2 \in 0 .. (total - 1)
      /\ \A s \in 1 .. (total - 1) : s \in 0 .. (total - 1)
  BY ChainReach DEF IListSector
<1>3. root \in Nat /\ start < root /\ root < total /\ root \in data
  BY CacheIs
<1>4. \A k \in 1 .. L : /\ ChainSector(start, k) \in data
                        /\ ChainSector(start, k) = start + (k - 1) * MaxFreeBlock
                        /\ ChainSector(start, k) # root
                        /\ ChainSector(start, k) \in 3 .. (total - 1)
                        /\ ChainSector(start, k) \in 0 .. (total - 1)
  BY <1>2, ChainSectorsAre
<1>5. Chains \subseteq data /\ root \notin Chains
  BY <1>4
<1> HIDE DEF L
<1>6. /\ DOMAIN file = 0 .. (total - 1) /\ file[0] = Boot /\ file[2] = FirstInodes(TRUE, root)
      /\ \A k \in 1 .. L : file[ChainSector(start, k)] = Chain(ChainEntries(start, total, k))
      /\ \A s \in 3 .. (total - 1) : s \in Chains \/ file[s] = IF s = root THEN RootDir ELSE Zero
  <2>1. Len(FormatWrites(start, total)) = start - 2 + L
    BY <1>2, WritesAre DEF AreWrites, L
  <2>2. /\ start - 2 + L > 0 /\ \A k \in 1 .. L : start - 2 + k <= start - 2 + L
        /\ \A s \in 3 .. (total - 1) : s # 2 /\ s \in 1 .. (total - 1)
    BY <1>2
  <2> QED
    BY <1>2, <2>1, <2>2 DEF Laid, L
<1>7. /\ DOMAIN new = 0 .. (total - 1)
      /\ \A t \in 0 .. (total - 1) : new[t] = IF t = 1 THEN sb ELSE file[t]
  BY <1>2, <1>6, WrittenIs
<1> HIDE DEF new, data, Chains
<1>8. /\ new[0] = Boot /\ new[1] = sb /\ new[2] = FirstInodes(TRUE, root)
      /\ \A k \in 1 .. L : new[ChainSector(start, k)] = Chain(ChainEntries(start, total, k))
  <2>0. new[0] = file[0] /\ new[1] = sb /\ new[2] = file[2]
    BY <1>2, <1>7
  <2>1. new[0] = Boot /\ new[1] = sb /\ new[2] = FirstInodes(TRUE, root)
    BY <1>6, <2>0
  <2>2. \A k \in 1 .. L : ChainSector(start, k) \in 0 .. (total - 1) /\ ChainSector(start, k) # 1
    BY <1>4
  <2>3. \A k \in 1 .. L : new[ChainSector(start, k)] = Chain(ChainEntries(start, total, k))
    BY <1>6, <1>7, <2>2
  <2> QED
    BY <2>1, <2>3
<1>9. \A s \in 3 .. (total - 1) : s \in Chains \/ new[s] = IF s = root THEN RootDir ELSE Zero
  <2>1. \A s \in 3 .. (total - 1) : s \in 0 .. (total - 1) /\ s # 1
    OBVIOUS
  <2> QED
    BY <1>6, <1>7, <2>1
<1>10. /\ Boot.kind # "chain" /\ sb.kind # "chain" /\ Zero.kind # "chain" /\ RootDir.kind # "chain"
       /\ FirstInodes(TRUE, root).kind = "inodes" /\ FirstInodes(TRUE, root).reserved = TRUE
       /\ FirstInodes(TRUE, root).root = root
       /\ \A e : Chain(e).kind = "chain" /\ Chain(e).entries = e
  BY <1>1 DEF Boot, Zero, RootDir, FirstInodes, Chain
<1>11. \A t \in 0 .. (total - 1) : new[t].kind = "chain" <=> t \in Chains
  <2>1. ASSUME NEW t \in Chains PROVE new[t].kind = "chain"
    BY <1>8, <1>10, <2>1 DEF Chains
  <2>2. ASSUME NEW t \in 0 .. (total - 1), t \notin Chains PROVE new[t].kind # "chain"
    <3>1. t = 0 \/ t = 1 \/ t = 2 \/ t \in 3 .. (total - 1)
      OBVIOUS
    <3> QED
      BY <1>8, <1>9, <1>10, <2>2, <3>1
  <2> QED
    BY <2>1, <2>2
<1>12. {s \in data : new[s].kind = "chain"} = Chains
  <2>1. data \subseteq 0 .. (total - 1) /\ Chains \subseteq data
    BY <1>5 DEF data
  <2> QED
    BY <1>11, <2>1
<1>13. {t \in DOMAIN new : new[t].kind = "chain"} = Chains
  <2>1. data \subseteq 0 .. (total - 1) /\ Chains \subseteq data
    BY <1>5 DEF data
  <2> QED
    BY <1>7, <1>11, <2>1
<1>14. Lists(new) = {FreshList(start, total, k) : k \in 0 .. L}
  <2>1. Lists(new) = {sb.cache} \cup {new[s].entries : s \in Chains}
    BY <1>8, <1>13 DEF Lists
  <2>2. \A k \in 1 .. L : /\ new[ChainSector(start, k)].entries = FreshList(start, total, k)
                          /\ k \in 0 .. L
    BY <1>2, <1>8, <1>10 DEF FreshList
  <2>3. {new[s].entries : s \in Chains} = {FreshList(start, total, k) : k \in 1 .. L}
    BY <2>2 DEF Chains
  <2>4. \A k \in 0 .. L : k = 0 \/ k \in 1 .. L
    BY <1>2
  <2>5. 0 \in 0 .. L
    BY <1>2
  <2> QED
    BY <1>1, <2>1, <2>2, <2>3, <2>4, <2>5 DEF cache
<1>15. \A k \in 0 .. L : LET l == FreshList(start, total, k)
           IN /\ DOMAIN l \subseteq 1 .. MaxFreeBlock
              /\ 1 \in DOMAIN l /\ l # <<>>
              /\ \A i \in 1 .. MaxFreeBlock :
                    i \in DOMAIN l <=> /\ start + k * MaxFreeBlock + i - 1 < total
                                       /\ start + k * MaxFreeBlock + i - 1 # root
              /\ \A i \in DOMAIN l : l[i] = start + k * MaxFreeBlock + i - 1
  BY FreshListIs DEF L, FreshEntries
<1>16. \A k \in 0 .. L : k \in Nat /\ k * MaxFreeBlock \in Nat
  <2> TAKE k \in 0 .. L
  <2>1. k \in Nat
    BY <1>2
  <2> QED
    BY <2>1, Product
<1>17. MaxFreeBlock \in Nat
  BY ImageAssumption
<1>18. Listed(new) = data \ {root}
  <2>1. ASSUME NEW b \in Listed(new) PROVE b \in data \ {root}
    <3>1. PICK k \in 0 .. L : \E i \in DOMAIN FreshList(start, total, k) : b = FreshList(start, total, k)[i]
      BY <1>14, <2>1 DEF Listed
    <3>2. PICK i \in DOMAIN FreshList(start, total, k) : b = FreshList(start, total, k)[i]
      BY <3>1
    <3>3. i \in 1 .. MaxFreeBlock /\ b = start + k * MaxFreeBlock + i - 1 /\ b < total /\ b # root
      BY <1>15, <3>2
    <3> QED
      BY <1>16, <1>17, <3>3 DEF data
  <2>2. ASSUME NEW b \in data \ {root} PROVE b \in Listed(new)
    <3>1. PICK k \in 0 .. L, i \in 1 .. MaxFreeBlock : b = start + k * MaxFreeBlock + i - 1
      BY SomePlace DEF data, L
    <3>2. b < total /\ b # root
      BY <2>2 DEF data
    <3>3. i \in DOMAIN FreshList(start, total, k) /\ FreshList(start, total, k)[i] = b
      BY <1>15, <3>1, <3>2
    <3> QED
      BY <1>14, <3>3 DEF Listed
  <2> QED
    BY <2>1, <2>2
<1>19. \A k, l \in Lists(new), i, j \in 1 .. MaxFreeBlock :
          i \in DOMAIN k /\ j \in DOMAIN l /\ k[i] = l[j] => k = l /\ i = j
  <2> TAKE k, l \in Lists(new), i, j \in 1 .. MaxFreeBlock
  <2> HAVE i \in DOMAIN k /\ j \in DOMAIN l /\ k[i] = l[j]
  <2>1. PICK a \in 0 .. L : k = FreshList(start, total, a)
    BY <1>14
  <2>2. PICK b \in 0 .. L : l = FreshList(start, total, b)
    BY <1>14
  <2>3. start + a * MaxFreeBlock + i - 1 = start + b * MaxFreeBlock + j - 1
    BY <1>15, <2>1, <2>2
  <2>4. a * MaxFreeBlock + i = b * MaxFreeBlock + j
    BY <1>16, <1>17, <2>3
  <2>5. a = b /\ i = j
    BY <1>16, <2>4, OnePlace
  <2> QED
    BY <2>1, <2>2, <2>5
<1>20. \A s \in Chains : \E l \in Lists(new) : l # <<>> /\ l[1] = s
  <2> TAKE s \in Chains
  <2>1. PICK k \in 1 .. L : s = start + (k - 1) * MaxFreeBlock
    BY <1>4 DEF Chains
  <2>2. k - 1 \in 0 .. L
    BY <1>2
  <2> DEFINE l == FreshList(start, total, k - 1)
  <2>3. 1 \in DOMAIN l /\ l # <<>> /\ l[1] = start + (k - 1) * MaxFreeBlock + 1 - 1
    BY <1>15, <2>2
  <2>4. l \in Lists(new)
    BY <1>14, <2>2
  <2>5. start + (k - 1) * MaxFreeBlock + 1 - 1 = start + (k - 1) * MaxFreeBlock
    BY <1>16, <2>2
  <2> QED
    BY <2>1, <2>3, <2>4, <2>5
<1>21. sb.freeBlocks = Cardinality(data \ {root})
  <2>1. IsFiniteSet(data) /\ Cardinality(data) = total - start
    <3>1. start \in Int /\ total - 1 \in Int /\ ~(start > total - 1) /\ total - 1 - start + 1 = total - start
      OBVIOUS
    <3> QED
      BY <3>1, FS_Interval DEF data
  <2>2. Cardinality(data \ {root}) = total - start - 1
    BY <1>3, <2>1, FS_RemoveElement
  <2> QED
    BY <1>1, <2>2
<1>22. sb.freeInodes = Cardinality(3 .. last0)
  <2>1. ~(3 > last0) /\ last0 \in Int /\ 3 \in Int /\ last0 - 3 + 1 = last0 - 2
    OBVIOUS
  <2> QED
    BY <1>1, <2>1, FS_Interval
<1>23. /\ \A s \in 3 .. (start - 1) : new[s] = Zero
       /\ new[root] = RootDir
       /\ \A s \in data \ (Chains \cup {root}) : new[s] = Zero
  <2>1. \A s \in 3 .. (start - 1) : s \in 3 .. (total - 1) /\ s \notin Chains /\ s # root
    BY <1>3, <1>5 DEF data
  <2>2. \A s \in data : s \in 3 .. (total - 1)
    BY <1>2 DEF data
  <2> QED
    BY <1>3, <1>5, <1>9, <2>1, <2>2
<1>24. 0 .. IListSector \subseteq DOMAIN new /\ IListSector + 1 = 3
  BY <1>2, <1>7
<1>25. Whole(new)
  <2>1. /\ new[1].start = start /\ new[1].total = total /\ new[1].kind = "super"
        /\ new[IListSector].root = root /\ new[IListSector].kind = "inodes"
        /\ new[IListSector].reserved = TRUE
        /\ start .. (total - 1) = data
    BY <1>1, <1>2, <1>8, <1>10 DEF data
  <2>2. sb.inodes \subseteq 3 .. LastInode(sb.start) /\ sb.freeInodes = Cardinality(3 .. LastInode(sb.start))
    BY <1>1, <1>22
  <2> HIDE DEF last0
  <2> QED
    BY <1>1, <1>3, <1>7, <1>8, <1>12, <1>18, <1>19, <1>20, <1>21, <1>23, <1>24, <2>1, <2>2 DEF Whole
<1>26. new[1].total = total
  BY <1>1, <1>8
<1> QED
  BY <1>25, <1>26 DEF new, sb


-----------------------------------------------------------------------------
(* Every step keeps the invariant.                                         *)

LEMMA OwnEntries ==
    ASSUME NEW T, NEW s \in Seq(T)
    PROVE  IsSeq(s)
<1> DEFINE R == {s[i] : i \in DOMAIN s}
<1>1. Len(s) \in Nat /\ DOMAIN s = 1 .. Len(s) /\ s = [i \in 1 .. Len(s) |-> s[i]]
  OBVIOUS
<1>2. \A i \in 1 .. Len(s) : s[i] \in R
  BY <1>1
<1> HIDE DEF R
<1>3. s \in Seq(R)
  BY <1>1, <1>2
<1> QED
  BY <1>3 DEF R, IsSeq

LEMMA SeqFacts ==
    ASSUME NEW s, IsSeq(s)
    PROVE  Len(s) \in Nat /\ DOMAIN s = 1 .. Len(s)
BY DEF IsSeq

\* The file of a program, and no other, is f now.
FileIs(p, f) ==
    /\ IsSeq(files')
    /\ DOMAIN files' = DOMAIN files /\ Len(files') = Len(files)
    /\ files'[job[p].file] = f
    /\ \A i \in DOMAIN files : i # job[p].file => files'[i] = files[i]

LEMMA FileChanged ==
    ASSUME ImageTypes, NEW p \in Programs, pc[p] \in Formatting, NEW f,
           files' = [files EXCEPT ![job[p].file] = f]
    PROVE  FileIs(p, f)
<1> DEFINE S == {files[i] : i \in DOMAIN files} \cup {f}
           i == job[p].file
<1>1. files \in Seq({files[k] : k \in DOMAIN files})
  BY DEF ImageTypes, IsSeq
<1>2. i \in 1 .. Len(files) /\ DOMAIN files = 1 .. Len(files)
  <2>1. i \in 0 .. Len(files) /\ i # 0
    BY DEF ImageTypes, Layout
  <2> QED
    BY <1>1, <2>1
<1>3. files \in Seq(S)
  BY <1>1, SeqMonotonic
<1>4. f \in S
  OBVIOUS
<1> HIDE DEF S, i
<1>5. /\ files' \in Seq(S) /\ Len(files') = Len(files) /\ DOMAIN files' = DOMAIN files
      /\ files'[i] = f /\ \A k \in DOMAIN files : k # i => files'[k] = files[k]
  BY <1>2, <1>3, <1>4 DEF i
<1>6. IsSeq(files')
  BY <1>5, OwnEntries
<1> QED
  BY <1>5, <1>6 DEF FileIs, i

\* What a step of Create on its file leaves alone.
SameJobs(p) ==
    /\ job' \in [Programs -> Jobs]
    /\ \A q \in Programs : q # p => job'[q] = job[q]
    /\ job'[p].file = job[p].file /\ job'[p].asked = job[p].asked
    /\ job'[p].total = job[p].total /\ job'[p].start = job[p].start

Moved(p, there) ==
    /\ pc' \in [Programs -> Places] /\ pc'[p] = there
    /\ \A q \in Programs : q # p => pc'[q] = pc[q]

LEMMA MovedBy ==
    ASSUME ImageTypes, NEW p \in Programs, NEW there \in Places, Goto(p, there)
    PROVE  Moved(p, there)
BY DEF ImageTypes, Goto, Moved

\* Sound files stay sound as long as the claims of other programs, and p's
\* on other files, stay.
LEMMA WriteTypes ==
    ASSUME ImageTypes, NEW p \in Programs, pc[p] \in Formatting,
           NEW to \in Formatting \cup {"created"}, NEW f,
           DOMAIN f \subseteq 0 .. (Word - 1),
           FileIs(p, f), Moved(p, to), SameJobs(p),
           UNCHANGED <<path, view, last, mixed>>,
           to \in {"truncate", "boot"} => job'[p].step = 1,
           to = "format" =>
               job'[p].step \in 1 .. Len(FormatWrites(job[p].start, job[p].total))
    PROVE  ImageTypes'
<1>1. /\ IsSeq(files')
      /\ DOMAIN files' = DOMAIN files /\ Len(files') = Len(files)
  BY DEF FileIs
<1>2. /\ path' \in 0 .. Len(files') /\ last' \in Programs \cup {NoProgram} /\ mixed' \subseteq Programs
      /\ view' = [q \in Programs |-> view'[q]]
  BY <1>1 DEF ImageTypes
<1>3. \A i \in DOMAIN files' : DOMAIN files'[i] \subseteq 0 .. (Word - 1)
  BY DEF FileIs, ImageTypes
<1>4. job' \in [Programs -> Jobs] /\ pc' \in [Programs -> Places]
  BY DEF SameJobs, Moved
<1>5. ASSUME NEW q \in Programs
      PROVE  /\ job'[q].file \in 0 .. Len(files')
             /\ pc'[q] = "idle" => job'[q] = NoJob
             /\ pc'[q] \in Formatting => Layout(job'[q])
             /\ pc'[q] \in Reading => job'[q].file # 0
             /\ pc'[q] \in {"truncate", "boot"} => job'[q].step = 1
             /\ pc'[q] = "format" =>
                   job'[q].step \in 1 .. Len(FormatWrites(job'[q].start, job'[q].total))
  <2>1. CASE q # p
    <3>1. job'[q] = job[q] /\ pc'[q] = pc[q]
      BY <2>1 DEF SameJobs, Moved
    <3> QED
      BY <1>1, <3>1 DEF ImageTypes
  <2>2. CASE q = p
    <3>1. pc'[p] = to /\ to # "idle" /\ to \notin Reading
      BY DEF Moved, Formatting, Reading
    <3>2. Layout(job[p]) /\ job[p].file \in 0 .. Len(files)
      BY DEF ImageTypes
    <3>3. Layout(job'[p])
      BY <3>2 DEF Layout, Asked, SameJobs
    <3> QED
      BY <1>1, <2>2, <3>1, <3>2, <3>3 DEF SameJobs
  <2> QED
    BY <2>1, <2>2
<1> QED
  BY <1>1, <1>2, <1>3, <1>4, <1>5 DEF ImageTypes

LEMMA WriteContents ==
    ASSUME ImageTypes, ImageContents, NEW p \in Programs, pc[p] \in Formatting,
           NEW to \in Formatting \cup {"created"}, NEW f,
           FileIs(p, f), Moved(p, to), SameJobs(p),
           UNCHANGED <<path, view, last, mixed>>,
           Stage(to, f, job'[p]),
           to = "created" => Finished(f, job[p])
    PROVE  ImageContents'
<1>1. /\ last = p /\ path = job[p].file /\ job[p].total # 0 /\ job'[p].file = job[p].file
      /\ Layout(job[p])
  <2>1. last = p /\ path = job[p].file
    BY DEF ImageContents
  <2>2. Layout(job[p]) /\ job[p] \in Jobs
    BY DEF ImageTypes
  <2>3. job[p].total # 0
    BY <2>2 DEF Layout, IListSector, Jobs
  <2> QED
    BY <2>1, <2>2, <2>3 DEF SameJobs
<1>2. \A q \in Programs : q # p => /\ pc'[q] = pc[q] /\ job'[q] = job[q]
                                   /\ pc[q] \notin Formatting
  BY <1>1 DEF ImageContents, Moved, SameJobs
<1>3. \A i \in DOMAIN files : Sound(i) \/ i = job[p].file => Sound(i)'
  <2> SUFFICES ASSUME NEW i \in DOMAIN files, Sound(i) \/ i = job[p].file PROVE Sound(i)'
    OBVIOUS
  <2>1. CASE i = job[p].file
    <3>1. CASE to = "created"
      <4>1. Whole(f)
        BY <3>1 DEF Finished
      <4> QED
        BY <2>1, <4>1 DEF Sound, FileIs
    <3>2. CASE to \in Formatting
      <4>1. job'[p].file = i /\ job'[p].total # 0 /\ pc'[p] \in Formatting
        BY <1>1, <2>1, <3>2 DEF SameJobs, Moved
      <4> QED
        BY <4>1 DEF Sound, Claimed
    <3> QED
      BY <3>1, <3>2
  <2>2. CASE i # job[p].file
    <3>1. CASE Whole(files[i])
      BY <2>2, <3>1 DEF Sound, FileIs
    <3>2. CASE Claimed(i)
      BY <1>2, <2>2, <3>2 DEF Sound, Claimed
    <3> QED
      BY <2>2, <3>1, <3>2 DEF Sound
  <2> QED
    BY <2>1, <2>2
<1>4. \A i \in DOMAIN files' : 0 \in DOMAIN files'[i] /\ files'[i][0] = Boot => Sound(i)'
  <2> SUFFICES ASSUME NEW i \in DOMAIN files', 0 \in DOMAIN files'[i], files'[i][0] = Boot
               PROVE  Sound(i)'
    OBVIOUS
  <2>1. i \in DOMAIN files
    BY DEF FileIs
  <2>2. CASE i = job[p].file
    BY <1>3, <2>1, <2>2
  <2>3. CASE i # job[p].file
    <3>1. files'[i] = files[i]
      BY <2>1, <2>3 DEF FileIs
    <3> QED
      BY <1>3, <2>1, <3>1 DEF ImageContents
  <2> QED
    BY <2>2, <2>3
<1>5. ASSUME NEW q \in Programs
      PROVE  /\ pc'[q] \in Formatting =>
                   last' = q /\ path' = job'[q].file /\ Stage(pc'[q], Mine(q)', job'[q])
             /\ pc'[q] = "created" /\ last' = q =>
                   path' = job'[q].file /\ Finished(Mine(q)', job'[q]) /\ Asked(job'[q])
             /\ pc'[q] = "opensuper" =>
                   \E i \in DOMAIN files : i = job'[q].file /\ Sound(i)'
  <2>1. CASE q = p
    <3>1. pc'[p] = to /\ Mine(p)' = f
      BY <1>1 DEF Moved, FileIs, Mine
    <3>2. to # "opensuper"
      BY DEF Formatting
    <3>3. to = "created" => Finished(f, job'[p]) /\ Asked(job'[p])
      BY <1>1 DEF Finished, Asked, Layout, SameJobs
    <3> QED
      BY <1>1, <2>1, <3>1, <3>2, <3>3
  <2>2. CASE q # p
    <3>1. pc'[q] = pc[q] /\ job'[q] = job[q] /\ pc[q] \notin Formatting /\ last' # q
      BY <1>1, <1>2, <2>2
    <3>2. ASSUME pc[q] = "opensuper"
          PROVE  \E i \in DOMAIN files : i = job'[q].file /\ Sound(i)'
      <4>1. job[q].file \in 0 .. Len(files) /\ job[q].file # 0 /\ DOMAIN files = 1 .. Len(files)
            /\ Len(files) \in Nat
        BY <3>2, SeqFacts DEF ImageTypes, Reading
      <4>2. PICK i \in DOMAIN files : i = job[q].file
        BY <4>1
      <4>3. Sound(i)
        BY <3>2, <4>2 DEF ImageContents
      <4> QED
        BY <1>3, <3>1, <4>2, <4>3
    <3> QED
      BY <3>1, <3>2
  <2> QED
    BY <2>1, <2>2
<1>6. \A q \in Programs : pc'[q] = "opensuper" => Sound(job[q].file)'
  BY <1>5 DEF Sound, Claimed
<1> QED
  BY <1>4, <1>5, <1>6 DEF ImageContents


\* A step after which files, path and claims are as before: a failure inside
\* Create, its removal, a refusal, a step of Open, a program killed.
LEMMA QuietTypes ==
    ASSUME ImageTypes, NEW p \in Programs, NEW there \in Places \ {"idle", "truncate", "boot", "format"},
           Moved(p, there),
           UNCHANGED <<files, last, mixed>>, path' \in {0, path},
           view' = [q \in Programs |-> view'[q]],
           job' \in [Programs -> Jobs], \A q \in Programs : q # p => job'[q] = job[q],
           job'[p].file \in 0 .. Len(files),
           there \in Formatting => Layout(job'[p]),
           there \in Reading => job'[p].file # 0
    PROVE  ImageTypes'
<1>1. /\ IsSeq(files') /\ Len(files) \in Nat /\ files' = files
      /\ \A i \in DOMAIN files' : DOMAIN files'[i] \subseteq 0 .. (Word - 1)
  BY SeqFacts DEF ImageTypes
<1>2. path' \in 0 .. Len(files') /\ last' \in Programs \cup {NoProgram} /\ mixed' \subseteq Programs
  BY <1>1 DEF ImageTypes
<1>3. ASSUME NEW q \in Programs
      PROVE  /\ job'[q].file \in 0 .. Len(files')
             /\ pc'[q] = "idle" => job'[q] = NoJob
             /\ pc'[q] \in Formatting => Layout(job'[q])
             /\ pc'[q] \in Reading => job'[q].file # 0
             /\ pc'[q] \in {"truncate", "boot"} => job'[q].step = 1
             /\ pc'[q] = "format" =>
                   job'[q].step \in 1 .. Len(FormatWrites(job'[q].start, job'[q].total))
  <2>1. CASE q # p
    <3>1. job'[q] = job[q] /\ pc'[q] = pc[q]
      BY <2>1 DEF Moved
    <3> QED
      BY <1>1, <3>1 DEF ImageTypes
  <2>2. CASE q = p
    BY <1>1, <2>2 DEF Moved
  <2> QED
    BY <2>1, <2>2
<1> QED
  BY <1>1, <1>2, <1>3 DEF ImageTypes, Moved

LEMMA QuietContents ==
    ASSUME ImageTypes, ImageContents, NEW p \in Programs,
           NEW there \in Places \ {"created"},
           Moved(p, there),
           UNCHANGED <<files, last, mixed>>, path' \in {0, path},
           path' = path \/ pc[p] = "remove",
           job' \in [Programs -> Jobs], \A q \in Programs : q # p => job'[q] = job[q],
           there \in Formatting => there = "remove" /\ pc[p] \in Formatting \ {"remove"},
           there = "opensuper" => /\ job'[p].file \in DOMAIN files
                                  /\ 0 \in DOMAIN files[job'[p].file]
                                  /\ files[job'[p].file][0] = Boot,
           pc[p] \in Formatting =>
               there \in Formatting \cup {"killed", "failed", "left"},
           pc[p] \in Formatting => job'[p].file = job[p].file /\ job'[p].total = job[p].total,
           pc[p] \notin {"killed", "failed", "left"}
    PROVE  ImageContents'
<1>1. \A i \in DOMAIN files : Sound(i) => Sound(i)'
  <2> SUFFICES ASSUME NEW i \in DOMAIN files, Sound(i) PROVE Sound(i)'
    OBVIOUS
  <2>1. CASE Whole(files[i])
    BY <2>1 DEF Sound
  <2>2. CASE Claimed(i)
    <3>1. PICK q \in Programs : /\ job[q].file = i /\ job[q].total # 0
                                /\ pc[q] \in Formatting \cup {"killed", "failed", "left"}
      BY <2>2 DEF Claimed
    <3>2. CASE q = p
      <4>1. job'[p].file = i /\ job'[p].total # 0 /\ pc'[p] \in Formatting \cup {"killed", "failed", "left"}
        BY <3>1, <3>2 DEF Moved
      <4> QED
        BY <4>1 DEF Sound, Claimed
    <3>3. CASE q # p
      <4>1. job'[q] = job[q] /\ pc'[q] = pc[q]
        BY <3>3 DEF Moved
      <4> QED
        BY <3>1, <4>1 DEF Sound, Claimed
    <3> QED
      BY <3>2, <3>3
  <2> QED
    BY <2>1, <2>2 DEF Sound
<1>2. \A i \in DOMAIN files' : 0 \in DOMAIN files'[i] /\ files'[i][0] = Boot => Sound(i)'
  <2> SUFFICES ASSUME NEW i \in DOMAIN files, 0 \in DOMAIN files[i], files[i][0] = Boot
               PROVE  Sound(i)'
    OBVIOUS
  <2> QED
    BY <1>1 DEF ImageContents
<1>3. ASSUME NEW q \in Programs
      PROVE  /\ pc'[q] \in Formatting =>
                   last' = q /\ path' = job'[q].file /\ Stage(pc'[q], Mine(q)', job'[q])
             /\ pc'[q] = "created" /\ last' = q =>
                   path' = job'[q].file /\ Finished(Mine(q)', job'[q]) /\ Asked(job'[q])
             /\ pc'[q] = "opensuper" =>
                   \E i \in DOMAIN files : i = job'[q].file /\ Sound(i)'
  <2>1. CASE q = p
    <3>1. pc'[p] = there /\ there # "created"
      BY DEF Moved
    <3>2. ASSUME there \in Formatting
          PROVE  last' = p /\ path' = job'[p].file /\ Stage(there, Mine(p)', job'[p])
      <4>1. there = "remove" /\ pc[p] \in Formatting /\ pc[p] # "remove"
        BY <3>2
      <4>2. last = p /\ path = job[p].file
        BY <4>1 DEF ImageContents
      <4>3. path' = path
        BY <4>1
      <4>4. Stage(there, Mine(p)', job'[p])
        BY <4>1 DEF Stage
      <4> QED
        BY <4>1, <4>2, <4>3, <4>4
    <3>3. ASSUME there = "opensuper"
          PROVE  \E i \in DOMAIN files : i = job'[p].file /\ Sound(i)'
      BY <1>2, <3>3
    <3> QED
      BY <2>1, <3>1, <3>2, <3>3
  <2>2. CASE q # p
    <3>1. pc'[q] = pc[q] /\ job'[q] = job[q] /\ last' = last
      BY <2>2 DEF Moved
    <3>2. pc[p] = "remove" => last = p /\ pc[q] \notin Formatting
      BY <2>2 DEF ImageContents, Formatting
    <3>3. Mine(q)' = Mine(q)
      BY <3>1 DEF Mine
    <3>4. ASSUME pc[q] = "opensuper"
          PROVE  \E i \in DOMAIN files : i = job'[q].file /\ Sound(i)'
      <4>1. job[q].file \in 0 .. Len(files) /\ job[q].file # 0 /\ DOMAIN files = 1 .. Len(files)
            /\ Len(files) \in Nat
        BY <3>4, SeqFacts DEF ImageTypes, Reading
      <4>2. PICK i \in DOMAIN files : i = job[q].file
        BY <4>1
      <4>3. Sound(i)
        BY <3>4, <4>2 DEF ImageContents
      <4> QED
        BY <1>1, <3>1, <4>2, <4>3
    <3>5. ASSUME pc[q] \in Formatting
          PROVE  last' = q /\ path' = job'[q].file /\ Stage(pc'[q], Mine(q)', job'[q])
      BY <3>1, <3>2, <3>3, <3>5 DEF ImageContents
    <3>6. ASSUME pc[q] = "created", last = q
          PROVE  path' = job'[q].file /\ Finished(Mine(q)', job'[q]) /\ Asked(job'[q])
      BY <2>2, <3>1, <3>2, <3>3, <3>6 DEF ImageContents
    <3> QED
      BY <3>1, <3>4, <3>5, <3>6
  <2> QED
    BY <2>1, <2>2
<1>4. \A q \in Programs : pc'[q] = "opensuper" => Sound(job[q].file)'
  BY <1>3 DEF Sound, Claimed
<1> QED
  BY <1>2, <1>3, <1>4 DEF ImageContents

\* A failure inside Create.
LEMMA WorkFails ==
    ASSUME ImageInv, NEW p \in Programs, pc[p] \in Formatting \ {"remove"},
           Goto(p, "remove"), SameJobs(p),
           UNCHANGED <<path, files, view, last, mixed>>
    PROVE  ImageInv'
<1>1. ImageTypes /\ Layout(job[p]) /\ job[p].file \in 0 .. Len(files)
  BY DEF ImageInv, ImageTypes
<1>2. /\ "remove" \in Places \ {"idle", "truncate", "boot", "format", "created"}
      /\ "remove" \in Formatting /\ "remove" \notin Reading /\ "remove" # "opensuper"
  BY DEF Places, Formatting, Reading
<1>3. Moved(p, "remove")
  BY <1>1, <1>2, MovedBy
<1>4. /\ job' \in [Programs -> Jobs] /\ \A q \in Programs : q # p => job'[q] = job[q]
      /\ job'[p].file = job[p].file /\ job'[p].total = job[p].total
  BY DEF SameJobs
<1>5. Layout(job'[p])
  BY <1>1 DEF Layout, Asked, SameJobs
<1>6. view' = [q \in Programs |-> view'[q]]
  BY <1>1 DEF ImageTypes
<1>7. ImageTypes'
  BY <1>1, <1>2, <1>3, <1>4, <1>5, <1>6, QuietTypes
<1>8. pc[p] \notin {"killed", "failed", "left"}
  BY DEF Formatting
<1>9. ASSUME mixed' = {} PROVE ImageContents'
  <2>1. ImageContents
    BY <1>9 DEF ImageInv
  <2> QED
    BY <1>1, <1>2, <1>3, <1>4, <1>8, <2>1, QuietContents
<1> QED
  BY <1>7, <1>9 DEF ImageInv

\* A step of Create on the contents of its file, or a failure of it.
LEMMA Works ==
    ASSUME ImageInv, NEW p \in Programs, NEW from \in Formatting \ {"remove"},
           NEW to \in Formatting \cup {"created"}, NEW f,
           Change(p, from, to, f), SameJobs(p),
           DOMAIN f \subseteq 0 .. (Word - 1),
           to \in {"truncate", "boot"} => job'[p].step = 1,
           to = "format" =>
               job'[p].step \in 1 .. Len(FormatWrites(job[p].start, job[p].total)),
           mixed = {} /\ Stage(from, Mine(p), job[p]) => Stage(to, f, job'[p]),
           mixed = {} /\ Stage(from, Mine(p), job[p]) /\ to = "created" => Finished(f, job[p])
    PROVE  ImageInv'
<1>1. /\ pc[p] = from /\ pc[p] \in Formatting
      /\ UNCHANGED <<path, view, last, mixed>>
      /\ \/ Goto(p, to) /\ files' = [files EXCEPT ![job[p].file] = f]
         \/ Goto(p, "remove") /\ files' = files
  BY DEF Change
<1>2. ImageTypes /\ Layout(job[p]) /\ job[p].file \in 0 .. Len(files) /\ job[p] \in Jobs
  BY <1>1 DEF ImageInv, ImageTypes
<1>3. mixed = {} => ImageContents /\ Stage(from, Mine(p), job[p])
  BY <1>1 DEF ImageInv, ImageContents
<1>4. CASE Goto(p, to) /\ files' = [files EXCEPT ![job[p].file] = f]
  <2>1. FileIs(p, f)
    BY <1>1, <1>2, <1>4, FileChanged
  <2>2. to \in Places
    BY DEF Places
  <2>3. Moved(p, to)
    BY <1>2, <1>4, <2>2, MovedBy
  <2>5. ImageTypes'
    BY <1>1, <1>2, <2>1, <2>3, WriteTypes
  <2>6. ASSUME mixed' = {} PROVE ImageContents'
    <3>1. /\ ImageContents /\ Stage(to, f, job'[p])
          /\ to = "created" => Finished(f, job[p])
      BY <1>1, <1>3, <2>6
    <3> QED
      BY <1>1, <1>2, <2>1, <2>3, <3>1, WriteContents
  <2> QED
    BY <2>5, <2>6 DEF ImageInv
<1>5. CASE Goto(p, "remove") /\ files' = files
  BY <1>1, <1>5, WorkFails
<1> QED
  BY <1>1, <1>4, <1>5

LEMMA KeepsJobs ==
    ASSUME ImageTypes, NEW p \in Programs, job' = job
    PROVE  SameJobs(p)
BY DEF ImageTypes, SameJobs

LEMMA JobFacts ==
    ASSUME ImageTypes, NEW p \in Programs, pc[p] \in Formatting
    PROVE  /\ job[p].start \in Nat /\ job[p].total \in Nat
           /\ IListSector + 2 <= job[p].start /\ job[p].start + 3 <= job[p].total
           /\ job[p].total - 1 \in 0 .. (Word - 1)
           /\ job[p].total - 1 \in Nat
           /\ job[p].file \in DOMAIN files
           /\ DOMAIN Mine(p) \subseteq 0 .. (Word - 1)
<1>1. Layout(job[p]) /\ job[p] \in Jobs /\ job[p].file \in 0 .. Len(files)
      /\ IsSeq(files) /\ \A i \in DOMAIN files : DOMAIN files[i] \subseteq 0 .. (Word - 1)
  BY DEF ImageTypes
<1>2. job[p].start \in Nat /\ job[p].total \in Nat /\ job[p].file \in Nat
  BY <1>1 DEF Jobs
<1>3. /\ job[p].file # 0 /\ job[p].total < Word /\ IListSector + 2 <= job[p].start
      /\ job[p].start + 3 <= job[p].total /\ Word \in Nat
  BY <1>1, ImageAssumption DEF Layout
<1>4. job[p].file \in DOMAIN files
  BY <1>1, <1>3, SeqFacts
<1>5. job[p].total - 1 \in 0 .. (Word - 1) /\ job[p].total - 1 \in Nat
  BY <1>2, <1>3 DEF IListSector
<1> QED
  BY <1>1, <1>2, <1>3, <1>4, <1>5 DEF Mine


LEMMA FormatStep == ImageInv /\ (\E p \in Programs : Format(p)) => ImageInv'
<1> SUFFICES ASSUME ImageInv, NEW p \in Programs, Format(p) PROVE ImageInv'
  OBVIOUS
<1> DEFINE writes == FormatWrites(job[p].start, job[p].total)
           to     == IF job[p].step = Len(writes) THEN "rootinode" ELSE "format"
<1>0. pc[p] = "format" /\ pc[p] \in Formatting /\ ImageTypes
  BY DEF Format, Change, ImageInv, Formatting
<1>1. PICK s : s = writes[job[p].step][1]
  OBVIOUS
<1>2. PICK c : c = writes[job[p].step][2]
  OBVIOUS
<1>3. PICK f : f = Written(Mine(p), s, c)
  OBVIOUS
<1>4. Change(p, "format", to, f) /\ job' = [job EXCEPT ![p].step = @ + 1]
  BY <1>1, <1>2, <1>3 DEF Format
<1>5. PICK n : n = job[p].step
  OBVIOUS
<1>6. PICK start : start = job[p].start
  OBVIOUS
<1>7. PICK total : total = job[p].total
  OBVIOUS
<1>8. /\ start \in Nat /\ total \in Nat /\ IListSector + 2 <= start /\ start + 3 <= total
      /\ total - 1 \in 0 .. (Word - 1) /\ DOMAIN Mine(p) \subseteq 0 .. (Word - 1)
  BY <1>0, <1>6, <1>7, JobFacts
<1>9. n \in 1 .. Len(FormatWrites(start, total)) /\ n \in Nat /\ Len(FormatWrites(start, total)) \in Nat
  <2>1. Len(FormatWrites(start, total)) \in Nat
    BY <1>8, WritesAre DEF AreWrites
  <2> QED
    BY <1>0, <1>5, <1>6, <1>7, <2>1 DEF ImageTypes
<1>10. s \in 1 .. (total - 1) /\ \A file : Laid(file, start, total, n - 1, 0, 0) =>
                                        Laid(Written(file, s, c), start, total, n, 0, 0)
  BY <1>1, <1>2, <1>5, <1>6, <1>7, <1>8, <1>9, LaidNext
<1>11. /\ job' \in [Programs -> Jobs] /\ \A q \in Programs : q # p => job'[q] = job[q]
       /\ job'[p].file = job[p].file /\ job'[p].asked = job[p].asked
       /\ job'[p].total = job[p].total /\ job'[p].start = job[p].start
       /\ job'[p].step = n + 1
  <2>1. job \in [Programs -> Jobs]
    BY <1>0 DEF ImageTypes
  <2> QED
    <3>1. job' = [job EXCEPT ![p] = [job[p] EXCEPT !.step = n + 1]]
      BY <1>4, <1>5
    <3>2. job[p] \in Jobs
      BY <2>1
    <3> DEFINE j == [job[p] EXCEPT !.step = n + 1]
    <3>3. /\ j \in Jobs /\ j.file = job[p].file /\ j.asked = job[p].asked
          /\ j.total = job[p].total /\ j.start = job[p].start /\ j.step = n + 1
      BY <1>9, <3>2 DEF Jobs
    <3> HIDE DEF j
    <3>4. job' = [job EXCEPT ![p] = j]
      BY <3>1 DEF j
    <3> QED
      BY <2>1, <3>3, <3>4
<1>12. SameJobs(p)
  BY <1>11 DEF SameJobs
<1>13. DOMAIN f \subseteq 0 .. (Word - 1)
  <2>1. s \in 0 .. (Word - 1) /\ Word - 1 \in Nat
    BY <1>8, <1>10, ImageAssumption
  <2> QED
    BY <1>3, <1>8, <2>1, WrittenWithin
<1>14. to = "format" => n + 1 \in 1 .. Len(FormatWrites(job[p].start, job[p].total))
  BY <1>5, <1>6, <1>7, <1>9
<1>15. Stage("format", Mine(p), job[p]) => Stage(to, f, job'[p])
  <2> SUFFICES ASSUME Stage("format", Mine(p), job[p]) PROVE Stage(to, f, job'[p])
    OBVIOUS
  <2>1. Laid(Mine(p), start, total, n - 1, 0, 0)
    BY <1>5, <1>6, <1>7 DEF Stage
  <2>2. Laid(f, start, total, n, 0, 0)
    BY <1>3, <1>10, <2>1
  <2>3. CASE n = Len(writes)
    <3>1. to = "rootinode"
      BY <1>5, <2>3
    <3>2. job'[p].start = start /\ job'[p].total = total
      BY <1>6, <1>7, <1>11
    <3>3. Laid(f, job'[p].start, job'[p].total, Len(FormatWrites(job'[p].start, job'[p].total)), 0, 0)
      BY <1>6, <1>7, <2>2, <2>3, <3>2
    <3>4. Stage("rootinode", f, job'[p])
      BY <3>3 DEF Stage
    <3> QED
      BY <3>1, <3>4
  <2>4. CASE n # Len(writes)
    <3>1. to = "format"
      BY <1>5, <2>4
    <3>2. job'[p].start = start /\ job'[p].total = total /\ job'[p].step - 1 = n
      BY <1>6, <1>7, <1>9, <1>11
    <3>3. Stage("format", f, job'[p])
      BY <2>2, <3>2 DEF Stage
    <3> QED
      BY <3>1, <3>3
  <2> QED
    BY <2>3, <2>4
<1>16. to \in Formatting \cup {"created"} /\ "format" \in Formatting \ {"remove"} /\ to # "created"
       /\ to \notin {"truncate", "boot"}
  BY DEF Formatting
<1> HIDE DEF to
<1> QED
  BY <1>4, <1>11, <1>12, <1>13, <1>14, <1>15, <1>16, Works

LEMMA TruncateStep == ImageInv /\ (\E p \in Programs : Truncate(p)) => ImageInv'
<1> SUFFICES ASSUME ImageInv, NEW p \in Programs, Truncate(p) PROVE ImageInv'
  OBVIOUS
<1>1. PICK f : f = [s \in 0 .. (job[p].total - 1) |-> IF s \in DOMAIN Mine(p) THEN Mine(p)[s] ELSE Zero]
  OBVIOUS
<1>2. Change(p, "truncate", "boot", f) /\ job' = job
  BY <1>1 DEF Truncate
<1>3. pc[p] \in Formatting /\ ImageTypes
  BY <1>2 DEF Change, Formatting, ImageInv
<1>4. SameJobs(p) /\ job[p].total - 1 \in 0 .. (Word - 1)
  BY <1>2, <1>3, KeepsJobs, JobFacts
<1>5. DOMAIN f \subseteq 0 .. (Word - 1)
  BY <1>1, <1>4, ImageAssumption
<1>6. Stage("truncate", Mine(p), job[p]) => Stage("boot", f, job'[p])
  BY <1>1, <1>2 DEF Stage
<1>7. "boot" \in Formatting \cup {"created"} /\ "truncate" \in Formatting \ {"remove"}
  BY DEF Formatting
<1>8. job'[p].step = 1
  BY <1>2, <1>3 DEF Change, ImageTypes
<1> QED
  BY <1>2, <1>4, <1>5, <1>6, <1>7, <1>8, Works

LEMMA BootStep == ImageInv /\ (\E p \in Programs : WriteBootBlock(p)) => ImageInv'
<1> SUFFICES ASSUME ImageInv, NEW p \in Programs, WriteBootBlock(p) PROVE ImageInv'
  OBVIOUS
<1>1. PICK f : f = Written(Mine(p), 0, Boot)
  OBVIOUS
<1>2. Change(p, "boot", "format", f) /\ job' = job
  BY <1>1 DEF WriteBootBlock
<1>3. pc[p] = "boot" /\ pc[p] \in Formatting /\ ImageTypes
  BY <1>2 DEF Change, Formatting, ImageInv
<1>4. PICK start : start = job[p].start
  OBVIOUS
<1>5. PICK total : total = job[p].total
  OBVIOUS
<1>6. /\ start \in Nat /\ total \in Nat /\ IListSector + 2 <= start /\ start + 3 <= total
      /\ SameJobs(p) /\ DOMAIN Mine(p) \subseteq 0 .. (Word - 1)
  BY <1>2, <1>3, <1>4, <1>5, JobFacts, KeepsJobs
<1>7. DOMAIN f \subseteq 0 .. (Word - 1)
  <2>1. 0 \in 0 .. (Word - 1) /\ Word - 1 \in Nat
    BY ImageAssumption
  <2> QED
    BY <1>1, <1>6, <2>1, WrittenWithin
<1>8. job'[p].step = 1 /\ 1 \in 1 .. Len(FormatWrites(start, total))
  <2>1. AreWrites(FormatWrites(start, total), start, total) /\ ChainLength(start, total) \in Nat
    BY <1>6, WritesAre, ChainReach
  <2>2. job'[p].step = 1
    BY <1>2, <1>3 DEF ImageTypes
  <2>3. Len(FormatWrites(start, total)) = start - IListSector + ChainLength(start, total)
    BY <2>1 DEF AreWrites
  <2> QED
    BY <1>6, <2>1, <2>2, <2>3 DEF IListSector
<1>9. Stage("boot", Mine(p), job[p]) => Stage("format", f, job'[p])
  <2> SUFFICES ASSUME Stage("boot", Mine(p), job[p]) PROVE Stage("format", f, job'[p])
    OBVIOUS
  <2>1. DOMAIN Mine(p) = 0 .. (total - 1) /\ \A s \in 0 .. (total - 1) : Mine(p)[s] = Zero
    BY <1>5 DEF Stage
  <2>2. Laid(f, start, total, 0, 0, 0)
    BY <1>1, <1>6, <2>1, LaidBoot
  <2>3. job'[p].start = start /\ job'[p].total = total /\ job'[p].step - 1 = 0
    BY <1>2, <1>4, <1>5, <1>8
  <2> QED
    BY <2>2, <2>3 DEF Stage
<1>10. "format" \in Formatting \cup {"created"} /\ "boot" \in Formatting \ {"remove"}
  BY DEF Formatting
<1> QED
  BY <1>2, <1>4, <1>5, <1>6, <1>7, <1>8, <1>9, <1>10, Works

LEMMA RootStep ==
    ImageInv /\ (\E p \in Programs : WriteRootInode(p) \/ WriteRootDir(p)) => ImageInv'
<1> SUFFICES ASSUME ImageInv, NEW p \in Programs, WriteRootInode(p) \/ WriteRootDir(p)
             PROVE  ImageInv'
  OBVIOUS
<1>1. pc[p] \in {"rootinode", "rootdir"} /\ pc[p] \in Formatting /\ ImageTypes /\ job' = job
  BY DEF WriteRootInode, WriteRootDir, Change, Formatting, ImageInv
<1>2. PICK start : start = job[p].start
  OBVIOUS
<1>3. PICK total : total = job[p].total
  OBVIOUS
<1>4. PICK root : root = RootBlockOf(start, total)
  OBVIOUS
<1>5. PICK n : n = Len(FormatWrites(start, total))
  OBVIOUS
<1>6. PICK file : file = Mine(p)
  OBVIOUS
<1>7. /\ start \in Nat /\ total \in Nat /\ IListSector + 2 <= start /\ start + 3 <= total
      /\ total - 1 \in 0 .. (Word - 1)
      /\ SameJobs(p) /\ DOMAIN file \subseteq 0 .. (Word - 1)
  BY <1>1, <1>2, <1>3, <1>6, JobFacts, KeepsJobs
<1>8. root \in 0 .. (Word - 1) /\ IListSector \in 0 .. (Word - 1) /\ Word - 1 \in Nat
  <2>1. root \in 1 .. (total - 1)
    BY <1>4, <1>5, <1>7, LaidRoot
  <2> QED
    BY <1>7, <2>1, ImageAssumption DEF IListSector
<1>9. /\ "rootinode" \in Formatting \ {"remove"} /\ "rootdir" \in Formatting \ {"remove"}
      /\ "rootdir" \in Formatting \cup {"created"} /\ "super" \in Formatting \cup {"created"}
  BY DEF Formatting
<1>10. CASE WriteRootInode(p)
  <2>1. PICK marked : marked = (file[IListSector].kind = "inodes" /\ file[IListSector].reserved)
    OBVIOUS
  <2>2. PICK f : f = Written(file, IListSector, FirstInodes(marked, root))
    OBVIOUS
  <2>3. Stage("rootinode", file, job[p]) =>
            IListSector \in DOMAIN file /\ Stage("rootdir", f, job[p])
    <3> SUFFICES ASSUME Stage("rootinode", file, job[p])
                 PROVE  IListSector \in DOMAIN file /\ Stage("rootdir", f, job[p])
      OBVIOUS
    <3>1. Laid(file, start, total, n, 0, 0)
      BY <1>2, <1>3, <1>5 DEF Stage
    <3>2. /\ IListSector \in DOMAIN file
          /\ file[IListSector].kind = "inodes" /\ file[IListSector].reserved = TRUE
          /\ Laid(Written(file, IListSector, FirstInodes(TRUE, root)), start, total, n, root, 0)
      BY <1>4, <1>5, <1>7, <3>1, LaidRoot
    <3>3. marked = TRUE
      BY <2>1, <3>2
    <3>4. Laid(f, start, total, n, root, 0)
      BY <2>2, <3>2, <3>3
    <3> QED
      BY <1>2, <1>3, <1>4, <1>5, <3>2, <3>4 DEF Stage
  <2>4. DOMAIN f \subseteq 0 .. (Word - 1)
    BY <1>7, <1>8, <2>2, WrittenWithin
  <2>5. CASE IListSector \in DOMAIN file
    <3>1. Change(p, "rootinode", "rootdir", f)
      BY <1>2, <1>3, <1>4, <1>6, <1>10, <2>1, <2>2, <2>5 DEF WriteRootInode
    <3> QED
      BY <1>1, <1>6, <1>7, <1>9, <2>3, <2>4, <3>1, Works
  <2>6. CASE IListSector \notin DOMAIN file
    <3>1. /\ pc[p] = "rootinode" /\ Goto(p, "remove")
          /\ UNCHANGED <<path, files, view, last, mixed>>
      BY <1>6, <1>10, <2>6 DEF WriteRootInode
    <3> QED
      BY <1>7, <1>9, <3>1, WorkFails
  <2> QED
    BY <2>5, <2>6
<1>11. CASE WriteRootDir(p)
  <2>1. PICK f : f = Written(file, root, RootDir)
    OBVIOUS
  <2>2. Change(p, "rootdir", "super", f)
    BY <1>2, <1>3, <1>4, <1>6, <1>11, <2>1 DEF WriteRootDir
  <2>3. DOMAIN f \subseteq 0 .. (Word - 1)
    BY <1>7, <1>8, <2>1, WrittenWithin
  <2>4. Stage("rootdir", file, job[p]) => Stage("super", f, job[p])
    <3> SUFFICES ASSUME Stage("rootdir", file, job[p]) PROVE Stage("super", f, job[p])
      OBVIOUS
    <3>1. Laid(file, start, total, n, root, 0)
      BY <1>2, <1>3, <1>4, <1>5 DEF Stage
    <3>2. Laid(f, start, total, n, root, root)
      BY <1>4, <1>5, <1>7, <2>1, <3>1, LaidRoot
    <3> QED
      BY <1>2, <1>3, <1>4, <1>5, <3>2 DEF Stage
  <2> QED
    BY <1>1, <1>6, <1>7, <1>9, <2>2, <2>3, <2>4, Works
<1> QED
  BY <1>10, <1>11


LEMMA SeededIs ==
    ASSUME NEW start \in Nat, IListSector + 2 <= start,
           NEW file, NEW root, file[IListSector] = FirstInodes(TRUE, root), NEW sectors
    PROVE  /\ LastInode(start) \in Nat /\ LastInode(start) >= 3
           /\ Seeded(file, sectors, start) \in SUBSET (3 .. LastInode(start))
<1>1. Ipb \in Nat /\ Ipb >= 4
  BY ImageAssumption DEF InodesPerBlock, InodeSize, MinBlockSize
<1>2. LastInode(start) \in Nat /\ LastInode(start) >= 3
  <2> DEFINE n == start - IListSector
  <2>1. n \in Nat /\ n >= 2
    BY DEF IListSector
  <2> HIDE DEF n
  <2>2. n * Ipb >= 2 * Ipb /\ n * Ipb \in Nat
    BY <1>1, <2>1
  <2>3. n * Ipb >= 3
    BY <1>1, <2>2
  <2> QED
    BY <2>2, <2>3 DEF LastInode, n
<1>3. IListSector + (2 - 1) \div Ipb = IListSector
  <2> DEFINE q == 1 \div Ipb
             r == 1 % Ipb
  <2>1. q \in Int /\ r \in 0 .. (Ipb - 1) /\ 1 = Ipb * q + r
    BY <1>1
  <2> HIDE DEF q, r
  <2>2. ~(q >= 1)
    <3> SUFFICES ASSUME q >= 1 PROVE FALSE
      OBVIOUS
    <3>1. Ipb * q >= Ipb * 1
      BY <1>1, <2>1
    <3> QED
      BY <1>1, <2>1, <3>1
  <2>3. ~(q <= 0 - 1)
    <3> SUFFICES ASSUME q <= 0 - 1 PROVE FALSE
      OBVIOUS
    <3>1. Ipb * q <= Ipb * (0 - 1)
      BY <1>1, <2>1
    <3> QED
      BY <1>1, <2>1, <3>1
  <2>4. q = 0
    BY <2>1, <2>2, <2>3
  <2>5. 1 \div Ipb = 0
    BY <2>4 DEF q
  <2> QED
    BY <2>5 DEF IListSector
<1>4. FreeSlots(file, sectors, start) \subseteq 1 .. LastInode(start)
  BY DEF FreeSlots
<1>5. 2 \notin FreeSlots(file, sectors, start)
  <2> SUFFICES ASSUME 2 \in FreeSlots(file, sectors, start) PROVE FALSE
    OBVIOUS
  <2>1. file[IListSector + (2 - 1) \div Ipb].kind # "inodes"
    BY DEF FreeSlots
  <2>2. file[IListSector].kind = "inodes"
    BY DEF FirstInodes
  <2> QED
    BY <1>3, <2>1, <2>2
<1>6. Seeded(file, sectors, start) \subseteq FreeSlots(file, sectors, start) \ {1}
  BY DEF Seeded
<1>7. \A i \in 1 .. LastInode(start) : i # 1 /\ i # 2 => i \in 3 .. LastInode(start)
  BY <1>2
<1> QED
  BY <1>2, <1>4, <1>5, <1>6, <1>7

LEMMA SuperStep == ImageInv /\ (\E p \in Programs : WriteSuperBlock(p)) => ImageInv'
<1> SUFFICES ASSUME ImageInv, NEW p \in Programs, WriteSuperBlock(p) PROVE ImageInv'
  OBVIOUS
<1>1. PICK read \in SUBSET (IListSector .. (job[p].start - 1)) :
          Change(p, "super", "created",
                 Written(Mine(p), 1, Super(job[p].start, job[p].total,
                                           Seeded(Mine(p), read, job[p].start))))
  BY DEF WriteSuperBlock
<1>2. pc[p] = "super" /\ pc[p] \in Formatting /\ ImageTypes /\ job' = job
  BY DEF WriteSuperBlock, Formatting, ImageInv
<1>3. PICK start : start = job[p].start
  OBVIOUS
<1>4. PICK total : total = job[p].total
  OBVIOUS
<1>5. PICK file : file = Mine(p)
  OBVIOUS
<1>6. PICK seeded : seeded = Seeded(file, read, start)
  OBVIOUS
<1>7. PICK f : f = Written(file, 1, Super(start, total, seeded))
  OBVIOUS
<1>8. Change(p, "super", "created", f)
  BY <1>1, <1>3, <1>4, <1>5, <1>6, <1>7
<1>9. /\ start \in Nat /\ total \in Nat /\ IListSector + 2 <= start /\ start + 3 <= total
      /\ SameJobs(p) /\ DOMAIN file \subseteq 0 .. (Word - 1)
  BY <1>2, <1>3, <1>4, <1>5, JobFacts, KeepsJobs
<1>10. DOMAIN f \subseteq 0 .. (Word - 1)
  <2>1. 1 \in 0 .. (Word - 1) /\ Word - 1 \in Nat
    BY ImageAssumption
  <2> QED
    BY <1>7, <1>9, <2>1, WrittenWithin
<1>11. Stage("super", file, job[p]) => Finished(f, job[p])
  <2> SUFFICES ASSUME Stage("super", file, job[p]) PROVE Finished(f, job[p])
    OBVIOUS
  <2>1. PICK root : root = RootBlockOf(start, total)
    OBVIOUS
  <2>2. Laid(file, start, total, Len(FormatWrites(start, total)), root, root)
    BY <1>3, <1>4, <2>1 DEF Stage
  <2>3. file[IListSector] = FirstInodes(TRUE, root)
    <3>1. Len(FormatWrites(start, total)) > 0
      <4>1. AreWrites(FormatWrites(start, total), start, total) /\ ChainLength(start, total) \in Nat
        BY <1>9, WritesAre, ChainReach
      <4> QED
        BY <1>9, <4>1 DEF AreWrites, IListSector
    <3> QED
      BY <2>2, <3>1 DEF Laid
  <2>4. /\ LastInode(start) \in Nat /\ LastInode(start) >= 3
        /\ seeded \in SUBSET (3 .. LastInode(start))
    BY <1>6, <1>9, <2>3, SeededIs
  <2>5. Whole(f) /\ f[1].total = total
    BY <1>7, <1>9, <2>1, <2>2, <2>4, SealedWhole
  <2> QED
    BY <1>4, <2>5 DEF Finished
<1>12. Stage("created", f, job'[p])
  BY DEF Stage
<1>13. "super" \in Formatting \ {"remove"} /\ "created" \in Formatting \cup {"created"}
  BY DEF Formatting
<1> QED
  BY <1>5, <1>8, <1>9, <1>10, <1>11, <1>12, <1>13, Works

LEMMA RemoveStep == ImageInv /\ (\E p \in Programs : Remove(p)) => ImageInv'
<1> SUFFICES ASSUME ImageInv, NEW p \in Programs, Remove(p) PROVE ImageInv'
  OBVIOUS
<1>1. /\ pc[p] = "remove" /\ pc[p] \in Formatting /\ ImageTypes /\ job' = job
      /\ UNCHANGED <<files, view, last, mixed>> /\ path' \in {0, path}
  BY DEF Remove, Formatting, ImageInv
<1>2. PICK there \in {"failed", "left"} : Goto(p, there)
  BY DEF Remove
<1>3. /\ there \in Places \ {"idle", "truncate", "boot", "format", "created"}
      /\ there \notin Formatting /\ there \notin Reading /\ there # "opensuper"
  BY DEF Places, Formatting, Reading
<1>4. Moved(p, there)
  BY <1>1, <1>2, <1>3, MovedBy
<1>5. /\ job' \in [Programs -> Jobs] /\ \A q \in Programs : q # p => job'[q] = job[q]
      /\ job'[p].file \in 0 .. Len(files) /\ view' = [q \in Programs |-> view'[q]]
      /\ job'[p].file = job[p].file /\ job'[p].total = job[p].total
  BY <1>1 DEF ImageTypes
<1>6. ImageTypes'
  BY <1>1, <1>3, <1>4, <1>5, QuietTypes
<1>7. ASSUME mixed' = {} PROVE ImageContents'
  <2>1. ImageContents
    BY <1>1, <1>7 DEF ImageInv
  <2> QED
    BY <1>1, <1>3, <1>4, <1>5, <2>1, QuietContents
<1> QED
  BY <1>6, <1>7 DEF ImageInv

\* A refusal, a step of Open, or a program killed.
LEMMA OtherStep ==
    ASSUME ImageInv, NEW p \in Programs,
           NEW there \in {"refused", "openboot", "opensuper", "opened", "killed"},
           Goto(p, there), UNCHANGED <<path, files, last, mixed>>,
           view' = [q \in Programs |-> view'[q]],
           \/ job' = job
           \/ pc[p] = "idle" /\ path # 0 /\ job' = [job EXCEPT ![p].file = path],
           there \in Reading => job'[p].file # 0,
           there = "opensuper" => job' = job /\ 0 \in DOMAIN Mine(p) /\ Mine(p)[0] = Boot,
           pc[p] \in Formatting \cup Reading \cup {"idle"},
           pc[p] \in Formatting => there = "killed"
    PROVE  ImageInv'
<1>1. ImageTypes /\ IsSeq(files) /\ Len(files) \in Nat /\ DOMAIN files = 1 .. Len(files)
  BY SeqFacts DEF ImageInv, ImageTypes
<1>2. /\ there \in Places \ {"idle", "truncate", "boot", "format", "created"}
      /\ there \notin Formatting
  BY DEF Places, Formatting, Reading
<1>3. Moved(p, there)
  BY <1>1, <1>2, MovedBy
<1>4. /\ job' \in [Programs -> Jobs] /\ \A q \in Programs : q # p => job'[q] = job[q]
      /\ job'[p].file \in 0 .. Len(files)
      /\ pc[p] \in Formatting => job'[p].file = job[p].file /\ job'[p].total = job[p].total
  <2>1. job \in [Programs -> Jobs] /\ path \in Nat /\ path \in 0 .. Len(files) /\ job[p].file \in 0 .. Len(files)
    BY <1>1 DEF ImageTypes
  <2>2. CASE job' = job
    BY <2>1, <2>2
  <2>3. CASE pc[p] = "idle" /\ path # 0 /\ job' = [job EXCEPT ![p].file = path]
    <3> DEFINE j == [job[p] EXCEPT !.file = path]
    <3>1. j \in Jobs /\ j.file = path
      BY <2>1 DEF Jobs
    <3>2. job' = [job EXCEPT ![p] = j]
      BY <2>3
    <3> HIDE DEF j
    <3>3. pc[p] \notin Formatting
      BY <2>3 DEF Formatting
    <3> QED
      BY <2>1, <3>1, <3>2, <3>3
  <2> QED
    BY <2>2, <2>3
<1>5. ImageTypes'
  BY <1>1, <1>2, <1>3, <1>4, QuietTypes
<1>6. pc[p] \notin {"killed", "failed", "left"}
  BY DEF Formatting, Reading
<1>7. there = "opensuper" => /\ job'[p].file \in DOMAIN files
                             /\ 0 \in DOMAIN files[job'[p].file]
                             /\ files[job'[p].file][0] = Boot
  <2> SUFFICES ASSUME there = "opensuper"
               PROVE  /\ job'[p].file \in DOMAIN files
                      /\ 0 \in DOMAIN files[job'[p].file]
                      /\ files[job'[p].file][0] = Boot
    OBVIOUS
  <2>1. job' = job /\ job'[p].file # 0 /\ 0 \in DOMAIN Mine(p) /\ Mine(p)[0] = Boot
    BY DEF Reading
  <2> QED
    BY <1>1, <1>4, <2>1 DEF Mine
<1>8. ASSUME mixed' = {} PROVE ImageContents'
  <2>1. ImageContents
    BY <1>8 DEF ImageInv
  <2> QED
    BY <1>1, <1>2, <1>3, <1>4, <1>6, <1>7, <2>1, QuietContents
<1> QED
  BY <1>5, <1>8 DEF ImageInv


LEMMA CreateFileStep ==
    ASSUME ImageInv, NEW p \in Programs, NEW asked \in Sizes, CreateFile(p, asked)
    PROVE  ImageInv'
<1>1. PICK target : target = IF path = 0 THEN Len(files) + 1 ELSE path
  OBVIOUS
<1>2. PICK total : total = Blocks(asked)
  OBVIOUS
<1>2a. PICK pct \in Percents : \E start \in DataStarts(Blocks(asked), Ipb, Percentage(pct)) :
          job' = [job EXCEPT ![p] = [file |-> target, asked |-> asked,
                      total |-> Blocks(asked), start |-> start, step |-> 1]]
  BY <1>1 DEF CreateFile
<1>3. PICK start \in DataStarts(Blocks(asked), Ipb, Percentage(pct)) :
          job' = [job EXCEPT ![p] = [file |-> target, asked |-> asked,
                      total |-> Blocks(asked), start |-> start, step |-> 1]]
  BY <1>2a
<1>4. /\ pc[p] = "idle" /\ total >= MinBlocks /\ path' = target
      /\ files' = IF path = 0 THEN Append(files, <<>>) ELSE [files EXCEPT ![path] = <<>>]
      /\ Goto(p, "truncate") /\ last' = p /\ view' = view
      /\ mixed' = IF \E q \in Programs \ {p} : pc[q] \in Formatting
                  THEN mixed \cup {p} ELSE mixed
  BY <1>1, <1>2 DEF CreateFile
<1>5. /\ ImageTypes /\ IsSeq(files) /\ Len(files) \in Nat /\ DOMAIN files = 1 .. Len(files)
      /\ path \in 0 .. Len(files) /\ \A i \in DOMAIN files : DOMAIN files[i] \subseteq 0 .. (Word - 1)
  BY SeqFacts DEF ImageInv, ImageTypes
<1>6. /\ asked \in Nat /\ total \in Nat /\ total < Word
      /\ (asked < Word => total = asked)
  <2>1. asked \in Nat /\ Word \in Nat /\ Word > 0
    BY ImageAssumption
  <2> QED
    BY <1>2, <2>1 DEF Blocks
<1>7. start \in Nat /\ IListSector + 2 <= start /\ start + 3 <= total
  <2>1. Ipb \in Nat /\ Ipb >= 4 /\ pct \in Int
    BY ImageAssumption DEF InodesPerBlock, InodeSize, MinBlockSize
  <2>2. start \in DataStarts(total, Ipb, Percentage(pct))
    BY <1>2, <1>3
  <2> QED
    BY <1>4, <1>6, <2>1, <2>2, LayoutRoom
<1>8. /\ IsSeq(files') /\ Len(files') >= Len(files) /\ DOMAIN files' = 1 .. Len(files')
      /\ Len(files') \in Nat
      /\ target \in DOMAIN files' /\ files'[target] = <<>> /\ target \in Nat /\ target # 0
      /\ \A i \in DOMAIN files' : i # target => i \in DOMAIN files /\ files'[i] = files[i]
  <2> DEFINE S == {files[i] : i \in DOMAIN files} \cup {<<>>}
  <2>1. files \in Seq(S) /\ <<>> \in S
    BY <1>5, SeqMonotonic DEF IsSeq
  <2> HIDE DEF S
  <2>2. CASE path = 0
    <3>1. target = Len(files) + 1 /\ files' = Append(files, <<>>)
      BY <1>1, <1>4, <2>2
    <3>2. /\ files' \in Seq(S) /\ Len(files') = Len(files) + 1
          /\ files'[Len(files) + 1] = <<>>
          /\ \A i \in 1 .. Len(files) : files'[i] = files[i]
      BY <2>1, <3>1
    <3>3. IsSeq(files')
      BY <3>2, OwnEntries
    <3>4. DOMAIN files' = 1 .. (Len(files) + 1)
      BY <3>2
    <3>5. \A i \in DOMAIN files' : i # target => i \in DOMAIN files
      BY <1>5, <3>1, <3>4
    <3> QED
      BY <1>5, <3>1, <3>2, <3>3, <3>4, <3>5
  <2>3. CASE path # 0
    <3>1. target = path /\ files' = [files EXCEPT ![path] = <<>>] /\ path \in 1 .. Len(files)
      BY <1>1, <1>4, <1>5, <2>3
    <3>2. /\ files' \in Seq(S) /\ Len(files') = Len(files) /\ DOMAIN files' = DOMAIN files
          /\ files'[path] = <<>>
          /\ \A i \in DOMAIN files : i # path => files'[i] = files[i]
      BY <1>5, <2>1, <3>1
    <3>3. IsSeq(files')
      BY <3>2, OwnEntries
    <3> QED
      BY <1>5, <3>1, <3>2, <3>3
  <2> QED
    BY <2>2, <2>3
<1>9. PICK j : j = [file |-> target, asked |-> asked, total |-> total, start |-> start, step |-> 1]
  OBVIOUS
<1>10. /\ j \in Jobs /\ j.file = target /\ j.step = 1 /\ j.total = total
       /\ Layout(j)
  <2>1. j \in Jobs /\ j.file = target /\ j.step = 1 /\ j.total = total /\ j.asked = asked /\ j.start = start
    BY <1>6, <1>7, <1>8, <1>9 DEF Jobs
  <2>2. Asked(j)
    BY <1>6, <2>1, ImageAssumption DEF Asked
  <2> QED
    BY <1>6, <1>7, <1>8, <2>1, <2>2 DEF Layout
<1>11. job' \in [Programs -> Jobs] /\ job'[p] = j /\ \A q \in Programs : q # p => job'[q] = job[q]
  <2>1. job' = [job EXCEPT ![p] = j] /\ job \in [Programs -> Jobs]
    BY <1>2, <1>3, <1>5, <1>9 DEF ImageTypes
  <2> QED
    BY <1>10, <2>1
<1>12. Moved(p, "truncate") /\ "truncate" \in Formatting
  BY <1>4, <1>5, MovedBy DEF Places, Formatting
<1>13. ImageTypes'
  <2>1. ASSUME NEW q \in Programs
        PROVE  /\ job'[q].file \in 0 .. Len(files')
               /\ pc'[q] = "idle" => job'[q] = NoJob
               /\ pc'[q] \in Formatting => Layout(job'[q])
               /\ pc'[q] \in Reading => job'[q].file # 0
               /\ pc'[q] \in {"truncate", "boot"} => job'[q].step = 1
               /\ pc'[q] = "format" =>
                     job'[q].step \in 1 .. Len(FormatWrites(job'[q].start, job'[q].total))
    <3>1. CASE q # p
      <4>1. job'[q] = job[q] /\ pc'[q] = pc[q]
        BY <1>11, <1>12, <3>1 DEF Moved
      <4>2. job[q].file \in 0 .. Len(files')
        <5>1. job[q].file \in 0 .. Len(files)
          BY <1>5 DEF ImageTypes
        <5> QED
          BY <1>5, <1>8, <5>1
      <4> QED
        BY <1>5, <4>1, <4>2 DEF ImageTypes
    <3>2. CASE q = p
      <4>1. pc'[p] = "truncate" /\ "truncate" \notin Reading
        BY <1>12 DEF Moved, Reading
      <4>2. target \in 0 .. Len(files')
        BY <1>8
      <4> QED
        BY <1>10, <1>11, <3>2, <4>1, <4>2
    <3> QED
      BY <3>1, <3>2
  <2>2. path' \in 0 .. Len(files')
    BY <1>4, <1>8
  <2>3. \A i \in DOMAIN files' : DOMAIN files'[i] \subseteq 0 .. (Word - 1)
    BY <1>5, <1>8
  <2>4. last' \in Programs \cup {NoProgram} /\ mixed' \subseteq Programs
        /\ view' = [q \in Programs |-> view'[q]]
    BY <1>4, <1>5 DEF ImageTypes
  <2> QED
    BY <1>8, <1>11, <1>12, <2>1, <2>2, <2>3, <2>4 DEF ImageTypes, Moved
<1>14. ASSUME mixed' = {} PROVE ImageContents'
  <2>1. ImageContents /\ \A q \in Programs : q # p => pc[q] \notin Formatting
    BY <1>4, <1>14 DEF ImageInv
  <2>2. Sound(target)'
    <3>1. job'[p].file = target /\ job'[p].total # 0 /\ pc'[p] \in Formatting
      BY <1>7, <1>10, <1>11, <1>12 DEF Moved, IListSector
    <3> QED
      BY <3>1 DEF Sound, Claimed
  <2>3. \A i \in DOMAIN files : i # target /\ Sound(i) => Sound(i)'
    <3> SUFFICES ASSUME NEW i \in DOMAIN files, i # target, Sound(i) PROVE Sound(i)'
      OBVIOUS
    <3>0. i \in DOMAIN files'
      BY <1>5, <1>8
    <3>1. CASE Whole(files[i])
      BY <1>8, <3>0, <3>1 DEF Sound
    <3>2. CASE Claimed(i)
      <4>1. PICK q \in Programs : /\ job[q].file = i /\ job[q].total # 0
                                  /\ pc[q] \in Formatting \cup {"killed", "failed", "left"}
        BY <3>2 DEF Claimed
      <4>2. q # p
        BY <1>4, <4>1 DEF Formatting
      <4>3. job'[q] = job[q] /\ pc'[q] = pc[q]
        BY <1>11, <1>12, <4>2 DEF Moved
      <4> QED
        BY <4>1, <4>3 DEF Sound, Claimed
    <3> QED
      BY <3>1, <3>2 DEF Sound
  <2>4. \A i \in DOMAIN files' : 0 \in DOMAIN files'[i] /\ files'[i][0] = Boot => Sound(i)'
    <3> SUFFICES ASSUME NEW i \in DOMAIN files', 0 \in DOMAIN files'[i], files'[i][0] = Boot
                 PROVE  Sound(i)'
      OBVIOUS
    <3>1. CASE i = target
      BY <2>2, <3>1
    <3>2. CASE i # target
      BY <1>8, <2>1, <2>3, <3>2 DEF ImageContents
    <3> QED
      BY <3>1, <3>2
  <2>5. ASSUME NEW q \in Programs
        PROVE  /\ pc'[q] \in Formatting =>
                     last' = q /\ path' = job'[q].file /\ Stage(pc'[q], Mine(q)', job'[q])
               /\ pc'[q] = "created" /\ last' = q =>
                     path' = job'[q].file /\ Finished(Mine(q)', job'[q]) /\ Asked(job'[q])
               /\ pc'[q] = "opensuper" =>
                     \E i \in DOMAIN files' : i = job'[q].file /\ Sound(i)'
    <3>1. CASE q = p
      <4>1. pc'[p] = "truncate"
        BY <1>12 DEF Moved
      <4>2. Mine(p)' = <<>>
        BY <1>8, <1>10, <1>11 DEF Mine
      <4>3. Stage("truncate", Mine(p)', job'[p])
        BY <4>2 DEF Stage
      <4> QED
        BY <1>4, <1>10, <1>11, <3>1, <4>1, <4>3
    <3>2. CASE q # p
      <4>1. job'[q] = job[q] /\ pc'[q] = pc[q] /\ last' # q /\ pc[q] \notin Formatting
        BY <1>4, <1>11, <1>12, <2>1, <3>2 DEF Moved
      <4>2. ASSUME pc[q] = "opensuper"
            PROVE  \E i \in DOMAIN files' : i = job'[q].file /\ Sound(i)'
        <5>1. job[q].file \in 0 .. Len(files) /\ job[q].file # 0
          BY <1>5, <4>2 DEF ImageTypes, Reading
        <5>2. PICK i \in DOMAIN files : i = job[q].file
          BY <1>5, <5>1
        <5>3. Sound(i) /\ i \in DOMAIN files'
          BY <1>5, <1>8, <2>1, <4>2, <5>2 DEF ImageContents
        <5> QED
          BY <2>2, <2>3, <4>1, <5>2, <5>3
      <4> QED
        BY <4>1, <4>2
    <3> QED
      BY <3>1, <3>2
  <2>6. \A q \in Programs : pc'[q] = "opensuper" => Sound(job[q].file)'
    BY <2>5 DEF Sound, Claimed
  <2> QED
    BY <2>4, <2>5, <2>6 DEF ImageContents
<1> QED
  BY <1>13, <1>14 DEF ImageInv

LEMMA ImageInit == Init => ImageInv
<1> SUFFICES ASSUME Init PROVE ImageInv
  OBVIOUS
<1>1. \/ path = 0 /\ files = <<>>
      \/ path = 1 /\ files = <<[s \in 0 .. 9 |-> Foreign]>>
  BY DEF Init
<1>2. /\ IsSeq(files) /\ path \in 0 .. Len(files)
      /\ \A i \in DOMAIN files : /\ DOMAIN files[i] \subseteq 0 .. (Word - 1)
                                 /\ ~(0 \in DOMAIN files[i] /\ files[i][0] = Boot)
      /\ Len(files) \in Nat
  <2>1. CASE path = 0 /\ files = <<>>
    <3>1. files \in Seq({}) /\ Len(files) = 0 /\ DOMAIN files = {}
      BY <2>1
    <3>2. IsSeq(files)
      BY <3>1, OwnEntries
    <3> QED
      BY <2>1, <3>1, <3>2
  <2>2. CASE path = 1 /\ files = <<[s \in 0 .. 9 |-> Foreign]>>
    <3> DEFINE f == [s \in 0 .. 9 |-> Foreign]
    <3>1. DOMAIN f = 0 .. 9 /\ f[0] = Foreign /\ Foreign # Boot
      BY DEF Foreign, Boot
    <3>2. 0 .. 9 \subseteq 0 .. (Word - 1)
      BY ImageAssumption
    <3> HIDE DEF f
    <3>3. files = <<f>>
      BY <2>2 DEF f
    <3>4. files \in Seq({f}) /\ Len(files) = 1 /\ \A i \in DOMAIN files : files[i] = f
      BY <3>3
    <3> QED
      BY <2>2, <3>1, <3>2, <3>4, OwnEntries
  <2> QED
    BY <1>1, <2>1, <2>2
<1>3. /\ pc = [p \in Programs |-> "idle"] /\ job = [p \in Programs |-> NoJob]
      /\ view = [p \in Programs |-> Zero] /\ last = NoProgram /\ mixed = {}
  BY DEF Init
<1>4. NoJob \in Jobs /\ NoJob.file = 0
  BY DEF NoJob, Jobs
<1>5. /\ "idle" \in Places /\ "idle" \notin Formatting /\ "idle" \notin Reading
  BY DEF Places, Formatting, Reading
<1>6. ImageTypes
  BY <1>2, <1>3, <1>4, <1>5 DEF ImageTypes
<1>7. ImageContents
  BY <1>2, <1>3, <1>5 DEF ImageContents
<1> QED
  BY <1>6, <1>7 DEF ImageInv

LEMMA ImageStep == ImageInv /\ [Next]_vars => ImageInv'
<1> SUFFICES ASSUME ImageInv, [Next]_vars PROVE ImageInv'
  OBVIOUS
<1>0. /\ view = [q \in Programs |-> view[q]]
      /\ \A p \in Programs : pc[p] \in Reading => job[p].file # 0
      /\ path \in Nat /\ job \in [Programs -> Jobs]
  BY SeqFacts DEF ImageInv, ImageTypes
<1>1. CASE UNCHANGED vars
  BY <1>1 DEF vars, ImageInv, ImageTypes, ImageContents, Mine, Sound, Claimed
<1>2. ASSUME NEW p \in Programs, NEW asked \in Sizes, RefuseCreate(p, asked) PROVE ImageInv'
  BY <1>0, <1>2, OtherStep DEF RefuseCreate, Formatting, Reading
<1>3. ASSUME NEW p \in Programs, CreateFails(p) PROVE ImageInv'
  BY <1>0, <1>3, OtherStep DEF CreateFails, Formatting, Reading
<1>4. ASSUME NEW p \in Programs, OpenFile(p) PROVE ImageInv'
  <2>1. CASE path = 0
    BY <1>0, <1>4, <2>1, OtherStep DEF OpenFile, Formatting, Reading
  <2>2. CASE path # 0
    <3>1. /\ pc[p] = "idle" /\ Goto(p, "openboot") /\ job' = [job EXCEPT ![p].file = path]
          /\ UNCHANGED <<path, files, view, last, mixed>>
      BY <1>4, <2>2 DEF OpenFile
    <3>2. job'[p].file # 0
      BY <1>0, <2>2, <3>1 DEF Jobs
    <3> QED
      BY <1>0, <2>2, <3>1, <3>2, OtherStep DEF Formatting, Reading
  <2> QED
    BY <2>1, <2>2
<1>5. ASSUME NEW p \in Programs, ReadBootBlock(p) PROVE ImageInv'
  <2>1. /\ pc[p] = "openboot" /\ UNCHANGED <<path, files, job, view, last, mixed>>
        /\ \/ 0 \in DOMAIN Mine(p) /\ Mine(p)[0] = Boot /\ Goto(p, "opensuper")
           \/ Goto(p, "refused")
    BY <1>5 DEF ReadBootBlock
  <2>2. job'[p].file # 0
    BY <1>0, <2>1 DEF Reading
  <2> QED
    BY <1>0, <2>1, <2>2, OtherStep DEF Formatting, Reading
<1>6. ASSUME NEW p \in Programs, ReadSuperBlock(p) PROVE ImageInv'
  <2>1. /\ pc[p] = "opensuper" /\ UNCHANGED <<path, files, job, last, mixed>>
        /\ Goto(p, "opened") \/ Goto(p, "refused")
    BY <1>6 DEF ReadSuperBlock
  <2>2. view' = view \/ view' = [view EXCEPT ![p] = Mine(p)[1]]
    BY <1>6 DEF ReadSuperBlock
  <2>3. view' = [q \in Programs |-> view'[q]]
    BY <1>0, <2>2
  <2> QED
    BY <2>1, <2>3, OtherStep DEF Formatting, Reading
<1>7. ASSUME NEW p \in Programs, Kill(p) PROVE ImageInv'
  BY <1>0, <1>7, OtherStep DEF Kill, Formatting, Reading
<1> QED
  BY <1>1, <1>2, <1>3, <1>4, <1>5, <1>6, <1>7, CreateFileStep, TruncateStep, BootStep,
     FormatStep, RootStep, SuperStep, RemoveStep DEF Next, Create, Open

\* Types, for any number of programs and any sizes asked for: no image has
\* more blocks than a uint32 counts, because the number asked for is cut to
\* 32 bits before the layout is made.
THEOREM ImageTypesHold == Spec => []TypeOK
<1>1. ImageInv => TypeOK
  BY DEF ImageInv, ImageTypes, TypeOK, Places
<1> QED
  BY <1>1, ImageInit, ImageStep, PTL DEF Spec

\* A Create that reports success, and that no other Create fell into, leaves
\* a whole image under the path: every data block but the root directory's
\* is in one place of one free list, and AllocBlock comes to every list.
THEOREM SuccessAlwaysWhole == Spec => []SuccessIsWhole
<1>1. ImageInv => SuccessIsWhole
  BY DEF ImageInv, ImageContents, SuccessIsWhole, Finished, Asked
<1> QED
  BY <1>1, ImageInit, ImageStep, PTL DEF Spec

\* The only step to "opened" is the read of the superblock.
LEMMA OpensBy ==
    ASSUME ImageInv, Next, NEW p \in Programs, pc[p] # "opened", pc'[p] = "opened"
    PROVE  ReadSuperBlock(p)
<1>0. pc \in [Programs -> Places]
  BY DEF ImageInv, ImageTypes
<1>1. ASSUME NEW q \in Programs, NEW there \in Places \ {"opened"}, Goto(q, there)
      PROVE  FALSE
  BY <1>0, <1>1 DEF Goto
<1>2. ASSUME NEW q \in Programs, NEW from \in Places, NEW to \in Places \ {"opened"}, NEW f,
             Change(q, from, to, f)
      PROVE  FALSE
  BY <1>1, <1>2 DEF Change, Places, Formatting
<1>3. PICK q \in Programs : Create(q) \/ Open(q) \/ Kill(q)
  BY DEF Next
<1>4. ~Kill(q)
  BY <1>1 DEF Kill, Places
<1>5. ~OpenFile(q) /\ ~ReadBootBlock(q)
  BY <1>1 DEF OpenFile, ReadBootBlock, Places, Reading
<1>6. ~Create(q)
  <2>1. \A asked \in Sizes : ~RefuseCreate(q, asked) /\ ~CreateFile(q, asked)
    BY <1>1 DEF RefuseCreate, CreateFile, Places, Formatting
  <2>2. ~CreateFails(q) /\ ~Remove(q)
    BY <1>1 DEF CreateFails, Remove, Places
  <2>3. ~Truncate(q) /\ ~WriteBootBlock(q) /\ ~WriteRootDir(q)
    BY <1>2 DEF Truncate, WriteBootBlock, WriteRootDir, Places, Formatting
  <2>4. ~Format(q)
    <3> SUFFICES ASSUME Format(q) PROVE FALSE
      OBVIOUS
    <3>1. \E to \in {"rootinode", "format"} : \E f : Change(q, "format", to, f)
      BY DEF Format
    <3> QED
      BY <1>2, <3>1 DEF Places, Formatting
  <2>5. ~WriteRootInode(q)
    <3> SUFFICES ASSUME WriteRootInode(q) PROVE FALSE
      OBVIOUS
    <3>1. (\E f : Change(q, "rootinode", "rootdir", f)) \/ Goto(q, "remove")
      BY DEF WriteRootInode
    <3> QED
      BY <1>1, <1>2, <3>1 DEF Places, Formatting
  <2>6. ~WriteSuperBlock(q)
    <3> SUFFICES ASSUME WriteSuperBlock(q) PROVE FALSE
      OBVIOUS
    <3>1. \E f : Change(q, "super", "created", f)
      BY DEF WriteSuperBlock
    <3> QED
      BY <1>2, <3>1 DEF Places, Formatting
  <2> QED
    BY <2>1, <2>2, <2>3, <2>4, <2>5, <2>6 DEF Create
<1>7. ReadSuperBlock(q)
  BY <1>3, <1>4, <1>5, <1>6 DEF Open
<1>8. q = p
  BY <1>0, <1>7 DEF ReadSuperBlock, Goto
<1> QED
  BY <1>7, <1>8

\* What Open accepts is a whole image with its own superblock, unless a
\* Create on that file was killed, failed or still runs, or Creates were
\* mixed: checking the boot block suffices everywhere else, because Create
\* writes it into no file that it finishes otherwise.
THEOREM OpenAlwaysAcceptsWhole == Spec => OpenAcceptsWholeImages
<1>1. ImageInv /\ [Next]_vars => [AcceptsWhole]_vars
  <2> SUFFICES ASSUME ImageInv, Next PROVE AcceptsWhole
    OBVIOUS
  <2> SUFFICES ASSUME NEW p \in Programs, pc[p] # "opened", pc'[p] = "opened", mixed = {}
               PROVE  OpensWhole(p) \/ Unfinished(p)
    BY DEF AcceptsWhole
  <2>1. ReadSuperBlock(p)
    BY OpensBy
  <2>2. pc[p] = "opensuper"
    BY <2>1 DEF ReadSuperBlock
  <2>3. view' = [view EXCEPT ![p] = Mine(p)[1]]
    <3>1. pc \in [Programs -> Places]
      BY DEF ImageInv, ImageTypes
    <3>2. ~Goto(p, "refused")
      BY <3>1 DEF Goto
    <3> QED
      BY <2>1, <3>2 DEF ReadSuperBlock
  <2>4. view'[p] = Mine(p)[1]
    <3>1. view = [q \in Programs |-> view[q]]
      BY DEF ImageInv, ImageTypes
    <3> QED
      BY <2>3, <3>1
  <2>5. Sound(job[p].file)
    BY <2>2 DEF ImageInv, ImageContents
  <2> QED
    BY <2>4, <2>5 DEF Sound, Claimed, OpensWhole, Unfinished, Mine
<1> QED
  BY <1>1, ImageInit, ImageStep, PTL DEF Spec, OpenAcceptsWholeImages

=============================================================================
