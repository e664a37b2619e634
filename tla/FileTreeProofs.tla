--------------------------- MODULE FileTreeProofs ---------------------------
(***************************************************************************)
(* The operations of FileSystem implement the abstract tree of FileTree.   *)
(***************************************************************************)
EXTENDS FileSystemProofs

-----------------------------------------------------------------------------
(* The entries of the tree by directory, name and inode.                   *)

NamedMembers ==
    \A x : x \in Named <=> \E d \in Reachable :
              IsDir(d) /\ \E p \in Children(d) : x = <<d, SlotAt(d, p).name, SlotAt(d, p).ino>>

LEMMA MembersNamed == NamedMembers
<1>1. ASSUME NEW x, x \in Named
      PROVE  \E d \in Reachable :
                IsDir(d) /\ \E p \in Children(d) : x = <<d, SlotAt(d, p).name, SlotAt(d, p).ino>>
  BY <1>1 DEF Named
<1>2. ASSUME NEW d \in Reachable, IsDir(d), NEW p \in Children(d)
      PROVE  <<d, SlotAt(d, p).name, SlotAt(d, p).ino>> \in Named
  BY <1>2 DEF Named
<1> QED
  BY <1>1, <1>2 DEF NamedMembers

LEMMA MembersNamedNext == NamedMembers'
  BY MembersNamed, PTL

\* Only directories have entries; each inode but the root's has one; the one
\* that is being removed has nothing below it.
NamedFacts ==
    /\ \A x \in Named :
          /\ x[1] \in Reachable /\ IsDir(x[1]) /\ x[1] \notin BeingFreed
          /\ x[3] \in Reachable /\ x[3] # InodeRoot
          /\ x[3] \in BeingFreed \/ inodes[x[3]].mode # "free"
    /\ \A x, y \in Named : x[3] = y[3] => x = y
    /\ \A i \in Reachable \ {InodeRoot} : \E x \in Named : x[3] = i
    /\ Reachable \subseteq Inodes
    /\ \A i \in BeingFreed : /\ i \in Inodes /\ i # InodeRoot
                             /\ IsDir(i) => Children(i) = {}

LEMMA NamedSound == IInv => NamedFacts
<1> SUFFICES ASSUME IInv PROVE NamedFacts
  OBVIOUS
<1>1. Typed /\ TreeFacts /\ TreeLinked /\ RemoveSound /\ NamedMembers
  BY TreeFactsHold, MembersNamed DEF IInv, TreeSafe
<1>2. IsDir(InodeRoot) /\ EntriesLead /\ EntriesApart
  BY <1>1, TreeLinkedParts
<1>3. Gone \subseteq BeingFreed
  BY DEF Gone, BeingFreed
<1>4. ASSUME NEW i \in BeingFreed
      PROVE  i \in Inodes /\ i # InodeRoot /\ (IsDir(i) => Children(i) = {})
  <2>1. job.op = "remove" /\ job.pc \in {"blocks", "entry"} /\ i = Top.ino
    BY <1>4 DEF BeingFreed, Removing
  <2>2. i \in Inodes /\ i # InodeRoot
    BY <2>1, TargetFacts
  <2>3. IsDir(i) => Children(i) = {}
    <3>1. CASE job.pc = "blocks"
      BY <1>1, <2>1, <3>1 DEF RemoveSound
    <3>2. CASE job.pc = "entry"
      <4>1. inodes[i] = FreeInodeRecord
        BY <1>1, <2>1, <3>2 DEF RemoveSound
      <4> QED
        BY <4>1, FreeRecord DEF FreeRecordTyped, IsDir
    <3> QED
      BY <2>1, <3>1, <3>2
  <2> QED
    BY <2>2, <2>3
<1>5. ASSUME NEW x \in Named
      PROVE  \E d \in Reachable : \E p \in Children(d) :
                /\ IsDir(d) /\ x = <<d, SlotAt(d, p).name, SlotAt(d, p).ino>>
                /\ x[1] = d /\ x[3] = SlotAt(d, p).ino
                /\ SlotAt(d, p).ino \in Reachable /\ SlotAt(d, p).ino # InodeRoot
                /\ SlotAt(d, p).ino \in Gone \/ inodes[SlotAt(d, p).ino].mode # "free"
  <2>1. PICK d \in Reachable :
           IsDir(d) /\ \E p \in Children(d) : x = <<d, SlotAt(d, p).name, SlotAt(d, p).ino>>
    BY <1>1 DEF NamedMembers
  <2>2. PICK p \in Children(d) : x = <<d, SlotAt(d, p).name, SlotAt(d, p).ino>>
    BY <2>1
  <2>3. /\ SlotAt(d, p).ino \in Reachable /\ SlotAt(d, p).ino # InodeRoot
        /\ SlotAt(d, p).ino \in Gone \/ inodes[SlotAt(d, p).ino].mode # "free"
    BY <1>1, <1>2, <2>1 DEF TreeFacts, EntriesLead
  <2>4. x[1] = d /\ x[3] = SlotAt(d, p).ino
    BY <2>2
  <2> QED
    BY <2>1, <2>2, <2>3, <2>4
<1>6. ASSUME NEW x \in Named
      PROVE  /\ x[1] \in Reachable /\ IsDir(x[1]) /\ x[1] \notin BeingFreed
             /\ x[3] \in Reachable /\ x[3] # InodeRoot
             /\ x[3] \in BeingFreed \/ inodes[x[3]].mode # "free"
  <2>1. PICK d \in Reachable : \E p \in Children(d) :
                /\ IsDir(d) /\ x[1] = d /\ x[3] = SlotAt(d, p).ino
                /\ SlotAt(d, p).ino \in Reachable /\ SlotAt(d, p).ino # InodeRoot
                /\ SlotAt(d, p).ino \in Gone \/ inodes[SlotAt(d, p).ino].mode # "free"
    BY <1>5
  <2>2. d \notin BeingFreed
    BY <1>4, <2>1
  <2> QED
    BY <1>3, <2>1, <2>2
<1>7. ASSUME NEW x \in Named, NEW y \in Named, x[3] = y[3] PROVE x = y
  <2>1. PICK d \in Reachable : \E p \in Children(d) :
                /\ IsDir(d) /\ x = <<d, SlotAt(d, p).name, SlotAt(d, p).ino>>
                /\ x[3] = SlotAt(d, p).ino
    BY <1>5
  <2>2. PICK p \in Children(d) : /\ x = <<d, SlotAt(d, p).name, SlotAt(d, p).ino>>
                                 /\ x[3] = SlotAt(d, p).ino
    BY <2>1
  <2>3. PICK e \in Reachable : \E q \in Children(e) :
                /\ IsDir(e) /\ y = <<e, SlotAt(e, q).name, SlotAt(e, q).ino>>
                /\ y[3] = SlotAt(e, q).ino
    BY <1>5
  <2>4. PICK q \in Children(e) : /\ y = <<e, SlotAt(e, q).name, SlotAt(e, q).ino>>
                                 /\ y[3] = SlotAt(e, q).ino
    BY <2>3
  <2>5. d = e /\ p = q
    BY <1>2, <1>7, <2>1, <2>2, <2>3, <2>4 DEF EntriesApart
  <2> QED
    BY <2>2, <2>4, <2>5
<1>8. ASSUME NEW i \in Reachable \ {InodeRoot} PROVE \E x \in Named : x[3] = i
  <2> DEFINE S == {j \in Reachable : j = InodeRoot \/ \E x \in Named : x[3] = j}
  <2>1. S \in SUBSET Inodes /\ InodeRoot \in S
    BY <1>1 DEF TreeFacts
  <2>2. ASSUME NEW l \in Links, l[1] \in S PROVE l[2] \in S
    <3>1. l \in Inodes \X Inodes /\ l[1] \in Reachable
      BY <1>1, <2>2 DEF TreeFacts, LinkSet
    <3>2. IsDir(l[1]) /\ \E p \in Children(l[1]) : l[2] = SlotAt(l[1], p).ino
      BY <1>1, <3>1 DEF TreeFacts
    <3>3. PICK p \in Children(l[1]) : l[2] = SlotAt(l[1], p).ino
      BY <3>2
    <3>4. <<l[1], SlotAt(l[1], p).name, l[2]>> \in Named
      BY <1>1, <3>1, <3>2, <3>3 DEF NamedMembers
    <3>5. <<l[1], SlotAt(l[1], p).name, l[2]>>[3] = l[2]
      OBVIOUS
    <3>6. l[2] \in Reachable
      BY <1>1, <3>1, <3>2, <3>3 DEF TreeFacts
    <3> QED
      BY <3>4, <3>5, <3>6
  <2>3. Reached(Links) \subseteq S
    <3> PICK links : links = Links
      OBVIOUS
    <3> HIDE DEF S
    <3>1. Reached(links) \subseteq S
      BY <2>1, <2>2, ReachedLeast
    <3> QED
      BY <3>1
  <2>4. i \in S
    BY <1>1, <2>3 DEF TreeFacts
  <2> QED
    BY <2>4
<1>9. Reachable \subseteq Inodes
  BY <1>1 DEF TreeFacts
<1> QED
  BY <1>4, <1>6, <1>7, <1>8, <1>9 DEF NamedFacts

LEMMA NamedSoundNext == IInv' => NamedFacts'
  BY NamedSound, PTL

\* The abstract entry that stands for x, and the tree read from Named.
Leaf(x) == [dir |-> x[1], name |-> x[2], ino |-> x[3], kind |-> inodes[x[3]].mode]

TreeRead == \A e : e \in Tree <=> \E x \in Named : x[3] \notin BeingFreed /\ e = Leaf(x)

LEMMA TreeNamed == IInv => TreeRead
<1> SUFFICES ASSUME IInv PROVE TreeRead
  OBVIOUS
<1>1. NamedFacts /\ NamedMembers
  BY NamedSound, MembersNamed
<1>2. Live \subseteq Inodes /\ Live = Reachable \ BeingFreed
  BY <1>1 DEF Live, NamedFacts
<1>3. ASSUME NEW d \in Live, IsDir(d), NEW p \in Children(d)
      PROVE  /\ <<d, SlotAt(d, p).name, SlotAt(d, p).ino>> \in Named
             /\ Entry(d, p) = Leaf(<<d, SlotAt(d, p).name, SlotAt(d, p).ino>>)
             /\ Entry(d, p).ino = SlotAt(d, p).ino
  BY <1>1, <1>2, <1>3 DEF NamedMembers, Entry, Leaf
<1>4. ASSUME NEW e \in Tree
      PROVE  \E x \in Named : x[3] \notin BeingFreed /\ e = Leaf(x)
  <2>1. PICK d \in Live : IsDir(d) /\ e.ino \notin BeingFreed /\ \E p \in Children(d) : e = Entry(d, p)
    BY <1>2 DEF Tree
  <2>2. PICK p \in Children(d) : e = Entry(d, p)
    BY <2>1
  <2> PICK x : x = <<d, SlotAt(d, p).name, SlotAt(d, p).ino>>
    OBVIOUS
  <2>3. x \in Named /\ e = Leaf(x) /\ e.ino = x[3]
    BY <1>3, <2>1, <2>2
  <2> QED
    BY <2>1, <2>3
<1>5. ASSUME NEW x \in Named, x[3] \notin BeingFreed PROVE Leaf(x) \in Tree
  <2>1. PICK d \in Reachable :
           IsDir(d) /\ \E p \in Children(d) : x = <<d, SlotAt(d, p).name, SlotAt(d, p).ino>>
    BY <1>1 DEF NamedMembers
  <2>2. PICK p \in Children(d) : x = <<d, SlotAt(d, p).name, SlotAt(d, p).ino>>
    BY <2>1
  <2>3. x[1] = d /\ x[3] = SlotAt(d, p).ino
    BY <2>2
  <2>4. d \in Live
    BY <1>1, <1>2, <2>3 DEF NamedFacts
  <2>5. Leaf(x) = Entry(d, p) /\ Entry(d, p).ino \notin BeingFreed
    BY <1>3, <1>5, <2>1, <2>2, <2>3, <2>4
  <2> QED
    BY <1>2, <2>1, <2>4, <2>5 DEF Tree
<1> QED
  BY <1>4, <1>5 DEF TreeRead

LEMMA TreeNamedNext == IInv' => TreeRead'
  BY TreeNamed, PTL

-----------------------------------------------------------------------------
(* What a step does to the tree.                                           *)

NamesKept == \A n \in Names : Stored[n] = n

LEMMA NamesRead == ASSUME NamesKept PROVE Range(Stored) = Names
  BY LayoutAssumption DEF NamesKept, Range

\* Blocks in hand or on the free list are read through no inode in use.
LEMMA Untouched ==
    ASSUME IInv, \A i \in Live : inodes'[i] = inodes[i],
           \A c : c \notin Range(InHand) \cup Free(sb) => disk'[c] = disk[c]
    PROVE  \A i \in Live : Kept(i)
<1> SUFFICES ASSUME NEW i \in Live PROVE Kept(i)
  OBVIOUS
<1>1. Typed /\ TreeSafe /\ HandSafe /\ Reachable \subseteq Inodes
  BY TreeFactsHold DEF IInv, TreeFacts
<1>2. i \in Reachable /\ i \in Whole /\ i \in Inodes
  BY <1>1 DEF Live, Whole, Gone, BeingFreed
<1>3. Range(BlocksOf(i)) \cap Free(sb) = {} /\ Range(InHand) \cap Range(BlocksOf(i)) = {}
  BY <1>1, <1>2 DEF TreeSafe, ApartFrom, HandSafe
<1>4. \A c \in Range(BlocksOf(i)) : disk'[c] = disk[c]
  BY <1>3
<1> QED
  BY <1>1, <1>2, <1>4, RecordKept

\* A step that leaves the entries of every directory that has some.
LEMMA SameNamed ==
    ASSUME IInv, IInv', NEW X \in SUBSET (Inodes \ {InodeRoot}),
           \A i \in Reachable \ X : SameChildren(i),
           \A i \in X : (IsDir(i) => Children(i) = {}) /\ (IsDir(i)' => Children(i)' = {})
    PROVE  Reachable' = Reachable /\ Named' = Named
<1>1. Typed /\ Typed' /\ NamedMembers /\ NamedMembers'
  BY MembersNamed, MembersNamedNext DEF IInv
<1>2. Reachable' = Reachable
  BY <1>1, TreeKept
<1>3. ASSUME NEW d \in Reachable
      PROVE  /\ IsDir(d) /\ Children(d) # {} => SameChildren(d)
             /\ IsDir(d)' /\ Children(d)' # {} => SameChildren(d)
  OBVIOUS
<1>4. \A x : x \in Named => x \in Named'
  <2> SUFFICES ASSUME NEW x, x \in Named PROVE x \in Named'
    OBVIOUS
  <2>1. PICK d \in Reachable :
           IsDir(d) /\ \E p \in Children(d) : x = <<d, SlotAt(d, p).name, SlotAt(d, p).ino>>
    BY <1>1 DEF NamedMembers
  <2>2. /\ IsDir(d)' /\ Children(d)' = Children(d)
        /\ \A p \in Children(d) : SlotAt(d, p)' = SlotAt(d, p)
    BY <1>3, <2>1 DEF SameChildren
  <2> QED
    BY <1>1, <1>2, <2>1, <2>2 DEF NamedMembers
<1>5. \A x : x \in Named' => x \in Named
  <2> SUFFICES ASSUME NEW x, x \in Named' PROVE x \in Named
    OBVIOUS
  <2>1. PICK d \in Reachable :
           IsDir(d)' /\ \E p \in Children(d)' : x = <<d, SlotAt(d, p)'.name, SlotAt(d, p)'.ino>>
    BY <1>1, <1>2 DEF NamedMembers
  <2>2. /\ IsDir(d) /\ Children(d)' = Children(d)
        /\ \A p \in Children(d) : SlotAt(d, p)' = SlotAt(d, p)
    BY <1>3, <2>1 DEF SameChildren
  <2> QED
    BY <1>1, <2>1, <2>2 DEF NamedMembers
<1> QED
  BY <1>2, <1>4, <1>5

\* A step that leaves the inodes in use and whatever is being removed.
LEMMA SameTree ==
    ASSUME IInv, IInv', BeingFreed' = BeingFreed,
           \A i \in Live : Kept(i) /\ inodes'[i] = inodes[i]
    PROVE  Named' = Named /\ Tree' = Tree
<1>1. NamedFacts /\ NamedFacts' /\ TreeRead /\ TreeRead'
  BY NamedSound, NamedSoundNext, TreeNamed, TreeNamedNext
<1>2. Named' = Named
  <2> PICK X : X = BeingFreed
    OBVIOUS
  <2>1. X \in SUBSET (Inodes \ {InodeRoot})
    BY <1>1 DEF NamedFacts
  <2>2. \A i \in Reachable \ X : SameChildren(i)
    BY KeptChildren DEF Live
  <2>3. \A i \in X : (IsDir(i) => Children(i) = {}) /\ (IsDir(i)' => Children(i)' = {})
    BY <1>1 DEF NamedFacts
  <2> QED
    BY <2>1, <2>2, <2>3, SameNamed
<1>3. \A x \in Named : x[3] \notin BeingFreed => Leaf(x)' = Leaf(x)
  <2> SUFFICES ASSUME NEW x \in Named, x[3] \notin BeingFreed PROVE Leaf(x)' = Leaf(x)
    OBVIOUS
  <2>1. inodes'[x[3]] = inodes[x[3]]
    BY <1>1 DEF NamedFacts, Live
  <2> QED
    BY <2>1 DEF Leaf
<1>4. \A e : e \in Tree' <=> e \in Tree
  BY <1>1, <1>2, <1>3 DEF TreeRead
<1> QED
  BY <1>2, <1>4

\* A directory of the tree that is not being removed is one of the abstract
\* tree.
LEMMA InDirectories ==
    ASSUME IInv, NEW d \in Live, IsDir(d)
    PROVE  d \in Files!Directories
<1>1. NamedFacts /\ TreeRead
  BY NamedSound, TreeNamed
<1>2. CASE d = InodeRoot
  BY <1>2 DEF Files!Directories
<1>3. CASE d # InodeRoot
  <2>1. PICK x \in Named : x[3] = d
    BY <1>1, <1>3 DEF NamedFacts, Live
  <2>2. Leaf(x) \in Tree
    BY <1>1, <2>1 DEF TreeRead, Live
  <2>3. Leaf(x).kind = "dir" /\ Leaf(x).ino = d
    BY <2>1 DEF Leaf, IsDir
  <2> QED
    BY <2>2, <2>3 DEF Files!Directories
<1> QED
  BY <1>2, <1>3

\* The entry of an inode that is not in the abstract tree yet.
LEMMA NewLink ==
    ASSUME IInv, IInv', NamesKept, NEW x \in Named', NEW d \in Live, d = x[1], IsDir(d),
           x[2] \in Names, x[3] \notin BeingFreed', x[3] # InodeRoot,
           \A y \in Named : y[3] \notin BeingFreed => y[3] # x[3] /\ (y[1] = d => y[2] # x[2]),
           \A e : e \in Tree' <=> e \in Tree \/ e = Leaf(x)'
    PROVE  Files!Next
<1> PICK e : e = Leaf(x)'
  OBVIOUS
<1>1. NamedFacts /\ NamedFacts' /\ TreeRead /\ Typed'
  BY NamedSound, NamedSoundNext, TreeNamed DEF IInv
<1>2. /\ e.dir = d /\ e.name = x[2] /\ e.ino = x[3] /\ e.kind = inodes'[x[3]].mode
      /\ e = [dir |-> d, name |-> x[2], ino |-> x[3], kind |-> inodes'[x[3]].mode]
  BY DEF Leaf
<1>3. d \in Inodes /\ x[3] \in Inodes /\ inodes'[x[3]].mode \in {"reg", "dir"}
  <2>1. x[3] \in Reachable' /\ x[3] \in Inodes /\ inodes'[x[3]].mode # "free"
    BY <1>1 DEF NamedFacts
  <2>2. inodes'[x[3]].mode \in {"free", "reg", "dir"}
    BY <1>1, <2>1 DEF Typed, InodeRecords
  <2> QED
    BY <1>1, <2>1, <2>2 DEF NamedFacts, Live
<1>4. e \in Files!Entries
  BY <1>2, <1>3, NamesRead DEF Files!Entries
<1>5. \A f \in Tree : f.ino # InodeRoot /\ f.ino # e.ino /\ (f.dir = e.dir => f.name # e.name)
  <2> SUFFICES ASSUME NEW f \in Tree
               PROVE  f.ino # e.ino /\ (f.dir = e.dir => f.name # e.name)
    BY <1>1 DEF TreeRead, NamedFacts, Leaf
  <2>1. PICK y \in Named : y[3] \notin BeingFreed /\ f = Leaf(y)
    BY <1>1 DEF TreeRead
  <2>2. f.dir = y[1] /\ f.name = y[2] /\ f.ino = y[3]
    BY <2>1 DEF Leaf
  <2> QED
    BY <1>2, <2>1, <2>2
<1>6. e \notin Tree /\ e \in Tree' /\ Tree' = Tree \cup {e}
  BY <1>5
<1>7. e.dir \in Files!Directories
  BY <1>2, InDirectories
<1>8. e.ino \notin {InodeRoot} \cup {f.ino : f \in Tree}
  BY <1>2, <1>5
<1>9. Files!Link(e)
  BY <1>5, <1>6, <1>7, <1>8 DEF Files!Link
<1> QED
  BY <1>4, <1>6, <1>9 DEF Files!Next

\* A step that writes nothing but, perhaps, the superblock: at most the entry
\* of the inode a removal turns to goes, or that of an inode whose removal a
\* crash cuts short comes back.
LEMMA StillStep ==
    ASSUME IInv, IInv', NamesKept, NamesSound, UNCHANGED <<inodes, disk>>,
           BeingFreed = {} \/ BeingFreed' = {}
    PROVE  Named' = Named /\ [Files!Next]_Tree
<1>1. NamedFacts /\ NamedFacts' /\ TreeRead /\ TreeRead' /\ Typed
  BY NamedSound, NamedSoundNext, TreeNamed, TreeNamedNext DEF IInv
<1>2. Named' = Named
  <2> PICK X : X = {}
    OBVIOUS
  <2>1. \A i \in Reachable : Kept(i)
    BY <1>1, RecordKept DEF NamedFacts
  <2>2. \A i \in Reachable \ X : SameChildren(i)
    BY <2>1, KeptChildren
  <2>3. X \in SUBSET (Inodes \ {InodeRoot})
        /\ \A i \in X : (IsDir(i) => Children(i) = {}) /\ (IsDir(i)' => Children(i)' = {})
    OBVIOUS
  <2> QED
    BY <2>2, <2>3, SameNamed
<1>3. \A x : Leaf(x)' = Leaf(x)
  BY DEF Leaf
<1>4. ASSUME BeingFreed = {}, NEW e \in Tree, e \notin Tree' PROVE Files!Next
  <2>1. PICK x \in Named : e = Leaf(x)
    BY <1>1, <1>4 DEF TreeRead
  <2>2. x[3] \in BeingFreed'
    BY <1>1, <1>2, <1>3, <1>4, <2>1 DEF TreeRead
  <2>3. BeingFreed' = {x[3]}
    BY <2>2 DEF BeingFreed
  <2>4. \A f : f \in Tree' <=> f \in Tree /\ f # e
    <3> SUFFICES ASSUME NEW f PROVE f \in Tree' <=> f \in Tree /\ f # e
      OBVIOUS
    <3>1. f \in Tree' <=> \E y \in Named : y[3] # x[3] /\ f = Leaf(y)
      BY <1>1, <1>2, <1>3, <2>3 DEF TreeRead
    <3>2. f \in Tree <=> \E y \in Named : f = Leaf(y)
      BY <1>1, <1>4 DEF TreeRead
    <3>3. \A y : Leaf(y).ino = y[3]
      BY DEF Leaf
    <3>4. \A y \in Named : y[3] = x[3] => y = x
      BY <1>1 DEF NamedFacts
    <3> QED
      BY <2>1, <3>1, <3>2, <3>3, <3>4
  <2>5. Tree' = Tree \ {e} /\ e \in Tree \ Tree'
    BY <1>4, <2>4
  <2>6. \A f \in Tree : f.dir # e.ino
    <3> SUFFICES ASSUME NEW f \in Tree PROVE f.dir # e.ino
      OBVIOUS
    <3>1. PICK y \in Named : f = Leaf(y)
      BY <1>1 DEF TreeRead
    <3>2. f.dir = y[1] /\ e.ino = x[3]
      BY <2>1, <3>1 DEF Leaf
    <3>3. y \in Named' /\ y[1] \notin BeingFreed'
      BY <1>1, <1>2 DEF NamedFacts
    <3> QED
      BY <2>2, <3>2, <3>3
  <2> QED
    BY <2>5, <2>6 DEF Files!Next, Files!Unlink
<1>5. ASSUME BeingFreed' = {}, NEW e \in Tree', e \notin Tree PROVE Files!Next
  <2>1. PICK x \in Named : e = Leaf(x)
    BY <1>1, <1>2, <1>3, <1>5 DEF TreeRead
  <2>2. x[3] \in BeingFreed
    BY <1>1, <1>5, <2>1 DEF TreeRead
  <2>3. BeingFreed = {x[3]}
    BY <2>2 DEF BeingFreed
  <2>4. \A f : f \in Tree' <=> f \in Tree \/ f = Leaf(x)'
    <3> SUFFICES ASSUME NEW f PROVE f \in Tree' <=> f \in Tree \/ f = Leaf(x)
      BY <1>3
    <3>1. f \in Tree <=> \E y \in Named : y[3] # x[3] /\ f = Leaf(y)
      BY <1>1, <2>3 DEF TreeRead
    <3>2. f \in Tree' <=> \E y \in Named : f = Leaf(y)
      BY <1>1, <1>2, <1>3, <1>5 DEF TreeRead
    <3>3. \A y \in Named : y[3] = x[3] => y = x
      BY <1>1 DEF NamedFacts
    <3> QED
      BY <3>1, <3>2, <3>3
  <2> PICK d : d = x[1]
    OBVIOUS
  <2>5. d \in Live /\ IsDir(d) /\ x[2] \in Names /\ x[3] # InodeRoot /\ x[3] \notin BeingFreed'
    BY <1>1, <1>5 DEF NamedFacts, Live, NamesSound
  <2>6. \A y \in Named : y[3] \notin BeingFreed => y[3] # x[3] /\ (y[1] = d => y[2] # x[2])
    BY <2>2 DEF NamesSound
  <2>7. x \in Named'
    BY <1>2
  <2> QED
    BY <2>4, <2>5, <2>6, <2>7, NewLink
<1>6. CASE BeingFreed = {}
  <2>1. CASE \E e \in Tree : e \notin Tree'
    BY <1>2, <1>4, <1>6, <2>1
  <2>2. CASE \A e \in Tree : e \in Tree'
    <3>1. \A e \in Tree' : e \in Tree
      BY <1>1, <1>2, <1>3, <1>6 DEF TreeRead
    <3>2. Tree' = Tree
      BY <2>2, <3>1
    <3> QED
      BY <1>2, <3>2
  <2> QED
    BY <2>1, <2>2
<1>7. CASE BeingFreed' = {}
  <2>1. CASE \E e \in Tree' : e \notin Tree
    BY <1>2, <1>5, <1>7, <2>1
  <2>2. CASE \A e \in Tree' : e \in Tree
    <3>1. \A e \in Tree : e \in Tree'
      BY <1>1, <1>2, <1>3, <1>7 DEF TreeRead
    <3>2. Tree' = Tree
      BY <2>2, <3>1
    <3> QED
      BY <1>2, <3>2
  <2> QED
    BY <2>1, <2>2
<1> QED
  BY <1>6, <1>7

LEMMA NamesStay ==
    ASSUME NamesSound, Named' = Named,
           job'.op = "create" /\ job'.pc # "flush" =>
              \A x \in Named : x[1] = job'.dir => x[2] # job'.name
    PROVE  NamesSound'
  BY DEF NamesSound

\* A creation goes on without touching the tree.
LEMMA Creates ==
    ASSUME IInv, IInv', NamesSound, job.op = "create", job.pc # "flush",
           job'.op = "create", job'.dir = job.dir, job'.name = job.name,
           \A i \in Reachable : inodes'[i] = inodes[i],
           \A c : c \notin Range(InHand) \cup Free(sb) => disk'[c] = disk[c]
    PROVE  NamesSound' /\ [Files!Next]_Tree
<1>1. BeingFreed = {} /\ BeingFreed' = {} /\ Live = Reachable
  BY NothingGone, NothingGoneNext
<1>2. \A i \in Live : Kept(i) /\ inodes'[i] = inodes[i]
  BY <1>1, Untouched
<1>3. Named' = Named /\ Tree' = Tree
  BY <1>1, <1>2, SameTree
<1>4. \A x \in Named : x[1] = job'.dir => x[2] # job'.name
  BY DEF NamesSound
<1> QED
  BY <1>3, <1>4, NamesStay

\* So does the allocation of a block for it.
LEMMA Allocates ==
    ASSUME IInv, IInv', NamesSound, job.op = "create", job.pc # "flush",
           job'.op = "create", job'.dir = job.dir, job'.name = job.name,
           NEW b \in DataBlocks, AllocBlock(b), UNCHANGED <<inodes, sbDisk>>
    PROVE  NamesSound' /\ [Files!Next]_Tree
<1>1. b \in Free(sb)
  BY AllocEffect DEF IInv
<1>2. \A c : c # b => disk'[c] = disk[c]
  BY DEF AllocBlock, IInv, Typed
<1> QED
  BY <1>1, <1>2, Creates

\* And the write of a block in hand.
LEMMA WritesHand ==
    ASSUME IInv, IInv', NamesSound, job.op = "create", job.pc # "flush",
           job'.op = "create", job'.dir = job.dir, job'.name = job.name,
           NEW b \in Range(InHand), NEW content, disk' = [disk EXCEPT ![b] = content],
           inodes' = inodes
    PROVE  NamesSound' /\ [Files!Next]_Tree
<1>1. \A c : c # b => disk'[c] = disk[c]
  BY DEF IInv, Typed
<1> QED
  BY <1>1, Creates

CreationActions ==
    \/ \E b \in DataBlocks : AllocDataBlock(b) \/ AllocIndirectBlock(b) \/ ExpandDirectory(b)
    \/ WriteDataBlock \/ WriteIndirectBlock \/ WriteInode \/ WriteDirBlock

LEMMA CreationTree ==
    ASSUME IInv, IInv', NamesSound, CreationActions
    PROVE  NamesSound' /\ [Files!Next]_Tree
<1>1. /\ job.op = "create" /\ job.pc # "flush" /\ job \in Creations
      /\ HandFacts /\ HandFilled /\ HandCounts /\ Reachable \subseteq Inodes
  <2>1. job.op = "create" /\ job.pc # "flush"
    BY DEF CreationActions, AllocDataBlock, AllocIndirectBlock, ExpandDirectory, WriteDataBlock,
           WriteIndirectBlock, WriteInode, WriteDirBlock, Creating
  <2> QED
    BY <2>1, JobTyped, HandTyped, CreateParts, TreeFactsHold DEF IInv, TreeFacts
<1>2. ASSUME NEW b \in DataBlocks, AllocDataBlock(b) PROVE NamesSound' /\ [Files!Next]_Tree
  <2>1. job'.op = "create" /\ job'.dir = job.dir /\ job'.name = job.name
    BY <1>1, <1>2 DEF AllocDataBlock, Creations
  <2> QED
    BY <1>1, <1>2, <2>1, Allocates DEF AllocDataBlock
<1>3. ASSUME NEW b \in DataBlocks, AllocIndirectBlock(b) PROVE NamesSound' /\ [Files!Next]_Tree
  <2>1. job'.op = "create" /\ job'.dir = job.dir /\ job'.name = job.name
    BY <1>1, <1>3 DEF AllocIndirectBlock, Creations
  <2> QED
    BY <1>1, <1>3, <2>1, Allocates DEF AllocIndirectBlock
<1>4. ASSUME NEW b \in DataBlocks, ExpandDirectory(b) PROVE NamesSound' /\ [Files!Next]_Tree
  <2>1. job'.op = "create" /\ job'.dir = job.dir /\ job'.name = job.name
    BY <1>1, <1>4 DEF ExpandDirectory, Creations
  <2> QED
    BY <1>1, <1>4, <2>1, Allocates DEF ExpandDirectory
<1>5. CASE WriteDataBlock
  <2>1. job'.op = "create" /\ job'.dir = job.dir /\ job'.name = job.name /\ job.pc = "fill"
    BY <1>1, <1>5 DEF WriteDataBlock, Creating, Creations
  <2>2. job.block \in Range(InHand)
    BY <1>1, <2>1 DEF HandFacts, BlockTakenAt
  <2> QED
    BY <1>1, <1>5, <2>1, <2>2, WritesHand DEF WriteDataBlock
<1>6. CASE WriteIndirectBlock
  <2>1. job'.op = "create" /\ job'.dir = job.dir /\ job'.name = job.name /\ job.pc = "writeInd"
    BY <1>1, <1>6 DEF WriteIndirectBlock, Creating, Creations
  <2>2. job.ind \in Range(InHand)
    BY <1>1, <2>1 DEF HandFacts, HandCounts
  <2> QED
    BY <1>1, <1>6, <2>1, <2>2, WritesHand DEF WriteIndirectBlock
<1>7. CASE WriteDirBlock
  <2>1. job'.op = "create" /\ job'.dir = job.dir /\ job'.name = job.name /\ job.pc = "dirBlock"
    BY <1>1, <1>7 DEF WriteDirBlock, Creating, Creations
  <2>2. job.block \in Range(InHand)
    BY <1>1, <2>1 DEF HandFacts, BlockTakenAt
  <2> QED
    BY <1>1, <1>7, <2>1, <2>2, WritesHand DEF WriteDirBlock
<1>8. CASE WriteInode
  <2>1. job'.op = "create" /\ job'.dir = job.dir /\ job'.name = job.name /\ disk' = disk
    BY <1>1, <1>8 DEF WriteInode, Creations
  <2>2. \A i \in Reachable : i # job.ino /\ inodes'[i] = inodes[i]
    BY <1>1, <1>8 DEF WriteInode, HandFilled, IInv, Typed
  <2> QED
    BY <1>1, <2>1, <2>2, Creates
<1> QED
  BY <1>2, <1>3, <1>4, <1>5, <1>6, <1>7, <1>8 DEF CreationActions

\* Steps that write nothing to the image but, perhaps, the superblock.
LEMMA BeginTree ==
    ASSUME IInv, IInv', NamesKept, NamesSound,
           NEW d \in Reachable, NEW name \in Names, NEW kind \in {"reg", "dir"},
           NEW want \in Nat, NEW i \in Inodes, Begin(d, name, kind, want, i)
    PROVE  NamesSound' /\ [Files!Next]_Tree
<1>1. job.op # "remove" /\ UNCHANGED <<inodes, disk>> /\ IsDir(d) /\ name \notin DirNames(d)
  BY DEF Begin, Idle
<1>2. Named' = Named /\ [Files!Next]_Tree
  BY <1>1, NothingGone, StillStep
<1>3. \A x \in Named : x[1] = d => x[2] # name
  <2> SUFFICES ASSUME NEW x \in Named, x[1] = d PROVE x[2] # name
    OBVIOUS
  <2>1. PICK p \in Children(d) : x = <<d, SlotAt(d, p).name, SlotAt(d, p).ino>>
    BY MembersNamed DEF NamedMembers
  <2>2. p \in ReadDir(d)
    BY DEF Children, ReadDir
  <2>3. SlotAt(d, p).name \in DirNames(d)
    BY <2>2 DEF DirNames
  <2> QED
    BY <1>1, <2>1, <2>3
<1>4. job' = Idle \/ (job'.dir = d /\ job'.name = name)
  BY DEF Begin
<1>5. job'.op = "create" => job'.dir = d /\ job'.name = name
  BY <1>4 DEF Idle
<1> QED
  BY <1>2, <1>3, <1>5, NamesStay

QuietActions ==
    \/ FlushCreated \/ FailCreate \/ LoadWords \/ Reopen \/ Crash
    \/ RemoveChild \/ FlushRemoved
    \/ \E d, name, rest : BeginRemoval(d, name, rest)

LEMMA QuietActionsTree ==
    ASSUME IInv, IInv', NamesKept, NamesSound, QuietActions
    PROVE  NamesSound' /\ [Files!Next]_Tree
<1>1. UNCHANGED <<inodes, disk>> /\ (BeingFreed = {} \/ BeingFreed' = {}) /\ job'.op # "create"
  <2>1. Idle.op = "idle" /\ Astray.op = "astray"
    BY DEF Idle, Astray
  <2>2. \A stack : Removal(stack).op = "remove"
    BY DEF Removal
  <2>3. CASE FlushCreated \/ FailCreate \/ LoadWords \/ Reopen \/ Crash
    BY <2>1, <2>3 DEF FlushCreated, FailCreate, LoadWords, Reopen, Crash, BeingFreed, Removing
  <2>4. CASE RemoveChild
    BY <2>2, <2>4 DEF RemoveChild, BeingFreed, Removing
  <2>5. CASE FlushRemoved
    BY <2>1, <2>2, <2>5 DEF FlushRemoved, BeingFreed, Removing
  <2>6. CASE \E d, name, rest : BeginRemoval(d, name, rest)
    BY <2>1, <2>2, <2>6 DEF BeginRemoval, BeingFreed, Removing
  <2> QED
    BY <2>3, <2>4, <2>5, <2>6 DEF QuietActions
<1>2. Named' = Named /\ [Files!Next]_Tree
  BY <1>1, StillStep
<1> QED
  BY <1>1, <1>2, NamesStay

\* Blocks given back and the inode zeroed are those of the inode being
\* removed, which is in the tree no more.
LEMMA FreeTree ==
    ASSUME IInv, IInv', NamesSound, FreeBlock \/ FreeInode
    PROVE  NamesSound' /\ [Files!Next]_Tree
<1> PICK t : t = Top.ino
  OBVIOUS
<1>1. /\ job.op = "remove" /\ job.pc = "blocks" /\ job \in Removals
      /\ job'.op = "remove" /\ job'.stack = job.stack /\ job'.pc \in {"blocks", "entry"}
  <2>1. job.op = "remove" /\ job.pc = "blocks"
    BY DEF FreeBlock, FreeInode, Removing
  <2>2. job \in Removals
    BY <2>1, JobTyped DEF IInv
  <2> QED
    BY <2>1, <2>2 DEF FreeBlock, FreeInode, Removals
<1>2. BeingFreed = {t} /\ BeingFreed' = {t}
  BY <1>1 DEF BeingFreed, Removing, Top
<1>3. \A i \in Live : inodes'[i] = inodes[i]
  <2>1. \A i \in Live : i # t /\ i \in Inodes
    BY <1>2, TreeFactsHold DEF Live, IInv, TreeFacts
  <2> QED
    BY <2>1 DEF FreeBlock, FreeInode, IInv, Typed
<1>4. \A c : c \notin Range(InHand) \cup Free(sb) => disk'[c] = disk[c]
  <2>1. CASE FreeBlock
    <3> PICK b : b = Head(job.todo)
      OBVIOUS
    <3>1. \A c : c # b => disk'[c] = disk[c]
      BY <2>1 DEF FreeBlock, IInv, Typed
    <3>2. job.todo \in Seq(DataBlocks) /\ job.todo # <<>>
      BY <1>1, <2>1 DEF FreeBlock, Removals
    <3>3. b \in Range(job.todo)
      BY <3>2 DEF Range
    <3>4. InHand = job.todo
      BY <1>1, HandTyped DEF IInv, HandFacts
    <3> QED
      BY <3>1, <3>3, <3>4
  <2>2. CASE FreeInode
    BY <2>2 DEF FreeInode
  <2> QED
    BY <2>1, <2>2
<1>5. \A i \in Live : Kept(i)
  BY <1>3, <1>4, Untouched
<1>6. Named' = Named /\ Tree' = Tree
  BY <1>2, <1>3, <1>5, SameTree
<1> QED
  BY <1>1, <1>6, NamesStay

\* The entry of a new file or directory: the tree grows by it.
LEMMA AddedTree ==
    ASSUME IInv, IInv', NamesKept, NamesSound, EntryAdded,
           job.op = "create", job.pc \in {"entry", "dirInode"}, job'.pc = "flush",
           job'.op = "create"
    PROVE  NamesSound' /\ [Files!Next]_Tree
<1>1. /\ NamedFacts /\ NamedFacts' /\ TreeRead /\ TreeRead' /\ Typed /\ Typed' /\ CreateSound
      /\ NamedMembers /\ NamedMembers' /\ HandFilled /\ job \in Creations
  BY NamedSound, NamedSoundNext, TreeNamed, TreeNamedNext, MembersNamed, MembersNamedNext,
     CreateParts, JobTyped DEF IInv
<1>2. BeingFreed = {} /\ BeingFreed' = {} /\ Live = Reachable
  BY NothingGone, NothingGoneNext
<1>3. NewSlot.name = job.name /\ NewSlot.ino = job.ino /\ job.name \in Names
      /\ job.name \notin {".", ".."}
  BY <1>1, LayoutAssumption DEF NewSlot, Slot, NamesKept, Creations
<1>4. PICK d, t, new :
        /\ d = job.dir /\ t = job.ino
        /\ \A i \in (Reachable \cup {t}) \ {d} : Kept(i)
        /\ \A i \in Inodes \ {d} : inodes'[i] = inodes[i]
        /\ IsDir(d)'
        /\ \A p \in Children(d) : SlotAt(d, p)' = SlotAt(d, p)
        /\ Children(d)' = Children(d) \cup {new} /\ new \notin Children(d)
        /\ SlotAt(d, new)' = NewSlot
  BY <1>3 DEF EntryAdded
<1> PICK n, s : n = job.name /\ s = NewSlot
  OBVIOUS
<1>5. /\ d \in Reachable /\ IsDir(d) /\ t \in Inodes /\ t \notin Reachable
      /\ IsDir(t) => Children(t) = {}
      /\ Reachable \subseteq Inodes
  BY <1>1, <1>4, HandIsFile DEF HandFilled, Creations, NamedFacts
<1>6. Kept(t) /\ (IsDir(t)' => Children(t)' = {})
  BY <1>4, <1>5 DEF Kept
<1>7. \A i \in Reachable \ {d} : SameChildren(i)
  BY <1>4, KeptChildren
<1>8. Reachable' = Reachable \cup {t}
  <2>1. SlotAt(d, new)'.ino = t
    BY <1>3, <1>4
  <2> QED
    BY <1>1, <1>4, <1>5, <1>6, <1>7, <2>1, LeafAdded
<1> PICK x : x = <<d, n, t>>
  OBVIOUS
<1>9. x[1] = d /\ x[2] = n /\ x[3] = t
  OBVIOUS
<1>10. ASSUME NEW y, y \in Named PROVE y \in Named'
  <2>1. PICK e \in Reachable :
           IsDir(e) /\ \E p \in Children(e) : y = <<e, SlotAt(e, p).name, SlotAt(e, p).ino>>
    BY <1>1, <1>10 DEF NamedMembers
  <2>2. PICK p \in Children(e) : y = <<e, SlotAt(e, p).name, SlotAt(e, p).ino>>
    BY <2>1
  <2>3. IsDir(e)' /\ p \in Children(e)' /\ SlotAt(e, p)' = SlotAt(e, p)
    <3>1. CASE e = d
      BY <1>4, <2>2, <3>1
    <3>2. CASE e # d
      BY <1>7, <2>1, <2>2, <3>2 DEF SameChildren
    <3> QED
      BY <3>1, <3>2
  <2>4. e \in Reachable'
    BY <1>8
  <2> QED
    BY <1>1, <2>2, <2>3, <2>4 DEF NamedMembers
<1>11. x \in Named'
  <2>1. d \in Reachable' /\ new \in Children(d)' /\ SlotAt(d, new)'.name = n /\ SlotAt(d, new)'.ino = t
    BY <1>3, <1>4, <1>5, <1>8
  <2> QED
    BY <1>1, <1>4, <2>1 DEF NamedMembers
<1>12. ASSUME NEW y, y \in Named', y # x PROVE y \in Named
  <2>1. PICK e \in Reachable' :
           IsDir(e)' /\ \E p \in Children(e)' : y = <<e, SlotAt(e, p)'.name, SlotAt(e, p)'.ino>>
    BY <1>1, <1>12 DEF NamedMembers
  <2>2. PICK p \in Children(e)' : y = <<e, SlotAt(e, p)'.name, SlotAt(e, p)'.ino>>
    BY <2>1
  <2>3. e # t
    BY <1>6, <2>1, <2>2
  <2>4. e \in Reachable
    BY <1>8, <2>3
  <2>5. IsDir(e) /\ p \in Children(e) /\ SlotAt(e, p)' = SlotAt(e, p)
    <3>1. CASE e = d
      <4>1. p # new
        BY <1>3, <1>4, <1>12, <2>2, <3>1
      <4> QED
        BY <1>4, <1>5, <2>2, <3>1, <4>1
    <3>2. CASE e # d
      BY <1>7, <2>1, <2>2, <2>4, <3>2 DEF SameChildren
    <3> QED
      BY <3>1, <3>2
  <2> QED
    BY <1>1, <2>2, <2>4, <2>5 DEF NamedMembers
<1>13. \A y : y \in Named' <=> y \in Named \/ y = x
  BY <1>10, <1>11, <1>12
<1>14. \A y \in Named : Leaf(y)' = Leaf(y)
  <2> SUFFICES ASSUME NEW y \in Named PROVE Leaf(y)' = Leaf(y)
    OBVIOUS
  <2> PICK i : i = y[3]
    OBVIOUS
  <2>1. i \in Inodes
    BY <1>1 DEF NamedFacts
  <2>2. inodes'[i].mode = inodes[i].mode
    <3>1. CASE i = d
      BY <1>4, <1>5, <3>1 DEF IsDir
    <3>2. CASE i # d
      BY <1>4, <2>1, <3>2
    <3> QED
      BY <3>1, <3>2
  <2> QED
    BY <2>2 DEF Leaf
<1>15. \A e : e \in Tree' <=> e \in Tree \/ e = Leaf(x)'
  BY <1>1, <1>2, <1>13, <1>14 DEF TreeRead
<1>16. \A y \in Named : y[3] # x[3] /\ (y[1] = d => y[2] # x[2])
  BY <1>1, <1>3, <1>4, <1>5, <1>9 DEF NamedFacts, NamesSound
<1>17. x[3] # InodeRoot
  BY <1>1, <1>11 DEF NamedFacts
<1>18. Files!Next
  BY <1>2, <1>3, <1>5, <1>9, <1>11, <1>15, <1>16, <1>17, NewLink
<1>19. NamesSound'
  <2>1. \A y \in Named' : y[2] \in Names
    BY <1>3, <1>9, <1>13 DEF NamesSound
  <2>2. \A y, z \in Named' : y[1] = z[1] /\ y[2] = z[2] => y = z
    BY <1>9, <1>13, <1>16 DEF NamesSound
  <2> QED
    BY <2>1, <2>2 DEF NamesSound
<1> QED
  BY <1>18, <1>19

\* The entry of what was removed goes; the tree had lost it already.
LEMMA RemovedTree ==
    ASSUME IInv, IInv', NamesSound, EntryRemoved, job.op = "remove", job.pc = "entry",
           inodes' = inodes, job'.op # "create"
    PROVE  NamesSound' /\ [Files!Next]_Tree
<1>1. /\ NamedFacts /\ NamedFacts' /\ TreeRead /\ TreeRead' /\ Typed /\ Typed'
      /\ NamedMembers /\ NamedMembers'
  BY NamedSound, NamedSoundNext, TreeNamed, TreeNamedNext, MembersNamed, MembersNamedNext DEF IInv
<1>2. PICK d, i, p :
        /\ d = Top.dir /\ i = Top.ino
        /\ d \in Reachable /\ IsDir(d) /\ IsDir(d)'
        /\ p \in Children(d) /\ SlotAt(d, p).ino = i
        /\ \A j \in Reachable \ {d} : SameChildren(j)
        /\ Children(d)' = Children(d) \ {p}
        /\ \A q \in Children(d)' : SlotAt(d, q)' = SlotAt(d, q)
        /\ Reachable' = Reachable \ {i}
        /\ BeingFreed' = {}
  BY DEF EntryRemoved
<1>3. BeingFreed = {i}
  BY <1>2 DEF BeingFreed, Removing
<1> PICK x : x = <<d, SlotAt(d, p).name, i>>
  OBVIOUS
<1>4. x \in Named /\ x[3] = i /\ x[1] = d
  BY <1>1, <1>2 DEF NamedMembers
<1>5. ASSUME NEW y, y \in Named' PROVE y \in Named /\ y[3] # i
  <2>1. PICK e \in Reachable' :
           IsDir(e)' /\ \E q \in Children(e)' : y = <<e, SlotAt(e, q)'.name, SlotAt(e, q)'.ino>>
    BY <1>1, <1>5 DEF NamedMembers
  <2>2. PICK q \in Children(e)' : y = <<e, SlotAt(e, q)'.name, SlotAt(e, q)'.ino>>
    BY <2>1
  <2>3. e \in Reachable /\ IsDir(e) /\ q \in Children(e) /\ SlotAt(e, q)' = SlotAt(e, q)
    <3>1. CASE e = d
      BY <1>2, <2>2, <3>1
    <3>2. CASE e # d
      BY <1>2, <2>1, <2>2, <3>2 DEF SameChildren
    <3> QED
      BY <3>1, <3>2
  <2>4. y \in Named
    BY <1>1, <2>2, <2>3 DEF NamedMembers
  <2>5. y[3] # i
    BY <1>1, <1>2, <1>5 DEF NamedFacts
  <2> QED
    BY <2>4, <2>5
<1>6. ASSUME NEW y, y \in Named, y[3] # i PROVE y \in Named'
  <2>1. PICK e \in Reachable :
           IsDir(e) /\ \E q \in Children(e) : y = <<e, SlotAt(e, q).name, SlotAt(e, q).ino>>
    BY <1>1, <1>6 DEF NamedMembers
  <2>2. PICK q \in Children(e) : y = <<e, SlotAt(e, q).name, SlotAt(e, q).ino>>
    BY <2>1
  <2>3. y[3] = SlotAt(e, q).ino /\ y[1] = e
    BY <2>2
  <2>4. e # i
    BY <1>1, <1>3, <1>6, <2>3 DEF NamedFacts
  <2>5. IsDir(e)' /\ q \in Children(e)' /\ SlotAt(e, q)' = SlotAt(e, q)
    <3>1. CASE e = d
      <4>1. q # p
        BY <1>2, <1>6, <2>3, <3>1
      <4> QED
        BY <1>2, <2>2, <3>1, <4>1
    <3>2. CASE e # d
      BY <1>2, <2>1, <2>2, <3>2 DEF SameChildren
    <3> QED
      BY <3>1, <3>2
  <2>6. e \in Reachable'
    BY <1>2, <2>4
  <2> QED
    BY <1>1, <2>2, <2>5, <2>6 DEF NamedMembers
<1>7. \A y : Leaf(y)' = Leaf(y)
  BY DEF Leaf
<1>8. \A e : e \in Tree' <=> e \in Tree
  <2> SUFFICES ASSUME NEW e PROVE e \in Tree' <=> e \in Tree
    OBVIOUS
  <2>1. e \in Tree' <=> \E y \in Named' : e = Leaf(y)
    BY <1>1, <1>2, <1>7 DEF TreeRead
  <2>2. e \in Tree <=> \E y \in Named : y[3] # i /\ e = Leaf(y)
    BY <1>1, <1>3 DEF TreeRead
  <2> QED
    BY <1>5, <1>6, <2>1, <2>2
<1>9. NamesSound'
  BY <1>5 DEF NamesSound
<1> QED
  BY <1>8, <1>9

LEMMA StutterTree ==
    ASSUME NamesSound, UNCHANGED vars
    PROVE  NamesSound' /\ [Files!Next]_Tree
<1>1. UNCHANGED <<inodes, disk, sb, sbDisk, job, crashes>>
  BY DEF vars
<1>2. /\ Reachable' = Reachable /\ Live' = Live /\ BeingFreed' = BeingFreed
      /\ \A d : Children(d)' = Children(d) /\ IsDir(d)' = IsDir(d)
      /\ \A d, p : SlotAt(d, p)' = SlotAt(d, p) /\ Entry(d, p)' = Entry(d, p)
  BY <1>1
     DEF Reachable, Links, Children, Positions, SlotAt, SlotBlock, IsDir, Live, BeingFreed,
         Removing, Top, Entry
<1>3. Named' = Named
  BY <1>2 DEF Named
<1>4. Tree' = Tree
  BY <1>2 DEF Tree
<1>5. job.op = "create" /\ job.pc # "flush" => \A x \in Named : x[1] = job.dir => x[2] # job.name
  BY DEF NamesSound
<1>6. job' = job
  BY <1>1
<1>7. NamesSound'
  BY <1>3, <1>5, <1>6, NamesStay
<1> QED
  BY <1>4, <1>7

\* Every step is one of the tree, or leaves it.
LEMMA TreeNext ==
    ASSUME NamesKept, IInv, IInv', NamesSound, [Next]_vars
    PROVE  NamesSound' /\ [Files!Next]_Tree
<1>1. CASE Creation
  <2>1. ASSUME NEW d \in Reachable, NEW name \in Names, NEW i \in Inodes, MkDir(d, name, i)
        PROVE  NamesSound' /\ [Files!Next]_Tree
    BY <2>1, BeginTree DEF MkDir
  <2>2. ASSUME NEW d \in Reachable, NEW name \in Names, NEW i \in Inodes, NEW n \in FileSizes,
               CreateFile(d, name, n, i)
        PROVE  NamesSound' /\ [Files!Next]_Tree
    <3>1. n \in Nat
      BY LayoutAssumption
    <3> QED
      BY <2>2, <3>1, BeginTree DEF CreateFile
  <2>3. CASE CreationActions
    BY <2>3, CreationTree
  <2>4. CASE AddEntry \/ WriteDirInode
    <3>1. EntryAdded
      BY <2>4, AddEntryStep, WriteDirInodeStep
    <3>2. job.op = "create" /\ job.pc \in {"entry", "dirInode"} /\ job \in Creations
      BY <2>4, JobTyped DEF AddEntry, WriteDirInode, Creating, IInv
    <3>3. job'.op = "create" /\ job'.pc = "flush"
      BY <2>4, <3>2 DEF AddEntry, WriteDirInode, Creations
    <3> QED
      BY <3>1, <3>2, <3>3, AddedTree
  <2>5. CASE FlushCreated \/ FailCreate \/ LoadWords
    BY <2>5, QuietActionsTree DEF QuietActions
  <2>6. CASE StaysAstray
    BY <2>6, StutterTree DEF StaysAstray
  <2> QED
    BY <1>1, <2>1, <2>2, <2>3, <2>4, <2>5, <2>6
       DEF Creation, CreationActions, LoadTreeWords, LoadFileWords
<1>2. CASE RemovalStep
  <2>1. CASE \E d, name, rest : BeginRemoval(d, name, rest)
    BY <2>1, QuietActionsTree DEF QuietActions
  <2>2. CASE RemoveChild \/ FlushRemoved
    BY <2>2, QuietActionsTree DEF QuietActions
  <2>3. CASE FreeBlock \/ FreeInode
    BY <2>3, FreeTree
  <2>4. CASE RemoveEntry
    <3>1. EntryRemoved
      BY <2>4, RemoveEntryStep
    <3>2. job.op = "remove" /\ job.pc = "entry" /\ job \in Removals /\ inodes' = inodes
      BY <2>4, JobTyped DEF RemoveEntry, Removing, IInv
    <3>3. job'.op # "create"
      BY <2>4, <3>2 DEF RemoveEntry, Removals, Idle
    <3> QED
      BY <3>1, <3>2, <3>3, RemovedTree
  <2> QED
    BY <1>2, <2>1, <2>2, <2>3, <2>4 DEF RemovalStep, RemoveFile, RemoveDir, RemoveAll
<1>3. CASE Reopen \/ Crash
  BY <1>3, QuietActionsTree DEF QuietActions
<1>4. CASE UNCHANGED vars
  BY <1>4, StutterTree
<1> QED
  BY <1>1, <1>2, <1>3, <1>4 DEF Next

\* The tree of an image that Create has just written is empty.
LEMMA TreeInit ==
    ASSUME Init
    PROVE  NamesSound /\ Files!Init
<1>1. Reachable = {InodeRoot} /\ Children(InodeRoot) = {} /\ IInv
  BY InitTree, InitSound
<1>2. \A x : x \notin Named
  BY <1>1, MembersNamed DEF NamedMembers
<1>3. \A e : e \notin Tree
  BY <1>1, <1>2, TreeNamed DEF TreeRead
<1>4. job.op # "create"
  BY DEF Init, Idle
<1> QED
  BY <1>2, <1>3, <1>4 DEF NamesSound, Files!Init

-----------------------------------------------------------------------------
(* The properties.  Names that a directory entry cannot hold as they are,  *)
(* such as one that ends in a blank, are left out: two of them may be read *)
(* back the same, as the run of NamesUnique shows.                         *)
(* The behaviours end where AllocBlock loads a block that only reads like  *)
(* a chain block (LoadWords).                                              *)

\* No two entries of a directory have the same name, at any step of any
\* operation.
THEOREM NamesStaySound ==
    ASSUME DotNames = {}, NamesKept
    PROVE  Spec => []NamesSound
<1>1. Init => IInv /\ NamesSound
  BY InitSound, TreeInit
<1>2. IInv /\ NamesSound /\ [Next]_vars => IInv' /\ NamesSound'
  BY NextStep, TreeNext
<1> QED
  BY <1>1, <1>2, PTL DEF Spec

\* The operations implement the abstract tree: what they do in many writes,
\* with crashes and failures between them, changes the tree by one leaf at a
\* time, and only under a directory of the tree, by a name that is not taken.
THEOREM TreeImplemented ==
    ASSUME DotNames = {}, NamesKept
    PROVE  Spec => ImplementsTree
<1>1. Init => IInv /\ NamesSound /\ Files!Init
  BY InitSound, TreeInit
<1>2. IInv /\ NamesSound /\ [Next]_vars => IInv' /\ NamesSound' /\ [Files!Next]_Tree
  BY NextStep, TreeNext
<1> QED
  BY <1>1, <1>2, PTL DEF Spec, ImplementsTree, Files!Spec

=============================================================================
