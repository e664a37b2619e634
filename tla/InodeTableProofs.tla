-------------------------- MODULE InodeTableProofs --------------------------
(***************************************************************************)
(* Proofs about InodeTable for every list and cache size, every pattern of *)
(* sectors that cannot be read, and any number of failed creations.        *)
(***************************************************************************)
EXTENDS InodeTable, FiniteSetTheorems, TLAPS

\* While Create seeds the cache, it holds inodes below the cursor only and
\* has room for one more.
Seeding ==
    cursor # 0 =>
        /\ held = 0
        /\ Len(freeInode) < MaxFreeInode
        /\ \A i \in DOMAIN freeInode : freeInode[i] < cursor

InodeInv ==
    /\ TypeOK /\ IssuesFreeInodes /\ Seeding /\ CountShortByFailures
    /\ {InodeBALBLK, InodeRoot} \subseteq inUse

-----------------------------------------------------------------------------
LEMMA ListSize ==
    /\ InodesPerBlock * InodeBlocks \in Nat /\ InodesPerBlock * InodeBlocks >= 4
    /\ Inodes \subseteq Nat \ {0}
    /\ {InodeBALBLK, InodeRoot} \subseteq Inodes
<1>1. InodesPerBlock * InodeBlocks \in Nat /\ InodesPerBlock * InodeBlocks >= 4
  BY InodeGeometryAssumption
<1> QED
  BY <1>1 DEF Inodes, InodeBALBLK, InodeRoot

LEMMA InodesFinite ==
    /\ IsFiniteSet(Inodes) /\ Cardinality(Inodes) = InodesPerBlock * InodeBlocks
    /\ \A S \in SUBSET Inodes :
          IsFiniteSet(S) /\ Cardinality(S) \in Nat /\ Cardinality(S) <= Cardinality(Inodes)
<1>1. InodesPerBlock * InodeBlocks \in Int /\ ~(1 > InodesPerBlock * InodeBlocks)
  BY ListSize
<1>2. /\ IsFiniteSet(Inodes) /\ Cardinality(Inodes) = InodesPerBlock * InodeBlocks
  BY <1>1, FS_Interval DEF Inodes
<1> QED
  BY <1>2, FS_Subset, FS_CardinalityType

\* Writing an inode takes it out of the free ones, freeing one puts it back.
LEMMA OneInode ==
    ASSUME NEW S \in SUBSET Inodes, NEW ino \in Inodes
    PROVE  /\ Cardinality(S) \in Nat
           /\ ino \in S => Cardinality(S) >= 1 /\ Cardinality(S \ {ino}) = Cardinality(S) - 1
           /\ ino \notin S => Cardinality(S \cup {ino}) = Cardinality(S) + 1
<1>1. IsFiniteSet(S) /\ Cardinality(S) \in Nat
  BY InodesFinite
<1>2. S \ {ino} \in SUBSET Inodes /\ Cardinality(S \ {ino}) \in Nat
  BY InodesFinite
<1>3. ino \in S => Cardinality(S \ {ino}) = Cardinality(S) - 1
  BY <1>1, FS_RemoveElement
<1>4. ino \notin S => Cardinality(S \cup {ino}) = Cardinality(S) + 1
  BY <1>1, FS_AddElement
<1> QED
  BY <1>1, <1>2, <1>3, <1>4

LEMMA FrontOfCache ==
    ASSUME NEW s \in Seq(Nat), s # <<>>
    PROVE  /\ Front(s) \in Seq(Nat) /\ Len(Front(s)) = Len(s) - 1
           /\ DOMAIN Front(s) = 1 .. (Len(s) - 1) /\ DOMAIN s = 1 .. Len(s)
           /\ \A i \in 1 .. (Len(s) - 1) : Front(s)[i] = s[i]
           /\ Len(s) \in DOMAIN s /\ Last(s) = s[Len(s)] /\ Len(s) \in Nat
<1>1. Len(s) \in Nat /\ Len(s) > 0 /\ DOMAIN s = 1 .. Len(s)
  OBVIOUS
<1> QED
  BY <1>1 DEF Front, Last

LEMMA PushOnCache ==
    ASSUME NEW s \in Seq(Nat), NEW x \in Nat
    PROVE  /\ Append(s, x) \in Seq(Nat) /\ Len(Append(s, x)) = Len(s) + 1
           /\ DOMAIN Append(s, x) = 1 .. (Len(s) + 1) /\ DOMAIN s = 1 .. Len(s)
           /\ \A i \in 1 .. Len(s) : Append(s, x)[i] = s[i]
           /\ Append(s, x)[Len(s) + 1] = x /\ Len(s) \in Nat
  OBVIOUS

-----------------------------------------------------------------------------
LEMMA InodeInvInit == Init => InodeInv
<1> SUFFICES ASSUME Init PROVE InodeInv
  OBVIOUS
<1>1. TypeOK
  BY ListSize, InodeGeometryAssumption DEF Init, TypeOK, Inodes
<1>2. IssuesFreeInodes /\ Seeding
  BY InodeGeometryAssumption DEF Init, IssuesFreeInodes, Seeding
<1>3. Cardinality(FreeInodes) = InodesPerBlock * InodeBlocks - 2
  <2>1. FreeInodes = (Inodes \ {InodeBALBLK}) \ {InodeRoot}
    BY DEF Init, FreeInodes
  <2>2. Cardinality(Inodes \ {InodeBALBLK}) = InodesPerBlock * InodeBlocks - 1
    BY OneInode, ListSize, InodesFinite
  <2>3. Inodes \ {InodeBALBLK} \in SUBSET Inodes /\ InodeRoot \in Inodes \ {InodeBALBLK}
    BY ListSize DEF InodeRoot, InodeBALBLK
  <2> QED
    BY <2>1, <2>2, <2>3, OneInode, ListSize
<1>4. CountShortByFailures
  BY <1>3, ListSize DEF Init, CountShortByFailures, Short
<1> QED
  BY <1>1, <1>2, <1>4 DEF Init, InodeInv

LEMMA InodeInvSeed == InodeInv /\ Seed => InodeInv'
<1> SUFFICES ASSUME InodeInv, Seed PROVE InodeInv'
  OBVIOUS
<1>1. /\ cursor \in Inodes /\ cursor \in Nat /\ cursor # 0 /\ held = 0 /\ freeInode \in Seq(Nat)
      /\ Len(freeInode) < MaxFreeInode /\ Len(freeInode) \in Nat
      /\ \A i \in DOMAIN freeInode : freeInode[i] < cursor /\ freeInode[i] \in Nat
      /\ UNCHANGED <<inUse, totalFreeInode, held, abandoned>>
  BY ListSize DEF InodeInv, TypeOK, Seeding, Seed
<1>2. /\ freeInode' \in Seq(Nat) /\ Len(freeInode') <= MaxFreeInode
      /\ IssuesFreeInodes'
      /\ \A i \in DOMAIN freeInode' : freeInode'[i] < cursor + 1
  <2>1. CASE cursor \in inUse \/ cursor <= InodeBALBLK
    <3>1. freeInode' = freeInode
      BY <2>1 DEF Seed
    <3> QED
      BY <1>1, <3>1, InodeGeometryAssumption DEF InodeInv, IssuesFreeInodes, FreeInodes
  <2>2. CASE ~(cursor \in inUse \/ cursor <= InodeBALBLK)
    <3>1. freeInode' = Append(freeInode, cursor)
      BY <2>2 DEF Seed
    <3>2. cursor \in FreeInodes /\ cursor > InodeRoot
      BY <1>1, <2>2 DEF InodeInv, FreeInodes, InodeRoot, InodeBALBLK
    <3>3. /\ freeInode' \in Seq(Nat) /\ Len(freeInode') = Len(freeInode) + 1
          /\ DOMAIN freeInode' = 1 .. (Len(freeInode) + 1)
          /\ DOMAIN freeInode = 1 .. Len(freeInode)
          /\ \A i \in 1 .. Len(freeInode) : freeInode'[i] = freeInode[i]
          /\ freeInode'[Len(freeInode) + 1] = cursor
      BY <1>1, <3>1, PushOnCache
    <3>4. Len(freeInode') <= MaxFreeInode
      BY <1>1, <3>3, InodeGeometryAssumption
    <3>5. \A i \in DOMAIN freeInode' : freeInode'[i] < cursor + 1
      BY <1>1, <3>3
    <3>6. \A i, j \in DOMAIN freeInode' : freeInode'[i] = freeInode'[j] => i = j
      BY <1>1, <3>3 DEF InodeInv, IssuesFreeInodes
    <3>7. \A i \in DOMAIN freeInode' :
             freeInode'[i] \in FreeInodes /\ freeInode'[i] > InodeRoot /\ freeInode'[i] # held
      BY <1>1, <3>2, <3>3 DEF InodeInv, IssuesFreeInodes
    <3>8. FreeInodes' = FreeInodes
      BY <1>1 DEF FreeInodes
    <3> QED
      BY <1>1, <3>3, <3>4, <3>5, <3>6, <3>7, <3>8 DEF IssuesFreeInodes
  <2> QED
    BY <2>1, <2>2
<1>3. cursor' = 0 \/ (cursor' = cursor + 1 /\ cursor + 1 \in Inodes
                      /\ ~(Len(freeInode') >= MaxFreeInode))
  BY DEF Seed
<1>4. TypeOK'
  BY <1>1, <1>2, <1>3 DEF InodeInv, TypeOK
<1>5. Seeding'
  BY <1>1, <1>2, <1>3, InodeGeometryAssumption DEF Seeding
<1>6. CountShortByFailures'
  BY <1>1 DEF InodeInv, CountShortByFailures, Short, FreeInodes
<1> QED
  BY <1>1, <1>2, <1>4, <1>5, <1>6 DEF InodeInv

LEMMA InodeInvSkip == InodeInv /\ SeedSkipsSector => InodeInv'
<1> SUFFICES ASSUME InodeInv, SeedSkipsSector PROVE InodeInv'
  OBVIOUS
<1>1. /\ cursor \in Inodes /\ cursor \in Nat
      /\ UNCHANGED <<inUse, freeInode, totalFreeInode, held, abandoned>>
  BY ListSize DEF InodeInv, TypeOK, SeedSkipsSector
<1>2. cursor' = 0 \/ (cursor' = cursor + InodesPerBlock /\ cursor + InodesPerBlock \in Inodes)
  BY DEF SeedSkipsSector
<1>3. TypeOK'
  BY <1>1, <1>2 DEF InodeInv, TypeOK
<1>4. Seeding'
  <2>1. cursor # 0 /\ \A i \in DOMAIN freeInode : freeInode[i] \in Nat /\ freeInode[i] < cursor
    BY DEF InodeInv, TypeOK, Seeding, SeedSkipsSector
  <2>2. held = 0 /\ Len(freeInode) < MaxFreeInode
    BY <2>1 DEF InodeInv, Seeding
  <2>3. \A i \in DOMAIN freeInode : cursor' # 0 => freeInode[i] < cursor'
    BY <1>1, <1>2, <2>1, InodeGeometryAssumption
  <2> QED
    BY <1>1, <2>2, <2>3 DEF Seeding
<1> QED
  BY <1>1, <1>3, <1>4 DEF InodeInv, IssuesFreeInodes, CountShortByFailures, Short, FreeInodes

\* Issuing a free number: the counter moves, wrapping or not, and the set of
\* free inodes stays.
LEMMA CountIssue ==
    ASSUME InodeInv, held = 0, held' # 0, abandoned' = abandoned, inUse' = inUse,
           totalFreeInode' = Decrement(totalFreeInode)
    PROVE  CountShortByFailures' /\ totalFreeInode' \in 0 .. MaxWord
<1>1. FreeInodes' = FreeInodes /\ FreeInodes \in SUBSET Inodes
  BY DEF FreeInodes
<1>2. Cardinality(FreeInodes) \in Nat
  BY <1>1, InodesFinite
<1>3. /\ abandoned \in Nat /\ abandoned <= MaxWord
      /\ totalFreeInode \in 0 .. MaxWord /\ MaxWord \in Nat
  BY InodeGeometryAssumption DEF InodeInv, TypeOK
<1>4. \/ totalFreeInode + abandoned = Cardinality(FreeInodes)
      \/ totalFreeInode + abandoned = Cardinality(FreeInodes) + MaxWord + 1
  BY <1>3 DEF InodeInv, CountShortByFailures, Short
<1>5. \/ totalFreeInode' + abandoned + 1 = Cardinality(FreeInodes)
      \/ totalFreeInode' + abandoned + 1 = Cardinality(FreeInodes) + MaxWord + 1
  BY <1>2, <1>3, <1>4 DEF Decrement
<1>6. totalFreeInode' \in 0 .. MaxWord
  BY <1>3 DEF Decrement
<1>7. Short' = abandoned + 1
  BY DEF Short
<1> QED
  BY <1>1, <1>3, <1>5, <1>6, <1>7 DEF CountShortByFailures

LEMMA InodeInvAllocCached == InodeInv /\ AllocCached => InodeInv'
<1> SUFFICES ASSUME InodeInv, AllocCached PROVE InodeInv'
  OBVIOUS
<1>1. /\ freeInode \in Seq(Nat) /\ freeInode # <<>> /\ cursor = 0 /\ held = 0
      /\ held' = Last(freeInode) /\ freeInode' = Front(freeInode)
      /\ totalFreeInode' = Decrement(totalFreeInode)
      /\ UNCHANGED <<inUse, cursor, abandoned>>
  BY DEF InodeInv, TypeOK, AllocCached, Idle
<1>2. /\ freeInode' \in Seq(Nat) /\ Len(freeInode') = Len(freeInode) - 1
      /\ DOMAIN freeInode' = 1 .. (Len(freeInode) - 1)
      /\ DOMAIN freeInode = 1 .. Len(freeInode) /\ Len(freeInode) \in Nat
      /\ \A i \in 1 .. (Len(freeInode) - 1) : freeInode'[i] = freeInode[i]
      /\ Len(freeInode) \in DOMAIN freeInode /\ held' = freeInode[Len(freeInode)]
  BY <1>1, FrontOfCache
<1>3. FreeInodes' = FreeInodes
  BY <1>1 DEF FreeInodes
<1>4. held' \in FreeInodes /\ held' > InodeRoot /\ held' # 0 /\ held' \in Inodes
  BY <1>2 DEF InodeInv, IssuesFreeInodes, InodeRoot, FreeInodes
<1>5. IssuesFreeInodes'
  <2>1. \A i \in DOMAIN freeInode' :
           /\ freeInode'[i] \in FreeInodes /\ freeInode'[i] > InodeRoot
           /\ freeInode'[i] # held'
    BY <1>2 DEF InodeInv, IssuesFreeInodes
  <2>2. \A i, j \in DOMAIN freeInode' : freeInode'[i] = freeInode'[j] => i = j
    BY <1>2 DEF InodeInv, IssuesFreeInodes
  <2> QED
    BY <1>3, <1>4, <2>1, <2>2 DEF IssuesFreeInodes
<1>6. CountShortByFailures' /\ totalFreeInode' \in 0 .. MaxWord
  BY <1>1, <1>4, CountIssue
<1>7. Len(freeInode') <= MaxFreeInode
  BY <1>2, InodeGeometryAssumption DEF InodeInv, TypeOK
<1>8. TypeOK'
  BY <1>1, <1>2, <1>4, <1>6, <1>7 DEF InodeInv, TypeOK
<1> QED
  BY <1>1, <1>5, <1>6, <1>8 DEF InodeInv, Seeding

LEMMA InodeInvAllocScanned == InodeInv /\ AllocScanned => InodeInv'
<1> SUFFICES ASSUME InodeInv, AllocScanned PROVE InodeInv'
  OBVIOUS
<1>1. /\ freeInode = <<>> /\ cursor = 0 /\ held = 0
      /\ totalFreeInode' = Decrement(totalFreeInode)
      /\ UNCHANGED <<inUse, freeInode, cursor, abandoned>>
  BY DEF AllocScanned, Idle
<1>2. held' \in Inodes \ inUse
  BY DEF AllocScanned, Found
<1>3. held' \in FreeInodes /\ held' > InodeRoot /\ held' # 0 /\ held' \in Inodes
  BY <1>2, ListSize DEF FreeInodes, InodeInv, InodeRoot, InodeBALBLK
<1>4. IssuesFreeInodes'
  BY <1>1, <1>3 DEF IssuesFreeInodes, FreeInodes
<1>5. CountShortByFailures' /\ totalFreeInode' \in 0 .. MaxWord
  BY <1>1, <1>3, CountIssue
<1>6. TypeOK'
  BY <1>1, <1>3, <1>5 DEF InodeInv, TypeOK
<1> QED
  BY <1>1, <1>4, <1>5, <1>6 DEF InodeInv, Seeding

LEMMA InodeInvWriteInode == InodeInv /\ WriteInode => InodeInv'
<1> SUFFICES ASSUME InodeInv, WriteInode PROVE InodeInv'
  OBVIOUS
<1>1. /\ held \in Inodes /\ held # 0 /\ held \in FreeInodes /\ held \notin inUse
      /\ held' = 0 /\ inUse' = inUse \cup {held}
      /\ UNCHANGED <<freeInode, totalFreeInode, cursor, abandoned>>
  BY DEF InodeInv, TypeOK, IssuesFreeInodes, WriteInode, FreeInodes
<1>2. FreeInodes' = FreeInodes \ {held}
  BY <1>1 DEF FreeInodes
<1>3. TypeOK' /\ Seeding' /\ {InodeBALBLK, InodeRoot} \subseteq inUse'
  BY <1>1 DEF InodeInv, TypeOK, Seeding
<1>4. IssuesFreeInodes'
  <2>1. \A i \in DOMAIN freeInode : freeInode[i] \in FreeInodes \ {held} /\ freeInode[i] # 0
    BY ListSize DEF InodeInv, IssuesFreeInodes, FreeInodes
  <2>2. \A i, j \in DOMAIN freeInode : freeInode[i] = freeInode[j] => i = j
    BY DEF InodeInv, IssuesFreeInodes
  <2>3. \A i \in DOMAIN freeInode : freeInode[i] > InodeRoot
    BY DEF InodeInv, IssuesFreeInodes
  <2> QED
    BY <1>1, <1>2, <2>1, <2>2, <2>3 DEF IssuesFreeInodes
<1>5. CountShortByFailures'
  <2>1. FreeInodes \in SUBSET Inodes
    BY DEF FreeInodes
  <2>2. /\ Cardinality(FreeInodes) \in Nat /\ Cardinality(FreeInodes) >= 1
        /\ Cardinality(FreeInodes') = Cardinality(FreeInodes) - 1
    BY <1>1, <1>2, <2>1, OneInode
  <2>3. abandoned \in Nat /\ totalFreeInode \in Nat /\ MaxWord \in Nat
    BY InodeGeometryAssumption DEF InodeInv, TypeOK
  <2>4. Short = abandoned + 1 /\ Short' = abandoned
    BY <1>1, <2>3 DEF Short
  <2> QED
    BY <1>1, <2>2, <2>3, <2>4 DEF InodeInv, CountShortByFailures
<1> QED
  BY <1>3, <1>4, <1>5 DEF InodeInv

LEMMA InodeInvFail == InodeInv /\ FailCreation => InodeInv'
<1> SUFFICES ASSUME InodeInv, FailCreation PROVE InodeInv'
  OBVIOUS
<1>1. /\ held # 0 /\ held' = 0 /\ abandoned \in 0 .. MaxAbandoned /\ abandoned < MaxAbandoned
      /\ abandoned' = abandoned + 1
      /\ UNCHANGED <<inUse, freeInode, totalFreeInode, cursor>>
  BY DEF InodeInv, TypeOK, FailCreation
<1>2. FreeInodes' = FreeInodes
  BY <1>1 DEF FreeInodes
<1>3. abandoned' \in 0 .. MaxAbandoned /\ Short' = Short
  BY <1>1, InodeGeometryAssumption DEF Short
<1>4. TypeOK' /\ Seeding'
  BY <1>1, <1>3 DEF InodeInv, TypeOK, Seeding
<1>5. IssuesFreeInodes'
  BY <1>1, <1>2, ListSize DEF InodeInv, IssuesFreeInodes, InodeRoot
<1>6. CountShortByFailures'
  BY <1>1, <1>2, <1>3 DEF InodeInv, CountShortByFailures
<1> QED
  BY <1>1, <1>4, <1>5, <1>6 DEF InodeInv

LEMMA InodeInvFreeInode ==
    ASSUME NEW ino \in inUse PROVE InodeInv /\ FreeInode(ino) => InodeInv'
<1> SUFFICES ASSUME InodeInv, FreeInode(ino) PROVE InodeInv'
  OBVIOUS
<1>1. /\ ino \in Inodes /\ ino \in Nat /\ ino > InodeRoot /\ ino \notin FreeInodes
      /\ cursor = 0 /\ held = 0 /\ freeInode \in Seq(Nat)
      /\ inUse' = inUse \ {ino} /\ totalFreeInode' = Increment(totalFreeInode)
      /\ UNCHANGED <<cursor, held, abandoned>>
  BY ListSize DEF InodeInv, TypeOK, FreeInode, Idle, FreeInodes, InodeRoot, InodeBALBLK
<1>2. FreeInodes' = FreeInodes \cup {ino}
  BY <1>1 DEF FreeInodes
<1>3. IssuesFreeInodes' /\ freeInode' \in Seq(Nat) /\ Len(freeInode') <= MaxFreeInode
  <2>1. CASE Len(freeInode) < MaxFreeInode
    <3>1. /\ freeInode' \in Seq(Nat) /\ Len(freeInode') = Len(freeInode) + 1
          /\ DOMAIN freeInode' = 1 .. (Len(freeInode) + 1)
          /\ DOMAIN freeInode = 1 .. Len(freeInode) /\ Len(freeInode) \in Nat
          /\ \A i \in 1 .. Len(freeInode) : freeInode'[i] = freeInode[i]
          /\ freeInode'[Len(freeInode) + 1] = ino
      BY <1>1, <2>1, PushOnCache DEF FreeInode
    <3>2. \A i \in DOMAIN freeInode : freeInode[i] # ino
      BY <1>1 DEF InodeInv, IssuesFreeInodes
    <3>3. \A i, j \in DOMAIN freeInode' : freeInode'[i] = freeInode'[j] => i = j
      BY <3>1, <3>2 DEF InodeInv, IssuesFreeInodes
    <3>4. \A i \in DOMAIN freeInode' :
             /\ freeInode'[i] \in FreeInodes' /\ freeInode'[i] > InodeRoot
             /\ freeInode'[i] # held'
      BY <1>1, <1>2, <3>1, ListSize DEF InodeInv, IssuesFreeInodes
    <3>5. Len(freeInode') <= MaxFreeInode
      BY <2>1, <3>1, InodeGeometryAssumption
    <3> QED
      BY <1>1, <3>1, <3>3, <3>4, <3>5 DEF IssuesFreeInodes
  <2>2. CASE ~(Len(freeInode) < MaxFreeInode)
    <3>1. freeInode' = freeInode
      BY <2>2 DEF FreeInode
    <3> QED
      BY <1>1, <1>2, <3>1 DEF InodeInv, TypeOK, IssuesFreeInodes
  <2> QED
    BY <2>1, <2>2
<1>4. CountShortByFailures' /\ totalFreeInode' \in 0 .. MaxWord
  <2>1. FreeInodes \in SUBSET Inodes /\ FreeInodes' \in SUBSET Inodes
    BY <1>1, <1>2 DEF FreeInodes
  <2>2. /\ Cardinality(FreeInodes) \in Nat
        /\ Cardinality(FreeInodes') = Cardinality(FreeInodes) + 1
    BY <1>1, <1>2, <2>1, OneInode
  <2>3. Cardinality(FreeInodes') <= MaxWord
    BY <2>1, <2>2, InodesFinite, ListSize, InodeGeometryAssumption
  <2>4. /\ abandoned \in Nat /\ totalFreeInode \in 0 .. MaxWord /\ MaxWord \in Nat
    BY InodeGeometryAssumption DEF InodeInv, TypeOK
  <2>5. Short = abandoned /\ Short' = abandoned
    BY <1>1, <2>4 DEF Short
  <2>6. \/ totalFreeInode + abandoned = Cardinality(FreeInodes)
        \/ totalFreeInode + abandoned = Cardinality(FreeInodes) + MaxWord + 1
    BY <2>5 DEF InodeInv, CountShortByFailures
  <2>7. \/ totalFreeInode' + abandoned = Cardinality(FreeInodes) + 1
        \/ totalFreeInode' + abandoned = Cardinality(FreeInodes) + 1 + MaxWord + 1
    BY <1>1, <2>2, <2>3, <2>4, <2>6 DEF Increment
  <2> QED
    BY <1>1, <2>2, <2>4, <2>5, <2>7 DEF CountShortByFailures, Increment
<1>5. TypeOK' /\ Seeding'
  BY <1>1, <1>3, <1>4 DEF InodeInv, TypeOK, Seeding
<1>6. {InodeBALBLK, InodeRoot} \subseteq inUse'
  BY <1>1 DEF InodeInv, InodeRoot, InodeBALBLK
<1> QED
  BY <1>3, <1>4, <1>5, <1>6 DEF InodeInv

LEMMA InodeInvNext == InodeInv /\ [Next]_vars => InodeInv'
<1> SUFFICES ASSUME InodeInv, [Next]_vars PROVE InodeInv'
  OBVIOUS
<1>1. CASE Seed
  BY <1>1, InodeInvSeed
<1>2. CASE SeedSkipsSector
  BY <1>2, InodeInvSkip
<1>3. CASE AllocCached
  BY <1>3, InodeInvAllocCached
<1>4. CASE AllocScanned
  BY <1>4, InodeInvAllocScanned
<1>5. CASE WriteInode
  BY <1>5, InodeInvWriteInode
<1>6. CASE FailCreation
  BY <1>6, InodeInvFail
<1>7. ASSUME NEW ino \in inUse, FreeInode(ino) PROVE InodeInv'
  BY <1>7, InodeInvFreeInode
<1>8. CASE UNCHANGED vars
  BY <1>8 DEF vars, InodeInv, TypeOK, IssuesFreeInodes, Seeding, CountShortByFailures,
              Short, FreeInodes
<1> QED
  BY <1>1, <1>2, <1>3, <1>4, <1>5, <1>6, <1>7, <1>8 DEF Next

LEMMA InodeInvAlways == Spec => []InodeInv
  BY InodeInvInit, InodeInvNext, PTL DEF Spec

\* For every list and cache size and every pattern of unreadable sectors,
\* NFreeInode never leaves 0 .. MaxFreeInode and the numbers issued are
\* inodes of the list.
THEOREM InodeTableTypes == Spec => []TypeOK
<1>1. InodeInv => TypeOK
  BY DEF InodeInv
<1> QED
  BY <1>1, InodeInvAlways, PTL

\* For every list and cache size, every pattern of unreadable sectors and any
\* failed creations, AllocInode issues free inodes above the root's only, and
\* none of them twice.
THEOREM AllocInodeSound == Spec => []IssuesFreeInodes
<1>1. InodeInv => IssuesFreeInodes
  BY DEF InodeInv
<1> QED
  BY <1>1, InodeInvAlways, PTL

\* The drift of TotalFreeInode is exactly the number of failed creations.
THEOREM InodeCountDrift == Spec => []CountShortByFailures
<1>1. InodeInv => CountShortByFailures
  BY DEF InodeInv
<1> QED
  BY <1>1, InodeInvAlways, PTL

=============================================================================
