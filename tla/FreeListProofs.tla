--------------------------- MODULE FreeListProofs ---------------------------
(***************************************************************************)
(* Proofs about FreeList for every volume size, cache size and fault       *)
(* pattern and whatever the callers write, up to the reload, if any, that  *)
(* takes a caller's words for a list; the last theorem says when there is  *)
(* none.                                                                   *)
(***************************************************************************)
EXTENDS FreeList, FiniteSetTheorems, TLAPS

(* The proofs follow the lists, which callers cannot write to, in place of *)
(* the disk: a step is one of those below until it goes astray.            *)
WriteList(s, list) ==
    [t \in DOMAIN Lists \cup {s} |-> IF t = s THEN list ELSE Lists[t]]

ListFillCache == FillCache /\ Lists' = Lists

ListFillChain ==
    /\ FillChain
    /\ LET filled == Append(chain, block)
           last   == block + 1 = VolumeSize
       IN Lists' = IF Len(filled) = MaxFreeBlock \/ last
                   THEN WriteList(chainSector, filled)
                   ELSE Lists

ListCreateRoot == CreateRootDir /\ Lists' = WriteList(Last(freeBlock), <<>>)

\* One step of AllocBlock, from what it read and wrote: the list it loaded,
\* the block it took, and whether the zero-fill went through.
AllocStep(list, taken, writeOk) ==
    /\ list = ChainLoaded(freeBlock, totalFreeBlock, <<>>) \/
       list = ChainLoaded(freeBlock, totalFreeBlock, Lists[Last(freeBlock)])
    /\ taken = BlockTaken(freeBlock, list)
    /\ freeBlock' = CacheAfterAlloc(freeBlock, list)
    /\ Lists' = IF writeOk THEN WriteList(taken, <<>>) ELSE Lists
    /\ used' = IF writeOk THEN used \cup {taken} ELSE used
    /\ lost' = lost \cup (IF list = <<>> THEN {} ELSE {Last(freeBlock)})
                    \cup (IF writeOk THEN {} ELSE {taken})

\* Only a reload that a failed read prevented keeps misread from 0.
ListAlloc ==
    /\ AllocBlock
    /\ \E list, taken : \E writeOk \in BOOLEAN :
          /\ AllocStep(list, taken, writeOk)
          /\ misread' = 0 =>
                /\ misread = 0
                /\ list = ChainLoaded(freeBlock, totalFreeBlock, Lists[Last(freeBlock)])

ListFree(b) ==
    FreeBlock(b) /\ Lists' = WriteList(b, ContentAfterFree(freeBlock, <<>>))

ListWrite(b, p) == WriteData(b, p) /\ Lists' = Lists

ListStep ==
    \/ ListFillCache
    \/ ListFillChain
    \/ ListCreateRoot
    \/ ListAlloc
    \/ \E b \in used : ListFree(b)
    \/ \E b \in used, p \in Payloads : ListWrite(b, p)
    \/ UNCHANGED vars

\* Typed, with the lists in place of the disk.
ListTyped ==
    /\ freeBlock \in Seq(Nat) /\ Len(freeBlock) <= MaxFreeBlock
    /\ Lists \in [Sectors -> Contents]
    /\ totalFreeBlock \in 0 .. MaxWord
    /\ phase \in {"format", "ready"}
    /\ block \in DataBlockStart .. VolumeSize
    /\ chain \in Seq(Nat) /\ Len(chain) < MaxFreeBlock
    /\ chainSector \in Nat
    /\ used \subseteq DataBlocks
    /\ lost \subseteq DataBlocks
    /\ misread \in {0, 1}
DiskTyped == disk \in [Sectors -> Contents] /\ chained \subseteq Sectors

ListsSound == SoundLists(freeBlock, Lists, Free)

\* While Create runs: everything listed lies below block, and the chain
\* block being filled shares no entry with the cache or a written chain.
Formatting ==
    phase = "format" =>
        /\ used = {} /\ lost = {}
        /\ freeBlock = <<>> => block = DataBlockStart
        /\ Distinct(chain) /\ Within(chain, Free) /\ Disjoint(chain, freeBlock)
        /\ chainSector \in DataBlocks
        /\ \A i \in DOMAIN freeBlock : freeBlock[i] < block
        /\ \A i \in DOMAIN chain : chain[i] < block
        /\ \A c \in Chains(Lists, Free) :
              /\ Disjoint(Lists[c], chain)
              /\ \A i \in DOMAIN Lists[c] : Lists[c][i] < block

\* No list stands in a block that is in use.
UsedBlocksInert == used \cap lost = {} /\ \A u \in used : Lists[u] = <<>>

ListInv == ListTyped /\ ListsSound /\ Formatting /\ UsedBlocksInert

-----------------------------------------------------------------------------
\* What popping and pushing do to a sequence, stated with the few facts about
\* its entries that the proofs below use.
LEMMA FrontEntries ==
    ASSUME NEW S, NEW s \in Seq(S), s # <<>>
    PROVE  /\ Front(s) \in Seq(S)
           /\ Len(Front(s)) = Len(s) - 1
           /\ DOMAIN Front(s) = 1 .. (Len(s) - 1)
           /\ \A i \in 1 .. (Len(s) - 1) : Front(s)[i] = s[i]
           /\ Len(s) \in DOMAIN s /\ DOMAIN s = 1 .. Len(s)
           /\ Last(s) = s[Len(s)] /\ Last(s) \in S
<1>1. Len(s) \in Nat /\ Len(s) > 0 /\ DOMAIN s = 1 .. Len(s)
  OBVIOUS
<1> QED
  BY <1>1 DEF Front, Last

LEMMA AppendEntries ==
    ASSUME NEW S, NEW s \in Seq(S), NEW x \in S
    PROVE  /\ Append(s, x) \in Seq(S)
           /\ Len(Append(s, x)) = Len(s) + 1
           /\ DOMAIN Append(s, x) = 1 .. (Len(s) + 1)
           /\ DOMAIN s = 1 .. Len(s)
           /\ \A i \in 1 .. Len(s) : Append(s, x)[i] = s[i]
           /\ Append(s, x)[Len(s) + 1] = x
  OBVIOUS

\* Taking the top of the cache for a data block keeps the lists sound.
LEMMA PopSound ==
    ASSUME NEW cache \in Seq(Nat), cache # <<>>, NEW S, NEW d, NEW e,
           SoundLists(cache, d, S), NEW b, Last(cache) = b,
           \A s \in S \ {b} : e[s] = d[s]
    PROVE  /\ SoundLists(Front(cache), e, S \ {b})
           /\ b \in S
<1>1. /\ DOMAIN Front(cache) = 1 .. (Len(cache) - 1) /\ Len(cache) \in DOMAIN cache
      /\ DOMAIN cache = 1 .. Len(cache) /\ b = cache[Len(cache)] /\ Len(cache) \in Nat
      /\ \A i \in 1 .. (Len(cache) - 1) : Front(cache)[i] = cache[i]
  BY FrontEntries
<1>2. /\ Distinct(Front(cache)) /\ Within(Front(cache), S \ {b})
      /\ b \in S
  <2>1. Distinct(cache) /\ Within(cache, S)
    BY DEF SoundLists
  <2>2. ASSUME NEW i \in DOMAIN Front(cache)
        PROVE  i \in DOMAIN cache /\ Front(cache)[i] = cache[i] /\ cache[i] # b
    BY <1>1, <2>1 DEF Distinct
  <2> QED
    BY <1>1, <2>1, <2>2 DEF Distinct, Within
<1>3. Chains(e, S \ {b}) \subseteq Chains(d, S)
  BY DEF Chains
<1>4. ASSUME NEW c \in Chains(e, S \ {b})
      PROVE  /\ e[c] = d[c]
             /\ Distinct(e[c]) /\ Within(e[c], S \ {b}) /\ Disjoint(e[c], Front(cache))
  <2>1. e[c] = d[c] /\ c \in Chains(d, S)
    BY <1>3 DEF Chains
  <2>2. Distinct(d[c]) /\ Within(d[c], S) /\ Disjoint(d[c], cache)
    BY <2>1 DEF SoundLists
  <2> QED
    BY <1>1, <2>1, <2>2 DEF Within, Disjoint
<1>5. ASSUME NEW c \in Chains(e, S \ {b}), NEW f \in Chains(e, S \ {b}) \ {c}
      PROVE  Disjoint(e[c], e[f])
  BY <1>3, <1>4 DEF SoundLists
<1> QED
  BY <1>2, <1>4, <1>5 DEF SoundLists

\* b alone is in cache and its sector lists l, t is the last entry of l; d
\* and e differ on S at most in t; U is S without b and t.
Reloads(cache, S, d, e, b, l, t, U) ==
    /\ cache \in Seq(Nat) /\ Len(cache) = 1 /\ Last(cache) = b
    /\ SoundLists(cache, d, S)
    /\ l \in Seq(Nat) /\ l # <<>> /\ d[b] = l /\ Last(l) = t
    /\ \A s \in S : s # t => e[s] = d[s]
    /\ \A s : s \in U <=> s \in S /\ s # b /\ s # t

\* Reloading the cache from the chain block at its top, and taking the top of
\* that, keeps the lists sound.
LEMMA ReloadSound ==
    ASSUME NEW cache, NEW S, NEW d, NEW e, NEW b, NEW l, NEW t, NEW U,
           Reloads(cache, S, d, e, b, l, t, U)
    PROVE  SoundLists(Front(l), e, U)
<1> USE DEF Reloads
<1>0. Last(l) = l[Len(l)] /\ Len(l) \in DOMAIN l
  BY FrontEntries
<1>1. /\ DOMAIN Front(l) = 1 .. (Len(l) - 1) /\ Len(l) \in DOMAIN l
      /\ DOMAIN l = 1 .. Len(l) /\ t = l[Len(l)] /\ Len(l) \in Nat
      /\ \A i \in 1 .. (Len(l) - 1) : Front(l)[i] = l[i]
  BY <1>0, FrontEntries
<1>2. 1 \in DOMAIN cache /\ b = cache[1]
  BY DEF Last
<1>3. b \in S
  BY <1>2 DEF SoundLists, Within
<1>4. b \in Chains(d, S)
  BY <1>3 DEF Chains
<1>5. Distinct(l) /\ Within(l, S) /\ Disjoint(l, cache)
  BY <1>4 DEF SoundLists
<1>6. t \in S \ {b}
  BY <1>1, <1>2, <1>5 DEF Within, Disjoint
<1>7. Distinct(Front(l)) /\ Within(Front(l), U)
  <2>1. ASSUME NEW i \in DOMAIN Front(l)
        PROVE  i \in DOMAIN l /\ Front(l)[i] = l[i] /\ l[i] # t
    BY <1>1, <1>5 DEF Distinct
  <2>2. ASSUME NEW i \in DOMAIN l
        PROVE  l[i] \in S /\ l[i] # b
    BY <1>2, <1>5 DEF Within, Disjoint
  <2> QED
    BY <1>5, <2>1, <2>2 DEF Distinct, Within
<1>8. ASSUME NEW c \in Chains(e, U)
      PROVE  c \in Chains(d, S) \ {b} /\ e[c] = d[c]
  BY DEF Chains
<1>9. ASSUME NEW c \in Chains(e, U)
      PROVE  Distinct(e[c]) /\ Within(e[c], U) /\ Disjoint(e[c], Front(l))
  <2>1. c \in Chains(d, S) \ {b} /\ e[c] = d[c]
    BY <1>8
  <2>2. Distinct(d[c]) /\ Within(d[c], S) /\ Disjoint(d[c], cache) /\ Disjoint(d[c], l)
    BY <2>1, <1>4 DEF SoundLists
  <2>3. ASSUME NEW i \in DOMAIN d[c]
        PROVE  d[c][i] \in S /\ d[c][i] # b /\ d[c][i] # t
    BY <2>2, <1>1, <1>2 DEF Within, Disjoint
  <2>4. Disjoint(d[c], Front(l))
    BY <2>2, <1>1 DEF Disjoint
  <2> QED
    BY <2>1, <2>2, <2>3, <2>4 DEF Within
<1>10. ASSUME NEW c \in Chains(e, U), NEW f \in Chains(e, U) \ {c}
       PROVE  Disjoint(e[c], e[f])
  BY <1>8 DEF SoundLists
<1> QED
  BY <1>7, <1>9, <1>10 DEF SoundLists

\* The entry taken after a reload is another free block.
LEMMA TopOfChain ==
    ASSUME NEW cache \in Seq(Nat), cache # <<>>, NEW S, NEW d,
           SoundLists(cache, d, S),
           d[Last(cache)] \in Seq(Nat), d[Last(cache)] # <<>>
    PROVE  Last(d[Last(cache)]) \in S \ {Last(cache)}
<1>1. Len(cache) \in DOMAIN cache /\ Last(cache) = cache[Len(cache)]
  BY FrontEntries
<1>2. /\ Len(d[Last(cache)]) \in DOMAIN d[Last(cache)]
      /\ Last(d[Last(cache)]) = d[Last(cache)][Len(d[Last(cache)])]
  BY FrontEntries
<1>3. Last(cache) \in Chains(d, S)
  BY <1>1 DEF SoundLists, Within, Chains
<1> QED
  BY <1>1, <1>2, <1>3 DEF SoundLists, Within, Disjoint

\* Pushing a block that was in use keeps the lists sound.
LEMMA PushSound ==
    ASSUME NEW cache \in Seq(Nat), NEW S, NEW d, NEW e, NEW b \in Nat, b \notin S,
           SoundLists(cache, d, S),
           e[b] = <<>>, \A s \in S : e[s] = d[s]
    PROVE  SoundLists(Append(cache, b), e, S \cup {b})
<1> DEFINE n == Append(cache, b)
           T == S \cup {b}
<1>1. /\ Len(cache) \in Nat /\ DOMAIN n = 1 .. (Len(cache) + 1)
      /\ DOMAIN cache = 1 .. Len(cache) /\ n[Len(cache) + 1] = b
      /\ \A i \in 1 .. Len(cache) : n[i] = cache[i]
  BY AppendEntries
<1>2. Distinct(n) /\ Within(n, T)
  BY <1>1 DEF SoundLists, Distinct, Within
<1>3. ASSUME NEW c \in Chains(e, T)
      PROVE  c \in Chains(d, S) /\ e[c] = d[c]
  BY DEF Chains
<1>4. ASSUME NEW c \in Chains(e, T)
      PROVE  Distinct(e[c]) /\ Within(e[c], T) /\ Disjoint(e[c], n)
  <2>1. Distinct(d[c]) /\ Within(d[c], S) /\ Disjoint(d[c], cache) /\ e[c] = d[c]
    BY <1>3 DEF SoundLists
  <2> QED
    BY <2>1, <1>1 DEF Within, Disjoint
<1>5. ASSUME NEW c \in Chains(e, T), NEW f \in Chains(e, T) \ {c}
      PROVE  Disjoint(e[c], e[f])
  BY <1>3 DEF SoundLists
<1> QED
  BY <1>2, <1>4, <1>5 DEF SoundLists

\* Spilling a full cache into the block that starts the new one does too.
LEMMA SpillSound ==
    ASSUME NEW cache \in Seq(Nat), NEW S, NEW d, NEW e, NEW b, b \notin S,
           SoundLists(cache, d, S),
           e[b] = cache, \A s \in S : e[s] = d[s]
    PROVE  SoundLists(<<b>>, e, S \cup {b})
<1> DEFINE T == S \cup {b}
<1>1. Distinct(<<b>>) /\ Within(<<b>>, T)
  BY DEF Distinct, Within
<1>2. ASSUME NEW c \in Chains(e, T)
      PROVE  \/ c = b /\ e[c] = cache
             \/ c \in Chains(d, S) /\ e[c] = d[c]
  BY DEF Chains
<1>3. ASSUME NEW c \in Chains(e, T)
      PROVE  Distinct(e[c]) /\ Within(e[c], T) /\ Disjoint(e[c], <<b>>)
  <2>1. Distinct(e[c]) /\ Within(e[c], S)
    BY <1>2 DEF SoundLists
  <2> QED
    BY <2>1 DEF Within, Disjoint
<1>4. ASSUME NEW c \in Chains(e, T), NEW f \in Chains(e, T) \ {c}
      PROVE  Disjoint(e[c], e[f])
  <2>1. CASE c = b
    <3>1. f \in Chains(d, S) /\ e[f] = d[f] /\ e[c] = cache
      BY <1>2, <2>1
    <3> QED
      BY <3>1 DEF SoundLists, Disjoint
  <2>2. CASE f = b
    <3>1. c \in Chains(d, S) /\ e[c] = d[c] /\ e[f] = cache
      BY <1>2, <2>2
    <3> QED
      BY <3>1 DEF SoundLists, Disjoint
  <2>3. CASE c # b /\ f # b
    BY <1>2, <2>3 DEF SoundLists
  <2> QED
    BY <2>1, <2>2, <2>3
<1> QED
  BY <1>1, <1>3, <1>4 DEF SoundLists

-----------------------------------------------------------------------------
LEMMA DataSectors ==
    /\ DataBlocks \subseteq Sectors /\ DataBlocks \subseteq Nat
    /\ Free \subseteq DataBlocks
    /\ DataBlockStart \in DataBlocks
  BY GeometryAssumption DEF DataBlocks, Sectors, Free

LEMMA EmptyContent == <<>> \in Contents
<1>1. <<>> \in Seq(Nat) /\ Len(<<>>) = 0
  OBVIOUS
<1> QED
  BY <1>1, MaxFreeBlockAssumption DEF Contents

\* A write inside the image changes one sector.
LEMMA WriteInside ==
    ASSUME NEW s \in Sectors, NEW c \in Contents, ListTyped,
           Lists' = WriteList(s, c)
    PROVE  /\ Lists' \in [Sectors -> Contents]
           /\ Lists'[s] = c
           /\ \A t \in Sectors \ {s} : Lists'[t] = Lists[t]
  BY DEF ListTyped, WriteList

LEMMA UpDown ==
    ASSUME NEW n \in 0 .. MaxWord
    PROVE  Decrement(n) \in 0 .. MaxWord /\ Increment(n) \in 0 .. MaxWord
  BY GeometryAssumption DEF Decrement, Increment

LEMMA ListsInit == Init => Lists = [s \in Sectors |-> <<>>]
  BY DEF Init, Lists

LEMMA ListInvInit == Init => ListInv
<1> SUFFICES ASSUME Init PROVE ListInv
  OBVIOUS
<1> USE GeometryAssumption, MaxFreeBlockAssumption DEF Init
<1>1. ListTyped
  BY EmptyContent, ListsInit DEF ListTyped, DataBlocks
<1>2. Chains(Lists, Free) = {}
  BY DataSectors, ListsInit DEF Chains
<1>3. ListsSound
  BY <1>2 DEF ListsSound, SoundLists, Distinct, Within
<1>4. Formatting
  <2>1. Distinct(chain) /\ Within(chain, Free) /\ Disjoint(chain, freeBlock)
    BY DEF Distinct, Within, Disjoint
  <2>2. DOMAIN freeBlock = {} /\ DOMAIN chain = {}
    OBVIOUS
  <2> QED
    BY <1>2, <2>1, <2>2, DataSectors DEF Formatting
<1>5. UsedBlocksInert
  BY DEF UsedBlocksInert
<1> QED
  BY <1>1, <1>3, <1>4, <1>5 DEF ListInv

\* Entering block, which lies above everything listed, in the cache.
LEMMA ListInvFillCache == ListInv /\ ListFillCache => ListInv'
<1> SUFFICES ASSUME ListInv, ListFillCache PROVE ListInv'
  OBVIOUS
<1> USE GeometryAssumption, MaxFreeBlockAssumption DEF ListInv, ListFillCache, FillCache, histVars
<1>1. block \in DataBlocks /\ block \in Nat
  BY DEF ListTyped, DataBlocks
<1>2. /\ freeBlock' \in Seq(Nat) /\ Len(freeBlock') = Len(freeBlock) + 1
      /\ DOMAIN freeBlock' = 1 .. (Len(freeBlock) + 1) /\ Len(freeBlock) \in Nat
      /\ DOMAIN freeBlock = 1 .. Len(freeBlock)
      /\ \A i \in 1 .. Len(freeBlock) : freeBlock'[i] = freeBlock[i]
      /\ freeBlock'[Len(freeBlock) + 1] = block
  BY <1>1, AppendEntries DEF ListTyped
<1>3. ListTyped'
  BY <1>1, <1>2 DEF ListTyped
<1>4. Free = DataBlocks /\ Free' = DataBlocks /\ Chains(Lists, Free)' = Chains(Lists, Free)
  BY DEF Formatting, Free, Chains
<1>5. Distinct(freeBlock') /\ Within(freeBlock', Free)
  BY <1>1, <1>2, <1>4 DEF ListsSound, SoundLists, Formatting, Distinct, Within, ListTyped
<1>6. ASSUME NEW c \in Chains(Lists, Free)
      PROVE  Disjoint(Lists[c], freeBlock')
  BY <1>2 DEF ListsSound, SoundLists, Formatting, Disjoint, ListTyped
<1>7. ListsSound'
  BY <1>4, <1>5, <1>6 DEF ListsSound, SoundLists
<1>8. Formatting'
  <2>1. Disjoint(chain, freeBlock')
    BY <1>2 DEF Formatting, Disjoint, ListTyped
  <2>2. \A i \in DOMAIN freeBlock' : freeBlock'[i] < block + 1
    BY <1>1, <1>2, <1>5 DEF Formatting
  <2>3. \A i \in DOMAIN chain : chain[i] < block + 1
    <3> TAKE i \in DOMAIN chain
    <3>1. chain[i] \in Nat
      BY <1>4, DataSectors DEF Formatting, Within
    <3>2. chain[i] < block
      BY DEF Formatting
    <3> QED
      BY <1>1, <3>1, <3>2
  <2>4. ASSUME NEW c \in Chains(Lists, Free)
        PROVE  /\ Disjoint(Lists[c], chain)
               /\ \A i \in DOMAIN Lists[c] : Lists[c][i] < block + 1
    <3>1. Within(Lists[c], DataBlocks)
      BY <1>4 DEF ListsSound, SoundLists
    <3>2. Disjoint(Lists[c], chain) /\ \A i \in DOMAIN Lists[c] : Lists[c][i] < block
      BY DEF Formatting
    <3>3. ASSUME NEW i \in DOMAIN Lists[c]
          PROVE  Lists[c][i] < block + 1
      <4>1. Lists[c][i] \in Nat /\ Lists[c][i] < block
        BY <3>1, <3>2, DataSectors DEF Within
      <4> QED
        BY <1>1, <4>1
    <3> QED
      BY <3>2, <3>3
  <2>5. freeBlock' # <<>>
    BY <1>2
  <2> QED
    BY <1>4, <2>1, <2>2, <2>3, <2>4, <2>5 DEF Formatting
<1>9. UsedBlocksInert'
  BY DEF UsedBlocksInert
<1> QED
  BY <1>3, <1>7, <1>8, <1>9

\* Entering block in the chain block being filled, which is written when it
\* is full or the volume ends.
LEMMA ListInvFillChain == ListInv /\ ListFillChain => ListInv'
<1> SUFFICES ASSUME ListInv, ListFillChain PROVE ListInv'
  OBVIOUS
<1> DEFINE filled == Append(chain, block)
           last   == block + 1 = VolumeSize
<1> USE GeometryAssumption, MaxFreeBlockAssumption
<1>1. /\ block \in DataBlocks /\ block \in Nat /\ block' = block + 1
      /\ phase = "format" /\ phase' = phase /\ used' = used /\ lost' = lost
      /\ freeBlock' = freeBlock /\ freeBlock # <<>> /\ totalFreeBlock' = totalFreeBlock
      /\ block + 1 \in DataBlockStart .. VolumeSize
  BY DEF ListTyped, DataBlocks, ListInv, ListFillChain, FillChain
<1>2. /\ filled \in Seq(Nat) /\ Len(filled) = Len(chain) + 1
      /\ DOMAIN filled = 1 .. (Len(chain) + 1) /\ Len(chain) \in Nat
      /\ DOMAIN chain = 1 .. Len(chain)
      /\ \A i \in 1 .. Len(chain) : filled[i] = chain[i]
      /\ filled[Len(chain) + 1] = block
      /\ Len(chain) < MaxFreeBlock
  BY <1>1, AppendEntries DEF ListTyped, ListInv
<1>3. Free = DataBlocks /\ Free' = DataBlocks /\ chainSector \in DataBlocks
  BY <1>1 DEF Formatting, Free, ListInv
<1>4. ASSUME NEW c \in Chains(Lists, Free)
      PROVE  /\ Distinct(Lists[c]) /\ Within(Lists[c], Free) /\ Disjoint(Lists[c], freeBlock)
             /\ \A e \in Chains(Lists, Free) \ {c} : Disjoint(Lists[c], Lists[e])
             /\ Disjoint(Lists[c], chain)
             /\ \A i \in DOMAIN Lists[c] : Lists[c][i] < block
  BY <1>1 DEF ListInv, ListsSound, SoundLists, Formatting
<1>5. /\ Distinct(freeBlock) /\ Within(freeBlock, Free)
      /\ Distinct(chain) /\ Within(chain, Free) /\ Disjoint(chain, freeBlock)
      /\ \A i \in DOMAIN freeBlock : freeBlock[i] < block
      /\ \A i \in DOMAIN chain : chain[i] < block
  BY <1>1 DEF ListInv, ListsSound, SoundLists, Formatting
<1>6. /\ Distinct(filled) /\ Within(filled, Free) /\ Disjoint(filled, freeBlock)
      /\ \A i \in DOMAIN filled : filled[i] < block + 1
  <2>1. ASSUME NEW i \in DOMAIN filled
        PROVE  \/ i = Len(chain) + 1 /\ filled[i] = block
               \/ i \in DOMAIN chain /\ filled[i] = chain[i] /\ chain[i] < block
    BY <1>2, <1>5
  <2>2. \A i \in DOMAIN chain : chain[i] \in Nat
    BY <1>3, <1>5, DataSectors DEF Within
  <2>3. Distinct(filled)
    BY <1>1, <1>2, <1>5, <2>1, <2>2 DEF Distinct
  <2>4. Within(filled, Free)
    BY <1>1, <1>3, <1>5, <2>1 DEF Within
  <2>5. Disjoint(filled, freeBlock)
    BY <1>1, <1>5, <2>1 DEF Disjoint
  <2>6. \A i \in DOMAIN filled : filled[i] < block + 1
    BY <1>1, <2>1, <2>2
  <2> QED
    BY <2>3, <2>4, <2>5, <2>6
<1>7. ASSUME NEW c \in Chains(Lists, Free)
      PROVE  /\ Disjoint(Lists[c], filled) /\ Disjoint(filled, Lists[c])
             /\ \A i \in DOMAIN Lists[c] : Lists[c][i] < block + 1
  <2>1. ASSUME NEW i \in DOMAIN Lists[c]
        PROVE  Lists[c][i] \in Nat /\ Lists[c][i] < block
    BY <1>3, <1>4, DataSectors DEF Within
  <2>2. ASSUME NEW i \in DOMAIN Lists[c], NEW j \in DOMAIN filled
        PROVE  Lists[c][i] # filled[j]
    BY <1>1, <1>2, <1>4, <2>1 DEF Disjoint
  <2> QED
    BY <1>1, <2>1, <2>2 DEF Disjoint
<1>8. CASE ~(Len(filled) = MaxFreeBlock \/ last)
  <2>1. /\ chain' = filled /\ Lists' = Lists /\ chainSector' = chainSector
        /\ misread' = misread
    BY <1>8 DEF ListFillChain, FillChain
  <2>2. Len(filled) < MaxFreeBlock
    BY <1>2, <1>8
  <2>3. ListTyped'
    BY <1>1, <1>2, <2>1, <2>2 DEF ListInv, ListTyped
  <2>4. ListsSound'
    BY <1>1, <1>3, <2>1 DEF ListInv, ListsSound
  <2>5. \A i \in DOMAIN freeBlock : freeBlock[i] < block + 1
    <3> TAKE i \in DOMAIN freeBlock
    <3>1. freeBlock[i] \in Nat
      BY <1>3, <1>5, DataSectors DEF Within
    <3> QED
      BY <1>1, <1>5, <3>1
  <2>6. used' = {} /\ lost' = {}
    BY <1>1 DEF ListInv, Formatting
  <2>7. Formatting'
    BY <1>1, <1>3, <1>6, <1>7, <2>1, <2>5, <2>6 DEF Formatting
  <2> QED
    BY <1>1, <2>1, <2>3, <2>4, <2>7 DEF ListInv, UsedBlocksInert
<1>9. CASE Len(filled) = MaxFreeBlock \/ last
  <2>1. /\ Lists' = WriteList(chainSector, filled) /\ chain' = <<>>
        /\ chainSector' = IF last THEN chainSector ELSE filled[1]
    BY <1>9 DEF ListFillChain, FillChain
  <2>2. /\ Lists' \in [Sectors -> Contents] /\ Lists'[chainSector] = filled
        /\ \A t \in Sectors \ {chainSector} : Lists'[t] = Lists[t]
    <3>1. ListTyped /\ chainSector \in Sectors
      BY <1>3, DataSectors DEF ListInv
    <3>2. filled \in Contents
      BY <1>2 DEF Contents
    <3> HIDE DEF filled
    <3> QED
      BY <2>1, <3>1, <3>2, WriteInside
  <2>3. chainSector' \in DataBlocks
    BY <1>2, <1>3, <1>6, <2>1 DEF Within
  <2>4. ListTyped'
    <3>1. chainSector' \in Nat
      BY <2>3, DataSectors
    <3>2. chain' \in Seq(Nat) /\ Len(chain') < MaxFreeBlock
      BY <2>1
    <3>3. misread' = misread
      BY DEF ListFillChain, FillChain
    <3> QED
      BY <1>1, <2>2, <3>1, <3>2, <3>3 DEF ListInv, ListTyped
  <2>5. ASSUME NEW c \in Chains(Lists', Free)
        PROVE  \/ c = chainSector /\ Lists'[c] = filled
               \/ c # chainSector /\ c \in Chains(Lists, Free) /\ Lists'[c] = Lists[c]
    BY <1>3, <2>2, DataSectors DEF Chains
  <2>6. ListsSound'
    <3>1. ASSUME NEW c \in Chains(Lists', Free)
          PROVE  /\ Distinct(Lists'[c]) /\ Within(Lists'[c], Free)
                 /\ Disjoint(Lists'[c], freeBlock)
      BY <1>4, <1>6, <2>5
    <3>2. ASSUME NEW c \in Chains(Lists', Free), NEW e \in Chains(Lists', Free) \ {c}
          PROVE  Disjoint(Lists'[c], Lists'[e])
      BY <1>4, <1>7, <2>5
    <3> QED
      BY <1>1, <1>3, <1>5, <3>1, <3>2 DEF ListsSound, SoundLists
  <2>7. Formatting'
    <3>1. \A i \in DOMAIN freeBlock : freeBlock[i] < block + 1
      <4> TAKE i \in DOMAIN freeBlock
      <4>1. freeBlock[i] \in Nat
        BY <1>3, <1>5, DataSectors DEF Within
      <4> QED
        BY <1>1, <1>5, <4>1
    <3>2. /\ Distinct(chain') /\ Within(chain', Free) /\ Disjoint(chain', freeBlock)
          /\ DOMAIN chain' = {}
      BY <2>1 DEF Distinct, Within, Disjoint
    <3>3. ASSUME NEW c \in Chains(Lists', Free)
          PROVE  /\ Disjoint(Lists'[c], chain')
                 /\ \A i \in DOMAIN Lists'[c] : Lists'[c][i] < block + 1
      BY <1>6, <1>7, <2>5, <3>2 DEF Disjoint
    <3>4. used' = {} /\ lost' = {}
      BY <1>1 DEF ListInv, Formatting
    <3> QED
      BY <1>1, <1>3, <2>3, <3>1, <3>2, <3>3, <3>4 DEF Formatting
  <2>8. UsedBlocksInert'
    BY <1>1 DEF ListInv, Formatting, UsedBlocksInert
  <2> QED
    BY <2>4, <2>6, <2>7, <2>8 DEF ListInv
<1> QED
  BY <1>8, <1>9

\* The top of the cache becomes the root directory's block.
LEMMA ListInvCreateRootDir ==
    ListInv /\ ListCreateRoot => ListInv'
<1> SUFFICES ASSUME ListInv, ListCreateRoot PROVE ListInv'
  OBVIOUS
<1> USE GeometryAssumption, MaxFreeBlockAssumption
<1> DEFINE b == Last(freeBlock)
<1>1. /\ phase = "format" /\ phase' = "ready" /\ freeBlock' = Front(freeBlock)
      /\ used' = {b} /\ totalFreeBlock' = Decrement(totalFreeBlock)
      /\ block' = block /\ chain' = chain /\ chainSector' = chainSector /\ lost' = lost
      /\ misread' = misread
      /\ used = {} /\ lost = {} /\ Lists' = WriteList(b, <<>>)
  BY DEF ListCreateRoot, CreateRootDir, ListInv, Formatting
<1>2. freeBlock # <<>> /\ freeBlock \in Seq(Nat)
  BY DEF ListCreateRoot, CreateRootDir, ListInv, Formatting, ListTyped
<1>3. /\ Front(freeBlock) \in Seq(Nat) /\ Len(Front(freeBlock)) <= MaxFreeBlock
  <2>1. Front(freeBlock) \in Seq(Nat) /\ Len(Front(freeBlock)) = Len(freeBlock) - 1
    BY <1>2, FrontEntries
  <2>2. Len(freeBlock) \in Nat /\ Len(freeBlock) <= MaxFreeBlock
    BY DEF ListInv, ListTyped
  <2> QED
    BY <2>1, <2>2
<1>4. Free = DataBlocks /\ Free' = DataBlocks \ {b}
  BY <1>1 DEF Free
<1>5. b \in DataBlocks
  BY <1>2, <1>4, FrontEntries DEF ListInv, ListsSound, SoundLists, Within
<1>6. /\ Lists' \in [Sectors -> Contents] /\ Lists'[b] = <<>>
      /\ \A t \in Sectors \ {b} : Lists'[t] = Lists[t]
  <2>1. ListTyped
    BY DEF ListInv
  <2>2. b \in Sectors
    BY <1>5, DataSectors
  <2> QED
    BY <1>1, <2>1, <2>2, EmptyContent, WriteInside
<1>7. ListTyped'
  <2>1. totalFreeBlock' \in 0 .. MaxWord
    BY <1>1, UpDown DEF ListInv, ListTyped
  <2> QED
    BY <1>1, <1>3, <1>5, <1>6, <2>1 DEF ListInv, ListTyped
<1>8. ListsSound'
  <2>1. \A t \in Free \ {b} : Lists'[t] = Lists[t]
    BY <1>4, <1>6, DataSectors
  <2>2. SoundLists(freeBlock, Lists, Free)
    BY DEF ListInv, ListsSound
  <2>3. SoundLists(Front(freeBlock), Lists', Free \ {b})
    BY <1>2, <2>1, <2>2, PopSound
  <2> QED
    BY <1>1, <1>4, <2>3 DEF ListsSound
<1>9. Formatting' /\ UsedBlocksInert'
  BY <1>1, <1>6 DEF Formatting, UsedBlocksInert
<1> QED
  BY <1>7, <1>8, <1>9 DEF ListInv

\* What AllocBlock takes is free, and so is what it drops.
LEMMA AllocTakesFree ==
    ASSUME ListInv, ListAlloc
    PROVE  /\ freeBlock # <<>> /\ freeBlock \in Seq(Nat) /\ Last(freeBlock) \in Free
           /\ totalFreeBlock' = Decrement(totalFreeBlock) /\ phase' = "ready"
           /\ \E list, taken : \E writeOk \in BOOLEAN :
                 /\ AllocStep(list, taken, writeOk)
                 /\ taken \in Free
                 /\ list # <<>> => /\ Len(freeBlock) = 1 /\ list = Lists[Last(freeBlock)]
                                   /\ list \in Seq(Nat) /\ taken = Last(list)
                                   /\ taken # Last(freeBlock)
                 /\ list = <<>> => taken = Last(freeBlock)
<1> DEFINE b == Last(freeBlock)
<1>1. /\ freeBlock # <<>> /\ freeBlock \in Seq(Nat)
      /\ totalFreeBlock' = Decrement(totalFreeBlock) /\ phase' = "ready"
  BY DEF ListAlloc, AllocBlock, ListInv, ListTyped, fmtVars
<1>2. b \in Free
  BY <1>1, FrontEntries DEF ListInv, ListsSound, SoundLists, Within
<1>3. b \in Sectors /\ Lists[b] \in Seq(Nat)
  BY <1>2, DataSectors DEF ListInv, ListTyped, Contents
<1>4. PICK list, taken : \E writeOk \in BOOLEAN : AllocStep(list, taken, writeOk)
  BY DEF ListAlloc
<1>5. PICK writeOk \in BOOLEAN : AllocStep(list, taken, writeOk)
  BY <1>4
<1>6. CASE list = <<>>
  <2>1. taken = b
    BY <1>5, <1>6 DEF AllocStep, BlockTaken
  <2> QED
    BY <1>1, <1>2, <1>5, <1>6, <2>1
<1>7. CASE list # <<>>
  <2>1. Len(freeBlock) = 1 /\ list = Lists[b] /\ taken = Last(list)
    BY <1>3, <1>5, <1>7 DEF AllocStep, ChainLoaded, BlockTaken
  <2>2. SoundLists(freeBlock, Lists, Free)
    BY DEF ListInv, ListsSound
  <2>3. taken \in Free \ {b}
    BY <1>1, <1>3, <1>7, <2>1, <2>2, TopOfChain
  <2> QED
    BY <1>1, <1>2, <1>3, <1>5, <1>7, <2>1, <2>3
<1> QED
  BY <1>6, <1>7

LEMMA ListInvAllocBlock == ListInv /\ ListAlloc => ListInv'
<1> SUFFICES ASSUME ListInv, ListAlloc PROVE ListInv'
  OBVIOUS
<1> USE GeometryAssumption, MaxFreeBlockAssumption
<1>1. PICK list, taken : \E writeOk \in BOOLEAN :
         /\ AllocStep(list, taken, writeOk)
         /\ taken \in Free
         /\ list # <<>> => /\ Len(freeBlock) = 1 /\ list = Lists[Last(freeBlock)]
                           /\ list \in Seq(Nat) /\ taken = Last(list)
                           /\ taken # Last(freeBlock)
         /\ list = <<>> => taken = Last(freeBlock)
  BY AllocTakesFree
<1>2. PICK writeOk \in BOOLEAN : AllocStep(list, taken, writeOk)
  BY <1>1
<1>3. /\ freeBlock # <<>> /\ freeBlock \in Seq(Nat) /\ Last(freeBlock) \in Free
      /\ totalFreeBlock' = Decrement(totalFreeBlock) /\ phase' = "ready"
      /\ taken \in Free /\ taken \in DataBlocks /\ taken \in Sectors
  BY <1>1, AllocTakesFree, DataSectors
<1>4. /\ Lists' \in [Sectors -> Contents]
      /\ \A t \in Sectors \ {taken} : Lists'[t] = Lists[t]
      /\ writeOk => Lists'[taken] = <<>>
  <2>1. Lists' = IF writeOk THEN WriteList(taken, <<>>) ELSE Lists
    BY <1>2 DEF AllocStep
  <2>2. ListTyped
    BY DEF ListInv
  <2>3. CASE writeOk
    BY <1>3, <2>1, <2>2, <2>3, EmptyContent, WriteInside
  <2>4. CASE ~writeOk
    BY <2>1, <2>2, <2>4 DEF ListTyped
  <2> QED
    BY <2>3, <2>4
<1>5. /\ freeBlock' = IF list = <<>> THEN Front(freeBlock) ELSE Front(list)
      /\ Free' = Free \ ({taken} \cup (IF list = <<>> THEN {} ELSE {Last(freeBlock)}))
      /\ used' \subseteq used \cup {taken} /\ (~writeOk => used' = used)
      /\ lost' = lost \cup (IF list = <<>> THEN {} ELSE {Last(freeBlock)})
                      \cup (IF writeOk THEN {} ELSE {taken})
  BY <1>2 DEF AllocStep, CacheAfterAlloc, Free
<1>6. freeBlock' \in Seq(Nat) /\ Len(freeBlock') <= MaxFreeBlock /\ ListsSound'
  <2>1. \A t \in Free \ {taken} : Lists'[t] = Lists[t]
    BY <1>4, DataSectors
  <2>2. SoundLists(freeBlock, Lists, Free)
    BY DEF ListInv, ListsSound
  <2>3. CASE list = <<>>
    <3>1. Last(freeBlock) = taken /\ freeBlock' = Front(freeBlock) /\ Free' = Free \ {taken}
      BY <1>1, <1>5, <2>3
    <3>2. Front(freeBlock) \in Seq(Nat) /\ Len(Front(freeBlock)) = Len(freeBlock) - 1
      BY <1>3, FrontEntries
    <3>3. Len(freeBlock) \in Nat /\ Len(freeBlock) <= MaxFreeBlock
      BY DEF ListInv, ListTyped
    <3>4. SoundLists(Front(freeBlock), Lists', Free \ {taken})
      BY <1>3, <2>1, <2>2, <3>1, PopSound
    <3> QED
      BY <3>1, <3>2, <3>3, <3>4 DEF ListsSound
  <2>4. CASE list # <<>>
    <3> DEFINE b == Last(freeBlock)
    <3>1. /\ Last(freeBlock) = b /\ Lists[b] = list /\ list \in Seq(Nat) /\ Last(list) = taken
          /\ Len(freeBlock) = 1
          /\ freeBlock' = Front(list) /\ Free' = Free \ {b, taken}
      BY <1>1, <1>5, <2>4
    <3>a. list \in Contents
      BY <1>3, <3>1, DataSectors DEF ListInv, ListTyped
    <3> HIDE DEF b
    <3>2. Front(list) \in Seq(Nat) /\ Len(Front(list)) <= MaxFreeBlock
      <4>1. Front(list) \in Seq(Nat) /\ Len(Front(list)) = Len(list) - 1
        BY <2>4, <3>1, FrontEntries
      <4>2. Len(list) \in Nat /\ Len(list) <= MaxFreeBlock
        BY <3>a DEF Contents
      <4> QED
        BY <4>1, <4>2
    <3>3. SoundLists(Front(list), Lists', Free')
      <4>1. \A s : s \in Free' <=> s \in Free /\ s # b /\ s # taken
        BY <3>1
      <4>2. \A s \in Free : s # taken => Lists'[s] = Lists[s]
        BY <2>1
      <4>3. /\ freeBlock \in Seq(Nat) /\ Len(freeBlock) = 1 /\ Last(freeBlock) = b
            /\ list \in Seq(Nat) /\ Lists[b] = list /\ list # <<>> /\ Last(list) = taken
        BY <1>3, <2>4, <3>1
      <4>4. Reloads(freeBlock, Free, Lists, Lists', b, list, taken, Free')
        BY <2>2, <4>1, <4>2, <4>3 DEF Reloads
      <4> QED
        BY <4>4, ReloadSound
    <3> QED
      BY <3>1, <3>2, <3>3 DEF ListsSound
  <2> QED
    BY <2>3, <2>4
<1>7. ListTyped'
  <2>1. totalFreeBlock' \in 0 .. MaxWord
    BY <1>3, UpDown DEF ListInv, ListTyped
  <2>2. used' \subseteq DataBlocks /\ lost' \subseteq DataBlocks
    BY <1>3, <1>5, DataSectors DEF ListInv, ListTyped
  <2>3. UNCHANGED fmtVars
    BY DEF ListAlloc, AllocBlock
  <2>4. misread' \in {0, 1}
    BY DEF ListAlloc, AllocBlock, ListInv, ListTyped
  <2> QED
    BY <1>4, <1>6, <2>1, <2>2, <2>3, <2>4 DEF ListInv, ListTyped, fmtVars
<1>8. Formatting'
  BY <1>3 DEF Formatting
<1>9. UsedBlocksInert'
  <2>1. used \subseteq Sectors /\ used \cap lost = {} /\ \A u \in used : Lists[u] = <<>>
    BY DataSectors DEF ListInv, ListTyped, UsedBlocksInert
  <2>2. taken \notin used /\ taken \notin lost /\ Last(freeBlock) \notin used
    BY <1>3 DEF Free
  <2>3. \A u \in used : Lists'[u] = <<>>
    BY <1>4, <2>1, <2>2
  <2>4. list # <<>> => taken # Last(freeBlock)
    BY <1>1
  <2>5. used' \cap lost' = {}
    BY <1>5, <2>1, <2>2, <2>4
  <2> QED
    BY <1>4, <1>5, <2>3, <2>5 DEF UsedBlocksInert
<1> QED
  BY <1>6, <1>7, <1>8, <1>9 DEF ListInv

LEMMA ListInvFreeBlock ==
    ASSUME NEW b \in used PROVE ListInv /\ ListFree(b) => ListInv'
<1> SUFFICES ASSUME ListInv, ListFree(b) PROVE ListInv'
  OBVIOUS
<1> USE GeometryAssumption, MaxFreeBlockAssumption
<1>1. /\ b \in DataBlocks /\ b \in Nat /\ b \in Sectors /\ b \notin lost /\ b \notin Free
      /\ Lists[b] = <<>> /\ freeBlock \in Seq(Nat)
      /\ phase' = "ready" /\ UNCHANGED <<fmtVars, lost, misread>>
      /\ used' = used \ {b} /\ totalFreeBlock' = Increment(totalFreeBlock)
  BY DataSectors DEF ListInv, ListTyped, UsedBlocksInert, ListFree, FreeBlock, Free, fmtVars
<1>2. Free' = Free \cup {b}
  BY <1>1 DEF Free
<1>3. /\ Lists' \in [Sectors -> Contents]
      /\ \A t \in Sectors \ {b} : Lists'[t] = Lists[t]
      /\ Lists'[b] = ContentAfterFree(freeBlock, <<>>)
  <2>1. Lists' = WriteList(b, ContentAfterFree(freeBlock, <<>>))
    BY <1>1 DEF ListFree, FreeBlock, ReadSector, ListInv, ListTyped
  <2>2. ContentAfterFree(freeBlock, <<>>) \in Contents
    BY EmptyContent DEF ContentAfterFree, Contents, ListInv, ListTyped
  <2>3. ListTyped
    BY DEF ListInv
  <2> QED
    BY <1>1, <2>1, <2>2, <2>3, WriteInside
<1>4. SoundLists(freeBlock, Lists, Free) /\ \A t \in Free : Lists'[t] = Lists[t]
  BY <1>1, <1>3, DataSectors DEF ListInv, ListsSound
<1>5. /\ freeBlock' \in Seq(Nat) /\ Len(freeBlock') <= MaxFreeBlock
      /\ ListsSound'
  <2>1. CASE CacheFull(freeBlock)
    <3>1. freeBlock' = <<b>> /\ Lists'[b] = freeBlock
      BY <1>3, <2>1 DEF ListFree, FreeBlock, CacheAfterFree, ContentAfterFree
    <3>2. SoundLists(<<b>>, Lists', Free \cup {b})
      BY <1>1, <1>4, <3>1, SpillSound
    <3>3. <<b>> \in Seq(Nat) /\ Len(<<b>>) = 1
      BY <1>1
    <3> QED
      BY <1>2, <3>1, <3>2, <3>3 DEF ListsSound
  <2>2. CASE ~CacheFull(freeBlock)
    <3>1. freeBlock' = Append(freeBlock, b) /\ Lists'[b] = <<>>
      BY <1>3, <2>2 DEF ListFree, FreeBlock, CacheAfterFree, ContentAfterFree
    <3>2. SoundLists(Append(freeBlock, b), Lists', Free \cup {b})
      BY <1>1, <1>4, <3>1, PushSound
    <3>3. Append(freeBlock, b) \in Seq(Nat) /\ Len(Append(freeBlock, b)) <= MaxFreeBlock
      BY <1>1, <2>2 DEF CacheFull
    <3> QED
      BY <1>2, <3>1, <3>2, <3>3 DEF ListsSound
  <2> QED
    BY <2>1, <2>2
<1>6. ListTyped'
  <2>1. totalFreeBlock' \in 0 .. MaxWord
    BY <1>1, UpDown DEF ListInv, ListTyped
  <2> QED
    BY <1>1, <1>3, <1>5, <2>1 DEF ListInv, ListTyped, fmtVars
<1>7. Formatting'
  BY <1>1 DEF Formatting
<1>8. UsedBlocksInert'
  BY <1>1, <1>3, DataSectors DEF ListInv, ListTyped, UsedBlocksInert
<1> QED
  BY <1>5, <1>6, <1>7, <1>8 DEF ListInv

LEMMA ListInvStutter ==
    ASSUME ListInv, Lists' = Lists,
           UNCHANGED <<freeBlock, totalFreeBlock, fmtVars, used, lost, misread>>
    PROVE  ListInv'
  BY DEF ListInv, ListTyped, ListsSound, Formatting, UsedBlocksInert,
         fmtVars, Free, SoundLists, Chains

LEMMA ListInvNext == ListInv /\ ListStep => ListInv'
<1> SUFFICES ASSUME ListInv, ListStep PROVE ListInv'
  OBVIOUS
<1>1. CASE ListFillCache
  BY <1>1, ListInvFillCache
<1>2. CASE ListFillChain
  BY <1>2, ListInvFillChain
<1>3. CASE ListCreateRoot
  BY <1>3, ListInvCreateRootDir
<1>4. CASE ListAlloc
  BY <1>4, ListInvAllocBlock
<1>5. ASSUME NEW b \in used, ListFree(b) PROVE ListInv'
  BY <1>5, ListInvFreeBlock
<1>6. ASSUME NEW b \in used, NEW p \in Payloads, ListWrite(b, p) PROVE ListInv'
  BY <1>6, ListInvStutter DEF ListWrite, WriteData
<1>7. CASE UNCHANGED vars
  <2>1. Lists' = Lists
    BY <1>7 DEF vars, histVars, Lists
  <2> QED
    BY <1>7, <2>1, ListInvStutter DEF vars, histVars
<1> QED
  BY <1>1, <1>2, <1>3, <1>4, <1>5, <1>6, <1>7 DEF ListStep

-----------------------------------------------------------------------------
(* Every step of the program that does not go astray is a step on the     *)
(* lists.                                                                  *)

LEMMA TypedLists ==
    ASSUME DiskTyped
    PROVE  /\ Lists \in [Sectors -> Contents] /\ DOMAIN Lists = Sectors /\ DOMAIN disk = Sectors
           /\ \A s \in Sectors : Lists[s] = IF s \in chained THEN disk[s] ELSE <<>>
  BY EmptyContent DEF DiskTyped, Lists

\* A write of a list, and one of something else, into a sector of the image.
LEMMA ListWritten ==
    ASSUME DiskTyped, NEW s \in Sectors, NEW c \in Contents,
           disk' = WriteSector(s, c), chained' = chained \cup {s}
    PROVE  DiskTyped' /\ Lists' = WriteList(s, c)
<1>1. disk' \in [Sectors -> Contents] /\ disk'[s] = c /\ \A t \in Sectors \ {s} : disk'[t] = disk[t]
  BY DEF DiskTyped, WriteSector
<1>2. DiskTyped'
  BY <1>1 DEF DiskTyped
<1>3. Lists' = [t \in Sectors |-> IF t \in chained \cup {s} THEN disk'[t] ELSE <<>>]
  BY <1>1 DEF Lists
<1>4. WriteList(s, c) = [t \in Sectors |-> IF t = s THEN c ELSE Lists[t]]
  BY TypedLists DEF WriteList
<1>5. \A t \in Sectors : (IF t \in chained \cup {s} THEN disk'[t] ELSE <<>>)
                          = (IF t = s THEN c ELSE Lists[t])
  BY <1>1, TypedLists
<1> QED
  BY <1>2, <1>3, <1>4, <1>5

LEMMA DataWritten ==
    ASSUME DiskTyped, NEW s \in Sectors, NEW c \in Contents,
           disk' = WriteSector(s, c), chained' = chained \ {s}
    PROVE  DiskTyped' /\ Lists' = WriteList(s, <<>>)
<1>1. disk' \in [Sectors -> Contents] /\ \A t \in Sectors \ {s} : disk'[t] = disk[t]
  BY DEF DiskTyped, WriteSector
<1>2. DiskTyped'
  BY <1>1 DEF DiskTyped
<1>3. Lists' = [t \in Sectors |-> IF t \in chained \ {s} THEN disk'[t] ELSE <<>>]
  BY <1>1 DEF Lists
<1>4. WriteList(s, <<>>) = [t \in Sectors |-> IF t = s THEN <<>> ELSE Lists[t]]
  BY TypedLists DEF WriteList
<1>5. \A t \in Sectors : (IF t \in chained \ {s} THEN disk'[t] ELSE <<>>)
                          = (IF t = s THEN <<>> ELSE Lists[t])
  BY <1>1, TypedLists
<1> QED
  BY <1>2, <1>3, <1>4, <1>5

\* Writing no list where there was none.
LEMMA NothingWritten ==
    ASSUME DiskTyped, NEW s \in Sectors, Lists[s] = <<>>
    PROVE  WriteList(s, <<>>) = Lists
<1>1. Lists = [t \in Sectors |-> Lists[t]] /\ DOMAIN Lists \cup {s} = Sectors
  BY TypedLists
<1> QED
  BY <1>1 DEF WriteList

LEMMA FillChainOnLists ==
    ASSUME ListInv, DiskTyped, FillChain PROVE ListFillChain /\ DiskTyped'
<1> DEFINE filled == Append(chain, block)
           last   == block + 1 = VolumeSize
<1>1. /\ chain \in Seq(Nat) /\ Len(chain) \in Nat /\ Len(chain) < MaxFreeBlock
      /\ block \in Nat /\ chainSector \in Sectors
  BY GeometryAssumption, DataSectors DEF FillChain, ListInv, ListTyped, Formatting
<1>2. filled \in Contents
  <2>1. filled \in Seq(Nat) /\ Len(filled) = Len(chain) + 1
    BY <1>1, AppendEntries
  <2> QED
    BY <1>1, <2>1, MaxFreeBlockAssumption DEF Contents
<1>3. CASE Len(filled) = MaxFreeBlock \/ last
  <2>1. disk' = WriteSector(chainSector, filled) /\ chained' = chained \cup {chainSector}
    BY <1>3 DEF FillChain
  <2>2. DiskTyped' /\ Lists' = WriteList(chainSector, filled)
    <3> HIDE DEF filled
    <3> QED
      BY <1>1, <1>2, <2>1, ListWritten
  <2> QED
    BY <1>3, <2>2 DEF ListFillChain
<1>4. CASE ~(Len(filled) = MaxFreeBlock \/ last)
  <2>1. disk' = disk /\ chained' = chained
    BY <1>4 DEF FillChain
  <2>2. DiskTyped' /\ Lists' = Lists
    BY <2>1 DEF DiskTyped, Lists
  <2> QED
    BY <1>4, <2>2 DEF ListFillChain
<1> QED
  BY <1>3, <1>4

LEMMA CreateRootOnLists ==
    ASSUME ListInv, DiskTyped, CreateRootDir PROVE ListCreateRoot /\ DiskTyped'
<1>1. freeBlock # <<>> /\ freeBlock \in Seq(Nat)
  BY GeometryAssumption DEF CreateRootDir, ListInv, Formatting, ListTyped
<1>2. Last(freeBlock) \in Sectors
  <2>1. Last(freeBlock) \in Free
    BY <1>1, FrontEntries DEF ListInv, ListsSound, SoundLists, Within
  <2> QED
    BY <2>1, DataSectors
<1>3. PICK p \in Contents : disk' = WriteSector(Last(freeBlock), p)
  BY GeometryAssumption DEF CreateRootDir
<1>4. chained' = chained \ {Last(freeBlock)}
  BY DEF CreateRootDir
<1> QED
  BY <1>2, <1>3, <1>4, DataWritten DEF ListCreateRoot

LEMMA AllocOnLists ==
    ASSUME ListInv, DiskTyped, AllocBlock, ~astray' PROVE ListAlloc /\ DiskTyped'
<1> DEFINE b == Last(freeBlock)
<1>1. freeBlock # <<>> /\ freeBlock \in Seq(Nat)
  BY DEF AllocBlock, ListInv, ListTyped
<1>2. /\ b \in Sectors /\ SoundLists(freeBlock, Lists, Free) /\ ReadSector(b) = disk[b]
      /\ Lists[b] = (IF b \in chained THEN disk[b] ELSE <<>>) /\ Lists[b] \in Seq(Nat)
  <2>1. b \in Free /\ SoundLists(freeBlock, Lists, Free)
    BY <1>1, FrontEntries DEF ListInv, ListsSound, SoundLists, Within
  <2>2. b \in Sectors
    BY <2>1, DataSectors
  <2>3. Lists[b] \in Contents /\ ReadSector(b) = disk[b]
    BY <2>2, TypedLists DEF ReadSector
  <2> QED
    BY <2>1, <2>2, <2>3, TypedLists DEF Contents
<1>3. PICK readOk \in IOResults, writeOk \in IOResults :
         LET content == IF readOk THEN ReadSector(b) ELSE <<>>
             list    == ChainLoaded(freeBlock, totalFreeBlock, content)
             taken   == BlockTaken(freeBlock, list)
         IN /\ freeBlock' = CacheAfterAlloc(freeBlock, list)
            /\ disk' = IF writeOk THEN WriteSector(taken, <<>>) ELSE disk
            /\ used' = IF writeOk THEN used \cup {taken} ELSE used
            /\ chained' = IF writeOk THEN chained \ {taken} ELSE chained
            /\ astray' = (astray \/ (list # <<>> /\ b \notin chained))
            /\ lost' = lost \cup (IF list = <<>> THEN {} ELSE {b})
                            \cup (IF writeOk THEN {} ELSE {taken})
            /\ misread' = IF readOk THEN misread ELSE 1
  BY DEF AllocBlock
<1> DEFINE content == IF readOk THEN ReadSector(b) ELSE <<>>
           list    == ChainLoaded(freeBlock, totalFreeBlock, content)
           taken   == BlockTaken(freeBlock, list)
<1>4. /\ freeBlock' = CacheAfterAlloc(freeBlock, list)
      /\ disk' = IF writeOk THEN WriteSector(taken, <<>>) ELSE disk
      /\ used' = IF writeOk THEN used \cup {taken} ELSE used
      /\ chained' = IF writeOk THEN chained \ {taken} ELSE chained
      /\ list # <<>> => b \in chained
      /\ lost' = lost \cup (IF list = <<>> THEN {} ELSE {b})
                      \cup (IF writeOk THEN {} ELSE {taken})
      /\ misread' = IF readOk THEN misread ELSE 1
      /\ writeOk \in BOOLEAN
  BY <1>3, GeometryAssumption DEF IOResults
<1>5. /\ readOk => list = ChainLoaded(freeBlock, totalFreeBlock, Lists[b])
      /\ ~readOk => list = ChainLoaded(freeBlock, totalFreeBlock, <<>>)
  BY <1>2, <1>4 DEF ChainLoaded
<1>6. taken \in Sectors
  <2>1. CASE list = <<>>
    BY <1>2, <2>1 DEF BlockTaken
  <2>2. CASE list # <<>>
    <3>1. list = Lists[b] /\ taken = Last(Lists[b]) /\ Lists[b] # <<>>
      BY <1>5, <2>2 DEF ChainLoaded, BlockTaken
    <3>2. Last(Lists[b]) \in Free
      BY <1>1, <1>2, <3>1, TopOfChain
    <3> QED
      BY <3>1, <3>2, DataSectors
  <2> QED
    BY <2>1, <2>2
<1> HIDE DEF b, list, taken
<1>7. DiskTyped' /\ Lists' = IF writeOk THEN WriteList(taken, <<>>) ELSE Lists
  <2>1. CASE writeOk
    BY <1>4, <1>6, <2>1, EmptyContent, DataWritten
  <2>2. CASE ~writeOk
    BY <1>4, <2>2 DEF DiskTyped, Lists
  <2> QED
    BY <1>4, <2>1, <2>2
<1>8. AllocStep(list, taken, writeOk)
  BY <1>4, <1>5, <1>7 DEF AllocStep, b, taken
<1>9. misread' = 0 => readOk /\ misread = 0
  BY <1>4
<1> QED
  BY <1>4, <1>5, <1>7, <1>8, <1>9 DEF ListAlloc, b

LEMMA FreeOnLists ==
    ASSUME ListInv, DiskTyped, NEW b \in used, FreeBlock(b)
    PROVE  ListFree(b) /\ DiskTyped'
<1>1. /\ b \in Sectors /\ Lists[b] = <<>> /\ ReadSector(b) = disk[b]
      /\ freeBlock \in Contents
  BY DataSectors DEF ListInv, ListTyped, UsedBlocksInert, DiskTyped, ReadSector, Contents
<1>2. CASE CacheFull(freeBlock)
  <2>1. disk' = WriteSector(b, freeBlock) /\ chained' = chained \cup {b}
    BY <1>2 DEF FreeBlock, ContentAfterFree
  <2> QED
    BY <1>1, <1>2, <2>1, ListWritten DEF ListFree, ContentAfterFree
<1>3. CASE ~CacheFull(freeBlock)
  <2>1. disk' = WriteSector(b, disk[b]) /\ chained' = chained
    BY <1>1, <1>3 DEF FreeBlock, ContentAfterFree
  <2>2. disk' = disk
    BY <1>1, <2>1 DEF WriteSector, DiskTyped
  <2>3. DiskTyped' /\ Lists' = Lists
    BY <2>1, <2>2 DEF DiskTyped, Lists
  <2> QED
    BY <1>1, <1>3, <2>3, NothingWritten DEF ListFree, ContentAfterFree
<1> QED
  BY <1>2, <1>3

LEMMA WriteOnLists ==
    ASSUME ListInv, DiskTyped, NEW b \in used, NEW p \in Payloads, WriteData(b, p)
    PROVE  ListWrite(b, p) /\ DiskTyped'
<1>1. b \in Sectors /\ Lists[b] = <<>> /\ p \in Contents
  BY DataSectors, GeometryAssumption DEF ListInv, ListTyped, UsedBlocksInert
<1>2. disk' = WriteSector(b, p) /\ chained' = chained \ {b}
  BY DEF WriteData
<1> QED
  BY <1>1, <1>2, DataWritten, NothingWritten DEF ListWrite

LEMMA OnLists ==
    ASSUME ListInv, DiskTyped, [Next]_vars, ~astray' PROVE ListStep /\ DiskTyped'
<1>1. CASE FillCache
  BY <1>1 DEF FillCache, histVars, ListFillCache, ListStep, DiskTyped, Lists
<1>2. CASE FillChain
  BY <1>2, FillChainOnLists DEF ListStep
<1>3. CASE CreateRootDir
  BY <1>3, CreateRootOnLists DEF ListStep
<1>4. CASE AllocBlock
  BY <1>4, AllocOnLists DEF ListStep
<1>5. ASSUME NEW b \in used, FreeBlock(b) PROVE ListStep /\ DiskTyped'
  BY <1>5, FreeOnLists DEF ListStep
<1>6. ASSUME NEW b \in used, NEW p \in Payloads, WriteData(b, p)
      PROVE  ListStep /\ DiskTyped'
  BY <1>6, WriteOnLists DEF ListStep
<1>7. CASE UNCHANGED vars
  BY <1>7 DEF ListStep, DiskTyped, vars, histVars
<1> QED
  BY <1>1, <1>2, <1>3, <1>4, <1>5, <1>6, <1>7 DEF Next, Step, StaysAstray

\* What holds of the lists until they go astray.
SoundSoFar == astray \in BOOLEAN /\ (astray \/ (ListInv /\ DiskTyped))

\* Once the lists have gone astray nothing more is said of them.
LEMMA AstrayStays == astray \in BOOLEAN /\ [Next]_vars => astray' \in BOOLEAN /\ (astray => astray')
<1> SUFFICES ASSUME astray \in BOOLEAN, [Next]_vars
             PROVE  astray' \in BOOLEAN /\ (astray => astray')
  OBVIOUS
<1>1. CASE AllocBlock
  BY <1>1 DEF AllocBlock
<1>2. CASE astray' = astray
  BY <1>2
<1> QED
  BY <1>1, <1>2 DEF Next, Step, StaysAstray, FillCache, FillChain, CreateRootDir, FreeBlock,
                    WriteData, vars, histVars

LEMMA SoundSoFarInit == Init => SoundSoFar
<1> SUFFICES ASSUME Init PROVE SoundSoFar
  OBVIOUS
<1>1. DiskTyped /\ astray = FALSE
  BY EmptyContent DEF Init, DiskTyped
<1> QED
  BY <1>1, ListInvInit DEF SoundSoFar

LEMMA SoundSoFarNext == SoundSoFar /\ [Next]_vars => SoundSoFar'
<1> SUFFICES ASSUME SoundSoFar, [Next]_vars PROVE SoundSoFar'
  OBVIOUS
<1>1. astray' \in BOOLEAN /\ (astray => astray')
  BY AstrayStays DEF SoundSoFar
<1>2. CASE astray'
  BY <1>1, <1>2 DEF SoundSoFar
<1>3. CASE ~astray'
  <2>1. ListInv /\ DiskTyped
    BY <1>1, <1>3 DEF SoundSoFar
  <2>2. ListStep /\ DiskTyped'
    BY <1>3, <2>1, OnLists
  <2> QED
    BY <1>1, <2>1, <2>2, ListInvNext DEF SoundSoFar
<1> QED
  BY <1>2, <1>3

LEMMA SoundSoFarAlways == Spec => []SoundSoFar
  BY SoundSoFarInit, SoundSoFarNext, PTL DEF Spec

\* For every geometry, every pattern of read and write faults and whatever
\* the callers write, until AllocBlock loads its cache from a sector that
\* holds no chain block: the allocator's state keeps its types.  NFreeBlock
\* never leaves 0 .. MaxFreeBlock, TotalFreeBlock stays a uint32, and every
\* block that AllocBlock hands out is a data block.
THEOREM FreeListTypes == Spec => []TypeOK
<1>1. SoundSoFar => TypeOK
  BY DEF SoundSoFar, ListInv, ListTyped, DiskTyped, TypeOK, Typed
<1> QED
  BY <1>1, SoundSoFarAlways, PTL

\* With the same generality, and until then, a block number stands at most
\* once in the cache and the chain blocks together, and what stands there is
\* not held by any file: AllocBlock cannot hand a block out twice.
THEOREM FreeListsSound == Spec => []ListsHoldFreeBlocks
<1>1. SoundSoFar => ListsHoldFreeBlocks
  BY DEF SoundSoFar, ListInv, ListsSound, ListsHoldFreeBlocks
<1> QED
  BY <1>1, SoundSoFarAlways, PTL

-----------------------------------------------------------------------------
\* AllocBlock takes one free block, or drops it, and may drop another.
Takes(b) == used' = used \cup {b}
            /\ (lost' = lost \/ \E c \in Free \ {b} : lost' = lost \cup {c})
Drops(b) == used' = used
            /\ (lost' = lost \cup {b} \/ \E c \in Free \ {b} : lost' = lost \cup {b} \cup {c})

LEMMA AllocEffect ==
    ASSUME ListInv, ListAlloc
    PROVE  /\ totalFreeBlock' = Decrement(totalFreeBlock)
           /\ \E b \in Free : Takes(b) \/ Drops(b)
<1>1. PICK list, taken : \E writeOk \in BOOLEAN :
         /\ AllocStep(list, taken, writeOk)
         /\ taken \in Free
         /\ list # <<>> => taken # Last(freeBlock)
  BY AllocTakesFree
<1>2. PICK writeOk \in BOOLEAN : AllocStep(list, taken, writeOk)
  BY <1>1
<1>3. Last(freeBlock) \in Free /\ totalFreeBlock' = Decrement(totalFreeBlock)
  BY AllocTakesFree
<1>4. CASE writeOk
  BY <1>1, <1>2, <1>3, <1>4 DEF AllocStep, Takes
<1>5. CASE ~writeOk
  BY <1>1, <1>2, <1>3, <1>5 DEF AllocStep, Drops
<1> QED
  BY <1>1, <1>3, <1>4, <1>5

\* The number of data blocks, and the sets of them whose sizes are compared.
LEMMA FiniteBlocks ==
    /\ IsFiniteSet(DataBlocks)
    /\ Cardinality(DataBlocks) = VolumeSize - DataBlockStart
    /\ \A S \in SUBSET DataBlocks :
          IsFiniteSet(S) /\ Cardinality(S) \in Nat /\ Cardinality(S) <= Cardinality(DataBlocks)
<1>1. DataBlockStart \in Int /\ VolumeSize - 1 \in Int /\ ~(DataBlockStart > VolumeSize - 1)
  BY GeometryAssumption
<1>2. /\ IsFiniteSet(DataBlocks)
      /\ Cardinality(DataBlocks) = VolumeSize - DataBlockStart
  BY <1>1, FS_Interval, GeometryAssumption DEF DataBlocks
<1> QED
  BY <1>2, FS_Subset, FS_CardinalityType

\* Moving one block out of a set of data blocks, or into it.
LEMMA OneBlock ==
    ASSUME NEW S \in SUBSET DataBlocks, NEW b \in DataBlocks
    PROVE  /\ Cardinality(S) \in Nat
           /\ b \in S => Cardinality(S) >= 1 /\ Cardinality(S \ {b}) = Cardinality(S) - 1
           /\ b \notin S => Cardinality(S \cup {b}) = Cardinality(S) + 1
           /\ \A T \in SUBSET S : Cardinality(T) \in Nat /\ Cardinality(T) <= Cardinality(S)
<1>1. IsFiniteSet(S) /\ Cardinality(S) \in Nat
  BY FiniteBlocks
<1>2. \A T \in SUBSET S : Cardinality(T) \in Nat /\ Cardinality(T) <= Cardinality(S)
  BY <1>1, FS_Subset, FS_CardinalityType
<1>3. b \in S => Cardinality(S \ {b}) = Cardinality(S) - 1 /\ Cardinality(S \ {b}) \in Nat
  BY <1>1, <1>2, FS_RemoveElement
<1>4. b \notin S => Cardinality(S \cup {b}) = Cardinality(S) + 1
  BY <1>1, FS_AddElement
<1> QED
  BY <1>1, <1>2, <1>3, <1>4

LEMMA CountAlloc ==
    ASSUME ListInv, Bracketed, ListAlloc
    PROVE  Bracketed' /\ totalFreeBlock' = totalFreeBlock - 1
<1>1. PICK b \in Free : Takes(b) \/ Drops(b)
  BY AllocEffect
<1>2. /\ used \in SUBSET DataBlocks /\ Free \in SUBSET DataBlocks /\ b \in DataBlocks
      /\ totalFreeBlock \in Nat
  BY DataSectors DEF ListInv, ListTyped
<1>3. /\ Cardinality(Free) \in Nat /\ Cardinality(Free) >= 1
      /\ Cardinality(Free \ {b}) = Cardinality(Free) - 1
  BY <1>2, OneBlock
<1>4. totalFreeBlock' = totalFreeBlock - 1
  BY <1>2, <1>3, AllocEffect DEF Decrement, Bracketed
<1>5. Cardinality(Free') <= Cardinality(Free) - 1 /\ Cardinality(Free') \in Nat
  <2>1. Free' \in SUBSET (Free \ {b})
    BY <1>1 DEF Free, Takes, Drops
  <2>2. Free \ {b} \in SUBSET DataBlocks
    BY <1>2
  <2> QED
    BY <1>2, <1>3, <2>1, <2>2, OneBlock
<1>6. /\ Cardinality(used) \in Nat /\ Cardinality(used') \in Nat
      /\ Cardinality(used') <= Cardinality(used) + 1
  <2>1. Cardinality(used \cup {b}) = Cardinality(used) + 1 /\ Cardinality(used) \in Nat
    BY <1>2, OneBlock DEF Free
  <2>2. used' = used \/ used' = used \cup {b}
    BY <1>1 DEF Takes, Drops
  <2>3. CASE used' = used
    <3>1. Cardinality(used') = Cardinality(used)
      BY <2>3
    <3> QED
      BY <2>1, <3>1
  <2>4. CASE used' = used \cup {b}
    <3>1. Cardinality(used') = Cardinality(used) + 1
      BY <2>1, <2>4
    <3> QED
      BY <2>1, <3>1
  <2> QED
    BY <2>2, <2>3, <2>4
<1>7. Cardinality(DataBlocks) \in Nat /\ DataBlocks' = DataBlocks
  BY FiniteBlocks DEF DataBlocks
<1> QED
  BY <1>2, <1>3, <1>4, <1>5, <1>6, <1>7 DEF Bracketed

LEMMA CountFree ==
    ASSUME ListInv, Bracketed, NEW b \in used, ListFree(b)
    PROVE  Bracketed' /\ totalFreeBlock' = totalFreeBlock + 1
<1>1. /\ used \in SUBSET DataBlocks /\ Free \in SUBSET DataBlocks /\ b \in DataBlocks
      /\ b \notin lost /\ b \notin Free /\ totalFreeBlock \in Nat
      /\ used' = used \ {b} /\ lost' = lost /\ totalFreeBlock' = Increment(totalFreeBlock)
  BY DataSectors DEF ListInv, ListTyped, UsedBlocksInert, ListFree, FreeBlock, Free
<1>2. Free' = Free \cup {b}
  BY <1>1 DEF Free
<1>3. /\ Cardinality(used) \in Nat /\ Cardinality(used) >= 1
      /\ Cardinality(used') = Cardinality(used) - 1
      /\ Cardinality(Free) \in Nat /\ Cardinality(Free') = Cardinality(Free) + 1
  BY <1>1, <1>2, OneBlock
<1>4. Cardinality(DataBlocks) = VolumeSize - DataBlockStart
  BY FiniteBlocks
<1>5. totalFreeBlock' = totalFreeBlock + 1
  BY <1>1, <1>3, <1>4, GeometryAssumption DEF Increment, Bracketed
<1> QED
  BY <1>1, <1>3, <1>4, <1>5, GeometryAssumption DEF Bracketed

LEMMA CountRoot ==
    ASSUME ListInv, Bracketed, ListCreateRoot
    PROVE  /\ Bracketed' /\ totalFreeBlock' = totalFreeBlock - 1
           /\ used = {} /\ lost' = lost
           /\ \E b \in Free : used' = {b}
<1> DEFINE b == Last(freeBlock)
<1>1. /\ used = {} /\ lost = {} /\ lost' = lost /\ used' = {b}
      /\ totalFreeBlock' = Decrement(totalFreeBlock)
      /\ freeBlock # <<>> /\ freeBlock \in Seq(Nat)
  BY GeometryAssumption DEF ListCreateRoot, CreateRootDir, ListInv, Formatting, ListTyped
<1>2. b \in Free
  BY <1>1, FrontEntries DEF ListInv, ListsSound, SoundLists, Within
<1>3. /\ used \in SUBSET DataBlocks /\ Free \in SUBSET DataBlocks /\ b \in DataBlocks
      /\ b \notin used /\ totalFreeBlock \in Nat /\ used' = used \cup {b}
  BY <1>1, <1>2, DataSectors DEF ListInv, ListTyped, Free
<1>4. Free' = Free \ {b}
  BY <1>1 DEF Free
<1>5. /\ Cardinality(Free) \in Nat /\ Cardinality(Free) >= 1
      /\ Cardinality(Free') = Cardinality(Free) - 1
      /\ Cardinality(used) \in Nat /\ Cardinality(used') = Cardinality(used) + 1
  BY <1>2, <1>3, <1>4, OneBlock
<1>6. totalFreeBlock' = totalFreeBlock - 1
  BY <1>1, <1>3, <1>5 DEF Decrement, Bracketed
<1>7. Cardinality(DataBlocks) \in Nat
  BY FiniteBlocks
<1> QED
  BY <1>1, <1>2, <1>3, <1>5, <1>6, <1>7 DEF Bracketed

LEMMA CountInit == Init => Bracketed
<1> SUFFICES ASSUME Init PROVE Bracketed
  OBVIOUS
<1>1. Free = DataBlocks /\ used = {}
  BY DEF Init, Free
<1>2. Cardinality(used) = 0
  BY <1>1, FS_EmptySet
<1> QED
  BY <1>1, <1>2, FiniteBlocks, GeometryAssumption DEF Init, Bracketed

\* The steps of the list that move no block leave the pool alone.
LEMMA OtherSteps ==
    ASSUME ListStep, ~ListAlloc, ~ListCreateRoot, ~(\E b \in used : ListFree(b))
    PROVE  UNCHANGED <<used, lost, totalFreeBlock>>
  BY DEF ListStep, ListFillCache, FillCache, ListFillChain, FillChain, ListWrite, WriteData,
         vars, histVars

LEMMA CountNext ==
    ListInv /\ Bracketed /\ ListStep => Bracketed'
<1> SUFFICES ASSUME ListInv, Bracketed, ListStep PROVE Bracketed'
  OBVIOUS
<1>1. CASE ListAlloc
  BY <1>1, CountAlloc
<1>2. CASE ListCreateRoot
  BY <1>2, CountRoot
<1>3. CASE \E b \in used : ListFree(b)
  BY <1>3, CountFree
<1>4. CASE UNCHANGED <<used, lost, totalFreeBlock>>
  BY <1>4 DEF Bracketed, Free
<1> QED
  BY <1>1, <1>2, <1>3, <1>4, OtherSteps

\* The lists and the count, until the lists go astray.
CountSoFar == SoundSoFar /\ (astray \/ Bracketed)

LEMMA CountAlways == Spec => []CountSoFar
<1>1. Init => CountSoFar
  BY SoundSoFarInit, CountInit DEF CountSoFar
<1>2. CountSoFar /\ [Next]_vars => CountSoFar'
  <2> SUFFICES ASSUME CountSoFar, [Next]_vars PROVE CountSoFar'
    OBVIOUS
  <2>1. SoundSoFar' /\ (astray => astray') /\ astray' \in BOOLEAN
    BY SoundSoFarNext, AstrayStays DEF CountSoFar, SoundSoFar
  <2>2. ASSUME ~astray' PROVE Bracketed'
    <3>1. ListInv /\ DiskTyped /\ Bracketed
      BY <2>1, <2>2 DEF CountSoFar, SoundSoFar
    <3> QED
      BY <2>2, <3>1, OnLists, CountNext
  <2> QED
    BY <2>1, <2>2 DEF CountSoFar
<1> QED
  BY <1>1, <1>2, PTL DEF Spec

\* For every geometry, every pattern of faults and whatever the callers
\* write, until the list goes astray: TotalFreeBlock never reports fewer
\* blocks than are free, nor more than are not in use.
THEOREM FreeCountBracketed == Spec => []CountBracket
<1>1. CountSoFar => CountBracket
  BY DEF CountSoFar, CountBracket
<1> QED
  BY <1>1, CountAlways, PTL

-----------------------------------------------------------------------------
LEMMA PoolInit == Init => Pool!Init
<1> SUFFICES ASSUME Init PROVE Pool!Init
  OBVIOUS
<1>1. Pool!Cardinality(DataBlocks) = Cardinality(DataBlocks)
  BY Zenon DEF Pool!Cardinality, Cardinality
<1> QED
  BY <1>1, FiniteBlocks DEF Init, Pool!Init

LEMMA PoolNext ==
    ASSUME ListInv, Bracketed, ListStep
    PROVE  Pool!Next \/ UNCHANGED <<used, lost, totalFreeBlock>>
<1>1. Pool!Available = Free
  BY DEF Pool!Available, Free
<1>2. CASE ListAlloc
  <2>1. PICK b \in Free : Takes(b) \/ Drops(b)
    BY <1>2, AllocEffect
  <2>2. totalFreeBlock' = totalFreeBlock - 1
    BY <1>2, CountAlloc
  <2>3. CASE Takes(b)
    <3>1. Pool!GoneWith({b}, {})
      BY <1>1, <2>3 DEF Takes, Pool!GoneWith
    <3>2. Pool!Take
      BY <1>1, <2>2, <2>3, <3>1 DEF Takes, Pool!Take
    <3> QED
      BY <3>2 DEF Pool!Next
  <2>4. CASE Drops(b)
    <3>1. Pool!GoneWith({b}, {b})
      BY <1>1, <2>4 DEF Drops, Pool!GoneWith
    <3>2. Pool!Drop
      BY <1>1, <2>2, <2>4, <3>1 DEF Drops, Pool!Drop
    <3> QED
      BY <3>2 DEF Pool!Next
  <2> QED
    BY <2>1, <2>3, <2>4
<1>3. CASE ListCreateRoot
  <2>1. PICK b \in Free : used' = {b}
    BY <1>3, CountRoot
  <2>2. totalFreeBlock' = totalFreeBlock - 1 /\ used = {} /\ lost' = lost
    BY <1>3, CountRoot
  <2>3. Pool!GoneWith({b}, {})
    BY <2>2 DEF Pool!GoneWith
  <2>4. Pool!Take
    BY <1>1, <2>1, <2>2, <2>3 DEF Pool!Take
  <2> QED
    BY <2>4 DEF Pool!Next
<1>4. CASE \E b \in used : ListFree(b)
  <2>1. PICK b \in used : ListFree(b)
    BY <1>4
  <2>2. totalFreeBlock' = totalFreeBlock + 1
    BY <2>1, CountFree
  <2>3. used' = used \ {b} /\ lost' = lost
    BY <2>1 DEF ListFree, FreeBlock
  <2>4. Pool!Give
    BY <2>2, <2>3 DEF Pool!Give
  <2> QED
    BY <2>4 DEF Pool!Next
<1>5. CASE UNCHANGED <<used, lost, totalFreeBlock>>
  BY <1>5
<1> QED
  BY <1>2, <1>3, <1>4, <1>5, OtherSteps

\* For every geometry, every pattern of faults and whatever the callers
\* write, Create, AllocBlock and FreeBlock implement the pool of blocks up to
\* the step, if any, in which the list goes astray: whatever is handed out was
\* available, and TotalFreeBlock moves by one with every allocation, failed
\* or not, and every release.
THEOREM FreeListImplementsPool == Spec => ImplementsPool
<1>1. Init => Pool!Init
  BY PoolInit
<1>2. CountSoFar /\ [Next]_vars => [Pool!Next \/ astray']_<<used, lost, totalFreeBlock>>
  <2> SUFFICES ASSUME CountSoFar, [Next]_vars, ~astray'
               PROVE  Pool!Next \/ UNCHANGED <<used, lost, totalFreeBlock>>
    OBVIOUS
  <2>1. astray => astray'
    BY AstrayStays DEF CountSoFar, SoundSoFar
  <2>2. ListInv /\ DiskTyped /\ Bracketed
    BY <2>1 DEF CountSoFar, SoundSoFar
  <2> QED
    BY <2>2, OnLists, PoolNext
<1> QED
  BY <1>1, <1>2, CountAlways, PTL DEF Spec, ImplementsPool

-----------------------------------------------------------------------------
(* ListAlloc says "no free blocks" only when none is free.  A free block  *)
(* is reached over a chain of sectors, so the claim calls for an induction *)
(* over that chain.  The inductive invariant carries the chain itself      *)
(* instead, as a function st on 1 .. n, and every step of the allocator    *)
(* pops, pushes or appends one sector of it.                               *)

\* The chain blocks of S are st[1] .. st[n], in the order in which they will
\* be reloaded: the first is the oldest entry of the cache, each other one
\* the first of two or more entries of the one before it.
Linked(n, st, cache, d, S) ==
    /\ n > 0 => cache # <<>> /\ cache[1] = st[1]
    /\ \A i \in 1 .. n : st[i] \in Chains(d, S)
    /\ \A i \in 1 .. (n - 1) : Len(d[st[i]]) >= 2 /\ d[st[i]][1] = st[i + 1]
    /\ \A c \in Chains(d, S) : \E i \in 1 .. n : c = st[i]

\* b stands in the cache or in a chain block of S.
Listed(b, cache, d, S) ==
    \/ \E i \in DOMAIN cache : cache[i] = b
    \/ \E c \in Chains(d, S) : \E i \in DOMAIN d[c] : d[c][i] = b

\* Every block of S can be handed out without another one being given back.
Reachable(cache, d, S) ==
    /\ \E n \in Nat : \E st : Linked(n, st, cache, d, S)
    /\ \A b \in S : Listed(b, cache, d, S)

\* While Create runs, chainSector is where the chain goes on, and what lies
\* below block is listed or in the chain block being filled.
Extending(n, st) ==
    /\ Linked(n, st, freeBlock, Lists, Free)
    /\ n > 0 => Len(freeBlock) = MaxFreeBlock
    /\ block < VolumeSize =>
          /\ chainSector \notin Chains(Lists, Free)
          /\ n = 0 => chainSector = DataBlockStart
          /\ n > 0 => Len(Lists[st[n]]) >= 2 /\ chainSector = Lists[st[n]][1]
    /\ freeBlock # <<>> => freeBlock[1] = DataBlockStart
    /\ Len(freeBlock) < MaxFreeBlock \/ block = VolumeSize => chain = <<>>
    /\ \A b \in Free : b < block =>
          Listed(b, freeBlock, Lists, Free) \/ \E i \in DOMAIN chain : chain[i] = b

ReachInv ==
    /\ phase = "format" => \E n \in Nat : \E st : Extending(n, st)
    /\ phase = "ready" /\ misread = 0 => Reachable(freeBlock, Lists, Free)

-----------------------------------------------------------------------------
\* A chain block is the oldest entry of the cache or of one other chain block.
LEMMA WhereChainStands ==
    ASSUME NEW n \in Nat, NEW st, NEW cache, NEW d, NEW S,
           Linked(n, st, cache, d, S), NEW c \in Chains(d, S)
    PROVE  \/ n > 0 /\ cache # <<>> /\ c = cache[1] /\ c = st[1]
           \/ \E i \in 1 .. (n - 1) : /\ st[i] \in Chains(d, S) /\ c = d[st[i]][1]
                                      /\ Len(d[st[i]]) >= 2
<1>1. PICK i \in 1 .. n : c = st[i]
  BY DEF Linked
<1>2. CASE i = 1
  BY <1>1, <1>2 DEF Linked
<1>3. CASE i # 1
  <2>1. i - 1 \in 1 .. (n - 1) /\ i - 1 \in 1 .. n /\ (i - 1) + 1 = i
    BY <1>1, <1>3
  <2> QED
    BY <1>1, <2>1 DEF Linked
<1> QED
  BY <1>2, <1>3

\* AllocBlock makes a list of every sector of S.
Readable(d, S) == \A s \in S : d[s] \in Seq(Nat)

\* A chain block in the cache is its oldest entry.
LEMMA ChainAtBottom ==
    ASSUME NEW n \in Nat, NEW st, NEW cache \in Seq(Nat), NEW d, NEW S,
           Linked(n, st, cache, d, S), SoundLists(cache, d, S),
           Readable(d, S), NEW c \in Chains(d, S)
    PROVE  \A j \in DOMAIN cache : c = cache[j] => j = 1 /\ n > 0 /\ c = st[1]
<1> SUFFICES ASSUME NEW j \in DOMAIN cache, c = cache[j]
             PROVE  j = 1 /\ n > 0 /\ c = st[1]
  OBVIOUS
<1>1. ASSUME NEW i \in 1 .. (n - 1), st[i] \in Chains(d, S), c = d[st[i]][1],
             Len(d[st[i]]) >= 2
      PROVE  FALSE
  <2>1. Disjoint(d[st[i]], cache)
    BY <1>1 DEF SoundLists
  <2>2. 1 \in DOMAIN d[st[i]]
    BY <1>1 DEF Chains, Readable
  <2> QED
    BY <1>1, <2>1, <2>2 DEF Disjoint
<1>2. n > 0 /\ c = cache[1] /\ c = st[1] /\ cache # <<>>
  BY <1>1, WhereChainStands
<1>3. 1 \in DOMAIN cache
  BY <1>2
<1> QED
  BY <1>2, <1>3 DEF SoundLists, Distinct

\* Popping a block that is no chain block leaves the others reachable.
LEMMA PopReachable ==
    ASSUME NEW cache \in Seq(Nat), cache # <<>>, NEW S, NEW d, NEW e,
           NEW n \in Nat, NEW st,
           Linked(n, st, cache, d, S), \A b \in S : Listed(b, cache, d, S),
           NEW t, t = Last(cache), t \notin Chains(d, S),
           \A s \in S \ {t} : e[s] = d[s]
    PROVE  Reachable(Front(cache), e, S \ {t})
<1> DEFINE U == S \ {t}
<1>1. /\ Len(cache) \in Nat /\ Len(cache) \in DOMAIN cache /\ DOMAIN cache = 1 .. Len(cache)
      /\ t = cache[Len(cache)] /\ Front(cache) \in Seq(Nat)
      /\ DOMAIN Front(cache) = 1 .. (Len(cache) - 1) /\ Len(Front(cache)) = Len(cache) - 1
      /\ \A i \in 1 .. (Len(cache) - 1) : Front(cache)[i] = cache[i]
  BY FrontEntries
<1>2. Chains(e, U) = Chains(d, S) /\ \A c \in Chains(d, S) : e[c] = d[c]
  BY DEF Chains
<1>3. Linked(n, st, Front(cache), e, U)
  <2>1. ASSUME n > 0
        PROVE  Front(cache) # <<>> /\ Front(cache)[1] = st[1]
    <3>1. cache[1] = st[1] /\ 1 \in 1 .. n
      BY <2>1 DEF Linked
    <3>2. st[1] \in Chains(d, S)
      BY <3>1 DEF Linked
    <3>3. Len(cache) # 1
      BY <1>1, <3>1, <3>2
    <3>4. 1 \in 1 .. (Len(cache) - 1)
      BY <1>1, <3>3
    <3> QED
      BY <1>1, <3>1, <3>4
  <2>2. \A i \in 1 .. n : st[i] \in Chains(d, S)
    BY DEF Linked
  <2>3. ASSUME NEW i \in 1 .. (n - 1)
        PROVE  Len(e[st[i]]) >= 2 /\ e[st[i]][1] = st[i + 1]
    <3>1. st[i] \in Chains(d, S)
      BY <2>2
    <3> QED
      BY <1>2, <3>1 DEF Linked
  <2>4. \A c \in Chains(d, S) : \E i \in 1 .. n : c = st[i]
    BY DEF Linked
  <2> QED
    BY <1>2, <2>1, <2>2, <2>3, <2>4 DEF Linked
<1>4. ASSUME NEW b \in U
      PROVE  Listed(b, Front(cache), e, U)
  <2>1. CASE \E i \in DOMAIN cache : cache[i] = b
    <3>1. PICK i \in DOMAIN cache : cache[i] = b
      BY <2>1
    <3>2. i \in DOMAIN Front(cache) /\ Front(cache)[i] = b
      BY <1>1, <3>1
    <3> QED
      BY <3>2 DEF Listed
  <2>2. CASE \E c \in Chains(d, S) : \E i \in DOMAIN d[c] : d[c][i] = b
    BY <1>2, <2>2 DEF Listed
  <2> QED
    BY <2>1, <2>2 DEF Listed
<1> QED
  BY <1>3, <1>4 DEF Reachable

\* b alone is in the cache and is the chain block to reload; l is its list,
\* t the last entry of l; e differs from d on S at most in t.
Reloading(n, st, cache, S, d, e, b, l, t) ==
    /\ n \in Nat /\ Linked(n, st, cache, d, S) /\ \A s \in S : Listed(s, cache, d, S)
    /\ SoundLists(cache, d, S) /\ Readable(d, S)
    /\ cache \in Seq(Nat) /\ Len(cache) = 1 /\ cache[1] = b /\ b \in S
    /\ l = d[b] /\ l \in Seq(Nat) /\ l # <<>> /\ t = Last(l)
    /\ \A s \in S \ {t} : e[s] = d[s]

\* Reloading takes the chain block off the front of the chain.
LEMMA ReloadReachable ==
    ASSUME NEW n, NEW st, NEW cache, NEW S, NEW d, NEW e, NEW b, NEW l, NEW t,
           Reloading(n, st, cache, S, d, e, b, l, t)
    PROVE  Reachable(Front(l), e, S \ {b, t})
<1> DEFINE U  == S \ {b, t}
           up == [i \in 1 .. (n - 1) |-> st[i + 1]]
<1>0. /\ n \in Nat /\ Linked(n, st, cache, d, S) /\ SoundLists(cache, d, S)
      /\ Readable(d, S) /\ \A s \in S : d[s] \in Seq(Nat) /\ Listed(s, cache, d, S)
      /\ cache \in Seq(Nat) /\ DOMAIN cache = {1} /\ cache[1] = b /\ b \in S
      /\ l = d[b] /\ l \in Seq(Nat) /\ l # <<>> /\ t = Last(l)
      /\ \A s \in S \ {t} : e[s] = d[s]
  BY DEF Reloading, Readable
<1>1. /\ Len(l) \in Nat /\ Len(l) \in DOMAIN l /\ DOMAIN l = 1 .. Len(l)
      /\ t = l[Len(l)] /\ Front(l) \in Seq(Nat)
      /\ DOMAIN Front(l) = 1 .. (Len(l) - 1) /\ Len(Front(l)) = Len(l) - 1
      /\ \A i \in 1 .. (Len(l) - 1) : Front(l)[i] = l[i]
  <2>1. l \in Seq(Nat) /\ l # <<>> /\ t = Last(l)
    BY <1>0
  <2> QED
    BY <2>1, FrontEntries
<1>2. b \in Chains(d, S)
  BY <1>0 DEF Chains
<1>3. n > 0 /\ b = st[1]
  <2>1. 1 \in DOMAIN cache /\ b = cache[1]
    BY <1>0
  <2>2. /\ n \in Nat /\ Linked(n, st, cache, d, S) /\ SoundLists(cache, d, S)
        /\ cache \in Seq(Nat) /\ Readable(d, S)
    BY <1>0
  <2> QED
    BY <1>2, <2>1, <2>2, ChainAtBottom
<1>4. Distinct(l) /\ Disjoint(l, cache)
  BY <1>0, <1>2 DEF SoundLists
<1>5. t \notin Chains(d, S)
  <2> SUFFICES ASSUME t \in Chains(d, S) PROVE FALSE
    OBVIOUS
  <2>1. t # cache[1]
    <3>1. 1 \in DOMAIN cache
      BY <1>0
    <3> QED
      BY <1>1, <1>4, <3>1 DEF Disjoint
  <2>2. PICK i \in 1 .. (n - 1) : st[i] \in Chains(d, S) /\ t = d[st[i]][1] /\ Len(d[st[i]]) >= 2
    BY <1>0, <2>1, WhereChainStands
  <2>3. d[st[i]] \in Seq(Nat) /\ 1 \in DOMAIN d[st[i]]
    BY <1>0, <2>2 DEF Chains
  <2>4. CASE st[i] = b
    <3>1. Len(l) >= 2 /\ l[1] = l[Len(l)] /\ 1 \in DOMAIN l
      BY <1>0, <1>1, <2>2, <2>3, <2>4
    <3> QED
      BY <1>1, <1>4, <3>1 DEF Distinct
  <2>5. CASE st[i] # b
    <3>1. Disjoint(l, d[st[i]])
      BY <1>0, <1>2, <2>2, <2>5 DEF SoundLists
    <3> QED
      BY <1>1, <2>2, <2>3, <3>1 DEF Disjoint
  <2> QED
    BY <2>4, <2>5
<1>6. /\ Chains(e, U) = Chains(d, S) \ {b}
      /\ \A c \in Chains(e, U) : e[c] = d[c]
  BY <1>0, <1>5 DEF Chains
<1>7. ASSUME NEW i \in 1 .. (n - 1)
      PROVE  /\ up[i] = st[i + 1] /\ i + 1 \in 1 .. n /\ i \in 1 .. n
             /\ up[i] \in Chains(e, U) /\ Len(d[st[i]]) >= 2 /\ d[st[i]][1] = st[i + 1]
  <2>1. up[i] = st[i + 1] /\ i + 1 \in 1 .. n /\ i \in 1 .. n
    BY <1>0
  <2>2. /\ st[i + 1] \in Chains(d, S) /\ st[i] \in Chains(d, S)
        /\ Len(d[st[i]]) >= 2 /\ d[st[i]][1] = st[i + 1]
    BY <1>0, <2>1 DEF Linked
  <2>3. 1 \in DOMAIN d[st[i]] /\ Disjoint(d[st[i]], cache)
    BY <1>0, <2>2 DEF Chains, SoundLists
  <2>4. st[i + 1] # b
    BY <1>0, <2>2, <2>3 DEF Disjoint
  <2> QED
    BY <1>6, <2>1, <2>2, <2>4
<1>8. Linked(n - 1, up, Front(l), e, U)
  <2>1. ASSUME n - 1 > 0
        PROVE  Front(l) # <<>> /\ Front(l)[1] = up[1]
    <3>1. 1 \in 1 .. (n - 1)
      BY <1>0, <2>1
    <3>2. Len(l) >= 2 /\ l[1] = st[2] /\ up[1] = st[2]
      BY <1>0, <1>3, <1>7, <3>1
    <3>3. 1 \in 1 .. (Len(l) - 1)
      BY <1>1, <3>2
    <3> QED
      BY <1>1, <3>2, <3>3
  <2>2. ASSUME NEW i \in 1 .. ((n - 1) - 1)
        PROVE  Len(e[up[i]]) >= 2 /\ e[up[i]][1] = up[i + 1]
    <3>1. i \in 1 .. (n - 1) /\ i + 1 \in 1 .. (n - 1)
      BY <1>0
    <3>2. up[i] = st[i + 1] /\ up[i + 1] = st[(i + 1) + 1] /\ up[i] \in Chains(e, U)
      BY <1>7, <3>1
    <3>3. Len(d[st[i + 1]]) >= 2 /\ d[st[i + 1]][1] = st[(i + 1) + 1]
      BY <1>7, <3>1
    <3> QED
      BY <1>6, <3>2, <3>3
  <2>3. ASSUME NEW c \in Chains(e, U)
        PROVE  \E i \in 1 .. (n - 1) : c = up[i]
    <3>1. c \in Chains(d, S) /\ c # b
      BY <1>6
    <3>2. PICK i \in 1 .. n : c = st[i]
      BY <1>0, <3>1 DEF Linked
    <3>3. i - 1 \in 1 .. (n - 1) /\ (i - 1) + 1 = i
      BY <1>0, <1>3, <3>1, <3>2
    <3> QED
      BY <3>2, <3>3
  <2> QED
    BY <1>7, <2>1, <2>2, <2>3 DEF Linked
<1>9. ASSUME NEW s \in U
      PROVE  Listed(s, Front(l), e, U)
  <2>1. PICK c \in Chains(d, S) : \E i \in DOMAIN d[c] : d[c][i] = s
    <3>1. Listed(s, cache, d, S) /\ s # cache[1]
      BY <1>0
    <3> QED
      BY <1>0, <3>1 DEF Listed
  <2>2. CASE c = b
    <3>1. PICK i \in DOMAIN l : l[i] = s
      BY <1>0, <2>1, <2>2
    <3>2. i # Len(l)
      BY <1>1, <3>1
    <3>3. i \in DOMAIN Front(l) /\ Front(l)[i] = s
      BY <1>1, <3>1, <3>2
    <3> QED
      BY <3>3 DEF Listed
  <2>3. CASE c # b
    BY <1>6, <2>1, <2>3 DEF Listed
  <2> QED
    BY <2>2, <2>3
<1>10. n - 1 \in Nat
  BY <1>0, <1>3
<1> QED
  BY <1>8, <1>9, <1>10 DEF Reachable

\* A freed block pushed on the cache is reachable.
LEMMA PushReachable ==
    ASSUME NEW cache \in Seq(Nat), NEW S, NEW d, NEW e, NEW b \in Nat, b \notin S,
           Reachable(cache, d, S), e[b] = <<>>, \A s \in S : e[s] = d[s]
    PROVE  Reachable(Append(cache, b), e, S \cup {b})
<1> DEFINE T == S \cup {b}
           more == Append(cache, b)
<1>1. PICK n \in Nat : \E st : Linked(n, st, cache, d, S)
  BY DEF Reachable
<1>2. PICK st : Linked(n, st, cache, d, S)
  BY <1>1
<1>3. Chains(e, T) = Chains(d, S) /\ \A c \in Chains(d, S) : e[c] = d[c]
  BY DEF Chains
<1>4. /\ DOMAIN more = 1 .. (Len(cache) + 1) /\ DOMAIN cache = 1 .. Len(cache)
      /\ more[Len(cache) + 1] = b /\ \A i \in 1 .. Len(cache) : more[i] = cache[i]
      /\ Len(cache) \in Nat /\ more # <<>>
  BY AppendEntries
<1>5. cache # <<>> => more[1] = cache[1]
  BY <1>4
<1>6. Linked(n, st, more, e, T)
  <2>1. ASSUME NEW i \in 1 .. (n - 1)
        PROVE  Len(e[st[i]]) >= 2 /\ e[st[i]][1] = st[i + 1]
    <3>1. st[i] \in Chains(d, S)
      BY <1>2 DEF Linked
    <3> QED
      BY <1>2, <1>3, <3>1 DEF Linked
  <2> QED
    BY <1>2, <1>3, <1>4, <1>5, <2>1 DEF Linked
<1>7. ASSUME NEW s \in T
      PROVE  Listed(s, more, e, T)
  <2>1. CASE s = b
    BY <1>4, <2>1 DEF Listed
  <2>2. CASE s # b
    <3>1. Listed(s, cache, d, S)
      BY <2>2 DEF Reachable
    <3> QED
      BY <1>3, <1>4, <3>1 DEF Listed
  <2> QED
    BY <2>1, <2>2
<1> QED
  BY <1>6, <1>7 DEF Reachable

\* Spilling a cache of two or more entries puts a chain block in front.
LEMMA SpillReachable ==
    ASSUME NEW cache \in Seq(Nat), Len(cache) >= 2, NEW S, NEW d, NEW e,
           NEW b, b \notin S,
           Reachable(cache, d, S), e[b] = cache, \A s \in S : e[s] = d[s]
    PROVE  Reachable(<<b>>, e, S \cup {b})
<1> DEFINE T == S \cup {b}
<1>1. PICK n \in Nat : \E st : Linked(n, st, cache, d, S)
  BY DEF Reachable
<1>2. PICK st : Linked(n, st, cache, d, S)
  BY <1>1
<1> DEFINE up == [i \in 1 .. (n + 1) |-> IF i = 1 THEN b ELSE st[i - 1]]
<1>3. /\ Chains(e, T) = Chains(d, S) \cup {b}
      /\ \A c \in Chains(d, S) : e[c] = d[c] /\ c # b
  BY DEF Chains
<1>4. /\ \A i \in 1 .. n : up[i + 1] = st[i] /\ st[i] \in Chains(d, S)
      /\ up[1] = b
  BY <1>2 DEF Linked
<1>5. Linked(n + 1, up, <<b>>, e, T)
  <2>1. ASSUME NEW i \in 1 .. (n + 1)
        PROVE  up[i] \in Chains(e, T)
    <3>1. i = 1 \/ (i - 1 \in 1 .. n /\ (i - 1) + 1 = i)
      OBVIOUS
    <3> HIDE DEF up
    <3>2. CASE i = 1
      BY <1>3, <1>4, <3>2
    <3>3. CASE i - 1 \in 1 .. n /\ (i - 1) + 1 = i
      <4>1. up[(i - 1) + 1] \in Chains(d, S)
        BY <1>4, <3>3
      <4> QED
        BY <1>3, <3>3, <4>1
    <3> QED
      BY <3>1, <3>2, <3>3
  <2>2. ASSUME NEW i \in 1 .. ((n + 1) - 1)
        PROVE  Len(e[up[i]]) >= 2 /\ e[up[i]][1] = up[i + 1]
    <3>1. i \in 1 .. n /\ up[i + 1] = st[i]
      BY <1>4
    <3>2. CASE i = 1
      <4>1. cache[1] = st[1] /\ up[1] = b
        BY <1>2, <1>4, <3>1, <3>2 DEF Linked
      <4> QED
        BY <3>1, <3>2, <4>1
    <3>3. CASE i # 1
      <4>1. i - 1 \in 1 .. (n - 1) /\ i - 1 \in 1 .. n /\ (i - 1) + 1 = i
        <5>1. i \in 1 .. n /\ i # 1 /\ n \in Nat
          BY <3>1, <3>3
        <5> QED
          BY <5>1
      <4>2. up[i] = st[i - 1] /\ st[i - 1] \in Chains(d, S)
        BY <1>4, <4>1
      <4>3. Len(d[st[i - 1]]) >= 2 /\ d[st[i - 1]][1] = st[(i - 1) + 1]
        BY <1>2, <4>1 DEF Linked
      <4> QED
        BY <1>3, <3>1, <4>1, <4>2, <4>3
    <3> QED
      BY <3>2, <3>3
  <2>3. ASSUME NEW c \in Chains(e, T)
        PROVE  \E i \in 1 .. (n + 1) : c = up[i]
    <3>1. CASE c = b
      <4>1. 1 \in 1 .. (n + 1) /\ up[1] = b
        BY <1>4
      <4> QED
        BY <3>1, <4>1
    <3>2. CASE c \in Chains(d, S)
      <4>1. PICK i \in 1 .. n : c = st[i]
        BY <1>2, <3>2 DEF Linked
      <4>2. i + 1 \in 1 .. (n + 1) /\ up[i + 1] = c
        BY <1>4, <4>1
      <4> QED
        BY <4>2
    <3> QED
      BY <1>3, <3>1, <3>2
  <2>4. <<b>> # <<>> /\ <<b>>[1] = up[1]
    BY <1>4
  <2> HIDE DEF up
  <2> QED
    BY <2>1, <2>2, <2>3, <2>4 DEF Linked
<1>6. ASSUME NEW s \in T
      PROVE  Listed(s, <<b>>, e, T)
  <2>1. CASE s = b
    BY <2>1 DEF Listed
  <2>2. CASE s # b
    <3>1. Listed(s, cache, d, S)
      BY <2>2 DEF Reachable
    <3> QED
      BY <1>3, <3>1 DEF Listed
  <2> QED
    BY <2>1, <2>2
<1>7. n + 1 \in Nat
  OBVIOUS
<1> HIDE DEF up
<1> QED
  BY <1>5, <1>6, <1>7 DEF Reachable

-----------------------------------------------------------------------------
LEMMA FreeReadable == ListTyped => Readable(Lists, Free)
  BY DataSectors DEF ListTyped, Readable, Contents

LEMMA ReachInit == Init => ReachInv
<1> SUFFICES ASSUME Init PROVE ReachInv
  OBVIOUS
<1> DEFINE st == [i \in {} |-> 0]
<1> USE GeometryAssumption, MaxFreeBlockAssumption
<1>1. Chains(Lists, Free) = {} /\ phase = "format"
  BY DataSectors, ListsInit DEF Init, Chains
<1>2. Linked(0, st, freeBlock, Lists, Free)
  BY <1>1 DEF Linked
<1>3. \A b \in Free : ~(b < block)
  BY DataSectors DEF Init, DataBlocks
<1>4. Extending(0, st)
  BY <1>1, <1>2, <1>3 DEF Init, Extending
<1> QED
  BY <1>1, <1>4 DEF ReachInv

LEMMA ReachFillCache == ListInv /\ ReachInv /\ ListFillCache => ReachInv'
<1> SUFFICES ASSUME ListInv, ReachInv, ListFillCache PROVE ReachInv'
  OBVIOUS
<1> USE GeometryAssumption, MaxFreeBlockAssumption
<1>1. /\ phase = "format" /\ phase' = "format" /\ block \in DataBlocks /\ block \in Nat
      /\ Len(freeBlock) < MaxFreeBlock /\ freeBlock' = Append(freeBlock, block)
      /\ block' = block + 1 /\ block < VolumeSize
      /\ UNCHANGED <<Lists, chain, chainSector, used, lost, misread>>
      /\ freeBlock \in Seq(Nat) /\ Free' = Free /\ Chains(Lists, Free)' = Chains(Lists, Free)
  BY DEF ListFillCache, FillCache, histVars, ListInv, ListTyped, DataBlocks, Free, Chains
<1>2. PICK n \in Nat : \E st : Extending(n, st)
  BY <1>1 DEF ReachInv
<1>3. PICK st : Extending(n, st)
  BY <1>2
<1>4. /\ freeBlock' # <<>> /\ DOMAIN freeBlock' = 1 .. (Len(freeBlock) + 1)
      /\ DOMAIN freeBlock = 1 .. Len(freeBlock) /\ Len(freeBlock) \in Nat
      /\ freeBlock'[Len(freeBlock) + 1] = block
      /\ \A i \in 1 .. Len(freeBlock) : freeBlock'[i] = freeBlock[i]
      /\ Len(freeBlock') = Len(freeBlock) + 1
  BY <1>1, AppendEntries
<1>5. /\ n = 0 /\ chain = <<>> /\ chainSector = DataBlockStart
      /\ chainSector \notin Chains(Lists, Free)
  BY <1>1, <1>3 DEF Extending, ListInv, ListTyped
<1>6. freeBlock'[1] = DataBlockStart
  <2>1. CASE freeBlock = <<>>
    BY <1>1, <1>4, <2>1 DEF ListInv, Formatting
  <2>2. CASE freeBlock # <<>>
    <3>1. 1 \in 1 .. Len(freeBlock)
      BY <1>1, <2>2
    <3> QED
      BY <1>3, <1>4, <2>2, <3>1 DEF Extending
  <2> QED
    BY <2>1, <2>2
<1>7. Linked(0, st, freeBlock', Lists', Free')
  BY <1>1, <1>3, <1>5 DEF Extending, Linked
<1>8. ASSUME NEW b \in Free, b < block + 1
      PROVE  Listed(b, freeBlock', Lists, Free)
  <2>1. b \in Nat
    BY DataSectors
  <2>2. CASE b = block
    BY <1>4, <2>2 DEF Listed
  <2>3. CASE b # block
    <3>1. b < block
      BY <1>1, <1>8, <2>1, <2>3
    <3>2. Listed(b, freeBlock, Lists, Free)
      BY <1>3, <1>5, <3>1 DEF Extending
    <3> QED
      BY <1>4, <3>2 DEF Listed
  <2> QED
    BY <2>2, <2>3
<1>9. Extending(0, st)'
  BY <1>1, <1>4, <1>5, <1>6, <1>7, <1>8 DEF Extending
<1> QED
  BY <1>1, <1>9 DEF ReachInv

\* When Create is done with the lists, every data block is listed, and the
\* top of the cache, which createRootDir takes, is no chain block.
LEMMA ListsComplete ==
    ASSUME ListInv, phase = "format", block = VolumeSize, freeBlock # <<>>,
           NEW n \in Nat, NEW st, Extending(n, st)
    PROVE  /\ Linked(n, st, freeBlock, Lists, Free)
           /\ \A b \in Free : Listed(b, freeBlock, Lists, Free)
           /\ Last(freeBlock) \notin Chains(Lists, Free)
<1> USE GeometryAssumption, MaxFreeBlockAssumption
<1>1. Linked(n, st, freeBlock, Lists, Free) /\ Free = DataBlocks /\ freeBlock \in Seq(Nat)
  BY DEF Extending, ListInv, ListTyped, Formatting, Free
<1>2. \A b \in Free : Listed(b, freeBlock, Lists, Free)
  <2>1. chain = <<>> /\ DOMAIN chain = {}
    BY DEF Extending
  <2>2. \A b \in Free : b < block
    BY <1>1 DEF DataBlocks
  <2> QED
    BY <2>1, <2>2 DEF Extending
<1> DEFINE t == Last(freeBlock)
<1>3. t \notin Chains(Lists, Free)
  <2> SUFFICES ASSUME t \in Chains(Lists, Free) PROVE FALSE
    OBVIOUS
  <2>1. Len(freeBlock) \in DOMAIN freeBlock /\ t = freeBlock[Len(freeBlock)]
    BY <1>1, FrontEntries
  <2>2. Readable(Lists, Free) /\ SoundLists(freeBlock, Lists, Free)
    BY FreeReadable DEF ListInv, ListsSound
  <2>3. \A j \in DOMAIN freeBlock : t = freeBlock[j] => j = 1 /\ n > 0 /\ t = st[1]
    <3> HIDE DEF t
    <3> QED
      BY <1>1, <2>2, ChainAtBottom
  <2>4. Len(freeBlock) = 1 /\ n > 0
    BY <2>1, <2>3
  <2> QED
    BY <2>4 DEF Extending
<1> QED
  BY <1>1, <1>2, <1>3

LEMMA ReachCreateRootDir ==
    ListInv /\ ReachInv /\ ListCreateRoot => ReachInv'
<1> SUFFICES ASSUME ListInv, ReachInv, ListCreateRoot PROVE ReachInv'
  OBVIOUS
<1> USE GeometryAssumption, MaxFreeBlockAssumption
<1> DEFINE t == Last(freeBlock)
<1>1. /\ phase = "format" /\ phase' = "ready" /\ block = VolumeSize
      /\ freeBlock' = Front(freeBlock) /\ used' = {t} /\ lost' = lost
      /\ used = {} /\ lost = {} /\ Lists' = WriteList(t, <<>>)
      /\ freeBlock # <<>> /\ freeBlock \in Seq(Nat)
  BY DEF ListCreateRoot, CreateRootDir, ListInv, Formatting, ListTyped
<1>2. Free = DataBlocks /\ Free' = Free \ {t}
  BY <1>1 DEF Free
<1>3. PICK n \in Nat : \E st : Extending(n, st)
  BY <1>1 DEF ReachInv
<1>4. PICK st : Extending(n, st)
  BY <1>3
<1>5. /\ Linked(n, st, freeBlock, Lists, Free) /\ t \notin Chains(Lists, Free)
      /\ \A b \in Free : Listed(b, freeBlock, Lists, Free)
  BY <1>1, <1>4, ListsComplete
<1>6. \A s \in Free \ {t} : Lists'[s] = Lists[s]
  BY <1>1, <1>2, DataSectors DEF WriteList, ListInv, ListTyped
<1>7. Reachable(Front(freeBlock), Lists', Free \ {t})
  BY <1>1, <1>5, <1>6, PopReachable
<1> QED
  BY <1>1, <1>2, <1>7 DEF ReachInv

\* Entering block in the chain block being filled.  One that is written goes
\* to the end of the chain, and starts with where the next one will be.
LEMMA ReachFillChain == ListInv /\ ReachInv /\ ListFillChain => ReachInv'
<1> SUFFICES ASSUME ListInv, ReachInv, ListFillChain PROVE ReachInv'
  OBVIOUS
<1> DEFINE filled == Append(chain, block)
           last   == block + 1 = VolumeSize
<1> USE GeometryAssumption, MaxFreeBlockAssumption
<1>1. /\ phase = "format" /\ phase' = "format" /\ block \in DataBlocks /\ block \in Nat
      /\ block < VolumeSize /\ block' = block + 1 /\ Len(freeBlock) = MaxFreeBlock
      /\ UNCHANGED <<freeBlock, used, lost>>
      /\ chain \in Seq(Nat) /\ freeBlock \in Seq(Nat) /\ Len(chain) < MaxFreeBlock
      /\ Free = DataBlocks /\ Free' = DataBlocks /\ chainSector \in DataBlocks
      /\ DOMAIN Lists = Sectors
  BY DEF ListFillChain, FillChain, ListInv, ListTyped, Formatting, Free, DataBlocks
<1>2. PICK n \in Nat : \E st : Extending(n, st)
  BY <1>1 DEF ReachInv
<1>3. PICK st : Extending(n, st)
  BY <1>2
<1>4. /\ filled \in Seq(Nat) /\ Len(filled) = Len(chain) + 1 /\ filled # <<>>
      /\ DOMAIN filled = 1 .. (Len(chain) + 1) /\ DOMAIN chain = 1 .. Len(chain)
      /\ filled[Len(chain) + 1] = block /\ Len(chain) \in Nat
      /\ \A i \in 1 .. Len(chain) : filled[i] = chain[i]
  BY <1>1, AppendEntries
<1>5. /\ Linked(n, st, freeBlock, Lists, Free)
      /\ n = 0 => chainSector = DataBlockStart
      /\ n > 0 => Len(Lists[st[n]]) >= 2 /\ chainSector = Lists[st[n]][1]
      /\ freeBlock # <<>> /\ freeBlock[1] = DataBlockStart
      /\ chainSector \notin Chains(Lists, Free)
  BY <1>1, <1>3 DEF Extending
<1>6. ASSUME NEW b \in Free, b < block + 1
      PROVE  Listed(b, freeBlock, Lists, Free) \/ \E i \in DOMAIN filled : filled[i] = b
  <2>1. b \in Nat
    BY DataSectors
  <2>2. CASE b = block
    BY <1>4, <2>2
  <2>3. CASE b # block
    <3>1. b < block
      BY <1>1, <1>6, <2>1, <2>3
    <3>2. Listed(b, freeBlock, Lists, Free) \/ \E i \in DOMAIN chain : chain[i] = b
      BY <1>3, <3>1 DEF Extending
    <3> QED
      BY <1>4, <3>2
  <2> QED
    BY <2>2, <2>3
<1>7. CASE ~(Len(filled) = MaxFreeBlock \/ last)
  <2>1. chain' = filled /\ Lists' = Lists /\ chainSector' = chainSector
    BY <1>7 DEF ListFillChain, FillChain
  <2>2. block' # VolumeSize
    BY <1>1, <1>7
  <2>3. Extending(n, st)'
    BY <1>1, <1>3, <1>6, <2>1, <2>2 DEF Extending
  <2> QED
    BY <1>1, <2>3 DEF ReachInv
<1>8. CASE Len(filled) = MaxFreeBlock \/ last
  <2>1. /\ Lists' = WriteList(chainSector, filled) /\ chain' = <<>>
        /\ chainSector' = IF last THEN chainSector ELSE filled[1]
    BY <1>8 DEF ListFillChain, FillChain
  <2>2. Lists'[chainSector] = filled /\ \A s \in Sectors \ {chainSector} : Lists'[s] = Lists[s]
    <3> HIDE DEF filled
    <3> QED
      BY <1>1, <2>1, DataSectors DEF WriteList
  <2>3. /\ Chains(Lists', Free') = Chains(Lists, Free) \cup {chainSector}
        /\ \A c \in Chains(Lists, Free) : Lists'[c] = Lists[c] /\ c # chainSector
    <3> HIDE DEF filled
    <3> QED
      BY <1>1, <1>4, <1>5, <2>2, DataSectors DEF Chains
  <2>4. PICK down : /\ down[n + 1] = chainSector
                    /\ \A i \in 1 .. n : down[i] = st[i] /\ st[i] \in Chains(Lists, Free)
    <3> DEFINE d == [i \in 1 .. (n + 1) |-> IF i = n + 1 THEN chainSector ELSE st[i]]
    <3>1. /\ d[n + 1] = chainSector
          /\ \A i \in 1 .. n : d[i] = st[i] /\ st[i] \in Chains(Lists, Free)
      BY <1>5 DEF Linked
    <3> QED
      BY <3>1
  <2> HIDE DEF filled
  <2>5. Linked(n + 1, down, freeBlock', Lists', Free')
    <3>1. freeBlock' # <<>> /\ freeBlock'[1] = down[1]
      <4>1. CASE n = 0
        BY <1>1, <1>5, <2>4, <4>1
      <4>2. CASE n > 0
        <5>1. 1 \in 1 .. n /\ freeBlock[1] = st[1]
          BY <1>5, <4>2 DEF Linked
        <5> QED
          BY <1>1, <1>5, <2>4, <5>1
      <4> QED
        BY <4>1, <4>2
    <3>2. ASSUME NEW i \in 1 .. (n + 1)
          PROVE  down[i] \in Chains(Lists', Free')
      <4>1. i = n + 1 \/ i \in 1 .. n
        OBVIOUS
      <4> QED
        BY <2>3, <2>4, <4>1
    <3>3. ASSUME NEW i \in 1 .. ((n + 1) - 1)
          PROVE  Len(Lists'[down[i]]) >= 2 /\ Lists'[down[i]][1] = down[i + 1]
      <4>1. /\ i \in 1 .. n /\ down[i] = st[i] /\ Lists'[st[i]] = Lists[st[i]]
        BY <2>3, <2>4
      <4>2. CASE i = n
        BY <1>5, <2>4, <4>1, <4>2
      <4>3. CASE i # n
        <5>1. i \in 1 .. (n - 1) /\ i + 1 \in 1 .. n
          BY <4>1, <4>3
        <5>2. Len(Lists[st[i]]) >= 2 /\ Lists[st[i]][1] = st[i + 1]
          BY <1>5, <5>1 DEF Linked
        <5> QED
          BY <2>4, <4>1, <5>1, <5>2
      <4> QED
        BY <4>2, <4>3
    <3>4. ASSUME NEW c \in Chains(Lists', Free')
          PROVE  \E i \in 1 .. (n + 1) : c = down[i]
      <4>1. CASE c = chainSector
        BY <2>4, <4>1
      <4>2. CASE c \in Chains(Lists, Free)
        <5>1. PICK i \in 1 .. n : c = st[i]
          BY <1>5, <4>2 DEF Linked
        <5>2. i \in 1 .. (n + 1) /\ down[i] = c
          BY <2>4, <5>1
        <5> QED
          BY <5>2
      <4> QED
        BY <2>3, <4>1, <4>2
    <3> QED
      BY <3>1, <3>2, <3>3, <3>4 DEF Linked
  <2>6. block' < VolumeSize =>
          /\ Len(Lists'[down[n + 1]]) >= 2 /\ chainSector' = Lists'[down[n + 1]][1]
          /\ chainSector' \notin Chains(Lists', Free')
    <3> SUFFICES ASSUME block' < VolumeSize
                 PROVE  /\ Len(filled) >= 2 /\ chainSector' = filled[1]
                        /\ chainSector' \notin Chains(Lists', Free')
      BY <2>2, <2>4
    <3>1. ~last /\ Len(filled) = MaxFreeBlock /\ chainSector' = filled[1] /\ 1 \in DOMAIN filled
      BY <1>1, <1>4, <1>8, <2>1
    <3>2. filled[1] = chain[1] /\ 1 \in DOMAIN chain
      BY <1>4, <3>1
    <3>3. /\ Disjoint(chain, freeBlock) /\ 1 \in DOMAIN freeBlock
          /\ \A c \in Chains(Lists, Free) : Disjoint(Lists[c], chain)
      BY <1>1 DEF ListInv, Formatting
    <3>4. Readable(Lists, Free)
      BY FreeReadable DEF ListInv
    <3>5. \A c \in Chains(Lists, Free) : Len(Lists[c]) >= 2 => Lists[c][1] # chain[1]
      <4> SUFFICES ASSUME NEW c \in Chains(Lists, Free), Len(Lists[c]) >= 2
                   PROVE  Lists[c][1] # chain[1]
        OBVIOUS
      <4>1. 1 \in DOMAIN Lists[c]
        BY <3>4 DEF Readable, Chains
      <4> QED
        BY <3>2, <3>3, <4>1 DEF Disjoint
    <3>6. chain[1] # freeBlock[1]
      BY <3>2, <3>3 DEF Disjoint
    <3>7. chain[1] \notin Chains(Lists, Free)
      BY <1>5, <3>5, <3>6, WhereChainStands
    <3>8. chain[1] # chainSector
      <4>1. CASE n = 0
        BY <1>5, <3>6, <4>1
      <4>2. CASE n > 0
        <5>1. n \in 1 .. n /\ st[n] \in Chains(Lists, Free)
          BY <2>4, <4>2
        <5> QED
          BY <1>5, <3>5, <4>2, <5>1
      <4> QED
        BY <4>1, <4>2
    <3> QED
      BY <1>4, <2>3, <3>1, <3>2, <3>7, <3>8
  <2>7. ASSUME NEW b \in Free, b < block + 1
        PROVE  Listed(b, freeBlock', Lists', Free')
    <3>1. CASE Listed(b, freeBlock, Lists, Free)
      BY <1>1, <2>3, <3>1 DEF Listed
    <3>2. CASE \E i \in DOMAIN filled : filled[i] = b
      BY <2>2, <2>3, <3>2 DEF Listed
    <3> QED
      BY <1>6, <2>7, <3>1, <3>2
  <2>8. n + 1 \in Nat /\ n + 1 > 0 /\ n + 1 # 0
    OBVIOUS
  <2>9. Extending(n + 1, down)'
    BY <1>1, <1>5, <2>1, <2>5, <2>6, <2>7, <2>8 DEF Extending
  <2> QED
    BY <1>1, <2>8, <2>9 DEF ReachInv
<1> QED
  BY <1>7, <1>8

\* When AllocBlock hands out the top of the cache as it is, no list goes with
\* it: a chain block would have been reloaded, since the count covers both
\* it and what it lists.
LEMMA TopNotChain ==
    ASSUME ListInv, Bracketed, freeBlock # <<>>, NEW n \in Nat, NEW st,
           Linked(n, st, freeBlock, Lists, Free),
           ChainLoaded(freeBlock, totalFreeBlock, Lists[Last(freeBlock)]) = <<>>
    PROVE  Last(freeBlock) \notin Chains(Lists, Free)
<1> DEFINE t == Last(freeBlock)
<1> SUFFICES ASSUME t \in Chains(Lists, Free) PROVE FALSE
  OBVIOUS
<1>1. /\ freeBlock \in Seq(Nat) /\ SoundLists(freeBlock, Lists, Free)
      /\ Readable(Lists, Free) /\ totalFreeBlock \in Nat
  BY FreeReadable DEF ListInv, ListsSound, ListTyped
<1>2. Len(freeBlock) \in DOMAIN freeBlock /\ t = freeBlock[Len(freeBlock)]
  BY <1>1, FrontEntries
<1>3. \A j \in DOMAIN freeBlock : t = freeBlock[j] => j = 1 /\ n > 0 /\ t = st[1]
  <2> HIDE DEF t
  <2> QED
    BY <1>1, ChainAtBottom
<1>4. Len(freeBlock) = 1
  BY <1>2, <1>3
<1>5. Lists[t] # <<>> /\ Lists[t] \in Seq(Nat) /\ t \in Free
  BY <1>1 DEF Chains, Readable
<1>6. ~(totalFreeBlock > 1)
  BY <1>4, <1>5 DEF ChainLoaded
<1>7. Last(Lists[t]) \in Free \ {t}
  BY <1>1, <1>5, TopOfChain
<1>8. Cardinality(Free) >= 2 /\ Cardinality(Free) \in Nat
  <2>1. Free \in SUBSET DataBlocks /\ Free \ {t} \in SUBSET DataBlocks /\ t \in DataBlocks
    BY <1>5, DataSectors
  <2>2. /\ Cardinality(Free) \in Nat /\ Cardinality(Free \ {t}) = Cardinality(Free) - 1
    BY <1>5, <2>1, OneBlock
  <2>3. Cardinality(Free \ {t}) >= 1
    BY <1>7, <2>1, DataSectors, OneBlock
  <2> QED
    BY <2>2, <2>3
<1> QED
  BY <1>1, <1>6, <1>8 DEF Bracketed

\* An allocation whose reads went through goes by what the sector really lists.
LEMMA AllocReads ==
    ASSUME ListInv, ListAlloc, misread' = 0
    PROVE  /\ misread = 0
           /\ \E list, taken : \E writeOk \in BOOLEAN :
                 /\ AllocStep(list, taken, writeOk)
                 /\ list = ChainLoaded(freeBlock, totalFreeBlock, Lists[Last(freeBlock)])
  BY DEF ListAlloc

LEMMA ReachAllocBlock ==
    ListInv /\ Bracketed /\ ReachInv /\ ListAlloc => ReachInv'
<1> SUFFICES ASSUME ListInv, Bracketed, ReachInv, ListAlloc, misread' = 0
             PROVE  Reachable(freeBlock', Lists', Free')
  BY AllocTakesFree DEF ReachInv
<1> DEFINE b == Last(freeBlock)
<1>1. /\ misread = 0 /\ phase = "ready" /\ freeBlock # <<>> /\ freeBlock \in Seq(Nat)
      /\ b \in Free
  BY AllocReads, AllocTakesFree DEF ListAlloc, AllocBlock
<1>2. PICK list, taken : \E writeOk \in BOOLEAN :
         /\ AllocStep(list, taken, writeOk)
         /\ list = ChainLoaded(freeBlock, totalFreeBlock, Lists[b])
  BY AllocReads
<1>3. PICK writeOk \in BOOLEAN :
         /\ AllocStep(list, taken, writeOk)
         /\ list = ChainLoaded(freeBlock, totalFreeBlock, Lists[b])
  BY <1>2
<1>4. PICK n \in Nat : \E st : Linked(n, st, freeBlock, Lists, Free)
  BY <1>1 DEF ReachInv, Reachable
<1>5. PICK st : Linked(n, st, freeBlock, Lists, Free)
  BY <1>4
<1>6. /\ \A s \in Free : Listed(s, freeBlock, Lists, Free)
      /\ SoundLists(freeBlock, Lists, Free) /\ Readable(Lists, Free)
  BY <1>1, FreeReadable DEF ReachInv, Reachable, ListInv, ListsSound
<1>7. /\ taken = BlockTaken(freeBlock, list) /\ freeBlock' = CacheAfterAlloc(freeBlock, list)
      /\ Free' = Free \ ({taken} \cup (IF list = <<>> THEN {} ELSE {b}))
      /\ \A s \in Free \ {taken} : Lists'[s] = Lists[s]
  BY <1>3, DataSectors DEF AllocStep, Free, WriteList, ListInv, ListTyped
<1>8. CASE list = <<>>
  <2>1. taken = b /\ freeBlock' = Front(freeBlock) /\ Free' = Free \ {b}
    BY <1>7, <1>8 DEF BlockTaken, CacheAfterAlloc
  <2>2. b \notin Chains(Lists, Free)
    BY <1>1, <1>3, <1>5, <1>8, TopNotChain
  <2>3. Reachable(Front(freeBlock), Lists', Free \ {b})
    BY <1>1, <1>5, <1>6, <1>7, <2>1, <2>2, PopReachable
  <2> QED
    BY <2>1, <2>3
<1>9. CASE list # <<>>
  <2>1. /\ taken = Last(list) /\ freeBlock' = Front(list) /\ Free' = Free \ {b, taken}
        /\ list = Lists[b] /\ Len(freeBlock) = 1
    BY <1>3, <1>7, <1>9 DEF BlockTaken, CacheAfterAlloc, ChainLoaded
  <2>2. list \in Seq(Nat) /\ freeBlock[1] = b
    BY <1>1, <1>6, <2>1, FrontEntries DEF Readable
  <2>3. Reloading(n, st, freeBlock, Free, Lists, Lists', b, list, taken)
    BY <1>1, <1>5, <1>6, <1>7, <1>9, <2>1, <2>2 DEF Reloading
  <2> HIDE DEF b
  <2>4. Reachable(Front(list), Lists', Free \ {b, taken})
    BY <2>3, ReloadReachable
  <2> QED
    BY <2>1, <2>4
<1> QED
  BY <1>8, <1>9

LEMMA ReachFreeBlock ==
    ASSUME NEW b \in used PROVE ListInv /\ ReachInv /\ ListFree(b) => ReachInv'
<1> SUFFICES ASSUME ListInv, ReachInv, ListFree(b), misread' = 0
             PROVE  Reachable(freeBlock', Lists', Free')
  BY DEF ReachInv, ListFree, FreeBlock, fmtVars
<1> USE MaxFreeBlockAssumption
<1>1. /\ b \in DataBlocks /\ b \in Nat /\ b \in Sectors /\ b \notin Free /\ b \notin lost
      /\ Lists[b] = <<>> /\ freeBlock \in Seq(Nat) /\ Len(freeBlock) <= MaxFreeBlock
      /\ Reachable(freeBlock, Lists, Free) /\ Free' = Free \cup {b}
      /\ freeBlock' = CacheAfterFree(freeBlock, b)
      /\ Lists' = WriteList(b, ContentAfterFree(freeBlock, <<>>))
  BY DataSectors DEF ListInv, ListTyped, UsedBlocksInert, ListFree, FreeBlock, Free, ReachInv, ReadSector
<1>2. /\ Lists'[b] = ContentAfterFree(freeBlock, <<>>)
      /\ \A s \in Free : Lists'[s] = Lists[s]
  BY <1>1, DataSectors DEF WriteList, ListInv, ListTyped
<1>3. CASE CacheFull(freeBlock)
  <2>1. freeBlock' = <<b>> /\ Lists'[b] = freeBlock /\ Len(freeBlock) >= 2
    BY <1>1, <1>2, <1>3 DEF CacheAfterFree, ContentAfterFree, CacheFull
  <2>2. Reachable(<<b>>, Lists', Free \cup {b})
    BY <1>1, <1>2, <2>1, SpillReachable
  <2> QED
    BY <1>1, <2>1, <2>2
<1>4. CASE ~CacheFull(freeBlock)
  <2>1. freeBlock' = Append(freeBlock, b) /\ Lists'[b] = <<>>
    BY <1>1, <1>2, <1>4 DEF CacheAfterFree, ContentAfterFree
  <2>2. Reachable(Append(freeBlock, b), Lists', Free \cup {b})
    BY <1>1, <1>2, <2>1, PushReachable
  <2> QED
    BY <1>1, <2>1, <2>2
<1> QED
  BY <1>3, <1>4

LEMMA ReachUnchanged ==
    ASSUME ReachInv, Lists' = Lists,
           UNCHANGED <<freeBlock, fmtVars, used, lost, misread>>
    PROVE  ReachInv'
  BY DEF ReachInv, Reachable, Extending, Linked, Listed, Chains, Free, fmtVars

LEMMA ReachNext == ListInv /\ Bracketed /\ ReachInv /\ ListStep => ReachInv'
<1> SUFFICES ASSUME ListInv, Bracketed, ReachInv, ListStep PROVE ReachInv'
  OBVIOUS
<1>1. CASE ListFillCache
  BY <1>1, ReachFillCache
<1>2. CASE ListFillChain
  BY <1>2, ReachFillChain
<1>3. CASE ListCreateRoot
  BY <1>3, ReachCreateRootDir
<1>4. CASE ListAlloc
  BY <1>4, ReachAllocBlock
<1>5. ASSUME NEW b \in used, ListFree(b) PROVE ReachInv'
  BY <1>5, ReachFreeBlock
<1>6. ASSUME NEW b \in used, NEW p \in Payloads, ListWrite(b, p) PROVE ReachInv'
  BY <1>6, ReachUnchanged DEF ListWrite, WriteData
<1>7. CASE UNCHANGED vars
  <2>1. Lists' = Lists
    BY <1>7 DEF vars, histVars, Lists
  <2> QED
    BY <1>7, <2>1, ReachUnchanged DEF vars, histVars
<1> QED
  BY <1>1, <1>2, <1>3, <1>4, <1>5, <1>6, <1>7 DEF ListStep

\* For every geometry, every pattern of failing writes and whatever the
\* callers write, as long as the reads in AllocBlock succeed and until the
\* list goes astray: the cache is empty, and AllocBlock reports "no free
\* blocks", only when no data block is free.
THEOREM NeverFalselyExhausted == Spec => []NoFalseExhaustion
<1>1. (astray \/ ReachInv) => NoFalseExhaustion
  <2> SUFFICES ASSUME ReachInv, phase = "ready", misread = 0, freeBlock = <<>>,
                      NEW b \in Free
               PROVE  FALSE
    BY DEF NoFalseExhaustion
  <2>1. PICK n \in Nat : \E st : Linked(n, st, freeBlock, Lists, Free)
    BY DEF ReachInv, Reachable
  <2>2. Listed(b, freeBlock, Lists, Free) /\ DOMAIN freeBlock = {}
    BY DEF ReachInv, Reachable
  <2>3. PICK c \in Chains(Lists, Free) : TRUE
    BY <2>2 DEF Listed
  <2> QED
    BY <2>1, <2>3 DEF Linked
<1>2. CountSoFar /\ (astray \/ ReachInv) /\ [Next]_vars => (astray \/ ReachInv)'
  <2> SUFFICES ASSUME CountSoFar, astray \/ ReachInv, [Next]_vars, ~astray' PROVE ReachInv'
    OBVIOUS
  <2>1. astray => astray'
    BY AstrayStays DEF CountSoFar, SoundSoFar
  <2>2. ListInv /\ DiskTyped /\ Bracketed /\ ReachInv
    BY <2>1 DEF CountSoFar, SoundSoFar
  <2> QED
    BY <2>2, OnLists, ReachNext
<1>3. Spec => []CountSoFar
  BY CountAlways
<1> QED
  BY <1>1, <1>2, <1>3, ReachInit, PTL DEF Spec

-----------------------------------------------------------------------------
(* What holds whatever the callers write, on a disk without faults: until  *)
(* the first chain block is reloaded, AllocBlock never takes the old       *)
(* content of a block for a chain.                                         *)

\* T are the blocks that FreeBlock or Create made chain blocks; others may
\* look like one.  The cache and T list every free block; if there is a chain
\* block at all, then at the bottom of the cache.
Clean(T) ==
    /\ used \subseteq DataBlocks /\ disk \in [Sectors -> Contents]
    /\ freeBlock \in Seq(Nat) /\ Len(freeBlock) <= MaxFreeBlock
    /\ totalFreeBlock = Cardinality(Free)
    /\ Distinct(freeBlock) /\ Within(freeBlock, Free)
    /\ T \subseteq Free
    /\ T # {} => freeBlock # <<>> /\ freeBlock[1] \in T
    /\ \A c \in T :
          /\ disk[c] # <<>> /\ Within(disk[c], Free) /\ Disjoint(disk[c], freeBlock)
          /\ c = freeBlock[1] \/ \E a \in T : \E i \in DOMAIN disk[a] : disk[a][i] = c
    /\ \A b \in Free : \/ \E i \in DOMAIN freeBlock : freeBlock[i] = b
                       \/ \E c \in T : \E i \in DOMAIN disk[c] : disk[c][i] = b

CleanInv ==
    /\ phase \in {"format", "ready"}
    /\ phase = "format" =>
          ~astray /\ ListInv /\ DiskTyped /\ Bracketed /\ ReachInv /\ Lists = disk
    /\ phase = "ready" /\ lost = {} => \E T : Clean(T)

-----------------------------------------------------------------------------
\* The top of the cache is handed out as it is only if it is no chain block,
\* and reloaded only if it is one.
LEMMA CleanTop ==
    ASSUME NEW T, Clean(T), freeBlock # <<>>
    PROVE  /\ Last(freeBlock) \in Free /\ Last(freeBlock) = freeBlock[Len(freeBlock)]
           /\ ChainLoaded(freeBlock, totalFreeBlock, disk[Last(freeBlock)]) = <<>>
                 => Last(freeBlock) \notin T
           /\ ChainLoaded(freeBlock, totalFreeBlock, disk[Last(freeBlock)]) # <<>>
                 => /\ Last(freeBlock) \in T
                    /\ Last(disk[Last(freeBlock)]) \in Free
<1> DEFINE t == Last(freeBlock)
           list == ChainLoaded(freeBlock, totalFreeBlock, disk[t])
<1>1. /\ Len(freeBlock) \in DOMAIN freeBlock /\ t = freeBlock[Len(freeBlock)]
      /\ DOMAIN freeBlock = 1 .. Len(freeBlock) /\ freeBlock \in Seq(Nat)
  <2>1. freeBlock \in Seq(Nat)
    BY DEF Clean
  <2> QED
    BY <2>1, FrontEntries
<1>2. t \in Free /\ Free \in SUBSET DataBlocks /\ t \in DataBlocks
  BY <1>1, DataSectors DEF Clean, Within
<1>3. /\ Cardinality(Free) \in Nat /\ Cardinality(Free \ {t}) = Cardinality(Free) - 1
      /\ Cardinality(Free \ {t}) \in Nat
  BY <1>2, OneBlock
<1>4. ASSUME t \in T
      PROVE  /\ Len(freeBlock) = 1 /\ disk[t] # <<>> /\ disk[t] \in Seq(Nat)
             /\ \A i \in DOMAIN disk[t] : disk[t][i] \in Free \ {t}
             /\ totalFreeBlock > 1 /\ Last(disk[t]) \in Free
  <2>1. /\ disk[t] # <<>> /\ Within(disk[t], Free) /\ Disjoint(disk[t], freeBlock)
        /\ t = freeBlock[1] \/ \E a \in T : \E i \in DOMAIN disk[a] : disk[a][i] = t
    BY <1>4 DEF Clean
  <2>2. disk[t] \in Seq(Nat)
    BY <1>2, DataSectors DEF Clean, Contents
  <2>3. t = freeBlock[1]
    <3> SUFFICES ASSUME NEW a \in T, NEW i \in DOMAIN disk[a], disk[a][i] = t PROVE FALSE
      BY <2>1
    <3>1. Disjoint(disk[a], freeBlock)
      BY DEF Clean
    <3> QED
      BY <1>1, <3>1 DEF Disjoint
  <2>4. Len(freeBlock) = 1
    <3>1. 1 \in DOMAIN freeBlock /\ Distinct(freeBlock)
      BY <1>1 DEF Clean
    <3> QED
      BY <1>1, <2>3, <3>1 DEF Distinct
  <2>5. \A i \in DOMAIN disk[t] : disk[t][i] \in Free \ {t}
    BY <1>1, <2>1 DEF Within, Disjoint
  <2>6. Len(disk[t]) \in DOMAIN disk[t] /\ Last(disk[t]) = disk[t][Len(disk[t])]
    BY <2>1, <2>2, FrontEntries
  <2>7. Last(disk[t]) \in Free \ {t}
    BY <2>5, <2>6
  <2>8. Cardinality(Free \ {t}) >= 1
    <3>1. Free \ {t} \in SUBSET DataBlocks /\ Last(disk[t]) \in DataBlocks
      BY <1>2, <2>7
    <3> QED
      BY <2>7, <3>1, OneBlock
  <2>9. totalFreeBlock > 1
    BY <1>3, <2>8 DEF Clean
  <2> QED
    BY <2>1, <2>2, <2>4, <2>5, <2>7, <2>9
<1>5. ASSUME list = <<>> PROVE t \notin T
  BY <1>4, <1>5 DEF ChainLoaded
<1>6. ASSUME list # <<>> PROVE t \in T
  <2>1. Len(freeBlock) = 1 /\ totalFreeBlock > 1
    BY <1>6 DEF ChainLoaded
  <2>2. PICK x \in Free \ {t} : TRUE
    <3> SUFFICES ASSUME Free \ {t} = {} PROVE FALSE
      OBVIOUS
    <3>1. Cardinality(Free \ {t}) = 0
      BY FS_EmptySet
    <3> QED
      BY <1>3, <2>1, <3>1 DEF Clean
  <2>3. PICK c \in T : \E i \in DOMAIN disk[c] : disk[c][i] = x
    BY <1>1, <2>1, <2>2 DEF Clean
  <2> QED
    BY <1>1, <2>1, <2>3 DEF Clean
<1> QED
  BY <1>1, <1>2, <1>4, <1>5, <1>6

\* The top of the cache, no chain block, is handed out and written to.
LEMMA CleanPop ==
    ASSUME NEW T, Clean(T), freeBlock # <<>>, NEW t, t = Last(freeBlock), t \notin T,
           freeBlock' = Front(freeBlock), used' = used \cup {t}, lost = {}, lost' = {},
           NEW p \in Contents, disk' = WriteSector(t, p),
           totalFreeBlock' = Decrement(totalFreeBlock)
    PROVE  Clean(T)'
<1>1. /\ Len(freeBlock) \in DOMAIN freeBlock /\ t = freeBlock[Len(freeBlock)]
      /\ DOMAIN freeBlock = 1 .. Len(freeBlock) /\ Len(freeBlock) \in Nat
      /\ Front(freeBlock) \in Seq(Nat) /\ Len(Front(freeBlock)) = Len(freeBlock) - 1
      /\ DOMAIN Front(freeBlock) = 1 .. (Len(freeBlock) - 1)
      /\ \A i \in 1 .. (Len(freeBlock) - 1) : Front(freeBlock)[i] = freeBlock[i]
  <2>1. freeBlock \in Seq(Nat)
    BY DEF Clean
  <2> QED
    BY <2>1, FrontEntries
<1>2. /\ t \in Free /\ Free \in SUBSET DataBlocks /\ t \in DataBlocks /\ t \in Sectors
      /\ Free' = Free \ {t}
  BY <1>1, DataSectors DEF Clean, Within, Free
<1>3. disk' \in [Sectors -> Contents] /\ \A s \in Free \ {t} : disk'[s] = disk[s]
  BY <1>2, DataSectors DEF Clean, WriteSector
<1>4. totalFreeBlock' = Cardinality(Free')
  <2>1. /\ Cardinality(Free) \in Nat /\ Cardinality(Free) >= 1
        /\ Cardinality(Free \ {t}) = Cardinality(Free) - 1
    BY <1>2, OneBlock
  <2> QED
    BY <1>2, <2>1 DEF Clean, Decrement
<1>5. /\ Distinct(Front(freeBlock)) /\ Within(Front(freeBlock), Free \ {t})
  <2>1. Distinct(freeBlock) /\ Within(freeBlock, Free)
    BY DEF Clean
  <2>2. \A i \in DOMAIN Front(freeBlock) :
           i \in DOMAIN freeBlock /\ Front(freeBlock)[i] = freeBlock[i] /\ freeBlock[i] # t
    BY <1>1, <2>1 DEF Distinct
  <2> QED
    BY <1>1, <2>1, <2>2 DEF Distinct, Within
<1>6. ASSUME T # {}
      PROVE  Front(freeBlock) # <<>> /\ Front(freeBlock)[1] = freeBlock[1] /\ freeBlock[1] \in T
  <2>1. freeBlock[1] \in T
    BY <1>6 DEF Clean
  <2>2. Len(freeBlock) # 1
    BY <1>1, <2>1
  <2>3. 1 \in 1 .. (Len(freeBlock) - 1)
    BY <1>1, <2>2
  <2> QED
    BY <1>1, <2>1, <2>3
<1>7. T \subseteq Free \ {t} /\ \A c \in T : disk'[c] = disk[c]
  BY <1>3 DEF Clean
<1>8. ASSUME NEW c \in T
      PROVE  /\ disk'[c] # <<>> /\ Within(disk'[c], Free') /\ Disjoint(disk'[c], freeBlock')
             /\ c = freeBlock'[1] \/ \E a \in T : \E i \in DOMAIN disk'[a] : disk'[a][i] = c
  <2>1. /\ disk[c] # <<>> /\ Within(disk[c], Free) /\ Disjoint(disk[c], freeBlock)
        /\ c = freeBlock[1] \/ \E a \in T : \E i \in DOMAIN disk[a] : disk[a][i] = c
    BY DEF Clean
  <2>2. Within(disk[c], Free \ {t}) /\ Disjoint(disk[c], Front(freeBlock))
    BY <1>1, <2>1 DEF Within, Disjoint
  <2> QED
    BY <1>2, <1>6, <1>7, <2>1, <2>2
<1>9. ASSUME NEW b \in Free \ {t}
      PROVE  \/ \E i \in DOMAIN Front(freeBlock) : Front(freeBlock)[i] = b
             \/ \E c \in T : \E i \in DOMAIN disk'[c] : disk'[c][i] = b
  <2>1. \/ \E i \in DOMAIN freeBlock : freeBlock[i] = b
        \/ \E c \in T : \E i \in DOMAIN disk[c] : disk[c][i] = b
    BY DEF Clean
  <2>2. CASE \E i \in DOMAIN freeBlock : freeBlock[i] = b
    <3>1. PICK i \in DOMAIN freeBlock : freeBlock[i] = b
      BY <2>2
    <3>2. i \in DOMAIN Front(freeBlock)
      BY <1>1, <3>1
    <3> QED
      BY <1>1, <3>1, <3>2
  <2> QED
    BY <1>7, <2>1, <2>2
<1>10. used' \subseteq DataBlocks /\ Len(freeBlock') <= MaxFreeBlock
  BY <1>1, <1>2, MaxFreeBlockAssumption DEF Clean
<1> QED
  BY <1>1, <1>2, <1>3, <1>4, <1>5, <1>6, <1>7, <1>8, <1>9, <1>10 DEF Clean

\* A freed block goes on the cache, or starts a new one and becomes the
\* chain block of the full one.
LEMMA CleanGive ==
    ASSUME NEW T, Clean(T), lost = {}, NEW b \in used, FreeBlock(b)
    PROVE  (\E U : Clean(U))' /\ lost' = {}
<1> USE MaxFreeBlockAssumption
<1>1. /\ b \in DataBlocks /\ b \in Nat /\ b \in Sectors /\ b \notin Free
      /\ Free' = Free \cup {b} /\ used' \subseteq DataBlocks /\ lost' = {}
      /\ freeBlock' = CacheAfterFree(freeBlock, b) /\ freeBlock \in Seq(Nat)
      /\ Len(freeBlock) \in Nat /\ Len(freeBlock) <= MaxFreeBlock
      /\ disk \in [Sectors -> Contents] /\ Free \in SUBSET DataBlocks
      /\ Distinct(freeBlock) /\ Within(freeBlock, Free) /\ T \subseteq Free
      /\ totalFreeBlock = Cardinality(Free) /\ totalFreeBlock' = Increment(totalFreeBlock)
  <2>1. /\ used \subseteq DataBlocks /\ disk \in [Sectors -> Contents]
        /\ freeBlock \in Seq(Nat) /\ Len(freeBlock) <= MaxFreeBlock
        /\ totalFreeBlock = Cardinality(Free)
        /\ Distinct(freeBlock) /\ Within(freeBlock, Free) /\ T \subseteq Free
    BY DEF Clean
  <2>2. /\ b \in used /\ freeBlock' = CacheAfterFree(freeBlock, b) /\ used' = used \ {b}
        /\ totalFreeBlock' = Increment(totalFreeBlock) /\ lost' = {}
    BY DEF FreeBlock
  <2>3. /\ b \in DataBlocks /\ b \in Nat /\ b \in Sectors /\ b \notin Free
        /\ Free' = Free \cup {b} /\ Free \in SUBSET DataBlocks /\ Len(freeBlock) \in Nat
    BY <2>1, <2>2, DataSectors DEF Free
  <2> QED
    BY <2>1, <2>2, <2>3
<1>2. /\ disk' = WriteSector(b, ContentAfterFree(freeBlock, disk[b]))
      /\ ContentAfterFree(freeBlock, disk[b]) \in Contents
  BY <1>1 DEF FreeBlock, ReadSector, ContentAfterFree, Contents
<1>3. /\ disk' \in [Sectors -> Contents] /\ disk'[b] = ContentAfterFree(freeBlock, disk[b])
      /\ \A s \in Free : disk'[s] = disk[s]
  BY <1>1, <1>2, DataSectors DEF WriteSector
<1>4. totalFreeBlock' = Cardinality(Free')
  <2>1. /\ Cardinality(Free \cup {b}) = Cardinality(Free) + 1 /\ Cardinality(Free) \in Nat
    BY <1>1, OneBlock
  <2>2. Cardinality(Free') <= VolumeSize - DataBlockStart
    BY <1>1, FiniteBlocks
  <2> QED
    BY <1>1, <2>1, <2>2, GeometryAssumption DEF Increment
<1>5. \A c \in T :
         /\ disk'[c] = disk[c] /\ c # b /\ disk[c] # <<>> /\ Within(disk[c], Free)
         /\ Disjoint(disk[c], freeBlock)
         /\ c = freeBlock[1] \/ \E a \in T : \E i \in DOMAIN disk[a] : disk[a][i] = c
  BY <1>1, <1>3 DEF Clean
<1>6. \A x \in Free : \/ \E i \in DOMAIN freeBlock : freeBlock[i] = x
                      \/ \E c \in T : \E i \in DOMAIN disk'[c] : disk'[c][i] = x
  BY <1>5 DEF Clean
<1>7. CASE CacheFull(freeBlock)
  <2> DEFINE U == T \cup {b}
  <2>1. /\ freeBlock' = <<b>> /\ disk'[b] = freeBlock /\ 1 \in DOMAIN freeBlock
        /\ freeBlock # <<>>
    BY <1>1, <1>3, <1>7 DEF CacheAfterFree, ContentAfterFree, CacheFull
  <2>2. /\ freeBlock' \in Seq(Nat) /\ Len(freeBlock') <= MaxFreeBlock
        /\ Distinct(freeBlock') /\ Within(freeBlock', Free') /\ freeBlock'[1] = b
        /\ DOMAIN freeBlock' = {1} /\ freeBlock' # <<>>
    BY <1>1, <2>1 DEF Distinct, Within
  <2>3. ASSUME NEW c \in U
        PROVE  /\ disk'[c] # <<>> /\ Within(disk'[c], Free') /\ Disjoint(disk'[c], freeBlock')
               /\ c = b \/ \E a \in U : \E i \in DOMAIN disk'[a] : disk'[a][i] = c
    <3>1. disk'[c] # <<>> /\ Within(disk'[c], Free)
      BY <1>1, <1>5, <2>1
    <3>2. Within(disk'[c], Free') /\ Disjoint(disk'[c], freeBlock')
      BY <1>1, <2>2, <3>1 DEF Within, Disjoint
    <3>3. c = b \/ \E a \in U : \E i \in DOMAIN disk'[a] : disk'[a][i] = c
      <4> SUFFICES ASSUME c \in T PROVE \E a \in U : \E i \in DOMAIN disk'[a] : disk'[a][i] = c
        OBVIOUS
      <4>1. CASE c = freeBlock[1]
        BY <2>1, <4>1
      <4>2. CASE \E a \in T : \E i \in DOMAIN disk[a] : disk[a][i] = c
        BY <1>5, <4>2
      <4> QED
        BY <1>5, <4>1, <4>2
    <3> QED
      BY <3>1, <3>2, <3>3
  <2>4. ASSUME NEW x \in Free'
        PROVE  \/ \E i \in DOMAIN freeBlock' : freeBlock'[i] = x
               \/ \E c \in U : \E i \in DOMAIN disk'[c] : disk'[c][i] = x
    <3>1. CASE x = b
      BY <2>2, <3>1
    <3>2. CASE x \in Free
      BY <1>6, <2>1, <3>2
    <3> QED
      BY <1>1, <3>1, <3>2
  <2>5. U \subseteq Free' /\ b \in U
    BY <1>1
  <2>6. Clean(U)'
    <3> HIDE DEF U
    <3>1. U' = U
      BY DEF U
    <3> QED
      BY <1>1, <1>3, <1>4, <2>2, <2>3, <2>4, <2>5, <3>1 DEF Clean
  <2> QED
    BY <1>1, <2>6
<1>8. CASE ~CacheFull(freeBlock)
  <2>1. freeBlock' = Append(freeBlock, b)
    BY <1>1, <1>8 DEF CacheAfterFree
  <2>2. /\ freeBlock' \in Seq(Nat) /\ Len(freeBlock') <= MaxFreeBlock /\ freeBlock' # <<>>
        /\ DOMAIN freeBlock' = 1 .. (Len(freeBlock) + 1) /\ DOMAIN freeBlock = 1 .. Len(freeBlock)
        /\ \A i \in 1 .. Len(freeBlock) : freeBlock'[i] = freeBlock[i]
        /\ freeBlock'[Len(freeBlock) + 1] = b
    <3> DEFINE more == Append(freeBlock, b)
    <3>1. /\ more \in Seq(Nat) /\ Len(more) = Len(freeBlock) + 1
          /\ DOMAIN more = 1 .. (Len(freeBlock) + 1)
          /\ DOMAIN freeBlock = 1 .. Len(freeBlock)
          /\ \A i \in 1 .. Len(freeBlock) : more[i] = freeBlock[i]
          /\ more[Len(freeBlock) + 1] = b
      BY <1>1, AppendEntries
    <3>2. Len(freeBlock) + 1 <= MaxFreeBlock /\ Len(freeBlock) + 1 # 0
      BY <1>1, <1>8 DEF CacheFull
    <3>3. more # <<>> /\ Len(more) <= MaxFreeBlock
      BY <3>1, <3>2
    <3>4. freeBlock' = more
      BY <2>1
    <3> HIDE DEF more
    <3> QED
      BY <3>1, <3>3, <3>4, Zenon
  <2>3. Distinct(freeBlock') /\ Within(freeBlock', Free')
    <3>1. \A i \in DOMAIN freeBlock' :
             \/ i = Len(freeBlock) + 1 /\ freeBlock'[i] = b
             \/ i \in DOMAIN freeBlock /\ freeBlock'[i] = freeBlock[i] /\ freeBlock[i] # b
                /\ freeBlock[i] \in Free
      BY <1>1, <2>2 DEF Within
    <3>2. Distinct(freeBlock')
      BY <1>1, <3>1 DEF Distinct
    <3>3. Within(freeBlock', Free')
      BY <1>1, <3>1 DEF Within
    <3> QED
      BY <3>2, <3>3
  <2>4. T # {} => freeBlock'[1] = freeBlock[1] /\ freeBlock[1] \in T
    <3> SUFFICES ASSUME T # {} PROVE freeBlock'[1] = freeBlock[1] /\ freeBlock[1] \in T
      OBVIOUS
    <3>1. freeBlock # <<>> /\ freeBlock[1] \in T
      BY DEF Clean
    <3>2. 1 \in 1 .. Len(freeBlock)
      BY <1>1, <3>1
    <3> QED
      BY <2>2, <3>1, <3>2
  <2>5. ASSUME NEW c \in T
        PROVE  /\ disk'[c] # <<>> /\ Within(disk'[c], Free') /\ Disjoint(disk'[c], freeBlock')
               /\ c = freeBlock'[1] \/ \E a \in T : \E i \in DOMAIN disk'[a] : disk'[a][i] = c
    <3>1. \A i \in DOMAIN disk'[c] : disk'[c][i] \in Free /\ disk'[c][i] # b
      BY <1>1, <1>5 DEF Within
    <3>2. \A j \in DOMAIN freeBlock' :
             freeBlock'[j] = b \/ (j \in DOMAIN freeBlock /\ freeBlock'[j] = freeBlock[j])
      BY <1>1, <2>2
    <3>3. Disjoint(disk'[c], freeBlock) /\ Disjoint(disk'[c], freeBlock')
      BY <1>5, <3>1, <3>2 DEF Disjoint
    <3>4. Within(disk'[c], Free')
      BY <1>1, <3>1 DEF Within
    <3> QED
      BY <1>5, <2>4, <3>3, <3>4
  <2>6. ASSUME NEW x \in Free'
        PROVE  \/ \E i \in DOMAIN freeBlock' : freeBlock'[i] = x
               \/ \E c \in T : \E i \in DOMAIN disk'[c] : disk'[c][i] = x
    <3>1. CASE x = b
      BY <1>1, <2>2, <3>1
    <3>2. CASE x \in Free
      <4>1. CASE \E i \in DOMAIN freeBlock : freeBlock[i] = x
        BY <1>1, <2>2, <4>1
      <4> QED
        BY <1>6, <3>2, <4>1
    <3> QED
      BY <1>1, <3>1, <3>2
  <2>7. Clean(T)'
    BY <1>1, <1>3, <1>4, <2>2, <2>3, <2>4, <2>5, <2>6 DEF Clean
  <2> QED
    BY <1>1, <2>7
<1> QED
  BY <1>7, <1>8

\* What a caller writes touches no free block.
LEMMA CleanWrite ==
    ASSUME NEW T, Clean(T), NEW b \in used, NEW p \in Payloads, WriteData(b, p)
    PROVE  Clean(T)'
<1>1. /\ b \in Sectors /\ b \notin Free /\ p \in Contents /\ Free' = Free
      /\ freeBlock' = freeBlock /\ used' = used /\ totalFreeBlock' = totalFreeBlock
      /\ disk' = WriteSector(b, p)
  BY DataSectors, GeometryAssumption DEF Clean, WriteData, Free
<1>2. disk' \in [Sectors -> Contents] /\ \A s \in Free : disk'[s] = disk[s]
  BY <1>1, DataSectors DEF Clean, WriteSector
<1>3. T \subseteq Free /\ \A c \in T : disk'[c] = disk[c]
  BY <1>2 DEF Clean
<1> QED
  BY <1>1, <1>2, <1>3 DEF Clean

\* What Create leaves is clean: all that looks like a chain block is one.
LEMMA CleanFormat ==
    ASSUME ListInv, Bracketed, Lists = disk, phase = "format", block = VolumeSize, freeBlock # <<>>,
           NEW n \in Nat, NEW st, Extending(n, st)
    PROVE  Clean(Chains(disk, Free)) /\ Last(freeBlock) \notin Chains(disk, Free)
<1> DEFINE T == Chains(disk, Free)
<1>1. /\ used = {} /\ lost = {} /\ SoundLists(freeBlock, disk, Free) /\ Readable(disk, Free)
      /\ Free = DataBlocks
  BY FreeReadable DEF ListInv, ListsSound, Formatting, Free
<1>2. /\ Linked(n, st, freeBlock, disk, Free) /\ Last(freeBlock) \notin T
      /\ \A b \in Free : Listed(b, freeBlock, disk, Free)
  BY ListsComplete
<1>3. totalFreeBlock = Cardinality(Free)
  <2>1. Cardinality(used) = 0
    BY <1>1, FS_EmptySet
  <2> QED
    BY <1>1, <2>1, FiniteBlocks, GeometryAssumption DEF Bracketed, ListInv, ListTyped
<1>4. ASSUME NEW c \in T
      PROVE  c = freeBlock[1] \/ \E a \in T : \E i \in DOMAIN disk[a] : disk[a][i] = c
  <2> SUFFICES ASSUME NEW i \in 1 .. (n - 1), st[i] \in T, c = disk[st[i]][1],
                      Len(disk[st[i]]) >= 2
               PROVE  \E a \in T : \E j \in DOMAIN disk[a] : disk[a][j] = c
    BY <1>2, WhereChainStands
  <2>1. 1 \in DOMAIN disk[st[i]]
    BY <1>1 DEF Readable, Chains
  <2> QED
    BY <2>1
<1>5. T # {} => freeBlock[1] \in T
  <2> SUFFICES ASSUME NEW c \in T PROVE freeBlock[1] \in T
    OBVIOUS
  <2>1. n > 0
    BY <1>2 DEF Linked
  <2>2. 1 \in 1 .. n
    BY <2>1
  <2> QED
    BY <1>2, <2>1, <2>2 DEF Linked
<1>6. \A c \in T : disk[c] # <<>> /\ Within(disk[c], Free) /\ Disjoint(disk[c], freeBlock)
  BY <1>1 DEF SoundLists, Chains
<1>7. T \subseteq Free /\ Distinct(freeBlock) /\ Within(freeBlock, Free)
  BY <1>1 DEF SoundLists, Chains
<1>8. \A b \in Free : \/ \E i \in DOMAIN freeBlock : freeBlock[i] = b
                      \/ \E c \in T : \E i \in DOMAIN disk[c] : disk[c][i] = b
  BY <1>2 DEF Listed
<1> HIDE DEF T
<1>9. Clean(T)
  BY <1>1, <1>3, <1>4, <1>5, <1>6, <1>7, <1>8 DEF Clean, ListInv, ListTyped
<1> QED
  BY <1>2, <1>9 DEF T

LEMMA CleanRoot ==
    ASSUME ListInv, Bracketed, ReachInv, Lists = disk, CreateRootDir
    PROVE  (\E T : Clean(T))'
<1> DEFINE T == Chains(disk, Free)
           t == Last(freeBlock)
<1>1. /\ phase = "format" /\ block = VolumeSize /\ used = {} /\ lost = {} /\ lost' = {}
      /\ freeBlock' = Front(freeBlock) /\ used' = used \cup {t} /\ freeBlock # <<>>
      /\ totalFreeBlock' = Decrement(totalFreeBlock)
  BY GeometryAssumption DEF CreateRootDir, ListInv, Formatting
<1>2. PICK p \in Contents : disk' = WriteSector(t, p)
  BY GeometryAssumption DEF CreateRootDir
<1>3. PICK n \in Nat : \E st : Extending(n, st)
  BY <1>1 DEF ReachInv
<1>4. Clean(T) /\ t \notin T
  BY <1>1, <1>3, CleanFormat
<1>5. PICK U : U = T
  OBVIOUS
<1> HIDE DEF T, t
<1>6. Clean(U)'
  BY <1>1, <1>2, <1>4, <1>5, CleanPop DEF t
<1> QED
  BY <1>6

LEMMA CleanUnchanged ==
    ASSUME NEW T PROVE Clean(T) /\ UNCHANGED vars => Clean(T)'
<1> SUFFICES ASSUME Clean(T), UNCHANGED vars PROVE Clean(T)'
  OBVIOUS
<1>1. /\ freeBlock' = freeBlock /\ totalFreeBlock' = totalFreeBlock /\ disk' = disk
      /\ used' = used /\ Free' = Free
  BY DEF vars, histVars, Free
<1> QED
  BY <1>1 DEF Clean

\* A step of an open image whose chain has not been reloaded.
LEMMA CleanStep ==
    ASSUME ~FaultyDisk, NEW T, Clean(T), lost = {}, phase = "ready", [Next]_vars
    PROVE  /\ used' \subseteq DataBlocks
           /\ lost' = {} => (\E U : Clean(U))'
<1>1. CASE AllocBlock
  <2> DEFINE t    == Last(freeBlock)
             list == ChainLoaded(freeBlock, totalFreeBlock, disk[t])
             taken == BlockTaken(freeBlock, list)
  <2>1. freeBlock # <<>> /\ totalFreeBlock' = Decrement(totalFreeBlock)
    BY <1>1 DEF AllocBlock
  <2>2. /\ t \in Free /\ t \in Sectors /\ t \in DataBlocks
        /\ list = <<>> => t \notin T
        /\ list # <<>> => Last(disk[t]) \in Free
    <3>1. /\ t \in Free
          /\ list = <<>> => t \notin T
          /\ list # <<>> => Last(disk[t]) \in Free
      BY <2>1, CleanTop
    <3> HIDE DEF t, list
    <3> QED
      BY <3>1, DataSectors
  <2>3. ReadSector(t) = disk[t] /\ IOResults = {TRUE}
    BY <2>2 DEF Clean, ReadSector, IOResults
  <2>4. /\ freeBlock' = CacheAfterAlloc(freeBlock, list) /\ used' = used \cup {taken}
        /\ disk' = WriteSector(taken, <<>>)
        /\ lost' = lost \cup (IF list = <<>> THEN {} ELSE {t})
    BY <1>1, <2>3 DEF AllocBlock
  <2>5. CASE list = <<>>
    <3>1. /\ taken = t /\ freeBlock' = Front(freeBlock) /\ lost' = {} /\ t \notin T
          /\ used' = used \cup {t} /\ disk' = WriteSector(t, <<>>)
      <4>1. taken = t /\ CacheAfterAlloc(freeBlock, list) = Front(freeBlock)
        BY <2>5 DEF BlockTaken, CacheAfterAlloc
      <4> HIDE DEF t, list, taken
      <4> QED
        BY <2>2, <2>4, <2>5, <4>1
    <3>2. Clean(T)'
      <4>1. PICK u : u = t
        OBVIOUS
      <4> HIDE DEF t, list, taken
      <4>2. u = Last(freeBlock)
        BY <4>1 DEF t
      <4> QED
        BY <2>1, <3>1, <4>1, <4>2, EmptyContent, CleanPop
    <3>3. used' \subseteq DataBlocks
      BY <2>2, <3>1 DEF Clean
    <3> QED
      BY <3>2, <3>3
  <2>6. CASE list # <<>>
    <3>1. taken = Last(disk[t]) /\ taken \in DataBlocks
      BY <2>2, <2>6, DataSectors DEF BlockTaken, ChainLoaded
    <3>2. lost' # {}
      BY <2>4, <2>6
    <3> QED
      BY <2>4, <3>1, <3>2 DEF Clean
  <2> QED
    BY <2>5, <2>6
<1>2. ASSUME NEW b \in used, FreeBlock(b)
      PROVE  used' \subseteq DataBlocks /\ (\E U : Clean(U))'
  BY <1>2, CleanGive DEF FreeBlock, Clean
<1>3. ASSUME NEW b \in used, NEW p \in Payloads, WriteData(b, p)
      PROVE  Clean(T)'
  BY <1>3, CleanWrite
<1>4. ASSUME UNCHANGED vars PROVE Clean(T)'
  BY <1>4, CleanUnchanged
<1>6. Clean(T)' => used' \subseteq DataBlocks /\ (\E U : Clean(U))'
  <2>1. Clean(T)' => used' \subseteq DataBlocks
    BY DEF Clean
  <2>2. Clean(T)' => (\E U : Clean(U))'
    OBVIOUS
  <2> QED
    BY <2>1, <2>2
<1>5. ~FillCache /\ ~FillChain /\ ~CreateRootDir
  BY DEF FillCache, FillChain, CreateRootDir
<1> QED
  BY <1>1, <1>2, <1>3, <1>4, <1>5, <1>6 DEF Next, Step, StaysAstray

LEMMA CleanInvNext == ASSUME ~FaultyDisk PROVE CleanInv /\ [Next]_vars => CleanInv'
<1> SUFFICES ASSUME CleanInv, [Next]_vars PROVE CleanInv'
  OBVIOUS
<1>1. CASE phase = "format"
  <2>1. ~astray /\ ListInv /\ DiskTyped /\ Bracketed /\ ReachInv /\ Lists = disk
    BY <1>1 DEF CleanInv
  <2>2. ASSUME FillCache \/ FillChain \/ UNCHANGED vars
        PROVE  phase' = "format" /\ ~astray' /\ (Lists = disk)'
    <3>1. CASE FillCache \/ UNCHANGED vars
      BY <1>1, <2>1, <3>1 DEF FillCache, histVars, vars, fmtVars, Lists
    <3>2. CASE FillChain
      <4>1. phase' = "format" /\ ~astray' /\ chainSector \in Sectors /\ DOMAIN disk = Sectors
        BY <2>1, <3>2, DataSectors DEF FillChain, DiskTyped, ListInv, Formatting
      <4>2. ListFillChain
        BY <2>1, <3>2, FillChainOnLists
      <4> QED
        BY <2>1, <3>2, <4>1, <4>2 DEF FillChain, ListFillChain, WriteSector, WriteList
    <3> QED
      BY <2>2, <3>1, <3>2
  <2>3. CASE FillCache \/ FillChain \/ UNCHANGED vars
    <3>1. ListStep /\ DiskTyped' /\ phase' = "format" /\ ~astray' /\ (Lists = disk)'
      BY <2>1, <2>2, <2>3, OnLists
    <3>2. ListInv' /\ Bracketed' /\ ReachInv'
      BY <2>1, <3>1, ListInvNext, CountNext, ReachNext
    <3> QED
      BY <3>1, <3>2 DEF CleanInv
  <2>4. CASE CreateRootDir
    <3>1. (\E T : Clean(T))' /\ phase' = "ready"
      BY <2>1, <2>4, CleanRoot DEF CreateRootDir
    <3> QED
      BY <3>1 DEF CleanInv
  <2> QED
    BY <1>1, <2>1, <2>3, <2>4 DEF Next, Step, StaysAstray, AllocBlock, FreeBlock, WriteData
<1>2. CASE phase = "ready"
  <2>1. phase' = "ready" /\ lost \subseteq lost'
    BY <1>2 DEF Next, Step, StaysAstray, histVars, FillCache, FillChain, CreateRootDir, AllocBlock, FreeBlock, WriteData,
                vars, fmtVars
  <2>2. ASSUME lost' = {}
        PROVE  (\E T : Clean(T))'
    <3>1. lost = {}
      BY <2>1, <2>2
    <3>2. PICK T : Clean(T)
      BY <1>2, <3>1 DEF CleanInv
    <3> QED
      BY <1>2, <2>2, <3>1, <3>2, CleanStep
  <2> QED
    BY <2>1, <2>2 DEF CleanInv
<1> QED
  BY <1>1, <1>2 DEF CleanInv

\* For every geometry and whatever the callers write, look-alikes of chain
\* blocks included, on a disk without faults: until AllocBlock reloads its
\* first chain block, and in that step too, it hands out data blocks only, and
\* TotalFreeBlock counts the free blocks exactly.
THEOREM SafeWithAnyPayload == ASSUME ~FaultyDisk PROVE Spec => SafeUntilFirstReload
<1>1. Init => CleanInv
  <2> SUFFICES ASSUME Init PROVE CleanInv
    OBVIOUS
  <2>1. phase = "format" /\ ~astray /\ DiskTyped
    BY EmptyContent DEF Init, DiskTyped
  <2>2. Lists = disk
    BY DEF Init, Lists
  <2> QED
    BY <2>1, <2>2, ListInvInit, CountInit, ReachInit DEF CleanInv
<1>2. CleanInv /\ [Next]_vars => CleanInv'
  BY CleanInvNext
<1>3. CleanInv /\ CleanInv' /\ [Next]_vars => [SafeBeforeReload]_vars
  <2> SUFFICES ASSUME CleanInv, CleanInv', [Next]_vars, phase = "ready", lost = {}
               PROVE  /\ used' \subseteq DataBlocks
                      /\ lost' = {} => totalFreeBlock' = Cardinality(Free')
    BY DEF SafeBeforeReload
  <2>1. PICK T : Clean(T)
    BY DEF CleanInv
  <2>2. used' \subseteq DataBlocks
    BY <2>1, CleanStep
  <2>3. lost' = {} => (\E U : Clean(U))'
    BY <2>1, CleanStep
  <2>4. (\E U : Clean(U))' => totalFreeBlock' = Cardinality(Free')
    BY DEF Clean
  <2> QED
    BY <2>2, <2>3, <2>4
<1> QED
  BY <1>1, <1>2, <1>3, PTL DEF Spec, SafeUntilFirstReload

=============================================================================
