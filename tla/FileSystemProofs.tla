--------------------------- MODULE FileSystemProofs ---------------------------
(***************************************************************************)
(* The safety properties of FileSystem, proved from the invariant of       *)
(* FileSystemInvariant: first facts about the operators FileSystem is      *)
(* built from (sequences of blocks, the free lists a superblock leads to,  *)
(* what paths reach, the slots of directories), then what each write of an *)
(* operation leaves of the invariant.                                      *)
(***************************************************************************)
EXTENDS FileSystemInvariant, FiniteSetTheorems, TLAPS

-----------------------------------------------------------------------------
(* Sequences and minima.                                                   *)

LEMMA FrontEntries ==
    ASSUME NEW S, NEW s \in Seq(S), s # <<>>
    PROVE  /\ Front(s) \in Seq(S)
           /\ Len(Front(s)) = Len(s) - 1
           /\ DOMAIN Front(s) = 1 .. (Len(s) - 1)
           /\ \A i \in 1 .. (Len(s) - 1) : Front(s)[i] = s[i]
           /\ Len(s) \in Nat /\ Len(s) >= 1 /\ DOMAIN s = 1 .. Len(s)
           /\ Last(s) = s[Len(s)] /\ Last(s) \in S
           /\ Head(s) = s[1] /\ Head(s) \in S
<1>1. Len(s) \in Nat /\ Len(s) > 0 /\ DOMAIN s = 1 .. Len(s)
  OBVIOUS
<1> QED
  BY <1>1 DEF Front, Last

LEMMA TailEntries ==
    ASSUME NEW S, NEW s \in Seq(S), s # <<>>
    PROVE  /\ Tail(s) \in Seq(S)
           /\ Len(Tail(s)) = Len(s) - 1
           /\ DOMAIN Tail(s) = 1 .. (Len(s) - 1)
           /\ \A i \in 1 .. (Len(s) - 1) : Tail(s)[i] = s[i + 1]
           /\ Len(s) \in Nat /\ Len(s) >= 1 /\ DOMAIN s = 1 .. Len(s)
           /\ Head(s) = s[1] /\ Head(s) \in S
  OBVIOUS

LEMMA AppendEntries ==
    ASSUME NEW S, NEW s \in Seq(S), NEW x \in S
    PROVE  /\ Append(s, x) \in Seq(S)
           /\ Len(s) \in Nat
           /\ Len(Append(s, x)) = Len(s) + 1
           /\ DOMAIN Append(s, x) = 1 .. (Len(s) + 1)
           /\ DOMAIN s = 1 .. Len(s)
           /\ \A i \in 1 .. Len(s) : Append(s, x)[i] = s[i]
           /\ Append(s, x)[Len(s) + 1] = x
  OBVIOUS

\* What the last entry leaves is distinct from it and from each other.
LEMMA FrontDistinct ==
    ASSUME NEW S, NEW s \in Seq(S), s # <<>>, Distinct(s)
    PROVE  /\ Distinct(Front(s))
           /\ Range(Front(s)) = Range(s) \ {Last(s)}
           /\ Last(s) \in Range(s)
<1>1. /\ DOMAIN Front(s) = 1 .. (Len(s) - 1) /\ \A i \in 1 .. (Len(s) - 1) : Front(s)[i] = s[i]
      /\ Len(s) \in Nat /\ Len(s) >= 1 /\ DOMAIN s = 1 .. Len(s) /\ Last(s) = s[Len(s)]
  BY FrontEntries
<1>2. Distinct(Front(s)) /\ \A i \in DOMAIN Front(s) : Front(s)[i] # Last(s)
  BY <1>1 DEF Distinct
<1>3. Range(Front(s)) \subseteq Range(s) \ {Last(s)}
  BY <1>1, <1>2 DEF Range
<1>4. ASSUME NEW x \in Range(s) \ {Last(s)} PROVE x \in Range(Front(s))
  <2>1. PICK i \in 1 .. Len(s) : x = s[i]
    BY <1>1 DEF Range
  <2>2. i \in 1 .. (Len(s) - 1)
    BY <1>1, <2>1
  <2> QED
    BY <1>1, <2>1, <2>2 DEF Range
<1> QED
  BY <1>1, <1>2, <1>3, <1>4 DEF Range

LEMMA TailDistinct ==
    ASSUME NEW S, NEW s \in Seq(S), s # <<>>, Distinct(s)
    PROVE  /\ Distinct(Tail(s))
           /\ Range(Tail(s)) = Range(s) \ {Head(s)}
           /\ Head(s) \in Range(s)
           /\ Tail(s) # <<>> => Last(Tail(s)) = Last(s)
<1>1. /\ DOMAIN Tail(s) = 1 .. (Len(s) - 1) /\ \A i \in 1 .. (Len(s) - 1) : Tail(s)[i] = s[i + 1]
      /\ Len(s) \in Nat /\ Len(s) >= 1 /\ DOMAIN s = 1 .. Len(s) /\ Head(s) = s[1]
      /\ Len(Tail(s)) = Len(s) - 1
  BY TailEntries
<1>2. Distinct(Tail(s)) /\ \A i \in DOMAIN Tail(s) : Tail(s)[i] # Head(s)
  BY <1>1 DEF Distinct
<1>3. Range(Tail(s)) \subseteq Range(s) \ {Head(s)}
  BY <1>1, <1>2 DEF Range
<1>4. ASSUME NEW x \in Range(s) \ {Head(s)} PROVE x \in Range(Tail(s))
  <2>1. PICK i \in 1 .. Len(s) : x = s[i]
    BY <1>1 DEF Range
  <2>2. i - 1 \in 1 .. (Len(s) - 1) /\ Tail(s)[i - 1] = s[i]
    BY <1>1, <2>1
  <2> QED
    BY <1>1, <2>1, <2>2 DEF Range
<1>5. Tail(s) # <<>> => Last(Tail(s)) = Last(s)
  <2> SUFFICES ASSUME Tail(s) # <<>> PROVE Last(Tail(s)) = Last(s)
    OBVIOUS
  <2>1. Len(s) - 1 \in 1 .. (Len(s) - 1)
    BY <1>1, TailEntries
  <2>2. Tail(s)[Len(s) - 1] = s[Len(s) - 1 + 1]
    BY <1>1, <2>1
  <2> QED
    BY <1>1, <2>2 DEF Last
<1>6. Head(s) \in Range(s)
  BY <1>1 DEF Range
<1> QED
  BY <1>2, <1>3, <1>4, <1>5, <1>6

LEMMA AppendDistinct ==
    ASSUME NEW S, NEW s \in Seq(S), NEW x \in S
    PROVE  /\ Range(Append(s, x)) = Range(s) \cup {x}
           /\ Distinct(s) /\ x \notin Range(s) => Distinct(Append(s, x))
<1>1. /\ DOMAIN Append(s, x) = 1 .. (Len(s) + 1) /\ DOMAIN s = 1 .. Len(s) /\ Len(s) \in Nat
      /\ \A i \in 1 .. Len(s) : Append(s, x)[i] = s[i]
      /\ Append(s, x)[Len(s) + 1] = x
  BY AppendEntries
<1>2. Range(Append(s, x)) = Range(s) \cup {x}
  <2>1. Range(Append(s, x)) \subseteq Range(s) \cup {x}
    BY <1>1 DEF Range
  <2>2. Range(s) \subseteq Range(Append(s, x)) /\ x \in Range(Append(s, x))
    BY <1>1 DEF Range
  <2> QED
    BY <2>1, <2>2
<1>3. Distinct(s) /\ x \notin Range(s) => Distinct(Append(s, x))
  BY <1>1 DEF Distinct, Range
<1> QED
  BY <1>2, <1>3

LEMMA ConcatEntries ==
    ASSUME NEW S, NEW s \in Seq(S), NEW t \in Seq(S)
    PROVE  /\ s \o t \in Seq(S)
           /\ Len(s \o t) = Len(s) + Len(t) /\ DOMAIN (s \o t) = 1 .. (Len(s) + Len(t))
           /\ Len(s) \in Nat /\ Len(t) \in Nat
           /\ DOMAIN s = 1 .. Len(s) /\ DOMAIN t = 1 .. Len(t)
           /\ \A i \in 1 .. Len(s) : (s \o t)[i] = s[i]
           /\ \A i \in 1 .. Len(t) : (s \o t)[Len(s) + i] = t[i]
           /\ \A i \in (Len(s) + 1) .. (Len(s) + Len(t)) : (s \o t)[i] = t[i - Len(s)]
  OBVIOUS

LEMMA ConcatAppend ==
    ASSUME NEW S, NEW s \in Seq(S), NEW t \in Seq(S), NEW x \in S
    PROVE  s \o Append(t, x) = Append(s \o t, x)
<1> DEFINE a == Append(t, x)
           l == s \o a
           r == Append(s \o t, x)
<1>1. /\ a \in Seq(S) /\ Len(a) = Len(t) + 1
      /\ \A i \in 1 .. Len(t) : a[i] = t[i]
      /\ a[Len(t) + 1] = x
      /\ Len(s) \in Nat /\ Len(t) \in Nat
  OBVIOUS
<1>2. l \in Seq(S) /\ Len(l) = Len(s) + Len(t) + 1
  BY <1>1
<1>3. r \in Seq(S) /\ Len(r) = Len(s) + Len(t) + 1
  OBVIOUS
<1>4. ASSUME NEW i \in 1 .. (Len(s) + Len(t) + 1) PROVE l[i] = r[i]
  <2>1. CASE i \in 1 .. Len(s)
    <3>1. l[i] = s[i]
      BY <1>1, <2>1, ConcatEntries
    <3>2. r[i] = (s \o t)[i]
      BY <1>1, <2>1
    <3>3. (s \o t)[i] = s[i]
      BY <2>1, ConcatEntries
    <3> QED
      BY <3>1, <3>2, <3>3
  <2>2. CASE i \in (Len(s) + 1) .. (Len(s) + Len(t))
    <3>1. l[i] = a[i - Len(s)] /\ i - Len(s) \in 1 .. Len(t)
      BY <1>1, <2>2, ConcatEntries
    <3>2. r[i] = (s \o t)[i]
      BY <1>1, <2>2
    <3>3. (s \o t)[i] = t[i - Len(s)]
      BY <2>2, ConcatEntries
    <3> QED
      BY <1>1, <3>1, <3>2, <3>3
  <2>3. CASE i = Len(s) + Len(t) + 1
    <3>1. l[i] = a[i - Len(s)] /\ i - Len(s) = Len(t) + 1
      BY <1>1, <2>3, ConcatEntries
    <3>2. r[i] = x
      BY <1>1, <2>3
    <3> QED
      BY <1>1, <3>1, <3>2
  <2> QED
    BY <1>1, <2>1, <2>2, <2>3
<1> HIDE DEF l, r
<1>5. l = r
  BY <1>1, <1>2, <1>3, <1>4
<1> QED
  BY <1>5 DEF l, r

LEMMA AppendConcat ==
    ASSUME NEW S
    PROVE  \A s \in Seq(S), x \in S : s \o <<x>> = Append(s, x)
<1> SUFFICES ASSUME NEW s \in Seq(S), NEW x \in S PROVE s \o <<x>> = Append(s, x)
  OBVIOUS
<1>1. \A t \in Seq(S) : s \o Append(t, x) = Append(s \o t, x)
  BY ConcatAppend
<1>2. <<>> \in Seq(S) /\ s \o <<>> = s /\ Append(<<>>, x) = <<x>>
  OBVIOUS
<1> QED
  BY <1>1, <1>2, Zenon

LEMMA SplitSequence ==
    ASSUME NEW S, NEW s \in Seq(S), NEW n \in Nat, n <= Len(s)
    PROVE  SubSeq(s, 1, n) \o SubSeq(s, n + 1, Len(s)) = s
<1> DEFINE m == Len(s)
           a == SubSeq(s, 1, n)
           c == SubSeq(s, n + 1, m)
           u == a \o c
<1>1. m \in Nat /\ n <= m
  OBVIOUS
<1>2. a \in Seq(S) /\ Len(a) = n /\ \A i \in 1 .. n : a[i] = s[i]
  OBVIOUS
<1>3. c \in Seq(S) /\ Len(c) = m - n /\ \A i \in 1 .. (m - n) : c[i] = s[n + i]
  OBVIOUS
<1> HIDE DEF m, a, c
<1>4. /\ u \in Seq(S) /\ Len(u) = m
      /\ \A i \in 1 .. n : u[i] = a[i]
      /\ \A i \in (n + 1) .. m : u[i] = c[i - n]
  <2>1. /\ u \in Seq(S) /\ Len(u) = Len(a) + Len(c)
        /\ \A i \in 1 .. Len(a) : u[i] = a[i]
        /\ \A i \in (Len(a) + 1) .. (Len(a) + Len(c)) : u[i] = c[i - Len(a)]
    <3>1. a \in Seq(S) /\ c \in Seq(S)
      BY <1>2, <1>3
    <3> HIDE DEF u
    <3>2. u = a \o c
      BY DEF u
    <3> QED
      BY <3>1, <3>2, ConcatEntries
  <2> HIDE DEF u
  <2>2. Len(a) + Len(c) = m
    BY <1>1, <1>2, <1>3
  <2> QED
    BY <1>2, <2>1, <2>2
<1> HIDE DEF u
<1>5. ASSUME NEW i \in 1 .. m PROVE u[i] = s[i]
  <2>1. CASE i <= n
    BY <1>1, <1>2, <1>4, <2>1
  <2>2. CASE i > n
    <3>1. i - n \in 1 .. (m - n) /\ n + (i - n) = i
      BY <1>1, <2>2
    <3>2. u[i] = c[i - n]
      BY <1>1, <1>4, <2>2
    <3>3. c[i - n] = s[n + (i - n)]
      BY <1>3, <3>1
    <3> QED
      BY <3>1, <3>2, <3>3
  <2> QED
    BY <1>1, <2>1, <2>2
<1>6. Len(s) = m
  BY DEF m
<1>7. u = s
  BY <1>1, <1>4, <1>5, <1>6
<1> QED
  BY <1>7 DEF u, a, c, m

LEMMA ConcatRange ==
    ASSUME NEW S, NEW s \in Seq(S), NEW t \in Seq(S)
    PROVE  /\ Range(s \o t) = Range(s) \cup Range(t)
           /\ Distinct(s \o t) <=>
                 Distinct(s) /\ Distinct(t) /\ Range(s) \cap Range(t) = {}
<1> DEFINE u == s \o t
<1>1. /\ u \in Seq(S) /\ DOMAIN u = 1 .. (Len(s) + Len(t))
      /\ Len(s) \in Nat /\ Len(t) \in Nat
      /\ DOMAIN s = 1 .. Len(s) /\ DOMAIN t = 1 .. Len(t)
      /\ \A i \in 1 .. Len(s) : u[i] = s[i]
      /\ \A i \in 1 .. Len(t) : u[Len(s) + i] = t[i]
      /\ \A i \in (Len(s) + 1) .. (Len(s) + Len(t)) : u[i] = t[i - Len(s)]
  BY ConcatEntries
<1> HIDE DEF u
<1>2. Range(u) = Range(s) \cup Range(t)
  <2>1. ASSUME NEW i \in DOMAIN u PROVE u[i] \in Range(s) \cup Range(t)
    <3>1. CASE i \in 1 .. Len(s)
      BY <1>1, <3>1 DEF Range
    <3>2. CASE i \in (Len(s) + 1) .. (Len(s) + Len(t))
      <4>1. i - Len(s) \in 1 .. Len(t) /\ u[i] = t[i - Len(s)]
        BY <1>1, <3>2
      <4> QED
        BY <1>1, <4>1 DEF Range
    <3> QED
      BY <1>1, <3>1, <3>2
  <2>2. ASSUME NEW i \in DOMAIN s PROVE s[i] \in Range(u)
    <3>1. i \in DOMAIN u /\ u[i] = s[i]
      BY <1>1
    <3> QED
      BY <3>1 DEF Range
  <2>3. ASSUME NEW i \in DOMAIN t PROVE t[i] \in Range(u)
    <3>1. Len(s) + i \in DOMAIN u /\ u[Len(s) + i] = t[i]
      BY <1>1
    <3> QED
      BY <3>1 DEF Range
  <2> QED
    BY <2>1, <2>2, <2>3 DEF Range
<1>3. ASSUME Distinct(u)
      PROVE  Distinct(s) /\ Distinct(t) /\ Range(s) \cap Range(t) = {}
  <2>1. Distinct(s)
    <3> SUFFICES ASSUME NEW i \in DOMAIN s, NEW j \in DOMAIN s, s[i] = s[j] PROVE i = j
      BY DEF Distinct
    <3>1. i \in DOMAIN u /\ j \in DOMAIN u /\ u[i] = u[j]
      BY <1>1
    <3> QED
      BY <1>3, <3>1 DEF Distinct
  <2>2. Distinct(t)
    <3> SUFFICES ASSUME NEW i \in DOMAIN t, NEW j \in DOMAIN t, t[i] = t[j] PROVE i = j
      BY DEF Distinct
    <3>1. Len(s) + i \in DOMAIN u /\ Len(s) + j \in DOMAIN u /\ u[Len(s) + i] = u[Len(s) + j]
      BY <1>1
    <3>2. Len(s) + i = Len(s) + j
      BY <1>3, <3>1 DEF Distinct
    <3> QED
      BY <1>1, <3>2
  <2>3. ASSUME NEW i \in DOMAIN s, NEW j \in DOMAIN t PROVE s[i] # t[j]
    <3>1. i \in DOMAIN u /\ Len(s) + j \in DOMAIN u /\ u[i] = s[i] /\ u[Len(s) + j] = t[j]
      BY <1>1
    <3>2. i # Len(s) + j
      BY <1>1
    <3> QED
      BY <1>3, <3>1, <3>2 DEF Distinct
  <2> QED
    BY <2>1, <2>2, <2>3 DEF Range
<1>4. ASSUME Distinct(s), Distinct(t), Range(s) \cap Range(t) = {}
      PROVE  Distinct(u)
  <2> SUFFICES ASSUME NEW i \in DOMAIN u, NEW j \in DOMAIN u, u[i] = u[j] PROVE i = j
    BY DEF Distinct
  <2> DEFINE low(k) == k \in 1 .. Len(s) /\ u[k] = s[k]
             high(k) == k - Len(s) \in 1 .. Len(t) /\ u[k] = t[k - Len(s)]
  <2>1. (low(i) \/ high(i)) /\ (low(j) \/ high(j))
    BY <1>1
  <2>2. CASE low(i) /\ low(j)
    BY <1>1, <1>4, <2>2 DEF Distinct
  <2>3. CASE high(i) /\ high(j)
    <3>1. i - Len(s) = j - Len(s)
      BY <1>1, <1>4, <2>3 DEF Distinct
    <3> QED
      BY <1>1, <3>1
  <2>4. \A x \in DOMAIN s, y \in DOMAIN t : s[x] # t[y]
    BY <1>4 DEF Range
  <2>5. ~(low(i) /\ high(j)) /\ ~(high(i) /\ low(j))
    BY <1>1, <2>4
  <2> QED
    BY <2>1, <2>2, <2>3, <2>5
<1> QED
  BY <1>2, <1>3, <1>4 DEF u

\* Every set of numbers has a least one: the intervals that end in them have
\* a least one by inclusion.
LEMMA MinOf ==
    ASSUME NEW S \in SUBSET Nat, S # {}
    PROVE  Min(S) \in S /\ \A x \in S : Min(S) <= x
<1> DEFINE R == StrictSubsetOrdering(Nat)
           F == FiniteSubsetsOf(Nat)
           T == {1 .. n : n \in S}
<1>1. IsWellFoundedOn(R, F)
  BY FS_StrictSubsetOrderingWellFounded
<1>2. T # {} /\ T \subseteq F
  <2>1. ASSUME NEW n \in Nat PROVE 1 .. n \in F
    <3>1. 1 .. n \in SUBSET Nat
      OBVIOUS
    <3>2. IsFiniteSet(1 .. n)
      BY FS_Interval
    <3> QED
      BY <3>1, <3>2 DEF FiniteSubsetsOf
  <2> QED
    BY <2>1
<1>3. \E I \in T : \A J \in T : ~(<<J, I>> \in R)
  <2> HIDE DEF R, F, T
  <2> QED
    BY <1>1, <1>2, WFMin, Zenon
<1>4. PICK x \in S : \A y \in S : ~(<<1 .. y, 1 .. x>> \in R)
  BY <1>3
<1>5. ASSUME NEW y \in S PROVE x <= y
  <2> SUFFICES ASSUME y < x PROVE FALSE
    OBVIOUS
  <2>1. 1 .. y \subseteq 1 .. x /\ x \in 1 .. x /\ x \notin 1 .. y
    OBVIOUS
  <2>2. <<1 .. y, 1 .. x>> \in R
    BY <2>1 DEF StrictSubsetOrdering
  <2> QED
    BY <1>4, <2>2
<1> QED
  BY <1>5 DEF Min

-----------------------------------------------------------------------------
(* The free lists that start in a cache.                                   *)

ListTable == [DataBlocks -> Seq(DataBlocks)]

\* The chain blocks are closed under following the lists ...
LEMMA ChainFollowed ==
    ASSUME NEW cache \in Seq(DataBlocks), NEW lists \in ListTable
    PROVE  /\ ChainBlocks(cache, lists) \subseteq DataBlocks
           /\ \A b \in ChainBlocks(cache, lists) : lists[b] # <<>>
           /\ LeadsInto(cache, lists, ChainBlocks(cache, lists))
           /\ \A b \in ChainBlocks(cache, lists) :
                 LeadsInto(lists[b], lists, ChainBlocks(cache, lists))
<1> DEFINE H == {b \in DataBlocks : lists[b] # <<>>}
           C == ChainBlocks(cache, lists)
<1>1. \A l \in Seq(DataBlocks) : l # <<>> => Head(l) \in DataBlocks
  OBVIOUS
<1>2. \A b \in DataBlocks : lists[b] \in Seq(DataBlocks)
  BY DEF ListTable
<1>3. H \in ChainClosed(cache, lists)
  BY <1>1, <1>2 DEF ChainClosed, LeadsInto
<1>4. C \subseteq H
  BY <1>3 DEF ChainBlocks
<1>5. \A S \in ChainClosed(cache, lists) :
         LeadsInto(cache, lists, S) /\ \A b \in S : LeadsInto(lists[b], lists, S)
  BY DEF ChainClosed
<1>6. \A b \in DataBlocks : b \in C <=> \A S \in ChainClosed(cache, lists) : b \in S
  BY DEF ChainBlocks
<1>7. \A b \in DataBlocks : \A l \in Seq(DataBlocks) :
         (\A S \in ChainClosed(cache, lists) : LeadsInto(l, lists, S)) => LeadsInto(l, lists, C)
  BY <1>1, <1>6 DEF LeadsInto
<1>8. LeadsInto(cache, lists, C)
  BY <1>1, <1>5, <1>6 DEF LeadsInto
<1>9. ASSUME NEW b \in C PROVE LeadsInto(lists[b], lists, C)
  <2>1. b \in DataBlocks /\ lists[b] \in Seq(DataBlocks)
    BY <1>2, <1>4
  <2>2. \A S \in ChainClosed(cache, lists) : LeadsInto(lists[b], lists, S)
    BY <1>5, <1>6, <2>1
  <2> QED
    BY <1>7, <2>1, <2>2
<1> QED
  BY <1>4, <1>8, <1>9

\* ... and no smaller set is.
LEMMA ChainLeast ==
    ASSUME NEW cache, NEW lists, NEW S \in SUBSET DataBlocks,
           \A b \in S : lists[b] # <<>>,
           LeadsInto(cache, lists, S),
           \A b \in S : LeadsInto(lists[b], lists, S)
    PROVE  ChainBlocks(cache, lists) \subseteq S
<1>1. S \in ChainClosed(cache, lists)
  BY DEF ChainClosed
<1> QED
  BY <1>1 DEF ChainBlocks

\* A chain block is the first block of the cache or of another list.
LEMMA ChainHeads ==
    ASSUME NEW cache \in Seq(DataBlocks), NEW lists \in ListTable,
           NEW b \in ChainBlocks(cache, lists)
    PROVE  \/ cache # <<>> /\ b = Head(cache)
           \/ \E a \in ChainBlocks(cache, lists) : b = Head(lists[a])
<1> DEFINE C == ChainBlocks(cache, lists)
           S == {c \in C : \/ cache # <<>> /\ c = Head(cache)
                           \/ \E a \in C : c = Head(lists[a])}
<1>1. /\ C \subseteq DataBlocks /\ \A c \in C : lists[c] # <<>>
      /\ LeadsInto(cache, lists, C) /\ \A c \in C : LeadsInto(lists[c], lists, C)
  BY ChainFollowed
<1> HIDE DEF C
<1>2. LeadsInto(cache, lists, S)
  BY <1>1 DEF LeadsInto
<1>3. ASSUME NEW c \in S PROVE LeadsInto(lists[c], lists, S)
  BY <1>1 DEF LeadsInto
<1>4. C \subseteq S
  <2>1. S \in SUBSET DataBlocks /\ \A c \in S : lists[c] # <<>>
    BY <1>1
  <2> HIDE DEF S
  <2>2. ChainBlocks(cache, lists) \subseteq S
    BY <1>2, <1>3, <2>1, ChainLeast
  <2> QED
    BY <2>2 DEF C
<1> QED
  BY <1>4 DEF C

\* What the lists hold: the chain blocks themselves are among it.
LEMMA FreeBlocksListed ==
    ASSUME NEW cache \in Seq(DataBlocks), NEW lists \in ListTable
    PROVE  /\ FreeBlocks(cache, lists) \subseteq DataBlocks
           /\ Range(cache) \subseteq FreeBlocks(cache, lists)
           /\ \A b \in ChainBlocks(cache, lists) : Range(lists[b]) \subseteq FreeBlocks(cache, lists)
           /\ ChainBlocks(cache, lists) \subseteq FreeBlocks(cache, lists)
<1> DEFINE C == ChainBlocks(cache, lists)
<1>1. C \subseteq DataBlocks /\ \A c \in C : lists[c] # <<>> /\ lists[c] \in Seq(DataBlocks)
  BY ChainFollowed DEF ListTable
<1>2. \A l \in Seq(DataBlocks) : Range(l) \subseteq DataBlocks /\ (l # <<>> => Head(l) \in Range(l))
  <2> SUFFICES ASSUME NEW l \in Seq(DataBlocks)
               PROVE  Range(l) \subseteq DataBlocks /\ (l # <<>> => Head(l) \in Range(l))
    OBVIOUS
  <2>1. Range(l) \subseteq DataBlocks
    BY DEF Range
  <2>2. l # <<>> => Head(l) \in Range(l)
    <3>1. l # <<>> => 1 \in DOMAIN l /\ l[1] = Head(l)
      OBVIOUS
    <3> QED
      BY <3>1 DEF Range
  <2> QED
    BY <2>1, <2>2
<1>3. FreeBlocks(cache, lists) \subseteq DataBlocks
  BY <1>1, <1>2 DEF FreeBlocks
<1>4. \A b \in C : Range(lists[b]) \subseteq FreeBlocks(cache, lists)
  BY DEF FreeBlocks
<1>5. C \subseteq FreeBlocks(cache, lists)
  <2> SUFFICES ASSUME NEW b \in C PROVE b \in FreeBlocks(cache, lists)
    OBVIOUS
  <2>1. (cache # <<>> /\ b = Head(cache)) \/ \E a \in C : b = Head(lists[a])
    BY ChainHeads
  <2>2. b \in Range(cache) \/ \E a \in C : b \in Range(lists[a])
    BY <1>1, <1>2, <2>1
  <2> QED
    BY <1>4, <2>2 DEF FreeBlocks
<1> QED
  BY <1>3, <1>4, <1>5 DEF FreeBlocks

\* A cache that leads to some of the chain blocks another leads to.
LEMMA FewerLists ==
    ASSUME NEW cache \in Seq(DataBlocks), NEW lists \in ListTable,
           ListsSound(cache, lists),
           NEW rest \in Seq(DataBlocks), Distinct(rest), FirstLeads(rest, lists),
           ChainBlocks(rest, lists) \subseteq ChainBlocks(cache, lists),
           \A b \in ChainBlocks(rest, lists) : Range(lists[b]) \cap Range(rest) = {}
    PROVE  ListsSound(rest, lists)
BY DEF ListsSound, ListedOnce

\* Counting blocks.
LEMMA BlocksFinite ==
    ASSUME NEW S \in SUBSET DataBlocks
    PROVE  IsFiniteSet(S) /\ Cardinality(S) \in Nat
<1>1. IsFiniteSet(DataBlocks)
  BY FS_Interval, LayoutAssumption DEF DataBlocks
<1> QED
  BY <1>1, FS_Subset, FS_CardinalityType

LEMMA OneFewer ==
    ASSUME NEW S \in SUBSET DataBlocks, NEW b \in S, NEW T \in SUBSET (S \ {b})
    PROVE  Cardinality(T) <= Cardinality(S) - 1 /\ Cardinality(S) \in Nat /\ Cardinality(T) \in Nat
<1>1. IsFiniteSet(S) /\ Cardinality(S) \in Nat /\ Cardinality(T) \in Nat
  BY BlocksFinite
<1>2. IsFiniteSet(S \ {b}) /\ Cardinality(S \ {b}) = Cardinality(S) - 1
  BY <1>1, FS_RemoveElement
<1>3. Cardinality(T) <= Cardinality(S \ {b})
  BY <1>2, FS_Subset
<1> QED
  BY <1>1, <1>2, <1>3

\* AllocBlock takes the last entry of the cache: it holds no list.
LEMMA PopSound ==
    ASSUME NEW cache \in Seq(DataBlocks), cache # <<>>, NEW lists \in ListTable,
           ListsSound(cache, lists), lists[Last(cache)] = <<>>
    PROVE  /\ Last(cache) \in FreeBlocks(cache, lists)
           /\ ListsSound(Front(cache), lists)
           /\ FreeBlocks(Front(cache), lists) \subseteq FreeBlocks(cache, lists) \ {Last(cache)}
<1> DEFINE C == ChainBlocks(cache, lists)
           rest == Front(cache)
           D == ChainBlocks(rest, lists)
           b == Last(cache)
<1>1. /\ rest \in Seq(DataBlocks) /\ Len(rest) = Len(cache) - 1
      /\ \A i \in 1 .. (Len(cache) - 1) : rest[i] = cache[i]
      /\ Len(cache) \in Nat /\ Len(cache) >= 1 /\ Head(cache) = cache[1]
  BY FrontEntries
<1>2. Distinct(cache)
  BY DEF ListsSound, ListedOnce
<1>3. Distinct(rest) /\ Range(rest) = Range(cache) \ {b} /\ b \in Range(cache)
  BY <1>2, FrontDistinct
<1>4. /\ C \subseteq DataBlocks /\ \A c \in C : lists[c] # <<>>
      /\ LeadsInto(cache, lists, C) /\ \A c \in C : LeadsInto(lists[c], lists, C)
  BY ChainFollowed
<1>5. LeadsInto(rest, lists, C)
  <2>1. rest # <<>> => Head(rest) = Head(cache)
    <3> SUFFICES ASSUME rest # <<>> PROVE Head(rest) = Head(cache)
      OBVIOUS
    <3>1. Len(rest) >= 1 /\ Head(rest) = rest[1]
      BY <1>1
    <3>2. 1 \in 1 .. (Len(cache) - 1)
      BY <1>1, <3>1
    <3> QED
      BY <1>1, <3>1, <3>2
  <2> QED
    BY <1>4, <2>1 DEF LeadsInto
<1>6. D \subseteq C
  BY <1>4, <1>5, ChainLeast
<1>7. FirstLeads(rest, lists)
  BY <1>1 DEF ListsSound, FirstLeads
<1>8. \A c \in C : Range(lists[c]) \cap Range(cache) = {}
  BY DEF ListsSound, ListedOnce
<1>9. ListsSound(rest, lists)
  <2>1. \A c \in D : Range(lists[c]) \cap Range(rest) = {}
    BY <1>3, <1>6, <1>8
  <2> QED
    BY <1>1, <1>3, <1>6, <1>7, <2>1, FewerLists
<1>10. FreeBlocks(rest, lists) \subseteq FreeBlocks(cache, lists) \ {b}
  BY <1>3, <1>6, <1>8 DEF FreeBlocks
<1>11. b \in FreeBlocks(cache, lists)
  BY <1>3 DEF FreeBlocks
<1> QED
  BY <1>9, <1>10, <1>11

\* AllocBlock takes the last entry of the list the only entry of the cache
\* leads to.
LEMMA ReloadSound ==
    ASSUME NEW cache \in Seq(DataBlocks), Len(cache) = 1, NEW lists \in ListTable,
           ListsSound(cache, lists), NEW list, list = lists[Last(cache)], list # <<>>
    PROVE  /\ Last(list) \in FreeBlocks(cache, lists)
           /\ lists[Last(list)] = <<>>
           /\ ListsSound(Front(list), lists)
           /\ FreeBlocks(Front(list), lists) \subseteq FreeBlocks(cache, lists) \ {Last(list)}
           /\ Last(cache) # Last(list) /\ Last(cache) \in FreeBlocks(cache, lists)
<1> DEFINE C == ChainBlocks(cache, lists)
           h == Last(cache)
           rest == Front(list)
           D == ChainBlocks(rest, lists)
           b == Last(list)
<1>1. cache # <<>> /\ Head(cache) = h /\ h \in DataBlocks /\ h \in Range(cache)
  <2>1. cache # <<>> /\ Head(cache) = h /\ h \in DataBlocks /\ h = cache[1] /\ 1 \in DOMAIN cache
    BY DEF Last
  <2> QED
    BY <2>1 DEF Range
<1>2. /\ C \subseteq DataBlocks /\ \A c \in C : lists[c] # <<>>
      /\ LeadsInto(cache, lists, C) /\ \A c \in C : LeadsInto(lists[c], lists, C)
  BY ChainFollowed
<1>3. h \in C
  BY <1>1, <1>2 DEF LeadsInto
<1>4. list \in Seq(DataBlocks)
  BY <1>1 DEF ListTable
<1>5. /\ rest \in Seq(DataBlocks) /\ Len(rest) = Len(list) - 1
      /\ \A i \in 1 .. (Len(list) - 1) : rest[i] = list[i]
      /\ Len(list) \in Nat /\ Len(list) >= 1 /\ Head(list) = list[1] /\ b = list[Len(list)]
  BY <1>4, FrontEntries
<1>6. /\ Distinct(list) /\ FirstLeads(list, lists) /\ Longer(list, lists)
      /\ \A c \in C : Range(lists[c]) \cap Range(cache) = {}
      /\ \A c \in C : c # h => Range(lists[c]) \cap Range(list) = {}
  BY <1>3 DEF ListsSound, ListedOnce
<1>7. Distinct(rest) /\ Range(rest) = Range(list) \ {b} /\ b \in Range(list)
  BY <1>4, <1>6, FrontDistinct
<1>8. lists[b] = <<>>
  <2>1. CASE Len(list) = 1
    <3>1. Longer(list, lists)
      BY <1>6
    <3> QED
      BY <1>5, <2>1, <3>1 DEF Longer
  <2>2. CASE Len(list) # 1
    <3>1. FirstLeads(list, lists)
      BY <1>6
    <3>2. Len(list) \in 2 .. Len(list)
      <4> DEFINE n == Len(list)
      <4>1. n \in Nat /\ n >= 1 /\ n # 1
        BY <1>5, <2>2
      <4> HIDE DEF n
      <4>2. n \in 2 .. n
        BY <4>1
      <4> QED
        BY <4>2 DEF n
    <3> QED
      BY <1>5, <3>1, <3>2 DEF FirstLeads
  <2> QED
    BY <2>1, <2>2
<1>9. \A l \in Seq(DataBlocks) : l # <<>> => Head(l) \in Range(l)
  <2> SUFFICES ASSUME NEW l \in Seq(DataBlocks), l # <<>> PROVE Head(l) \in Range(l)
    OBVIOUS
  <2>1. 1 \in DOMAIN l /\ l[1] = Head(l)
    OBVIOUS
  <2> QED
    BY <2>1 DEF Range
<1>10. LeadsInto(rest, lists, C \ {h})
  <2> SUFFICES ASSUME rest # <<>>, lists[Head(rest)] # <<>> PROVE Head(rest) \in C \ {h}
    BY DEF LeadsInto
  <2>1. Head(rest) = Head(list)
    <3>1. Len(rest) >= 1 /\ Head(rest) = rest[1]
      BY <1>5
    <3>2. 1 \in 1 .. (Len(list) - 1)
      BY <1>5, <3>1
    <3> QED
      BY <1>5, <3>1, <3>2
  <2>2. Head(list) \in C
    BY <1>2, <1>3, <2>1 DEF LeadsInto
  <2>3. Head(list) \in Range(list)
    BY <1>4, <1>9
  <2> QED
    BY <1>1, <1>3, <1>6, <2>1, <2>2, <2>3
<1>11. ASSUME NEW c \in C \ {h} PROVE LeadsInto(lists[c], lists, C \ {h})
  <2>1. lists[c] \in Seq(DataBlocks) /\ lists[c] # <<>>
    BY <1>2 DEF ListTable
  <2>2. Head(lists[c]) # h
    BY <1>1, <1>6, <1>9, <2>1
  <2> QED
    BY <1>2, <2>1, <2>2 DEF LeadsInto
<1>12. D \subseteq C \ {h}
  <2>1. C \ {h} \in SUBSET DataBlocks /\ \A c \in C \ {h} : lists[c] # <<>>
    BY <1>2
  <2> HIDE DEF C, h, rest
  <2>2. ChainBlocks(rest, lists) \subseteq C \ {h}
    BY <1>10, <1>11, <2>1, ChainLeast
  <2> QED
    BY <2>2
<1>13. FirstLeads(rest, lists)
  BY <1>5, <1>6 DEF FirstLeads
<1>14. ListsSound(rest, lists)
  <2>1. \A c \in D : Range(lists[c]) \cap Range(rest) = {}
    BY <1>6, <1>7, <1>12
  <2>2. D \subseteq C
    BY <1>12
  <2> QED
    BY <1>5, <1>7, <1>13, <2>1, <2>2, FewerLists
<1>15. FreeBlocks(rest, lists) \subseteq FreeBlocks(cache, lists) \ {b}
  BY <1>3, <1>6, <1>7, <1>12 DEF FreeBlocks
<1>16. b \in FreeBlocks(cache, lists) /\ h \in FreeBlocks(cache, lists) /\ h # b
  BY <1>1, <1>3, <1>6, <1>7 DEF FreeBlocks
<1> QED
  BY <1>8, <1>14, <1>15, <1>16

\* AllocBlock on sound lists hands out a free block that holds no list, and
\* leaves sound lists without it; the count still covers them.
LEMMA AllocSound ==
    ASSUME NEW cache \in Seq(DataBlocks), cache # <<>>, NEW lists \in ListTable,
           ListsSound(cache, lists),
           NEW total \in Nat, Cardinality(FreeBlocks(cache, lists)) <= total,
           NEW list, list = ChainLoaded(cache, total, lists[Last(cache)]),
           NEW b, b = BlockTaken(cache, list),
           NEW rest, rest = CacheAfterAlloc(cache, list)
    PROVE  /\ b \in FreeBlocks(cache, lists) /\ lists[b] = <<>>
           /\ rest \in Seq(DataBlocks)
           /\ ListsSound(rest, lists)
           /\ FreeBlocks(rest, lists) \subseteq FreeBlocks(cache, lists) \ {b}
           /\ Cardinality(FreeBlocks(rest, lists)) <= total - 1
           /\ total - 1 \in Nat
           /\ ListsShort(cache, lists) => Len(rest) <= MaxFreeBlock
<1> DEFINE F == FreeBlocks(cache, lists)
           h == Last(cache)
<1>1. h \in DataBlocks /\ lists[h] \in Seq(DataBlocks) /\ h = cache[Len(cache)]
  BY FrontEntries DEF ListTable
<1>2. F \subseteq DataBlocks
  BY FreeBlocksListed
<1>3. Len(cache) = 1 /\ lists[h] # <<>> => total > 1
  <2> SUFFICES ASSUME Len(cache) = 1, lists[h] # <<>> PROVE total > 1
    OBVIOUS
  <2>1. h \in F /\ Last(lists[h]) \in F /\ h # Last(lists[h])
    BY <1>1, ReloadSound
  <2>2. Cardinality({h}) <= Cardinality(F) - 1 /\ Cardinality(F) \in Nat
    <3>1. {h} \in SUBSET (F \ {Last(lists[h])})
      BY <2>1
    <3> HIDE DEF F, h
    <3> QED
      BY <1>2, <2>1, <3>1, OneFewer
  <2>3. Cardinality({h}) = 1
    BY FS_Singleton
  <2> QED
    BY <2>2, <2>3
<1>4. /\ b \in F /\ lists[b] = <<>> /\ rest \in Seq(DataBlocks) /\ ListsSound(rest, lists)
      /\ FreeBlocks(rest, lists) \subseteq F \ {b}
      /\ \/ rest = Front(cache)
         \/ rest = Front(lists[h]) /\ lists[h] # <<>>
  <2>1. CASE list = <<>>
    <3>1. b = h /\ rest = Front(cache)
      BY <2>1 DEF BlockTaken, CacheAfterAlloc
    <3>2. lists[h] = <<>>
      <4>1. CASE Len(cache) = 1
        BY <1>3, <2>1, <4>1 DEF ChainLoaded
      <4>2. CASE Len(cache) # 1
        <5> DEFINE n == Len(cache)
        <5>1. n \in Nat /\ n >= 1 /\ n # 1
          BY <4>2, FrontEntries
        <5>2. FirstLeads(cache, lists)
          BY DEF ListsSound
        <5>3. \A k \in 2 .. n : lists[cache[k]] = <<>>
          BY <5>2 DEF FirstLeads
        <5> HIDE DEF n
        <5>4. lists[cache[n]] = <<>>
          BY <5>1, <5>3
        <5> QED
          BY <1>1, <5>4 DEF n
      <4> QED
        BY <4>1, <4>2
    <3>3. Front(cache) \in Seq(DataBlocks)
      BY FrontEntries
    <3>4. h \in F /\ ListsSound(Front(cache), lists) /\ FreeBlocks(Front(cache), lists) \subseteq F \ {h}
      BY <3>2, PopSound
    <3> QED
      BY <3>1, <3>2, <3>3, <3>4
  <2>2. CASE list # <<>>
    <3>1. Len(cache) = 1 /\ list = lists[h]
      BY <2>2 DEF ChainLoaded
    <3>2. b = Last(list) /\ rest = Front(list)
      BY <2>2 DEF BlockTaken, CacheAfterAlloc
    <3>3. Front(lists[h]) \in Seq(DataBlocks)
      BY <1>1, <2>2, <3>1, FrontEntries
    <3>4. /\ Last(lists[h]) \in F /\ lists[Last(lists[h])] = <<>>
          /\ ListsSound(Front(lists[h]), lists)
          /\ FreeBlocks(Front(lists[h]), lists) \subseteq F \ {Last(lists[h])}
      BY <2>2, <3>1, ReloadSound
    <3> QED
      BY <2>2, <3>1, <3>2, <3>3, <3>4
  <2> QED
    BY <2>1, <2>2
<1>5. Cardinality(FreeBlocks(rest, lists)) <= total - 1 /\ total - 1 \in Nat
  <2> DEFINE G == FreeBlocks(rest, lists)
  <2>1. G \in SUBSET (F \ {b}) /\ F \in SUBSET DataBlocks /\ b \in F
    BY <1>2, <1>4
  <2> HIDE DEF F, G
  <2>2. Cardinality(G) <= Cardinality(F) - 1 /\ Cardinality(F) \in Nat /\ Cardinality(G) \in Nat
    BY <2>1, OneFewer
  <2>3. Cardinality(F) <= total
    BY DEF F
  <2>4. Cardinality(G) <= total - 1 /\ total - 1 \in Nat
    BY <2>2, <2>3
  <2> QED
    BY <2>4 DEF G
<1>6. ListsShort(cache, lists) => Len(rest) <= MaxFreeBlock
  <2> SUFFICES ASSUME ListsShort(cache, lists) PROVE Len(rest) <= MaxFreeBlock
    OBVIOUS
  <2>1. Len(cache) <= MaxFreeBlock /\ Len(lists[h]) <= MaxFreeBlock
    BY <1>1 DEF ListsShort
  <2>2. \A s \in Seq(DataBlocks) : s # <<>> /\ Len(s) <= MaxFreeBlock => Len(Front(s)) <= MaxFreeBlock
    BY FrontEntries, MaxFreeBlockAssumption
  <2> QED
    BY <1>1, <1>4, <2>1, <2>2
<1> QED
  BY <1>4, <1>5, <1>6

\* FreeBlock pushes a block that is not free and holds no list.
LEMMA PushSound ==
    ASSUME NEW cache \in Seq(DataBlocks), NEW lists \in ListTable,
           ListsSound(cache, lists),
           NEW b \in DataBlocks, b \notin FreeBlocks(cache, lists), lists[b] = <<>>
    PROVE  /\ ListsSound(Append(cache, b), lists)
           /\ FreeBlocks(Append(cache, b), lists) \subseteq FreeBlocks(cache, lists) \cup {b}
<1> DEFINE C == ChainBlocks(cache, lists)
           full == Append(cache, b)
           D == ChainBlocks(full, lists)
<1>1. /\ full \in Seq(DataBlocks) /\ Len(full) = Len(cache) + 1 /\ Len(cache) \in Nat
      /\ \A i \in 1 .. Len(cache) : full[i] = cache[i]
      /\ full[Len(cache) + 1] = b
  BY AppendEntries
<1>2. /\ C \subseteq DataBlocks /\ \A c \in C : lists[c] # <<>>
      /\ LeadsInto(cache, lists, C) /\ \A c \in C : LeadsInto(lists[c], lists, C)
  BY ChainFollowed
<1>3. /\ Range(cache) \subseteq FreeBlocks(cache, lists)
      /\ \A c \in C : Range(lists[c]) \subseteq FreeBlocks(cache, lists)
  BY FreeBlocksListed
<1>4. LeadsInto(full, lists, C)
  <2>1. cache # <<>> => Head(full) = Head(cache)
    OBVIOUS
  <2>2. cache = <<>> => Head(full) = b
    OBVIOUS
  <2> QED
    BY <1>2, <2>1, <2>2 DEF LeadsInto
<1>5. D \subseteq C
  BY <1>2, <1>4, ChainLeast
<1>6. Distinct(cache) /\ FirstLeads(cache, lists)
      /\ \A c \in C : Range(lists[c]) \cap Range(cache) = {}
  BY DEF ListsSound, ListedOnce
<1>7. FirstLeads(full, lists)
  <2> SUFFICES ASSUME NEW k \in 2 .. Len(full) PROVE lists[full[k]] = <<>>
    BY DEF FirstLeads
  <2>1. CASE k = Len(cache) + 1
    BY <1>1, <2>1
  <2>2. CASE k # Len(cache) + 1
    <3>1. k \in 2 .. Len(cache)
      BY <1>1, <2>2
    <3>2. lists[cache[k]] = <<>>
      BY <1>6, <3>1 DEF FirstLeads
    <3> QED
      BY <1>1, <3>1, <3>2
  <2> QED
    BY <2>1, <2>2
<1>8. Range(full) = Range(cache) \cup {b} /\ Distinct(full)
  BY <1>3, <1>6, AppendDistinct
<1>9. \A c \in D : Range(lists[c]) \cap Range(full) = {}
  BY <1>3, <1>5, <1>6, <1>8
<1>10. ListsSound(full, lists)
  BY <1>1, <1>5, <1>7, <1>8, <1>9, FewerLists
<1>11. FreeBlocks(full, lists) \subseteq FreeBlocks(cache, lists) \cup {b}
  BY <1>5, <1>8 DEF FreeBlocks
<1> QED
  BY <1>10, <1>11

\* A list written into another block changes nothing for this one.
LEMMA OtherList ==
    ASSUME NEW lists \in ListTable, NEW b \in DataBlocks, NEW list \in Seq(DataBlocks),
           NEW after, after = [lists EXCEPT ![b] = list],
           NEW l \in Seq(DataBlocks), b \notin Range(l)
    PROVE  /\ l # <<>> => after[Head(l)] = lists[Head(l)]
           /\ FirstLeads(l, lists) => FirstLeads(l, after)
           /\ l # <<>> /\ Longer(l, lists) => Longer(l, after)
           /\ \A C : LeadsInto(l, lists, C) => LeadsInto(l, after, C)
<1>1. \A i \in 1 .. Len(l) : l[i] \in DataBlocks /\ l[i] # b
  BY DEF Range
<1>2. \A i \in 1 .. Len(l) : after[l[i]] = lists[l[i]]
  BY <1>1 DEF ListTable
<1>3. l # <<>> => Len(l) \in Nat /\ Len(l) >= 1 /\ Head(l) = l[1]
  OBVIOUS
<1>4. l # <<>> => after[Head(l)] = lists[Head(l)]
  BY <1>2, <1>3
<1>5. \A i \in 2 .. Len(l) : after[l[i]] = lists[l[i]]
  BY <1>2
<1>6. FirstLeads(l, lists) => FirstLeads(l, after)
  BY <1>5 DEF FirstLeads
<1>7. l # <<>> /\ Longer(l, lists) => Longer(l, after)
  BY <1>3, <1>4 DEF Longer
<1>8. \A C : LeadsInto(l, lists, C) => LeadsInto(l, after, C)
  BY <1>4 DEF LeadsInto
<1> QED
  BY <1>4, <1>6, <1>7, <1>8

\* A list written into a block that is not free changes nothing for the
\* lists that are there.
LEMMA OtherSound ==
    ASSUME NEW cache \in Seq(DataBlocks), NEW lists \in ListTable,
           ListsSound(cache, lists),
           NEW b \in DataBlocks, b \notin FreeBlocks(cache, lists),
           NEW list \in Seq(DataBlocks), NEW after, after = [lists EXCEPT ![b] = list]
    PROVE  /\ ListsSound(cache, after)
           /\ FreeBlocks(cache, after) \subseteq FreeBlocks(cache, lists)
<1> DEFINE C == ChainBlocks(cache, lists)
           D == ChainBlocks(cache, after)
           F == FreeBlocks(cache, lists)
<1>1. after \in ListTable /\ \A c \in DataBlocks : c # b => after[c] = lists[c]
  BY DEF ListTable
<1>2. /\ C \subseteq DataBlocks /\ \A c \in C : lists[c] # <<>> /\ lists[c] \in Seq(DataBlocks)
      /\ LeadsInto(cache, lists, C) /\ \A c \in C : LeadsInto(lists[c], lists, C)
  BY ChainFollowed DEF ListTable
<1>3. /\ Range(cache) \subseteq F /\ C \subseteq F /\ F \subseteq DataBlocks
      /\ \A c \in C : Range(lists[c]) \subseteq F
  BY FreeBlocksListed
<1>4. \A x \in F : after[x] = lists[x]
  BY <1>1, <1>3
<1>5. \A l \in Seq(DataBlocks) : Range(l) \subseteq F => b \notin Range(l)
  OBVIOUS
<1>8. LeadsInto(cache, after, C) /\ \A c \in C : LeadsInto(after[c], after, C)
  <2>2. LeadsInto(cache, after, C)
    BY <1>2, <1>3, OtherList
  <2>3. ASSUME NEW c \in C PROVE LeadsInto(after[c], after, C)
    <3>1. after[c] = lists[c] /\ lists[c] \in Seq(DataBlocks) /\ b \notin Range(lists[c])
          /\ LeadsInto(lists[c], lists, C)
      BY <1>2, <1>3, <1>4
    <3>2. LeadsInto(lists[c], after, C)
      BY <3>1, OtherList
    <3> QED
      BY <3>1, <3>2
  <2> QED
    BY <2>2, <2>3
<1>9. \A c \in C : after[c] = lists[c]
  BY <1>3, <1>4
<1>10. D \subseteq C
  <2>1. \A c \in C : after[c] # <<>>
    BY <1>2, <1>9
  <2>2. C \in SUBSET DataBlocks
    BY <1>2
  <2>3. C \in ChainClosed(cache, after)
    <3> HIDE DEF C
    <3> QED
      BY <1>8, <2>1, <2>2 DEF ChainClosed
  <2> QED
    BY <2>3 DEF ChainBlocks
<1>11. ListedOnce(cache, lists) /\ FirstLeads(cache, lists)
       /\ \A c \in C : FirstLeads(lists[c], lists) /\ Longer(lists[c], lists)
  BY DEF ListsSound
<1>12. ListedOnce(cache, after)
  BY <1>9, <1>10, <1>11 DEF ListedOnce
<1>13. FirstLeads(cache, after)
  BY <1>3, <1>11, OtherList
<1>14. ASSUME NEW c \in D PROVE FirstLeads(after[c], after) /\ Longer(after[c], after)
  <2>1. c \in C /\ after[c] = lists[c] /\ lists[c] \in Seq(DataBlocks) /\ lists[c] # <<>>
        /\ Range(lists[c]) \subseteq F
    BY <1>2, <1>3, <1>9, <1>10
  <2>2. FirstLeads(lists[c], lists) /\ Longer(lists[c], lists) /\ b \notin Range(lists[c])
    BY <1>11, <2>1
  <2>3. FirstLeads(lists[c], after) /\ Longer(lists[c], after)
    BY <2>1, <2>2, OtherList
  <2> QED
    BY <2>1, <2>3
<1>15. FreeBlocks(cache, after) \subseteq F
  BY <1>9, <1>10 DEF FreeBlocks
<1> QED
  BY <1>12, <1>13, <1>14, <1>15 DEF ListsSound

\* FreeBlock with a full cache: the block takes its entries and becomes the
\* only entry of the new one.
LEMMA SpillSound ==
    ASSUME NEW cache \in Seq(DataBlocks), CacheFull(cache), NEW lists \in ListTable,
           ListsSound(cache, lists),
           NEW b \in DataBlocks, b \notin FreeBlocks(cache, lists),
           NEW after, after = [lists EXCEPT ![b] = cache]
    PROVE  /\ ListsSound(<<b>>, after)
           /\ FreeBlocks(<<b>>, after) \subseteq FreeBlocks(cache, lists) \cup {b}
<1> DEFINE C == ChainBlocks(cache, lists)
           D == ChainBlocks(<<b>>, after)
           F == FreeBlocks(cache, lists)
<1>1. after \in ListTable /\ after[b] = cache /\ \A c \in DataBlocks : c # b => after[c] = lists[c]
  BY DEF ListTable
<1>2. /\ C \subseteq DataBlocks /\ \A c \in C : lists[c] # <<>> /\ lists[c] \in Seq(DataBlocks)
      /\ LeadsInto(cache, lists, C) /\ \A c \in C : LeadsInto(lists[c], lists, C)
  BY ChainFollowed DEF ListTable
<1>3. /\ Range(cache) \subseteq F /\ C \subseteq F /\ F \subseteq DataBlocks
      /\ \A c \in C : Range(lists[c]) \subseteq F
  BY FreeBlocksListed
<1>4. Len(cache) \in Nat /\ Len(cache) >= 2 /\ cache # <<>>
  <2>1. Len(cache) \in Nat /\ Len(cache) >= 2
    BY MaxFreeBlockAssumption DEF CacheFull
  <2> QED
    BY <2>1
<1>5. \A c \in C : after[c] = lists[c] /\ b \notin Range(lists[c])
  BY <1>1, <1>3
<1>6. \A l, S : LeadsInto(l, after, S) => LeadsInto(l, after, S \cup {b})
  BY DEF LeadsInto
<1>7. ASSUME NEW c \in C \cup {b} PROVE LeadsInto(after[c], after, C \cup {b})
  <2>1. CASE c = b
    <3>1. LeadsInto(cache, after, C)
      BY <1>2, <1>3, OtherList
    <3> QED
      BY <1>1, <1>6, <2>1, <3>1
  <2>2. CASE c \in C
    <3>1. after[c] = lists[c] /\ lists[c] \in Seq(DataBlocks) /\ b \notin Range(lists[c])
          /\ LeadsInto(lists[c], lists, C)
      BY <1>2, <1>5, <2>2
    <3>2. LeadsInto(lists[c], after, C)
      BY <3>1, OtherList
    <3> QED
      BY <1>6, <3>1, <3>2
  <2> QED
    BY <2>1, <2>2
<1>8. D \subseteq C \cup {b}
  <2>1. C \cup {b} \subseteq {c \in DataBlocks : after[c] # <<>>}
    BY <1>1, <1>2, <1>4, <1>5
  <2>2. LeadsInto(<<b>>, after, C \cup {b})
    BY DEF LeadsInto
  <2>3. C \cup {b} \in ChainClosed(<<b>>, after)
    <3> HIDE DEF C
    <3> QED
      BY <1>7, <2>1, <2>2 DEF ChainClosed
  <2> QED
    BY <2>3 DEF ChainBlocks
<1>9. ListedOnce(cache, lists) /\ FirstLeads(cache, lists)
      /\ \A c \in C : FirstLeads(lists[c], lists) /\ Longer(lists[c], lists)
  BY DEF ListsSound
<1>10. Range(<<b>>) = {b} /\ Distinct(<<b>>) /\ FirstLeads(<<b>>, after)
  <2>1. DOMAIN <<b>> = {1} /\ <<b>>[1] = b /\ 2 .. Len(<<b>>) = {}
    OBVIOUS
  <2> QED
    BY <2>1 DEF Range, Distinct, FirstLeads
<1>11. \A c \in D : c = b \/ (c \in C /\ after[c] = lists[c])
  BY <1>5, <1>8
<1>12. ListedOnce(<<b>>, after)
  <2>1. ASSUME NEW c \in D PROVE Distinct(after[c]) /\ Range(after[c]) \cap {b} = {}
    BY <1>1, <1>3, <1>5, <1>9, <1>11 DEF ListedOnce
  <2>2. ASSUME NEW c \in D, NEW d \in D, c # d
        PROVE  Range(after[c]) \cap Range(after[d]) = {}
    BY <1>1, <1>9, <1>11, <2>2 DEF ListedOnce
  <2> QED
    BY <1>10, <2>1, <2>2 DEF ListedOnce
<1>13. ASSUME NEW c \in D PROVE FirstLeads(after[c], after) /\ Longer(after[c], after)
  <2>1. CASE c = b
    <3>1. FirstLeads(cache, after)
      BY <1>3, <1>9, OtherList
    <3>2. Longer(cache, after)
      BY <1>4 DEF Longer
    <3> QED
      BY <1>1, <2>1, <3>1, <3>2
  <2>2. CASE c \in C /\ after[c] = lists[c]
    <3>1. /\ lists[c] \in Seq(DataBlocks) /\ b \notin Range(lists[c]) /\ lists[c] # <<>>
          /\ FirstLeads(lists[c], lists) /\ Longer(lists[c], lists)
      BY <1>2, <1>5, <1>9, <2>2
    <3>2. FirstLeads(lists[c], after) /\ Longer(lists[c], after)
      BY <3>1, OtherList
    <3> QED
      BY <2>2, <3>2
  <2> QED
    BY <1>11, <2>1, <2>2
<1>14. FreeBlocks(<<b>>, after) \subseteq F \cup {b}
  <2>1. \A c \in D : Range(after[c]) \subseteq F
    BY <1>1, <1>3, <1>11
  <2> QED
    BY <1>10, <2>1 DEF FreeBlocks
<1> QED
  BY <1>10, <1>12, <1>13, <1>14 DEF ListsSound

-----------------------------------------------------------------------------
(* What a set of links reaches.                                            *)

LinkSet == SUBSET (Inodes \X Inodes)

LEMMA ReachedClosed ==
    ASSUME NEW links \in LinkSet
    PROVE  /\ InodeRoot \in Reached(links)
           /\ Reached(links) \subseteq Inodes
           /\ \A l \in links : l[1] \in Reached(links) => l[2] \in Reached(links)
<1>1. \A l \in links : l[1] \in Inodes /\ l[2] \in Inodes
  BY DEF LinkSet
<1>2. \A S \in PathClosed(links) : InodeRoot \in S /\ \A l \in links : l[1] \in S => l[2] \in S
  BY DEF PathClosed
<1>3. InodeRoot \in Inodes
  BY LayoutAssumption DEF Inodes, InodeRoot
<1> QED
  BY <1>1, <1>2, <1>3 DEF Reached

LEMMA ReachedLeast ==
    ASSUME NEW links, NEW S \in SUBSET Inodes, InodeRoot \in S,
           \A l \in links : l[1] \in S => l[2] \in S
    PROVE  Reached(links) \subseteq S
  BY DEF Reached, PathClosed

\* Links that differ only where nothing reaches.
LEMMA ReachedSame ==
    ASSUME NEW links \in LinkSet, NEW after \in LinkSet,
           \A l \in Inodes \X Inodes : l[1] \in Reached(links) => (l \in links <=> l \in after)
    PROVE  Reached(after) = Reached(links)
<1>1. \A l \in after : l \in Inodes \X Inodes
  BY DEF LinkSet
<1>2. \A l \in links : l \in Inodes \X Inodes
  BY DEF LinkSet
<1>3. Reached(after) \subseteq Reached(links)
  BY <1>1, ReachedClosed, ReachedLeast
<1>4. Reached(links) \subseteq Reached(after)
  <2>1. \A l \in links : l[1] \in Reached(after) => l[2] \in Reached(after)
    BY <1>2, <1>3, ReachedClosed
  <2>2. InodeRoot \in Reached(after) /\ Reached(after) \subseteq Inodes
    BY ReachedClosed
  <2> QED
    BY <2>1, <2>2, ReachedLeast
<1> QED
  BY <1>3, <1>4

\* A new link to an inode that leads nowhere.
LEMMA ReachedLeaf ==
    ASSUME NEW links \in LinkSet, NEW after \in LinkSet,
           NEW d \in Reached(links), NEW i \in Inodes,
           \A l \in Inodes \X Inodes :
              l[1] \in Reached(links) => (l \in after <=> l \in links \/ l = <<d, i>>),
           \A l \in after : l[1] # i
    PROVE  Reached(after) = Reached(links) \cup {i}
<1>1. \A l \in after : l \in Inodes \X Inodes /\ l[1] \in Inodes
  BY DEF LinkSet
<1>2. \A l \in links : l \in Inodes \X Inodes
  BY DEF LinkSet
<1>3. /\ InodeRoot \in Reached(links) /\ Reached(links) \subseteq Inodes
      /\ \A l \in links : l[1] \in Reached(links) => l[2] \in Reached(links)
  BY ReachedClosed
<1>4. /\ InodeRoot \in Reached(after) /\ Reached(after) \subseteq Inodes
      /\ \A l \in after : l[1] \in Reached(after) => l[2] \in Reached(after)
  BY ReachedClosed
<1>5. Reached(after) \subseteq Reached(links) \cup {i}
  <2>1. ASSUME NEW l \in after, l[1] \in Reached(links) \cup {i}
        PROVE  l[2] \in Reached(links) \cup {i}
    <3>1. l[1] \in Reached(links)
      BY <2>1
    <3>2. l \in links \/ l = <<d, i>>
      BY <1>1, <3>1
    <3> QED
      BY <1>3, <3>1, <3>2
  <2>2. Reached(links) \cup {i} \in SUBSET Inodes
    BY <1>3
  <2> QED
    BY <1>3, <2>1, <2>2, ReachedLeast
<1>6. Reached(links) \subseteq Reached(after)
  <2> DEFINE S == Reached(links) \cap Reached(after)
  <2>1. ASSUME NEW l \in links, l[1] \in S PROVE l[2] \in S
    BY <1>2, <1>3, <1>4, <2>1
  <2>2. S \in SUBSET Inodes /\ InodeRoot \in S
    BY <1>3, <1>4
  <2>3. Reached(links) \subseteq S
    <3> HIDE DEF S
    <3> QED
      BY <2>1, <2>2, ReachedLeast
  <2> QED
    BY <2>3
<1>7. i \in Reached(after)
  <2>1. <<d, i>> \in Inodes \X Inodes
    BY <1>3
  <2>2. <<d, i>> \in after /\ d \in Reached(after)
    BY <1>6, <2>1
  <2> QED
    BY <1>4, <2>2
<1> QED
  BY <1>5, <1>6, <1>7

\* The only link to an inode that leads nowhere is gone.
LEMMA ReachedPruned ==
    ASSUME NEW links \in LinkSet, NEW after \in LinkSet,
           NEW d, NEW t \in Inodes \ {InodeRoot},
           \A l \in Inodes \X Inodes :
              l[1] \in Reached(links) => (l \in after <=> l \in links /\ l # <<d, t>>),
           \A l \in links : l[1] # t,
           \A l \in links : l[1] \in Reached(links) /\ l[2] = t => l = <<d, t>>
    PROVE  Reached(after) = Reached(links) \ {t}
<1>1. \A l \in after : l \in Inodes \X Inodes
  BY DEF LinkSet
<1>2. \A l \in links : l \in Inodes \X Inodes
  BY DEF LinkSet
<1>3. /\ InodeRoot \in Reached(links) /\ Reached(links) \subseteq Inodes
      /\ \A l \in links : l[1] \in Reached(links) => l[2] \in Reached(links)
  BY ReachedClosed
<1>4. /\ InodeRoot \in Reached(after) /\ Reached(after) \subseteq Inodes
      /\ \A l \in after : l[1] \in Reached(after) => l[2] \in Reached(after)
  BY ReachedClosed
<1>5. Reached(after) \subseteq Reached(links) \ {t}
  <2>1. ASSUME NEW l \in after, l[1] \in Reached(links) \ {t}
        PROVE  l[2] \in Reached(links) \ {t}
    BY <1>1, <1>3, <2>1
  <2>2. Reached(links) \ {t} \in SUBSET Inodes /\ InodeRoot \in Reached(links) \ {t}
    BY <1>3
  <2> QED
    BY <2>1, <2>2, ReachedLeast
<1>6. Reached(links) \subseteq Reached(after) \cup {t}
  <2>1. ASSUME NEW l \in links, l[1] \in Reached(after) \cup {t}
        PROVE  l[2] \in Reached(after) \cup {t}
    BY <1>2, <1>4, <1>5, <2>1
  <2>2. Reached(after) \cup {t} \in SUBSET Inodes /\ InodeRoot \in Reached(after) \cup {t}
    BY <1>4
  <2> QED
    BY <2>1, <2>2, ReachedLeast
<1> QED
  BY <1>5, <1>6

\* Inodes that only one another lead to are out of reach.
LEMMA ReachedFrom ==
    ASSUME NEW links \in LinkSet, NEW C \in SUBSET Inodes, InodeRoot \notin C,
           \A l \in links : l[1] \in Reached(links) /\ l[2] \in C => l[1] \in C
    PROVE  C \cap Reached(links) = {}
<1>1. /\ InodeRoot \in Reached(links) /\ Reached(links) \subseteq Inodes
      /\ \A l \in links : l[1] \in Reached(links) => l[2] \in Reached(links)
  BY ReachedClosed
<1> DEFINE S == Reached(links) \ C
<1>2. S \in SUBSET Inodes /\ InodeRoot \in S
  BY <1>1
<1>3. ASSUME NEW l \in links, l[1] \in S PROVE l[2] \in S
  BY <1>1, <1>3
<1>4. Reached(links) \subseteq S
  <2> HIDE DEF S
  <2> QED
    BY <1>2, <1>3, ReachedLeast
<1> QED
  BY <1>4

-----------------------------------------------------------------------------
(* The slots of a directory of n blocks.                                   *)

SlotBlockNo(p) == ((p - 1) \div DirSlots) + 1

LEMMA PositionParts ==
    ASSUME NEW n \in Nat, NEW p \in 1 .. (DirSlots * n)
    PROVE  /\ SlotBlockNo(p) \in 1 .. n
           /\ SlotIndex(p) \in 1 .. DirSlots
           /\ p = DirSlots * (SlotBlockNo(p) - 1) + SlotIndex(p)
<1> DEFINE q == (p - 1) \div DirSlots
           r == (p - 1) % DirSlots
<1>1. DirSlots \in Nat /\ DirSlots > 0
  BY LayoutAssumption
<1>2. p - 1 \in Nat /\ p \in Nat /\ p <= DirSlots * n
  BY <1>1
<1>3. q \in Int /\ r \in 0 .. (DirSlots - 1) /\ p - 1 = DirSlots * q + r
  BY <1>1, <1>2
<1> HIDE DEF q, r
<1>4. q >= 0
  <2> SUFFICES ASSUME q <= 0 - 1 PROVE FALSE
    BY <1>3
  <2>1. DirSlots * q <= DirSlots * (0 - 1)
    BY <1>1, <1>3
  <2> QED
    BY <1>1, <1>2, <1>3, <2>1
<1>5. q <= n - 1
  <2> SUFFICES ASSUME q >= n PROVE FALSE
    BY <1>3
  <2>1. DirSlots * q >= DirSlots * n
    BY <1>1, <1>3
  <2> QED
    BY <1>1, <1>2, <1>3, <2>1
<1>6. SlotBlockNo(p) = q + 1 /\ SlotIndex(p) = r + 1
  BY DEF SlotBlockNo, SlotIndex, q, r
<1>7. q + 1 \in 1 .. n /\ r + 1 \in 1 .. DirSlots
  BY <1>1, <1>3, <1>4, <1>5
<1>8. p = DirSlots * ((q + 1) - 1) + (r + 1)
  BY <1>1, <1>2, <1>3
<1>9. SlotBlockNo(p) \in 1 .. n /\ SlotIndex(p) \in 1 .. DirSlots
  BY <1>6, <1>7
<1>10. p = DirSlots * (SlotBlockNo(p) - 1) + SlotIndex(p)
  BY <1>6, <1>8, Zenon
<1> QED
  BY <1>9, <1>10

\* Two positions are not in the same slot of the same block.
LEMMA PositionsApart ==
    ASSUME NEW n \in Nat, NEW p \in 1 .. (DirSlots * n), NEW q \in 1 .. (DirSlots * n),
           SlotBlockNo(p) = SlotBlockNo(q), SlotIndex(p) = SlotIndex(q)
    PROVE  p = q
<1>1. p = DirSlots * (SlotBlockNo(p) - 1) + SlotIndex(p)
  BY PositionParts
<1>2. q = DirSlots * (SlotBlockNo(q) - 1) + SlotIndex(q)
  BY PositionParts
<1> QED
  BY <1>1, <1>2

\* The positions of one more block.
LEMMA PositionsAdded ==
    ASSUME NEW n \in Nat
    PROVE  /\ 1 .. (DirSlots * n) \subseteq 1 .. (DirSlots * (n + 1))
           /\ DirSlots * n \in Nat
           /\ DirSlots * n + 1 \in 1 .. (DirSlots * (n + 1))
           /\ SlotBlockNo(DirSlots * n + 1) = n + 1 /\ SlotIndex(DirSlots * n + 1) = 1
           /\ \A p \in 1 .. (DirSlots * (n + 1)) :
                 p \notin 1 .. (DirSlots * n) =>
                    /\ SlotBlockNo(p) = n + 1
                    /\ SlotIndex(p) = 1 => p = DirSlots * n + 1
<1> DEFINE m == DirSlots * n
<1>1. DirSlots \in Nat /\ DirSlots > 0
  BY LayoutAssumption
<1>2. m \in Nat /\ DirSlots * (n + 1) = m + DirSlots
  BY <1>1
<1>3. 1 .. m \subseteq 1 .. (m + DirSlots) /\ m + 1 \in 1 .. (m + DirSlots)
  <2> HIDE DEF m
  <2> QED
    BY <1>1, <1>2
<1>4. ASSUME NEW p \in 1 .. (m + DirSlots), p \notin 1 .. m
      PROVE  SlotBlockNo(p) = n + 1 /\ p = m + SlotIndex(p) /\ SlotIndex(p) \in 1 .. DirSlots
  <2> DEFINE k == SlotBlockNo(p)
             i == SlotIndex(p)
  <2>1. k \in 1 .. (n + 1) /\ i \in 1 .. DirSlots /\ p = DirSlots * (k - 1) + i
    BY <1>2, PositionParts
  <2> HIDE DEF k, i
  <2>2. k = n + 1
    <3> SUFFICES ASSUME k <= n PROVE FALSE
      BY <2>1
    <3>1. DirSlots * k <= DirSlots * n /\ DirSlots * (k - 1) = DirSlots * k - DirSlots
      BY <1>1, <2>1
    <3>2. p <= m
      BY <1>1, <1>2, <2>1, <3>1
    <3> QED
      BY <1>2, <1>4, <3>2
  <2>3. p = m + i
    BY <1>1, <2>1, <2>2
  <2> QED
    BY <2>1, <2>2, <2>3 DEF k, i
<1>5. m + 1 \notin 1 .. m
  <2> HIDE DEF m
  <2> QED
    BY <1>2
<1>6. SlotBlockNo(m + 1) = n + 1 /\ SlotIndex(m + 1) = 1
  <2>1. SlotBlockNo(m + 1) = n + 1 /\ m + 1 = m + SlotIndex(m + 1) /\ SlotIndex(m + 1) \in 1 .. DirSlots
    <3> HIDE DEF m
    <3> QED
      BY <1>3, <1>4, <1>5
  <2> QED
    BY <1>1, <1>2, <2>1
<1>7. ASSUME NEW p \in 1 .. (m + DirSlots), p \notin 1 .. m, SlotIndex(p) = 1 PROVE p = m + 1
  <2>1. p = m + SlotIndex(p)
    BY <1>4, <1>7
  <2> QED
    BY <1>7, <2>1
<1> QED
  BY <1>2, <1>3, <1>4, <1>6, <1>7

-----------------------------------------------------------------------------
(* What directories and files read as, in a state of the right types.      *)

Payload == DataBlocks \cup Nat \cup Slots

LEMMA SectorTyped ==
    ASSUME NEW content \in Sectors
    PROVE  /\ content.tag \in {"zero", "data", "dir", "ind", "chain"}
           /\ content.list \in Seq(Payload)
           /\ content.tag = "dir" => content \in DirSectors
           /\ content.tag \in {"zero", "ind", "chain"} => content.list \in Seq(DataBlocks)
           /\ Listed(content) \in Seq(DataBlocks)
           /\ content.tag # "chain" => Listed(content) = <<>>
<1>1. CASE content = Zero
  BY <1>1 DEF Zero, Listed
<1>2. CASE content \in [tag : {"data"}, list : Seq(Nat)]
  BY <1>2 DEF Payload, Listed
<1>3. CASE content \in DirSectors
  <2>1. content.tag = "dir" /\ content.list \in [1 .. DirSlots -> Slots]
    BY <1>3 DEF DirSectors
  <2>2. content.list \in Seq(Payload)
    BY <2>1, LayoutAssumption DEF Payload
  <2> QED
    BY <1>3, <2>1, <2>2 DEF Listed
<1>4. CASE content \in [tag : {"ind", "chain"}, list : Seq(DataBlocks)]
  BY <1>4 DEF Payload, Listed
<1> QED
  BY <1>1, <1>2, <1>3, <1>4 DEF Sectors

LEMMA ListsTyped == Typed => Lists \in ListTable
  BY SectorTyped DEF Typed, Lists, ListTable

LEMMA SlotTyped ==
    Typed => \A d \in Inodes : \A p \in Positions(d) :
                /\ SlotBlock(d, p) \in Range(inodes[d].addr)
                /\ SlotBlock(d, p) = inodes[d].addr[SlotBlockNo(p)]
                /\ SlotBlockNo(p) \in 1 .. Len(inodes[d].addr)
                /\ SlotBlock(d, p) \in DataBlocks
                /\ SlotIndex(p) \in 1 .. DirSlots
                /\ SlotAt(d, p) \in Slots
<1> SUFFICES ASSUME Typed, NEW d \in Inodes, NEW p \in Positions(d)
             PROVE  /\ SlotBlock(d, p) \in Range(inodes[d].addr)
                    /\ SlotBlock(d, p) = inodes[d].addr[SlotBlockNo(p)]
                    /\ SlotBlockNo(p) \in 1 .. Len(inodes[d].addr)
                    /\ SlotBlock(d, p) \in DataBlocks
                    /\ SlotIndex(p) \in 1 .. DirSlots
                    /\ SlotAt(d, p) \in Slots
  OBVIOUS
<1>1. inodes[d].addr \in Seq(DataBlocks) /\ Len(inodes[d].addr) \in Nat
  BY DEF Typed, InodeRecords
<1>2. SlotBlockNo(p) \in 1 .. Len(inodes[d].addr) /\ SlotIndex(p) \in 1 .. DirSlots
  BY <1>1, PositionParts DEF Positions
<1>3. SlotBlock(d, p) = inodes[d].addr[SlotBlockNo(p)]
  BY DEF SlotBlock, SlotBlockNo
<1>4. SlotBlock(d, p) \in Range(inodes[d].addr) /\ SlotBlock(d, p) \in DataBlocks
  BY <1>1, <1>2, <1>3 DEF Range
<1>5. disk[SlotBlock(d, p)] \in Sectors
  BY <1>4 DEF Typed
<1>6. EmptySlot \in Slots
  BY DEF EmptySlot, Slot, Slots, SlotNames
<1>7. disk[SlotBlock(d, p)].tag = "dir" =>
        disk[SlotBlock(d, p)].list[SlotIndex(p)] \in Slots
  BY <1>2, <1>5, SectorTyped DEF DirSectors
<1> QED
  BY <1>2, <1>3, <1>4, <1>6, <1>7 DEF SlotAt

LEMMA SlotTypedNext ==
    (Typed => \A d \in Inodes : \A p \in Positions(d) :
                /\ SlotBlock(d, p) \in Range(inodes[d].addr)
                /\ SlotBlock(d, p) = inodes[d].addr[SlotBlockNo(p)]
                /\ SlotBlockNo(p) \in 1 .. Len(inodes[d].addr)
                /\ SlotBlock(d, p) \in DataBlocks
                /\ SlotIndex(p) \in 1 .. DirSlots
                /\ SlotAt(d, p) \in Slots)'
  BY SlotTyped, PTL

LEMMA TreeBasics ==
    Typed => /\ Links \in LinkSet
             /\ Reachable = Reached(Links)
             /\ InodeRoot \in Reachable /\ Reachable \subseteq Inodes
             /\ \A d \in Reachable : IsDir(d) =>
                   \A p \in Children(d) : SlotAt(d, p).ino \in Reachable
             /\ \A l \in Inodes \X Inodes :
                   l \in Links <=> /\ IsDir(l[1])
                                   /\ \E p \in Children(l[1]) : l[2] = SlotAt(l[1], p).ino
<1> SUFFICES ASSUME Typed
             PROVE  /\ Links \in LinkSet
                    /\ Reachable = Reached(Links)
                    /\ InodeRoot \in Reachable /\ Reachable \subseteq Inodes
                    /\ \A d \in Reachable : IsDir(d) =>
                          \A p \in Children(d) : SlotAt(d, p).ino \in Reachable
                    /\ \A l \in Inodes \X Inodes :
                          l \in Links <=> /\ IsDir(l[1])
                                          /\ \E p \in Children(l[1]) : l[2] = SlotAt(l[1], p).ino
  OBVIOUS
<1>1. \A d \in Inodes : \A p \in Children(d) : SlotAt(d, p).ino \in Inodes
  BY SlotTyped DEF Children, Slots
<1>2. Links \in LinkSet
  BY <1>1 DEF Links, LinkSet
<1>3. Reachable = Reached(Links)
  BY DEF Reachable
<1>4. \A l \in Inodes \X Inodes :
          l \in Links <=> /\ IsDir(l[1])
                          /\ \E p \in Children(l[1]) : l[2] = SlotAt(l[1], p).ino
  BY DEF Links
<1>5. /\ InodeRoot \in Reachable /\ Reachable \subseteq Inodes
      /\ \A l \in Links : l[1] \in Reachable => l[2] \in Reachable
  BY <1>2, <1>3, ReachedClosed
<1>6. ASSUME NEW d \in Reachable, IsDir(d), NEW p \in Children(d)
      PROVE  SlotAt(d, p).ino \in Reachable
  <2>1. <<d, SlotAt(d, p).ino>> \in Links
    BY <1>5, <1>6 DEF Links
  <2> QED
    BY <1>5, <1>6, <2>1
<1> QED
  BY <1>2, <1>3, <1>4, <1>5, <1>6

\* The blocks of an inode are those of its address list, those its indirect
\* block lists and that block.
BlockFacts ==
    \A i \in Inodes :
        /\ BlocksOf(i) \in Seq(Payload) /\ Parts(i) \in Seq(Payload)
        /\ Len(BlocksOf(i)) \in Nat /\ Len(Parts(i)) \in Nat
        /\ DOMAIN Parts(i) = 1 .. Len(Parts(i))
        /\ Range(Parts(i)) \subseteq Range(BlocksOf(i))
        /\ Range(inodes[i].addr) \subseteq Range(BlocksOf(i))
        /\ inodes[i].ind # 0 => inodes[i].ind \in Range(BlocksOf(i)) /\ BlocksOf(i) # <<>>
                                /\ Last(BlocksOf(i)) = inodes[i].ind
        /\ inodes[i].ind = 0 => BlocksOf(i) = inodes[i].addr /\ Parts(i) = inodes[i].addr
        /\ inodes[i].ind # 0 => BlocksOf(i) = Append(Parts(i), inodes[i].ind)

LEMMA BlocksTyped == Typed => BlockFacts
<1> SUFFICES ASSUME Typed, NEW i \in Inodes
             PROVE  /\ BlocksOf(i) \in Seq(Payload) /\ Parts(i) \in Seq(Payload)
                    /\ Len(BlocksOf(i)) \in Nat /\ Len(Parts(i)) \in Nat
                    /\ DOMAIN Parts(i) = 1 .. Len(Parts(i))
                    /\ Range(Parts(i)) \subseteq Range(BlocksOf(i))
                    /\ Range(inodes[i].addr) \subseteq Range(BlocksOf(i))
                    /\ inodes[i].ind # 0 => inodes[i].ind \in Range(BlocksOf(i)) /\ BlocksOf(i) # <<>>
                                            /\ Last(BlocksOf(i)) = inodes[i].ind
                    /\ inodes[i].ind = 0 => BlocksOf(i) = inodes[i].addr /\ Parts(i) = inodes[i].addr
                    /\ inodes[i].ind # 0 => BlocksOf(i) = Append(Parts(i), inodes[i].ind)
  BY DEF BlockFacts
<1> DEFINE addr == inodes[i].addr
           ind  == inodes[i].ind
           list == disk[ind].list
<1>1. addr \in Seq(Payload) /\ addr \in Seq(DataBlocks) /\ ind \in {0} \cup DataBlocks
  <2>1. addr \in Seq(DataBlocks) /\ ind \in {0} \cup DataBlocks
    BY DEF Typed, InodeRecords
  <2> QED
    BY <2>1 DEF Payload
<1>2. ind # 0 => list \in Seq(Payload) /\ ind \in Payload
  BY <1>1, SectorTyped DEF Typed, Payload
<1>3. addr \o <<>> = addr
  BY <1>1
<1>4. CASE ind = 0
  <2>1. BlocksOf(i) = addr /\ Parts(i) = addr
    BY <1>3, <1>4 DEF BlocksOf, Parts
  <2>2. Len(addr) \in Nat /\ DOMAIN addr = 1 .. Len(addr)
    BY <1>1
  <2> HIDE DEF addr, ind
  <2> QED
    BY <1>1, <1>4, <2>1, <2>2 DEF addr, ind
<1>5. CASE ind # 0
  <2> DEFINE parts == addr \o list
             all   == addr \o Append(list, ind)
  <2>1. Parts(i) = parts /\ BlocksOf(i) = all
    BY <1>5 DEF BlocksOf, Parts
  <2>2. parts \in Seq(Payload) /\ Append(list, ind) \in Seq(Payload)
    BY <1>1, <1>2, <1>5
  <2>3. all = Append(parts, ind)
    <3>1. addr \in Seq(Payload) /\ list \in Seq(Payload) /\ ind \in Payload
      BY <1>1, <1>2, <1>5
    <3>2. addr \o Append(list, ind) = Append(addr \o list, ind)
      <4>1. \A s \in Seq(Payload), t \in Seq(Payload), x \in Payload : s \o Append(t, x) = Append(s \o t, x)
        BY ConcatAppend
      <4> HIDE DEF addr, list, ind
      <4> QED
        BY <3>1, <4>1, Zenon
    <3> QED
      BY <3>2
  <2>4. Range(addr) \subseteq Range(parts)
    BY <1>1, <1>2, <1>5, ConcatRange
  <2>5. all \in Seq(Payload) /\ all # <<>> /\ Last(all) = ind
    <3> HIDE DEF addr, ind, list
    <3>1. parts \in Seq(Payload) /\ ind \in Payload
      BY <1>2, <1>5, <2>2
    <3> HIDE DEF parts, all
    <3> QED
      BY <2>3, <3>1 DEF Last
  <2>6. Range(all) = Range(parts) \cup {ind}
    <3>1. ind \in Payload
      BY <1>2, <1>5
    <3> HIDE DEF parts, all, ind
    <3> QED
      BY <2>2, <2>3, <3>1, AppendDistinct
  <2>7. Len(parts) \in Nat /\ DOMAIN parts = 1 .. Len(parts) /\ Len(all) \in Nat
    <3> HIDE DEF parts, all
    <3> QED
      BY <2>2, <2>5
  <2> HIDE DEF parts, all, addr, ind
  <2> QED
    BY <1>5, <2>1, <2>2, <2>3, <2>4, <2>5, <2>6, <2>7 DEF addr, ind
<1> QED
  BY <1>4, <1>5

LEMMA BlocksTypedNext == Typed' => BlockFacts'
  BY BlocksTyped, PTL

-----------------------------------------------------------------------------
(* What a step leaves as it was.                                           *)

\* A directory whose address list and blocks a step leaves alone.
LEMMA DirKept ==
    ASSUME Typed, NEW d \in Inodes, inodes'[d].addr = inodes[d].addr,
           \A b \in Range(inodes[d].addr) : disk'[b] = disk[b]
    PROVE  /\ Positions(d)' = Positions(d)
           /\ \A p \in Positions(d) : SlotAt(d, p)' = SlotAt(d, p)
           /\ Children(d)' = Children(d)
           /\ ReadDir(d)' = ReadDir(d)
           /\ DirNames(d)' = DirNames(d)
           /\ FreeSlots(d)' = FreeSlots(d)
           /\ \A name : SlotNamed(d, name)' = SlotNamed(d, name)
<1>1. Positions(d)' = Positions(d)
  BY DEF Positions
<1>2. \A p \in Positions(d) : SlotBlock(d, p)' = SlotBlock(d, p)
  BY DEF SlotBlock
<1>3. \A p \in Positions(d) : disk'[SlotBlock(d, p)] = disk[SlotBlock(d, p)]
  BY SlotTyped
<1>4. \A p \in Positions(d) : SlotAt(d, p)' = SlotAt(d, p)
  BY <1>2, <1>3 DEF SlotAt
<1>5. Children(d)' = Children(d)
  BY <1>1, <1>4 DEF Children
<1>6. ReadDir(d)' = ReadDir(d)
  BY <1>1, <1>4 DEF ReadDir
<1>7. ReadDir(d) \subseteq Positions(d)
  BY DEF ReadDir
<1>8. DirNames(d)' = DirNames(d)
  BY <1>4, <1>6, <1>7 DEF DirNames
<1>9. FreeSlots(d)' = FreeSlots(d)
  BY <1>1, <1>6 DEF FreeSlots
<1>10. ASSUME NEW name PROVE SlotNamed(d, name)' = SlotNamed(d, name)
  <2>1. {p \in ReadDir(d) : SlotAt(d, p).name = name}' = {p \in ReadDir(d) : SlotAt(d, p).name = name}
    BY <1>4, <1>6, <1>7
  <2> QED
    BY <2>1 DEF SlotNamed
<1> QED
  BY <1>1, <1>4, <1>5, <1>6, <1>8, <1>9, <1>10

\* An inode whose record and blocks a step leaves alone.
LEMMA InodeKept ==
    ASSUME Typed, NEW i \in Inodes, inodes'[i] = inodes[i],
           \A b \in Range(BlocksOf(i)) : disk'[b] = disk[b]
    PROVE  /\ BlocksOf(i)' = BlocksOf(i)
           /\ Parts(i)' = Parts(i)
           /\ Intact(i)' = Intact(i)
           /\ IsDir(i)' = IsDir(i)
<1>1. BlockFacts
  BY BlocksTyped
<1>2. inodes[i].ind # 0 => disk'[inodes[i].ind] = disk[inodes[i].ind]
  BY <1>1 DEF BlockFacts
<1>3. BlocksOf(i)' = BlocksOf(i) /\ Parts(i)' = Parts(i)
  BY <1>2 DEF BlocksOf, Parts
<1>4. IsDir(i)' = IsDir(i)
  BY DEF IsDir
<1>5. \A b \in Range(inodes[i].addr) : disk'[b] = disk[b]
  BY <1>1 DEF BlockFacts
<1>6. \A k \in DOMAIN Parts(i) : disk'[Parts(i)[k]] = disk[Parts(i)[k]]
  BY <1>1 DEF BlockFacts, Range
<1>7. Intact(i)' = Intact(i)
  BY <1>2, <1>3, <1>4, <1>5, <1>6 DEF Intact
<1> QED
  BY <1>3, <1>4, <1>7

\* A step reads the same of inode i as before.
Kept(i) ==
    /\ BlocksOf(i)' = BlocksOf(i)
    /\ Parts(i)' = Parts(i)
    /\ Intact(i)' = Intact(i)
    /\ IsDir(i)' = IsDir(i)
    /\ Positions(i)' = Positions(i)
    /\ \A p \in Positions(i) : SlotAt(i, p)' = SlotAt(i, p)
    /\ Children(i)' = Children(i)
    /\ ReadDir(i)' = ReadDir(i)
    /\ DirNames(i)' = DirNames(i)
    /\ FreeSlots(i)' = FreeSlots(i)
    /\ \A name : SlotNamed(i, name)' = SlotNamed(i, name)

LEMMA RecordKept ==
    ASSUME Typed, NEW i \in Inodes, inodes'[i] = inodes[i],
           \A b \in Range(BlocksOf(i)) : disk'[b] = disk[b]
    PROVE  Kept(i)
<1>1. \A b \in Range(inodes[i].addr) : disk'[b] = disk[b]
  BY BlocksTyped DEF BlockFacts
<1>2. inodes'[i].addr = inodes[i].addr
  OBVIOUS
<1> QED
  BY <1>1, <1>2, DirKept, InodeKept DEF Kept

\* The entries of the tree, one by one.
EntriesLead ==
    \A d \in Reachable : IsDir(d) =>
        \A p \in Children(d) :
            LET i == SlotAt(d, p).ino
            IN i # InodeRoot /\ (i \in Gone \/ inodes[i].mode # "free")
EntriesApart ==
    \A d, e \in Reachable : IsDir(d) /\ IsDir(e) =>
        \A p \in Children(d), q \in Children(e) :
            SlotAt(d, p).ino = SlotAt(e, q).ino => d = e /\ p = q

LEMMA TreeLinkedParts ==
    TreeLinked <=> IsDir(InodeRoot) /\ EntriesLead /\ EntriesApart
<1>1. \A d \in Reachable : IsDir(d) => \A p \in Children(d) : <<d, p, SlotAt(d, p).ino>> \in Entries
  BY DEF Entries
<1>2. ASSUME NEW e \in Entries
      PROVE  \E d \in Reachable : IsDir(d) /\ \E p \in Children(d) : e = <<d, p, SlotAt(d, p).ino>>
  BY DEF Entries
<1>3. (\A e \in Entries : e[3] # InodeRoot /\ (e[3] \in Gone \/ inodes[e[3]].mode # "free")) <=> EntriesLead
  <2>1. ASSUME \A e \in Entries : e[3] # InodeRoot /\ (e[3] \in Gone \/ inodes[e[3]].mode # "free")
        PROVE  EntriesLead
    <3> SUFFICES ASSUME NEW d \in Reachable, IsDir(d), NEW p \in Children(d)
                 PROVE  /\ SlotAt(d, p).ino # InodeRoot
                        /\ SlotAt(d, p).ino \in Gone \/ inodes[SlotAt(d, p).ino].mode # "free"
      BY DEF EntriesLead
    <3>1. <<d, p, SlotAt(d, p).ino>> \in Entries
      BY <1>1
    <3> QED
      BY <2>1, <3>1
  <2>2. ASSUME EntriesLead, NEW e \in Entries
        PROVE  e[3] # InodeRoot /\ (e[3] \in Gone \/ inodes[e[3]].mode # "free")
    <3>1. PICK d \in Reachable : IsDir(d) /\ \E p \in Children(d) : e = <<d, p, SlotAt(d, p).ino>>
      BY <1>2
    <3>2. PICK p \in Children(d) : e = <<d, p, SlotAt(d, p).ino>>
      BY <3>1
    <3> QED
      BY <2>2, <3>1, <3>2 DEF EntriesLead
  <2> QED
    BY <2>1, <2>2
<1>4. ASSUME EntriesApart, NEW e \in Entries, NEW f \in Entries, e[3] = f[3] PROVE e = f
  <2>1. PICK d \in Reachable : IsDir(d) /\ \E p \in Children(d) : e = <<d, p, SlotAt(d, p).ino>>
    BY <1>2
  <2>2. PICK p \in Children(d) : e = <<d, p, SlotAt(d, p).ino>>
    BY <2>1
  <2>4. PICK c \in Reachable : IsDir(c) /\ \E q \in Children(c) : f = <<c, q, SlotAt(c, q).ino>>
    BY <1>2
  <2>5. PICK q \in Children(c) : f = <<c, q, SlotAt(c, q).ino>>
    BY <2>4
  <2>3. d = c /\ p = q
    BY <1>4, <2>1, <2>2, <2>4, <2>5 DEF EntriesApart
  <2> QED
    BY <2>2, <2>3, <2>5
<1>5. ASSUME \A e, f \in Entries : e[3] = f[3] => e = f PROVE EntriesApart
  <2> SUFFICES ASSUME NEW d \in Reachable, NEW e \in Reachable, IsDir(d), IsDir(e),
                      NEW p \in Children(d), NEW q \in Children(e),
                      SlotAt(d, p).ino = SlotAt(e, q).ino
               PROVE  d = e /\ p = q
    BY DEF EntriesApart
  <2>1. <<d, p, SlotAt(d, p).ino>> = <<e, q, SlotAt(e, q).ino>>
    BY <1>1, <1>5
  <2> QED
    BY <2>1
<1> QED
  BY <1>3, <1>4, <1>5 DEF TreeLinked

LEMMA TreeLinkedPartsNext ==
    TreeLinked' <=> IsDir(InodeRoot)' /\ EntriesLead' /\ EntriesApart'
  BY TreeLinkedParts, PTL

\* A step leaves the entries of directory i but for "." and "..".
SameChildren(i) ==
    /\ IsDir(i)' = IsDir(i)
    /\ Children(i)' = Children(i)
    /\ \A p \in Children(i) : SlotAt(i, p)' = SlotAt(i, p)

LEMMA KeptChildren == ASSUME NEW i, Kept(i) PROVE SameChildren(i)
<1>1. Children(i) \subseteq Positions(i)
  BY DEF Children
<1> QED
  BY <1>1 DEF Kept, SameChildren

TreeFacts ==
    /\ Links \in LinkSet
    /\ Reachable = Reached(Links)
    /\ InodeRoot \in Reachable /\ Reachable \subseteq Inodes
    /\ \A d \in Reachable : IsDir(d) =>
          \A p \in Children(d) : SlotAt(d, p).ino \in Reachable
    /\ \A l \in Inodes \X Inodes :
          l \in Links <=> /\ IsDir(l[1])
                          /\ \E p \in Children(l[1]) : l[2] = SlotAt(l[1], p).ino

LEMMA TreeFactsHold == Typed => TreeFacts
  BY TreeBasics DEF TreeFacts

LEMMA TreeFactsNext == Typed' => TreeFacts'
  BY TreeFactsHold, PTL

\* A step that changes at most inodes that lead nowhere leaves the tree.
LEMMA TreeKept ==
    ASSUME Typed, Typed', NEW X \in SUBSET (Inodes \ {InodeRoot}),
           \A i \in Reachable \ X : SameChildren(i),
           \A i \in X : (IsDir(i) => Children(i) = {}) /\ (IsDir(i)' => Children(i)' = {})
    PROVE  /\ Reachable' = Reachable
           /\ (\A i \in Reachable : (i \in Gone \/ inodes[i].mode # "free") =>
                                    (i \in Gone' \/ inodes'[i].mode # "free"))
              => (TreeLinked => TreeLinked')
<1>1. TreeFacts /\ TreeFacts'
  BY TreeFactsHold, TreeFactsNext
<1>2. ASSUME NEW i \in Reachable, i \notin X
      PROVE  /\ IsDir(i)' = IsDir(i) /\ Children(i)' = Children(i)
             /\ \A p \in Children(i) : SlotAt(i, p)' = SlotAt(i, p)
  BY <1>2 DEF SameChildren
<1>3. \A l \in Inodes \X Inodes : l[1] \in Reached(Links) => (l \in Links <=> l \in Links')
  <2> SUFFICES ASSUME NEW l \in Inodes \X Inodes, l[1] \in Reachable PROVE l \in Links <=> l \in Links'
    BY <1>1 DEF TreeFacts
  <2>1. l \in Links <=> IsDir(l[1]) /\ \E p \in Children(l[1]) : l[2] = SlotAt(l[1], p).ino
    BY <1>1 DEF TreeFacts
  <2>2. l \in Links' <=> IsDir(l[1])' /\ \E p \in Children(l[1])' : l[2] = SlotAt(l[1], p)'.ino
    BY <1>1 DEF TreeFacts
  <2>3. CASE l[1] \in X
    BY <2>1, <2>2, <2>3
  <2>4. CASE l[1] \notin X
    BY <1>2, <2>1, <2>2, <2>4
  <2> QED
    BY <2>3, <2>4
<1>4. PICK links, after : links = Links /\ after = Links'
  OBVIOUS
<1>5. Reached(after) = Reached(links)
  <2>1. links \in LinkSet /\ after \in LinkSet
    BY <1>1, <1>4 DEF TreeFacts, LinkSet
  <2>2. \A l \in Inodes \X Inodes : l[1] \in Reached(links) => (l \in links <=> l \in after)
    BY <1>3, <1>4
  <2> QED
    BY <2>1, <2>2, ReachedSame
<1>6. Reachable' = Reachable
  BY <1>1, <1>4, <1>5 DEF TreeFacts
<1>7. ASSUME TreeLinked,
             \A i \in Reachable : (i \in Gone \/ inodes[i].mode # "free") =>
                                  (i \in Gone' \/ inodes'[i].mode # "free")
      PROVE  TreeLinked'
  <2>1. IsDir(InodeRoot) /\ EntriesLead /\ EntriesApart
    BY <1>7, TreeLinkedParts
  <2>2. IsDir(InodeRoot)'
    BY <1>1, <1>2, <2>1 DEF TreeFacts
  <2>3. ASSUME NEW d \in Reachable, IsDir(d)', NEW p \in Children(d)'
        PROVE  IsDir(d) /\ p \in Children(d) /\ SlotAt(d, p)' = SlotAt(d, p)
    BY <1>2, <2>3
  <2>4. EntriesLead'
    <3> SUFFICES ASSUME NEW d \in Reachable, IsDir(d)', NEW p \in Children(d)'
                 PROVE  /\ SlotAt(d, p)'.ino # InodeRoot
                        /\ SlotAt(d, p)'.ino \in Gone' \/ inodes'[SlotAt(d, p)'.ino].mode # "free"
      BY <1>6 DEF EntriesLead
    <3>1. /\ SlotAt(d, p).ino # InodeRoot
          /\ SlotAt(d, p).ino \in Gone \/ inodes[SlotAt(d, p).ino].mode # "free"
      BY <2>1, <2>3 DEF EntriesLead
    <3>2. SlotAt(d, p).ino \in Reachable
      BY <1>1, <2>3 DEF TreeFacts
    <3> QED
      BY <1>7, <2>3, <3>1, <3>2
  <2>5. EntriesApart'
    <3> SUFFICES ASSUME NEW d \in Reachable, NEW e \in Reachable, IsDir(d)', IsDir(e)',
                        NEW p \in Children(d)', NEW q \in Children(e)',
                        SlotAt(d, p)'.ino = SlotAt(e, q)'.ino
                 PROVE  d = e /\ p = q
      BY <1>6 DEF EntriesApart
    <3> QED
      BY <2>1, <2>3 DEF EntriesApart
  <2> QED
    BY <2>2, <2>4, <2>5, TreeLinkedPartsNext
<1> QED
  BY <1>6, <1>7

\* A step that adds an entry for an inode that leads nowhere.
LEMMA LeafAdded ==
    ASSUME Typed, Typed', NEW d \in Reachable, IsDir(d), IsDir(d)',
           NEW new, NEW t \in Inodes, t \notin Reachable,
           \A i \in Reachable \ {d} : SameChildren(i),
           Children(d)' = Children(d) \cup {new}, new \notin Children(d),
           \A p \in Children(d) : SlotAt(d, p)' = SlotAt(d, p),
           SlotAt(d, new)'.ino = t,
           IsDir(t)' => Children(t)' = {}
    PROVE  /\ Reachable' = Reachable \cup {t}
           /\ Gone = {} /\ inodes'[t].mode # "free"
              /\ (\A i \in Reachable : inodes[i].mode # "free" => inodes'[i].mode # "free")
              => (TreeLinked => TreeLinked')
<1>1. TreeFacts /\ TreeFacts'
  BY TreeFactsHold, TreeFactsNext
<1>2. \A i \in Reachable : i # d =>
          /\ IsDir(i)' = IsDir(i) /\ Children(i)' = Children(i)
          /\ \A p \in Children(i) : SlotAt(i, p)' = SlotAt(i, p)
  BY DEF SameChildren
<1>3. \A l \in Inodes \X Inodes :
          l[1] \in Reached(Links) => (l \in Links' <=> l \in Links \/ l = <<d, t>>)
  <2> SUFFICES ASSUME NEW l \in Inodes \X Inodes, l[1] \in Reachable
               PROVE  l \in Links' <=> l \in Links \/ l = <<d, t>>
    BY <1>1 DEF TreeFacts
  <2>1. l \in Links <=> IsDir(l[1]) /\ \E p \in Children(l[1]) : l[2] = SlotAt(l[1], p).ino
    BY <1>1 DEF TreeFacts
  <2>2. l \in Links' <=> IsDir(l[1])' /\ \E p \in Children(l[1])' : l[2] = SlotAt(l[1], p)'.ino
    BY <1>1 DEF TreeFacts
  <2>3. CASE l[1] # d
    BY <1>2, <2>1, <2>2, <2>3
  <2>4. CASE l[1] = d
    <3>1. l = <<d, l[2]>>
      BY <2>4
    <3>2. l \in Links <=> \E p \in Children(d) : l[2] = SlotAt(d, p).ino
      BY <2>1, <2>4
    <3>3. l \in Links' <=> \E p \in Children(d)' : l[2] = SlotAt(d, p)'.ino
      BY <2>2, <2>4
    <3>4. (\E p \in Children(d)' : l[2] = SlotAt(d, p)'.ino)
             <=> (\E p \in Children(d) : l[2] = SlotAt(d, p).ino) \/ l[2] = t
      OBVIOUS
    <3> QED
      BY <3>1, <3>2, <3>3, <3>4
  <2> QED
    BY <2>3, <2>4
<1>4. \A l \in Links' : l[1] # t
  <2> SUFFICES ASSUME NEW l \in Links', l[1] = t PROVE FALSE
    OBVIOUS
  <2>1. l \in Inodes \X Inodes
    BY <1>1 DEF TreeFacts, LinkSet
  <2>2. IsDir(t)' /\ Children(t)' # {}
    BY <1>1, <2>1 DEF TreeFacts
  <2> QED
    BY <2>2
<1>5. PICK links, after : links = Links /\ after = Links'
  OBVIOUS
<1>6. Reached(after) = Reached(links) \cup {t}
  <2>1. links \in LinkSet /\ after \in LinkSet
    BY <1>1, <1>5 DEF TreeFacts, LinkSet
  <2>2. \A l \in Inodes \X Inodes :
            l[1] \in Reached(links) => (l \in after <=> l \in links \/ l = <<d, t>>)
    BY <1>3, <1>5
  <2>3. d \in Reached(links) /\ \A l \in after : l[1] # t
    BY <1>1, <1>4, <1>5 DEF TreeFacts
  <2> QED
    BY <2>1, <2>2, <2>3, ReachedLeaf
<1>7. Reachable' = Reachable \cup {t}
  BY <1>1, <1>5, <1>6 DEF TreeFacts
<1>8. ASSUME Gone = {}, inodes'[t].mode # "free", TreeLinked,
             \A i \in Reachable : inodes[i].mode # "free" => inodes'[i].mode # "free"
      PROVE  TreeLinked'
  <2>1. IsDir(InodeRoot) /\ EntriesLead /\ EntriesApart
    BY <1>8, TreeLinkedParts
  <2>2. IsDir(InodeRoot)'
    BY <1>1, <1>2, <2>1 DEF TreeFacts
  <2>3. ASSUME NEW c \in Reachable', IsDir(c)', NEW p \in Children(c)'
        PROVE  /\ c \in Reachable /\ IsDir(c)
               /\ \/ c = d /\ p = new /\ SlotAt(c, p)'.ino = t
                  \/ p \in Children(c) /\ SlotAt(c, p)' = SlotAt(c, p)
                     /\ SlotAt(c, p).ino \in Reachable
    <3>1. c \in Reachable
      BY <1>7, <2>3
    <3> QED
      BY <1>1, <1>2, <2>3, <3>1 DEF TreeFacts
  <2>4. EntriesLead'
    <3> SUFFICES ASSUME NEW c \in Reachable', IsDir(c)', NEW p \in Children(c)'
                 PROVE  /\ SlotAt(c, p)'.ino # InodeRoot
                        /\ SlotAt(c, p)'.ino \in Gone' \/ inodes'[SlotAt(c, p)'.ino].mode # "free"
      BY DEF EntriesLead
    <3>1. CASE SlotAt(c, p)'.ino = t
      BY <1>1, <1>8, <3>1 DEF TreeFacts
    <3>2. CASE /\ c \in Reachable /\ IsDir(c)
               /\ p \in Children(c) /\ SlotAt(c, p)' = SlotAt(c, p) /\ SlotAt(c, p).ino \in Reachable
      BY <1>8, <2>1, <3>2 DEF EntriesLead
    <3> QED
      BY <2>3, <3>1, <3>2
  <2>5. EntriesApart'
    <3> SUFFICES ASSUME NEW c \in Reachable', NEW e \in Reachable', IsDir(c)', IsDir(e)',
                        NEW p \in Children(c)', NEW q \in Children(e)',
                        SlotAt(c, p)'.ino = SlotAt(e, q)'.ino
                 PROVE  c = e /\ p = q
      BY DEF EntriesApart
    <3> QED
      BY <2>1, <2>3 DEF EntriesApart
  <2> QED
    BY <2>2, <2>4, <2>5, TreeLinkedPartsNext
<1> QED
  BY <1>7, <1>8

\* A step that removes the entry of an inode that leads nowhere.
LEMMA LeafRemoved ==
    ASSUME Typed, Typed', TreeLinked, NEW d \in Reachable, IsDir(d), IsDir(d)',
           NEW old \in Children(d), NEW t, t = SlotAt(d, old).ino,
           IsDir(t) => Children(t) = {}, IsDir(t)' => Children(t)' = {},
           \A i \in Reachable \ {d} : SameChildren(i),
           Children(d)' = Children(d) \ {old},
           \A p \in Children(d)' : SlotAt(d, p)' = SlotAt(d, p)
    PROVE  /\ Reachable' = Reachable \ {t}
           /\ t \in Reachable /\ t # InodeRoot /\ t # d
           /\ Gone \subseteq {t} /\ (\A i \in Reachable : inodes'[i] = inodes[i]) => TreeLinked'
<1>1. TreeFacts /\ TreeFacts'
  BY TreeFactsHold, TreeFactsNext
<1>2. \A i \in Reachable : i # d =>
          /\ IsDir(i)' = IsDir(i) /\ Children(i)' = Children(i)
          /\ \A p \in Children(i) : SlotAt(i, p)' = SlotAt(i, p)
  BY DEF SameChildren
<1>3. IsDir(InodeRoot) /\ EntriesLead /\ EntriesApart
  BY TreeLinkedParts
<1>4. t \in Reachable /\ t # InodeRoot /\ t # d /\ t \in Inodes
  BY <1>1, <1>3 DEF TreeFacts, EntriesLead
<1>5. \A l \in Inodes \X Inodes :
          l[1] \in Reached(Links) => (l \in Links' <=> l \in Links /\ l # <<d, t>>)
  <2> SUFFICES ASSUME NEW l \in Inodes \X Inodes, l[1] \in Reachable
               PROVE  l \in Links' <=> l \in Links /\ l # <<d, t>>
    BY <1>1 DEF TreeFacts
  <2>1. l \in Links <=> IsDir(l[1]) /\ \E p \in Children(l[1]) : l[2] = SlotAt(l[1], p).ino
    BY <1>1 DEF TreeFacts
  <2>2. l \in Links' <=> IsDir(l[1])' /\ \E p \in Children(l[1])' : l[2] = SlotAt(l[1], p)'.ino
    BY <1>1 DEF TreeFacts
  <2>3. CASE l[1] # d
    BY <1>2, <2>1, <2>2, <2>3
  <2>4. CASE l[1] = d
    <3>1. l = <<d, l[2]>>
      BY <2>4
    <3>2. l \in Links <=> \E p \in Children(d) : l[2] = SlotAt(d, p).ino
      BY <2>1, <2>4
    <3>3. l \in Links' <=> \E p \in Children(d)' : l[2] = SlotAt(d, p)'.ino
      BY <2>2, <2>4
    <3>4. \A p \in Children(d) : SlotAt(d, p).ino = t => p = old
      BY <1>3 DEF EntriesApart
    <3>5. (\E p \in Children(d)' : l[2] = SlotAt(d, p)'.ino)
             <=> (\E p \in Children(d) : l[2] = SlotAt(d, p).ino) /\ l[2] # t
      BY <3>4
    <3> QED
      BY <3>1, <3>2, <3>3, <3>5
  <2> QED
    BY <2>3, <2>4
<1>6. \A l \in Links : l[1] # t /\ (l[1] \in Reachable /\ l[2] = t => l = <<d, t>>)
  <2> SUFFICES ASSUME NEW l \in Links
               PROVE  l[1] # t /\ (l[1] \in Reachable /\ l[2] = t => l = <<d, t>>)
    OBVIOUS
  <2>1. l \in Inodes \X Inodes /\ l = <<l[1], l[2]>>
    BY <1>1 DEF TreeFacts, LinkSet
  <2>2. IsDir(l[1]) /\ \E p \in Children(l[1]) : l[2] = SlotAt(l[1], p).ino
    BY <1>1, <2>1 DEF TreeFacts
  <2>3. l[1] # t
    BY <2>2
  <2>4. l[1] \in Reachable /\ l[2] = t => l[1] = d
    <3> SUFFICES ASSUME l[1] \in Reachable, l[2] = t PROVE l[1] = d
      OBVIOUS
    <3>1. PICK p \in Children(l[1]) : SlotAt(l[1], p).ino = SlotAt(d, old).ino
      BY <2>2
    <3> QED
      BY <1>3, <2>2, <3>1 DEF EntriesApart
  <2> QED
    BY <2>1, <2>3, <2>4
<1>7. PICK links, after : links = Links /\ after = Links'
  OBVIOUS
<1>8. Reached(after) = Reached(links) \ {t}
  <2>1. links \in LinkSet /\ after \in LinkSet /\ t \in Inodes \ {InodeRoot}
    BY <1>1, <1>4, <1>7 DEF TreeFacts, LinkSet
  <2>2. \A l \in Inodes \X Inodes :
            l[1] \in Reached(links) => (l \in after <=> l \in links /\ l # <<d, t>>)
    BY <1>5, <1>7
  <2>3. \A l \in links : l[1] # t
    BY <1>6, <1>7
  <2>4. \A l \in links : l[1] \in Reached(links) /\ l[2] = t => l = <<d, t>>
    BY <1>1, <1>6, <1>7 DEF TreeFacts
  <2> QED
    BY <2>1, <2>2, <2>3, <2>4, ReachedPruned
<1>9. Reachable' = Reachable \ {t}
  BY <1>1, <1>7, <1>8 DEF TreeFacts
<1>10. ASSUME Gone \subseteq {t}, \A i \in Reachable : inodes'[i] = inodes[i]
       PROVE  TreeLinked'
  <2>2. IsDir(InodeRoot)'
    BY <1>1, <1>3, <1>10 DEF TreeFacts, IsDir
  <2>3. ASSUME NEW c \in Reachable', IsDir(c)', NEW p \in Children(c)'
        PROVE  /\ c \in Reachable /\ IsDir(c) /\ p \in Children(c)
               /\ SlotAt(c, p)' = SlotAt(c, p) /\ SlotAt(c, p).ino \in Reachable
               /\ c = d => p # old
    <3>1. c \in Reachable
      BY <1>9, <2>3
    <3> QED
      BY <1>1, <1>2, <2>3, <3>1 DEF TreeFacts
  <2>4. EntriesLead'
    <3> SUFFICES ASSUME NEW c \in Reachable', IsDir(c)', NEW p \in Children(c)'
                 PROVE  /\ SlotAt(c, p)'.ino # InodeRoot
                        /\ SlotAt(c, p)'.ino \in Gone' \/ inodes'[SlotAt(c, p)'.ino].mode # "free"
      BY DEF EntriesLead
    <3>1. /\ c \in Reachable /\ IsDir(c) /\ p \in Children(c)
          /\ SlotAt(c, p)' = SlotAt(c, p) /\ SlotAt(c, p).ino \in Reachable
          /\ c = d => p # old
      BY <2>3
    <3>2. SlotAt(c, p).ino # t
      BY <1>3, <3>1 DEF EntriesApart
    <3> QED
      BY <1>3, <1>10, <3>1, <3>2 DEF EntriesLead
  <2>5. EntriesApart'
    <3> SUFFICES ASSUME NEW c \in Reachable', NEW e \in Reachable', IsDir(c)', IsDir(e)',
                        NEW p \in Children(c)', NEW q \in Children(e)',
                        SlotAt(c, p)'.ino = SlotAt(e, q)'.ino
                 PROVE  c = e /\ p = q
      BY DEF EntriesApart
    <3> QED
      BY <1>3, <2>3 DEF EntriesApart
  <2> QED
    BY <2>2, <2>4, <2>5, TreeLinkedPartsNext
<1> QED
  BY <1>4, <1>9, <1>10

-----------------------------------------------------------------------------
(* What the invariant says of the running operation.                       *)

LEMMA JobTyped ==
    Typed => /\ job.op = "create" => job \in Creations
             /\ job.op = "remove" => job \in Removals
             /\ job.op \in {"idle", "astray", "create", "remove"}
             /\ job.op = "idle" => job = Idle
<1> SUFFICES ASSUME Typed
             PROVE  /\ job.op = "create" => job \in Creations
                    /\ job.op = "remove" => job \in Removals
                    /\ job.op \in {"idle", "astray", "create", "remove"}
                    /\ job.op = "idle" => job = Idle
  OBVIOUS
<1>1. job = Idle \/ job = Astray \/ job \in Creations \/ job \in Removals
  BY DEF Typed
<1>2. Idle.op = "idle" /\ Astray.op = "astray" /\ (job \in Creations => job.op = "create")
      /\ (job \in Removals => job.op = "remove")
  BY DEF Idle, Astray, Creations, Removals
<1> QED
  BY <1>1, <1>2

LEMMA BlockNumbers == 0 \notin DataBlocks /\ DataBlocks \subseteq Nat
  BY LayoutAssumption DEF DataBlocks

\* The whole tree is sound while a creation runs and while nothing runs.
LEMMA NothingGone ==
    job.op # "remove" =>
        /\ Gone = {} /\ Whole = Reachable /\ BeingFreed = {} /\ Live = Reachable
        /\ RemoveSound /\ FreeingSound
  BY DEF Gone, Whole, BeingFreed, Live, Removing, RemoveSound, FreeingSound

LEMMA NothingGoneNext ==
    (job.op # "remove" =>
        /\ Gone = {} /\ Whole = Reachable /\ BeingFreed = {} /\ Live = Reachable
        /\ RemoveSound /\ FreeingSound)'
  BY NothingGone, PTL

LEMMA Singleton ==
    ASSUME NEW S, NEW x \in S
    PROVE  <<x>> \in Seq(S) /\ Range(<<x>>) = {x} /\ Distinct(<<x>>)
<1>1. <<x>> \in Seq(S) /\ DOMAIN <<x>> = {1} /\ <<x>>[1] = x
  OBVIOUS
<1> QED
  BY <1>1 DEF Range, Distinct

LEMMA EmptySequence ==
    ASSUME NEW S
    PROVE  <<>> \in Seq(S) /\ Range(<<>>) = {} /\ Distinct(<<>>) /\ \A s \in Seq(S) : s \o <<>> = s
  BY DEF Range, Distinct

\* The blocks of the file a creation has so far, and the one it has just
\* taken.
HandFile == job.data \o (IF job.ind = 0 THEN <<>> ELSE <<job.ind>>)
BlockTakenAt(pc) == pc \in {"allocInd", "fill", "dirBlock", "dirInode"}

HandFacts ==
    /\ job.op = "create" =>
          /\ HandFile \in Seq({0} \cup DataBlocks)
          /\ Range(HandFile) = Range(job.data) \cup (IF job.ind = 0 THEN {} ELSE {job.ind})
          /\ Distinct(HandFile) <=> /\ Distinct(job.data)
                                    /\ job.ind # 0 => job.ind \notin Range(job.data)
    /\ job.op = "create" /\ job.pc # "flush" =>
          /\ Range(InHand) = Range(HandFile) \cup (IF BlockTakenAt(job.pc) THEN {job.block} ELSE {})
          /\ Distinct(InHand) <=> /\ Distinct(HandFile)
                                  /\ BlockTakenAt(job.pc) => job.block \notin Range(HandFile)
          /\ ~BlockTakenAt(job.pc) => InHand = HandFile
    /\ job.op = "create" /\ job.pc = "flush" => InHand = <<>>
    /\ job.op = "idle" => InHand = <<>>
    /\ job.op = "remove" => InHand = job.todo

LEMMA HandTyped == Typed => HandFacts
<1> SUFFICES ASSUME Typed PROVE HandFacts
  OBVIOUS
<1> DEFINE N == {0} \cup DataBlocks
           A == IF job.ind = 0 THEN <<>> ELSE <<job.ind>>
           B == IF BlockTakenAt(job.pc) THEN <<job.block>> ELSE <<>>
<1>1. ASSUME job.op = "create"
      PROVE  /\ HandFile \in Seq(N)
             /\ Range(HandFile) = Range(job.data) \cup (IF job.ind = 0 THEN {} ELSE {job.ind})
             /\ Distinct(HandFile) <=> /\ Distinct(job.data)
                                       /\ job.ind # 0 => job.ind \notin Range(job.data)
  <2>1. job.data \in Seq(N) /\ job.ind \in N /\ job.block \in N
    <3>1. job.data \in Seq(DataBlocks) /\ job.ind \in N /\ job.block \in N
      BY <1>1, JobTyped DEF Creations
    <3> QED
      BY <3>1
  <2>2. A \in Seq(N) /\ Range(A) = (IF job.ind = 0 THEN {} ELSE {job.ind}) /\ Distinct(A)
    BY <2>1, Singleton, EmptySequence
  <2>3. HandFile = job.data \o A
    BY DEF HandFile
  <2> HIDE DEF A, N
  <2>4. HandFile \in Seq(N)
    BY <2>1, <2>2, <2>3
  <2>5. Range(HandFile) = Range(job.data) \cup Range(A)
    BY <2>1, <2>2, <2>3, ConcatRange
  <2>6. Distinct(HandFile) <=> Distinct(job.data) /\ Distinct(A) /\ Range(job.data) \cap Range(A) = {}
    BY <2>1, <2>2, <2>3, ConcatRange
  <2> QED
    BY <2>2, <2>4, <2>5, <2>6 DEF N
<1>2. ASSUME job.op = "create", job.pc # "flush"
      PROVE  /\ Range(InHand) = Range(HandFile) \cup (IF BlockTakenAt(job.pc) THEN {job.block} ELSE {})
             /\ Distinct(InHand) <=> /\ Distinct(HandFile)
                                     /\ BlockTakenAt(job.pc) => job.block \notin Range(HandFile)
             /\ ~BlockTakenAt(job.pc) => InHand = HandFile
  <2>1. job.block \in N /\ HandFile \in Seq(N)
    BY <1>1, <1>2, JobTyped DEF Creations
  <2>2. /\ B \in Seq(N) /\ Range(B) = (IF BlockTakenAt(job.pc) THEN {job.block} ELSE {})
        /\ Distinct(B) /\ (~BlockTakenAt(job.pc) => B = <<>>)
    BY <2>1, Singleton, EmptySequence
  <2>3. InHand = HandFile \o B
    BY <1>2 DEF InHand, HandFile, BlockTakenAt
  <2> HIDE DEF B, N
  <2>4. Range(InHand) = Range(HandFile) \cup Range(B)
    BY <2>1, <2>2, <2>3, ConcatRange
  <2>5. Distinct(InHand) <=> Distinct(HandFile) /\ Distinct(B) /\ Range(HandFile) \cap Range(B) = {}
    BY <2>1, <2>2, <2>3, ConcatRange
  <2>6. ~BlockTakenAt(job.pc) => InHand = HandFile
    BY <2>1, <2>2, <2>3, EmptySequence
  <2> QED
    BY <2>2, <2>4, <2>5, <2>6
<1>3. /\ job.op = "create" /\ job.pc = "flush" => InHand = <<>>
      /\ job.op = "idle" => InHand = <<>>
      /\ job.op = "remove" => InHand = job.todo
  BY DEF InHand
<1> QED
  BY <1>1, <1>2, <1>3 DEF HandFacts

LEMMA HandTypedNext == Typed' => HandFacts'
  BY HandTyped, PTL

\* A step that changes no inode but those of X, which lead nowhere and whose
\* blocks or entry are being taken, and that keeps what it frees apart from
\* the others.
LEMMA TreeStays ==
    ASSUME Typed, Typed', TreeSafe, NEW X \in SUBSET (Inodes \ {InodeRoot}),
           Gone \subseteq X, Gone' = X,
           \A i \in Reachable \ X : Kept(i) /\ inodes'[i] = inodes[i],
           \A i \in X : (IsDir(i) => Children(i) = {}) /\ (IsDir(i)' => Children(i)' = {}),
           \A i \in Reachable \ X :
              Range(BlocksOf(i)) \cap Free(sb)' = {} /\ i \notin Range(sb'.freeInode),
           ~Creating("flush")' =>
              \A i \in Reachable \ X :
                 Range(BlocksOf(i)) \cap Free(sbDisk)' = {} /\ i \notin Range(sbDisk'.freeInode)
    PROVE  Reachable' = Reachable /\ TreeSafe'
<1>1. \A i \in Reachable \ X : SameChildren(i)
  BY KeptChildren
<1>2. TreeLinked
  BY DEF TreeSafe
<1>3. Reachable' = Reachable /\ TreeLinked'
  <2>1. \A i \in Reachable : (i \in Gone \/ inodes[i].mode # "free") =>
                             (i \in Gone' \/ inodes'[i].mode # "free")
    OBVIOUS
  <2> QED
    BY <1>1, <1>2, <2>1, TreeKept
<1>4. Whole' = Reachable \ X /\ Reachable \ X \subseteq Whole
  BY <1>3 DEF Whole
<1>5. \A i \in Whole' : i \in Whole /\ BlocksOf(i)' = BlocksOf(i) /\ Intact(i)' = Intact(i)
  BY <1>4 DEF Kept
<1>6. \A i \in Whole' : Intact(i)'
  BY <1>5 DEF TreeSafe
<1>7. BlocksApart(Whole)'
  BY <1>5 DEF TreeSafe, BlocksApart
<1>8. ApartFrom(sb, Whole)'
  BY <1>4, <1>5 DEF ApartFrom
<1>9. ~Creating("flush")' => ApartFrom(sbDisk, Whole)'
  BY <1>4, <1>5 DEF ApartFrom
<1> QED
  BY <1>3, <1>6, <1>7, <1>8, <1>9 DEF TreeSafe

\* What the allocator hands out is nobody's and holds no list; the lists it
\* leaves are sound, and so are those of the superblock on the image.
LEMMA AllocEffect ==
    ASSUME Typed, Bounded, SuperSound(sb), SuperSound(sbDisk), NEW b \in DataBlocks, AllocBlock(b),
           sbDisk' = sbDisk
    PROVE  /\ b \in Free(sb) /\ Lists[b] = <<>> /\ b # 0
           /\ disk' \in [DataBlocks -> Sectors]
           /\ Lists' = Lists
           /\ \A c \in DataBlocks : c # b => disk'[c] = disk[c]
           /\ sb' \in SuperBlocks /\ sb'.freeInode = sb.freeInode
           /\ Free(sb)' \subseteq Free(sb) \ {b} /\ Free(sbDisk)' = Free(sbDisk)
           /\ SuperSound(sb)' /\ SuperSound(sbDisk)'
           /\ ListsShort(sb.freeBlock, Lists)' /\ ListsShort(sbDisk.freeBlock, Lists)'
<1> DEFINE cache == sb.freeBlock
           total == sb.totalFreeBlock
           list  == ChainLoaded(cache, total, Lists[Last(cache)])
           rest  == CacheAfterAlloc(cache, list)
<1>1. cache \in Seq(DataBlocks) /\ cache # <<>> /\ total \in Nat /\ sb \in SuperBlocks
      /\ Lists \in ListTable /\ Last(cache) \in DataBlocks
  <2>1. cache \in Seq(DataBlocks) /\ total \in Nat /\ sb \in SuperBlocks
    BY DEF Typed, SuperBlocks
  <2>2. cache # <<>>
    BY DEF AllocBlock
  <2> QED
    BY <2>1, <2>2, ListsTyped, FrontEntries
<1>2. Lists[Last(cache)] = Listed(disk[Last(cache)])
  BY <1>1 DEF Lists
<1>3. /\ b = BlockTaken(cache, list)
      /\ sb' = [sb EXCEPT !.freeBlock = rest, !.totalFreeBlock = total - 1]
      /\ disk' = [disk EXCEPT ![b] = Zero]
  BY <1>2 DEF AllocBlock
<1>4. ListsSound(cache, Lists) /\ Cardinality(FreeBlocks(cache, Lists)) <= total
  BY DEF SuperSound, Free
<1>5. /\ b \in FreeBlocks(cache, Lists) /\ Lists[b] = <<>>
      /\ rest \in Seq(DataBlocks)
      /\ ListsSound(rest, Lists)
      /\ FreeBlocks(rest, Lists) \subseteq FreeBlocks(cache, Lists) \ {b}
      /\ Cardinality(FreeBlocks(rest, Lists)) <= total - 1
      /\ total - 1 \in Nat
      /\ ListsShort(cache, Lists) => Len(rest) <= MaxFreeBlock
  <2> PICK l, r, lists : l = list /\ r = rest /\ lists = Lists
    OBVIOUS
  <2> HIDE DEF list, rest, cache, total
  <2>1. /\ cache \in Seq(DataBlocks) /\ cache # <<>> /\ lists \in ListTable /\ ListsSound(cache, lists)
        /\ total \in Nat /\ Cardinality(FreeBlocks(cache, lists)) <= total
        /\ l = ChainLoaded(cache, total, lists[Last(cache)])
        /\ b = BlockTaken(cache, l) /\ r = CacheAfterAlloc(cache, l)
    BY <1>1, <1>3, <1>4 DEF list, rest
  <2>2. /\ b \in FreeBlocks(cache, lists) /\ lists[b] = <<>>
        /\ r \in Seq(DataBlocks)
        /\ ListsSound(r, lists)
        /\ FreeBlocks(r, lists) \subseteq FreeBlocks(cache, lists) \ {b}
        /\ Cardinality(FreeBlocks(r, lists)) <= total - 1
        /\ total - 1 \in Nat
        /\ ListsShort(cache, lists) => Len(r) <= MaxFreeBlock
    BY <2>1, AllocSound
  <2> QED
    BY <2>2
<1>6. disk' \in [DataBlocks -> Sectors] /\ \A c \in DataBlocks : c # b => disk'[c] = disk[c]
  BY <1>3 DEF Typed, Sectors
<1>7. Lists' = Lists
  <2>1. disk'[b] = Zero
    BY <1>3 DEF Typed
  <2>2. Listed(Zero) = <<>>
    BY DEF Listed, Zero
  <2>3. \A c \in DataBlocks : Listed(disk'[c]) = Listed(disk[c])
    BY <1>5, <1>6, <2>1, <2>2 DEF Lists
  <2> QED
    BY <2>3 DEF Lists
<1>8. sb'.freeBlock = rest /\ sb'.totalFreeBlock = total - 1 /\ sb'.freeInode = sb.freeInode
      /\ sb' \in SuperBlocks
  <2> HIDE DEF rest
  <2> QED
    BY <1>1, <1>3, <1>5 DEF SuperBlocks
<1> HIDE DEF rest, list
<1>9. Free(sb) = FreeBlocks(cache, Lists) /\ Free(sb)' = FreeBlocks(rest, Lists)
      /\ Free(sbDisk)' = Free(sbDisk)
  BY <1>7, <1>8 DEF Free
<1>10. SuperSound(sb)'
  <2>1. Distinct(sb.freeInode)
    BY DEF SuperSound
  <2> QED
    BY <1>5, <1>7, <1>8, <1>9, <2>1 DEF SuperSound
<1>11. SuperSound(sbDisk)'
  BY <1>7, <1>9 DEF SuperSound
<1>12. ListsShort(sb.freeBlock, Lists)' /\ ListsShort(sbDisk.freeBlock, Lists)'
  BY <1>5, <1>7, <1>8 DEF Bounded, ListsShort
<1> QED
  BY <1>5, <1>6, <1>7, <1>8, <1>9, <1>10, <1>11, <1>12, BlockNumbers

-----------------------------------------------------------------------------
(* The steps of a creation.                                                *)

\* Every part of the invariant but what CreateSound says.
Others == /\ Typed /\ Bounded
          /\ SuperSound(sb) /\ SuperSound(sbDisk)
          /\ TreeSafe /\ HandSafe /\ RemoveSound /\ FreeingSound

LEMMA InvariantParts == IInv <=> Others /\ CreateSound
  BY DEF IInv, Others

LEMMA InvariantPartsNext == IInv' <=> Others' /\ CreateSound'
  BY InvariantParts, PTL

\* The parts of CreateSound that speak of the tree and of what was written.
HandFilled ==
    /\ job.dir \in Reachable /\ IsDir(job.dir)
    /\ job.pc # "flush" =>
          /\ job.ino \notin Reachable \cup Range(sb.freeInode)
          /\ \A k \in DOMAIN job.data : Filled(k)

\* The allocator adds a block to the hand.
LEMMA AllocStep ==
    ASSUME IInv, job.op = "create", job.pc # "flush", NEW b \in DataBlocks, AllocBlock(b),
           UNCHANGED <<inodes, sbDisk, crashes>>,
           job' \in Creations, job'.pc # "flush",
           job'.ino = job.ino, job'.data = job.data, job'.dir = job.dir, job'.kind = job.kind,
           Typed' => /\ Range(InHand)' = Range(InHand) \cup {b}
                     /\ Distinct(InHand) /\ b \notin Range(InHand) => Distinct(InHand)'
    PROVE  /\ Others'
           /\ HandFilled'
           /\ \A c \in Range(InHand) : disk'[c] = disk[c]
<1>1. Typed /\ Bounded /\ SuperSound(sb) /\ SuperSound(sbDisk) /\ TreeSafe /\ HandSafe /\ CreateSound
  BY DEF IInv
<1>2. /\ b \in Free(sb) /\ Lists[b] = <<>> /\ b # 0
      /\ disk' \in [DataBlocks -> Sectors]
      /\ Lists' = Lists
      /\ \A c \in DataBlocks : c # b => disk'[c] = disk[c]
      /\ sb' \in SuperBlocks /\ sb'.freeInode = sb.freeInode
      /\ Free(sb)' \subseteq Free(sb) \ {b} /\ Free(sbDisk)' = Free(sbDisk)
      /\ SuperSound(sb)' /\ SuperSound(sbDisk)'
      /\ ListsShort(sb.freeBlock, Lists)' /\ ListsShort(sbDisk.freeBlock, Lists)'
  BY <1>1, AllocEffect
<1>3. Gone = {} /\ Whole = Reachable /\ Live = Reachable
  BY NothingGone
<1>4. job'.op = "create"
  BY DEF Creations
<1>5. Gone' = {} /\ Whole' = Reachable' /\ Live' = Reachable' /\ RemoveSound' /\ FreeingSound'
  BY <1>4, NothingGoneNext
<1>6. Typed'
  BY <1>1, <1>2 DEF Typed
<1>7. Bounded'
  BY <1>1, <1>2 DEF Bounded
<1>8. Reachable \subseteq Inodes
  BY <1>1, TreeFactsHold DEF TreeFacts
<1>9. Range(InHand) \cap Free(sb) = {} /\ Distinct(InHand)
      /\ (\A i \in Reachable : Range(InHand) \cap Range(BlocksOf(i)) = {})
      /\ (\A c \in Range(InHand) : Lists[c] = <<>>)
  BY <1>1, <1>3 DEF HandSafe
<1>10. \A i \in Reachable : Range(BlocksOf(i)) \cap Free(sb) = {} /\ i \notin Range(sb.freeInode)
  BY <1>1, <1>3 DEF TreeSafe, ApartFrom
<1>11. \A i \in Reachable :
          Range(BlocksOf(i)) \cap Free(sbDisk) = {} /\ i \notin Range(sbDisk.freeInode)
  <2>1. ~Creating("flush")
    BY DEF Creating
  <2> QED
    BY <1>1, <1>3, <2>1 DEF TreeSafe, ApartFrom
<1>12. \A c : c # b => disk'[c] = disk[c]
  BY <1>1 DEF AllocBlock, Typed
<1>13. ASSUME NEW i \in Reachable PROVE Kept(i)
  BY <1>1, <1>2, <1>8, <1>10, <1>12, RecordKept
<1>14. Reachable' = Reachable /\ TreeSafe'
  <2>1. \A i \in Reachable : Range(BlocksOf(i)) \cap Free(sb)' = {} /\ i \notin Range(sb'.freeInode)
    BY <1>2, <1>10
  <2>2. \A i \in Reachable :
           Range(BlocksOf(i)) \cap Free(sbDisk)' = {} /\ i \notin Range(sbDisk'.freeInode)
    BY <1>2, <1>11
  <2> DEFINE X == {}
  <2>3. X \in SUBSET (Inodes \ {InodeRoot}) /\ Gone \subseteq X /\ Gone' = X
    BY <1>3, <1>5
  <2>4. \A i \in Reachable \ X : Kept(i) /\ inodes'[i] = inodes[i]
    BY <1>13
  <2>5. \A i \in X : (IsDir(i) => Children(i) = {}) /\ (IsDir(i)' => Children(i)' = {})
    OBVIOUS
  <2>6. \A i \in Reachable \ X :
           Range(BlocksOf(i)) \cap Free(sb)' = {} /\ i \notin Range(sb'.freeInode)
    BY <2>1
  <2>7. \A i \in Reachable \ X :
           Range(BlocksOf(i)) \cap Free(sbDisk)' = {} /\ i \notin Range(sbDisk'.freeInode)
    BY <2>2
  <2> HIDE DEF X
  <2> QED
    BY <1>1, <1>6, <2>3, <2>4, <2>5, <2>6, <2>7, TreeStays
<1>15. \A i \in Reachable : BlocksOf(i)' = BlocksOf(i) /\ IsDir(i)' = IsDir(i)
  BY <1>13 DEF Kept
<1>16. HandSafe'
  <2>1. Distinct(InHand)'
    BY <1>2, <1>6, <1>9
  <2>2. Range(InHand)' \cap Free(sb)' = {}
    BY <1>2, <1>6, <1>9
  <2>3. \A i \in Live' : Range(InHand)' \cap Range(BlocksOf(i))' = {}
    BY <1>2, <1>5, <1>6, <1>9, <1>10, <1>14, <1>15
  <2>4. \A c \in Range(InHand)' : Lists'[c] = <<>>
    BY <1>2, <1>6, <1>9
  <2> QED
    BY <1>4, <2>1, <2>2, <2>3, <2>4 DEF HandSafe
<1>17. \A c \in Range(InHand) : disk'[c] = disk[c]
  BY <1>2, <1>9, <1>12
<1>18. HandFilled'
  <2>1. /\ job.dir \in Reachable /\ IsDir(job.dir)
        /\ job.ino \notin Reachable \cup Range(sb.freeInode)
        /\ \A k \in DOMAIN job.data : Filled(k)
    BY <1>1 DEF CreateSound
  <2>2. ASSUME NEW k \in DOMAIN job.data PROVE Filled(k)'
    <3>1. job.data[k] \in Range(InHand)
      BY <1>1, HandTyped DEF HandFacts, Range
    <3>2. disk'[job.data[k]] = disk[job.data[k]] /\ Filled(k)
      BY <1>17, <2>1, <3>1
    <3> QED
      BY <3>2 DEF Filled
  <2> QED
    BY <1>2, <1>14, <1>15, <2>1, <2>2 DEF HandFilled
<1> QED
  BY <1>2, <1>5, <1>6, <1>7, <1>14, <1>16, <1>17, <1>18 DEF Others

HandCounts ==
    /\ job.kind = "dir" => job.want = 1
    /\ job.pc \in {"alloc", "allocInd", "fill"} => Len(job.data) < job.want
    /\ Len(job.data) > NAddrDirect => job.ind # 0
    /\ job.ind # 0 => NAddrDirect < job.want
    /\ job.pc = "allocInd" => job.ind = 0 /\ NAddrDirect < job.want
    /\ job.pc = "fill" /\ Len(job.data) >= NAddrDirect => job.ind # 0
    /\ job.pc = "writeInd" => job.ind # 0
    /\ job.pc \in {"allocInd", "fill", "dirBlock", "dirInode"} => job.block # 0

HandWritten ==
    /\ job.pc \in {"inode", "entry", "dirBlock", "dirInode"} /\ job.ind # 0 =>
          disk[job.ind] = Indirect(SubSeq(job.data, NAddrDirect + 1, Len(job.data)))
    /\ job.pc \in {"entry", "dirBlock", "dirInode"} =>
          /\ inodes[job.ino].mode = job.kind
          /\ inodes[job.ino].addr = DirectPart(job.data)
          /\ inodes[job.ino].ind = job.ind
    /\ job.pc \in {"dirBlock", "dirInode"} => Len(inodes[job.dir].addr) < NAddrDirect
    /\ job.pc = "dirInode" => disk[job.block] = DirBlock(<<NewSlot>>)

LEMMA CreateParts ==
    CreateSound <=> (job.op = "create" => HandFilled /\ HandCounts /\ HandWritten)
  BY DEF CreateSound, HandFilled, HandCounts, HandWritten

LEMMA CreatePartsNext ==
    CreateSound' <=> (job'.op = "create" => HandFilled' /\ HandCounts' /\ HandWritten')
<1>1. (CreateSound <=> (job.op = "create" => HandFilled /\ HandCounts /\ HandWritten))'
  BY CreateParts, PTL
<1> QED
  BY <1>1

LEMMA AllocDataBlockStep ==
    ASSUME IInv, NEW b \in DataBlocks, AllocDataBlock(b)
    PROVE  IInv'
<1>1. /\ Typed /\ HandFilled /\ HandCounts /\ HandWritten
      /\ job.op = "create" /\ job.pc = "alloc" /\ job \in Creations
      /\ AllocBlock(b) /\ UNCHANGED <<inodes, sbDisk, crashes>>
  BY CreateParts, JobTyped DEF IInv, AllocDataBlock, Creating
<1>2. job' = [job EXCEPT !.block = b,
                         !.pc = IF Len(job.data) >= NAddrDirect /\ job.ind = 0
                                THEN "allocInd" ELSE "fill"]
  BY DEF AllocDataBlock
<1>3. job' \in Creations /\ job'.op = "create"
  BY <1>1, <1>2 DEF Creations
<1>4. /\ job'.ino = job.ino /\ job'.data = job.data /\ job'.dir = job.dir /\ job'.kind = job.kind
      /\ job'.ind = job.ind /\ job'.want = job.want /\ job'.block = b
      /\ job'.pc \in {"allocInd", "fill"}
      /\ job'.pc = "allocInd" => Len(job.data) >= NAddrDirect /\ job.ind = 0
      /\ job'.pc = "fill" => ~(Len(job.data) >= NAddrDirect /\ job.ind = 0)
  BY <1>1, <1>2 DEF Creations
<1>5. HandFile' = HandFile
  BY <1>4 DEF HandFile
<1>6. ~BlockTakenAt(job.pc) /\ BlockTakenAt(job'.pc)
  BY <1>1, <1>4 DEF BlockTakenAt
<1>7. /\ Range(InHand) = Range(HandFile) /\ (Distinct(InHand) <=> Distinct(HandFile))
  BY <1>1, <1>6, HandTyped DEF HandFacts
<1>8. b # 0
  BY BlockNumbers
<1>9. HandCounts'
  <2>1. Len(job.data) \in Nat /\ job.want \in Nat /\ NAddrDirect \in Nat
    BY <1>1, LayoutAssumption DEF Creations
  <2> QED
    BY <1>1, <1>4, <1>8, <2>1 DEF HandCounts
<1>10. HandWritten'
  BY <1>4 DEF HandWritten
<1>11. Typed' =>
          /\ Range(InHand)' = Range(InHand) \cup {b}
          /\ Distinct(InHand) /\ b \notin Range(InHand) => Distinct(InHand)'
  <2>1. Typed' => /\ Range(InHand)' = Range(HandFile) \cup {b}
                  /\ Distinct(InHand)' <=> Distinct(HandFile) /\ b \notin Range(HandFile)
    <3>1. Typed' => HandFacts'
      BY HandTypedNext
    <3> QED
      BY <1>3, <1>4, <1>5, <1>6, <3>1 DEF HandFacts
  <2> QED
    BY <1>7, <2>1
<1>12. Others' /\ HandFilled'
  BY <1>1, <1>3, <1>4, <1>11, AllocStep
<1> QED
  BY <1>9, <1>10, <1>12, InvariantPartsNext, CreatePartsNext

LEMMA AllocIndirectBlockStep ==
    ASSUME IInv, NEW b \in DataBlocks, AllocIndirectBlock(b)
    PROVE  IInv'
<1>1. /\ Typed /\ HandFilled /\ HandCounts /\ HandWritten
      /\ job.op = "create" /\ job.pc = "allocInd" /\ job \in Creations
      /\ AllocBlock(b) /\ UNCHANGED <<inodes, sbDisk, crashes>>
  BY CreateParts, JobTyped DEF IInv, AllocIndirectBlock, Creating
<1>2. job' = [job EXCEPT !.ind = b, !.pc = "fill"]
  BY DEF AllocIndirectBlock
<1>3. job' \in Creations /\ job'.op = "create"
  BY <1>1, <1>2 DEF Creations
<1>4. /\ job'.ino = job.ino /\ job'.data = job.data /\ job'.dir = job.dir /\ job'.kind = job.kind
      /\ job'.ind = b /\ job'.want = job.want /\ job'.block = job.block
      /\ job'.pc = "fill"
  BY <1>1, <1>2 DEF Creations
<1>5. BlockTakenAt(job.pc) /\ BlockTakenAt(job'.pc)
  BY <1>1, <1>4 DEF BlockTakenAt
<1>6. job.ind = 0 /\ NAddrDirect < job.want /\ job.block # 0 /\ b # 0
  BY <1>1, BlockNumbers DEF HandCounts
<1>7. /\ Range(InHand) = Range(job.data) \cup {job.block}
      /\ Distinct(InHand) <=> Distinct(job.data) /\ job.block \notin Range(job.data)
  BY <1>1, <1>5, <1>6, HandTyped DEF HandFacts
<1>8. HandCounts'
  BY <1>1, <1>4, <1>6 DEF HandCounts
<1>9. HandWritten'
  BY <1>4 DEF HandWritten
<1>10. Typed' =>
          /\ Range(InHand)' = Range(InHand) \cup {b}
          /\ Distinct(InHand) /\ b \notin Range(InHand) => Distinct(InHand)'
  <2>1. Typed' => /\ Range(InHand)' = Range(job.data) \cup {b} \cup {job.block}
                  /\ Distinct(InHand)' <=> /\ Distinct(job.data) /\ b \notin Range(job.data)
                                           /\ job.block \notin Range(job.data) \cup {b}
    <3>1. Typed' => HandFacts'
      BY HandTypedNext
    <3> QED
      BY <1>3, <1>4, <1>5, <1>6, <3>1 DEF HandFacts
  <2> QED
    BY <1>7, <2>1
<1>11. Others' /\ HandFilled'
  BY <1>1, <1>3, <1>4, <1>10, AllocStep
<1> QED
  BY <1>8, <1>9, <1>11, InvariantPartsNext, CreatePartsNext

LEMMA ExpandDirectoryStep ==
    ASSUME IInv, NEW b \in DataBlocks, ExpandDirectory(b)
    PROVE  IInv'
<1>1. /\ Typed /\ HandFilled /\ HandCounts /\ HandWritten
      /\ job.op = "create" /\ job.pc = "entry" /\ job \in Creations
      /\ AllocBlock(b) /\ UNCHANGED <<inodes, sbDisk, crashes>>
      /\ Len(inodes[job.dir].addr) < NAddrDirect
  BY CreateParts, JobTyped DEF IInv, ExpandDirectory, Creating
<1>2. job' = [job EXCEPT !.block = b, !.pc = "dirBlock"]
  BY DEF ExpandDirectory
<1>3. job' \in Creations /\ job'.op = "create"
  BY <1>1, <1>2 DEF Creations
<1>4. /\ job'.ino = job.ino /\ job'.data = job.data /\ job'.dir = job.dir /\ job'.kind = job.kind
      /\ job'.ind = job.ind /\ job'.want = job.want /\ job'.block = b
      /\ job'.pc = "dirBlock"
  BY <1>1, <1>2 DEF Creations
<1>5. HandFile' = HandFile
  BY <1>4 DEF HandFile
<1>6. ~BlockTakenAt(job.pc) /\ BlockTakenAt(job'.pc)
  BY <1>1, <1>4 DEF BlockTakenAt
<1>7. /\ Range(InHand) = Range(HandFile) /\ (Distinct(InHand) <=> Distinct(HandFile))
  BY <1>1, <1>6, HandTyped DEF HandFacts
<1>8. HandCounts'
  BY <1>1, <1>4, BlockNumbers DEF HandCounts
<1>9. Typed' =>
          /\ Range(InHand)' = Range(InHand) \cup {b}
          /\ Distinct(InHand) /\ b \notin Range(InHand) => Distinct(InHand)'
  <2>1. Typed' => /\ Range(InHand)' = Range(HandFile) \cup {b}
                  /\ Distinct(InHand)' <=> Distinct(HandFile) /\ b \notin Range(HandFile)
    <3>1. Typed' => HandFacts'
      BY HandTypedNext
    <3> QED
      BY <1>3, <1>4, <1>5, <1>6, <3>1 DEF HandFacts
  <2> QED
    BY <1>7, <2>1
<1>10. Others' /\ HandFilled' /\ \A c \in Range(InHand) : disk'[c] = disk[c]
  BY <1>1, <1>3, <1>4, <1>9, AllocStep
<1>11. HandWritten'
  <2>1. job.ind # 0 => job.ind \in Range(InHand)
    BY <1>1, <1>7, HandTyped DEF HandFacts
  <2>2. job.ind # 0 => disk'[job.ind] = disk[job.ind]
    BY <1>10, <2>1
  <2> QED
    BY <1>1, <1>4, <2>2 DEF HandWritten
<1> QED
  BY <1>8, <1>10, <1>11, InvariantPartsNext, CreatePartsNext

\* A step writes to blocks in hand, or to the record of the new inode.
LEMMA HandStep ==
    ASSUME IInv, job.op = "create", job.pc # "flush",
           UNCHANGED <<sb, sbDisk, crashes>>,
           inodes' \in [Inodes -> InodeRecords],
           \A i \in Inodes : Len(inodes'[i].addr) <= NAddrDirect,
           \A i \in Inodes \ {job.ino} : inodes'[i] = inodes[i],
           disk' \in [DataBlocks -> Sectors],
           \A c : c \notin Range(InHand) => disk'[c] = disk[c],
           \A c \in Range(InHand) : Listed(disk'[c]) = <<>>,
           job' \in Creations, job'.pc # "flush", job'.ino = job.ino, job'.dir = job.dir,
           Typed' => /\ Range(InHand)' \subseteq Range(InHand)
                     /\ Distinct(InHand) => Distinct(InHand)'
    PROVE  /\ Others'
           /\ job'.dir \in Reachable' /\ IsDir(job.dir)'
           /\ job'.ino \notin Reachable' \cup Range(sb'.freeInode)
<1>1. Typed /\ Bounded /\ SuperSound(sb) /\ SuperSound(sbDisk) /\ TreeSafe /\ HandSafe /\ CreateSound
  BY DEF IInv
<1>2. Gone = {} /\ Whole = Reachable /\ Live = Reachable
  BY NothingGone
<1>3. job'.op = "create"
  BY DEF Creations
<1>4. Gone' = {} /\ Whole' = Reachable' /\ Live' = Reachable' /\ RemoveSound' /\ FreeingSound'
  BY <1>3, NothingGoneNext
<1>5. Typed'
  BY <1>1 DEF Typed
<1>6. Reachable \subseteq Inodes
  BY <1>1, TreeFactsHold DEF TreeFacts
<1>7. Range(InHand) \cap Free(sb) = {} /\ Distinct(InHand)
      /\ (\A i \in Reachable : Range(InHand) \cap Range(BlocksOf(i)) = {})
      /\ (\A c \in Range(InHand) : Lists[c] = <<>>)
  BY <1>1, <1>2 DEF HandSafe
<1>8. Lists' = Lists
  <2>1. \A c \in DataBlocks : Listed(disk'[c]) = Listed(disk[c])
    BY <1>7 DEF Lists
  <2> QED
    BY <2>1 DEF Lists
<1>9. Free(sb)' = Free(sb) /\ Free(sbDisk)' = Free(sbDisk)
  BY <1>8 DEF Free
<1>10. SuperSound(sb)' /\ SuperSound(sbDisk)'
  BY <1>1, <1>8, <1>9 DEF SuperSound
<1>11. Bounded'
  BY <1>1, <1>8 DEF Bounded
<1>12. job.dir \in Reachable /\ IsDir(job.dir) /\ job.ino \notin Reachable \cup Range(sb.freeInode)
  BY <1>1 DEF CreateSound
<1>13. ASSUME NEW i \in Reachable PROVE Kept(i) /\ inodes'[i] = inodes[i]
  <2>1. i \in Inodes /\ inodes'[i] = inodes[i]
    BY <1>6, <1>12
  <2>2. \A c \in Range(BlocksOf(i)) : disk'[c] = disk[c]
    BY <1>7
  <2> QED
    BY <1>1, <2>1, <2>2, RecordKept
<1>14. Reachable' = Reachable /\ TreeSafe'
  <2>1. \A i \in Reachable : Range(BlocksOf(i)) \cap Free(sb)' = {} /\ i \notin Range(sb'.freeInode)
    BY <1>1, <1>2, <1>9 DEF TreeSafe, ApartFrom
  <2>2. \A i \in Reachable :
           Range(BlocksOf(i)) \cap Free(sbDisk)' = {} /\ i \notin Range(sbDisk'.freeInode)
    <3>1. ~Creating("flush")
      BY DEF Creating
    <3> QED
      BY <1>1, <1>2, <1>9, <3>1 DEF TreeSafe, ApartFrom
  <2> DEFINE X == {}
  <2>3. X \in SUBSET (Inodes \ {InodeRoot}) /\ Gone \subseteq X /\ Gone' = X
    BY <1>2, <1>4
  <2>4. \A i \in Reachable \ X : Kept(i) /\ inodes'[i] = inodes[i]
    BY <1>13
  <2>5. \A i \in X : (IsDir(i) => Children(i) = {}) /\ (IsDir(i)' => Children(i)' = {})
    OBVIOUS
  <2>6. \A i \in Reachable \ X :
           Range(BlocksOf(i)) \cap Free(sb)' = {} /\ i \notin Range(sb'.freeInode)
    BY <2>1
  <2>7. \A i \in Reachable \ X :
           Range(BlocksOf(i)) \cap Free(sbDisk)' = {} /\ i \notin Range(sbDisk'.freeInode)
    BY <2>2
  <2> HIDE DEF X
  <2> QED
    BY <1>1, <1>5, <2>3, <2>4, <2>5, <2>6, <2>7, TreeStays
<1>15. \A i \in Reachable : BlocksOf(i)' = BlocksOf(i) /\ IsDir(i)' = IsDir(i)
  BY <1>13 DEF Kept
<1>16. HandSafe'
  <2>1. Distinct(InHand)'
    BY <1>5, <1>7
  <2>2. Range(InHand)' \cap Free(sb)' = {}
    BY <1>5, <1>7, <1>9
  <2>3. \A i \in Live' : Range(InHand)' \cap Range(BlocksOf(i))' = {}
    BY <1>4, <1>5, <1>7, <1>14, <1>15
  <2>4. \A c \in Range(InHand)' : Lists'[c] = <<>>
    BY <1>5, <1>7, <1>8
  <2> QED
    BY <1>3, <2>1, <2>2, <2>3, <2>4 DEF HandSafe
<1> QED
  BY <1>4, <1>5, <1>10, <1>11, <1>12, <1>14, <1>15, <1>16 DEF Others

\* Directory blocks read as their slots.
LEMMA DirBlockTyped ==
    ASSUME NEW n \in Nat, NEW first \in [1 .. n -> Slots]
    PROVE  /\ DirBlock(first) \in Sectors /\ DirBlock(first).tag = "dir"
           /\ Listed(DirBlock(first)) = <<>>
           /\ \A k \in 1 .. DirSlots :
                 DirBlock(first).list[k] = IF k \in 1 .. n THEN first[k] ELSE EmptySlot
<1>1. EmptySlot \in Slots
  BY DEF EmptySlot, Slot, Slots, SlotNames
<1>2. [k \in 1 .. DirSlots |-> IF k \in DOMAIN first THEN first[k] ELSE EmptySlot]
         \in [1 .. DirSlots -> Slots]
  BY <1>1
<1>3. DirBlock(first) \in DirSectors
  BY <1>2 DEF DirBlock, Dir, DirSectors
<1> QED
  BY <1>3 DEF DirBlock, Dir, Sectors, Listed

LEMMA WriteDataBlockStep ==
    ASSUME IInv, WriteDataBlock
    PROVE  IInv'
<1> DEFINE n == Len(job.data) + 1
           content == IF job.kind = "reg" THEN Data(job.ino, n)
                      ELSE DirBlock(<<Slot(job.ino, "."), Slot(job.dir, "..")>>)
<1>1. /\ Typed /\ Bounded /\ HandFilled /\ HandCounts /\ HandWritten /\ HandSafe
      /\ job.op = "create" /\ job.pc = "fill" /\ job \in Creations
      /\ UNCHANGED <<inodes, sbDisk, sb, crashes>>
  BY CreateParts, JobTyped DEF IInv, WriteDataBlock, Creating
<1>2. /\ disk' = [disk EXCEPT ![job.block] = content]
      /\ job' = [job EXCEPT !.data = Append(@, job.block), !.pc = AfterFill(n)]
  BY DEF WriteDataBlock
<1>3. /\ job.data \in Seq(DataBlocks) /\ Len(job.data) \in Nat /\ n \in Nat /\ job.block \in DataBlocks
      /\ job.block # 0 /\ job.want \in Nat /\ job.kind \in {"reg", "dir"} /\ job.ind \in {0} \cup DataBlocks
      /\ job.ino \in Inodes /\ job.dir \in Inodes /\ job.ino \in Nat /\ DOMAIN job.data = 1 .. Len(job.data)
  BY <1>1 DEF Creations, HandCounts, Inodes, InodeRoot
<1>4. content \in Sectors /\ Listed(content) = <<>>
  <2>1. Slot(job.ino, ".") \in Slots /\ Slot(job.dir, "..") \in Slots
    BY <1>3 DEF Slot, Slots, SlotNames
  <2>2. <<Slot(job.ino, "."), Slot(job.dir, "..")>> \in [1 .. 2 -> Slots]
    BY <2>1
  <2>3. /\ DirBlock(<<Slot(job.ino, "."), Slot(job.dir, "..")>>) \in Sectors
        /\ Listed(DirBlock(<<Slot(job.ino, "."), Slot(job.dir, "..")>>)) = <<>>
    BY <2>2, DirBlockTyped
  <2>4. Data(job.ino, n) \in Sectors /\ Listed(Data(job.ino, n)) = <<>>
    BY <1>3 DEF Data, Sectors, Listed
  <2> QED
    BY <2>3, <2>4
<1> HIDE DEF n, content
<1>5. AfterFill(n) \in {"alloc", "inode", "writeInd"}
      /\ (AfterFill(n) = "alloc" => n < job.want)
      /\ (AfterFill(n) = "inode" => job.ind = 0)
      /\ (AfterFill(n) = "writeInd" => job.ind # 0)
  BY DEF AfterFill
<1>6. job' \in Creations /\ job'.op = "create" /\ Append(job.data, job.block) \in Seq(DataBlocks)
  <2>1. Append(job.data, job.block) \in Seq(DataBlocks)
    BY <1>3
  <2>2. job' = [job EXCEPT !.data = Append(job.data, job.block), !.pc = AfterFill(n)]
    BY <1>2
  <2> QED
    BY <1>1, <1>5, <2>1, <2>2 DEF Creations
<1>7. /\ job'.ino = job.ino /\ job'.dir = job.dir /\ job'.kind = job.kind
      /\ job'.ind = job.ind /\ job'.want = job.want /\ job'.block = job.block
      /\ job'.data = Append(job.data, job.block) /\ job'.pc = AfterFill(n)
  BY <1>1, <1>2 DEF Creations
<1>8. BlockTakenAt(job.pc) /\ ~BlockTakenAt(job'.pc)
  BY <1>1, <1>5, <1>7 DEF BlockTakenAt
<1>9. /\ Range(InHand) = Range(job.data) \cup (IF job.ind = 0 THEN {} ELSE {job.ind}) \cup {job.block}
      /\ Distinct(InHand) <=> /\ Distinct(job.data)
                              /\ job.ind # 0 => job.ind \notin Range(job.data)
                              /\ job.block \notin Range(job.data) /\ job.block # job.ind
  <2>1. HandFacts
    BY <1>1, HandTyped
  <2>2. /\ Range(HandFile) = Range(job.data) \cup (IF job.ind = 0 THEN {} ELSE {job.ind})
        /\ Distinct(HandFile) <=> /\ Distinct(job.data)
                                  /\ job.ind # 0 => job.ind \notin Range(job.data)
    BY <1>1, <2>1 DEF HandFacts
  <2>3. /\ Range(InHand) = Range(HandFile) \cup {job.block}
        /\ Distinct(InHand) <=> Distinct(HandFile) /\ job.block \notin Range(HandFile)
    BY <1>1, <1>8, <2>1 DEF HandFacts
  <2> QED
    BY <1>3, <2>2, <2>3
<1>10. Distinct(InHand)
  BY <1>1 DEF HandSafe
<1>11. /\ Range(Append(job.data, job.block)) = Range(job.data) \cup {job.block}
       /\ Distinct(Append(job.data, job.block))
  BY <1>3, <1>9, <1>10, AppendDistinct
<1>12. Typed' => Range(InHand)' \subseteq Range(InHand) /\ (Distinct(InHand) => Distinct(InHand)')
  <2>1. Typed' => HandFacts'
    BY HandTypedNext
  <2>2. job'.pc # "flush" /\ ~BlockTakenAt(job.pc)'
    BY <1>5, <1>7, <1>8 DEF BlockTakenAt
  <2>3. ASSUME Typed'
        PROVE  /\ Range(InHand)' = Range(HandFile)' /\ (Distinct(InHand)' <=> Distinct(HandFile)')
               /\ Range(HandFile)' = Range(job'.data) \cup (IF job'.ind = 0 THEN {} ELSE {job'.ind})
               /\ Distinct(HandFile)' <=> /\ Distinct(job'.data)
                                          /\ job'.ind # 0 => job'.ind \notin Range(job'.data)
    BY <1>6, <2>1, <2>2, <2>3 DEF HandFacts
  <2>4. job.ind # 0 => job.ind \notin Range(job'.data)
    BY <1>7, <1>9, <1>10, <1>11
  <2>5. Range(job'.data) = Range(job.data) \cup {job.block} /\ Distinct(job'.data)
    BY <1>7, <1>11
  <2> QED
    BY <1>7, <1>9, <2>3, <2>4, <2>5
<1>13. disk' \in [DataBlocks -> Sectors] /\ disk'[job.block] = content
       /\ \A c : c # job.block => disk'[c] = disk[c]
  BY <1>1, <1>2, <1>3, <1>4 DEF Typed
<1>14. \A c \in Range(InHand) : Listed(disk'[c]) = <<>>
  <2>1. \A c \in Range(InHand) : Lists[c] = <<>> /\ c \in DataBlocks
    <3>1. Range(job.data) \subseteq DataBlocks
      BY <1>3 DEF Range
    <3> QED
      BY <1>1, <1>3, <1>9, <3>1 DEF HandSafe
  <2> QED
    BY <1>4, <1>13, <2>1 DEF Lists
<1>15. /\ Others'
       /\ job'.dir \in Reachable' /\ IsDir(job.dir)'
       /\ job'.ino \notin Reachable' \cup Range(sb'.freeInode)
  <2>1. /\ inodes' \in [Inodes -> InodeRecords]
        /\ \A i \in Inodes : Len(inodes'[i].addr) <= NAddrDirect
        /\ \A i \in Inodes \ {job.ino} : inodes'[i] = inodes[i]
    BY <1>1 DEF Typed, Bounded
  <2>2. \A c : c \notin Range(InHand) => disk'[c] = disk[c]
    BY <1>9, <1>13
  <2>3. job'.pc # "flush" /\ job.pc # "flush"
    BY <1>1, <1>5, <1>7
  <2> QED
    BY <1>1, <1>6, <1>7, <1>12, <1>13, <1>14, <2>1, <2>2, <2>3, HandStep
<1>16. HandFilled'
  <2>1. ASSUME NEW k \in DOMAIN job'.data PROVE Filled(k)'
    <3>1. CASE k = n
      <4>1. job'.data[k] = job.block
        BY <1>3, <1>7, <3>1, AppendEntries DEF n
      <4>2. disk'[job'.data[k]] = content
        BY <1>13, <4>1
      <4> QED
        BY <1>7, <3>1, <4>2 DEF Filled, content
    <3>2. CASE k # n
      <4>1. k \in DOMAIN job.data /\ job'.data[k] = job.data[k]
        BY <1>3, <1>7, <3>2, AppendEntries DEF n
      <4>2. job.data[k] # job.block
        BY <1>9, <1>10, <4>1 DEF Range
      <4>3. Filled(k)
        BY <1>1, <4>1 DEF HandFilled
      <4> QED
        BY <1>7, <1>13, <4>1, <4>2, <4>3 DEF Filled
    <3> QED
      BY <3>1, <3>2
  <2> QED
    BY <1>15, <2>1 DEF HandFilled
<1>17. HandCounts'
  <2>1. Len(job'.data) = n
    BY <1>3, <1>7, AppendEntries DEF n
  <2>2. n > NAddrDirect => Len(job.data) >= NAddrDirect
    BY <1>3, LayoutAssumption DEF n
  <2> QED
    BY <1>1, <1>3, <1>5, <1>7, <2>1, <2>2 DEF HandCounts
<1>18. HandWritten'
  BY <1>5, <1>7 DEF HandWritten
<1> QED
  BY <1>6, <1>15, <1>16, <1>17, <1>18, InvariantPartsNext, CreatePartsNext

\* What an address list keeps of the blocks of a file.
LEMMA DirectPartTyped ==
    ASSUME NEW blocks \in Seq(DataBlocks)
    PROVE  DirectPart(blocks) \in Seq(DataBlocks) /\ Len(DirectPart(blocks)) <= NAddrDirect
<1>1. NAddrDirect \in Nat
  BY LayoutAssumption
<1>2. CASE Len(blocks) <= NAddrDirect
  BY <1>2 DEF DirectPart
<1>3. CASE ~(Len(blocks) <= NAddrDirect)
  <2>1. DirectPart(blocks) = SubSeq(blocks, 1, NAddrDirect)
    BY <1>3 DEF DirectPart
  <2>2. \A k \in 1 .. NAddrDirect : blocks[k] \in DataBlocks
    BY <1>1, <1>3
  <2>3. SubSeq(blocks, 1, NAddrDirect) \in Seq(DataBlocks) /\ Len(SubSeq(blocks, 1, NAddrDirect)) = NAddrDirect
    BY <1>1, <1>3, <2>2
  <2> QED
    BY <1>1, <2>1, <2>3
<1> QED
  BY <1>2, <1>3

LEMMA IndirectPartTyped ==
    ASSUME NEW blocks \in Seq(DataBlocks)
    PROVE  SubSeq(blocks, NAddrDirect + 1, Len(blocks)) \in Seq(DataBlocks)
<1>1. NAddrDirect \in Nat
  BY LayoutAssumption
<1> QED
  BY <1>1

LEMMA WriteIndirectBlockStep ==
    ASSUME IInv, WriteIndirectBlock
    PROVE  IInv'
<1> DEFINE content == Indirect(SubSeq(job.data, NAddrDirect + 1, Len(job.data)))
<1>1. /\ Typed /\ Bounded /\ HandFilled /\ HandCounts /\ HandWritten /\ HandSafe
      /\ job.op = "create" /\ job.pc = "writeInd" /\ job \in Creations
      /\ UNCHANGED <<inodes, sbDisk, sb, crashes>>
  BY CreateParts, JobTyped DEF IInv, WriteIndirectBlock, Creating
<1>2. /\ disk' = [disk EXCEPT ![job.ind] = content]
      /\ job' = [job EXCEPT !.pc = "inode"]
  BY DEF WriteIndirectBlock
<1>3. job.data \in Seq(DataBlocks) /\ job.ind \in DataBlocks /\ job.ind # 0
  BY <1>1 DEF Creations, HandCounts
<1>4. content \in Sectors /\ Listed(content) = <<>>
  BY <1>3, IndirectPartTyped DEF Indirect, Sectors, Listed
<1> HIDE DEF content
<1>5. job' \in Creations /\ job'.op = "create"
  BY <1>1, <1>2 DEF Creations
<1>6. /\ job'.ino = job.ino /\ job'.dir = job.dir /\ job'.kind = job.kind
      /\ job'.ind = job.ind /\ job'.want = job.want /\ job'.block = job.block
      /\ job'.data = job.data /\ job'.pc = "inode"
  BY <1>1, <1>2 DEF Creations
<1>7. InHand' = InHand
  BY <1>1, <1>5, <1>6 DEF InHand
<1>8. disk' \in [DataBlocks -> Sectors] /\ disk'[job.ind] = content
      /\ \A c : c # job.ind => disk'[c] = disk[c]
  BY <1>1, <1>2, <1>3, <1>4 DEF Typed
<1>9. /\ Range(InHand) = Range(job.data) \cup {job.ind}
      /\ Distinct(InHand) => job.ind \notin Range(job.data)
  BY <1>1, <1>3, HandTyped DEF HandFacts, BlockTakenAt
<1>10. \A c \in Range(InHand) : Listed(disk'[c]) = <<>>
  <2>1. \A c \in Range(InHand) : Lists[c] = <<>> /\ c \in DataBlocks
    <3>1. Range(job.data) \subseteq DataBlocks
      BY <1>3 DEF Range
    <3> QED
      BY <1>1, <1>3, <1>9, <3>1 DEF HandSafe
  <2> QED
    BY <1>4, <1>8, <2>1 DEF Lists
<1>11. /\ Others'
       /\ job'.dir \in Reachable' /\ IsDir(job.dir)'
       /\ job'.ino \notin Reachable' \cup Range(sb'.freeInode)
  <2>1. /\ inodes' \in [Inodes -> InodeRecords]
        /\ \A i \in Inodes : Len(inodes'[i].addr) <= NAddrDirect
        /\ \A i \in Inodes \ {job.ino} : inodes'[i] = inodes[i]
    BY <1>1 DEF Typed, Bounded
  <2>2. \A c : c \notin Range(InHand) => disk'[c] = disk[c]
    BY <1>8, <1>9
  <2> QED
    BY <1>1, <1>5, <1>6, <1>7, <1>8, <1>10, <2>1, <2>2, HandStep
<1>12. HandFilled'
  <2>1. ASSUME NEW k \in DOMAIN job.data PROVE Filled(k)'
    <3>1. job.data[k] # job.ind
      BY <1>1, <1>9 DEF HandSafe, Range
    <3>2. Filled(k)
      BY <1>1 DEF HandFilled
    <3> QED
      BY <1>6, <1>8, <3>1, <3>2 DEF Filled
  <2> QED
    BY <1>6, <1>11, <2>1 DEF HandFilled
<1>13. HandCounts'
  BY <1>1, <1>6 DEF HandCounts
<1>14. HandWritten'
  BY <1>6, <1>8 DEF HandWritten, content
<1> QED
  BY <1>11, <1>12, <1>13, <1>14, InvariantPartsNext, CreatePartsNext

LEMMA WriteInodeStep ==
    ASSUME IInv, WriteInode
    PROVE  IInv'
<1> DEFINE record == [mode |-> job.kind, nlink |-> NewLinks, addr |-> DirectPart(job.data), ind |-> job.ind]
<1>1. /\ Typed /\ Bounded /\ HandFilled /\ HandCounts /\ HandWritten /\ HandSafe
      /\ job.op = "create" /\ job.pc = "inode" /\ job \in Creations
      /\ UNCHANGED <<disk, sbDisk, sb, crashes>>
  BY CreateParts, JobTyped DEF IInv, WriteInode, Creating
<1>2. /\ inodes' = [inodes EXCEPT ![job.ino] = record]
      /\ job' = [job EXCEPT !.pc = "entry"]
  BY DEF WriteInode
<1>3. job.data \in Seq(DataBlocks) /\ job.ind \in {0} \cup DataBlocks /\ job.ino \in Inodes
      /\ job.kind \in {"reg", "dir"}
  BY <1>1 DEF Creations
<1>4. record \in InodeRecords /\ Len(record.addr) <= NAddrDirect
      /\ record.mode = job.kind /\ record.addr = DirectPart(job.data) /\ record.ind = job.ind
  BY <1>3, DirectPartTyped DEF InodeRecords, NewLinks
<1> HIDE DEF record
<1>5. job' \in Creations /\ job'.op = "create"
  BY <1>1, <1>2 DEF Creations
<1>6. /\ job'.ino = job.ino /\ job'.dir = job.dir /\ job'.kind = job.kind
      /\ job'.ind = job.ind /\ job'.want = job.want /\ job'.block = job.block
      /\ job'.data = job.data /\ job'.pc = "entry"
  BY <1>1, <1>2 DEF Creations
<1>7. InHand' = InHand
  BY <1>1, <1>5, <1>6 DEF InHand
<1>8. inodes' \in [Inodes -> InodeRecords] /\ inodes'[job.ino] = record
      /\ \A i \in Inodes \ {job.ino} : inodes'[i] = inodes[i]
  BY <1>1, <1>2, <1>3, <1>4 DEF Typed
<1>9. \A i \in Inodes : Len(inodes'[i].addr) <= NAddrDirect
  BY <1>1, <1>4, <1>8 DEF Bounded
<1>10. Range(InHand) \subseteq DataBlocks
  <2>1. Range(job.data) \subseteq DataBlocks
    BY <1>3 DEF Range
  <2> QED
    BY <1>1, <1>3, <2>1, HandTyped DEF HandFacts, BlockTakenAt
<1>11. \A c \in Range(InHand) : Listed(disk'[c]) = <<>>
  BY <1>1, <1>10 DEF HandSafe, Lists
<1>12. /\ Others'
       /\ job'.dir \in Reachable' /\ IsDir(job.dir)'
       /\ job'.ino \notin Reachable' \cup Range(sb'.freeInode)
  <2>1. disk' \in [DataBlocks -> Sectors] /\ \A c : c \notin Range(InHand) => disk'[c] = disk[c]
    BY <1>1 DEF Typed
  <2> QED
    BY <1>1, <1>5, <1>6, <1>7, <1>8, <1>9, <1>11, <2>1, HandStep
<1>13. HandFilled'
  <2>1. ASSUME NEW k \in DOMAIN job.data PROVE Filled(k)'
    BY <1>1, <1>6 DEF HandFilled, Filled
  <2> QED
    BY <1>6, <1>12, <2>1 DEF HandFilled
<1>14. HandCounts'
  BY <1>1, <1>6 DEF HandCounts
<1>15. HandWritten'
  BY <1>1, <1>4, <1>6, <1>8 DEF HandWritten, DirectPart
<1> QED
  BY <1>12, <1>13, <1>14, <1>15, InvariantPartsNext, CreatePartsNext

LEMMA NewSlotTyped ==
    ASSUME Typed, job.op = "create"
    PROVE  NewSlot \in Slots /\ NewSlot.ino = job.ino /\ NewSlot.ino # 0
<1>1. job \in Creations
  BY JobTyped
<1>2. Stored[job.name] \in SlotNames
  BY <1>1, LayoutAssumption DEF Creations, SlotNames, Range
<1> QED
  BY <1>1, <1>2 DEF NewSlot, Slot, Slots, Creations, Inodes, InodeRoot

LEMMA WriteDirBlockStep ==
    ASSUME IInv, WriteDirBlock
    PROVE  IInv'
<1> DEFINE content == DirBlock(<<NewSlot>>)
<1>1. /\ Typed /\ Bounded /\ HandFilled /\ HandCounts /\ HandWritten /\ HandSafe
      /\ job.op = "create" /\ job.pc = "dirBlock" /\ job \in Creations
      /\ UNCHANGED <<inodes, sbDisk, sb, crashes>>
  BY CreateParts, JobTyped DEF IInv, WriteDirBlock, Creating
<1>2. /\ disk' = [disk EXCEPT ![job.block] = content]
      /\ job' = [job EXCEPT !.pc = "dirInode"]
  BY DEF WriteDirBlock
<1>3. job.data \in Seq(DataBlocks) /\ job.block \in DataBlocks /\ job.ind \in {0} \cup DataBlocks
  BY <1>1 DEF Creations, HandCounts
<1>4. content \in Sectors /\ Listed(content) = <<>>
  <2>1. <<NewSlot>> \in [1 .. 1 -> Slots]
    BY <1>1, NewSlotTyped
  <2> QED
    BY <2>1, DirBlockTyped
<1>5. job' \in Creations /\ job'.op = "create"
  BY <1>1, <1>2 DEF Creations
<1>6. /\ job'.ino = job.ino /\ job'.dir = job.dir /\ job'.kind = job.kind /\ job'.name = job.name
      /\ job'.ind = job.ind /\ job'.want = job.want /\ job'.block = job.block
      /\ job'.data = job.data /\ job'.pc = "dirInode"
  BY <1>1, <1>2 DEF Creations
<1>7. InHand' = InHand /\ NewSlot' = NewSlot
  BY <1>1, <1>5, <1>6 DEF InHand, NewSlot
<1> HIDE DEF content
<1>8. disk' \in [DataBlocks -> Sectors] /\ disk'[job.block] = content
      /\ \A c : c # job.block => disk'[c] = disk[c]
  BY <1>1, <1>2, <1>3, <1>4 DEF Typed
<1>9. /\ Range(InHand) = Range(HandFile) \cup {job.block}
      /\ Distinct(InHand) => job.block \notin Range(HandFile)
      /\ Range(HandFile) = Range(job.data) \cup (IF job.ind = 0 THEN {} ELSE {job.ind})
  <2>1. HandFacts
    BY <1>1, HandTyped
  <2>2. BlockTakenAt(job.pc)
    BY <1>1 DEF BlockTakenAt
  <2> QED
    BY <1>1, <2>1, <2>2 DEF HandFacts
<1>10. job.block \notin Range(HandFile)
  BY <1>1, <1>9 DEF HandSafe
<1>11. \A c \in Range(InHand) : Listed(disk'[c]) = <<>>
  <2>1. \A c \in Range(InHand) : Lists[c] = <<>> /\ c \in DataBlocks
    <3>1. Range(job.data) \subseteq DataBlocks
      BY <1>3 DEF Range
    <3> QED
      BY <1>1, <1>3, <1>9, <3>1 DEF HandSafe
  <2> QED
    BY <1>4, <1>8, <2>1 DEF Lists
<1>12. /\ Others'
       /\ job'.dir \in Reachable' /\ IsDir(job.dir)'
       /\ job'.ino \notin Reachable' \cup Range(sb'.freeInode)
  <2>1. /\ inodes' \in [Inodes -> InodeRecords]
        /\ \A i \in Inodes : Len(inodes'[i].addr) <= NAddrDirect
        /\ \A i \in Inodes \ {job.ino} : inodes'[i] = inodes[i]
    BY <1>1 DEF Typed, Bounded
  <2>2. \A c : c \notin Range(InHand) => disk'[c] = disk[c]
    BY <1>8, <1>9
  <2> QED
    BY <1>1, <1>5, <1>6, <1>7, <1>8, <1>11, <2>1, <2>2, HandStep
<1>13. HandFilled'
  <2>1. ASSUME NEW k \in DOMAIN job.data PROVE Filled(k)'
    <3>1. job.data[k] # job.block
      BY <1>9, <1>10 DEF Range
    <3>2. Filled(k)
      BY <1>1 DEF HandFilled
    <3> QED
      BY <1>6, <1>8, <3>1, <3>2 DEF Filled
  <2> QED
    BY <1>6, <1>12, <2>1 DEF HandFilled
<1>14. HandCounts'
  BY <1>1, <1>6 DEF HandCounts
<1>15. HandWritten'
  <2>1. job.ind # 0 => disk'[job.ind] = disk[job.ind]
    BY <1>8, <1>9, <1>10
  <2>2. disk'[job'.block] = DirBlock(<<NewSlot'>>)
    BY <1>6, <1>7, <1>8 DEF content
  <2> QED
    BY <1>1, <1>6, <2>1, <2>2 DEF HandWritten
<1> QED
  BY <1>12, <1>13, <1>14, <1>15, InvariantPartsNext, CreatePartsNext

\* A step that writes nothing to the image but, perhaps, the superblock.
LEMMA QuietTree ==
    ASSUME Typed, Typed', TreeSafe, Gone = {}, Gone' = {}, UNCHANGED <<inodes, disk>>,
           \A i \in Reachable :
              Range(BlocksOf(i)) \cap Free(sb)' = {} /\ i \notin Range(sb'.freeInode),
           ~Creating("flush")' =>
              \A i \in Reachable :
                 Range(BlocksOf(i)) \cap Free(sbDisk)' = {} /\ i \notin Range(sbDisk'.freeInode)
    PROVE  Reachable' = Reachable /\ TreeSafe'
<1> DEFINE X == {}
<1>1. X \in SUBSET (Inodes \ {InodeRoot}) /\ Gone \subseteq X /\ Gone' = X
  OBVIOUS
<1>2. Reachable \subseteq Inodes
  BY TreeFactsHold DEF TreeFacts
<1>3. \A i \in Reachable \ X : Kept(i) /\ inodes'[i] = inodes[i]
  BY <1>2, RecordKept
<1>4. \A i \in X : (IsDir(i) => Children(i) = {}) /\ (IsDir(i)' => Children(i)' = {})
  OBVIOUS
<1>5. \A i \in Reachable \ X :
         Range(BlocksOf(i)) \cap Free(sb)' = {} /\ i \notin Range(sb'.freeInode)
  OBVIOUS
<1>6. ~Creating("flush")' =>
         \A i \in Reachable \ X :
            Range(BlocksOf(i)) \cap Free(sbDisk)' = {} /\ i \notin Range(sbDisk'.freeInode)
  OBVIOUS
<1> HIDE DEF X
<1> QED
  BY <1>1, <1>3, <1>4, <1>5, <1>6, TreeStays

LEMMA ReachableInUse ==
    ASSUME Typed, TreeLinked, Gone = {}
    PROVE  \A i \in Reachable : inodes[i].mode # "free"
<1>1. TreeFacts
  BY TreeFactsHold
<1>2. IsDir(InodeRoot) /\ EntriesLead
  BY TreeLinkedParts
<1> DEFINE C == {i \in Inodes : inodes[i].mode = "free"}
<1>3. InodeRoot \notin C
  BY <1>2 DEF IsDir
<1>4. ASSUME NEW l \in Links, l[1] \in Reachable, l[2] \in C PROVE FALSE
  <2>1. l \in Inodes \X Inodes
    BY <1>1 DEF TreeFacts, LinkSet
  <2>2. IsDir(l[1]) /\ \E p \in Children(l[1]) : l[2] = SlotAt(l[1], p).ino
    BY <1>1, <2>1 DEF TreeFacts
  <2> QED
    BY <1>2, <1>4, <2>2 DEF EntriesLead
<1>5. C \cap Reachable = {}
  <2> PICK links : links = Links
    OBVIOUS
  <2>1. links \in LinkSet /\ Reached(links) = Reachable /\ C \in SUBSET Inodes
    BY <1>1 DEF TreeFacts
  <2>2. \A l \in links : l[1] \in Reached(links) /\ l[2] \in C => l[1] \in C
    BY <1>4, <2>1
  <2> HIDE DEF C
  <2>3. C \cap Reached(links) = {}
    BY <1>3, <2>1, <2>2, ReachedFrom
  <2> QED
    BY <2>1, <2>3
<1> QED
  BY <1>1, <1>5 DEF TreeFacts

LEMMA BeginStep ==
    ASSUME IInv, NEW d \in Reachable, NEW name \in Names, NEW kind \in {"reg", "dir"},
           NEW want \in Nat, kind = "dir" => want = 1, NEW i \in Inodes,
           Begin(d, name, kind, want, i)
    PROVE  IInv'
<1>1. /\ Typed /\ Bounded /\ SuperSound(sb) /\ SuperSound(sbDisk) /\ TreeSafe /\ HandSafe
      /\ job = Idle /\ IsDir(d) /\ AllocInode(i)
      /\ UNCHANGED <<inodes, disk, sbDisk, crashes>>
  BY DEF IInv, Begin
<1>2. job.op = "idle" /\ ~Creating("flush")
  BY <1>1 DEF Idle, Creating
<1>3. Gone = {} /\ Whole = Reachable /\ Live = Reachable /\ TreeLinked
  BY <1>1, <1>2, NothingGone DEF TreeSafe
<1>4. sb' = [sb EXCEPT !.freeInode = IF @ = <<>> THEN @ ELSE Front(@)]
  BY <1>1 DEF AllocInode
<1>5. sb \in SuperBlocks /\ sb.freeInode \in Seq(Inodes) /\ Distinct(sb.freeInode)
  BY <1>1 DEF Typed, SuperBlocks, SuperSound
<1>6. /\ sb' \in SuperBlocks /\ sb'.freeBlock = sb.freeBlock /\ sb'.totalFreeBlock = sb.totalFreeBlock
      /\ Range(sb'.freeInode) \subseteq Range(sb.freeInode) /\ Distinct(sb'.freeInode)
      /\ Len(sb'.freeInode) <= Len(sb.freeInode)
      /\ sb.freeInode # <<>> => /\ Last(sb.freeInode) \in Range(sb.freeInode)
                                /\ Last(sb.freeInode) \notin Range(sb'.freeInode)
      /\ sb.freeInode = <<>> => Range(sb'.freeInode) = {}
  <2>1. CASE sb.freeInode = <<>>
    BY <1>4, <1>5, <2>1, EmptySequence DEF SuperBlocks
  <2>2. CASE sb.freeInode # <<>>
    <3>1. /\ Front(sb.freeInode) \in Seq(Inodes) /\ Len(Front(sb.freeInode)) <= Len(sb.freeInode)
          /\ Distinct(Front(sb.freeInode)) /\ Last(sb.freeInode) \in Range(sb.freeInode)
          /\ Range(Front(sb.freeInode)) = Range(sb.freeInode) \ {Last(sb.freeInode)}
      BY <1>5, <2>2, FrontEntries, FrontDistinct
    <3> QED
      BY <1>4, <1>5, <2>2, <3>1 DEF SuperBlocks
  <2> QED
    BY <2>1, <2>2
<1>7. Lists' = Lists /\ Free(sb)' = Free(sb) /\ Free(sbDisk)' = Free(sbDisk)
  BY <1>1, <1>6 DEF Lists, Free
<1>8. \A j \in Reachable : /\ Range(BlocksOf(j)) \cap Free(sb) = {} /\ j \notin Range(sb.freeInode)
                           /\ Range(BlocksOf(j)) \cap Free(sbDisk) = {} /\ j \notin Range(sbDisk.freeInode)
  BY <1>1, <1>2, <1>3 DEF TreeSafe, ApartFrom
<1>9. i \notin Reachable \cup Range(sb'.freeInode)
  <2>1. CASE sb.freeInode # <<>>
    <3>1. i = Last(sb.freeInode)
      BY <1>1, <2>1 DEF AllocInode
    <3> QED
      BY <1>6, <1>8, <2>1, <3>1
  <2>2. CASE sb.freeInode = <<>>
    <3>1. inodes[i].mode = "free"
      BY <1>1, <2>2 DEF AllocInode
    <3> QED
      BY <1>1, <1>3, <1>6, <2>2, <3>1, ReachableInUse
  <2> QED
    BY <2>1, <2>2
<1> DEFINE new == [op |-> "create", pc |-> IF want = 0 THEN "inode" ELSE "alloc",
                   dir |-> d, name |-> name, kind |-> kind, want |-> want,
                   ino |-> i, data |-> <<>>, ind |-> 0, block |-> 0]
<1>10. d \in Inodes
  BY <1>1, TreeFactsHold DEF TreeFacts
<1>11. job' = Idle \/ (job' = new /\ new \in Creations)
  <2>1. job' = IF want > NAddrDirect + IndirectCap THEN Idle ELSE new
    BY DEF Begin
  <2>2. ~(want > NAddrDirect + IndirectCap) => new \in Creations
    <3>1. ~(want > NAddrDirect + IndirectCap) => want \in 0 .. (NAddrDirect + IndirectCap)
      BY LayoutAssumption
    <3> QED
      BY <1>10, <3>1 DEF Creations
  <2> QED
    BY <2>1, <2>2
<1>12. job'.op # "remove" /\ ~Creating("flush")'
  BY <1>11 DEF Idle, Creating
<1>13. Gone' = {} /\ Whole' = Reachable' /\ Live' = Reachable' /\ RemoveSound' /\ FreeingSound'
  BY <1>12, NothingGoneNext
<1>14. Typed'
  BY <1>1, <1>6, <1>11 DEF Typed
<1>15. Bounded'
  <2>1. Len(sb'.freeInode) \in Nat /\ Len(sb.freeInode) \in Nat
    BY <1>5, <1>6 DEF SuperBlocks
  <2>2. Len(sb'.freeInode) <= MaxFreeInode
    BY <1>1, <1>6, <2>1, LayoutAssumption DEF Bounded
  <2> QED
    BY <1>1, <1>6, <1>7, <2>2 DEF Bounded
<1>16. SuperSound(sb)' /\ SuperSound(sbDisk)'
  BY <1>1, <1>6, <1>7 DEF SuperSound
<1>17. Reachable' = Reachable /\ TreeSafe'
  BY <1>1, <1>3, <1>6, <1>7, <1>8, <1>13, <1>14, QuietTree
<1>18. InHand' = <<>>
  <2>1. CASE job' = Idle
    BY <2>1 DEF InHand, Idle
  <2>2. CASE job' = new
    BY <2>2 DEF InHand
  <2> QED
    BY <1>11, <2>1, <2>2
<1>19. HandSafe'
  <2>1. Range(<<>>) = {} /\ Distinct(<<>>)
    BY EmptySequence
  <2> QED
    BY <1>12, <1>18, <2>1 DEF HandSafe
<1>20. CreateSound'
  <2> SUFFICES ASSUME job'.op = "create" PROVE HandFilled' /\ HandCounts' /\ HandWritten'
    BY CreatePartsNext
  <2>1. job' = new
    BY <1>11 DEF Idle
  <2>2. /\ job'.dir = d /\ job'.ino = i /\ job'.data = <<>> /\ job'.ind = 0 /\ job'.want = want
        /\ job'.kind = kind /\ job'.pc = (IF want = 0 THEN "inode" ELSE "alloc")
    BY <2>1
  <2>3. IsDir(d)' /\ d \in Reachable' /\ i \notin Reachable' \cup Range(sb'.freeInode)
    BY <1>1, <1>9, <1>17 DEF IsDir
  <2>4. DOMAIN job'.data = {} /\ Len(job'.data) = 0
    BY <2>2
  <2>5. HandFilled'
    BY <2>2, <2>3, <2>4 DEF HandFilled
  <2>6. HandCounts'
    BY <2>2, <2>4, LayoutAssumption DEF HandCounts
  <2>7. HandWritten'
    BY <2>2 DEF HandWritten
  <2> QED
    BY <2>5, <2>6, <2>7
<1> QED
  BY <1>13, <1>14, <1>15, <1>16, <1>17, <1>19, <1>20, InvariantPartsNext DEF Others

\* Nothing is in hand when nothing runs, or nothing is followed any further.
LEMMA IdleSound ==
    job \in {Idle, Astray} => HandSafe /\ CreateSound /\ InHand = <<>> /\ job.op # "remove" /\ ~Creating("flush")
<1> SUFFICES ASSUME job \in {Idle, Astray}
             PROVE  HandSafe /\ CreateSound /\ InHand = <<>> /\ job.op # "remove" /\ ~Creating("flush")
  OBVIOUS
<1>1. job.op \in {"idle", "astray"}
  BY DEF Idle, Astray
<1>2. InHand = <<>> /\ Range(<<>>) = {} /\ Distinct(<<>>)
  BY <1>1, EmptySequence DEF InHand
<1> QED
  BY <1>1, <1>2 DEF HandSafe, CreateSound, Creating

LEMMA IdleSoundNext ==
    (job \in {Idle, Astray} =>
        HandSafe /\ CreateSound /\ InHand = <<>> /\ job.op # "remove" /\ ~Creating("flush"))'
  BY IdleSound, PTL

\* An operation ends, or the image is opened again.
LEMMA IdleStep ==
    ASSUME IInv, Gone = {}, job' \in {Idle, Astray}, UNCHANGED <<inodes, disk, crashes>>,
           \/ sb' = sb /\ sbDisk' = sb
           \/ sb' = sb /\ sbDisk' = sbDisk /\ ~Creating("flush")
           \/ sb' = sbDisk /\ sbDisk' = sbDisk /\ ~Creating("flush")
    PROVE  IInv'
<1>1. Typed /\ Bounded /\ SuperSound(sb) /\ SuperSound(sbDisk) /\ TreeSafe
  BY DEF IInv
<1>2. Gone = {} /\ Whole = Reachable
  BY DEF Whole
<1>3. HandSafe' /\ CreateSound' /\ job'.op # "remove" /\ ~Creating("flush")'
  BY IdleSoundNext
<1>4. Gone' = {} /\ RemoveSound' /\ FreeingSound'
  BY <1>3, NothingGoneNext
<1>5. Typed'
  BY <1>1 DEF Typed
<1>6. Lists' = Lists
  BY DEF Lists
<1>7. Bounded'
  BY <1>1, <1>6 DEF Bounded
<1>8. /\ sb' = sb => Free(sb)' = Free(sb)
      /\ sb' = sbDisk => Free(sb)' = Free(sbDisk)
      /\ sbDisk' = sb => Free(sbDisk)' = Free(sb)
      /\ sbDisk' = sbDisk => Free(sbDisk)' = Free(sbDisk)
  BY <1>6 DEF Free
<1>9. SuperSound(sb)' /\ SuperSound(sbDisk)'
  BY <1>1, <1>6, <1>8 DEF SuperSound
<1>10. \A i \in Reachable : Range(BlocksOf(i)) \cap Free(sb) = {} /\ i \notin Range(sb.freeInode)
  BY <1>1, <1>2 DEF TreeSafe, ApartFrom
<1>11. ~Creating("flush") =>
          \A i \in Reachable :
             Range(BlocksOf(i)) \cap Free(sbDisk) = {} /\ i \notin Range(sbDisk.freeInode)
  BY <1>1, <1>2 DEF TreeSafe, ApartFrom
<1>12. TreeSafe'
  <2>1. \A i \in Reachable : Range(BlocksOf(i)) \cap Free(sb)' = {} /\ i \notin Range(sb'.freeInode)
    BY <1>8, <1>10, <1>11
  <2>2. \A i \in Reachable :
           Range(BlocksOf(i)) \cap Free(sbDisk)' = {} /\ i \notin Range(sbDisk'.freeInode)
    BY <1>8, <1>10, <1>11
  <2> QED
    BY <1>1, <1>2, <1>4, <1>5, <2>1, <2>2, QuietTree
<1> QED
  BY <1>3, <1>4, <1>5, <1>7, <1>9, <1>12, InvariantPartsNext DEF Others

LEMMA FlushCreatedStep ==
    ASSUME IInv, FlushCreated
    PROVE  IInv'
<1>1. Gone = {}
  BY NothingGone DEF FlushCreated, Creating
<1> QED
  BY <1>1, IdleStep DEF FlushCreated

LEMMA FailCreateStep ==
    ASSUME IInv, FailCreate
    PROVE  IInv'
<1>1. Gone = {} /\ ~Creating("flush")
  BY NothingGone DEF FailCreate, Creating
<1> QED
  BY <1>1, IdleStep DEF FailCreate

LEMMA LoadWordsStep ==
    ASSUME IInv, LoadWords
    PROVE  IInv'
<1>1. Gone = {} /\ ~Creating("flush")
  BY NothingGone DEF LoadWords, Allocating, Creating
<1> QED
  BY <1>1, IdleStep DEF LoadWords

LEMMA ReopenStep ==
    ASSUME IInv, Reopen
    PROVE  IInv'
<1>1. Gone = {} /\ ~Creating("flush") /\ job' = Idle
  BY NothingGone DEF Reopen, Idle, Creating
<1> QED
  BY <1>1, IdleStep DEF Reopen

\* Once the record of the new inode is written, it reads as the file or the
\* directory that was asked for.
LEMMA HandIsFile ==
    ASSUME Typed, CreateSound, job.op = "create", job.pc \in {"entry", "dirBlock", "dirInode"}
    PROVE  /\ Parts(job.ino) = job.data /\ BlocksOf(job.ino) = HandFile
           /\ Intact(job.ino)
           /\ IsDir(job.ino) => Children(job.ino) = {}
           /\ inodes[job.ino].mode # "free"
<1> DEFINE t == job.ino
<1>1. /\ HandFilled /\ HandCounts /\ HandWritten /\ job \in Creations /\ BlockFacts
      /\ t \in Inodes /\ job.data \in Seq(DataBlocks) /\ job.ind \in {0} \cup DataBlocks
      /\ job.kind \in {"reg", "dir"} /\ NAddrDirect \in Nat /\ NAddrDirect >= 1
      /\ Len(job.data) \in Nat /\ job.want \in Nat
  BY CreateParts, JobTyped, BlocksTyped, LayoutAssumption DEF Creations
<1>2. /\ inodes[t].mode = job.kind /\ inodes[t].addr = DirectPart(job.data) /\ inodes[t].ind = job.ind
      /\ job.ind # 0 => disk[job.ind] = Indirect(SubSeq(job.data, NAddrDirect + 1, Len(job.data)))
  BY <1>1 DEF HandWritten
<1>3. ASSUME job.ind = 0 PROVE Parts(t) = job.data /\ BlocksOf(t) = HandFile
  <2>1. Len(job.data) <= NAddrDirect
    BY <1>1, <1>3 DEF HandCounts
  <2>2. inodes[t].addr = job.data
    BY <1>2, <2>1 DEF DirectPart
  <2>3. Parts(t) = job.data /\ BlocksOf(t) = job.data
    BY <1>1, <1>2, <1>3, <2>2 DEF BlockFacts
  <2>4. HandFile = job.data
    <3>1. job.data \o <<>> = job.data
      BY <1>1, EmptySequence
    <3> QED
      BY <1>3, <3>1 DEF HandFile
  <2> QED
    BY <2>3, <2>4
<1>4. ASSUME job.ind # 0 PROVE Parts(t) = job.data /\ BlocksOf(t) = HandFile
  <2>1. disk[job.ind].list = SubSeq(job.data, NAddrDirect + 1, Len(job.data)) /\ disk[job.ind].tag = "ind"
    BY <1>2, <1>4 DEF Indirect
  <2>2. Parts(t) = DirectPart(job.data) \o SubSeq(job.data, NAddrDirect + 1, Len(job.data))
    BY <1>2, <1>4, <2>1 DEF Parts
  <2>3. Parts(t) = job.data
    <3>1. CASE Len(job.data) <= NAddrDirect
      <4>1. DirectPart(job.data) = job.data
        BY <3>1 DEF DirectPart
      <4>2. SubSeq(job.data, NAddrDirect + 1, Len(job.data)) = <<>>
        BY <1>1, <3>1
      <4> QED
        BY <1>1, <2>2, <4>1, <4>2, EmptySequence
    <3>2. CASE ~(Len(job.data) <= NAddrDirect)
      <4>1. DirectPart(job.data) = SubSeq(job.data, 1, NAddrDirect) /\ NAddrDirect <= Len(job.data)
        BY <1>1, <3>2 DEF DirectPart
      <4> QED
        BY <1>1, <2>2, <4>1, SplitSequence
    <3> QED
      BY <3>1, <3>2
  <2>4. BlocksOf(t) = Append(job.data, job.ind)
    BY <1>1, <1>2, <1>4, <2>3 DEF BlockFacts
  <2>5. HandFile = job.data \o <<job.ind>>
    BY <1>4 DEF HandFile
  <2>6. job.data \o <<job.ind>> = Append(job.data, job.ind)
    <3>1. \A s \in Seq(DataBlocks), x \in DataBlocks : s \o <<x>> = Append(s, x)
      BY AppendConcat
    <3>2. job.data \in Seq(DataBlocks) /\ job.ind \in DataBlocks
      BY <1>1, <1>4
    <3> QED
      BY <3>1, <3>2, Zenon
  <2> QED
    BY <2>3, <2>4, <2>5, <2>6
<1>5. IsDir(t) <=> job.kind = "dir"
  BY <1>2 DEF IsDir
<1>6. ASSUME job.kind = "dir"
      PROVE  job.ind = 0 /\ inodes[t].addr = job.data
  <2>1. job.ind = 0
    BY <1>1, <1>6 DEF HandCounts
  <2> QED
    BY <1>1, <1>2, <2>1 DEF HandCounts, DirectPart
<1> DEFINE content == DirBlock(<<Slot(job.ino, "."), Slot(job.dir, "..")>>)
<1>7. /\ content.tag = "dir"
      /\ \A k \in 1 .. DirSlots : content.list[k].ino = 0 \/ content.list[k].name \in {".", ".."}
  <2>1. Slot(job.ino, ".") \in Slots /\ Slot(job.dir, "..") \in Slots
    BY <1>1 DEF Slot, Slots, SlotNames, Creations
  <2>2. <<Slot(job.ino, "."), Slot(job.dir, "..")>> \in [1 .. 2 -> Slots]
    BY <2>1
  <2>3. /\ content.tag = "dir"
        /\ \A k \in 1 .. DirSlots :
              content.list[k] = IF k \in 1 .. 2 THEN <<Slot(job.ino, "."), Slot(job.dir, "..")>>[k]
                                ELSE EmptySlot
    BY <2>2, DirBlockTyped
  <2>4. \A k \in 1 .. 2 : <<Slot(job.ino, "."), Slot(job.dir, "..")>>[k].name \in {".", ".."}
    BY DEF Slot
  <2>5. EmptySlot.ino = 0
    BY DEF EmptySlot, Slot
  <2> HIDE DEF content
  <2> QED
    BY <2>3, <2>4, <2>5
<1>8. ASSUME job.kind = "dir", NEW k \in DOMAIN job.data PROVE disk[job.data[k]] = content
  BY <1>1, <1>8 DEF HandFilled, Filled
<1> HIDE DEF content
<1>9. IsDir(t) => Children(t) = {}
  <2> SUFFICES ASSUME job.kind = "dir", NEW p \in Positions(t)
               PROVE  SlotAt(t, p).ino = 0 \/ SlotAt(t, p).name \in {".", ".."}
    BY <1>5 DEF Children
  <2>1. /\ SlotBlock(t, p) = job.data[SlotBlockNo(p)] /\ SlotBlockNo(p) \in 1 .. Len(job.data)
        /\ SlotIndex(p) \in 1 .. DirSlots
    BY <1>1, <1>6, SlotTyped
  <2>2. disk[SlotBlock(t, p)] = content
    BY <1>1, <1>8, <2>1
  <2> QED
    BY <1>7, <2>1, <2>2 DEF SlotAt
<1>10. Intact(t)
  <2>1. CASE job.kind = "dir"
    <3>1. \A b \in Range(job.data) : disk[b].tag = "dir"
      BY <1>7, <1>8, <2>1 DEF Range
    <3> QED
      BY <1>2, <1>5, <1>6, <2>1, <3>1 DEF Intact
  <2>2. CASE job.kind = "reg"
    <3>1. job.ind # 0 => disk[job.ind].tag = "ind"
      BY <1>2 DEF Indirect
    <3>2. \A k \in DOMAIN job.data : disk[job.data[k]] = Data(t, k)
      BY <1>1, <2>2 DEF HandFilled, Filled
    <3>3. Parts(t) = job.data
      BY <1>3, <1>4
    <3> QED
      BY <1>2, <1>5, <2>2, <3>1, <3>2, <3>3 DEF Intact
  <2> QED
    BY <1>1, <2>1, <2>2
<1>11. inodes[t].mode # "free"
  BY <1>1, <1>2
<1> QED
  BY <1>3, <1>4, <1>9, <1>10, <1>11

\* A step that links the inode of the creation into its directory d.
LEMMA Adopted ==
    ASSUME IInv, job.op = "create", job.pc \in {"entry", "dirInode"},
           NEW d, NEW t, d = job.dir, t = job.ino, NEW new,
           UNCHANGED <<sb, sbDisk, crashes>>,
           job' = [job EXCEPT !.pc = "flush"],
           inodes' \in [Inodes -> InodeRecords], disk' \in [DataBlocks -> Sectors],
           Len(inodes'[d].addr) <= NAddrDirect, Lists' = Lists,
           \A i \in (Reachable \cup {t}) \ {d} : Kept(i),
           \A i \in Inodes \ {d} : inodes'[i] = inodes[i],
           IsDir(d)', Intact(d)', Distinct(BlocksOf(d))',
           Range(BlocksOf(d))' \subseteq Range(BlocksOf(d)) \cup (Range(InHand) \ Range(HandFile)),
           \A p \in Children(d) : SlotAt(d, p)' = SlotAt(d, p),
           \/ Children(d)' = Children(d)
           \/ /\ Children(d)' = Children(d) \cup {new} /\ new \notin Children(d)
              /\ SlotAt(d, new)'.ino = t
    PROVE  IInv'
<1>1. Typed /\ Bounded /\ SuperSound(sb) /\ SuperSound(sbDisk) /\ TreeSafe /\ HandSafe /\ CreateSound
  BY DEF IInv
<1>2. Gone = {} /\ Whole = Reachable /\ Live = Reachable
  BY NothingGone
<1>3. HandFilled /\ HandCounts /\ job \in Creations
  BY <1>1, CreateParts, JobTyped
<1>4. job' \in Creations /\ job'.op = "create" /\ job'.pc = "flush" /\ job'.dir = d
      /\ job'.kind = job.kind /\ job'.want = job.want /\ job'.data = job.data /\ job'.ind = job.ind
  BY <1>3 DEF Creations
<1>5. Gone' = {} /\ Whole' = Reachable' /\ Live' = Reachable' /\ RemoveSound' /\ FreeingSound'
  BY <1>4, NothingGoneNext
<1>6. Typed'
  BY <1>1, <1>4 DEF Typed
<1>7. Bounded'
  BY <1>1 DEF Bounded
<1>8. Free(sb)' = Free(sb) /\ Free(sbDisk)' = Free(sbDisk)
  BY DEF Free
<1>9. SuperSound(sb)' /\ SuperSound(sbDisk)'
  BY <1>1, <1>8 DEF SuperSound
<1>10. d \in Reachable /\ IsDir(d) /\ t \notin Reachable /\ t \notin Range(sb.freeInode)
       /\ t \in Inodes /\ Reachable \subseteq Inodes /\ TreeLinked
  BY <1>1, <1>3, TreeFactsHold DEF HandFilled, Creations, TreeFacts, TreeSafe
<1>11. /\ BlocksOf(t) = HandFile /\ Intact(t) /\ inodes[t].mode # "free"
       /\ IsDir(t) => Children(t) = {}
  BY <1>1, HandIsFile
<1>12. Kept(t) /\ inodes'[t] = inodes[t]
  BY <1>10
<1>13. BlocksOf(t)' = HandFile /\ Intact(t)' /\ inodes'[t].mode # "free"
       /\ (IsDir(t)' => Children(t)' = {})
  BY <1>11, <1>12 DEF Kept
<1>14. \A i \in Reachable \ {d} : BlocksOf(i)' = BlocksOf(i) /\ Intact(i)' = Intact(i) /\ SameChildren(i)
  BY KeptChildren DEF Kept
<1>15. \A i \in Reachable : inodes[i].mode # "free" => inodes'[i].mode # "free"
  BY <1>10 DEF IsDir
<1>16. Reachable' \subseteq Reachable \cup {t} /\ Reachable \subseteq Reachable' /\ TreeLinked'
  <2>1. CASE Children(d)' = Children(d)
    <3> DEFINE X == {}
    <3>1. X \in SUBSET (Inodes \ {InodeRoot})
      OBVIOUS
    <3>2. SameChildren(d)
      BY <1>10, <2>1 DEF SameChildren
    <3>3. \A i \in Reachable \ X : SameChildren(i)
      BY <1>14, <3>2
    <3>4. \A i \in X : (IsDir(i) => Children(i) = {}) /\ (IsDir(i)' => Children(i)' = {})
      OBVIOUS
    <3> HIDE DEF X
    <3>5. /\ Reachable' = Reachable
          /\ (\A i \in Reachable : (i \in Gone \/ inodes[i].mode # "free") =>
                                   (i \in Gone' \/ inodes'[i].mode # "free"))
             => (TreeLinked => TreeLinked')
      BY <1>1, <1>6, <3>1, <3>3, <3>4, TreeKept
    <3> QED
      BY <1>2, <1>10, <1>15, <3>5
  <2>2. CASE /\ Children(d)' = Children(d) \cup {new} /\ new \notin Children(d)
             /\ SlotAt(d, new)'.ino = t
    <3>1. /\ Reachable' = Reachable \cup {t}
          /\ Gone = {} /\ inodes'[t].mode # "free"
             /\ (\A i \in Reachable : inodes[i].mode # "free" => inodes'[i].mode # "free")
             => (TreeLinked => TreeLinked')
      BY <1>1, <1>6, <1>10, <1>13, <1>14, <2>2, LeafAdded
    <3> QED
      BY <1>2, <1>10, <1>13, <1>15, <3>1
  <2> QED
    BY <2>1, <2>2
<1>17. /\ Range(HandFile) \subseteq Range(InHand)
       /\ Distinct(HandFile)
       /\ Range(InHand) \cap Free(sb) = {}
       /\ \A i \in Reachable : Range(InHand) \cap Range(BlocksOf(i)) = {}
  BY <1>1, <1>2, HandTyped DEF HandSafe, HandFacts
<1>18. /\ \A i \in Reachable : Intact(i)
       /\ \A i \in Reachable : Distinct(BlocksOf(i))
       /\ \A i, j \in Reachable : i # j => Range(BlocksOf(i)) \cap Range(BlocksOf(j)) = {}
       /\ \A i \in Reachable : Range(BlocksOf(i)) \cap Free(sb) = {} /\ i \notin Range(sb.freeInode)
  BY <1>1, <1>2 DEF TreeSafe, BlocksApart, ApartFrom
<1>19. \A i \in Reachable' : Intact(i)'
  BY <1>13, <1>14, <1>16, <1>18
<1>20. BlocksApart(Reachable)'
  <2>1. \A i \in Reachable' : Distinct(BlocksOf(i)')
    BY <1>13, <1>14, <1>16, <1>17, <1>18
  <2>2. ASSUME NEW i \in Reachable', NEW j \in Reachable', i # j
        PROVE  Range(BlocksOf(i)') \cap Range(BlocksOf(j)') = {}
    <3>1. \A k \in Reachable' : \/ k \in Reachable \ {d} /\ BlocksOf(k)' = BlocksOf(k)
                                \/ k = d
                                \/ k = t /\ BlocksOf(k)' = HandFile
      BY <1>13, <1>14, <1>16
    <3>2. CASE i # d /\ j # d
      BY <1>17, <1>18, <2>2, <3>1, <3>2
    <3>3. \A k \in Reachable' : k # d => Range(BlocksOf(d)') \cap Range(BlocksOf(k)') = {}
      BY <1>10, <1>17, <1>18, <3>1
    <3> QED
      BY <2>2, <3>2, <3>3
  <2> QED
    BY <2>1, <2>2 DEF BlocksApart
<1>21. ApartFrom(sb, Reachable)'
  <2>1. ASSUME NEW i \in Reachable'
        PROVE  Range(BlocksOf(i)') \cap Free(sb)' = {} /\ i \notin Range(sb'.freeInode)
    <3>1. CASE i = d
      BY <1>8, <1>10, <1>17, <1>18, <3>1
    <3>2. CASE i = t
      BY <1>8, <1>10, <1>13, <1>17, <3>2
    <3>3. CASE i \in Reachable \ {d}
      BY <1>8, <1>14, <1>18, <3>3
    <3> QED
      BY <1>16, <3>1, <3>2, <3>3
  <2> QED
    BY <2>1 DEF ApartFrom
<1>22. TreeSafe'
  <2>1. Creating("flush")'
    BY <1>4 DEF Creating
  <2> QED
    BY <1>5, <1>16, <1>19, <1>20, <1>21, <2>1 DEF TreeSafe
<1>23. HandSafe'
  <2>1. InHand' = <<>>
    BY <1>4, <1>6, HandTypedNext DEF HandFacts
  <2>2. Range(<<>>) = {} /\ Distinct(<<>>)
    BY EmptySequence
  <2> QED
    BY <2>1, <2>2 DEF HandSafe
<1>24. CreateSound'
  <2>1. HandFilled'
    BY <1>4, <1>10, <1>16 DEF HandFilled
  <2>2. HandCounts'
    BY <1>3, <1>4 DEF HandCounts
  <2>3. HandWritten'
    BY <1>4 DEF HandWritten
  <2> QED
    BY <2>1, <2>2, <2>3, CreatePartsNext
<1> QED
  BY <1>5, <1>6, <1>7, <1>9, <1>22, <1>23, <1>24, InvariantPartsNext DEF Others

\* What such a step does to the tree: one more entry, and nothing else.
EntryAdded ==
    \E d, t, new :
        /\ d = job.dir /\ t = job.ino
        /\ \A i \in (Reachable \cup {t}) \ {d} : Kept(i)
        /\ \A i \in Inodes \ {d} : inodes'[i] = inodes[i]
        /\ IsDir(d)'
        /\ \A p \in Children(d) : SlotAt(d, p)' = SlotAt(d, p)
        /\ \/ NewSlot.name \in {".", ".."}
           \/ /\ Children(d)' = Children(d) \cup {new} /\ new \notin Children(d)
              /\ SlotAt(d, new)' = NewSlot

\* One slot of a directory is written.
SetSlot(d, p, s) == disk' = [disk EXCEPT ![SlotBlock(d, p)].list[SlotIndex(p)] = s]

LEMMA SlotWritten ==
    ASSUME Typed, NEW d \in Inodes, Distinct(inodes[d].addr),
           \A b \in Range(inodes[d].addr) : disk[b].tag = "dir",
           NEW p \in Positions(d), NEW s \in Slots, inodes'[d].addr = inodes[d].addr,
           SetSlot(d, p, s)
    PROVE  /\ disk' \in [DataBlocks -> Sectors] /\ Lists' = Lists
           /\ SlotBlock(d, p) \in Range(inodes[d].addr)
           /\ \A b : b # SlotBlock(d, p) => disk'[b] = disk[b]
           /\ \A b \in Range(inodes[d].addr) : disk'[b].tag = "dir"
           /\ Positions(d)' = Positions(d)
           /\ SlotAt(d, p)' = s
           /\ \A q \in Positions(d) : q # p => SlotAt(d, q)' = SlotAt(d, q)
<1> DEFINE B == SlotBlock(d, p)
           K == SlotIndex(p)
<1>1. B \in Range(inodes[d].addr) /\ B \in DataBlocks /\ K \in 1 .. DirSlots
  BY SlotTyped
<1>2. disk[B] \in DirSectors /\ disk[B].tag = "dir" /\ disk[B].list \in [1 .. DirSlots -> Slots]
  <2>1. disk[B] \in Sectors /\ disk[B].tag = "dir"
    BY <1>1 DEF Typed
  <2>2. disk[B] \in DirSectors
    BY <2>1, SectorTyped
  <2> QED
    BY <2>1, <2>2 DEF DirSectors
<1> DEFINE new == [disk[B] EXCEPT !.list[K] = s]
<1>3. /\ new \in DirSectors /\ new.tag = "dir" /\ new.list[K] = s
      /\ \A k \in 1 .. DirSlots : k # K => new.list[k] = disk[B].list[k]
  BY <1>1, <1>2 DEF DirSectors
<1>4. disk' = [disk EXCEPT ![B] = new]
  BY DEF SetSlot
<1> HIDE DEF new
<1>5. disk' \in [DataBlocks -> Sectors] /\ disk'[B] = new /\ \A b : b # B => disk'[b] = disk[b]
  BY <1>1, <1>3, <1>4 DEF Typed, Sectors
<1>6. Lists' = Lists
  <2>1. Listed(new) = <<>> /\ Listed(disk[B]) = <<>>
    BY <1>2, <1>3 DEF Listed
  <2>2. \A c \in DataBlocks : Listed(disk'[c]) = Listed(disk[c])
    BY <1>5, <2>1
  <2> QED
    BY <2>2 DEF Lists
<1>7. \A b \in Range(inodes[d].addr) : disk'[b].tag = "dir"
  BY <1>3, <1>5
<1>8. Positions(d)' = Positions(d)
  BY DEF Positions
<1>9. \A q \in Positions(d) : SlotBlock(d, q)' = SlotBlock(d, q)
  BY DEF SlotBlock
<1>10. \A q \in Positions(d) :
          /\ SlotAt(d, q) = disk[SlotBlock(d, q)].list[SlotIndex(q)]
          /\ SlotAt(d, q)' = disk'[SlotBlock(d, q)].list[SlotIndex(q)]
  <2> SUFFICES ASSUME NEW q \in Positions(d)
               PROVE  /\ SlotAt(d, q) = disk[SlotBlock(d, q)].list[SlotIndex(q)]
                      /\ SlotAt(d, q)' = disk'[SlotBlock(d, q)].list[SlotIndex(q)]
    OBVIOUS
  <2>1. SlotBlock(d, q) \in Range(inodes[d].addr)
    BY SlotTyped
  <2> QED
    BY <1>7, <1>9, <2>1 DEF SlotAt
<1>11. SlotAt(d, p)' = s
  BY <1>3, <1>5, <1>10
<1>12. ASSUME NEW q \in Positions(d), q # p PROVE SlotAt(d, q)' = SlotAt(d, q)
  <2>1. CASE SlotBlock(d, q) # B
    BY <1>5, <1>10, <2>1
  <2>2. CASE SlotBlock(d, q) = B
    <3>1. /\ SlotBlock(d, q) = inodes[d].addr[SlotBlockNo(q)]
          /\ SlotBlock(d, p) = inodes[d].addr[SlotBlockNo(p)]
          /\ SlotBlockNo(q) \in 1 .. Len(inodes[d].addr) /\ SlotBlockNo(p) \in 1 .. Len(inodes[d].addr)
          /\ SlotIndex(q) \in 1 .. DirSlots
      BY SlotTyped
    <3>2. inodes[d].addr \in Seq(DataBlocks) /\ Len(inodes[d].addr) \in Nat
      BY DEF Typed, InodeRecords
    <3>3. SlotBlockNo(q) = SlotBlockNo(p)
      <4>1. inodes[d].addr[SlotBlockNo(q)] = inodes[d].addr[SlotBlockNo(p)]
        BY <2>2, <3>1
      <4>2. DOMAIN inodes[d].addr = 1 .. Len(inodes[d].addr)
        BY <3>2
      <4> QED
        BY <3>1, <4>1, <4>2 DEF Distinct
    <3>4. SlotIndex(q) # K
      BY <1>12, <3>2, <3>3, PositionsApart DEF Positions
    <3> QED
      BY <1>3, <1>5, <1>10, <2>2, <3>1, <3>4
  <2> QED
    BY <2>1, <2>2
<1> QED
  BY <1>1, <1>5, <1>6, <1>7, <1>8, <1>11, <1>12

\* A directory of the tree whose blocks are all its own.
LEMMA DirIntact ==
    ASSUME Typed, NEW d \in Inodes, IsDir(d), Intact(d), Distinct(BlocksOf(d))
    PROVE  /\ inodes[d].ind = 0 /\ BlocksOf(d) = inodes[d].addr /\ Distinct(inodes[d].addr)
           /\ \A b \in Range(inodes[d].addr) : disk[b].tag = "dir"
<1>1. BlockFacts
  BY BlocksTyped
<1> QED
  BY <1>1 DEF BlockFacts, Intact

LEMMA AddEntryStep ==
    ASSUME IInv, AddEntry
    PROVE  IInv' /\ EntryAdded
<1> DEFINE d == job.dir
           t == job.ino
           p == Min(FreeSlots(d))
<1>1. /\ Typed /\ Bounded /\ HandFilled /\ HandSafe /\ TreeSafe
      /\ job.op = "create" /\ job.pc = "entry" /\ job \in Creations
      /\ UNCHANGED <<inodes, sbDisk, sb, crashes>> /\ FreeSlots(d) # {}
      /\ job' = [job EXCEPT !.pc = "flush"]
      /\ disk' = [disk EXCEPT ![SlotBlock(d, p)].list[SlotIndex(p)] = NewSlot]
  BY CreateParts, JobTyped DEF IInv, AddEntry, Creating
<1>2. Gone = {} /\ Whole = Reachable /\ Live = Reachable
  BY <1>1, NothingGone
<1>3. d \in Reachable /\ d \in Inodes /\ IsDir(d) /\ t \in Inodes /\ t \notin Reachable
      /\ Reachable \subseteq Inodes
  BY <1>1, TreeFactsHold DEF HandFilled, TreeFacts, Creations
<1>4. /\ inodes[d].ind = 0 /\ BlocksOf(d) = inodes[d].addr /\ Distinct(inodes[d].addr)
      /\ \A b \in Range(inodes[d].addr) : disk[b].tag = "dir"
      /\ Intact(d)
  <2>1. Intact(d) /\ Distinct(BlocksOf(d))
    BY <1>1, <1>2, <1>3 DEF TreeSafe, BlocksApart
  <2> HIDE DEF d
  <2> QED
    BY <1>1, <1>3, <2>1, DirIntact
<1>5. p \in Positions(d) /\ p \notin ReadDir(d)
  <2>1. Positions(d) \subseteq Nat
    BY DEF Positions
  <2>2. FreeSlots(d) \subseteq Nat /\ FreeSlots(d) \subseteq Positions(d) \ ReadDir(d)
    BY <2>1 DEF FreeSlots
  <2>3. p \in FreeSlots(d)
    BY <1>1, <2>2, MinOf
  <2> HIDE DEF p
  <2> QED
    BY <2>2, <2>3
<1>6. NewSlot \in Slots /\ NewSlot.ino = t /\ NewSlot.ino # 0
  BY <1>1, NewSlotTyped
<1> PICK e, u, q : e = d /\ u = t /\ q = p
  OBVIOUS
<1> HIDE DEF p
<1>7. /\ disk' \in [DataBlocks -> Sectors] /\ Lists' = Lists
      /\ SlotBlock(e, q) \in Range(inodes[e].addr)
      /\ \A b : b # SlotBlock(e, q) => disk'[b] = disk[b]
      /\ \A b \in Range(inodes[e].addr) : disk'[b].tag = "dir"
      /\ Positions(e)' = Positions(e)
      /\ SlotAt(e, q)' = NewSlot
      /\ \A r \in Positions(e) : r # q => SlotAt(e, r)' = SlotAt(e, r)
  <2> PICK s : s = NewSlot
    OBVIOUS
  <2>1. /\ Typed /\ e \in Inodes /\ Distinct(inodes[e].addr)
        /\ \A b \in Range(inodes[e].addr) : disk[b].tag = "dir"
        /\ q \in Positions(e) /\ s \in Slots /\ inodes'[e].addr = inodes[e].addr
        /\ SetSlot(e, q, s)
    BY <1>1, <1>3, <1>4, <1>5, <1>6 DEF SetSlot
  <2>2. /\ disk' \in [DataBlocks -> Sectors] /\ Lists' = Lists
        /\ SlotBlock(e, q) \in Range(inodes[e].addr)
        /\ \A b : b # SlotBlock(e, q) => disk'[b] = disk[b]
        /\ \A b \in Range(inodes[e].addr) : disk'[b].tag = "dir"
        /\ Positions(e)' = Positions(e)
        /\ SlotAt(e, q)' = s
        /\ \A r \in Positions(e) : r # q => SlotAt(e, r)' = SlotAt(e, r)
    BY <2>1, SlotWritten
  <2> QED
    BY <2>2
<1>8. q \notin ReadDir(e) /\ q \in Positions(e) /\ SlotAt(e, q).ino = 0
  BY <1>5 DEF ReadDir
<1>9. \A r \in Children(e) : r # q /\ r \in Positions(e) /\ SlotAt(e, r)' = SlotAt(e, r)
  BY <1>7, <1>8 DEF Children
<1>10. \/ Children(e)' = Children(e) /\ NewSlot.name \in {".", ".."}
       \/ /\ Children(e)' = Children(e) \cup {q} /\ q \notin Children(e)
          /\ SlotAt(e, q)' = NewSlot /\ SlotAt(e, q)'.ino = u
  <2>1. CASE NewSlot.name \in {".", ".."}
    BY <1>7, <1>8, <2>1 DEF Children
  <2>2. CASE NewSlot.name \notin {".", ".."}
    BY <1>6, <1>7, <1>8, <2>2 DEF Children
  <2> QED
    BY <2>1, <2>2
<1>11. IsDir(e)' /\ Intact(e)' /\ BlocksOf(e)' = inodes[e].addr
  <2>1. IsDir(e)' /\ inodes'[e] = inodes[e] /\ inodes[e].ind = 0 /\ inodes[e].addr \in Seq(DataBlocks)
    BY <1>1, <1>3, <1>4 DEF IsDir, Typed, InodeRecords
  <2>2. Intact(e)'
    BY <1>7, <2>1 DEF Intact
  <2>3. BlocksOf(e)' = inodes[e].addr \o <<>>
    BY <2>1 DEF BlocksOf
  <2> QED
    BY <2>1, <2>2, <2>3, EmptySequence
<1>12. ASSUME NEW i \in (Reachable \cup {u}) \ {e} PROVE Kept(i)
  <2>1. i \in Inodes /\ inodes'[i] = inodes[i]
    BY <1>1, <1>3, <1>12
  <2>2. SlotBlock(e, q) \notin Range(BlocksOf(i))
    <3>1. CASE i \in Reachable
      BY <1>1, <1>2, <1>3, <1>4, <1>7, <1>12, <3>1 DEF TreeSafe, BlocksApart
    <3>2. CASE i = u
      <4>1. BlocksOf(u) = HandFile /\ Range(HandFile) \subseteq Range(InHand)
        BY <1>1, HandIsFile, HandTyped DEF HandFacts, IInv
      <4>2. Range(InHand) \cap Range(BlocksOf(e)) = {}
        BY <1>1, <1>2, <1>3 DEF HandSafe
      <4> QED
        BY <1>4, <1>7, <3>2, <4>1, <4>2
    <3> QED
      BY <1>12, <3>1, <3>2
  <2> QED
    BY <1>1, <1>7, <2>1, <2>2, RecordKept
<1>13. inodes' \in [Inodes -> InodeRecords] /\ Len(inodes'[e].addr) <= NAddrDirect
  BY <1>1, <1>3 DEF Typed, Bounded
<1>14. Distinct(BlocksOf(e))'
  BY <1>4, <1>11
<1>15. Range(BlocksOf(e))' \subseteq Range(BlocksOf(e)) \cup (Range(InHand) \ Range(HandFile))
  BY <1>4, <1>11
<1>16. e = job.dir /\ u = job.ino
  OBVIOUS
<1> HIDE DEF d, t
<1>17. IInv'
  BY <1>1, <1>7, <1>9, <1>10, <1>11, <1>12, <1>13, <1>14, <1>15, <1>16, Adopted
<1>18. EntryAdded
  <2>1. \A i \in Inodes \ {e} : inodes'[i] = inodes[i]
    BY <1>1
  <2> QED
    BY <1>9, <1>10, <1>11, <1>12, <1>16, <2>1 DEF EntryAdded
<1> QED
  BY <1>17, <1>18

\* One more block for a directory.
LinkBlock(d, b) == inodes' = [inodes EXCEPT ![d].addr = Append(@, b)]

LEMMA BlockAdded ==
    ASSUME Typed, NEW d \in Inodes, NEW b \in DataBlocks, IsDir(d), Intact(d),
           Distinct(inodes[d].addr), b \notin Range(inodes[d].addr),
           LinkBlock(d, b), disk' = disk,
           NEW s \in Slots, s.ino # 0, disk[b] = DirBlock(<<s>>)
    PROVE  /\ inodes' \in [Inodes -> InodeRecords]
           /\ \A i \in Inodes \ {d} : inodes'[i] = inodes[i]
           /\ Len(inodes'[d].addr) = Len(inodes[d].addr) + 1
           /\ IsDir(d)' /\ Intact(d)' /\ Distinct(BlocksOf(d))'
           /\ Range(BlocksOf(d))' = Range(inodes[d].addr) \cup {b}
           /\ \A p \in Children(d) : SlotAt(d, p)' = SlotAt(d, p)
           /\ \E p : \/ Children(d)' = Children(d) /\ s.name \in {".", ".."}
                     \/ /\ Children(d)' = Children(d) \cup {p} /\ p \notin Children(d)
                        /\ SlotAt(d, p)' = s
<1> DEFINE addr == inodes[d].addr
           n    == Len(addr)
<1> PICK new : new = DirSlots * n + 1
  OBVIOUS
<1>1. addr \in Seq(DataBlocks) /\ n \in Nat /\ inodes[d] \in InodeRecords
      /\ inodes[d].ind = 0 /\ \A c \in Range(addr) : disk[c].tag = "dir"
  BY DEF Typed, InodeRecords, Intact
<1>2. /\ Append(addr, b) \in Seq(DataBlocks) /\ Len(Append(addr, b)) = n + 1
      /\ \A i \in 1 .. n : Append(addr, b)[i] = addr[i]
      /\ Append(addr, b)[n + 1] = b
      /\ Range(Append(addr, b)) = Range(addr) \cup {b} /\ Distinct(Append(addr, b))
  BY <1>1, AppendEntries, AppendDistinct
<1>3. /\ inodes'[d].addr = Append(addr, b) /\ inodes'[d].ind = 0 /\ inodes'[d].mode = inodes[d].mode
      /\ inodes' \in [Inodes -> InodeRecords]
      /\ \A i \in Inodes \ {d} : inodes'[i] = inodes[i]
  BY <1>1, <1>2 DEF Typed, InodeRecords, LinkBlock
<1>4. /\ disk[b].tag = "dir"
      /\ \A k \in 1 .. DirSlots : disk[b].list[k] = IF k = 1 THEN s ELSE EmptySlot
  <2>1. <<s>> \in [1 .. 1 -> Slots] /\ <<s>>[1] = s
    OBVIOUS
  <2>2. /\ DirBlock(<<s>>).tag = "dir"
        /\ \A k \in 1 .. DirSlots :
              DirBlock(<<s>>).list[k] = IF k \in 1 .. 1 THEN <<s>>[k] ELSE EmptySlot
    BY <2>1, DirBlockTyped
  <2>3. \A k \in 1 .. DirSlots : k \in 1 .. 1 <=> k = 1
    BY LayoutAssumption
  <2> QED
    BY <2>1, <2>2, <2>3
<1>5. IsDir(d)' /\ Intact(d)'
  BY <1>1, <1>2, <1>3, <1>4 DEF IsDir, Intact
<1>6. BlocksOf(d)' = Append(addr, b)
  <2>1. BlocksOf(d)' = Append(addr, b) \o <<>>
    BY <1>3 DEF BlocksOf
  <2> QED
    BY <1>2, <2>1, EmptySequence
<1>7. /\ Positions(d) = 1 .. (DirSlots * n) /\ Positions(d)' = 1 .. (DirSlots * (n + 1))
  BY <1>2, <1>3 DEF Positions
<1>8. /\ Positions(d) \subseteq Positions(d)'
      /\ new \in Positions(d)' /\ new \notin Positions(d)
      /\ SlotBlockNo(new) = n + 1 /\ SlotIndex(new) = 1
      /\ \A p \in Positions(d)' \ Positions(d) :
            SlotBlockNo(p) = n + 1 /\ (SlotIndex(p) = 1 => p = new) /\ SlotIndex(p) \in 1 .. DirSlots
  <2>1. /\ 1 .. (DirSlots * n) \subseteq 1 .. (DirSlots * (n + 1))
        /\ DirSlots * n \in Nat
        /\ DirSlots * n + 1 \in 1 .. (DirSlots * (n + 1))
        /\ SlotBlockNo(DirSlots * n + 1) = n + 1 /\ SlotIndex(DirSlots * n + 1) = 1
        /\ \A p \in 1 .. (DirSlots * (n + 1)) :
              p \notin 1 .. (DirSlots * n) =>
                 /\ SlotBlockNo(p) = n + 1
                 /\ SlotIndex(p) = 1 => p = DirSlots * n + 1
    BY <1>1, PositionsAdded
  <2>2. \A p \in 1 .. (DirSlots * (n + 1)) : SlotIndex(p) \in 1 .. DirSlots
    <3>1. n + 1 \in Nat
      BY <1>1
    <3> HIDE DEF n
    <3> QED
      BY <3>1, PositionParts
  <2>3. new \notin 1 .. (DirSlots * n)
    <3> PICK m : m = DirSlots * n
      OBVIOUS
    <3>1. m \in Nat /\ new = m + 1
      BY <2>1
    <3>2. m + 1 \notin 1 .. m
      BY <3>1
    <3> QED
      BY <3>1, <3>2
  <2> HIDE DEF n
  <2> QED
    BY <1>7, <2>1, <2>2, <2>3
<1>9. ASSUME NEW p \in Positions(d) PROVE SlotAt(d, p)' = SlotAt(d, p)
  <2>1. SlotBlockNo(p) \in 1 .. n
    BY <1>1, <1>7, PositionParts
  <2>2. SlotBlock(d, p) = addr[SlotBlockNo(p)] /\ SlotBlock(d, p)' = Append(addr, b)[SlotBlockNo(p)]
    BY <1>3 DEF SlotBlock, SlotBlockNo
  <2>3. SlotBlock(d, p)' = SlotBlock(d, p)
    BY <1>2, <2>1, <2>2
  <2> QED
    BY <2>3 DEF SlotAt
<1>10. ASSUME NEW p \in Positions(d)' \ Positions(d)
       PROVE  SlotAt(d, p)' = IF p = new THEN s ELSE EmptySlot
  <2>1. SlotBlockNo(p) = n + 1 /\ (SlotIndex(p) = 1 <=> p = new) /\ SlotIndex(p) \in 1 .. DirSlots
    BY <1>8
  <2>2. SlotBlock(d, p)' = Append(addr, b)[SlotBlockNo(p)]
    BY <1>3 DEF SlotBlock, SlotBlockNo
  <2>3. SlotBlock(d, p)' = b
    BY <1>2, <2>1, <2>2
  <2> QED
    BY <1>4, <2>1, <2>3 DEF SlotAt
<1>11. EmptySlot.ino = 0
  BY DEF EmptySlot, Slot
<1>12. Children(d) \subseteq Positions(d)
  BY DEF Children
<1>13. \/ Children(d)' = Children(d) /\ s.name \in {".", ".."}
       \/ /\ Children(d)' = Children(d) \cup {new} /\ new \notin Children(d)
          /\ SlotAt(d, new)' = s
  <2>1. Children(d)' = {p \in Positions(d)' : SlotAt(d, p)'.ino # 0 /\ SlotAt(d, p)'.name \notin {".", ".."}}
    BY DEF Children
  <2>2. CASE s.name \in {".", ".."}
    <3>1. Children(d)' = Children(d)
      BY <1>8, <1>9, <1>10, <1>11, <2>1, <2>2 DEF Children
    <3> QED
      BY <2>2, <3>1
  <2>3. CASE s.name \notin {".", ".."}
    <3>1. Children(d)' = Children(d) \cup {new}
      BY <1>8, <1>9, <1>10, <1>11, <2>1, <2>3 DEF Children
    <3>2. new \in Positions(d)' \ Positions(d)
      BY <1>8
    <3>3. SlotAt(d, new)' = s
      BY <1>10, <3>2
    <3>4. new \notin Children(d)
      BY <1>12, <3>2
    <3> QED
      BY <3>1, <3>3, <3>4
  <2> QED
    BY <2>2, <2>3
<1>14. \E p : \/ Children(d)' = Children(d) /\ s.name \in {".", ".."}
              \/ /\ Children(d)' = Children(d) \cup {p} /\ p \notin Children(d)
                 /\ SlotAt(d, p)' = s
  BY <1>13
<1>15. \A p \in Children(d) : SlotAt(d, p)' = SlotAt(d, p)
  BY <1>9, <1>12
<1>16. Distinct(BlocksOf(d))' /\ Range(BlocksOf(d))' = Range(addr) \cup {b}
  BY <1>2, <1>6
<1>17. Len(inodes'[d].addr) = n + 1
  BY <1>2, <1>3
<1> QED
  BY <1>3, <1>5, <1>14, <1>15, <1>16, <1>17

LEMMA WriteDirInodeStep ==
    ASSUME IInv, WriteDirInode
    PROVE  IInv' /\ EntryAdded
<1> PICK d, t, b : d = job.dir /\ t = job.ino /\ b = job.block
  OBVIOUS
<1>1. /\ Typed /\ Bounded /\ HandFilled /\ HandCounts /\ HandWritten /\ HandSafe /\ TreeSafe
      /\ job.op = "create" /\ job.pc = "dirInode" /\ job \in Creations
      /\ UNCHANGED <<disk, sbDisk, sb, crashes>>
      /\ inodes' = [inodes EXCEPT ![d].addr = Append(@, b)]
      /\ job' = [job EXCEPT !.pc = "flush"]
  BY CreateParts, JobTyped DEF IInv, WriteDirInode, Creating
<1>2. Gone = {} /\ Whole = Reachable /\ Live = Reachable
  BY <1>1, NothingGone
<1>3. d \in Reachable /\ d \in Inodes /\ IsDir(d) /\ t \in Inodes /\ t \notin Reachable
      /\ Reachable \subseteq Inodes /\ b \in DataBlocks
  BY <1>1, TreeFactsHold DEF HandFilled, HandCounts, TreeFacts, Creations
<1>4. /\ inodes[d].ind = 0 /\ BlocksOf(d) = inodes[d].addr /\ Distinct(inodes[d].addr)
      /\ Intact(d)
  <2>1. Intact(d) /\ Distinct(BlocksOf(d))
    BY <1>1, <1>2, <1>3 DEF TreeSafe, BlocksApart
  <2> QED
    BY <1>1, <1>3, <2>1, DirIntact
<1>5. b \in Range(InHand) /\ b \notin Range(HandFile)
  <2>1. HandFacts
    BY <1>1, HandTyped
  <2>2. BlockTakenAt(job.pc)
    BY <1>1 DEF BlockTakenAt
  <2> QED
    BY <1>1, <2>1, <2>2 DEF HandFacts, HandSafe
<1>6. b \notin Range(BlocksOf(d))
  BY <1>1, <1>2, <1>3, <1>5 DEF HandSafe
<1>7. NewSlot \in Slots /\ NewSlot.ino = t /\ NewSlot.ino # 0 /\ disk[b] = DirBlock(<<NewSlot>>)
      /\ Len(inodes[d].addr) < NAddrDirect
  BY <1>1, NewSlotTyped DEF HandWritten
<1> PICK s : s = NewSlot
  OBVIOUS
<1>8. /\ inodes' \in [Inodes -> InodeRecords]
      /\ \A i \in Inodes \ {d} : inodes'[i] = inodes[i]
      /\ Len(inodes'[d].addr) = Len(inodes[d].addr) + 1
      /\ IsDir(d)' /\ Intact(d)' /\ Distinct(BlocksOf(d))'
      /\ Range(BlocksOf(d))' = Range(inodes[d].addr) \cup {b}
      /\ \A p \in Children(d) : SlotAt(d, p)' = SlotAt(d, p)
      /\ \E p : \/ Children(d)' = Children(d) /\ s.name \in {".", ".."}
                \/ /\ Children(d)' = Children(d) \cup {p} /\ p \notin Children(d)
                   /\ SlotAt(d, p)' = s
  <2>1. LinkBlock(d, b) /\ disk' = disk
    BY <1>1 DEF LinkBlock
  <2>2. s \in Slots /\ s.ino # 0 /\ disk[b] = DirBlock(<<s>>)
    BY <1>7
  <2>3. Typed /\ d \in Inodes /\ b \in DataBlocks /\ IsDir(d) /\ Intact(d)
        /\ Distinct(inodes[d].addr) /\ b \notin Range(inodes[d].addr)
    BY <1>1, <1>3, <1>4, <1>6
  <2> QED
    BY <2>1, <2>2, <2>3, BlockAdded
<1>9. PICK new : \/ Children(d)' = Children(d) /\ s.name \in {".", ".."}
                 \/ /\ Children(d)' = Children(d) \cup {new} /\ new \notin Children(d)
                    /\ SlotAt(d, new)' = s
  BY <1>8
<1>10. ASSUME NEW i \in (Reachable \cup {t}) \ {d} PROVE Kept(i)
  <2>1. i \in Inodes /\ inodes'[i] = inodes[i]
    BY <1>3, <1>8, <1>10
  <2> QED
    BY <1>1, <2>1, RecordKept
<1>11. Len(inodes'[d].addr) <= NAddrDirect
  <2>1. Len(inodes[d].addr) \in Nat
    BY <1>1, <1>3 DEF Typed, InodeRecords
  <2> QED
    BY <1>7, <1>8, <2>1, LayoutAssumption
<1>12. /\ Range(BlocksOf(d))' \subseteq Range(BlocksOf(d)) \cup (Range(InHand) \ Range(HandFile))
       /\ disk' \in [DataBlocks -> Sectors] /\ Lists' = Lists
       /\ d = job.dir /\ t = job.ino
       /\ job.pc \in {"entry", "dirInode"}
  BY <1>1, <1>4, <1>5, <1>8 DEF Typed, Lists
<1>13. \/ Children(d)' = Children(d)
       \/ /\ Children(d)' = Children(d) \cup {new} /\ new \notin Children(d)
          /\ SlotAt(d, new)'.ino = t
  BY <1>7, <1>9
<1>14. IInv'
  BY <1>1, <1>8, <1>10, <1>11, <1>12, <1>13, Adopted
<1>15. EntryAdded
  BY <1>8, <1>9, <1>10, <1>12 DEF EntryAdded
<1> QED
  BY <1>14, <1>15

-----------------------------------------------------------------------------
(* The steps of a removal.                                                 *)

\* The first entry of a name.
LEMMA NamedSlot ==
    ASSUME Typed, NEW d \in Inodes, NEW name, name \in DirNames(d)
    PROVE  /\ SlotNamed(d, name) \in ReadDir(d) /\ SlotNamed(d, name) \in Positions(d)
           /\ SlotAt(d, SlotNamed(d, name)).name = name
           /\ name \notin {".", ".."} => SlotNamed(d, name) \in Children(d)
           /\ \A p \in ReadDir(d) : SlotAt(d, p).name = name => SlotNamed(d, name) <= p
           /\ ReadDir(d) \subseteq Nat
<1> DEFINE S == {p \in ReadDir(d) : SlotAt(d, p).name = name}
<1>1. ReadDir(d) \subseteq Nat
  BY DEF ReadDir, Positions
<1>2. S \in SUBSET Nat /\ S # {}
  BY <1>1 DEF DirNames
<1>3. SlotNamed(d, name) = Min(S)
  BY DEF SlotNamed
<1>4. Min(S) \in S /\ \A x \in S : Min(S) <= x
  <2> HIDE DEF S
  <2> QED
    BY <1>2, MinOf
<1>5. SlotNamed(d, name) \in S
  BY <1>3, <1>4
<1>6. \A p \in ReadDir(d) : SlotAt(d, p).name = name => SlotNamed(d, name) <= p
  BY <1>3, <1>4
<1>7. SlotNamed(d, name) \in ReadDir(d) /\ SlotAt(d, SlotNamed(d, name)).name = name
  BY <1>5
<1> HIDE DEF S
<1> QED
  BY <1>1, <1>6, <1>7 DEF ReadDir, Children

\* The target of a linked frame is an entry of the tree.
LEMMA LinkedChild ==
    ASSUME Typed, NEW f, Linked(f)
    PROVE  /\ f.dir \in Inodes
           /\ SlotNamed(f.dir, f.name) \in Children(f.dir)
           /\ SlotAt(f.dir, SlotNamed(f.dir, f.name)).ino = f.ino
           /\ f.ino \in Reachable /\ f.ino \in Inodes
<1>1. f.dir \in Reachable /\ IsDir(f.dir) /\ f.name \notin {".", ".."} /\ f.name \in DirNames(f.dir)
      /\ SlotAt(f.dir, SlotNamed(f.dir, f.name)).ino = f.ino
  BY DEF Linked
<1>2. TreeFacts
  BY TreeFactsHold
<1>3. f.dir \in Inodes
  BY <1>1, <1>2 DEF TreeFacts
<1>4. SlotNamed(f.dir, f.name) \in Children(f.dir)
  BY <1>1, <1>3, NamedSlot
<1> QED
  BY <1>1, <1>2, <1>3, <1>4 DEF TreeFacts

\* The blocks of an intact inode are data blocks and none of them is a chain
\* block.
LEMMA IntactBlocks ==
    ASSUME Typed, NEW i \in Inodes, Intact(i)
    PROVE  /\ BlocksOf(i) \in Seq(DataBlocks)
           /\ \A b \in Range(BlocksOf(i)) : Lists[b] = <<>>
<1>1. /\ BlockFacts /\ inodes[i].addr \in Seq(DataBlocks)
      /\ inodes[i].ind \in {0} \cup DataBlocks
  BY BlocksTyped DEF Typed, InodeRecords
<1>2. CASE IsDir(i)
  <2>1. BlocksOf(i) = inodes[i].addr
    BY <1>1, <1>2 DEF BlockFacts, Intact
  <2>2. \A b \in Range(inodes[i].addr) : disk[b].tag = "dir" /\ b \in DataBlocks
    BY <1>1, <1>2 DEF Intact, Range
  <2> QED
    BY <1>1, <2>1, <2>2 DEF Lists, Listed
<1>3. CASE ~IsDir(i)
  <2>1. inodes[i].ind # 0 => disk[inodes[i].ind].tag = "ind" /\ inodes[i].ind \in DataBlocks
    BY <1>1, <1>3 DEF Intact
  <2>2. inodes[i].ind # 0 => disk[inodes[i].ind].list \in Seq(DataBlocks)
    BY <2>1, SectorTyped DEF Typed
  <2>3. BlocksOf(i) \in Seq(DataBlocks)
    <3>1. CASE inodes[i].ind = 0
      BY <1>1, <3>1 DEF BlockFacts
    <3>2. CASE inodes[i].ind # 0
      <4>1. BlocksOf(i) = inodes[i].addr \o Append(disk[inodes[i].ind].list, inodes[i].ind)
        BY <3>2 DEF BlocksOf
      <4> QED
        BY <1>1, <2>1, <2>2, <3>2, <4>1
    <3> QED
      BY <3>1, <3>2
  <2>4. \A b \in Range(Parts(i)) : disk[b].tag = "data"
    <3>1. \A k \in DOMAIN Parts(i) : disk[Parts(i)[k]] = Data(i, k)
      BY <1>3 DEF Intact
    <3>2. \A k : Data(i, k).tag = "data"
      BY DEF Data
    <3>3. \A k \in DOMAIN Parts(i) : disk[Parts(i)[k]].tag = "data"
      BY <3>1, <3>2
    <3> QED
      BY <3>3 DEF Range
  <2>5. \A b \in Range(BlocksOf(i)) : disk[b].tag \in {"data", "ind"}
    <3>1. CASE inodes[i].ind = 0
      BY <1>1, <2>4, <3>1 DEF BlockFacts
    <3>2. CASE inodes[i].ind # 0
      <4>1. BlocksOf(i) = Append(Parts(i), inodes[i].ind) /\ Parts(i) \in Seq(Payload)
            /\ inodes[i].ind \in Payload
        BY <1>1, <3>2 DEF BlockFacts, Payload
      <4>2. Range(BlocksOf(i)) = Range(Parts(i)) \cup {inodes[i].ind}
        BY <4>1, AppendDistinct
      <4> QED
        BY <2>1, <2>4, <3>2, <4>2
    <3> QED
      BY <3>1, <3>2
  <2>6. Range(BlocksOf(i)) \subseteq DataBlocks
    BY <2>3 DEF Range
  <2> QED
    BY <2>3, <2>5, <2>6 DEF Lists, Listed
<1> QED
  BY <1>2, <1>3

\* Inodes that are entries of each other only are not in the tree.
LEMMA NoCycle ==
    ASSUME Typed, NEW C \in SUBSET Inodes, NEW c \in C, c \in Reachable, InodeRoot \notin C,
           \A a \in Reachable : IsDir(a) =>
              \A p \in Children(a) : SlotAt(a, p).ino \in C => a \in C
    PROVE  FALSE
<1>1. TreeFacts
  BY TreeFactsHold
<1> PICK links : links = Links
  OBVIOUS
<1>2. links \in LinkSet /\ Reached(links) = Reachable
  BY <1>1 DEF TreeFacts
<1>3. ASSUME NEW l \in links, l[1] \in Reached(links), l[2] \in C PROVE l[1] \in C
  <2>1. l \in Inodes \X Inodes
    BY <1>2 DEF LinkSet
  <2>2. IsDir(l[1]) /\ \E p \in Children(l[1]) : l[2] = SlotAt(l[1], p).ino
    BY <1>1, <2>1 DEF TreeFacts
  <2> QED
    BY <1>2, <1>3, <2>2
<1>4. C \cap Reached(links) = {}
  BY <1>2, <1>3, ReachedFrom
<1> QED
  BY <1>2, <1>4

\* A step that writes no sector and no inode leaves what frames lead to.
LEMMA SameFrames ==
    ASSUME Typed, UNCHANGED <<inodes, disk>>, Reachable' = Reachable, NEW f
    PROVE  /\ \A i \in Inodes : Kept(i)
           /\ Linked(f) => Linked(f)'
<1>1. \A i \in Inodes : Kept(i)
  BY RecordKept
<1>2. Linked(f) => Linked(f)'
  <2> SUFFICES ASSUME Linked(f) PROVE Linked(f)'
    OBVIOUS
  <2>1. /\ f.dir \in Inodes /\ SlotNamed(f.dir, f.name) \in Positions(f.dir)
    BY LinkedChild DEF Children
  <2> PICK d, p : d = f.dir /\ p = SlotNamed(f.dir, f.name)
    OBVIOUS
  <2>2. /\ d \in Reachable /\ IsDir(d) /\ f.name \notin {".", ".."} /\ f.name \in DirNames(d)
        /\ SlotAt(d, p).ino = f.ino /\ SlotNamed(d, f.name) = p /\ p \in Positions(d)
    BY <2>1 DEF Linked
  <2>3. Kept(d)
    BY <1>1, <2>1
  <2>4. /\ d \in Reachable' /\ IsDir(d)' /\ f.name \in DirNames(d)'
        /\ SlotNamed(d, f.name)' = p /\ SlotAt(d, p)'.ino = f.ino
    BY <2>2, <2>3 DEF Kept
  <2> QED
    BY <2>2, <2>4 DEF Linked
<1> QED
  BY <1>1, <1>2

\* The callers of an activation that runs, none of whose entries is gone.
Callers(stack) ==
    \A k \in 1 .. (Len(stack) - 1) :
        /\ Linked(stack[k]) /\ IsDir(stack[k].ino)
        /\ stack[k + 1].dir = stack[k].ino
        /\ SlotNamed(stack[k + 1].dir, stack[k + 1].name) \notin stack[k].rest
        /\ Children(stack[k].ino) =
              stack[k].rest \cup {SlotNamed(stack[k + 1].dir, stack[k + 1].name)}

FramesApart(stack) ==
    \A k \in DOMAIN stack :
        /\ stack[k].ino # stack[1].dir
        /\ \A l \in DOMAIN stack : stack[k].ino = stack[l].ino => k = l

\* An activation begins, or goes on after the one it called has returned.
LEMMA NextFrame ==
    ASSUME IInv, Gone = {}, ~Creating("flush"), UNCHANGED <<inodes, disk, sb, crashes>>,
           sbDisk' = sb \/ sbDisk' = sbDisk,
           NEW stack \in Seq(Frames), stack # <<>>, job' = Removal(stack),
           Callers(stack), FramesApart(stack),
           NEW f, f = Last(stack), Linked(f),
           IsDir(f.ino) => f.rest = Children(f.ino), ~IsDir(f.ino) => f.rest = {}
    PROVE  IInv'
<1> PICK i : i = f.ino
  OBVIOUS
<1>1. Typed /\ Bounded /\ SuperSound(sb) /\ SuperSound(sbDisk) /\ TreeSafe /\ TreeFacts /\ BlockFacts
  BY TreeFactsHold, BlocksTyped DEF IInv
<1>2. Whole = Reachable
  BY DEF Whole
<1>3. i \in Reachable /\ i \in Inodes /\ f \in Frames
  <2>1. f \in Frames
    BY FrontEntries
  <2> QED
    BY <1>1, <2>1, LinkedChild
<1>4. \A j \in Reachable : /\ Range(BlocksOf(j)) \cap Free(sb) = {} /\ j \notin Range(sb.freeInode)
                           /\ Range(BlocksOf(j)) \cap Free(sbDisk) = {} /\ j \notin Range(sbDisk.freeInode)
  BY <1>1, <1>2 DEF TreeSafe, ApartFrom
<1>5. Intact(i) /\ Distinct(BlocksOf(i))
      /\ \A j \in Reachable : j # i => Range(BlocksOf(i)) \cap Range(BlocksOf(j)) = {}
  BY <1>1, <1>2, <1>3 DEF TreeSafe, BlocksApart
<1>6. BlocksOf(i) \in Seq(DataBlocks) /\ \A b \in Range(BlocksOf(i)) : Lists[b] = <<>>
  BY <1>1, <1>3, <1>5, IntactBlocks
<1>7. \/ /\ f.rest = {} /\ (IsDir(i) => Children(i) = {})
         /\ job' = [op |-> "remove", pc |-> "blocks", todo |-> BlocksOf(i), stack |-> stack]
      \/ /\ f.rest # {} /\ IsDir(i) /\ f.rest = Children(i)
         /\ job' = [op |-> "remove", pc |-> "children", todo |-> <<>>, stack |-> stack]
  BY DEF Removal
<1>8. job' \in Removals
  <2>1. PICK blocks : blocks = BlocksOf(i) /\ blocks \in Seq(DataBlocks)
    BY <1>6
  <2>2. <<>> \in Seq(DataBlocks)
    OBVIOUS
  <2>3. [op |-> "remove", pc |-> "blocks", todo |-> blocks, stack |-> stack] \in Removals
    BY <2>1 DEF Removals
  <2>4. [op |-> "remove", pc |-> "children", todo |-> <<>>, stack |-> stack] \in Removals
    BY <2>2 DEF Removals
  <2> QED
    BY <1>7, <2>1, <2>3, <2>4
<1>9. job'.op = "remove" /\ job'.stack = stack /\ job'.pc \in {"blocks", "children"}
      /\ (job'.pc = "blocks" => job'.todo = BlocksOf(i) /\ f.rest = {} /\ (IsDir(i) => Children(i) = {}))
      /\ (job'.pc = "children" =>
             job'.todo = <<>> /\ f.rest # {} /\ IsDir(i) /\ f.rest = Children(i))
      /\ job'.todo \in {<<>>, BlocksOf(i)}
  BY <1>7
<1>10. Typed'
  BY <1>1, <1>8 DEF Typed
<1>11. Lists' = Lists
  BY DEF Lists
<1>12. Bounded' /\ (Free(sb)' = Free(sb)) /\ (Free(sbDisk)' = Free(sb) \/ Free(sbDisk)' = Free(sbDisk))
  BY <1>1, <1>11 DEF Bounded, Free
<1>13. SuperSound(sb)' /\ SuperSound(sbDisk)'
  <2>1. SuperSound(sb)'
    BY <1>1, <1>11, <1>12 DEF SuperSound
  <2>2. CASE sbDisk' = sb
    BY <1>1, <1>11, <2>2 DEF SuperSound, Free
  <2>3. CASE sbDisk' = sbDisk
    BY <1>1, <1>11, <2>3 DEF SuperSound, Free
  <2> QED
    BY <2>1, <2>2, <2>3
<1>14. Top' = f
  BY <1>9 DEF Top
<1>15. \A j \in Inodes : Kept(j)
  BY <1>1, RecordKept
<1>16. BlocksOf(i)' = BlocksOf(i) /\ Intact(i)' /\ IsDir(i)' = IsDir(i) /\ Children(i)' = Children(i)
  BY <1>3, <1>5, <1>15 DEF Kept
<1>17. Top'.ino = i /\ (BlocksOf(Top.ino))' = BlocksOf(i) /\ (IsDir(Top.ino))' = IsDir(i)
       /\ (Children(Top.ino))' = Children(i) /\ Intact(Top.ino)'
  BY <1>14, <1>16
<1>18. Gone' = {}
  BY <1>9, <1>17 DEF Gone, Removing
<1>19. Reachable' = Reachable /\ TreeSafe'
  <2>1. \A j \in Reachable : Range(BlocksOf(j)) \cap Free(sb)' = {} /\ j \notin Range(sb'.freeInode)
    BY <1>4, <1>12
  <2>2. \A j \in Reachable :
           Range(BlocksOf(j)) \cap Free(sbDisk)' = {} /\ j \notin Range(sbDisk'.freeInode)
    <3>1. CASE sbDisk' = sb
      <4>1. Free(sbDisk)' = Free(sb)
        BY <1>11, <3>1 DEF Free
      <4> QED
        BY <1>4, <3>1, <4>1
    <3>2. CASE sbDisk' = sbDisk
      <4>1. Free(sbDisk)' = Free(sbDisk)
        BY <1>11, <3>2 DEF Free
      <4> QED
        BY <1>4, <3>2, <4>1
    <3> QED
      BY <3>1, <3>2
  <2> QED
    BY <1>1, <1>10, <1>18, <2>1, <2>2, QuietTree
<1>20. InHand' = job'.todo
  BY <1>9, <1>10, HandTypedNext DEF HandFacts
<1>21. HandSafe'
  <2>1. CASE job'.pc = "children"
    <3>1. InHand' = <<>> /\ Range(<<>>) = {} /\ Distinct(<<>>)
      BY <1>9, <1>20, <2>1, EmptySequence
    <3> QED
      BY <3>1 DEF HandSafe
  <2>2. CASE job'.pc = "blocks"
    <3>1. InHand' = BlocksOf(i)
      BY <1>9, <1>20, <2>2
    <3>2. Live' = Reachable \ {i}
      BY <1>9, <1>17, <1>19, <2>2 DEF Live, BeingFreed, Removing
    <3>3. \A j \in Reachable : BlocksOf(j)' = BlocksOf(j)
      BY <1>1, <1>15 DEF Kept, TreeFacts
    <3>4. \A j \in Live' : Range(InHand)' \cap Range(BlocksOf(j))' = {}
      BY <1>5, <3>1, <3>2, <3>3
    <3>5. Distinct(InHand)' /\ Range(InHand)' \cap Free(sb)' = {} /\ Range(InHand)' \cap Free(sbDisk)' = {}
      BY <1>3, <1>4, <1>5, <1>12, <3>1
    <3>6. \A b \in Range(InHand)' : Lists'[b] = <<>>
      BY <1>6, <1>11, <3>1
    <3> QED
      BY <3>4, <3>5, <3>6 DEF HandSafe
  <2> QED
    BY <1>9, <2>1, <2>2
<1>22. CreateSound'
  BY <1>9 DEF CreateSound
<1>23. Linked(f)' /\ \A k \in DOMAIN stack : Linked(stack[k]) => Linked(stack[k])'
  BY <1>1, <1>19, SameFrames
<1>24. CallersSound'
  <2> SUFFICES ASSUME NEW k \in 1 .. (Len(stack) - 1)
               PROVE  /\ Linked(stack[k])' /\ IsDir(stack[k].ino)'
                      /\ stack[k + 1].dir = stack[k].ino
                      /\ SlotNamed(stack[k + 1].dir, stack[k + 1].name)' \notin stack[k].rest
                      /\ Children(stack[k].ino)' =
                            stack[k].rest \cup {SlotNamed(stack[k + 1].dir, stack[k + 1].name)'}
    BY <1>9 DEF CallersSound
  <2>1. k \in DOMAIN stack
    BY FrontEntries
  <2>2. /\ Linked(stack[k]) /\ IsDir(stack[k].ino)
        /\ stack[k + 1].dir = stack[k].ino
        /\ SlotNamed(stack[k + 1].dir, stack[k + 1].name) \notin stack[k].rest
        /\ Children(stack[k].ino) =
              stack[k].rest \cup {SlotNamed(stack[k + 1].dir, stack[k + 1].name)}
    BY DEF Callers
  <2>3. stack[k].ino \in Inodes
    BY <1>1, <2>2, LinkedChild
  <2>4. Kept(stack[k].ino)
    BY <1>15, <2>3
  <2> QED
    BY <1>23, <2>1, <2>2, <2>4 DEF Kept
<1>25. StackApart'
  BY <1>9 DEF StackApart, FramesApart
<1>26. RemoveSound'
  <2>1. i \notin Range(sb'.freeInode)
    BY <1>3, <1>4
  <2>2. Linked(Top)'
    BY <1>14, <1>23
  <2> QED
    BY <1>9, <1>14, <1>17, <1>24, <1>25, <2>1, <2>2 DEF RemoveSound
<1>27. FreeingSound'
  <2>1. Len(BlocksOf(i)) \in Nat
    BY <1>6
  <2>2. inodes'[i].ind # 0 => Last(BlocksOf(i)) = inodes'[i].ind
    BY <1>1, <1>3 DEF BlockFacts
  <2> QED
    BY <1>9, <1>17, <2>1, <2>2 DEF FreeingSound, Removing
<1> QED
  BY <1>10, <1>12, <1>13, <1>19, <1>21, <1>22, <1>26, <1>27 DEF IInv

LEMMA BeginRemovalStep ==
    ASSUME IInv, NEW d \in Reachable, IsDir(d), NEW name \in Names, Resolves(d, name),
           NEW rest, BeginRemoval(d, name, rest),
           IsDir(Resolve(d, name)) => rest = Children(Resolve(d, name)),
           ~IsDir(Resolve(d, name)) => rest = {}
    PROVE  IInv'
<1> PICK i, f : i = Resolve(d, name) /\ f = Frame(d, name, i, rest)
  OBVIOUS
<1>1. /\ Typed /\ TreeSafe /\ TreeFacts /\ job = Idle /\ job.op # "remove" /\ ~Creating("flush")
      /\ job' = Removal(<<f>>) /\ UNCHANGED <<inodes, disk, sbDisk, sb, crashes>>
  BY TreeFactsHold, IdleSound DEF IInv, BeginRemoval
<1>2. Gone = {} /\ IsDir(InodeRoot) /\ EntriesLead /\ EntriesApart
  BY <1>1, NothingGone, TreeLinkedParts DEF TreeSafe
<1>3. name \notin {".", ".."} /\ name \in DirNames(d)
      /\ i = SlotAt(d, SlotNamed(d, name)).ino
  BY LayoutAssumption DEF Resolves, Resolve
<1>4. f.dir = d /\ f.name = name /\ f.ino = i /\ f.rest = rest
  BY DEF Frame
<1>5. Linked(f)
  BY <1>3, <1>4 DEF Linked
<1>6. d \in Inodes /\ i \in Reachable /\ i \in Inodes /\ SlotNamed(d, name) \in Children(d)
  BY <1>1, <1>4, <1>5, LinkedChild
<1>7. i # InodeRoot
  BY <1>2, <1>3, <1>6 DEF EntriesLead
<1>8. i # d
  <2> SUFFICES ASSUME i = d PROVE FALSE
    OBVIOUS
  <2>1. \A a \in Reachable : IsDir(a) => \A p \in Children(a) : SlotAt(a, p).ino \in {d} => a \in {d}
    BY <1>2, <1>3, <1>6 DEF EntriesApart
  <2>2. {d} \in SUBSET Inodes /\ d \in {d} /\ InodeRoot \notin {d}
    BY <1>6, <1>7
  <2> PICK C : C = {d}
    OBVIOUS
  <2> QED
    BY <1>1, <2>1, <2>2, NoCycle
<1>9. f \in Frames
  <2>1. rest \subseteq Nat
    BY DEF Children, Positions
  <2>2. SlotNamed(d, name) \in Positions(d) /\ SlotAt(d, SlotNamed(d, name)).name = name
    BY <1>1, <1>3, <1>6, NamedSlot
  <2>3. name \in SlotNames
    BY <1>1, <1>6, <2>2, SlotTyped DEF Slots
  <2> QED
    BY <1>6, <2>1, <2>3 DEF Frame, Frames
<1>10. /\ <<f>> \in Seq(Frames) /\ <<f>> # <<>> /\ Len(<<f>>) = 1 /\ DOMAIN <<f>> = {1}
       /\ <<f>>[1] = f
  BY <1>9
<1> PICK stack : stack = <<f>>
  OBVIOUS
<1>11. f = Last(stack)
  BY <1>10, FrontEntries
<1>12. Callers(stack)
  BY <1>10 DEF Callers
<1>13. FramesApart(stack)
  BY <1>4, <1>8, <1>10 DEF FramesApart
<1> QED
  BY <1>1, <1>2, <1>4, <1>5, <1>10, <1>11, <1>12, <1>13, NextFrame

\* The running removal, frame by frame.
LEMMA StackFacts ==
    ASSUME IInv, job.op = "remove"
    PROVE  /\ job \in Removals /\ job.stack \in Seq(Frames) /\ job.stack # <<>>
           /\ Len(job.stack) \in Nat /\ Len(job.stack) >= 1
           /\ DOMAIN job.stack = 1 .. Len(job.stack)
           /\ Top = job.stack[Len(job.stack)] /\ Top \in Frames
           /\ FramesApart(job.stack)
           /\ job.pc # "flush" => Callers(job.stack)
           /\ \A k \in 1 .. (Len(job.stack) - 1) : k # Len(job.stack) - 1 =>
                 /\ SlotNamed(job.stack[k + 1].dir, job.stack[k + 1].name) \notin job.stack[k].rest
                 /\ Children(job.stack[k].ino) =
                       job.stack[k].rest \cup {SlotNamed(job.stack[k + 1].dir, job.stack[k + 1].name)}
           /\ \A k \in 1 .. (Len(job.stack) - 1) :
                 /\ Linked(job.stack[k]) /\ IsDir(job.stack[k].ino)
                 /\ job.stack[k + 1].dir = job.stack[k].ino
<1>1. Typed /\ RemoveSound
  BY DEF IInv
<1>2. job \in Removals
  BY <1>1, JobTyped
<1>3. job.stack \in Seq(Frames) /\ job.stack # <<>> /\ CallersSound /\ StackApart
  BY <1>1, <1>2 DEF Removals, RemoveSound
<1>4. /\ Len(job.stack) \in Nat /\ Len(job.stack) >= 1
      /\ DOMAIN job.stack = 1 .. Len(job.stack)
      /\ Top = job.stack[Len(job.stack)] /\ Top \in Frames
  BY <1>3, FrontEntries DEF Top
<1>5. FramesApart(job.stack)
  BY <1>3 DEF StackApart, FramesApart
<1>6. job.pc # "flush" => Callers(job.stack)
  BY <1>3 DEF CallersSound, Callers
<1>7. \A k \in 1 .. (Len(job.stack) - 1) :
         /\ Linked(job.stack[k]) /\ IsDir(job.stack[k].ino)
         /\ job.stack[k + 1].dir = job.stack[k].ino
  BY <1>3 DEF CallersSound
<1>8. \A k \in 1 .. (Len(job.stack) - 1) : k # Len(job.stack) - 1 =>
         /\ SlotNamed(job.stack[k + 1].dir, job.stack[k + 1].name) \notin job.stack[k].rest
         /\ Children(job.stack[k].ino) =
               job.stack[k].rest \cup {SlotNamed(job.stack[k + 1].dir, job.stack[k + 1].name)}
  <2> SUFFICES ASSUME NEW k \in 1 .. (Len(job.stack) - 1), k # Len(job.stack) - 1
               PROVE  /\ SlotNamed(job.stack[k + 1].dir, job.stack[k + 1].name) \notin job.stack[k].rest
                      /\ Children(job.stack[k].ino) =
                            job.stack[k].rest \cup {SlotNamed(job.stack[k + 1].dir, job.stack[k + 1].name)}
    OBVIOUS
  <2>1. k + 1 # Len(job.stack)
    BY <1>4
  <2> QED
    BY <1>3, <2>1 DEF CallersSound
<1> QED
  BY <1>2, <1>3, <1>4, <1>5, <1>6, <1>7, <1>8

LEMMA CallerNumbers ==
    \A n \in Nat : n >= 1 /\ n # 1 =>
        /\ n >= 2 /\ n - 1 \in Nat /\ n - 1 \in 1 .. (n - 1) /\ (n - 1) + 1 = n
        /\ \A k \in 1 .. (n - 1) : k \in 1 .. n /\ k + 1 \in 1 .. n
  OBVIOUS

\* The one activation that is left ends, or its caller goes on.
LEMMA FlushRemovedStep ==
    ASSUME IInv, FlushRemoved
    PROVE  IInv'
<1>1. /\ job.op = "remove" /\ job.pc = "flush" /\ sbDisk' = sb
      /\ UNCHANGED <<inodes, disk, sb, crashes>>
      /\ job' = IF Len(job.stack) = 1 THEN Idle ELSE Removal(Front(job.stack))
  BY DEF FlushRemoved, Removing
<1>2. Gone = {} /\ ~Creating("flush")
  BY <1>1 DEF Gone, Removing, Creating
<1> PICK stack, n : stack = job.stack /\ n = Len(job.stack)
  OBVIOUS
<1>3. CASE n = 1
  BY <1>1, <1>2, <1>3, IdleStep
<1>4. CASE n # 1
  <2> PICK below, f : below = Front(stack) /\ f = Last(below)
    OBVIOUS
  <2>1. /\ stack \in Seq(Frames) /\ stack # <<>> /\ n \in Nat /\ n >= 2
        /\ DOMAIN stack = 1 .. n /\ FramesApart(stack)
        /\ \A k \in 1 .. (n - 1) : k # n - 1 =>
              /\ SlotNamed(stack[k + 1].dir, stack[k + 1].name) \notin stack[k].rest
              /\ Children(stack[k].ino) =
                    stack[k].rest \cup {SlotNamed(stack[k + 1].dir, stack[k + 1].name)}
        /\ \A k \in 1 .. (n - 1) :
              /\ Linked(stack[k]) /\ IsDir(stack[k].ino)
              /\ stack[k + 1].dir = stack[k].ino
    <3>1. n \in Nat /\ n >= 1
      BY <1>1, StackFacts
    <3>2. n >= 2
      BY <1>4, <3>1, CallerNumbers, Zenon
    <3> QED
      BY <1>1, <3>1, <3>2, StackFacts
  <2>2. /\ below \in Seq(Frames) /\ Len(below) = n - 1 /\ DOMAIN below = 1 .. (n - 1)
        /\ \A k \in 1 .. (n - 1) : below[k] = stack[k]
    BY <2>1, FrontEntries
  <2>3. below # <<>>
    BY <2>1, <2>2
  <2>4. f = stack[n - 1] /\ n - 1 \in 1 .. (n - 1)
    BY <2>1, <2>2, <2>3, FrontEntries
  <2>5. Linked(f) /\ IsDir(f.ino)
    BY <2>1, <2>4
  <2>6. f.rest = Children(f.ino)
    <3>1. CallersSound
      BY <1>1 DEF IInv, RemoveSound
    <3>2. n - 1 \in 1 .. (Len(job.stack) - 1) /\ (n - 1) + 1 = Len(job.stack)
      BY <2>1
    <3>3. Children(job.stack[n - 1].ino) = job.stack[n - 1].rest
      BY <1>1, <3>1, <3>2 DEF CallersSound
    <3> QED
      BY <2>4, <3>3
  <2>7. Callers(below)
    <3> SUFFICES ASSUME NEW k \in 1 .. (n - 2)
                 PROVE  /\ Linked(below[k]) /\ IsDir(below[k].ino)
                        /\ below[k + 1].dir = below[k].ino
                        /\ SlotNamed(below[k + 1].dir, below[k + 1].name) \notin below[k].rest
                        /\ Children(below[k].ino) =
                              below[k].rest \cup {SlotNamed(below[k + 1].dir, below[k + 1].name)}
      BY <2>1, <2>2 DEF Callers
    <3>1. k \in 1 .. (n - 1) /\ k + 1 \in 1 .. (n - 1) /\ k # n - 1
      BY <2>1
    <3>2. below[k] = stack[k] /\ below[k + 1] = stack[k + 1]
      BY <2>2, <3>1
    <3> QED
      BY <2>1, <3>1, <3>2
  <2>8. FramesApart(below)
    <3>1. \A k \in 1 .. (n - 1) : k \in DOMAIN stack /\ below[k] = stack[k]
      <4>1. \A k \in 1 .. (n - 1) : k \in 1 .. n
        BY <1>4, <2>1, CallerNumbers
      <4> QED
        BY <2>1, <2>2, <4>1
    <3>2. below[1] = stack[1]
      BY <2>1, <2>2
    <3> SUFFICES ASSUME NEW k \in 1 .. (n - 1)
                 PROVE  /\ below[k].ino # below[1].dir
                        /\ \A l \in 1 .. (n - 1) : below[k].ino = below[l].ino => k = l
      BY <2>2 DEF FramesApart
    <3>3. /\ stack[k].ino # stack[1].dir
          /\ \A l \in DOMAIN stack : stack[k].ino = stack[l].ino => k = l
      BY <2>1, <3>1 DEF FramesApart
    <3> QED
      BY <3>1, <3>2, <3>3
  <2>9. job' = Removal(below)
    BY <1>1, <1>4
  <2> QED
    BY <1>1, <1>2, <2>2, <2>3, <2>5, <2>6, <2>7, <2>8, <2>9, NextFrame
<1> QED
  BY <1>3, <1>4

Grown(s, x, y) == Append(Front(s) \o <<x>>, y)

\* A stack of n frames once the last has become top and f is pushed.
Pushed(grown, stack, n, top, f) ==
    /\ Len(grown) = n + 1 /\ DOMAIN grown = 1 .. (n + 1)
    /\ \A k \in 1 .. (n - 1) : grown[k] = stack[k]
    /\ grown[n] = top /\ grown[n + 1] = f

LEMMA StackGrown ==
    ASSUME NEW S, NEW s \in Seq(S), s # <<>>, NEW x \in S, NEW y \in S,
           NEW u, u = Grown(s, x, y), NEW n, n = Len(s)
    PROVE  /\ u \in Seq(S) /\ u # <<>> /\ Pushed(u, s, n, x, y) /\ Last(u) = y
<1>1. /\ Front(s) \in Seq(S) /\ Len(Front(s)) = Len(s) - 1 /\ Len(s) \in Nat /\ Len(s) >= 1
      /\ \A k \in 1 .. (Len(s) - 1) : Front(s)[k] = s[k]
  BY FrontEntries
<1> PICK m, t, v : m = Len(s) /\ t = Front(s) /\ v = Append(t, x)
  OBVIOUS
<1>2. t \o <<x>> = v
  <2>1. \A w \in Seq(S), z \in S : w \o <<z>> = Append(w, z)
    BY AppendConcat
  <2> QED
    BY <1>1, <2>1, Zenon
<1>3. /\ v \in Seq(S) /\ Len(v) = Len(t) + 1 /\ v[Len(t) + 1] = x
      /\ \A k \in 1 .. Len(t) : v[k] = t[k]
  BY <1>1, AppendEntries
<1>4. u = Append(v, y)
  BY <1>2 DEF Grown
<1>5. /\ u \in Seq(S) /\ Len(u) = Len(v) + 1 /\ u[Len(v) + 1] = y
      /\ \A k \in 1 .. Len(v) : u[k] = v[k]
  BY <1>3, <1>4, AppendEntries
<1>6. Len(t) = m - 1 /\ Len(v) = m /\ m \in Nat /\ m >= 1 /\ Len(t) + 1 = m /\ Len(u) = m + 1
  BY <1>1, <1>3, <1>5
<1>7. u[m] = x /\ u[m + 1] = y /\ \A k \in 1 .. (m - 1) : u[k] = s[k]
  <2>1. u[m] = x
    BY <1>3, <1>5, <1>6
  <2>2. u[m + 1] = y
    BY <1>5, <1>6
  <2>3. \A k \in 1 .. (m - 1) : k \in 1 .. m
    BY <1>6
  <2>4. \A k \in 1 .. (m - 1) : u[k] = s[k]
    BY <1>1, <1>3, <1>5, <1>6, <2>3
  <2> QED
    BY <2>1, <2>2, <2>4
<1>8. u # <<>> /\ DOMAIN u = 1 .. (m + 1)
  BY <1>5, <1>6
<1>9. Last(u) = y
  <2>1. Last(u) = u[Len(u)]
    BY <1>5, <1>8, FrontEntries
  <2> QED
    BY <1>6, <1>7, <2>1
<1> QED
  BY <1>5, <1>6, <1>7, <1>8, <1>9 DEF Pushed

\* The next entry of a directory that is being emptied: its frame.
LEMMA NextChild ==
    ASSUME Typed, NEW d \in Inodes, Children(d) # {}, NEW next, next = Min(Children(d)),
           NEW name, name = SlotAt(d, next).name
    PROVE  /\ next \in Children(d) /\ name \notin {".", ".."} /\ name \in DirNames(d)
           /\ name \in SlotNames
           /\ SlotNamed(d, name) = next /\ Resolve(d, name) = SlotAt(d, next).ino
<1>1. Children(d) \subseteq ReadDir(d) /\ ReadDir(d) \subseteq Positions(d) /\ ReadDir(d) \subseteq Nat
  BY DEF Children, ReadDir, Positions
<1>2. next \in Children(d) /\ \A p \in Children(d) : next <= p
  BY <1>1, MinOf
<1>3. name \notin {".", ".."} /\ name \in DirNames(d)
  BY <1>1, <1>2 DEF Children, DirNames
<1>4. name \in SlotNames
  BY <1>1, <1>2, SlotTyped DEF Slots
<1> PICK q : q = SlotNamed(d, name)
  OBVIOUS
<1>5. q \in Children(d) /\ \A p \in ReadDir(d) : SlotAt(d, p).name = name => q <= p
  BY <1>3, NamedSlot
<1>6. q <= next /\ next <= q
  BY <1>1, <1>2, <1>5
<1>7. q = next
  BY <1>1, <1>2, <1>5, <1>6
<1> QED
  BY <1>2, <1>3, <1>4, <1>7 DEF Resolve

LEMMA StackNumbers ==
    ASSUME NEW n \in Nat, n >= 1
    PROVE  /\ \A k \in 1 .. (n + 1) : k \in 1 .. n \/ k = n + 1
           /\ \A k \in 1 .. n : k \in 1 .. (n - 1) \/ k = n
           /\ \A k \in 1 .. (n - 1) : k \in 1 .. n /\ k + 1 \in 1 .. n /\ k # n
           /\ \A k \in 1 .. n : k # 1 => k - 1 \in 1 .. (n - 1) /\ (k - 1) + 1 = k /\ k - 1 # n
           /\ 1 \in 1 .. n /\ n \in 1 .. n /\ (n + 1) - 1 = n /\ n + 1 \notin 1 .. n
  OBVIOUS

\* n activations, each but the first the callee of the one before it.
Nested(stack, n) ==
    /\ n \in Nat /\ n >= 1
    /\ \A k \in 1 .. n : Linked(stack[k])
    /\ \A k \in 1 .. n : k # 1 => stack[k].dir = stack[k - 1].ino
    /\ \A k \in 1 .. n : /\ stack[k].ino # stack[1].dir
                         /\ \A l \in 1 .. n : stack[k].ino = stack[l].ino => k = l

\* An entry of the directory emptied last is none of those being emptied, nor
\* the directory the removal began in.
NotIn(i, stack, n) == i # stack[1].dir /\ \A l \in 1 .. n : i # stack[l].ino

LEMMA ChildApart ==
    ASSUME Typed, EntriesLead, EntriesApart, NEW n, NEW stack, Nested(stack, n),
           NEW d, d = stack[n].ino, IsDir(d), NEW next \in Children(d),
           NEW i, i = SlotAt(d, next).ino
    PROVE  NotIn(i, stack, n)
<1>0. /\ n \in Nat /\ n >= 1
      /\ \A k \in 1 .. n : Linked(stack[k])
      /\ \A k \in 1 .. n : k # 1 => stack[k].dir = stack[k - 1].ino
      /\ \A k \in 1 .. n : /\ stack[k].ino # stack[1].dir
                           /\ \A l \in 1 .. n : stack[k].ino = stack[l].ino => k = l
  BY DEF Nested
<1>1. /\ \A k \in 1 .. (n - 1) : k \in 1 .. n
      /\ \A k \in 1 .. n : k # 1 => k - 1 \in 1 .. (n - 1) /\ k - 1 # n
      /\ 1 \in 1 .. n /\ n \in 1 .. n
  BY <1>0, StackNumbers
<1>2. TreeFacts
  BY TreeFactsHold
<1>3. d \in Reachable /\ d \in Inodes
  BY <1>0, <1>1, LinkedChild
<1>4. i \in Reachable /\ i \in Inodes /\ i # InodeRoot
  BY <1>2, <1>3 DEF TreeFacts, EntriesLead
<1>5. ASSUME NEW l \in 1 .. n, NEW a \in Reachable, IsDir(a), NEW p \in Children(a),
              SlotAt(a, p).ino = stack[l].ino
       PROVE  a = stack[l].dir
  <2>1. /\ stack[l].dir \in Reachable /\ IsDir(stack[l].dir)
        /\ SlotNamed(stack[l].dir, stack[l].name) \in Children(stack[l].dir)
        /\ SlotAt(stack[l].dir, SlotNamed(stack[l].dir, stack[l].name)).ino = stack[l].ino
    BY <1>0, LinkedChild DEF Linked
  <2> QED
    BY <1>5, <2>1 DEF EntriesApart
<1>6. ASSUME NEW l \in 1 .. n, i = stack[l].ino PROVE FALSE
  <2>1. d = stack[l].dir
    BY <1>3, <1>5, <1>6
  <2>2. CASE l = 1
    BY <1>0, <1>1, <2>1, <2>2
  <2>3. CASE l # 1
    BY <1>0, <1>1, <2>1, <2>3
  <2> QED
    BY <2>2, <2>3
<1>7. ASSUME i = stack[1].dir PROVE FALSE
  <2> PICK C : C = {i} \cup {stack[k].ino : k \in 1 .. n}
    OBVIOUS
  <2>1. ASSUME NEW k \in 1 .. n PROVE stack[k].ino \in Inodes /\ stack[k].ino # InodeRoot
    <3>1. /\ stack[k].dir \in Reachable /\ IsDir(stack[k].dir) /\ stack[k].ino \in Inodes
          /\ SlotNamed(stack[k].dir, stack[k].name) \in Children(stack[k].dir)
          /\ SlotAt(stack[k].dir, SlotNamed(stack[k].dir, stack[k].name)).ino = stack[k].ino
      BY <1>0, LinkedChild DEF Linked
    <3> QED
      BY <3>1 DEF EntriesLead
  <2>2. C \in SUBSET Inodes /\ i \in C /\ InodeRoot \notin C
    BY <1>4, <2>1
  <2>3. d \in C /\ \A k \in 1 .. n : stack[k].dir \in C
    BY <1>0, <1>1, <1>7
  <2>4. ASSUME NEW a \in Reachable, IsDir(a), NEW p \in Children(a), SlotAt(a, p).ino \in C
        PROVE  a \in C
    <3>1. CASE SlotAt(a, p).ino = i
      <4>1. a = d
        BY <1>3, <2>4, <3>1 DEF EntriesApart
      <4> QED
        BY <2>3, <4>1
    <3>2. CASE \E k \in 1 .. n : SlotAt(a, p).ino = stack[k].ino
      BY <1>5, <2>3, <2>4, <3>2
    <3> QED
      BY <2>4, <3>1, <3>2
  <2> QED
    BY <1>4, <2>2, <2>4, NoCycle
<1> QED
  BY <1>6, <1>7 DEF NotIn

\* The last of n frames is that of directory d.
EndsAt(stack, n, last, d) ==
    /\ n \in Nat /\ n >= 1 /\ DOMAIN stack = 1 .. n /\ Len(stack) = n
    /\ last = stack[n] /\ Linked(last)
    /\ d = last.ino /\ IsDir(d) /\ last.rest = Children(d)

\* It becomes top when f is called on the entry next.
CallsOn(last, top, f, d, next) ==
    /\ top.dir = last.dir /\ top.name = last.name /\ top.ino = d
    /\ top.rest = last.rest \ {next}
    /\ f.dir = d /\ SlotNamed(d, f.name) = next /\ f.ino = SlotAt(d, next).ino

\* The stack of frames once one for the next entry is pushed.
LEMMA GrownFrames ==
    ASSUME Typed, EntriesLead, EntriesApart,
           NEW n, NEW stack, FramesApart(stack), Callers(stack),
           NEW last, NEW d, EndsAt(stack, n, last, d), NEW next \in Children(d),
           NEW top, NEW f, CallsOn(last, top, f, d, next),
           NEW grown, Pushed(grown, stack, n, top, f)
    PROVE  Callers(grown) /\ FramesApart(grown)
<1>a. /\ n \in Nat /\ n >= 1 /\ DOMAIN stack = 1 .. n /\ Len(stack) = n
      /\ last = stack[n] /\ Linked(last)
      /\ d = last.ino /\ IsDir(d) /\ last.rest = Children(d)
  BY DEF EndsAt
<1>b. /\ top.dir = last.dir /\ top.name = last.name /\ top.ino = d
      /\ top.rest = last.rest \ {next}
      /\ f.dir = d /\ SlotNamed(d, f.name) = next /\ f.ino = SlotAt(d, next).ino
  BY DEF CallsOn
<1> USE <1>a, <1>b
<1>0. /\ Len(grown) = n + 1 /\ DOMAIN grown = 1 .. (n + 1)
      /\ \A k \in 1 .. (n - 1) : grown[k] = stack[k]
      /\ grown[n] = top /\ grown[n + 1] = f
  BY DEF Pushed
<1>1. /\ \A k \in 1 .. (n + 1) : k \in 1 .. n \/ k = n + 1
      /\ \A k \in 1 .. n : k \in 1 .. (n - 1) \/ k = n
      /\ \A k \in 1 .. (n - 1) : k \in 1 .. n /\ k + 1 \in 1 .. n
      /\ \A k \in 1 .. n : k # 1 => k - 1 \in 1 .. (n - 1) /\ (k - 1) + 1 = k
      /\ 1 \in 1 .. n /\ n \in 1 .. n /\ (n + 1) - 1 = n /\ n + 1 \notin 1 .. n
  BY StackNumbers
<1>2. \A k \in 1 .. n : grown[k].dir = stack[k].dir /\ grown[k].name = stack[k].name
                        /\ grown[k].ino = stack[k].ino
  BY <1>0, <1>1
<1>3. \A k \in 1 .. (n - 1) :
        /\ Linked(stack[k]) /\ IsDir(stack[k].ino)
        /\ stack[k + 1].dir = stack[k].ino
        /\ SlotNamed(stack[k + 1].dir, stack[k + 1].name) \notin stack[k].rest
        /\ Children(stack[k].ino) =
              stack[k].rest \cup {SlotNamed(stack[k + 1].dir, stack[k + 1].name)}
  BY DEF Callers
<1>4. \A k \in 1 .. n : Linked(stack[k])
  BY <1>1, <1>3
<1>5. \A k \in 1 .. n : k # 1 => stack[k].dir = stack[k - 1].ino
  <2> SUFFICES ASSUME NEW k \in 1 .. n, k # 1 PROVE stack[k].dir = stack[k - 1].ino
    OBVIOUS
  <2>1. k - 1 \in 1 .. (n - 1) /\ (k - 1) + 1 = k
    BY <1>1
  <2> QED
    BY <1>3, <2>1
<1>6. \A k \in 1 .. n : /\ stack[k].ino # stack[1].dir
                        /\ \A l \in 1 .. n : stack[k].ino = stack[l].ino => k = l
  BY DEF FramesApart
<1>7. f.ino # stack[1].dir /\ \A l \in 1 .. n : f.ino # stack[l].ino
  <2> PICK i : i = SlotAt(d, next).ino
    OBVIOUS
  <2>1. Nested(stack, n)
    BY <1>4, <1>5, <1>6 DEF Nested
  <2>2. d = stack[n].ino
    OBVIOUS
  <2>3. NotIn(i, stack, n)
    BY <2>1, <2>2, ChildApart
  <2> QED
    BY <2>3 DEF NotIn
<1>8. Callers(grown)
  <2>1. ASSUME NEW k \in 1 .. n
        PROVE  /\ Linked(grown[k]) /\ IsDir(grown[k].ino)
               /\ grown[k + 1].dir = grown[k].ino
               /\ SlotNamed(grown[k + 1].dir, grown[k + 1].name) \notin grown[k].rest
               /\ Children(grown[k].ino) =
                     grown[k].rest \cup {SlotNamed(grown[k + 1].dir, grown[k + 1].name)}
    <3>1. CASE k \in 1 .. (n - 1)
      <4>1. grown[k] = stack[k] /\ k + 1 \in 1 .. n
        BY <1>0, <1>1, <3>1
      <4>2. grown[k + 1].dir = stack[k + 1].dir /\ grown[k + 1].name = stack[k + 1].name
        BY <1>2, <4>1
      <4> QED
        BY <1>3, <3>1, <4>1, <4>2
    <3>2. CASE k = n
      <4>1. Linked(top)
        BY DEF Linked
      <4>2. grown[k] = top /\ grown[k + 1] = f
        BY <1>0, <3>2
      <4> QED
        BY <4>1, <4>2
    <3> QED
      BY <1>1, <3>1, <3>2
  <2> QED
    BY <1>0, <1>1, <2>1 DEF Callers
<1>9. FramesApart(grown)
  <2>1. grown[1].dir = stack[1].dir
    BY <1>1, <1>2
  <2>2. ASSUME NEW k \in 1 .. (n + 1)
        PROVE  /\ grown[k].ino # grown[1].dir
               /\ \A l \in 1 .. (n + 1) : grown[k].ino = grown[l].ino => k = l
    <3>1. CASE k \in 1 .. n
      <4>1. grown[k].ino # grown[1].dir
        BY <1>2, <1>6, <2>1, <3>1
      <4>2. \A l \in 1 .. n : grown[k].ino = grown[l].ino => k = l
        BY <1>2, <1>6, <3>1
      <4>3. grown[k].ino # grown[n + 1].ino
        BY <1>0, <1>2, <1>7, <3>1
      <4> QED
        BY <1>1, <4>1, <4>2, <4>3
    <3>2. CASE k = n + 1
      <4>1. grown[k].ino = f.ino
        BY <1>0, <3>2
      <4>2. \A l \in 1 .. n : grown[k].ino # grown[l].ino
        BY <1>2, <1>7, <4>1
      <4> QED
        BY <1>1, <1>7, <2>1, <3>2, <4>1, <4>2
    <3> QED
      BY <1>1, <2>2, <3>1, <3>2
  <2> QED
    BY <1>0, <2>2 DEF FramesApart
<1> QED
  BY <1>8, <1>9

LEMMA RemoveChildStep ==
    ASSUME IInv, RemoveChild
    PROVE  IInv'
<1>a. PICK stack, n, top, d, next, name :
       /\ stack = job.stack /\ n = Len(job.stack) /\ top = Top /\ d = Top.ino
       /\ next = Min(Top.rest) /\ name = SlotAt(Top.ino, Min(Top.rest)).name
  OBVIOUS
<1>b. PICK i, rest, top2 :
       /\ i = Resolve(d, name) /\ rest = (IF IsDir(i) THEN Children(i) ELSE {})
       /\ top2 = [top EXCEPT !.rest = @ \ {next}]
  OBVIOUS
<1>c. PICK f, grown : f = Frame(d, name, i, rest) /\ grown = Grown(stack, top2, f)
  OBVIOUS
<1>1. /\ job.op = "remove" /\ job.pc = "children"
      /\ UNCHANGED <<inodes, disk, sbDisk, sb, crashes>>
      /\ job' = Removal(grown)
  BY <1>a, <1>b, <1>c DEF RemoveChild, Removing, Grown
<1>2. /\ Typed /\ RemoveSound /\ TreeSafe /\ TreeFacts
      /\ Gone = {} /\ ~Creating("flush")
  BY <1>1, TreeFactsHold DEF IInv, Gone, Removing, Creating
<1>3. EntriesLead /\ EntriesApart
  BY <1>2, TreeLinkedParts DEF TreeSafe
<1>4. /\ stack \in Seq(Frames) /\ stack # <<>> /\ n \in Nat /\ n >= 1 /\ DOMAIN stack = 1 .. n
      /\ top = stack[n] /\ top \in Frames /\ FramesApart(stack) /\ Callers(stack) /\ Len(stack) = n
  BY <1>a, <1>1, StackFacts
<1>5. Linked(top) /\ IsDir(d) /\ top.rest = Children(d) /\ Children(d) # {} /\ d = top.ino
  BY <1>a, <1>1, <1>2 DEF RemoveSound
<1>6. d \in Reachable /\ d \in Inodes
  BY <1>2, <1>5, LinkedChild
<1>7. /\ next \in Children(d) /\ name \notin {".", ".."} /\ name \in DirNames(d)
      /\ name \in SlotNames
      /\ SlotNamed(d, name) = next /\ i = SlotAt(d, next).ino
  <2>1. next = Min(Children(d)) /\ name = SlotAt(d, next).name
    BY <1>a, <1>5
  <2> QED
    BY <1>b, <1>2, <1>5, <1>6, <2>1, NextChild
<1>8. f.dir = d /\ f.name = name /\ f.ino = i /\ f.rest = rest
  BY <1>c DEF Frame
<1>9. Linked(f) /\ i \in Reachable /\ i \in Inodes
  <2>1. Linked(f)
    BY <1>5, <1>6, <1>7, <1>8 DEF Linked
  <2> QED
    BY <1>2, <1>8, <2>1, LinkedChild
<1>10. f \in Frames
  <2>1. rest \subseteq Nat
    BY <1>b DEF Children, Positions
  <2> QED
    BY <1>6, <1>7, <1>8, <1>9, <1>c, <2>1 DEF Frame, Frames
<1>11. /\ top2 \in Frames /\ top2.dir = top.dir /\ top2.name = top.name /\ top2.ino = top.ino
       /\ top2.rest = top.rest \ {next}
  BY <1>b, <1>4 DEF Frames
<1>12. grown \in Seq(Frames) /\ grown # <<>> /\ Pushed(grown, stack, n, top2, f) /\ Last(grown) = f
  <2>1. grown = Grown(stack, top2, f) /\ stack \in Seq(Frames) /\ stack # <<>> /\ n = Len(stack)
    BY <1>c, <1>4
  <2>2. f \in Frames /\ top2 \in Frames
    BY <1>10, <1>11
  <2> QED
    BY <2>1, <2>2, StackGrown
<1>13. Callers(grown) /\ FramesApart(grown)
  <2>1. EndsAt(stack, n, top, d)
    BY <1>4, <1>5 DEF EndsAt
  <2>2. CallsOn(top, top2, f, d, next)
    BY <1>5, <1>7, <1>8, <1>11 DEF CallsOn
  <2>3. Typed /\ EntriesLead /\ EntriesApart /\ FramesApart(stack) /\ Callers(stack)
        /\ next \in Children(d) /\ Pushed(grown, stack, n, top2, f)
    BY <1>2, <1>3, <1>4, <1>7, <1>12
  <2> QED
    BY <2>1, <2>2, <2>3, GrownFrames
<1>14. /\ IsDir(f.ino) => f.rest = Children(f.ino)
       /\ ~IsDir(f.ino) => f.rest = {}
  BY <1>b, <1>8
<1> QED
  BY <1>1, <1>2, <1>9, <1>c, <1>12, <1>13, <1>14, NextFrame

\* What an activation that is freeing or unlinking its target knows.
LEMMA TargetFacts ==
    ASSUME IInv, job.op = "remove", job.pc \in {"blocks", "entry"}, NEW i, i = Top.ino
    PROVE  /\ i \in Reachable /\ i \in Inodes /\ i # InodeRoot
           /\ Linked(Top) /\ Top.rest = {} /\ (IsDir(i) => Children(i) = {})
           /\ Live = Reachable \ {i} /\ Gone \subseteq {i} /\ Whole \subseteq Reachable
           /\ Reachable \ {i} \subseteq Whole
           /\ \A j \in Reachable \ {i} :
                 /\ j \in Inodes /\ Intact(j) /\ Distinct(BlocksOf(j))
                 /\ Range(BlocksOf(j)) \cap Free(sb) = {} /\ j \notin Range(sb.freeInode)
                 /\ Range(BlocksOf(j)) \cap Free(sbDisk) = {} /\ j \notin Range(sbDisk.freeInode)
<1>1. Typed /\ RemoveSound /\ TreeSafe /\ TreeFacts
  BY TreeFactsHold DEF IInv
<1>2. Linked(Top) /\ Top.rest = {}
  BY <1>1 DEF RemoveSound
<1>3. i \in Reachable /\ i \in Inodes
  BY <1>1, <1>2, LinkedChild
<1>4. i # InodeRoot
  <2>1. /\ Top.dir \in Reachable /\ IsDir(Top.dir)
        /\ SlotNamed(Top.dir, Top.name) \in Children(Top.dir)
        /\ SlotAt(Top.dir, SlotNamed(Top.dir, Top.name)).ino = i
    BY <1>1, <1>2, LinkedChild DEF Linked
  <2>2. EntriesLead
    BY <1>1, TreeLinkedParts DEF TreeSafe
  <2> QED
    BY <2>1, <2>2 DEF EntriesLead
<1>5. IsDir(i) => Children(i) = {}
  <2>1. CASE job.pc = "blocks"
    BY <1>1, <2>1 DEF RemoveSound
  <2>2. CASE job.pc = "entry"
    <3>1. inodes[i] = FreeInodeRecord
      BY <1>1, <2>2 DEF RemoveSound
    <3> QED
      BY <3>1 DEF IsDir, FreeInodeRecord
  <2> QED
    BY <2>1, <2>2
<1>6. Live = Reachable \ {i}
  BY DEF Live, BeingFreed, Removing
<1>7. Gone \subseteq {i} /\ Whole \subseteq Reachable /\ Reachable \ {i} \subseteq Whole
  BY DEF Gone, Whole
<1>8. ~Creating("flush")
  BY DEF Creating
<1>9. ASSUME NEW j \in Reachable \ {i}
      PROVE  /\ j \in Inodes /\ Intact(j) /\ Distinct(BlocksOf(j))
             /\ Range(BlocksOf(j)) \cap Free(sb) = {} /\ j \notin Range(sb.freeInode)
             /\ Range(BlocksOf(j)) \cap Free(sbDisk) = {} /\ j \notin Range(sbDisk.freeInode)
  <2>1. j \in Whole /\ j \in Inodes
    BY <1>1, <1>7 DEF TreeFacts
  <2> QED
    BY <1>1, <1>8, <2>1 DEF TreeSafe, BlocksApart, ApartFrom
<1> QED
  BY <1>2, <1>3, <1>4, <1>5, <1>6, <1>7, <1>9

\* A frame whose directory a step leaves alone stays linked.
LEMMA FrameKept ==
    ASSUME Typed, NEW f, Linked(f), NEW d, d = f.dir, Kept(d), d \in Reachable'
    PROVE  Linked(f)'
<1>1. f.dir \in Inodes /\ SlotNamed(f.dir, f.name) \in Positions(f.dir)
  BY LinkedChild DEF Children
<1> PICK p : p = SlotNamed(f.dir, f.name)
  OBVIOUS
<1>2. /\ IsDir(d) /\ f.name \notin {".", ".."} /\ f.name \in DirNames(d)
      /\ SlotAt(d, p).ino = f.ino /\ SlotNamed(d, f.name) = p /\ p \in Positions(d)
  BY <1>1 DEF Linked
<1>3. /\ IsDir(d)' /\ f.name \in DirNames(d)'
      /\ SlotNamed(d, f.name)' = p /\ SlotAt(d, p)'.ino = f.ino
  BY <1>2 DEF Kept
<1> QED
  BY <1>2, <1>3 DEF Linked

\* A step of the running activation that changes nothing of the tree but its
\* target leaves the activations that called it as they were.
LEMMA FramesStay ==
    ASSUME IInv, job.op = "remove", job.pc \in {"blocks", "entry"},
           job'.op = "remove", job'.pc # "flush", job'.stack = job.stack,
           NEW i, i = Top.ino, Reachable' = Reachable, \A j \in Reachable \ {i} : Kept(j)
    PROVE  CallersSound' /\ StackApart' /\ Linked(Top)' /\ Top' = Top
<1> PICK stack, n, top : stack = job.stack /\ n = Len(job.stack) /\ top = Top
  OBVIOUS
<1>1. /\ Typed /\ TreeFacts /\ FramesApart(stack) /\ Callers(stack)
      /\ n \in Nat /\ n >= 1 /\ top = stack[n] /\ Len(stack) = n
  BY StackFacts, TreeFactsHold DEF IInv
<1>2. Linked(top) /\ (IsDir(i) => Children(i) = {})
  BY TargetFacts
<1>3. ASSUME NEW f, Linked(f) PROVE f.dir \in Reachable \ {i} /\ Kept(f.dir) /\ Linked(f)'
  <2> PICK d : d = f.dir
    OBVIOUS
  <2>1. d \in Reachable /\ IsDir(d) /\ Children(d) # {}
    BY <1>1, <1>3, LinkedChild DEF Linked
  <2>2. d \in Reachable \ {i} /\ Kept(d)
    BY <1>2, <2>1
  <2>3. Linked(f)'
    BY <1>1, <1>3, <2>1, <2>2, FrameKept
  <2> QED
    BY <2>2, <2>3
<1>4. Linked(top)' /\ Top' = top
  BY <1>2, <1>3 DEF Top
<1>5. \A k \in 1 .. (n - 1) : k + 1 \in 1 .. n /\ (k + 1 \in 1 .. (n - 1) \/ k + 1 = n)
  BY <1>1
<1>6. ASSUME NEW k \in 1 .. (n - 1)
      PROVE  /\ Linked(stack[k])' /\ IsDir(stack[k].ino)'
             /\ stack[k + 1].dir = stack[k].ino
             /\ SlotNamed(stack[k + 1].dir, stack[k + 1].name)' \notin stack[k].rest
             /\ Children(stack[k].ino)' =
                   stack[k].rest \cup {SlotNamed(stack[k + 1].dir, stack[k + 1].name)'}
  <2> PICK f, g, d, next : f = stack[k] /\ g = stack[k + 1] /\ d = f.ino /\ next = SlotNamed(g.dir, g.name)
    OBVIOUS
  <2>1. Linked(f) /\ IsDir(d) /\ g.dir = d /\ next \notin f.rest /\ Children(d) = f.rest \cup {next}
    BY <1>1 DEF Callers
  <2>2. Linked(g)
    <3>1. CASE k + 1 \in 1 .. (n - 1)
      BY <1>1, <3>1 DEF Callers
    <3>2. CASE k + 1 = n
      BY <1>1, <1>2, <3>2
    <3> QED
      BY <1>5, <3>1, <3>2
  <2>3. Linked(f)' /\ Kept(g.dir)
    BY <1>3, <2>1, <2>2
  <2>4. Kept(d)
    BY <2>1, <2>3
  <2>5. IsDir(d)' /\ SlotNamed(d, g.name)' = next /\ Children(d)' = Children(d)
    BY <2>1, <2>4 DEF Kept
  <2> QED
    BY <2>1, <2>3, <2>5
<1>7. CallersSound'
  BY <1>1, <1>6 DEF CallersSound
<1>8. StackApart'
  BY <1>1 DEF StackApart, FramesApart
<1> QED
  BY <1>4, <1>7, <1>8

LEMMA OneMore ==
    ASSUME NEW S \in SUBSET DataBlocks, NEW b \in DataBlocks, NEW n \in Nat, Cardinality(S) <= n,
           NEW T
    PROVE  /\ T \subseteq S \cup {b} => Cardinality(T) <= n + 1
           /\ T \subseteq S => Cardinality(T) <= n
<1>1. ASSUME T \subseteq S \cup {b} PROVE Cardinality(T) <= n + 1
  <2> DEFINE U == S \cup {b}
  <2>1. IsFiniteSet(S) /\ Cardinality(S) \in Nat /\ IsFiniteSet(U) /\ Cardinality(U) \in Nat
    BY BlocksFinite
  <2>2. Cardinality(U) <= Cardinality(S) + 1
    BY <2>1, FS_AddElement
  <2>3. Cardinality(T) <= Cardinality(U) /\ Cardinality(T) \in Nat
    BY <1>1, <2>1, BlocksFinite, FS_Subset
  <2> HIDE DEF U
  <2> QED
    BY <2>1, <2>2, <2>3
<1>2. ASSUME T \subseteq S PROVE Cardinality(T) <= n
  <2>1. Cardinality(T) <= Cardinality(S) /\ Cardinality(T) \in Nat /\ Cardinality(S) \in Nat
    BY <1>2, BlocksFinite, FS_Subset
  <2> QED
    BY <2>1
<1> QED
  BY <1>1, <1>2

\* FreeBlock on block b.
GivesBack(b) ==
    /\ disk' = IF CacheFull(sb.freeBlock) THEN [disk EXCEPT ![b] = Chain(sb.freeBlock)] ELSE disk
    /\ sb' = [sb EXCEPT !.freeBlock = CacheAfterFree(@, b), !.totalFreeBlock = @ + 1]

\* A block that is nobody's is given back: the lists stay sound.
LEMMA FreeEffect ==
    ASSUME Typed, Bounded, SuperSound(sb), SuperSound(sbDisk), NEW b \in DataBlocks,
           b \notin Free(sb), b \notin Free(sbDisk), Lists[b] = <<>>, GivesBack(b), sbDisk' = sbDisk
    PROVE  /\ disk' \in [DataBlocks -> Sectors]
           /\ \A c : c # b => disk'[c] = disk[c]
           /\ \A c \in DataBlocks \ {b} : Lists'[c] = Lists[c]
           /\ \/ disk' = disk /\ Lists' = Lists
              \/ disk'[b].tag = "chain" /\ Lists'[b] # <<>>
           /\ sb' \in SuperBlocks /\ sb'.freeInode = sb.freeInode
           /\ Free(sb)' \subseteq Free(sb) \cup {b} /\ Free(sbDisk)' \subseteq Free(sbDisk)
           /\ SuperSound(sb)' /\ SuperSound(sbDisk)'
           /\ ListsShort(sb.freeBlock, Lists)' /\ ListsShort(sbDisk.freeBlock, Lists)'
<1> PICK cache, cacheDisk, total, lists, after :
       /\ cache = sb.freeBlock /\ cacheDisk = sbDisk.freeBlock /\ total = sb.totalFreeBlock
       /\ lists = Lists /\ after = Lists'
  OBVIOUS
<1>1. /\ cache \in Seq(DataBlocks) /\ cacheDisk \in Seq(DataBlocks) /\ total \in Nat
      /\ sb \in SuperBlocks /\ sbDisk.totalFreeBlock \in Nat
      /\ lists \in ListTable /\ Len(cache) \in Nat /\ Len(cache) <= MaxFreeBlock
  <2>1. /\ cache \in Seq(DataBlocks) /\ cacheDisk \in Seq(DataBlocks) /\ total \in Nat
        /\ sb \in SuperBlocks /\ sbDisk.totalFreeBlock \in Nat
    BY DEF Typed, SuperBlocks
  <2> QED
    BY <2>1, ListsTyped DEF Bounded, ListsShort
<1>2. /\ ListsSound(cache, lists) /\ ListsSound(cacheDisk, lists)
      /\ Cardinality(FreeBlocks(cache, lists)) <= total
      /\ Cardinality(FreeBlocks(cacheDisk, lists)) <= sbDisk.totalFreeBlock
      /\ Distinct(sb.freeInode) /\ Distinct(sbDisk.freeInode)
  BY DEF SuperSound, Free
<1>3. b \notin FreeBlocks(cache, lists) /\ b \notin FreeBlocks(cacheDisk, lists) /\ lists[b] = <<>>
  BY DEF Free
<1>4. /\ Free(sb) = FreeBlocks(cache, lists) /\ Free(sbDisk) = FreeBlocks(cacheDisk, lists)
      /\ Free(sb)' = FreeBlocks(sb'.freeBlock, after) /\ Free(sbDisk)' = FreeBlocks(cacheDisk, after)
  BY DEF Free
<1>5. FreeBlocks(cache, lists) \subseteq DataBlocks /\ FreeBlocks(cacheDisk, lists) \subseteq DataBlocks
  BY <1>1, FreeBlocksListed
<1>6. /\ sb'.freeBlock = CacheAfterFree(cache, b) /\ sb'.totalFreeBlock = total + 1
      /\ sb'.freeInode = sb.freeInode
  BY <1>1 DEF GivesBack, SuperBlocks
<1>7. \A c : c # b => disk'[c] = disk[c]
  BY DEF GivesBack, Typed
<1>8. \A c \in DataBlocks \ {b} : Lists'[c] = Lists[c]
  BY <1>7 DEF Lists
<1>9. /\ disk' \in [DataBlocks -> Sectors]
      /\ sb'.freeBlock \in Seq(DataBlocks) /\ Len(sb'.freeBlock) <= MaxFreeBlock
      /\ \A c \in DataBlocks : Len(after[c]) <= MaxFreeBlock
      /\ \/ disk' = disk /\ after = lists
         \/ disk'[b].tag = "chain" /\ after[b] # <<>>
      /\ ListsSound(sb'.freeBlock, after) /\ ListsSound(cacheDisk, after)
      /\ FreeBlocks(sb'.freeBlock, after) \subseteq FreeBlocks(cache, lists) \cup {b}
      /\ FreeBlocks(cacheDisk, after) \subseteq FreeBlocks(cacheDisk, lists)
  <2>0. \A c \in DataBlocks : Len(lists[c]) <= MaxFreeBlock
    BY DEF Bounded, ListsShort
  <2>1. CASE ~CacheFull(cache)
    <3>1. disk' = disk /\ after = lists /\ sb'.freeBlock = Append(cache, b)
      BY <1>6, <2>1 DEF GivesBack, CacheAfterFree, Lists
    <3>2. /\ ListsSound(Append(cache, b), lists)
          /\ FreeBlocks(Append(cache, b), lists) \subseteq FreeBlocks(cache, lists) \cup {b}
      BY <1>1, <1>2, <1>3, PushSound
    <3>3. Append(cache, b) \in Seq(DataBlocks) /\ Len(Append(cache, b)) = Len(cache) + 1
      BY <1>1, AppendEntries
    <3>4. Len(cache) + 1 <= MaxFreeBlock
      BY <1>1, <2>1, MaxFreeBlockAssumption DEF CacheFull
    <3>5. disk' \in [DataBlocks -> Sectors]
      BY <3>1 DEF Typed
    <3> QED
      BY <1>2, <2>0, <3>1, <3>2, <3>3, <3>4, <3>5
  <2>2. CASE CacheFull(cache)
    <3>1. disk' = [disk EXCEPT ![b] = Chain(cache)] /\ sb'.freeBlock = <<b>>
      BY <1>6, <2>2 DEF GivesBack, CacheAfterFree
    <3>2. Chain(cache) \in Sectors /\ Chain(cache).tag = "chain" /\ Listed(Chain(cache)) = cache
      BY <1>1 DEF Chain, Sectors, Listed
    <3>3. disk' \in [DataBlocks -> Sectors] /\ disk'[b] = Chain(cache)
      BY <3>1, <3>2 DEF Typed
    <3>4. after = [lists EXCEPT ![b] = cache]
      <4>1. \A c \in DataBlocks : after[c] = IF c = b THEN cache ELSE lists[c]
        BY <1>8, <3>2, <3>3 DEF Lists
      <4>2. after = [c \in DataBlocks |-> after[c]]
        BY DEF Lists
      <4> QED
        BY <1>1, <4>1, <4>2 DEF ListTable
    <3>5. ListsSound(<<b>>, after) /\ FreeBlocks(<<b>>, after) \subseteq FreeBlocks(cache, lists) \cup {b}
      BY <1>1, <1>2, <1>3, <2>2, <3>4, SpillSound
    <3>6. ListsSound(cacheDisk, after) /\ FreeBlocks(cacheDisk, after) \subseteq FreeBlocks(cacheDisk, lists)
      BY <1>1, <1>2, <1>3, <3>4, OtherSound
    <3>7. <<b>> \in Seq(DataBlocks) /\ Len(<<b>>) <= MaxFreeBlock
      BY MaxFreeBlockAssumption
    <3>8. after[b] = cache /\ cache # <<>>
      BY <1>1, <2>2, <3>4, MaxFreeBlockAssumption DEF CacheFull, ListTable
    <3>9. \A c \in DataBlocks : Len(after[c]) <= MaxFreeBlock
      BY <1>1, <1>8, <2>0, <3>8
    <3> QED
      BY <3>1, <3>2, <3>3, <3>5, <3>6, <3>7, <3>8, <3>9
  <2> QED
    BY <2>1, <2>2
<1>10. sb' \in SuperBlocks
  <2> PICK rest, count : rest = CacheAfterFree(cache, b) /\ count = total + 1
    OBVIOUS
  <2>1. rest \in Seq(DataBlocks) /\ count \in Nat
    BY <1>1, <1>6, <1>9
  <2>2. sb' = [sb EXCEPT !.freeBlock = rest, !.totalFreeBlock = count]
    BY DEF GivesBack
  <2> QED
    BY <1>1, <2>1, <2>2 DEF SuperBlocks
<1>11. /\ Cardinality(FreeBlocks(sb'.freeBlock, after)) <= total + 1
       /\ Cardinality(FreeBlocks(cacheDisk, after)) <= sbDisk.totalFreeBlock
  <2> PICK s, t, u, v : /\ s = FreeBlocks(cache, lists) /\ t = FreeBlocks(sb'.freeBlock, after)
                        /\ u = FreeBlocks(cacheDisk, lists) /\ v = FreeBlocks(cacheDisk, after)
    OBVIOUS
  <2>1. s \in SUBSET DataBlocks /\ u \in SUBSET DataBlocks /\ t \subseteq s \cup {b} /\ v \subseteq u
    BY <1>5, <1>9
  <2>2. Cardinality(s) <= total /\ Cardinality(u) <= sbDisk.totalFreeBlock
    BY <1>2
  <2>3. Cardinality(t) <= total + 1
    BY <1>1, <2>1, <2>2, OneMore
  <2>4. Cardinality(v) <= sbDisk.totalFreeBlock
    BY <1>1, <2>1, <2>2, OneMore
  <2> QED
    BY <2>3, <2>4
<1>12. SuperSound(sb)' /\ SuperSound(sbDisk)'
  BY <1>2, <1>4, <1>6, <1>9, <1>11 DEF SuperSound
<1>13. ListsShort(sb.freeBlock, Lists)' /\ ListsShort(sbDisk.freeBlock, Lists)'
  BY <1>9 DEF Bounded, ListsShort
<1> QED
  BY <1>4, <1>6, <1>7, <1>8, <1>9, <1>10, <1>12, <1>13

LEMMA FreeBlockStep ==
    ASSUME IInv, FreeBlock
    PROVE  IInv'
<1>1. /\ job.op = "remove" /\ job.pc = "blocks" /\ job.todo # <<>>
      /\ GivesBack(Head(job.todo)) /\ job' = [job EXCEPT !.todo = Tail(@)]
      /\ UNCHANGED <<inodes, sbDisk, crashes>>
  BY DEF FreeBlock, Removing, GivesBack
<1>a. PICK i, b, todo, rest, ind :
        /\ i = Top.ino /\ todo = job.todo /\ b = Head(todo) /\ rest = Tail(todo)
        /\ ind = inodes[i].ind
  OBVIOUS
<1>2. /\ Typed /\ Bounded /\ SuperSound(sb) /\ SuperSound(sbDisk) /\ TreeSafe /\ HandSafe
      /\ TreeFacts /\ BlockFacts /\ RemoveSound /\ FreeingSound
  BY TreeFactsHold, BlocksTyped DEF IInv
<1>3. /\ i \in Reachable /\ i \in Inodes /\ i # InodeRoot
      /\ Linked(Top) /\ Top.rest = {} /\ (IsDir(i) => Children(i) = {})
      /\ Live = Reachable \ {i} /\ Gone \subseteq {i}
      /\ \A j \in Reachable \ {i} :
            /\ j \in Inodes
            /\ Range(BlocksOf(j)) \cap Free(sb) = {} /\ j \notin Range(sb.freeInode)
            /\ Range(BlocksOf(j)) \cap Free(sbDisk) = {} /\ j \notin Range(sbDisk.freeInode)
  BY <1>1, <1>a, TargetFacts
<1>4. job \in Removals /\ todo \in Seq(DataBlocks) /\ todo # <<>>
  BY <1>1, <1>2, <1>a, JobTyped DEF Removals
<1>5. /\ Distinct(todo) /\ Range(todo) \cap Free(sb) = {} /\ Range(todo) \cap Free(sbDisk) = {}
      /\ \A j \in Reachable \ {i} : Range(todo) \cap Range(BlocksOf(j)) = {}
      /\ \A c \in Range(todo) : Lists[c] = <<>>
  <2>1. InHand = todo
    BY <1>1, <1>2, <1>a, HandTyped DEF HandFacts
  <2> QED
    BY <1>1, <1>2, <1>3, <2>1 DEF HandSafe
<1>6. /\ rest \in Seq(DataBlocks) /\ Distinct(rest) /\ Range(rest) = Range(todo) \ {b} /\ b \in Range(todo)
      /\ (rest # <<>> => Last(rest) = Last(todo)) /\ b \in DataBlocks
      /\ Len(rest) \in Nat /\ Len(todo) \in Nat /\ Len(rest) < Len(todo)
  <2>1. /\ rest \in Seq(DataBlocks) /\ b \in DataBlocks
        /\ Len(rest) \in Nat /\ Len(todo) \in Nat /\ Len(rest) < Len(todo)
    BY <1>4, <1>a, TailEntries
  <2> QED
    BY <1>4, <1>5, <1>a, <2>1, TailDistinct
<1>7. /\ disk' \in [DataBlocks -> Sectors]
      /\ \A c : c # b => disk'[c] = disk[c]
      /\ \A c \in DataBlocks \ {b} : Lists'[c] = Lists[c]
      /\ \/ disk' = disk /\ Lists' = Lists
         \/ disk'[b].tag = "chain" /\ Lists'[b] # <<>>
      /\ sb' \in SuperBlocks /\ sb'.freeInode = sb.freeInode
      /\ Free(sb)' \subseteq Free(sb) \cup {b} /\ Free(sbDisk)' \subseteq Free(sbDisk)
      /\ SuperSound(sb)' /\ SuperSound(sbDisk)'
      /\ ListsShort(sb.freeBlock, Lists)' /\ ListsShort(sbDisk.freeBlock, Lists)'
  <2>1. b \notin Free(sb) /\ b \notin Free(sbDisk) /\ Lists[b] = <<>> /\ GivesBack(b)
    BY <1>1, <1>5, <1>6, <1>a
  <2> QED
    BY <1>1, <1>2, <1>6, <2>1, FreeEffect
<1>8. /\ job' \in Removals /\ job'.op = "remove" /\ job'.pc = "blocks" /\ job'.stack = job.stack
      /\ job'.todo = rest
  BY <1>1, <1>4, <1>6, <1>a DEF Removals
<1>9. Typed' /\ Bounded'
  BY <1>1, <1>2, <1>7, <1>8 DEF Typed, Bounded
<1>10. \A j \in Reachable \ {i} : Kept(j)
  <2> SUFFICES ASSUME NEW j \in Reachable \ {i} PROVE Kept(j)
    OBVIOUS
  <2>1. j \in Inodes /\ inodes'[j] = inodes[j] /\ \A c \in Range(BlocksOf(j)) : disk'[c] = disk[c]
    BY <1>1, <1>3, <1>5, <1>6, <1>7
  <2> QED
    BY <1>2, <2>1, RecordKept
<1>11. Top' = Top
  BY <1>8 DEF Top
<1>12. IsDir(i)' => Children(i)' = {}
  <2> SUFFICES ASSUME IsDir(i)' PROVE Children(i)' = {}
    OBVIOUS
  <2>1. IsDir(i) /\ Children(i) = {}
    BY <1>1, <1>3 DEF IsDir
  <2>2. Positions(i)' = Positions(i) /\ \A p \in Positions(i) : SlotBlock(i, p)' = SlotBlock(i, p)
    BY <1>1 DEF Positions, SlotBlock
  <2>3. ASSUME NEW p \in Positions(i) PROVE SlotAt(i, p)' = SlotAt(i, p) \/ SlotAt(i, p)' = EmptySlot
    <3>1. CASE disk'[SlotBlock(i, p)] = disk[SlotBlock(i, p)]
      BY <2>2, <3>1 DEF SlotAt
    <3>2. CASE disk'[SlotBlock(i, p)] # disk[SlotBlock(i, p)]
      <4>1. SlotBlock(i, p) = b /\ disk'[b].tag = "chain"
        BY <1>7, <3>2
      <4> QED
        BY <2>2, <4>1 DEF SlotAt
    <3> QED
      BY <3>1, <3>2
  <2>4. ASSUME NEW p \in Children(i)' PROVE FALSE
    <3>1. p \in Positions(i) /\ SlotAt(i, p)'.ino # 0 /\ SlotAt(i, p)'.name \notin {".", ".."}
      BY <2>2 DEF Children
    <3>2. EmptySlot.ino = 0
      BY DEF EmptySlot, Slot
    <3>3. SlotAt(i, p)' = SlotAt(i, p)
      BY <2>3, <3>1, <3>2
    <3>4. p \in Children(i)
      BY <3>1, <3>3 DEF Children
    <3> QED
      BY <2>1, <3>4
  <2> QED
    BY <2>4
<1>13. \/ BlocksOf(i)' = BlocksOf(i)
       \/ /\ ind # 0 /\ b = ind /\ rest = <<>> /\ b \in Range(BlocksOf(i))' /\ BlocksOf(i)' # <<>>
          /\ Lists'[b] # <<>> /\ Len(BlocksOf(i))' \in Nat
  <2>1. CASE ind = 0 \/ disk'[ind] = disk[ind]
    BY <1>1, <1>a, <2>1 DEF BlocksOf
  <2>2. CASE ind # 0 /\ disk'[ind] # disk[ind]
    <3>1. b = ind /\ Lists'[b] # <<>>
      BY <1>7, <2>2
    <3>2. Last(todo) = Head(todo)
      BY <1>1, <1>2, <1>a, <2>2, <3>1 DEF FreeingSound, Removing
    <3>3. rest = <<>>
      <4>1. Head(todo) = todo[1] /\ Last(todo) = todo[Len(todo)] /\ 1 \in DOMAIN todo /\ Len(todo) \in DOMAIN todo
        BY <1>4, FrontEntries
      <4>2. Len(todo) = 1
        BY <1>5, <3>2, <4>1 DEF Distinct
      <4>3. Len(rest) = 0
        BY <1>4, <1>a, <4>2, TailEntries
      <4> QED
        BY <1>6, <4>3
    <3>4. BlockFacts'
      BY <1>9, BlocksTypedNext
    <3>5. inodes'[i].ind = ind
      BY <1>1, <1>a
    <3>6. ind \in Range(BlocksOf(i))' /\ BlocksOf(i)' # <<>> /\ Len(BlocksOf(i))' \in Nat
      BY <1>3, <2>2, <3>4, <3>5 DEF BlockFacts
    <3> QED
      BY <2>2, <3>1, <3>3, <3>6
  <2> QED
    BY <2>1, <2>2
<1>14. /\ Len(todo) <= Len(BlocksOf(i)) /\ Range(todo) \subseteq Range(BlocksOf(i))
       /\ (todo # <<>> /\ ind # 0) => Last(todo) = ind
       /\ Intact(i) \/ \E c \in Range(BlocksOf(i)) \cap DataBlocks : Lists[c] # <<>>
       /\ Len(BlocksOf(i)) \in Nat
  BY <1>1, <1>2, <1>3, <1>a DEF FreeingSound, Removing, BlockFacts
<1>15. rest # BlocksOf(i)'
  BY <1>6, <1>13, <1>14
<1>16. Gone' = {i}
  <2>1. (Top.ino)' = i
    BY <1>11, <1>a
  <2> QED
    BY <1>8, <1>15, <2>1 DEF Gone, Removing
<1>17. Reachable' = Reachable /\ TreeSafe'
  <2> DEFINE X == {i}
  <2>1. X \in SUBSET (Inodes \ {InodeRoot}) /\ Gone \subseteq X /\ Gone' = X
    BY <1>3, <1>16
  <2>2. \A j \in Reachable \ X : Kept(j) /\ inodes'[j] = inodes[j]
    BY <1>1, <1>10
  <2>3. \A j \in X : (IsDir(j) => Children(j) = {}) /\ (IsDir(j)' => Children(j)' = {})
    BY <1>3, <1>12
  <2>4. \A j \in Reachable \ X : Range(BlocksOf(j)) \cap Free(sb)' = {} /\ j \notin Range(sb'.freeInode)
    BY <1>3, <1>5, <1>6, <1>7
  <2>5. \A j \in Reachable \ X :
           Range(BlocksOf(j)) \cap Free(sbDisk)' = {} /\ j \notin Range(sbDisk'.freeInode)
    BY <1>1, <1>3, <1>7
  <2> HIDE DEF X
  <2> QED
    BY <1>2, <1>9, <2>1, <2>2, <2>3, <2>4, <2>5, TreeStays
<1>18. HandSafe'
  <2>1. InHand' = rest
    BY <1>8, <1>9, HandTypedNext DEF HandFacts
  <2>2. Live' = Reachable \ {i}
    <3>1. (Top.ino)' = i
      BY <1>11, <1>a
    <3> QED
      BY <1>8, <1>17, <3>1 DEF Live, BeingFreed, Removing
  <2>3. \A j \in Reachable \ {i} : BlocksOf(j)' = BlocksOf(j)
    BY <1>10 DEF Kept
  <2>4. \A j \in Live' : Range(InHand)' \cap Range(BlocksOf(j))' = {}
    BY <1>5, <1>6, <2>1, <2>2, <2>3
  <2>5. Range(InHand)' \cap Free(sb)' = {} /\ Range(InHand)' \cap Free(sbDisk)' = {}
    BY <1>5, <1>6, <1>7, <2>1
  <2>6. \A c \in Range(InHand)' : Lists'[c] = <<>>
    <3>1. Range(rest) \subseteq DataBlocks \ {b}
      BY <1>6 DEF Range
    <3> QED
      BY <1>5, <1>6, <1>7, <2>1, <3>1
  <2> QED
    BY <1>6, <2>1, <2>4, <2>5, <2>6 DEF HandSafe
<1>19. RemoveSound'
  <2>1. CallersSound' /\ StackApart' /\ Linked(Top)'
    BY <1>1, <1>8, <1>10, <1>17, <1>a, FramesStay
  <2>2. (Top.ino)' = i /\ (Top.rest)' = {} /\ i \notin Range(sb'.freeInode)
    <3>1. i \notin Range(sb.freeInode)
      BY <1>1, <1>2, <1>a DEF RemoveSound
    <3> QED
      BY <1>3, <1>7, <1>11, <1>a, <3>1
  <2>3. IsDir(Top.ino)' => Children(Top.ino)' = {}
    BY <1>12, <2>2
  <2>4. job'.stack # <<>>
    BY <1>1, <1>2, <1>8 DEF RemoveSound
  <2> QED
    BY <1>8, <2>1, <2>2, <2>3, <2>4 DEF RemoveSound
<1>20. FreeingSound'
  <2>1. (Top.ino)' = i
    BY <1>11, <1>a
  <2>2. inodes'[i].ind = ind
    BY <1>1, <1>a
  <2>3. Len(rest) <= Len(BlocksOf(i))' /\ Range(rest) \subseteq Range(BlocksOf(i))'
    <3>1. CASE BlocksOf(i)' = BlocksOf(i)
      BY <1>6, <1>14, <3>1
    <3>2. CASE rest = <<>> /\ Len(BlocksOf(i))' \in Nat
      BY <3>2, EmptySequence
    <3> QED
      BY <1>13, <3>1, <3>2
  <2>4. (rest # <<>> /\ ind # 0) => Last(rest) = ind
    BY <1>4, <1>6, <1>14
  <2>5. Intact(i)' \/ \E c \in Range(BlocksOf(i))' \cap DataBlocks : Lists'[c] # <<>>
    <3>1. CASE disk' = disk /\ Lists' = Lists
      <4>1. Kept(i)
        BY <1>1, <1>2, <1>3, <3>1, RecordKept
      <4> QED
        BY <1>14, <3>1, <4>1 DEF Kept
    <3>2. CASE Lists'[b] # <<>>
      <4>1. b \in Range(BlocksOf(i))'
        BY <1>6, <1>13, <1>14
      <4> QED
        BY <1>6, <3>2, <4>1
    <3> QED
      BY <1>7, <3>1, <3>2
  <2> QED
    BY <1>8, <2>1, <2>2, <2>3, <2>4, <2>5 DEF FreeingSound
<1>21. CreateSound'
  BY <1>8 DEF CreateSound
<1> QED
  BY <1>7, <1>9, <1>17, <1>18, <1>19, <1>20, <1>21 DEF IInv

FreeRecordTyped == FreeInodeRecord \in InodeRecords /\ FreeInodeRecord.mode = "free"
                   /\ FreeInodeRecord.addr = <<>> /\ FreeInodeRecord.ind = 0

LEMMA FreeRecord == FreeRecordTyped
  BY DEF FreeRecordTyped, FreeInodeRecord, InodeRecords

\* FreeInode puts i in the cache when there is room.
WithInode(s, i) ==
    [s EXCEPT !.freeInode = IF Len(@) < MaxFreeInode THEN Append(@, i) ELSE @]

LEMMA InodeCached ==
    ASSUME NEW s \in SuperBlocks, Len(s.freeInode) <= MaxFreeInode, Distinct(s.freeInode),
           NEW i \in Inodes, i \notin Range(s.freeInode),
           NEW t, t = WithInode(s, i)
    PROVE  /\ t \in SuperBlocks /\ t.freeBlock = s.freeBlock /\ t.totalFreeBlock = s.totalFreeBlock
           /\ Len(t.freeInode) <= MaxFreeInode /\ Distinct(t.freeInode)
           /\ Range(t.freeInode) \subseteq Range(s.freeInode) \cup {i}
<1> PICK list, longer : list = s.freeInode /\ longer = Append(list, i)
  OBVIOUS
<1>1. list \in Seq(Inodes) /\ s.freeBlock \in Seq(DataBlocks) /\ s.totalFreeBlock \in Nat
  BY DEF SuperBlocks
<1>2. /\ longer \in Seq(Inodes) /\ Len(longer) = Len(list) + 1 /\ Len(list) \in Nat
      /\ Distinct(longer) /\ Range(longer) = Range(list) \cup {i}
  BY <1>1, AppendEntries, AppendDistinct
<1>3. CASE Len(list) < MaxFreeInode
  <2>1. t = [s EXCEPT !.freeInode = longer]
    BY <1>3 DEF WithInode
  <2>2. t.freeInode = longer /\ t.freeBlock = s.freeBlock /\ t.totalFreeBlock = s.totalFreeBlock
        /\ t \in SuperBlocks
    BY <1>2, <2>1 DEF SuperBlocks
  <2>3. Len(longer) <= MaxFreeInode
    BY <1>2, <1>3, LayoutAssumption
  <2> QED
    BY <1>2, <2>2, <2>3
<1>4. CASE ~(Len(list) < MaxFreeInode)
  <2>1. t = s
    BY <1>4 DEF SuperBlocks, WithInode
  <2> QED
    BY <2>1
<1> QED
  BY <1>3, <1>4

LEMMA FreeInodeStep ==
    ASSUME IInv, FreeInode
    PROVE  IInv'
<1>1. /\ job.op = "remove" /\ job.pc = "blocks" /\ job.todo = <<>>
      /\ inodes' = [inodes EXCEPT ![Top.ino] = FreeInodeRecord]
      /\ sb' = [sb EXCEPT !.freeInode = IF Len(@) < MaxFreeInode THEN Append(@, Top.ino) ELSE @]
      /\ job' = [job EXCEPT !.pc = "entry"]
      /\ UNCHANGED <<disk, sbDisk, crashes>>
  BY DEF FreeInode, Removing
<1>a. PICK i : i = Top.ino
  OBVIOUS
<1>2. /\ Typed /\ Bounded /\ SuperSound(sb) /\ SuperSound(sbDisk) /\ TreeSafe /\ HandSafe
      /\ TreeFacts /\ BlockFacts /\ RemoveSound
  BY TreeFactsHold, BlocksTyped DEF IInv
<1>3. /\ i \in Reachable /\ i \in Inodes /\ i # InodeRoot
      /\ Linked(Top) /\ Top.rest = {} /\ (IsDir(i) => Children(i) = {})
      /\ Live = Reachable \ {i} /\ Gone \subseteq {i}
      /\ \A j \in Reachable \ {i} :
            /\ j \in Inodes
            /\ Range(BlocksOf(j)) \cap Free(sb) = {} /\ j \notin Range(sb.freeInode)
            /\ Range(BlocksOf(j)) \cap Free(sbDisk) = {} /\ j \notin Range(sbDisk.freeInode)
  BY <1>1, <1>a, TargetFacts
<1>4. job \in Removals
  BY <1>1, <1>2, JobTyped
<1>5. /\ sb' \in SuperBlocks /\ sb'.freeBlock = sb.freeBlock /\ sb'.totalFreeBlock = sb.totalFreeBlock
      /\ Len(sb'.freeInode) <= MaxFreeInode /\ Distinct(sb'.freeInode)
      /\ Range(sb'.freeInode) \subseteq Range(sb.freeInode) \cup {i}
  <2> PICK s, t : s = sb /\ t = sb'
    OBVIOUS
  <2>1. /\ s \in SuperBlocks /\ Len(s.freeInode) <= MaxFreeInode /\ Distinct(s.freeInode)
        /\ i \notin Range(s.freeInode)
    BY <1>1, <1>2, <1>a DEF Typed, Bounded, SuperSound, RemoveSound
  <2>2. t = WithInode(s, i)
    BY <1>1, <1>a DEF WithInode
  <2>3. /\ t \in SuperBlocks /\ t.freeBlock = s.freeBlock /\ t.totalFreeBlock = s.totalFreeBlock
        /\ Len(t.freeInode) <= MaxFreeInode /\ Distinct(t.freeInode)
        /\ Range(t.freeInode) \subseteq Range(s.freeInode) \cup {i}
    BY <1>3, <2>1, <2>2, InodeCached
  <2> QED
    BY <2>3
<1>6. /\ inodes' \in [Inodes -> InodeRecords] /\ inodes'[i] = FreeInodeRecord
      /\ \A j : j # i => inodes'[j] = inodes[j]
  BY <1>1, <1>2, <1>3, <1>a, FreeRecord DEF Typed, FreeRecordTyped
<1>7. /\ job' \in Removals /\ job'.op = "remove" /\ job'.pc = "entry" /\ job'.stack = job.stack
      /\ job'.todo = <<>>
  BY <1>1, <1>4 DEF Removals
<1>8. Lists' = Lists /\ Free(sb)' = Free(sb) /\ Free(sbDisk)' = Free(sbDisk)
  BY <1>1, <1>5 DEF Lists, Free
<1>9. Typed' /\ Bounded'
  <2>1. Typed'
    BY <1>1, <1>2, <1>5, <1>6, <1>7 DEF Typed
  <2>2. Len(FreeInodeRecord.addr) <= NAddrDirect
    <3>1. Len(<<>>) = 0
      OBVIOUS
    <3> QED
      BY <3>1, FreeRecord, LayoutAssumption DEF FreeRecordTyped
  <2>3. \A j \in Inodes : Len(inodes'[j].addr) <= NAddrDirect
    BY <1>2, <1>6, <2>2 DEF Bounded
  <2> QED
    BY <1>1, <1>2, <1>5, <1>8, <2>1, <2>3 DEF Bounded
<1>10. SuperSound(sb)' /\ SuperSound(sbDisk)'
  BY <1>1, <1>2, <1>5, <1>8 DEF SuperSound
<1>11. \A j \in Reachable \ {i} : Kept(j)
  <2> SUFFICES ASSUME NEW j \in Reachable \ {i} PROVE Kept(j)
    OBVIOUS
  <2>1. j \in Inodes /\ inodes'[j] = inodes[j] /\ \A c \in Range(BlocksOf(j)) : disk'[c] = disk[c]
    BY <1>1, <1>3, <1>6
  <2> QED
    BY <1>2, <2>1, RecordKept
<1>12. Top' = Top /\ (Top.ino)' = i
  BY <1>7, <1>a DEF Top
<1>13. ~IsDir(i)'
  BY <1>6, FreeRecord DEF IsDir, FreeRecordTyped
<1>14. Gone' = {i}
  BY <1>7, <1>12 DEF Gone, Removing
<1>15. Reachable' = Reachable /\ TreeSafe'
  <2> DEFINE X == {i}
  <2>1. X \in SUBSET (Inodes \ {InodeRoot}) /\ Gone \subseteq X /\ Gone' = X
    BY <1>3, <1>14
  <2>2. \A j \in Reachable \ X : Kept(j) /\ inodes'[j] = inodes[j]
    BY <1>6, <1>11
  <2>3. \A j \in X : (IsDir(j) => Children(j) = {}) /\ (IsDir(j)' => Children(j)' = {})
    BY <1>3, <1>13
  <2>4. \A j \in Reachable \ X : Range(BlocksOf(j)) \cap Free(sb)' = {} /\ j \notin Range(sb'.freeInode)
    BY <1>3, <1>5, <1>8
  <2>5. \A j \in Reachable \ X :
           Range(BlocksOf(j)) \cap Free(sbDisk)' = {} /\ j \notin Range(sbDisk'.freeInode)
    BY <1>1, <1>3, <1>8
  <2> HIDE DEF X
  <2> QED
    BY <1>2, <1>9, <2>1, <2>2, <2>3, <2>4, <2>5, TreeStays
<1>16. HandSafe'
  <2>1. InHand' = <<>> /\ Range(<<>>) = {} /\ Distinct(<<>>)
    BY <1>7, <1>9, HandTypedNext, EmptySequence DEF HandFacts
  <2> QED
    BY <2>1 DEF HandSafe
<1>17. RemoveSound'
  <2>1. CallersSound' /\ StackApart' /\ Linked(Top)'
    BY <1>1, <1>7, <1>11, <1>15, <1>a, FramesStay
  <2>2. (Top.rest)' = {}
    BY <1>3, <1>12
  <2>3. (inodes[Top.ino])' = FreeInodeRecord
    BY <1>6, <1>12
  <2>4. job'.stack # <<>>
    BY <1>1, <1>2, <1>7 DEF RemoveSound
  <2> QED
    BY <1>7, <2>1, <2>2, <2>3, <2>4 DEF RemoveSound
<1>18. FreeingSound' /\ CreateSound'
  BY <1>7 DEF FreeingSound, CreateSound, Removing
<1> QED
  BY <1>9, <1>10, <1>15, <1>16, <1>17, <1>18 DEF IInv

LEMMA CallerPlaces ==
    ASSUME NEW n \in Nat, n >= 1, NEW k \in 1 .. (n - 1)
    PROVE  /\ n # 1 /\ n - 1 \in 1 .. n /\ n - 1 \in 1 .. (n - 1) /\ (n - 1) + 1 = n
           /\ k \in 1 .. n /\ k + 1 \in 1 .. n /\ 1 \in 1 .. n
           /\ k # 1 => k - 1 \in 1 .. n /\ k - 1 \in 1 .. (n - 1) /\ (k - 1) + 1 = k /\ k - 1 # n - 1
           /\ k + 1 # n => k # n - 1
           /\ k + 1 = n => k = n - 1
  OBVIOUS

\* Once the entry of the target is gone, the activation that called has the
\* entries of its rest left and the others are as they were.
LEMMA FramesLeft ==
    ASSUME IInv, job.op = "remove", job.pc = "entry",
           job'.op = "remove", job'.pc = "flush", job'.stack = job.stack,
           NEW i, i = Top.ino, NEW d, d = Top.dir, NEW p, p = SlotNamed(Top.dir, Top.name),
           Reachable' = Reachable \ {i}, \A j \in Reachable \ {d} : Kept(j),
           IsDir(d)', Children(d)' = Children(d) \ {p}
    PROVE  CallersSound' /\ StackApart'
<1>a. PICK stack, n, top : stack = job.stack /\ n = Len(job.stack) /\ top = Top
  OBVIOUS
<1>1. /\ Typed /\ TreeFacts /\ FramesApart(stack) /\ Callers(stack)
      /\ n \in Nat /\ n >= 1 /\ top = stack[n] /\ Len(stack) = n /\ DOMAIN stack = 1 .. n
  BY <1>a, StackFacts, TreeFactsHold DEF IInv
<1>2. Linked(top) /\ (IsDir(i) => Children(i) = {}) /\ d = top.dir /\ p = SlotNamed(d, top.name)
  BY <1>a, TargetFacts
<1>3. ASSUME NEW f, Linked(f), NEW e, e = f.dir, e # d PROVE Kept(e) /\ Linked(f)'
  <2>1. e \in Reachable /\ IsDir(e) /\ Children(e) # {}
    BY <1>1, <1>3, LinkedChild DEF Linked
  <2>2. e \in Reachable' /\ Kept(e)
    BY <1>2, <1>3, <2>1
  <2>3. Linked(f)'
    BY <1>1, <1>3, <2>2, FrameKept
  <2> QED
    BY <2>2, <2>3
<1>4. ASSUME NEW k \in 1 .. (n - 1)
      PROVE  /\ Linked(stack[k])' /\ IsDir(stack[k].ino)'
             /\ stack[k + 1].dir = stack[k].ino
             /\ k + 1 = n => Children(stack[k].ino)' = stack[k].rest
             /\ k + 1 # n =>
                  /\ SlotNamed(stack[k + 1].dir, stack[k + 1].name)' \notin stack[k].rest
                  /\ Children(stack[k].ino)' =
                        stack[k].rest \cup {SlotNamed(stack[k + 1].dir, stack[k + 1].name)'}
  <2>0. /\ n # 1 /\ n - 1 \in 1 .. n /\ n - 1 \in 1 .. (n - 1) /\ (n - 1) + 1 = n
        /\ k \in 1 .. n /\ k + 1 \in 1 .. n /\ 1 \in 1 .. n
        /\ k # 1 => k - 1 \in 1 .. n /\ k - 1 \in 1 .. (n - 1) /\ (k - 1) + 1 = k /\ k - 1 # n - 1
        /\ k + 1 # n => k # n - 1
        /\ k + 1 = n => k = n - 1
    BY <1>1, CallerPlaces
  <2>a. PICK f, g, e, t, next : /\ f = stack[k] /\ g = stack[k + 1] /\ e = f.dir /\ t = f.ino
                                /\ next = SlotNamed(g.dir, g.name)
    OBVIOUS
  <2>1. Linked(f) /\ IsDir(t) /\ g.dir = t /\ next \notin f.rest /\ Children(t) = f.rest \cup {next}
    BY <1>1, <2>a DEF Callers
  <2>2. d = stack[n - 1].ino
    BY <1>1, <1>2, <2>0 DEF Callers
  <2>3. e # d
    <3>1. CASE k = 1
      BY <1>1, <2>0, <2>2, <2>a, <3>1 DEF FramesApart
    <3>2. CASE k # 1
      <4>1. e = stack[k - 1].ino
        BY <1>1, <2>0, <2>a, <3>2 DEF Callers
      <4> QED
        BY <1>1, <2>0, <2>2, <3>2, <4>1 DEF FramesApart
    <3> QED
      BY <3>1, <3>2
  <2>4. Linked(f)'
    BY <1>3, <2>1, <2>3, <2>a
  <2>5. CASE k + 1 = n
    <3>1. t = d /\ next = p /\ g = top
      BY <1>1, <1>2, <2>0, <2>1, <2>2, <2>5, <2>a
    <3>2. IsDir(t)' /\ Children(t)' = f.rest
      BY <2>1, <3>1
    <3> QED
      BY <2>1, <2>4, <2>5, <2>a, <3>2
  <2>6. CASE k + 1 # n
    <3>1. t # d
      <4>1. k # n - 1 /\ k \in 1 .. n /\ n - 1 \in 1 .. n
        BY <2>0, <2>6
      <4>2. \A a, b \in 1 .. n : stack[a].ino = stack[b].ino => a = b
        BY <1>1 DEF FramesApart
      <4>3. stack[k].ino # stack[n - 1].ino
        BY <4>1, <4>2, Zenon
      <4> QED
        BY <2>2, <2>a, <4>3
    <3>2. t \in Reachable
      BY <1>1, <2>1, <2>a, LinkedChild
    <3>3. Kept(t)
      BY <3>1, <3>2
    <3>4. IsDir(t)' /\ SlotNamed(t, g.name)' = next /\ Children(t)' = Children(t)
      BY <2>1, <2>a, <3>3 DEF Kept
    <3> QED
      BY <2>1, <2>4, <2>6, <2>a, <3>4
  <2> QED
    BY <2>5, <2>6
<1>5. CallersSound'
  BY <1>1, <1>4, <1>a DEF CallersSound
<1>6. StackApart'
  BY <1>1, <1>a DEF StackApart, FramesApart
<1> QED
  BY <1>5, <1>6

\* What the step does to the tree: one entry less, and nothing else.
EntryRemoved ==
    \E d, i, p :
        /\ d = Top.dir /\ i = Top.ino
        /\ d \in Reachable /\ IsDir(d) /\ IsDir(d)'
        /\ p \in Children(d) /\ SlotAt(d, p).ino = i
        /\ \A j \in Reachable \ {d} : SameChildren(j)
        /\ Children(d)' = Children(d) \ {p}
        /\ \A q \in Children(d)' : SlotAt(d, q)' = SlotAt(d, q)
        /\ Reachable' = Reachable \ {i}
        /\ BeingFreed' = {}

LEMMA RemoveEntryStep ==
    ASSUME IInv, RemoveEntry
    PROVE  IInv' /\ EntryRemoved
<1>1. /\ job.op = "remove" /\ job.pc = "entry" /\ UNCHANGED <<inodes, sbDisk, sb, crashes>>
  BY DEF RemoveEntry, Removing
<1>a. PICK i, d, p : i = Top.ino /\ d = Top.dir /\ p = SlotNamed(Top.dir, Top.name)
  OBVIOUS
<1>2. /\ Typed /\ Bounded /\ SuperSound(sb) /\ SuperSound(sbDisk) /\ TreeSafe /\ HandSafe
      /\ TreeFacts /\ BlockFacts /\ RemoveSound
  BY TreeFactsHold, BlocksTyped DEF IInv
<1>3. /\ i \in Reachable /\ i \in Inodes /\ i # InodeRoot
      /\ Linked(Top) /\ Top.rest = {}
      /\ Live = Reachable \ {i} /\ Gone \subseteq {i} /\ Whole \subseteq Reachable
      /\ Reachable \ {i} \subseteq Whole
      /\ \A j \in Reachable \ {i} :
            /\ j \in Inodes /\ Intact(j) /\ Distinct(BlocksOf(j))
            /\ Range(BlocksOf(j)) \cap Free(sb) = {} /\ j \notin Range(sb.freeInode)
            /\ Range(BlocksOf(j)) \cap Free(sbDisk) = {} /\ j \notin Range(sbDisk.freeInode)
  BY <1>1, <1>a, TargetFacts
<1>4. /\ d \in Reachable /\ d \in Inodes /\ IsDir(d) /\ p \in Children(d) /\ p \in Positions(d)
      /\ SlotAt(d, p).ino = i /\ Top.name \in DirNames(d)
  BY <1>2, <1>3, <1>a, LinkedChild DEF Linked, Children
<1>5. inodes[i] = FreeInodeRecord /\ inodes'[i] = FreeInodeRecord /\ job.todo = <<>>
  BY <1>1, <1>2, <1>a DEF RemoveSound
<1>6. ~IsDir(i) /\ ~IsDir(i)' /\ d # i /\ IsDir(d)'
  BY <1>1, <1>4, <1>5, FreeRecord DEF FreeRecordTyped, IsDir
<1>7. SetSlot(d, p, EmptySlot) /\ job' = [job EXCEPT !.pc = "flush"]
  BY <1>4, <1>a DEF RemoveEntry, SetSlot
<1>8. /\ job' \in Removals /\ job'.op = "remove" /\ job'.pc = "flush" /\ job'.stack = job.stack
      /\ job'.todo = <<>>
  <2>1. job \in Removals
    BY <1>1, <1>2, JobTyped
  <2> QED
    BY <1>5, <1>7, <2>1 DEF Removals
<1>9. /\ Intact(d) /\ inodes[d].ind = 0 /\ BlocksOf(d) = inodes[d].addr /\ Distinct(inodes[d].addr)
      /\ \A b \in Range(inodes[d].addr) : disk[b].tag = "dir"
  BY <1>2, <1>3, <1>4, <1>6, DirIntact
<1>10. /\ disk' \in [DataBlocks -> Sectors] /\ Lists' = Lists
       /\ SlotBlock(d, p) \in Range(inodes[d].addr)
       /\ \A b : b # SlotBlock(d, p) => disk'[b] = disk[b]
       /\ \A b \in Range(inodes[d].addr) : disk'[b].tag = "dir"
       /\ Positions(d)' = Positions(d)
       /\ SlotAt(d, p)' = EmptySlot
       /\ \A q \in Positions(d) : q # p => SlotAt(d, q)' = SlotAt(d, q)
  <2>1. EmptySlot \in Slots
    BY DEF EmptySlot, Slot, Slots, SlotNames
  <2>2. inodes'[d].addr = inodes[d].addr
    BY <1>1
  <2> QED
    BY <1>2, <1>4, <1>7, <1>9, <2>1, <2>2, SlotWritten
<1>11. Children(d)' = Children(d) \ {p} /\ \A q \in Children(d)' : SlotAt(d, q)' = SlotAt(d, q)
  <2>1. EmptySlot.ino = 0
    BY DEF EmptySlot, Slot
  <2>2. ASSUME NEW q \in Positions(d)
        PROVE  q \in Children(d)' <=> q \in Children(d) /\ q # p
    <3>1. CASE q = p
      BY <1>10, <2>1, <3>1 DEF Children
    <3>2. CASE q # p
      BY <1>10, <3>2 DEF Children
    <3> QED
      BY <3>1, <3>2
  <2>3. Children(d) \subseteq Positions(d) /\ Children(d)' \subseteq Positions(d)
    BY <1>10 DEF Children
  <2> QED
    BY <1>10, <2>2, <2>3
<1>12. Typed' /\ Bounded'
  BY <1>1, <1>2, <1>8, <1>10 DEF Typed, Bounded
<1>13. Free(sb)' = Free(sb) /\ Free(sbDisk)' = Free(sbDisk) /\ SuperSound(sb)' /\ SuperSound(sbDisk)'
  <2>1. Free(sb)' = Free(sb) /\ Free(sbDisk)' = Free(sbDisk)
    BY <1>1, <1>10 DEF Free
  <2> QED
    BY <1>1, <1>2, <1>10, <2>1 DEF SuperSound
<1>14. BlocksApart(Whole)
  BY <1>2 DEF TreeSafe
<1>15. \A j \in Reachable \ {d} : Kept(j)
  <2> SUFFICES ASSUME NEW j \in Reachable \ {d} PROVE Kept(j)
    OBVIOUS
  <2>1. j \in Inodes /\ inodes'[j] = inodes[j]
    BY <1>1, <1>2 DEF TreeFacts
  <2>2. \A c \in Range(BlocksOf(j)) : disk'[c] = disk[c]
    <3>1. CASE j = i
      <4>1. BlocksOf(i) = <<>>
        BY <1>2, <1>3, <1>5, FreeRecord DEF BlockFacts, FreeRecordTyped
      <4> QED
        BY <3>1, <4>1, EmptySequence
    <3>2. CASE j # i
      <4>1. Range(BlocksOf(j)) \cap Range(BlocksOf(d)) = {}
        BY <1>3, <1>4, <1>6, <1>14, <3>2 DEF BlocksApart
      <4> QED
        BY <1>9, <1>10, <4>1
    <3> QED
      BY <3>1, <3>2
  <2> QED
    BY <1>2, <2>1, <2>2, RecordKept
<1>16. \A j \in Reachable \ {d} : SameChildren(j)
  BY <1>15, KeptChildren
<1>17. Reachable' = Reachable \ {i} /\ TreeLinked'
  <2>1. TreeLinked
    BY <1>2 DEF TreeSafe
  <2>2. /\ IsDir(i) => Children(i) = {}
        /\ IsDir(i)' => Children(i)' = {}
    BY <1>6
  <2>3. i = SlotAt(d, p).ino
    BY <1>4
  <2>4. \A j \in Reachable : inodes'[j] = inodes[j]
    BY <1>1
  <2>5. /\ Reachable' = Reachable \ {i}
        /\ Gone \subseteq {i} /\ (\A j \in Reachable : inodes'[j] = inodes[j]) => TreeLinked'
    BY <1>2, <1>4, <1>6, <1>11, <1>12, <1>16, <2>1, <2>2, <2>3, LeafRemoved
  <2> QED
    BY <1>3, <2>4, <2>5
<1>18. Gone' = {} /\ Whole' = Reachable \ {i}
  <2>1. Gone' = {}
    BY <1>8 DEF Gone, Removing
  <2> QED
    BY <1>17, <2>1 DEF Whole
<1>19. \A j \in Reachable \ {i} : BlocksOf(j)' = BlocksOf(j) /\ Intact(j)'
  <2>1. BlocksOf(d)' = BlocksOf(d) /\ Intact(d)'
    <3>1. inodes'[d].ind = 0 /\ inodes'[d].addr = inodes[d].addr
      BY <1>1, <1>9
    <3>2. BlockFacts'
      BY <1>12, BlocksTypedNext
    <3>3. BlocksOf(d)' = BlocksOf(d)
      BY <1>4, <1>9, <3>1, <3>2 DEF BlockFacts
    <3>4. Intact(d)'
      BY <1>6, <1>10, <3>1 DEF Intact
    <3> QED
      BY <3>3, <3>4
  <2>2. \A j \in Reachable \ {i, d} : BlocksOf(j)' = BlocksOf(j) /\ Intact(j)'
    BY <1>3, <1>15 DEF Kept
  <2> QED
    BY <2>1, <2>2
<1>20. TreeSafe'
  <2>1. \A j \in Whole' : Intact(j)'
    BY <1>18, <1>19
  <2>2. BlocksApart(Whole)'
    BY <1>3, <1>14, <1>18, <1>19 DEF BlocksApart
  <2>3. ApartFrom(sb, Whole)' /\ ApartFrom(sbDisk, Whole)'
    BY <1>1, <1>3, <1>13, <1>18, <1>19 DEF ApartFrom
  <2> QED
    BY <1>17, <2>1, <2>2, <2>3 DEF TreeSafe
<1>21. HandSafe'
  <2>1. InHand' = <<>> /\ Range(<<>>) = {} /\ Distinct(<<>>)
    BY <1>8, <1>12, HandTypedNext, EmptySequence DEF HandFacts
  <2> QED
    BY <2>1 DEF HandSafe
<1>22. RemoveSound'
  <2>1. CallersSound' /\ StackApart'
    BY <1>1, <1>6, <1>8, <1>11, <1>15, <1>17, <1>a, FramesLeft
  <2>2. (Top.rest)' = {}
    BY <1>3, <1>8 DEF Top
  <2>3. job'.stack # <<>>
    BY <1>1, <1>2, <1>8 DEF RemoveSound
  <2> QED
    BY <1>8, <2>1, <2>2, <2>3 DEF RemoveSound
<1>23. FreeingSound' /\ CreateSound'
  BY <1>8 DEF FreeingSound, CreateSound, Removing
<1>24. EntryRemoved
  <2>1. BeingFreed' = {}
    BY <1>8 DEF BeingFreed, Removing
  <2> QED
    BY <1>4, <1>6, <1>11, <1>16, <1>17, <1>a, <2>1 DEF EntryRemoved
<1> QED
  BY <1>12, <1>13, <1>20, <1>21, <1>22, <1>23, <1>24 DEF IInv

\* A program dies: what the image holds is safe, so that the tree is as sound
\* as its superblock says.
LEMMA CrashStep ==
    ASSUME IInv, Crash
    PROVE  IInv'
<1>1. /\ job # Idle /\ crashes < MaxCrashes /\ ImageSafe /\ job' = Idle /\ sb' = sbDisk
      /\ crashes' = crashes + 1 /\ UNCHANGED <<inodes, disk, sbDisk>>
  BY DEF Crash
<1>2. /\ Typed /\ Bounded /\ SuperSound(sb) /\ SuperSound(sbDisk) /\ TreeSafe
      /\ TreeFacts /\ BlockFacts /\ RemoveSound /\ FreeingSound
  BY TreeFactsHold, BlocksTyped DEF IInv
<1>3. /\ TreeSound /\ NothingShared(sbDisk, Reachable)
      /\ \A i \in Reachable : \A b \in Range(BlocksOf(i)) : Listed(disk[b]) = <<>>
  BY <1>1 DEF ImageSafe
<1>4. /\ \A i \in Reachable : Distinct(BlocksOf(i)) /\ Range(BlocksOf(i)) \cap Free(sbDisk) = {}
      /\ \A i, j \in Reachable : i # j => Range(BlocksOf(i)) \cap Range(BlocksOf(j)) = {}
      /\ \A i \in Reachable : i \notin Range(sbDisk.freeInode)
  BY <1>3 DEF NothingShared
<1>5. BlocksApart(Reachable) /\ ApartFrom(sbDisk, Reachable)
  BY <1>4 DEF BlocksApart, ApartFrom
<1>6. IsDir(InodeRoot)
  BY <1>2 DEF TreeSafe, TreeLinked
<1>7. \A e \in Entries : e[3] # InodeRoot /\ inodes[e[3]].mode # "free"
  BY <1>3 DEF TreeSound, Entries
<1>8. \A e, f \in Entries : e[3] = f[3] => e = f
  BY <1>3 DEF TreeSound, Entries
<1>9. ASSUME NEW i \in Gone
      PROVE  job.op = "remove" /\ job.pc = "blocks" /\ i = Top.ino /\ inodes[i].mode # "free"
  <2>1. job.op = "remove" /\ job.pc \in {"entry", "blocks"} /\ i = Top.ino
    BY <1>9 DEF Gone, Removing
  <2>2. /\ Linked(Top) /\ i \in Inodes
        /\ SlotNamed(Top.dir, Top.name) \in Children(Top.dir)
        /\ SlotAt(Top.dir, SlotNamed(Top.dir, Top.name)).ino = i
    BY <1>2, <2>1, LinkedChild DEF RemoveSound
  <2>3. inodes[i].mode # "free"
    <3> PICK d, p : d = Top.dir /\ p = SlotNamed(Top.dir, Top.name)
      OBVIOUS
    <3>1. <<d, p, SlotAt(d, p).ino>> \in Entries
      BY <2>2 DEF Entries, Linked
    <3> QED
      BY <1>7, <2>2, <3>1
  <2>4. job.pc # "entry"
    <3> SUFFICES ASSUME job.pc = "entry" PROVE FALSE
      OBVIOUS
    <3>1. inodes[i] = FreeInodeRecord
      BY <1>2, <2>1 DEF RemoveSound
    <3> QED
      BY <2>3, <3>1, FreeRecord DEF FreeRecordTyped
  <2> QED
    BY <2>1, <2>3, <2>4
<1>10. ASSUME NEW i \in Reachable PROVE Intact(i)
  <2>1. CASE i \notin Gone
    BY <1>2, <2>1 DEF TreeSafe, Whole
  <2>2. CASE i \in Gone
    <3>1. Intact(i) \/ \E b \in Range(BlocksOf(i)) \cap DataBlocks : Lists[b] # <<>>
      BY <1>2, <1>9, <2>2 DEF FreeingSound, Removing
    <3>2. \A b \in Range(BlocksOf(i)) \cap DataBlocks : Lists[b] = <<>>
      BY <1>3 DEF Lists
    <3> QED
      BY <3>1, <3>2
  <2> QED
    BY <2>1, <2>2
<1>11. Typed' /\ Bounded'
  <2>1. crashes' \in 0 .. MaxCrashes
    BY <1>1, <1>2, LayoutAssumption DEF Typed
  <2>2. Lists' = Lists
    BY <1>1 DEF Lists
  <2> QED
    BY <1>1, <1>2, <2>1, <2>2 DEF Typed, Bounded
<1>12. Lists' = Lists /\ Free(sb)' = Free(sbDisk) /\ Free(sbDisk)' = Free(sbDisk)
  BY <1>1 DEF Lists, Free
<1>13. SuperSound(sb)' /\ SuperSound(sbDisk)'
  BY <1>1, <1>2, <1>12 DEF SuperSound
<1>14. \A i \in Reachable : Kept(i)
  BY <1>1, <1>2, RecordKept DEF TreeFacts
<1>15. HandSafe' /\ CreateSound' /\ job'.op # "remove" /\ ~Creating("flush")'
  BY <1>1, IdleSoundNext
<1>16. Gone' = {} /\ Whole' = Reachable' /\ RemoveSound' /\ FreeingSound'
  BY <1>15, NothingGoneNext
<1>17. Reachable' = Reachable /\ TreeLinked'
  <2> DEFINE X == {}
  <2>1. X \in SUBSET (Inodes \ {InodeRoot}) /\ \A i \in Reachable \ X : SameChildren(i)
    BY <1>14, KeptChildren
  <2>2. \A i \in X : (IsDir(i) => Children(i) = {}) /\ (IsDir(i)' => Children(i)' = {})
    OBVIOUS
  <2>3. \A i \in Reachable : (i \in Gone \/ inodes[i].mode # "free") =>
                             (i \in Gone' \/ inodes'[i].mode # "free")
    BY <1>1, <1>9
  <2>4. TreeLinked
    BY <1>2 DEF TreeSafe
  <2> HIDE DEF X
  <2> QED
    BY <1>2, <1>11, <2>1, <2>2, <2>3, <2>4, TreeKept
<1>18. TreeSafe'
  <2>1. \A i \in Reachable : BlocksOf(i)' = BlocksOf(i) /\ Intact(i)'
    BY <1>10, <1>14 DEF Kept
  <2>2. (\A i \in Whole : Intact(i))' /\ BlocksApart(Whole)'
    BY <1>5, <1>16, <1>17, <2>1 DEF BlocksApart
  <2>3. ApartFrom(sb, Whole)' /\ ApartFrom(sbDisk, Whole)'
    BY <1>1, <1>5, <1>12, <1>16, <1>17, <2>1 DEF ApartFrom
  <2> QED
    BY <1>17, <2>2, <2>3 DEF TreeSafe
<1> QED
  BY <1>11, <1>13, <1>15, <1>16, <1>18 DEF IInv

\* A step that changes nothing.
LEMMA StutterStep ==
    ASSUME IInv, UNCHANGED vars
    PROVE  IInv'
<1>1. UNCHANGED <<inodes, disk, sb, sbDisk, job, crashes>>
  BY DEF vars
<1>2. Lists' = Lists /\ Free(sb)' = Free(sb) /\ Free(sbDisk)' = Free(sbDisk)
  BY <1>1 DEF Lists, Free
<1>3. /\ Reachable' = Reachable /\ Gone' = Gone /\ Whole' = Whole /\ Live' = Live
      /\ InHand' = InHand /\ Entries' = Entries
  <2>1. \A d \in Inodes : Children(d)' = Children(d) /\ IsDir(d)' = IsDir(d)
    BY <1>1 DEF Children, Positions, SlotAt, SlotBlock, IsDir
  <2> QED
    BY <1>1
       DEF Reachable, Links, Children, Positions, SlotAt, SlotBlock, IsDir, Gone, Whole, Live,
           BeingFreed, InHand, Entries, Removing, Creating, Top, BlocksOf
<1>4. \A i : /\ BlocksOf(i)' = BlocksOf(i) /\ Intact(i)' = Intact(i) /\ IsDir(i)' = IsDir(i)
             /\ Children(i)' = Children(i) /\ Parts(i)' = Parts(i)
  BY <1>1 DEF BlocksOf, Intact, IsDir, Children, Positions, SlotAt, SlotBlock, Parts, Data
<1>5. Typed' /\ Bounded'
  BY <1>1, <1>2 DEF IInv, Typed, Bounded
<1>6. SuperSound(sb)' /\ SuperSound(sbDisk)'
  BY <1>1, <1>2 DEF IInv, SuperSound
<1>7. TreeSafe'
  BY <1>1, <1>2, <1>3, <1>4 DEF IInv, TreeSafe, TreeLinked, BlocksApart, ApartFrom, Creating, IsDir
<1>8. HandSafe'
  BY <1>1, <1>2, <1>3, <1>4 DEF IInv, HandSafe
<1>9. CreateSound'
  BY <1>1, <1>2, <1>3, <1>4 DEF IInv, CreateSound, Filled, IsDir, NewSlot, DirectPart
<1>10. RemoveSound'
  <2>1. Typed /\ RemoveSound
    BY DEF IInv
  <2>2. Top' = Top
    BY <1>1 DEF Top
  <2>3. /\ \A f : Linked(f) => Linked(f)'
        /\ \A d \in Inodes : \A name : SlotNamed(d, name)' = SlotNamed(d, name)
    <3>1. \A f : Linked(f) => Linked(f)'
      BY <1>1, <1>3, <2>1, SameFrames
    <3>2. \A d \in Inodes : \A name : SlotNamed(d, name)' = SlotNamed(d, name)
      BY <1>1, <2>1, DirKept
    <3> QED
      BY <3>1, <3>2
  <2> SUFFICES ASSUME job.op = "remove" PROVE RemoveSound'
    BY <1>1 DEF RemoveSound
  <2>4. \A k \in 1 .. (Len(job.stack) - 1) : job.stack[k + 1].dir \in Inodes
    <3>1. /\ job.stack \in Seq(Frames) /\ Len(job.stack) \in Nat
          /\ DOMAIN job.stack = 1 .. Len(job.stack)
      BY StackFacts
    <3>2. \A k \in 1 .. (Len(job.stack) - 1) : k + 1 \in DOMAIN job.stack
      BY <3>1
    <3>3. \A k \in DOMAIN job.stack : job.stack[k] \in Frames
      BY <3>1
    <3> QED
      BY <3>2, <3>3 DEF Frames
  <2>5. CallersSound'
    BY <1>1, <1>4, <2>1, <2>3, <2>4 DEF RemoveSound, CallersSound
  <2>6. StackApart'
    BY <1>1, <2>1 DEF RemoveSound, StackApart
  <2> QED
    BY <1>1, <1>4, <2>1, <2>2, <2>3, <2>5, <2>6 DEF RemoveSound
<1>11. FreeingSound'
  BY <1>1, <1>2, <1>3, <1>4 DEF IInv, FreeingSound, Removing, Top
<1> QED
  BY <1>5, <1>6, <1>7, <1>8, <1>9, <1>10, <1>11 DEF IInv

\* Every operation the callers may begin, every step of one, a crash and a
\* new start keep the invariant.
LEMMA NextStep ==
    ASSUME DotNames = {}, IInv, [Next]_vars
    PROVE  IInv'
<1>1. CASE Creation
  <2>1. ASSUME NEW d \in Reachable, NEW name \in Names, NEW i \in Inodes, MkDir(d, name, i)
        PROVE  IInv'
    BY <2>1, BeginStep DEF MkDir
  <2>2. ASSUME NEW d \in Reachable, NEW name \in Names, NEW i \in Inodes, NEW n \in FileSizes,
               CreateFile(d, name, n, i)
        PROVE  IInv'
    <3>1. n \in Nat
      BY LayoutAssumption
    <3> QED
      BY <2>2, <3>1, BeginStep DEF CreateFile
  <2> QED
    BY <1>1, <2>1, <2>2, AllocDataBlockStep, AllocIndirectBlockStep, ExpandDirectoryStep,
       WriteDataBlockStep, WriteIndirectBlockStep, WriteInodeStep, AddEntryStep,
       WriteDirBlockStep, WriteDirInodeStep, FlushCreatedStep, FailCreateStep, LoadWordsStep,
       StutterStep
       DEF Creation, LoadTreeWords, LoadFileWords, StaysAstray
<1>2. CASE RemovalStep
  <2>1. ASSUME NEW d \in Reachable, IsDir(d), NEW name \in Names, Resolves(d, name),
               \/ RemoveFile(d, name)
               \/ RemoveDir(d, name)
               \/ RemoveAll(d, name)
        PROVE  IInv'
    <3>1. CASE RemoveFile(d, name)
      BY <2>1, <3>1, BeginRemovalStep DEF RemoveFile
    <3>2. CASE RemoveDir(d, name)
      BY <2>1, <3>2, BeginRemovalStep DEF RemoveDir
    <3>3. CASE RemoveAll(d, name)
      BY <2>1, <3>3, BeginRemovalStep DEF RemoveAll
    <3> QED
      BY <2>1, <3>1, <3>2, <3>3
  <2> QED
    BY <1>2, <2>1, RemoveChildStep, FreeBlockStep, FreeInodeStep, RemoveEntryStep,
       FlushRemovedStep DEF RemovalStep
<1>3. CASE Reopen
  BY <1>3, ReopenStep
<1>4. CASE Crash
  BY <1>4, CrashStep
<1>5. CASE UNCHANGED vars
  BY <1>5, StutterStep
<1> QED
  BY <1>1, <1>2, <1>3, <1>4, <1>5 DEF Next

-----------------------------------------------------------------------------
(* The free list Create writes.                                            *)

\* The blocks of chunk n are those from its first block on, as many as fit.
LEMMA ChunkEntries ==
    ASSUME NEW n \in Nat
    PROVE  /\ Chunk(n) \in Seq(DataBlocks) /\ Len(Chunk(n)) \in Nat
           /\ Len(Chunk(n)) <= MaxFreeBlock
           /\ DOMAIN Chunk(n) = 1 .. Len(Chunk(n))
           /\ \A k \in 1 .. MaxFreeBlock :
                 k \in DOMAIN Chunk(n) <=> DataBlockStart + n * MaxFreeBlock + k - 1 < VolumeSize
           /\ \A k \in DOMAIN Chunk(n) :
                 Chunk(n)[k] = DataBlockStart + n * MaxFreeBlock + k - 1
<1> DEFINE m == n * MaxFreeBlock
<1>1. MaxFreeBlock \in Nat /\ DataBlockStart \in Nat /\ VolumeSize \in Nat
  BY MaxFreeBlockAssumption, LayoutAssumption
<1>2. m \in Nat
  BY <1>1
<1> DEFINE len == IF DataBlockStart + m + MaxFreeBlock - 1 < VolumeSize THEN MaxFreeBlock
                  ELSE IF VolumeSize - (DataBlockStart + m) >= 0
                       THEN VolumeSize - (DataBlockStart + m) ELSE 0
<1> HIDE DEF m
<1>3. Chunk(n) = [k \in 1 .. len |-> DataBlockStart + m + k - 1]
  <2>1. 1 .. (VolumeSize - (DataBlockStart + m)) =
           IF VolumeSize - (DataBlockStart + m) >= 0
           THEN 1 .. (VolumeSize - (DataBlockStart + m)) ELSE 1 .. 0
    BY <1>1, <1>2
  <2> QED
    BY <1>1, <1>2, <2>1 DEF Chunk, m
<1>4. len \in Nat /\ len <= MaxFreeBlock
  BY <1>1, <1>2
<1>5. \A k \in 1 .. MaxFreeBlock : k \in 1 .. len <=> DataBlockStart + m + k - 1 < VolumeSize
  BY <1>1, <1>2
<1>6. \A k \in 1 .. len : DataBlockStart + m + k - 1 \in DataBlocks
  BY <1>1, <1>2 DEF DataBlocks
<1> HIDE DEF len
<1>7. Chunk(n) \in Seq(DataBlocks) /\ Len(Chunk(n)) = len /\ DOMAIN Chunk(n) = 1 .. len
  BY <1>3, <1>4, <1>6
<1>8. \A k \in DOMAIN Chunk(n) : Chunk(n)[k] = DataBlockStart + m + k - 1
  BY <1>3
<1> QED
  BY <1>4, <1>5, <1>7, <1>8 DEF m

\* Every data block is in one chunk, at one place.
LEMMA ChunkOf ==
    ASSUME NEW b \in DataBlocks
    PROVE  \E n \in Nat : /\ n = (b - DataBlockStart) \div MaxFreeBlock
                          /\ \E k \in DOMAIN Chunk(n) : b = Chunk(n)[k]
<1> DEFINE x == b - DataBlockStart
           q == x \div MaxFreeBlock
           r == x % MaxFreeBlock
<1>1. /\ MaxFreeBlock \in Nat /\ MaxFreeBlock > 0 /\ DataBlockStart \in Nat /\ VolumeSize \in Nat
      /\ x \in Nat /\ b \in Nat /\ b < VolumeSize
  BY MaxFreeBlockAssumption, LayoutAssumption DEF DataBlocks
<1> HIDE DEF x
<1>2. q \in Int /\ r \in 0 .. (MaxFreeBlock - 1) /\ x = MaxFreeBlock * q + r
  BY <1>1
<1> HIDE DEF q, r
<1>3. q >= 0
  <2> SUFFICES ASSUME q <= 0 - 1 PROVE FALSE
    BY <1>2
  <2>1. MaxFreeBlock * q <= MaxFreeBlock * (0 - 1)
    BY <1>1, <1>2
  <2> QED
    BY <1>1, <1>2, <2>1
<1>4. q \in Nat /\ r + 1 \in 1 .. MaxFreeBlock
  BY <1>1, <1>2, <1>3
<1>5. q * MaxFreeBlock = MaxFreeBlock * q /\ q * MaxFreeBlock \in Nat
  BY <1>1, <1>4
<1>6. b = DataBlockStart + q * MaxFreeBlock + (r + 1) - 1
  BY <1>1, <1>2, <1>4, <1>5 DEF x
<1>7. r + 1 \in DOMAIN Chunk(q) /\ b = Chunk(q)[r + 1]
  BY <1>1, <1>4, <1>6, ChunkEntries
<1> QED
  BY <1>4, <1>7 DEF q, x

LEMMA ChunkNumber ==
    ASSUME NEW n \in Nat, NEW k \in DOMAIN Chunk(n)
    PROVE  (Chunk(n)[k] - DataBlockStart) \div MaxFreeBlock = n
<1> DEFINE x == n * MaxFreeBlock + k - 1
           q == x \div MaxFreeBlock
           r == x % MaxFreeBlock
<1>1. /\ MaxFreeBlock \in Nat /\ MaxFreeBlock > 0 /\ DataBlockStart \in Nat
  BY MaxFreeBlockAssumption, LayoutAssumption
<1>2. k \in 1 .. MaxFreeBlock /\ Chunk(n)[k] = DataBlockStart + n * MaxFreeBlock + k - 1
  <2>1. /\ DOMAIN Chunk(n) = 1 .. Len(Chunk(n)) /\ Len(Chunk(n)) \in Nat
        /\ Len(Chunk(n)) <= MaxFreeBlock
        /\ \A j \in DOMAIN Chunk(n) : Chunk(n)[j] = DataBlockStart + n * MaxFreeBlock + j - 1
    BY ChunkEntries
  <2>2. k \in 1 .. MaxFreeBlock
    BY <1>1, <2>1
  <2> QED
    BY <2>1, <2>2
<1>3. n * MaxFreeBlock \in Nat /\ n * MaxFreeBlock = MaxFreeBlock * n
  BY <1>1
<1>4. x \in Nat /\ x = MaxFreeBlock * n + (k - 1)
  BY <1>1, <1>2, <1>3
<1>5. Chunk(n)[k] - DataBlockStart = x
  BY <1>1, <1>2, <1>3
<1> HIDE DEF x
<1>6. q \in Int /\ r \in 0 .. (MaxFreeBlock - 1) /\ x = MaxFreeBlock * q + r
  BY <1>1, <1>4
<1> HIDE DEF q, r
<1>7. q <= n
  <2> SUFFICES ASSUME q >= n + 1 PROVE FALSE
    BY <1>6
  <2>1. MaxFreeBlock * q >= MaxFreeBlock * (n + 1)
    BY <1>1, <1>6
  <2>2. MaxFreeBlock * (n + 1) = MaxFreeBlock * n + MaxFreeBlock
    BY <1>1
  <2> QED
    BY <1>1, <1>2, <1>3, <1>4, <1>6, <2>1, <2>2
<1>8. q >= n
  <2> SUFFICES ASSUME q <= n - 1 PROVE FALSE
    BY <1>6
  <2>1. MaxFreeBlock * q <= MaxFreeBlock * (n - 1)
    BY <1>1, <1>6
  <2>2. MaxFreeBlock * (n - 1) = MaxFreeBlock * n - MaxFreeBlock
    BY <1>1
  <2> QED
    BY <1>1, <1>2, <1>3, <1>4, <1>6, <2>1, <2>2
<1>9. q = n
  BY <1>6, <1>7, <1>8
<1> QED
  BY <1>5, <1>9 DEF q

LEMMA ChunksApart ==
    /\ \A n \in Nat : Distinct(Chunk(n))
    /\ \A n, m \in Nat : n # m => Range(Chunk(n)) \cap Range(Chunk(m)) = {}
<1>1. ASSUME NEW n \in Nat PROVE Distinct(Chunk(n))
  <2>1. n * MaxFreeBlock \in Nat /\ MaxFreeBlock \in Nat /\ DataBlockStart \in Nat
    BY MaxFreeBlockAssumption, LayoutAssumption
  <2>2. /\ DOMAIN Chunk(n) = 1 .. Len(Chunk(n)) /\ Len(Chunk(n)) \in Nat
        /\ \A k \in DOMAIN Chunk(n) : Chunk(n)[k] = DataBlockStart + n * MaxFreeBlock + k - 1
    BY ChunkEntries
  <2> QED
    BY <2>1, <2>2 DEF Distinct
<1>2. ASSUME NEW n \in Nat, NEW m \in Nat, NEW b \in Range(Chunk(n)) \cap Range(Chunk(m))
      PROVE  n = m
  <2>1. PICK k \in DOMAIN Chunk(n) : b = Chunk(n)[k]
    BY DEF Range
  <2>2. PICK l \in DOMAIN Chunk(m) : b = Chunk(m)[l]
    BY DEF Range
  <2> QED
    BY <2>1, <2>2, ChunkNumber
<1> QED
  BY <1>1, <1>2

\* A chunk of one block is the last.
LEMMA LastChunk ==
    ASSUME NEW n \in Nat, Len(Chunk(n)) = 1
    PROVE  Chunk(n + 1) = <<>>
<1> DEFINE m == n * MaxFreeBlock
<1>1. MaxFreeBlock \in Nat /\ MaxFreeBlock >= 2 /\ DataBlockStart \in Nat /\ VolumeSize \in Nat
  BY MaxFreeBlockAssumption, LayoutAssumption
<1>2. m \in Nat /\ (n + 1) * MaxFreeBlock = m + MaxFreeBlock /\ n + 1 \in Nat
  BY <1>1
<1>3. /\ DOMAIN Chunk(n) = 1 .. Len(Chunk(n))
      /\ \A k \in 1 .. MaxFreeBlock : k \in DOMAIN Chunk(n) <=> DataBlockStart + m + k - 1 < VolumeSize
  BY ChunkEntries
<1>4. 2 \notin DOMAIN Chunk(n) /\ 2 \in 1 .. MaxFreeBlock
  BY <1>1, <1>3
<1>5. /\ Chunk(n + 1) \in Seq(DataBlocks)
      /\ DOMAIN Chunk(n + 1) = 1 .. Len(Chunk(n + 1)) /\ Len(Chunk(n + 1)) \in Nat
      /\ Len(Chunk(n + 1)) <= MaxFreeBlock
      /\ \A k \in 1 .. MaxFreeBlock :
            k \in DOMAIN Chunk(n + 1) <=> DataBlockStart + (n + 1) * MaxFreeBlock + k - 1 < VolumeSize
  BY <1>2, ChunkEntries
<1>6. DataBlockStart + m + 1 >= VolumeSize
  <2>1. m \in Nat
    BY <1>2
  <2>2. ~(DataBlockStart + m + 2 - 1 < VolumeSize)
    BY <1>3, <1>4
  <2> HIDE DEF m
  <2> QED
    BY <1>1, <2>1, <2>2
<1> HIDE DEF m
<1>7. ~(DataBlockStart + (m + MaxFreeBlock) + 1 - 1 < VolumeSize) /\ 1 \in 1 .. MaxFreeBlock
  BY <1>1, <1>2, <1>6
<1>8. 1 \notin DOMAIN Chunk(n + 1)
  BY <1>2, <1>5, <1>7
<1> QED
  BY <1>5, <1>8

\* Chunk 0 has the root directory in its last block.
LEMMA FirstChunk ==
    /\ Chunk(0) # <<>>
    /\ RootBlock \in DataBlocks /\ RootBlock \in Range(Chunk(0))
    /\ Front(Chunk(0)) \in Seq(DataBlocks) /\ Distinct(Front(Chunk(0)))
    /\ Len(Front(Chunk(0))) <= MaxFreeBlock
    /\ Range(Front(Chunk(0))) = Range(Chunk(0)) \ {RootBlock}
    /\ \A k \in DOMAIN Front(Chunk(0)) : k \in DOMAIN Chunk(0) /\ Front(Chunk(0))[k] = Chunk(0)[k]
    /\ RootBlock = Chunk(0)[1] => Chunk(1) = <<>>
<1>1. MaxFreeBlock \in Nat /\ MaxFreeBlock >= 2 /\ DataBlockStart \in Nat /\ VolumeSize \in Nat
      /\ DataBlockStart < VolumeSize
  BY MaxFreeBlockAssumption, LayoutAssumption
<1> DEFINE s == Chunk(0)
<1>2. /\ s \in Seq(DataBlocks) /\ Len(s) \in Nat /\ Len(s) <= MaxFreeBlock /\ DOMAIN s = 1 .. Len(s)
      /\ \A k \in 1 .. MaxFreeBlock : k \in DOMAIN s <=> DataBlockStart + 0 * MaxFreeBlock + k - 1 < VolumeSize
  BY ChunkEntries
<1>3. 0 * MaxFreeBlock = 0
  BY <1>1
<1>4. 1 \in DOMAIN s
  BY <1>1, <1>2, <1>3
<1>5. Len(s) >= 1 /\ s # <<>>
  BY <1>2, <1>4
<1>6. Distinct(s) /\ (Len(s) = 1 => Chunk(1) = <<>>)
  <2>1. Len(s) = 1 => Chunk(0 + 1) = <<>>
    BY LastChunk
  <2>2. Distinct(s)
    BY ChunksApart
  <2> QED
    BY <2>1, <2>2
<1> HIDE DEF s
<1>7. /\ Front(s) \in Seq(DataBlocks) /\ Len(Front(s)) = Len(s) - 1
      /\ DOMAIN Front(s) = 1 .. (Len(s) - 1)
      /\ \A i \in 1 .. (Len(s) - 1) : Front(s)[i] = s[i]
      /\ Last(s) = s[Len(s)] /\ Last(s) \in DataBlocks
  BY <1>2, <1>5, FrontEntries
<1>8. Distinct(Front(s)) /\ Range(Front(s)) = Range(s) \ {Last(s)} /\ Last(s) \in Range(s)
  BY <1>2, <1>5, <1>6, FrontDistinct
<1>9. RootBlock = Last(s)
  BY DEF RootBlock, s
<1>10. Last(s) = s[1] => Chunk(1) = <<>>
  <2>1. Len(s) \in DOMAIN s /\ 1 \in DOMAIN s
    BY <1>2, <1>4, <1>5
  <2>2. s[Len(s)] = s[1] => Len(s) = 1
    BY <1>6, <2>1 DEF Distinct
  <2> QED
    BY <1>6, <1>7, <2>2
<1>11. Len(Front(s)) <= MaxFreeBlock /\ \A k \in DOMAIN Front(s) : k \in DOMAIN s /\ Front(s)[k] = s[k]
  BY <1>1, <1>2, <1>5, <1>7
<1> QED
  BY <1>5, <1>7, <1>8, <1>9, <1>10, <1>11 DEF s

\* What the blocks hold when the image is new.
LEMMA InitLists ==
    ASSUME Init
    PROVE  /\ disk \in [DataBlocks -> Sectors]
           /\ disk[RootBlock] = DirBlock(<<Slot(InodeRoot, "."), Slot(InodeRoot, "..")>>)
           /\ Lists \in ListTable
           /\ \A b \in DataBlocks : Len(Lists[b]) <= MaxFreeBlock
           /\ \A n \in Nat : \A k \in DOMAIN Chunk(n) :
                 Lists[Chunk(n)[k]] = IF k = 1 THEN Chunk(n + 1) ELSE <<>>
<1> DEFINE root == DirBlock(<<Slot(InodeRoot, "."), Slot(InodeRoot, "..")>>)
           Leads(b, n) == b = Chunk(n)[1] /\ Chunk(n + 1) # <<>>
<1>1. root \in Sectors /\ Listed(root) = <<>>
  <2> DEFINE first == <<Slot(InodeRoot, "."), Slot(InodeRoot, "..")>>
  <2>1. InodeRoot \in Inodes
    BY LayoutAssumption DEF InodeRoot, Inodes
  <2>2. first \in [1 .. 2 -> Slots]
    <3>1. Slot(InodeRoot, ".") \in Slots /\ Slot(InodeRoot, "..") \in Slots
      BY <2>1 DEF Slot, Slots, SlotNames
    <3> QED
      BY <3>1
  <2> HIDE DEF first
  <2>3. DirBlock(first) \in Sectors /\ Listed(DirBlock(first)) = <<>>
    BY <2>2, DirBlockTyped
  <2> QED
    BY <2>3 DEF first
<1>2. \A n \in Nat : /\ Chunk(n) \in Seq(DataBlocks) /\ DOMAIN Chunk(n) = 1 .. Len(Chunk(n))
                     /\ Len(Chunk(n)) \in Nat /\ Len(Chunk(n)) <= MaxFreeBlock
  BY ChunkEntries
<1>3. \A n \in Nat : Chain(Chunk(n)) \in Sectors /\ Listed(Chain(Chunk(n))) = Chunk(n)
  BY <1>2 DEF Chain, Sectors, Listed
<1>4. Zero \in Sectors /\ Listed(Zero) = <<>>
  BY DEF Zero, Sectors, Listed
<1> HIDE DEF root
<1>5. ASSUME NEW b \in DataBlocks, NEW n \in Nat, n = (b - DataBlockStart) \div MaxFreeBlock
      PROVE  disk[b] = IF b = RootBlock THEN root
                       ELSE IF Leads(b, n) THEN Chain(Chunk(n + 1)) ELSE Zero
  BY <1>5 DEF Init, root
<1>6. ASSUME NEW n \in Nat, NEW k \in DOMAIN Chunk(n), NEW b, b = Chunk(n)[k]
      PROVE  /\ b \in DataBlocks /\ disk[b] \in Sectors
             /\ Lists[b] = IF k = 1 THEN Chunk(n + 1) ELSE <<>>
  <2>1. b \in DataBlocks /\ n = (b - DataBlockStart) \div MaxFreeBlock
    BY <1>2, <1>6, ChunkNumber
  <2>2. disk[b] = IF b = RootBlock THEN root
                  ELSE IF Leads(b, n) THEN Chain(Chunk(n + 1)) ELSE Zero
    BY <1>5, <2>1
  <2>3. n + 1 \in Nat
    OBVIOUS
  <2>4. Lists[b] = Listed(disk[b])
    BY <2>1 DEF Lists
  <2>5. 1 \in DOMAIN Chunk(n) /\ (k = 1 <=> b = Chunk(n)[1])
    <3>1. 1 \in DOMAIN Chunk(n)
      BY <1>2
    <3>2. Distinct(Chunk(n))
      BY ChunksApart
    <3> QED
      BY <1>6, <3>1, <3>2 DEF Distinct
  <2>6. CASE b = RootBlock
    <3>1. n = 0
      <4>1. RootBlock \in Range(Chunk(0)) /\ b \in Range(Chunk(n))
        BY <1>6, FirstChunk DEF Range
      <4> QED
        BY <2>6, <4>1, ChunksApart
    <3>2. k = 1 => Chunk(n + 1) = <<>>
      BY <2>5, <2>6, <3>1, FirstChunk
    <3> QED
      BY <1>1, <2>1, <2>2, <2>4, <2>6, <3>2
  <2>7. CASE b # RootBlock /\ Leads(b, n)
    BY <1>3, <2>1, <2>2, <2>3, <2>4, <2>5, <2>7
  <2>8. CASE b # RootBlock /\ ~Leads(b, n)
    BY <1>4, <2>1, <2>2, <2>4, <2>5, <2>8
  <2> QED
    BY <2>6, <2>7, <2>8
<1>7. \A b \in DataBlocks : \E n \in Nat : \E k \in DOMAIN Chunk(n) : b = Chunk(n)[k]
  BY ChunkOf
<1>8. \A b \in DataBlocks : /\ disk[b] \in Sectors
                            /\ Lists[b] \in Seq(DataBlocks) /\ Len(Lists[b]) <= MaxFreeBlock
  <2>1. ASSUME NEW b \in DataBlocks
        PROVE  disk[b] \in Sectors /\ Lists[b] \in Seq(DataBlocks) /\ Len(Lists[b]) <= MaxFreeBlock
    <3>1. PICK n, m, k : n \in Nat /\ m \in Nat /\ m = n + 1 /\ k \in DOMAIN Chunk(n) /\ b = Chunk(n)[k]
      BY <1>7
    <3>2. disk[b] \in Sectors /\ Lists[b] = IF k = 1 THEN Chunk(m) ELSE <<>>
      BY <1>6, <3>1
    <3>3. <<>> \in Seq(DataBlocks) /\ Len(<<>>) <= MaxFreeBlock
      BY MaxFreeBlockAssumption
    <3> QED
      BY <1>2, <3>1, <3>2, <3>3
  <2> QED
    BY <2>1
<1>9. disk = [b \in DataBlocks |-> disk[b]] /\ Lists = [b \in DataBlocks |-> Lists[b]]
  BY DEF Init, Lists
<1>10. disk \in [DataBlocks -> Sectors] /\ Lists \in ListTable
  BY <1>8, <1>9 DEF ListTable
<1>11. disk[RootBlock] = root
  <2>1. PICK n \in Nat : n = (RootBlock - DataBlockStart) \div MaxFreeBlock
    BY FirstChunk, ChunkOf
  <2> QED
    BY <1>5, <2>1, FirstChunk
<1> QED
  BY <1>6, <1>8, <1>10, <1>11 DEF root

\* The list Create writes is sound: each chunk leads to the next.
LEMMA InitFree ==
    ASSUME Init
    PROVE  /\ ListsSound(sb.freeBlock, Lists)
           /\ Free(sb) \subseteq DataBlocks \ {RootBlock}
           /\ Cardinality(Free(sb)) <= sb.totalFreeBlock
           /\ sb.freeBlock \in Seq(DataBlocks) /\ Len(sb.freeBlock) <= MaxFreeBlock
           /\ sb.totalFreeBlock \in Nat
<1> PICK cache, lists : cache = sb.freeBlock /\ lists = Lists
  OBVIOUS
<1>1. cache = Front(Chunk(0)) /\ sb.totalFreeBlock = VolumeSize - DataBlockStart - 1
  BY DEF Init
<1>2. /\ lists \in ListTable
      /\ \A n \in Nat : \A k \in DOMAIN Chunk(n) :
            lists[Chunk(n)[k]] = IF k = 1 THEN Chunk(n + 1) ELSE <<>>
  BY InitLists
<1>3. /\ cache \in Seq(DataBlocks) /\ Distinct(cache) /\ Len(cache) <= MaxFreeBlock
      /\ Range(cache) = Range(Chunk(0)) \ {RootBlock}
      /\ \A k \in DOMAIN cache : k \in DOMAIN Chunk(0) /\ cache[k] = Chunk(0)[k]
      /\ RootBlock \in DataBlocks /\ RootBlock \in Range(Chunk(0))
  BY <1>1, FirstChunk
<1> DEFINE C == ChainBlocks(cache, lists)
<1>4. ASSUME NEW b \in C
      PROVE  \E n \in Nat, m \in Nat : /\ m = n + 1 /\ m # 0 /\ lists[b] = Chunk(m)
                                       /\ 1 \in DOMAIN Chunk(n) /\ b = Chunk(n)[1]
  <2>1. b \in DataBlocks /\ lists[b] # <<>>
    BY <1>2, <1>3, ChainFollowed
  <2>2. PICK n, m, k : n \in Nat /\ m \in Nat /\ m = n + 1 /\ k \in DOMAIN Chunk(n) /\ b = Chunk(n)[k]
    BY <2>1, ChunkOf
  <2>3. lists[b] = IF k = 1 THEN Chunk(m) ELSE <<>>
    BY <1>2, <2>2
  <2> QED
    BY <2>1, <2>2, <2>3
<1>5. ASSUME NEW n \in Nat
      PROVE  FirstLeads(Chunk(n), lists) /\ Longer(Chunk(n), lists)
  <2>1. DOMAIN Chunk(n) = 1 .. Len(Chunk(n)) /\ Len(Chunk(n)) \in Nat
    BY ChunkEntries
  <2>2. FirstLeads(Chunk(n), lists)
    BY <1>2, <2>1 DEF FirstLeads
  <2>3. Longer(Chunk(n), lists)
    BY <1>2, <2>1, LastChunk DEF Longer
  <2> QED
    BY <2>2, <2>3
<1> HIDE DEF C
<1>6. FirstLeads(cache, lists)
  <2>1. DOMAIN cache = 1 .. Len(cache) /\ Len(cache) \in Nat
    BY <1>3
  <2>2. \A k \in DOMAIN Chunk(0) : k # 1 => lists[Chunk(0)[k]] = <<>>
    BY <1>2
  <2> QED
    BY <1>3, <2>1, <2>2 DEF FirstLeads
<1>7. \A b \in C : /\ Distinct(lists[b]) /\ Range(lists[b]) \cap Range(cache) = {}
                   /\ Range(lists[b]) \subseteq DataBlocks \ {RootBlock}
                   /\ FirstLeads(lists[b], lists) /\ Longer(lists[b], lists)
  <2> TAKE b \in C
  <2>1. PICK n \in Nat, m \in Nat : m # 0 /\ lists[b] = Chunk(m)
    BY <1>4
  <2>2. Distinct(Chunk(m)) /\ Range(Chunk(m)) \cap Range(Chunk(0)) = {}
    BY <2>1, ChunksApart
  <2>3. Range(Chunk(m)) \subseteq DataBlocks
    <3>1. Chunk(m) \in Seq(DataBlocks)
      BY ChunkEntries
    <3> QED
      BY <3>1 DEF Range
  <2> QED
    BY <1>3, <1>5, <2>1, <2>2, <2>3
<1>8. \A b, c \in C : b # c => Range(lists[b]) \cap Range(lists[c]) = {}
  <2> TAKE b, c \in C
  <2>1. PICK n \in Nat, m \in Nat : m = n + 1 /\ lists[b] = Chunk(m) /\ b = Chunk(n)[1]
    BY <1>4
  <2>2. PICK k \in Nat, l \in Nat : l = k + 1 /\ lists[c] = Chunk(l) /\ c = Chunk(k)[1]
    BY <1>4
  <2> HAVE b # c
  <2>3. m # l
    BY <2>1, <2>2
  <2> QED
    BY <2>1, <2>2, <2>3, ChunksApart
<1>9. ListsSound(cache, lists)
  BY <1>3, <1>6, <1>7, <1>8 DEF ListsSound, ListedOnce, C
<1>10. FreeBlocks(cache, lists) \subseteq DataBlocks \ {RootBlock}
  <2>1. Range(cache) \subseteq DataBlocks \ {RootBlock}
    BY <1>3 DEF Range
  <2> QED
    BY <1>7, <2>1 DEF FreeBlocks, C
<1>11. /\ VolumeSize - DataBlockStart - 1 \in Nat
       /\ Cardinality(FreeBlocks(cache, lists)) <= VolumeSize - DataBlockStart - 1
  <2>1. DataBlockStart \in Nat /\ VolumeSize \in Nat /\ DataBlockStart < VolumeSize
    BY MaxFreeBlockAssumption, LayoutAssumption
  <2>2. IsFiniteSet(DataBlocks) /\ Cardinality(DataBlocks) = VolumeSize - DataBlockStart
    BY <2>1, FS_Interval DEF DataBlocks
  <2>3. /\ IsFiniteSet(DataBlocks \ {RootBlock})
        /\ Cardinality(DataBlocks \ {RootBlock}) = VolumeSize - DataBlockStart - 1
    BY <1>3, <2>1, <2>2, FS_RemoveElement
  <2>4. Cardinality(FreeBlocks(cache, lists)) <= Cardinality(DataBlocks \ {RootBlock})
    BY <1>10, <2>3, FS_Subset
  <2> QED
    BY <2>1, <2>3, <2>4
<1>12. Free(sb) = FreeBlocks(cache, lists)
  BY DEF Free
<1> QED
  BY <1>1, <1>3, <1>9, <1>10, <1>11, <1>12

LEMMA InitTyped ==
    ASSUME Init
    PROVE  /\ Typed /\ Bounded /\ Distinct(sb.freeInode)
           /\ \A i \in Inodes \ {InodeRoot} : inodes[i].mode = "free"
           /\ IsDir(InodeRoot) /\ inodes[InodeRoot].addr = <<RootBlock>> /\ inodes[InodeRoot].ind = 0
           /\ InodeRoot \notin Range(sb.freeInode)
<1>1. /\ InodeRoot \in Nat /\ InodeRoot \in Inodes /\ InodeRoot # 0
      /\ MaxFreeInode \in Nat /\ LastInode \in Nat /\ LastInode - InodeRoot \in Nat
      /\ NAddrDirect \in Nat /\ NAddrDirect >= 1 /\ MaxCrashes \in Nat
  BY LayoutAssumption DEF InodeRoot, Inodes
<1> DEFINE m == IF LastInode - InodeRoot < MaxFreeInode THEN LastInode - InodeRoot ELSE MaxFreeInode
<1>2. m \in Nat /\ m <= MaxFreeInode /\ m <= LastInode - InodeRoot
  BY <1>1
<1>3. sb.freeInode = [k \in 1 .. m |-> InodeRoot + k] /\ sbDisk = sb
  BY DEF Init
<1> HIDE DEF m
<1>4. \A k \in 1 .. m : InodeRoot + k \in Inodes /\ InodeRoot + k # InodeRoot
  BY <1>1, <1>2 DEF Inodes
<1>5. /\ sb.freeInode \in Seq(Inodes) /\ Len(sb.freeInode) <= MaxFreeInode
      /\ Distinct(sb.freeInode) /\ InodeRoot \notin Range(sb.freeInode)
  <2>1. sb.freeInode \in Seq(Inodes) /\ Len(sb.freeInode) = m
    BY <1>2, <1>3, <1>4
  <2>2. Distinct(sb.freeInode)
    BY <1>1, <1>2, <1>3 DEF Distinct
  <2>3. InodeRoot \notin Range(sb.freeInode)
    BY <1>3, <1>4 DEF Range
  <2> QED
    BY <1>2, <2>1, <2>2, <2>3
<1>6. sb \in SuperBlocks
  <2>1. sb.freeBlock \in Seq(DataBlocks) /\ sb.totalFreeBlock \in Nat
    BY InitFree
  <2>2. sb = [freeBlock |-> sb.freeBlock, totalFreeBlock |-> sb.totalFreeBlock,
              freeInode |-> sb.freeInode]
    BY DEF Init
  <2> QED
    BY <1>5, <2>1, <2>2 DEF SuperBlocks
<1>7. <<RootBlock>> \in Seq(DataBlocks) /\ Len(<<RootBlock>>) = 1
  BY FirstChunk, Singleton
<1>8. FreeInodeRecord \in InodeRecords /\ FreeInodeRecord.mode = "free" /\ Len(FreeInodeRecord.addr) = 0
  <2>1. <<>> \in Seq(DataBlocks) /\ Len(<<>>) = 0
    OBVIOUS
  <2> QED
    BY <2>1 DEF FreeInodeRecord, InodeRecords
<1> DEFINE root == [mode |-> "dir", nlink |-> 2, addr |-> <<RootBlock>>, ind |-> 0]
<1>9. root \in InodeRecords /\ root.mode = "dir" /\ root.addr = <<RootBlock>> /\ root.ind = 0
  BY <1>7 DEF InodeRecords
<1>10. inodes = [i \in Inodes |-> IF i = InodeRoot THEN root ELSE FreeInodeRecord]
  BY DEF Init
<1> HIDE DEF root
<1>11. /\ inodes \in [Inodes -> InodeRecords]
       /\ inodes[InodeRoot] = root /\ \A i \in Inodes \ {InodeRoot} : inodes[i] = FreeInodeRecord
  BY <1>1, <1>8, <1>9, <1>10
<1>12. disk \in [DataBlocks -> Sectors] /\ \A b \in DataBlocks : Len(Lists[b]) <= MaxFreeBlock
  BY InitLists
<1>13. Typed
  <2>1. job = Idle /\ crashes \in 0 .. MaxCrashes /\ sbDisk \in SuperBlocks
    BY <1>1, <1>3, <1>6 DEF Init
  <2> QED
    BY <1>6, <1>11, <1>12, <2>1 DEF Typed
<1>14. \A i \in Inodes : Len(inodes[i].addr) <= NAddrDirect
  <2>1. \A i \in Inodes : inodes[i] = root \/ inodes[i] = FreeInodeRecord
    BY <1>11
  <2>2. Len(root.addr) <= NAddrDirect
    BY <1>1, <1>7, <1>9
  <2>3. Len(FreeInodeRecord.addr) <= NAddrDirect
    BY <1>1, <1>8
  <2> QED
    BY <2>1, <2>2, <2>3
<1>15. Bounded
  BY <1>3, <1>5, <1>12, <1>14, InitFree DEF Bounded, ListsShort
<1> QED
  BY <1>5, <1>8, <1>9, <1>11, <1>13, <1>15 DEF IsDir

\* The root directory is empty and nothing else is in the tree.
LEMMA InitTree ==
    ASSUME Init
    PROVE  Reachable = {InodeRoot} /\ Children(InodeRoot) = {}
<1>1. /\ Typed /\ IsDir(InodeRoot) /\ inodes[InodeRoot].addr = <<RootBlock>>
      /\ \A i \in Inodes \ {InodeRoot} : inodes[i].mode = "free"
  BY InitTyped
<1>2. InodeRoot \in Inodes /\ DirSlots \in Nat
  BY LayoutAssumption DEF InodeRoot, Inodes
<1> DEFINE first == <<Slot(InodeRoot, "."), Slot(InodeRoot, "..")>>
<1>3. /\ first \in [1 .. 2 -> Slots]
      /\ \A k \in 1 .. 2 : first[k].name \in {".", ".."}
  <2>1. Slot(InodeRoot, ".") \in Slots /\ Slot(InodeRoot, "..") \in Slots
    BY <1>2 DEF Slot, Slots, SlotNames
  <2>2. Slot(InodeRoot, ".").name = "." /\ Slot(InodeRoot, "..").name = ".."
    BY DEF Slot
  <2> QED
    BY <2>1, <2>2
<1>4. disk[RootBlock] = DirBlock(first)
  BY InitLists
<1> HIDE DEF first
<1>5. /\ DirBlock(first).tag = "dir"
      /\ \A k \in 1 .. DirSlots :
            DirBlock(first).list[k] = IF k \in 1 .. 2 THEN first[k] ELSE EmptySlot
  BY <1>3, DirBlockTyped
<1>6. EmptySlot.ino = 0
  BY DEF EmptySlot, Slot
<1>7. \A p \in Positions(InodeRoot) :
         SlotAt(InodeRoot, p).ino = 0 \/ SlotAt(InodeRoot, p).name \in {".", ".."}
  <2> TAKE p \in Positions(InodeRoot)
  <2>1. SlotBlock(InodeRoot, p) \in Range(inodes[InodeRoot].addr) /\ SlotIndex(p) \in 1 .. DirSlots
    BY <1>1, <1>2, SlotTyped
  <2>2. SlotBlock(InodeRoot, p) = RootBlock
    BY <1>1, <2>1, FirstChunk, Singleton
  <2>3. SlotAt(InodeRoot, p) = DirBlock(first).list[SlotIndex(p)]
    BY <1>4, <1>5, <2>2 DEF SlotAt
  <2> QED
    BY <1>3, <1>5, <1>6, <2>1, <2>3
<1>8. Children(InodeRoot) = {}
  BY <1>7 DEF Children
<1>9. \A l \in Links : l[1] \in Inodes /\ IsDir(l[1]) /\ \E p : p \in Children(l[1])
  BY <1>1, TreeBasics DEF LinkSet
<1>10. \A l \in Links : FALSE
  BY <1>1, <1>8, <1>9 DEF IsDir
<1>11. Reached(Links) \subseteq {InodeRoot}
  BY <1>2, <1>10, ReachedLeast
<1> QED
  BY <1>1, <1>8, <1>11, TreeBasics

\* The image Create writes satisfies the invariant.
LEMMA InitSound ==
    ASSUME Init
    PROVE  IInv
<1>1. /\ Typed /\ Bounded /\ Distinct(sb.freeInode)
      /\ IsDir(InodeRoot) /\ inodes[InodeRoot].addr = <<RootBlock>> /\ inodes[InodeRoot].ind = 0
      /\ InodeRoot \notin Range(sb.freeInode)
  BY InitTyped
<1>2. /\ ListsSound(sb.freeBlock, Lists) /\ Cardinality(Free(sb)) <= sb.totalFreeBlock
      /\ Free(sb) \subseteq DataBlocks \ {RootBlock}
  BY InitFree
<1>3. sbDisk = sb /\ job = Idle
  BY DEF Init
<1>4. SuperSound(sb) /\ SuperSound(sbDisk)
  BY <1>1, <1>2, <1>3 DEF SuperSound
<1>5. HandSafe /\ CreateSound /\ job.op # "remove"
  BY <1>3, IdleSound
<1>6. Gone = {} /\ Whole = Reachable /\ RemoveSound /\ FreeingSound
  BY <1>5, NothingGone
<1>7. Reachable = {InodeRoot} /\ Children(InodeRoot) = {}
  BY InitTree
<1>8. TreeLinked
  BY <1>1, <1>7, TreeLinkedParts DEF EntriesLead, EntriesApart
<1>9. <<RootBlock>> \in Seq(DataBlocks) /\ Range(<<RootBlock>>) = {RootBlock} /\ Distinct(<<RootBlock>>)
  BY FirstChunk, Singleton
<1>10. BlocksOf(InodeRoot) = <<RootBlock>>
  BY <1>1, <1>9, EmptySequence DEF BlocksOf
<1>11. Intact(InodeRoot)
  <2>1. disk[RootBlock].tag = "dir"
    BY InitLists DEF DirBlock, Dir
  <2> QED
    BY <1>1, <1>9, <2>1 DEF Intact
<1>12. BlocksApart(Whole) /\ ApartFrom(sb, Whole) /\ ApartFrom(sbDisk, Whole)
  BY <1>1, <1>2, <1>3, <1>6, <1>7, <1>9, <1>10 DEF BlocksApart, ApartFrom
<1>13. TreeSafe
  BY <1>6, <1>7, <1>8, <1>11, <1>12 DEF TreeSafe
<1> QED
  BY <1>1, <1>4, <1>5, <1>6, <1>13 DEF IInv

-----------------------------------------------------------------------------
(* The properties.  DotNames = {} leaves out the removal of "." and "..":  *)
(* with it the root directory itself may go, as the run of RootStays       *)
(* shows.  All are about a program up to the call of AllocBlock, if it     *)
(* comes to one, that loads a block which only reads like a chain block    *)
(* (LoadWords): there the behaviours of FileSystem end.                    *)

\* The invariant holds in every state.
THEOREM InvariantHolds == ASSUME DotNames = {} PROVE Spec => []IInv
<1>1. Init => IInv
  BY InitSound
<1>2. IInv /\ [Next]_vars => IInv'
  BY NextStep
<1> QED
  BY <1>1, <1>2, PTL DEF Spec

\* Whatever the operations do, the inodes, sectors and superblocks keep the
\* shape of types.go, no list outgrows its array, and the counters stay in
\* range.
THEOREM TypesHold == ASSUME DotNames = {} PROVE Spec => []TypeOK
<1>1. IInv => TypeOK
  <2> SUFFICES ASSUME IInv PROVE TypeOK
    OBVIOUS
  <2>1. Typed /\ Bounded
    BY DEF IInv
  <2>2. ASSUME NEW i \in Inodes
        PROVE  /\ inodes[i].mode \in {"free", "reg", "dir"}
               /\ inodes[i].addr \in Seq(DataBlocks) /\ Len(inodes[i].addr) <= NAddrDirect
               /\ inodes[i].ind \in {0} \cup DataBlocks
    BY <2>1 DEF Typed, Bounded, InodeRecords
  <2>3. \A b \in DataBlocks : disk[b].tag \in {"zero", "data", "dir", "ind", "chain"}
    BY <2>1, SectorTyped DEF Typed
  <2>4. \A s \in {sb, sbDisk} :
          /\ s.freeBlock \in Seq(DataBlocks) /\ Len(s.freeBlock) <= MaxFreeBlock
          /\ s.freeInode \in Seq(Inodes) /\ Len(s.freeInode) <= MaxFreeInode
          /\ s.totalFreeBlock \in Nat
    BY <2>1 DEF Typed, Bounded, ListsShort, SuperBlocks
  <2>5. job.op \in {"idle", "astray", "create", "remove"} /\ crashes \in 0 .. MaxCrashes
    BY <2>1, JobTyped DEF Typed
  <2> QED
    BY <2>2, <2>3, <2>4, <2>5 DEF TypeOK
<1> QED
  BY <1>1, InvariantHolds, PTL

\* As long as AllocBlock has loaded chain blocks only, the free list leads to
\* nobody's blocks, and the cached inode numbers are nobody's.
THEOREM NothingIsShared == ASSUME DotNames = {} PROVE Spec => []NothingSharedInMemory
<1>1. IInv => NothingSharedInMemory
  <2> SUFFICES ASSUME IInv PROVE NothingSharedInMemory
    OBVIOUS
  <2>1. TreeSafe /\ HandSafe /\ CreateSound /\ SuperSound(sb)
    BY DEF IInv
  <2>2. Live \subseteq Whole
    BY DEF Live, Whole, BeingFreed, Gone
  <2>3. NothingShared(sb, Live)
    BY <2>1, <2>2 DEF TreeSafe, BlocksApart, ApartFrom, SuperSound, ListsSound, NothingShared
  <2>4. job.op = "create" /\ job.pc # "flush" => job.ino \notin Live \cup Range(sb.freeInode)
    BY <2>1 DEF CreateSound, Live
  <2> QED
    BY <2>1, <2>3, <2>4 DEF HandSafe, NothingSharedInMemory
<1> QED
  BY <1>1, InvariantHolds, PTL

\* As long as AllocBlock has loaded chain blocks only, TotalFreeBlock is never
\* below what the free list leads to.
THEOREM CountCovers == ASSUME DotNames = {} PROVE Spec => []CountCoversFreeList
<1>1. IInv => CountCoversFreeList
  BY DEF IInv, SuperSound, CountCoversFreeList
<1> QED
  BY <1>1, InvariantHolds, PTL

\* A file reads back what CreateFile wrote.
THEOREM ContentsStayIntact == ASSUME DotNames = {} PROVE Spec => []ContentsIntact
<1>1. IInv => ContentsIntact
  <2> SUFFICES ASSUME IInv, NEW i \in Live
               PROVE  LET ind     == inodes[i].ind
                          content == ReadFileData(i)
                      IN IF IsDir(i) THEN \A k \in DOMAIN content : content[k].tag = "dir"
                         ELSE /\ ind # 0 => disk[ind].tag = "ind"
                              /\ \A k \in DOMAIN content : /\ content[k].tag = "data"
                                                           /\ content[k].list = <<i, k>>
    BY DEF ContentsIntact
  <2>1. Typed /\ TreeSafe
    BY DEF IInv
  <2>2. i \in Whole /\ i \in Inodes
    BY <2>1, TreeBasics DEF Live, Whole, BeingFreed, Gone
  <2>3. Intact(i)
    BY <2>1, <2>2 DEF TreeSafe
  <2>4. ReadFileData(i) = [k \in DOMAIN Parts(i) |-> disk[Parts(i)[k]]]
    BY DEF ReadFileData, Parts
  <2>5. CASE IsDir(i)
    <3>1. inodes[i].addr \in Seq(DataBlocks)
      BY <2>1, <2>2 DEF Typed, InodeRecords
    <3>2. Parts(i) = inodes[i].addr
      BY <2>3, <2>5, <3>1, EmptySequence DEF Intact, Parts
    <3>3. \A k \in DOMAIN Parts(i) : disk[Parts(i)[k]].tag = "dir"
      BY <2>3, <2>5, <3>2 DEF Intact, Range
    <3> QED
      BY <2>4, <2>5, <3>3
  <2>6. CASE ~IsDir(i)
    <3>1. \A k \in DOMAIN Parts(i) : disk[Parts(i)[k]] = Data(i, k)
      BY <2>3, <2>6 DEF Intact
    <3>2. inodes[i].ind # 0 => disk[inodes[i].ind].tag = "ind"
      BY <2>3, <2>6 DEF Intact
    <3>3. \A k : Data(i, k).tag = "data" /\ Data(i, k).list = <<i, k>>
      BY DEF Data
    <3>4. \A k \in DOMAIN ReadFileData(i) :
             ReadFileData(i)[k].tag = "data" /\ ReadFileData(i)[k].list = <<i, k>>
      BY <2>4, <3>1, <3>3
    <3> QED
      BY <2>6, <3>2, <3>4
  <2> QED
    BY <2>5, <2>6
<1> QED
  BY <1>1, InvariantHolds, PTL

\* Outside the three windows an image that a crash leaves behind is safe.
THEOREM CrashSafe == ASSUME DotNames = {} PROVE Spec => []CrashSafeOutsideWindows
<1>1. IInv => CrashSafeOutsideWindows
  <2> SUFFICES ASSUME IInv, ~Window PROVE ImageSafe
    BY DEF CrashSafeOutsideWindows
  <2>1. Typed /\ TreeSafe /\ SuperSound(sbDisk)
    BY DEF IInv
  <2>2. Gone = {} /\ Whole = Reachable /\ ~Creating("flush")
    BY DEF Window, Gone, Whole
  <2>3. TreeSound
    BY <2>1, <2>2 DEF TreeSafe, TreeLinked, TreeSound, Entries
  <2>4. NothingShared(sbDisk, Reachable)
    BY <2>1, <2>2 DEF TreeSafe, BlocksApart, ApartFrom, SuperSound, ListsSound, NothingShared
  <2>5. ASSUME NEW i \in Reachable, NEW b \in Range(BlocksOf(i))
        PROVE  Listed(disk[b]) = <<>>
    <3>1. i \in Inodes /\ Intact(i)
      BY <2>1, <2>2, TreeBasics DEF TreeSafe
    <3>2. BlocksOf(i) \in Seq(DataBlocks) /\ Lists[b] = <<>>
      BY <2>1, <3>1, IntactBlocks
    <3>3. b \in DataBlocks
      BY <3>2 DEF Range
    <3> QED
      BY <3>2, <3>3 DEF Lists
  <2> QED
    BY <2>3, <2>4, <2>5 DEF ImageSafe
<1> QED
  BY <1>1, InvariantHolds, PTL

===============================================================================
