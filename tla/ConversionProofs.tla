-------------------------- MODULE ConversionProofs --------------------------
(***************************************************************************)
(* What the conversions do for every size of the words and the blocks.     *)
(***************************************************************************)
EXTENDS Conversions, FiniteSetTheorems, SequenceTheorems, TLAPS

LEMMA Division ==
    ASSUME NEW a \in Nat, NEW b \in Nat \ {0}
    PROVE  /\ a \div b \in Nat
           /\ (a \div b) * b <= a
           /\ a < (a \div b) * b + b
OBVIOUS

LEMMA Products ==
    ASSUME NEW a \in Nat, NEW b \in Nat, NEW c \in Nat, a <= b
    PROVE  a * c <= b * c
OBVIOUS

\* A quotient is at most m when the dividend is less than (m + 1) * b.
LEMMA QuotientAtMost ==
    ASSUME NEW a \in Nat, NEW b \in Nat \ {0}, NEW m \in Nat
    PROVE  a \div b <= m <=> a < (m + 1) * b
<1> DEFINE q == a \div b
<1>1. q \in Nat /\ q * b <= a /\ a < q * b + b
  BY Division
<1> HIDE DEF q
<1>2. ASSUME q <= m PROVE a < (m + 1) * b
  <2>1. (q + 1) * b <= (m + 1) * b
    BY <1>1, <1>2, Products
  <2>2. (q + 1) * b = q * b + b
    BY <1>1
  <2> QED
    BY <1>1, <2>1, <2>2
<1>3. ASSUME q > m PROVE a >= (m + 1) * b
  <2>1. (m + 1) * b <= q * b
    BY <1>1, <1>3, Products
  <2> QED
    BY <1>1, <2>1
<1>4. q <= m <=> a < (m + 1) * b
  <2>1. (m + 1) * b \in Nat
    OBVIOUS
  <2> QED
    BY <1>1, <1>2, <1>3, <2>1
<1> QED
  BY <1>4 DEF q

-----------------------------------------------------------------------------
(* Files: below 2^32 - BlkSize bytes nothing wraps.                        *)

LEMMA NoWrap ==
    ASSUME NEW len \in Nat, len + BlkSize <= Word32
    PROVE  /\ FileSize(len) = len
           /\ BlocksFor(len) = (len + BlkSize - 1) \div BlkSize
           /\ BlocksFor(len) \in Nat
<1>1. /\ BlkSize \in Nat \ {0} /\ Word32 \in Nat /\ Word32 > 1
      /\ len \in 0 .. (Word32 - 1) /\ len + BlkSize - 1 \in 0 .. (Word32 - 1)
  BY SizingAssumption, WordAssumption
<1>2. \A n \in 0 .. (Word32 - 1) : n % Word32 = n
  BY <1>1
<1>3. len % Word32 = len /\ (len + BlkSize - 1) % Word32 = len + BlkSize - 1
  BY <1>1, <1>2
<1> QED
  BY <1>1, <1>3, Division DEF FileSize, BlocksFor, Uint32

\* The blocks of a file are enough for it, and CreateFile refuses it exactly
\* when they are more than an inode addresses.
LEMMA EnoughBlocks ==
    ASSUME NEW len \in Nat, len + BlkSize <= Word32
    PROVE  /\ len <= BlocksFor(len) * BlkSize
           /\ NBlocks(len) = BlocksFor(len)
           /\ BlocksFor(len) <= MaxBlocks <=> len <= Capacity
<1> DEFINE b == BlkSize
           n == BlocksFor(len)
           m == MaxBlocks
<1>1. b \in Nat \ {0} /\ m \in Nat
  BY SizingAssumption DEF MaxBlocks
<1>2. n = (len + b - 1) \div b /\ n \in Nat
  BY NoWrap
<1>3. len + b - 1 \in Nat
  BY <1>1
<1> HIDE DEF b, n, m
<1>4. len <= n * b
  <2>1. len + b - 1 < n * b + b
    BY <1>1, <1>2, <1>3, Division
  <2>2. n * b \in Int
    BY <1>1, <1>2
  <2> QED
    BY <1>1, <2>1, <2>2
<1>5. n <= m <=> len <= m * b
  <2>1. n <= m <=> len + b - 1 < (m + 1) * b
    BY <1>1, <1>2, <1>3, QuotientAtMost
  <2>2. (m + 1) * b = m * b + b /\ m * b \in Int
    BY <1>1
  <2> QED
    BY <1>1, <2>1, <2>2
<1>6. len = 0 => n = 0
  <2>1. 0 \in Nat /\ b - 1 \in Nat /\ b - 1 < (0 + 1) * b
    BY <1>1
  <2>2. (b - 1) \div b <= 0
    BY <1>1, <2>1, QuotientAtMost
  <2> QED
    BY <1>1, <1>2, <2>2
<1>7. FileSize(len) = len
  BY NoWrap
<1> QED
  BY <1>4, <1>5, <1>6, <1>7 DEF b, n, m, NBlocks, Capacity

\* Every byte of a file that was not refused stands in a block that is read.
LEMMA EveryByteRead ==
    ASSUME NEW len \in Nat, len + BlkSize <= Word32, len <= Capacity,
           NEW j \in 1 .. len,
           NEW i, i = (j - 1) \div BlkSize + 1
    PROVE  /\ i \in BlocksRead(Stored(len))
           /\ j - (i - 1) * BlkSize <= Stored(len).blocks[i]
<1> DEFINE b == BlkSize
           n == BlocksFor(len)
<1>1. b \in Nat \ {0} /\ NAddrDirect \in Nat /\ MaxBlocks \in Nat
  BY SizingAssumption DEF MaxBlocks
<1>2. n \in Nat /\ len <= n * b /\ n <= MaxBlocks
  BY NoWrap, EnoughBlocks
<1>3. /\ Stored(len).size = len
      /\ Stored(len).blocks = [k \in 1 .. n |-> Min2(b, len - (k - 1) * b)]
  BY NoWrap, EnoughBlocks DEF Stored
<1> HIDE DEF b, n
<1>4. /\ i - 1 \in Nat /\ i \in Nat
      /\ (i - 1) * b <= j - 1 /\ j - 1 < (i - 1) * b + b
  <2>1. j - 1 \in Nat /\ i - 1 = (j - 1) \div b
    <3>1. (j - 1) \div b \in Int
      BY <1>1, Division
    <3>2. i = (j - 1) \div b + 1
      BY DEF b
    <3> QED
      BY <3>1, <3>2
  <2> DEFINE q == (j - 1) \div b
  <2>2. q \in Nat /\ q * b <= j - 1 /\ j - 1 < q * b + b
    BY <1>1, <2>1, Division
  <2>3. i - 1 = q /\ i = q + 1
    <3>1. q \in Int /\ i = (j - 1) \div b + 1
      BY <2>2 DEF b
    <3> QED
      BY <3>1, <2>1
  <2> HIDE DEF q
  <2> QED
    BY <2>2, <2>3
<1>5. i \in 1 .. n
  <2>1. ASSUME i > n PROVE FALSE
    <3>1. n * b <= (i - 1) * b
      BY <1>1, <1>2, <1>4, <2>1, Products
    <3>2. n * b \in Int /\ (i - 1) * b \in Int
      BY <1>1, <1>2, <1>4
    <3> QED
      BY <1>2, <1>4, <3>1, <3>2
  <2> QED
    BY <1>2, <1>4, <2>1
<1>6. j - (i - 1) * b <= Min2(b, len - (i - 1) * b)
  <2>1. (i - 1) * b \in Int
    BY <1>1, <1>4
  <2> QED
    BY <1>1, <1>4, <2>1 DEF Min2
<1>7. i \in BlocksRead(Stored(len))
  <2> DEFINE direct == Min2(n, NAddrDirect)
  <2>1. CASE i <= direct
    BY <1>3, <1>5, <2>1 DEF BlocksRead, n
  <2>2. CASE ~(i <= direct)
    <3>1. direct = NAddrDirect /\ i > NAddrDirect /\ i <= MaxBlocks
      BY <1>1, <1>2, <1>5, <2>2 DEF Min2
    <3>2. NAddrDirect * b <= (i - 1) * b
      BY <1>1, <1>4, <3>1, Products
    <3>3. direct * b < len /\ (direct + i - NAddrDirect - 1) * b < len
      <4>1. direct + i - NAddrDirect - 1 = i - 1
        BY <1>1, <1>4, <3>1
      <4>2. (i - 1) * b < len /\ (i - 1) * b \in Int /\ NAddrDirect * b \in Int
        BY <1>1, <1>4
      <4>3. NAddrDirect * b < len
        BY <3>2, <4>2
      <4> QED
        BY <3>1, <4>1, <4>2, <4>3
    <3>4. i \in DOMAIN Stored(len).blocks
      BY <1>3, <1>5
    <3>5. direct = Min2(BlocksFor(Stored(len).size), NAddrDirect)
      BY <1>3 DEF n
    <3>6. i > NAddrDirect /\ direct * BlkSize < Stored(len).size
          /\ (direct + i - NAddrDirect - 1) * BlkSize < Stored(len).size
      BY <1>3, <3>1, <3>3 DEF b
    <3> HIDE DEF direct
    <3> QED
      BY <3>1, <3>4, <3>5, <3>6 DEF BlocksRead
  <2> QED
    BY <2>1, <2>2
<1> QED
  BY <1>3, <1>5, <1>6, <1>7 DEF b

\* A file that was not refused reads back as it was written.
LEMMA ReadsBack ==
    ASSUME NEW len \in Nat, len + BlkSize <= Word32, len <= Capacity
    PROVE  ReadFileData(Stored(len)) = [j \in 1 .. len |-> j]
<1>1. Stored(len).size = len
  BY NoWrap DEF Stored
<1>2. \A j \in 1 .. len :
         LET i == (j - 1) \div BlkSize + 1
         IN i \in BlocksRead(Stored(len)) /\ j - (i - 1) * BlkSize <= Stored(len).blocks[i]
  BY EveryByteRead
<1> QED
  BY <1>1, <1>2 DEF ReadFileData

-----------------------------------------------------------------------------
(* Timestamps.                                                             *)

LEMMA Euclid ==
    ASSUME NEW q \in Int, NEW r \in Int, NEW w \in Nat \ {0}, 0 <= r, r < w
    PROVE  (q * w + r) % w = r /\ (q * w + r) \div w = q
OBVIOUS

LEMMA Split ==
    ASSUME NEW a \in Nat, NEW w \in Nat \ {0}
    PROVE  a % w \in 0 .. (w - 1) /\ a = (a \div w) * w + (a % w)
<1>1. a % w \in 0 .. (w - 1)
  OBVIOUS
<1>2. a = (a \div w) * w + (a % w)
  OBVIOUS
<1> QED
  BY <1>1, <1>2

\* The two words of a stamp, for a time that an int64 holds.
LEMMA StampWords ==
    ASSUME NEW ms \in (-Signed64) .. (Signed64 - 1)
    PROVE  LET tv == TimeFromGo(ms)
           IN /\ tv.hi \in Nat /\ tv.lo \in 0 .. (Word32 - 1)
              /\ tv.hi * Word32 + tv.lo = IF ms < 0 THEN ms + 2 * Signed64 ELSE ms
              /\ tv.lo = ms % Word32
<1> DEFINE w == Word32
           s == Signed64
           u == IF ms < 0 THEN ms + 2 * s ELSE ms
<1>1. w \in Nat /\ w > 1 /\ s \in Nat /\ 2 * s = w * w /\ ms \in Int /\ -s <= ms /\ ms < s
  BY WordAssumption
<1>2. Uint64(ms) = u
  <2>1. u \in Nat /\ u < w * w /\ w * w \in Nat \ {0}
    BY <1>1
  <2>2. ms = (IF ms < 0 THEN -1 ELSE 0) * (w * w) + u
    BY <1>1
  <2> HIDE DEF u
  <2>3. ms % (w * w) = u
    <3> DEFINE q == IF ms < 0 THEN -1 ELSE 0
               ww == w * w
    <3>1. q \in Int /\ ww \in Nat \ {0} /\ u \in Int /\ 0 <= u /\ u < ww /\ ms = q * ww + u
      BY <2>1, <2>2
    <3> HIDE DEF q, ww
    <3>2. ms % ww = u
      BY <3>1, Euclid
    <3> QED
      BY <3>2 DEF ww
  <2> QED
    BY <2>3 DEF Uint64
<1> DEFINE hi == u \div w
           lo == u % w
<1>3. u \in Nat /\ hi \in Nat /\ lo \in 0 .. (w - 1) /\ u = hi * w + lo
  <2>1. u \in Nat
    BY <1>1
  <2> HIDE DEF u
  <2>2. w \in Nat \ {0}
    BY <1>1
  <2>3. u \div w \in Nat
    BY <2>1, <2>2, Division
  <2>4. u % w \in 0 .. (w - 1) /\ u = (u \div w) * w + (u % w)
    BY <2>1, <2>2, Split
  <2> QED
    BY <2>1, <2>3, <2>4
<1>4. TimeFromGo(ms).hi = hi /\ TimeFromGo(ms).lo = lo
  BY <1>2 DEF TimeFromGo
<1>5. lo = ms % w
  <2>1. CASE ms >= 0
    BY <1>1, <2>1
  <2>2. CASE ms < 0
    <3>1. ms = (hi - w) * w + lo
      <4>1. u = ms + w * w
        BY <1>1, <2>2
      <4> HIDE DEF u, hi, lo
      <4> QED
        BY <1>1, <1>3, <4>1
    <3> HIDE DEF u, hi, lo
    <3>2. hi - w \in Int /\ lo \in Int /\ 0 <= lo /\ lo < w /\ w \in Nat \ {0}
      BY <1>1, <1>3
    <3> DEFINE q == hi - w
    <3>3. q \in Int /\ ms = q * w + lo
      BY <3>1, <3>2
    <3> HIDE DEF q
    <3> QED
      BY <3>2, <3>3, Euclid
  <2> QED
    BY <1>1, <2>1, <2>2
<1> HIDE DEF hi, lo
<1> QED
  BY <1>3, <1>4, <1>5

\* A time survives exactly when its stamp is not taken for V1, or is zero.
LEMMA TimeSurvives ==
    ASSUME NEW ms \in (-Signed64) .. (Signed64 - 1)
    PROVE  ToGo(TimeFromGo(ms)) = ms <=> ms % Word32 >= Million \/ ms = 0
<1> DEFINE tv == TimeFromGo(ms)
           hi == tv.hi
           lo == tv.lo
           w  == Word32
           s  == Signed64
           t  == Thousand
<1>1. /\ hi \in Nat /\ lo \in Nat /\ lo < w
      /\ hi * w + lo = IF ms < 0 THEN ms + 2 * s ELSE ms
      /\ lo = ms % w
  BY StampWords, WordAssumption
<1>2. /\ w \in Nat /\ w > 1 /\ s \in Nat /\ 2 * s = w * w
      /\ ms \in Int /\ -s <= ms /\ ms < s
      /\ t \in Nat /\ t > 1 /\ Million = t * t /\ t * t < w
  BY WordAssumption, TimeAssumption DEF Million
<1>3. ToGo(tv) = IF lo < Million THEN hi * t + lo \div t ELSE Int64(hi * w + lo)
  BY DEF ToGo, IsV1
<1> HIDE DEF tv, hi, lo, w, s, t
<1>4. CASE lo >= Million
  <2>1. Int64(hi * w + lo) = ms
    <3>1. Int64(hi * w + lo) = ((hi * w + lo + s) % (w * w)) - s
      BY DEF Int64, w, s
    <3> DEFINE ww == w * w
               r  == ms + s
               q  == IF ms < 0 THEN 1 ELSE 0
    <3>2. /\ ww \in Nat \ {0} /\ q \in Int /\ r \in Int /\ 0 <= r /\ r < ww
      BY <1>2
    <3>3. hi * w + lo + s = q * ww + r
      <4>1. q * ww = IF ms < 0 THEN 2 * s ELSE 0
        BY <1>2
      <4> HIDE DEF q, ww
      <4> QED
        BY <1>1, <1>2, <4>1
    <3> HIDE DEF ww, q, r
    <3>4. (hi * w + lo + s) % ww = r
      BY <3>2, <3>3, Euclid
    <3> QED
      BY <1>2, <3>1, <3>4 DEF ww, r
  <2>2. Million \in Nat
    BY <1>2
  <2> QED
    BY <1>1, <1>2, <1>3, <1>4, <2>1, <2>2 DEF tv, w
<1>5. CASE lo < Million
  <2> DEFINE d == lo \div t
  <2>1. d \in Nat /\ d * t <= lo
    BY <1>1, <1>2, Division
  <2> HIDE DEF d
  <2>2. d + d <= lo
    <3>1. 2 * d <= t * d /\ t * d = d * t
      BY <1>2, <2>1
    <3> QED
      BY <1>1, <1>2, <2>1, <3>1
  <2>3. t < w
    <3>1. t <= t * t
      BY <1>2
    <3> QED
      BY <1>2, <3>1
  <2>4. hi * t + hi <= hi * w
    <3>1. (t + 1) * hi <= w * hi
      BY <1>1, <1>2, <2>3, Products
    <3>2. (t + 1) * hi = hi * t + hi /\ w * hi = hi * w
      BY <1>1, <1>2
    <3> QED
      BY <3>1, <3>2
  <2>5. hi * t \in Nat /\ hi * w \in Nat
    BY <1>1, <1>2
  <2>6. hi * t + d = ms <=> ms = 0
    <3> DEFINE ht == hi * t
               hw == hi * w
    <3>1. /\ ht \in Nat /\ hw \in Nat /\ ht + hi <= hw
          /\ hw + lo = IF ms < 0 THEN ms + 2 * s ELSE ms
          /\ hi = 0 => ht = 0
      BY <1>1, <1>2, <2>4, <2>5
    <3> HIDE DEF ht, hw
    <3>2. ht + d = ms <=> ms = 0
      BY <1>1, <1>2, <2>1, <2>2, <3>1
    <3> QED
      BY <3>2 DEF ht
  <2>7. ToGo(tv) = hi * t + d /\ ~(ms % w >= Million)
    <3>1. Million \in Nat
      BY <1>2
    <3> QED
      BY <1>1, <1>3, <1>5, <3>1 DEF d
  <2> QED
    BY <2>6, <2>7 DEF tv, w
<1> QED
  <2>1. Million \in Nat
    BY <1>2
  <2> QED
    BY <1>1, <1>4, <1>5, <2>1

-----------------------------------------------------------------------------
(* The state machine: what the last call was.                              *)

FileCalls ==
    call.op = "file" =>
        \E len \in 0 .. MaxLength :
            /\ call.len = len /\ call.refused = TooLarge(len)
            /\ ~TooLarge(len) => call.back = ReadFileData(Stored(len))

TimeCalls ==
    call.op = "time" =>
        \/ \E ms \in Times :
              call = [op |-> "time", ms |-> ms, back |-> ToGo(TimeFromGo(ms))]
        \/ "v1" \in DOMAIN call /\ call.back = call.ms

LEMMA V1Survives ==
    ASSUME NEW seconds \in 0 .. (Word32 - 1), NEW micros \in 0 .. (Million - 1)
    PROVE  ToGo(V1Stamp(seconds, micros)) = seconds * Thousand + micros \div Thousand
<1>1. Million \in Nat /\ micros < Million
  BY TimeAssumption DEF Million
<1> QED
  BY <1>1 DEF ToGo, V1Stamp, IsV1

LEMMA CallsInvariant == FileCalls /\ TimeCalls /\ [Next]_call => FileCalls' /\ TimeCalls'
<1> SUFFICES ASSUME FileCalls, TimeCalls, [Next]_call
             PROVE  FileCalls' /\ TimeCalls'
  OBVIOUS
<1>1. ASSUME NEW len \in 0 .. MaxLength, WriteAndRead(len)
      PROVE  FileCalls' /\ TimeCalls'
  <2>1. /\ call'.op = "file" /\ call'.len = len /\ call'.refused = TooLarge(len)
        /\ ~TooLarge(len) => call'.back = ReadFileData(Stored(len))
    BY <1>1 DEF WriteAndRead
  <2> QED
    BY <2>1 DEF FileCalls, TimeCalls
<1>2. ASSUME NEW ms \in Times, Stamp(ms)
      PROVE  FileCalls' /\ TimeCalls'
  BY <1>2 DEF Stamp, FileCalls, TimeCalls
<1>3. ASSUME NEW seconds \in 0 .. (Word32 - 1), NEW micros \in 0 .. (Million - 1),
             StampV1(seconds, micros)
      PROVE  FileCalls' /\ TimeCalls'
  <2>1. call'.op = "time" /\ "v1" \in DOMAIN call' /\ call'.back = call'.ms
    BY <1>3, V1Survives DEF StampV1
  <2> QED
    BY <2>1 DEF FileCalls, TimeCalls
<1>4. ASSUME call'.op \notin {"file", "time"} PROVE FileCalls' /\ TimeCalls'
  BY <1>4 DEF FileCalls, TimeCalls
<1>5. ASSUME NEW args, ReadArguments(args) PROVE FileCalls' /\ TimeCalls'
  BY <1>4, <1>5 DEF ReadArguments
<1>6. ASSUME NEW n, NEW unit, SizeImage(n, unit) PROVE FileCalls' /\ TimeCalls'
  BY <1>4, <1>6 DEF SizeImage
<1>7. ASSUME NEW cp, NEW b, ConvertByte(cp, b) PROVE FileCalls' /\ TimeCalls'
  BY <1>4, <1>7 DEF ConvertByte
<1>8. ASSUME NEW name, StoreName(name) PROVE FileCalls' /\ TimeCalls'
  BY <1>4, <1>8 DEF StoreName
<1>9. ASSUME NEW b, NEW textIn, NEW tIn, NEW bIn, NEW textOut, NEW tOut, NEW bOut,
             CopyBoth(b, textIn, tIn, bIn, textOut, tOut, bOut)
      PROVE  FileCalls' /\ TimeCalls'
  BY <1>4, <1>9 DEF CopyBoth
<1>10. CASE Return
  BY <1>4, <1>10 DEF Return, Nothing
<1>11. CASE UNCHANGED call
  BY <1>11 DEF FileCalls, TimeCalls
<1> QED
  BY <1>1, <1>2, <1>3, <1>5, <1>6, <1>7, <1>8, <1>9, <1>10, <1>11 DEF Next, Convert

\* CreateFile refuses a file exactly when it has more bytes than its blocks
\* hold, and ReadFileData returns any other as it was: for every block size
\* and address list, up to a block below 2^32 bytes.
THEOREM FilesAlwaysReadBack == Spec => []FilesReadBack
<1>1. FileCalls => FilesReadBack
  <2> SUFFICES ASSUME FileCalls, call.op = "file", call.len + BlkSize <= Word32
               PROVE  /\ call.refused <=> call.len > Capacity
                      /\ ~call.refused => call.back = [j \in 1 .. call.len |-> j]
    BY DEF FilesReadBack
  <2>1. PICK len \in 0 .. MaxLength :
            /\ call.len = len /\ call.refused = TooLarge(len)
            /\ ~TooLarge(len) => call.back = ReadFileData(Stored(len))
    BY DEF FileCalls
  <2>2. len \in Nat /\ len + BlkSize <= Word32
    BY <2>1, InputAssumption
  <2>3. TooLarge(len) <=> len > Capacity
    <3>1. Capacity \in Int /\ MaxBlocks \in Int
      BY SizingAssumption DEF Capacity, MaxBlocks
    <3>2. NBlocks(len) \in Nat /\ (NBlocks(len) <= MaxBlocks <=> len <= Capacity)
      BY <2>2, NoWrap, EnoughBlocks
    <3> QED
      BY <2>2, <3>1, <3>2 DEF TooLarge
  <2>4. ~TooLarge(len) => ReadFileData(Stored(len)) = [j \in 1 .. len |-> j]
    <3>1. Capacity \in Int
      BY SizingAssumption DEF Capacity, MaxBlocks
    <3> QED
      BY <2>2, <2>3, <3>1, ReadsBack
  <2> QED
    BY <2>1, <2>3, <2>4
<1>2. Init => FileCalls /\ TimeCalls
  BY DEF Init, Nothing, FileCalls, TimeCalls
<1> QED
  BY <1>1, <1>2, CallsInvariant, PTL DEF Spec

\* A time that 64 bits hold reads back exactly when its low word cannot be
\* taken for microseconds, or it is 1970 itself, and a stamp in the older
\* format always does: for every size of the words.
THEOREM TimesAlwaysReadBack == Spec => []TimesReadBack
<1>1. TimeCalls => TimesReadBack
  <2> SUFFICES ASSUME TimeCalls, call.op = "time"
               PROVE  call.back = call.ms <=> \/ "v1" \in DOMAIN call
                                              \/ call.ms % Word32 >= Million
                                              \/ call.ms = 0
    BY DEF TimesReadBack
  <2>1. CASE "v1" \in DOMAIN call /\ call.back = call.ms
    BY <2>1
  <2>2. ASSUME NEW ms \in Times,
               call = [op |-> "time", ms |-> ms, back |-> ToGo(TimeFromGo(ms))]
        PROVE  call.back = call.ms <=> \/ "v1" \in DOMAIN call
                                       \/ call.ms % Word32 >= Million
                                       \/ call.ms = 0
    <3>1. call.ms = ms /\ call.back = ToGo(TimeFromGo(ms)) /\ "v1" \notin DOMAIN call
      BY <2>2
    <3>2. ToGo(TimeFromGo(ms)) = ms <=> ms % Word32 >= Million \/ ms = 0
      BY InputAssumption, TimeSurvives
    <3> QED
      BY <3>1, <3>2
  <2> QED
    BY <2>1, <2>2 DEF TimeCalls
<1>2. Init => FileCalls /\ TimeCalls
  BY DEF Init, Nothing, FileCalls, TimeCalls
<1> QED
  BY <1>1, <1>2, CallsInvariant, PTL DEF Spec

-----------------------------------------------------------------------------
(* Sizes.                                                                  *)

LEMMA Rest ==
    ASSUME NEW n \in Nat, NEW w \in Nat \ {0}
    PROVE  n % w \in Nat /\ (n < w => n % w = n)
OBVIOUS

\* What fits into 63 bits is the number itself.
LEMMA Fits ==
    ASSUME NEW n \in Nat, n < Signed64
    PROVE  Int64(n) = n
<1> DEFINE ww == Word32 * Word32
           r  == n + Signed64
<1>1. /\ ww \in Nat \ {0} /\ Signed64 \in Nat /\ 2 * Signed64 = ww /\ r \in Nat /\ r < ww
  BY WordAssumption
<1> HIDE DEF ww
<1>2. r % ww = r
  BY <1>1, Rest
<1> QED
  BY <1>1, <1>2 DEF Int64, ww

\* Create makes the blocks asked for, unless 32 bits do not hold the number.
LEMMA BlocksAsAsked ==
    ASSUME NEW n \in Nat, n < Word32 * BlkSize
    PROVE  TotalBlocks(Int64(n), BlkSize) = n \div BlkSize
<1> DEFINE w == Word32
           b == BlkSize
<1>1. w \in Nat /\ w > 1 /\ b \in Nat \ {0} /\ Signed64 \in Nat /\ 2 * Signed64 = w * w /\ 2 * b <= w
  BY WordAssumption, SizingAssumption, BlockAssumption
<1>2. w * b <= Signed64
  <2>1. (2 * b) * w <= w * w
    BY <1>1, Products
  <2>2. (2 * b) * w = 2 * (w * b) /\ w * b \in Int
    BY <1>1
  <2> QED
    BY <1>1, <2>1, <2>2
<1>3. n < w * b /\ w * b \in Int
  BY <1>1
<1> HIDE DEF w, b
<1>4. Int64(n) = n
  BY <1>1, <1>2, <1>3, Fits
<1>5. n \div b \in Nat /\ n \div b < w
  <2>1. n < ((w - 1) + 1) * b
    BY <1>1, <1>3
  <2>2. w - 1 \in Nat
    BY <1>1
  <2>3. n \div b <= w - 1 /\ n \div b \in Nat
    BY <1>1, <2>1, <2>2, QuotientAtMost, Division
  <2> QED
    BY <1>1, <2>3
<1>6. (n \div b) % w = n \div b
  BY <1>1, <1>5, Rest
<1>7. TotalBlocks(n, b) = (n \div b) % w
  BY DEF TotalBlocks, Uint32, Quotient, w
<1> QED
  BY <1>4, <1>6, <1>7 DEF b

\* The tracks asked for hold the blocks, unless their number wraps.
LEMMA TracksEnough ==
    ASSUME NEW n \in Nat, n + Track \div BlkSize <= Word32
    PROVE  Tracks(n, Track, BlkSize) * (Track \div BlkSize) >= n
<1> DEFINE t == Track \div BlkSize
<1>1. BlkSize \in Nat \ {0} /\ Track \in Nat /\ Word32 \in Nat /\ Word32 > 1
  BY SizingAssumption, InputAssumption, WordAssumption
<1>2. t \in Nat /\ t >= 1
  <2>1. t \in Nat
    BY <1>1, Division
  <2>2. t <= 0 <=> Track < (0 + 1) * BlkSize
    BY <1>1, QuotientAtMost
  <2>3. ~(Track < (0 + 1) * BlkSize)
    BY <1>1, BlockAssumption
  <2> HIDE DEF t
  <2> QED
    BY <2>1, <2>2, <2>3
<1>3. BlocksPerTrack(Track, BlkSize) = t
  BY <1>2 DEF BlocksPerTrack
<1>4. n + t <= Word32
  OBVIOUS
<1>5. Tracks(n, Track, BlkSize) = Uint32(n + t - 1) \div t
  BY <1>3 DEF Tracks
<1> HIDE DEF t
<1>6. Uint32(n + t - 1) = n + t - 1
  <2>1. n + t - 1 \in Nat /\ n + t - 1 < Word32
    BY <1>1, <1>2, <1>4
  <2> QED
    BY <1>1, <2>1, Rest DEF Uint32
<1> DEFINE q == (n + t - 1) \div t
<1>7. q \in Nat /\ n + t - 1 < q * t + t
  BY <1>2, Division
<1> HIDE DEF q
<1>8. q * t >= n
  <2>1. q * t \in Int
    BY <1>2, <1>7
  <2> QED
    BY <1>2, <1>7, <2>1
<1> QED
  BY <1>5, <1>6, <1>8 DEF q, t

LEMMA SizeCall ==
    ASSUME NEW n \in Numbers, NEW unit \in Units, SizeImage(n, unit)
    PROVE  SizesAsAsked'
<1> DEFINE bytes  == n * unit
           blocks == TotalBlocks(ParseSize(n, unit), BlkSize)
<1>1. /\ call'.bytes = bytes /\ call'.blocks = blocks
      /\ call'.tracks = Tracks(blocks, Track, BlkSize)
  BY DEF SizeImage
<1>2. /\ bytes \in Nat /\ BlkSize \in Nat \ {0} /\ Word32 \in Nat \ {0} /\ Track \in Nat
      /\ Word32 * BlkSize \in Nat
  BY InputAssumption, SizingAssumption, WordAssumption
<1>3. blocks = TotalBlocks(Int64(bytes), BlkSize)
  BY DEF ParseSize
<1>4. blocks \in Nat
  <2> DEFINE p == Int64(bytes)
             ww == Word32 * Word32
  <2>1. ww \in Nat \ {0} /\ Signed64 \in Nat
    BY WordAssumption
  <2>2. p \in Int
    <3> HIDE DEF ww, bytes
    <3>1. (bytes + Signed64) % ww \in Int
      BY <1>2, <2>1
    <3> QED
      BY <2>1, <3>1 DEF Int64, ww
  <2> HIDE DEF p
  <2>3. Quotient(p, BlkSize) \in Int
    BY <1>2, <2>2 DEF Quotient
  <2>4. \A x \in Int : x % Word32 \in Nat
    BY <1>2
  <2> QED
    BY <1>3, <2>3, <2>4 DEF TotalBlocks, Uint32, p
<1> HIDE DEF bytes, blocks
<1>5. blocks = bytes \div BlkSize \/ bytes >= Word32 * BlkSize
  BY <1>2, <1>3, BlocksAsAsked
<1>6. Track \div BlkSize \in Nat
  BY <1>2, Division
<1>7. \/ Tracks(blocks, Track, BlkSize) * (Track \div BlkSize) >= blocks
      \/ blocks + Track \div BlkSize > Word32
  BY <1>2, <1>4, <1>6, TracksEnough
<1> QED
  BY <1>1, <1>5, <1>7 DEF SizesAsAsked

-----------------------------------------------------------------------------
(* Code pages: facts about the four tables, and about names.               *)

LEMMA TablesReadBack ==
    \A b \in Bytes :
        /\ ibm1047EtoA[ibm1047AtoE[b + 1] + 1] = b <=> b \notin {133, 247}
        /\ cp037EtoA[cp037AtoE[b + 1] + 1] = b
BY DEF Bytes, ibm1047AtoE, ibm1047EtoA, cp037AtoE, cp037EtoA

LEMMA ByteCall ==
    ASSUME NEW cp \in CodepageNames, NEW b \in Bytes, ConvertByte(cp, b)
    PROVE  BytesReadBack'
<1>1. call'.cp = cp /\ call'.byte = b /\ call'.back = DecodeByte(cp, EncodeByte(cp, b))
  BY DEF ConvertByte
<1>2. DecodeByte(cp, EncodeByte(cp, b)) = b <=> b \notin Lossy(cp)
  BY TablesReadBack DEF DecodeByte, EncodeByte, TableAtoE, TableEtoA, Lossy, CodepageNames
<1> QED
  BY <1>1, <1>2 DEF BytesReadBack

LEMMA CopyCall ==
    ASSUME NEW b \in SampleBytes,
           NEW textIn \in BOOLEAN, NEW tIn \in BOOLEAN, NEW bIn \in BOOLEAN,
           NEW textOut \in BOOLEAN, NEW tOut \in BOOLEAN, NEW bOut \in BOOLEAN,
           CopyBoth(b, textIn, tIn, bIn, textOut, tOut, bOut)
    PROVE  CopiesReadBack'
<1> DEFINE in  == ShouldConvertText(textIn, tIn, bIn)
           out == ShouldConvertText(textOut, tOut, bOut)
           kept == CopyIn(textIn, tIn, bIn, b)
<1>1. /\ call'.byte = b
      /\ call'.same = (<<textIn, tIn, bIn>> = <<textOut, tOut, bOut>>)
      /\ call'.back = CopyOut(textOut, tOut, bOut, kept)
      /\ call'.shown = Cat(bOut, kept)
      /\ call'.converted = <<in, ~bOut>>
  BY DEF CopyBoth
<1>2. b \notin Lossy("IBM1047") => DecodeByte("IBM1047", EncodeByte("IBM1047", b)) = b
  <2>1. b \in Bytes
    BY InputAssumption
  <2> QED
    BY <2>1, TablesReadBack DEF DecodeByte, EncodeByte, TableAtoE, TableEtoA, Lossy
<1>3. kept = IF in THEN EncodeByte("IBM1047", b) ELSE b
  BY DEF CopyIn
<1>4. CopyOut(textOut, tOut, bOut, kept) = IF out THEN DecodeByte("IBM1047", kept) ELSE kept
  BY DEF CopyOut
<1>5. Cat(bOut, kept) = IF bOut THEN kept ELSE DecodeByte("IBM1047", kept)
  BY DEF Cat
<1>6. call'.same => in = out
  BY <1>1
<1>7. call'.converted[1] = in /\ call'.converted[2] = ~bOut
  BY <1>1
<1> HIDE DEF in, out, kept
<1>8. call'.same => call'.back = call'.byte \/ call'.byte \in Lossy("IBM1047")
  <2> SUFFICES ASSUME call'.same, b \notin Lossy("IBM1047")
               PROVE  CopyOut(textOut, tOut, bOut, kept) = b
    BY <1>1
  <2>1. CASE in
    BY <1>2, <1>3, <1>4, <1>6, <2>1
  <2>2. CASE ~in
    BY <1>3, <1>4, <1>6, <2>2
  <2> QED
    BY <2>1, <2>2
<1>9. in \in BOOLEAN
  BY DEF in, ShouldConvertText
<1>10. call'.converted[1] = call'.converted[2] =>
          call'.shown = call'.byte \/ call'.byte \in Lossy("IBM1047")
  BY <1>1, <1>2, <1>3, <1>5, <1>7, <1>9
<1> QED
  BY <1>8, <1>10 DEF CopiesReadBack

\* What a byte of a name is stored as, and read back as.
NameByte(b) == EncodeByte("IBM1047", FirstOfUTF8(b))

LEMMA NameBytes ==
    \A b \in Bytes : /\ DecodeByte("IBM1047", NameByte(b)) = b <=> Readable(b)
                     /\ NameByte(b) \in {0, 64} <=> b \in {0, 32}
<1>1. \A f \in 0 .. 127 \cup {194, 195} :
         /\ ibm1047EtoA[ibm1047AtoE[f + 1] + 1] = f
         /\ ibm1047AtoE[f + 1] \in {0, 64} <=> f \in {0, 32}
  BY DEF ibm1047AtoE, ibm1047EtoA
<1> SUFFICES ASSUME NEW b \in Bytes
             PROVE  /\ DecodeByte("IBM1047", NameByte(b)) = b <=> Readable(b)
                    /\ NameByte(b) \in {0, 64} <=> b \in {0, 32}
  OBVIOUS
<1> DEFINE f == FirstOfUTF8(b)
<1>2. /\ f \in 0 .. 127 \cup {194, 195}
      /\ f = b <=> Readable(b)
      /\ f \in {0, 32} <=> b \in {0, 32}
  BY DEF FirstOfUTF8, Readable, Bytes
<1>3. /\ NameByte(b) = ibm1047AtoE[f + 1]
      /\ DecodeByte("IBM1047", NameByte(b)) = ibm1047EtoA[NameByte(b) + 1]
  BY DEF NameByte, DecodeByte, EncodeByte, TableAtoE, TableEtoA
<1> HIDE DEF f
<1>4. /\ DecodeByte("IBM1047", NameByte(b)) = f
      /\ NameByte(b) \in {0, 64} <=> f \in {0, 32}
  BY <1>1, <1>2, <1>3
<1> QED
  BY <1>2, <1>4

\* Every set of numbers up to n has a greatest one.
LEMMA GreatestOf ==
    ASSUME NEW n \in Nat, NEW K \in SUBSET (1 .. n), K # {}
    PROVE  \E i \in K : \A k \in K : k <= i
<1> DEFINE R == StrictSubsetOrdering(Nat)
           F == FiniteSubsetsOf(Nat)
           T == {i .. n : i \in K}
<1>1. IsWellFoundedOn(R, F)
  BY FS_StrictSubsetOrderingWellFounded
<1>2. T # {} /\ T \subseteq F
  <2>1. ASSUME NEW i \in Nat PROVE i .. n \in F
    <3>1. i .. n \in SUBSET Nat
      OBVIOUS
    <3>2. IsFiniteSet(i .. n)
      BY FS_Interval
    <3> QED
      BY <3>1, <3>2 DEF FiniteSubsetsOf
  <2>2. K \subseteq Nat /\ K # {}
    OBVIOUS
  <2> HIDE DEF F
  <2> QED
    BY <2>1, <2>2
<1>3. \E I \in T : \A J \in T : ~(<<J, I>> \in R)
  <2> HIDE DEF R, F, T
  <2> QED
    BY <1>1, <1>2, WFMin, Zenon
<1>4. PICK i \in K : \A k \in K : ~(<<k .. n, i .. n>> \in R)
  BY <1>3
<1>5. ASSUME NEW k \in K PROVE k <= i
  <2> SUFFICES ASSUME i < k PROVE FALSE
    OBVIOUS
  <2>1. k .. n \subseteq i .. n /\ i \in i .. n /\ i \notin k .. n
    OBVIOUS
  <2>2. <<k .. n, i .. n>> \in R
    BY <2>1 DEF StrictSubsetOrdering
  <2> QED
    BY <1>4, <2>2
<1> QED
  BY <1>5

\* A field holds a name of at most NameSize - 1 bytes; Decode takes what
\* comes before the blanks and NULs at its end.
LEMMA NameSurvives ==
    ASSUME NEW n \in Nat, NEW name \in [1 .. n -> Bytes]
    PROVE  DecodeName(EncodeName(name)) = name <=>
              /\ n < NameSize
              /\ \A i \in 1 .. n : Readable(name[i])
              /\ n # 0 => name[n] \notin {0, 32}
<1> DEFINE field == EncodeName(name)
           kept  == {i \in DOMAIN field : field[i] \notin {64, 0}}
           end   == IF kept = {} THEN 0 ELSE CHOOSE i \in kept : \A k \in kept : k <= i
           back  == DecodeName(field)
<1>1. NameSize \in Nat \ {0} /\ Len(name) = n /\ DOMAIN name = 1 .. n
      /\ \A i \in 1 .. n : name[i] \in Bytes
  BY NameAssumption
<1>2. /\ DOMAIN field = 1 .. NameSize
      /\ \A i \in 1 .. NameSize :
            field[i] = IF i <= n /\ i < NameSize THEN NameByte(name[i]) ELSE 0
  BY <1>1 DEF EncodeName, NameByte
<1>3. back = [i \in 1 .. end |-> DecodeByte("IBM1047", field[i])]
  BY DEF DecodeName
<1> HIDE DEF field
<1>4. kept \subseteq 1 .. NameSize /\ \A k \in kept : k <= n /\ k < NameSize
  BY <1>1, <1>2
<1>5. end \in Nat /\ (kept = {} => end = 0) /\ (kept # {} => end \in kept /\ \A k \in kept : k <= end)
  <2>1. kept # {} => \E i \in kept : \A k \in kept : k <= i
    BY <1>1, <1>4, GreatestOf
  <2> HIDE DEF kept
  <2>2. kept # {} => end \in kept /\ \A k \in kept : k <= end
    BY <2>1
  <2>3. kept = {} => end = 0
    OBVIOUS
  <2> HIDE DEF end
  <2>4. \A i \in 1 .. NameSize : i \in Nat
    BY <1>1
  <2>5. kept # {} => end \in Nat
    BY <1>4, <2>2, <2>4
  <2> QED
    BY <2>2, <2>3, <2>5
<1> HIDE DEF end, back
<1>6. ASSUME back = name
      PROVE  /\ n < NameSize /\ \A i \in 1 .. n : Readable(name[i])
             /\ n # 0 => name[n] \notin {0, 32}
  <2>1. 1 .. end = 1 .. n
    BY <1>1, <1>3, <1>6
  <2>2. end = n
    BY <1>5, <2>1
  <2>3. CASE n = 0
    BY <1>1, <2>3
  <2>4. CASE n # 0
    <3>1. n \in kept
      BY <1>5, <2>2, <2>4
    <3>2. n < NameSize /\ field[n] \notin {64, 0} /\ n \in 1 .. n
      BY <1>4, <2>4, <3>1
    <3>3. field[n] = NameByte(name[n])
      BY <1>1, <1>2, <3>2
    <3>4. name[n] \notin {0, 32}
      BY <1>1, <3>2, <3>3, NameBytes
    <3>5. ASSUME NEW i \in 1 .. n PROVE Readable(name[i])
      <4>1. back[i] = DecodeByte("IBM1047", field[i])
        BY <1>3, <2>2
      <4>2. i \in 1 .. NameSize /\ i <= n /\ i < NameSize
        BY <1>1, <3>2
      <4>3. field[i] = NameByte(name[i])
        BY <1>2, <4>2
      <4>4. DecodeByte("IBM1047", NameByte(name[i])) = name[i]
        BY <1>6, <4>1, <4>3
      <4> QED
        BY <1>1, <4>4, NameBytes
    <3> QED
      BY <3>2, <3>4, <3>5
  <2> QED
    BY <2>3, <2>4
<1>7. ASSUME n < NameSize, \A i \in 1 .. n : Readable(name[i]), n # 0 => name[n] \notin {0, 32}
      PROVE  back = name
  <2>1. \A i \in 1 .. n : field[i] = NameByte(name[i])
    BY <1>1, <1>2, <1>7
  <2>2. end = n
    <3>1. CASE n = 0
      <4>1. kept = {}
        BY <1>4, <3>1
      <4> QED
        BY <1>5, <3>1, <4>1
    <3>2. CASE n # 0
      <4>1. n \in 1 .. n /\ n \in 1 .. NameSize
        BY <1>1, <1>7, <3>2
      <4>2. field[n] \notin {64, 0}
        BY <1>1, <1>7, <2>1, <3>2, <4>1, NameBytes
      <4>3. n \in kept
        BY <1>2, <4>1, <4>2
      <4> HIDE DEF kept
      <4> QED
        BY <1>4, <1>5, <4>3
    <3> QED
      BY <3>1, <3>2
  <2>3. \A i \in 1 .. n : DecodeByte("IBM1047", field[i]) = name[i]
    BY <1>1, <1>7, <2>1, NameBytes
  <2>4. back = [i \in 1 .. n |-> name[i]]
    BY <1>3, <2>2, <2>3
  <2> QED
    BY <2>4
<1> QED
  BY <1>6, <1>7 DEF back, field

LEMMA NameCall ==
    ASSUME NEW n \in Nat, NEW name \in [1 .. n -> SampleBytes], StoreName(name)
    PROVE  NamesReadBack'
<1>1. call'.name = name /\ call'.back = DecodeName(EncodeName(name))
  BY DEF StoreName
<1>2. name \in [1 .. n -> Bytes]
  BY InputAssumption
<1>3. Len(name) = n /\ DOMAIN name = 1 .. n /\ (n # 0 <=> name # <<>>)
  OBVIOUS
<1>4. DecodeName(EncodeName(name)) = name <=>
          /\ Len(name) < NameSize
          /\ \A i \in DOMAIN name : Readable(name[i])
          /\ name # <<>> => name[Len(name)] \notin {0, 32}
  BY <1>2, <1>3, NameSurvives
<1> QED
  BY <1>1, <1>4 DEF NamesReadBack

-----------------------------------------------------------------------------
(* Arguments: reorderArgs, the flag package, and what they make of them.   *)

\* Every set of numbers has a least one.
LEMMA LeastOf ==
    ASSUME NEW K \in SUBSET Nat, K # {}
    PROVE  \E i \in K : \A k \in K : i <= k
<1>1. PICK n \in K : TRUE
  OBVIOUS
<1> DEFINE U == {n + 1 - k : k \in {j \in K : j <= n}}
<1>2. n \in Nat /\ U \in SUBSET (1 .. (n + 1))
  OBVIOUS
<1>3. U # {}
  <2>1. n \in {j \in K : j <= n}
    BY <1>2
  <2>2. n + 1 - n \in U
    BY <2>1
  <2> QED
    BY <2>2
<1>4. PICK i \in U : \A k \in U : k <= i
  <2> HIDE DEF U
  <2>1. n + 1 \in Nat
    BY <1>2
  <2> QED
    BY <1>2, <1>3, <2>1, GreatestOf
<1>5. PICK j \in K : j <= n /\ i = n + 1 - j
  OBVIOUS
<1>6. \A k \in K : k <= n => n + 1 - k \in U
  OBVIOUS
<1>7. \A k \in K : k \in Nat
  OBVIOUS
<1> HIDE DEF U
<1>8. ASSUME NEW k \in K PROVE j <= k
  <2>1. k \in Nat /\ j \in Nat /\ n \in Nat
    BY <1>7
  <2>2. k <= n => n + 1 - k <= n + 1 - j
    BY <1>4, <1>5, <1>6
  <2>3. j <= n
    BY <1>5
  <2> QED
    BY <2>1, <2>2, <2>3
<1> QED
  BY <1>8

\* o lists the numbers of S in their order, each of them once.
Sorted(o, S) ==
    /\ o \in Seq(Nat)
    /\ \A i, j \in 1 .. Len(o) : i < j => o[i] < o[j]
    /\ \A i \in 1 .. Len(o) : o[i] \in S
    /\ \A x \in S : \E i \in 1 .. Len(o) : o[i] = x

LEMMA SortedIsUnique ==
    ASSUME NEW S, NEW o, NEW q, Sorted(o, S), Sorted(q, S)
    PROVE  o = q
<1>1. /\ o \in Seq(Nat) /\ q \in Seq(Nat)
      /\ Len(o) \in Nat /\ Len(q) \in Nat
  BY DEF Sorted
<1>2. /\ \A i, j \in 1 .. Len(o) : i < j => o[i] < o[j]
      /\ \A i, j \in 1 .. Len(q) : i < j => q[i] < q[j]
      /\ \A i \in 1 .. Len(o) : o[i] \in Nat
      /\ \A i \in 1 .. Len(q) : q[i] \in Nat
  BY DEF Sorted
<1>3. /\ \A i \in 1 .. Len(o) : \E j \in 1 .. Len(q) : q[j] = o[i]
      /\ \A i \in 1 .. Len(q) : \E j \in 1 .. Len(o) : o[j] = q[i]
  BY DEF Sorted
<1> DEFINE T == {i \in 1 .. Len(o) : i > Len(q) \/ o[i] # q[i]}
<1>4. T = {}
  <2> SUFFICES ASSUME T # {} PROVE FALSE
    OBVIOUS
  <2>1. PICK i \in T : \A k \in T : i <= k
    <3>1. T \in SUBSET Nat
      BY <1>1
    <3> HIDE DEF T
    <3> QED
      BY <3>1, LeastOf
  <2>2. i \in 1 .. Len(o) /\ i \in Nat /\ (i > Len(q) \/ o[i] # q[i])
    BY <1>1
  <2>3. \A k \in 1 .. Len(o) : k < i => k <= Len(q) /\ o[k] = q[k]
    <3> SUFFICES ASSUME NEW k \in 1 .. Len(o), k < i PROVE k \notin T
      BY <1>1
    <3> QED
      BY <1>1, <2>1, <2>2
  <2> HIDE DEF T
  <2>4. PICK j \in 1 .. Len(q) : q[j] = o[i]
    BY <1>3, <2>2
  <2>5. i < j
    <3>1. j < i => o[j] = q[j] /\ o[j] < o[i] /\ o[i] \in Nat
      BY <1>1, <1>2, <2>2, <2>3
    <3>2. j # i
      BY <1>1, <2>2, <2>4
    <3>3. j \in Nat
      BY <1>1
    <3> QED
      BY <2>2, <2>4, <3>1, <3>2, <3>3
  <2>6. i \in 1 .. Len(q) /\ q[i] < o[i]
    BY <1>1, <1>2, <2>2, <2>4, <2>5
  <2>7. PICK k \in 1 .. Len(o) : o[k] = q[i]
    BY <1>3, <2>6
  <2>8. k < i
    <3>1. i < k => o[i] < o[k]
      BY <1>2, <2>2
    <3>2. k \in Nat /\ o[i] \in Nat /\ o[k] \in Nat /\ o[k] < o[i]
      BY <1>1, <1>2, <2>2, <2>6, <2>7
    <3> QED
      BY <2>2, <3>1, <3>2
  <2>9. o[k] = q[k] /\ k \in 1 .. Len(q)
    BY <1>1, <2>3, <2>8
  <2>10. q[k] < q[i] /\ q[k] \in Nat
    BY <1>2, <2>6, <2>8, <2>9
  <2> QED
    BY <2>7, <2>9, <2>10
<1>5. \A i \in 1 .. Len(o) : i <= Len(q) /\ o[i] = q[i]
  BY <1>1, <1>4
<1>6. Len(o) = Len(q)
  <2> SUFFICES ASSUME Len(o) # Len(q) PROVE FALSE
    OBVIOUS
  <2> DEFINE k == Len(o) + 1
  <2>1. Len(o) = 0 \/ Len(o) <= Len(q)
    BY <1>1, <1>5
  <2>2. Len(o) < Len(q) /\ k \in 1 .. Len(q)
    BY <1>1, <2>1
  <2>3. PICK j \in 1 .. Len(o) : o[j] = q[k]
    BY <1>3, <2>2
  <2>4. j < k /\ j \in 1 .. Len(q) /\ o[j] = q[j]
    BY <1>1, <1>5, <2>2
  <2>5. q[j] < q[k] /\ q[j] \in Nat
    BY <1>2, <2>2, <2>4
  <2> HIDE DEF k
  <2> QED
    BY <2>3, <2>4, <2>5
<1> QED
  BY <1>1, <1>5, <1>6, SeqEqual

\* The loop of reorderArgs keeps the order of the arguments it collects.
KeepsOrder(f, S, m) ==
    /\ DOMAIN f = 0 .. m
    /\ \A i \in 0 .. m :
          f[i] = IF i = 0 THEN <<>> ELSE IF i \in S THEN Append(f[i - 1], i) ELSE f[i - 1]

LEMMA KeptExists ==
    ASSUME NEW n \in Nat, NEW S
    PROVE  \E f : KeepsOrder(f, S, n)
<1> DEFINE T == {m \in Nat : ~\E f : KeepsOrder(f, S, m)}
<1> SUFFICES ASSUME T # {} PROVE FALSE
  OBVIOUS
<1>1. PICK m \in T : \A x \in T : m <= x
  <2>1. T \in SUBSET Nat
    OBVIOUS
  <2> HIDE DEF T
  <2> QED
    BY <2>1, LeastOf
<1>2. m \in Nat
  OBVIOUS
<1>3. CASE m = 0
  <2> DEFINE f == [i \in 0 .. 0 |-> <<>>]
  <2>1. KeepsOrder(f, S, 0)
    BY DEF KeepsOrder
  <2> QED
    BY <1>3, <2>1
<1>4. CASE m # 0
  <2>1. m - 1 \in Nat /\ m - 1 \notin T
    BY <1>1, <1>2, <1>4
  <2>2. PICK g : KeepsOrder(g, S, m - 1)
    BY <2>1
  <2> DEFINE top == IF m \in S THEN Append(g[m - 1], m) ELSE g[m - 1]
             f == [i \in 0 .. m |-> IF i = m THEN top ELSE g[i]]
  <2> HIDE DEF top
  <2>3. ASSUME NEW i \in 0 .. m
        PROVE  f[i] = IF i = 0 THEN <<>> ELSE IF i \in S THEN Append(f[i - 1], i) ELSE f[i - 1]
    <3>1. CASE i = m
      <4>1. f[m - 1] = g[m - 1] /\ f[m] = top
        BY <1>2, <1>4
      <4> HIDE DEF f
      <4> QED
        BY <1>4, <3>1, <4>1 DEF top
    <3>2. CASE i # m
      <4>1. i \in 0 .. (m - 1) /\ f[i] = g[i]
        BY <1>2, <3>2
      <4>2. i # 0 => f[i - 1] = g[i - 1]
        BY <1>2, <3>2
      <4> HIDE DEF f
      <4> QED
        BY <2>2, <4>1, <4>2 DEF KeepsOrder
    <3> QED
      BY <3>1, <3>2
  <2>4. DOMAIN f = 0 .. m
    OBVIOUS
  <2> HIDE DEF f
  <2>5. KeepsOrder(f, S, m)
    BY <2>3, <2>4 DEF KeepsOrder
  <2> QED
    BY <2>5
<1> QED
  BY <1>3, <1>4

LEMMA KeptIsSorted ==
    ASSUME NEW n \in Nat, NEW S \in SUBSET (1 .. n), NEW f, KeepsOrder(f, S, n)
    PROVE  Sorted(f[n], S)
<1> DEFINE T == {i \in 0 .. n : ~Sorted(f[i], S \cap (1 .. i))}
<1>1. \A i \in 0 .. n :
         f[i] = IF i = 0 THEN <<>> ELSE IF i \in S THEN Append(f[i - 1], i) ELSE f[i - 1]
  BY DEF KeepsOrder
<1>2. T = {}
  <2> SUFFICES ASSUME T # {} PROVE FALSE
    OBVIOUS
  <2>1. PICK i \in T : \A k \in T : i <= k
    <3>1. T \in SUBSET Nat
      OBVIOUS
    <3> HIDE DEF T
    <3> QED
      BY <3>1, LeastOf
  <2>2. i \in 0 .. n /\ i \in Nat
    OBVIOUS
  <2>3. CASE i = 0
    <3>1. f[i] = <<>> /\ S \cap (1 .. i) = {}
      BY <1>1, <2>3
    <3>2. Sorted(<<>>, {})
      BY DEF Sorted
    <3> QED
      BY <3>1, <3>2
  <2>4. CASE i # 0
    <3> DEFINE q == f[i - 1]
               P == S \cap (1 .. (i - 1))
    <3>1. i - 1 \in 0 .. n /\ i - 1 \notin T
      BY <2>1, <2>2, <2>4
    <3>2. Sorted(q, P)
      BY <3>1
    <3>3. f[i] = IF i \in S THEN Append(q, i) ELSE q
      BY <1>1, <2>2, <2>4
    <3>4. \A x \in P : x \in Nat /\ x < i
      OBVIOUS
    <3>5. S \cap (1 .. i) = IF i \in S THEN P \cup {i} ELSE P
      BY <2>2, <2>4
    <3> HIDE DEF P, q
    <3>6. CASE i \in S
      <4> DEFINE o == Append(q, i)
      <4>1. q \in Seq(Nat) /\ Len(q) \in Nat
        BY <3>2 DEF Sorted
      <4>2. /\ o \in Seq(Nat) /\ Len(o) = Len(q) + 1 /\ o[Len(q) + 1] = i
            /\ \A j \in 1 .. Len(q) : o[j] = q[j]
        BY <2>2, <4>1, AppendProperties
      <4> HIDE DEF o
      <4>3. \A j \in 1 .. Len(o) : j # Len(q) + 1 => j \in 1 .. Len(q) /\ o[j] = q[j] /\ o[j] \in P
        BY <3>2, <4>1, <4>2 DEF Sorted
      <4>4. ASSUME NEW j \in 1 .. Len(o), NEW k \in 1 .. Len(o), j < k PROVE o[j] < o[k]
        <5>1. j # Len(q) + 1
          BY <4>1, <4>2, <4>4
        <5>2. CASE k = Len(q) + 1
          BY <3>4, <4>2, <4>3, <5>1, <5>2
        <5>3. CASE k # Len(q) + 1
          BY <3>2, <4>3, <4>4, <5>1, <5>3 DEF Sorted
        <5> QED
          BY <5>2, <5>3
      <4>5. \A j \in 1 .. Len(o) : o[j] \in P \cup {i}
        BY <4>2, <4>3
      <4>6. ASSUME NEW x \in P \cup {i} PROVE \E j \in 1 .. Len(o) : o[j] = x
        <5>1. CASE x = i
          <6>1. Len(q) + 1 \in 1 .. Len(o)
            BY <4>1, <4>2
          <6> QED
            BY <4>2, <5>1, <6>1
        <5>2. CASE x \in P
          <6>1. PICK j \in 1 .. Len(q) : q[j] = x
            BY <3>2, <5>2 DEF Sorted
          <6>2. j \in 1 .. Len(o) /\ o[j] = x
            BY <4>1, <4>2, <6>1
          <6> QED
            BY <6>2
        <5> QED
          BY <5>1, <5>2
      <4>7. Sorted(o, P \cup {i})
        BY <4>2, <4>4, <4>5, <4>6 DEF Sorted
      <4> QED
        BY <3>3, <3>5, <3>6, <4>7 DEF o
    <3>7. CASE i \notin S
      BY <3>2, <3>3, <3>5, <3>7
    <3> QED
      BY <3>6, <3>7
  <2> QED
    BY <2>3, <2>4
<1>3. n \in 0 .. n /\ S \cap (1 .. n) = S
  <2>1. S \cap (1 .. n) = S
    BY Zenon
  <2> QED
    BY <2>1
<1> QED
  BY <1>2, <1>3

LEMMA InOrderIs ==
    ASSUME NEW n \in Nat, NEW S \in SUBSET (1 .. n)
    PROVE  Sorted(InOrder(S, n), S)
<1> DEFINE Solves(f) ==
        f = [i \in 0 .. n |->
               IF i = 0 THEN <<>> ELSE IF i \in S THEN Append(f[i - 1], i) ELSE f[i - 1]]
<1>1. PICK g : KeepsOrder(g, S, n)
  BY KeptExists
<1> DEFINE h == [i \in 0 .. n |-> g[i]]
<1>2. Solves(h)
  <2>1. \A i \in 0 .. n :
           h[i] = IF i = 0 THEN <<>> ELSE IF i \in S THEN Append(h[i - 1], i) ELSE h[i - 1]
    BY <1>1 DEF KeepsOrder
  <2>2. h = [i \in 0 .. n |-> h[i]]
    OBVIOUS
  <2> HIDE DEF h
  <2> QED
    BY <2>1, <2>2
<1> DEFINE c == CHOOSE f : Solves(f)
<1>3. Solves(c)
  <2> HIDE DEF Solves, h
  <2> QED
    BY <1>2
<1>4. KeepsOrder(c, S, n)
  <2> HIDE DEF c
  <2> QED
    BY <1>3 DEF KeepsOrder
<1>5. InOrder(S, n) = c[n]
  BY DEF InOrder
<1> HIDE DEF c
<1> QED
  BY <1>4, <1>5, KeptIsSorted

\* The flag package, over the first m arguments: W are the places of values.
Takes(W, args, order, m) ==
    /\ W \subseteq 0 .. m
    /\ \A i \in 0 .. m : i \in W <=> i > 1 /\ args[order[i - 1]] = "option" /\ i - 1 \notin W

LEMMA TakenExists ==
    ASSUME NEW n \in Nat, NEW args, NEW order
    PROVE  \E W : Takes(W, args, order, n)
<1> DEFINE T == {m \in Nat : ~\E W : Takes(W, args, order, m)}
<1> SUFFICES ASSUME T # {} PROVE FALSE
  OBVIOUS
<1>1. PICK m \in T : \A x \in T : m <= x
  <2>1. T \in SUBSET Nat
    OBVIOUS
  <2> HIDE DEF T
  <2> QED
    BY <2>1, LeastOf
<1>2. m \in Nat
  OBVIOUS
<1>3. CASE m = 0
  <2>1. Takes({}, args, order, 0)
    BY DEF Takes
  <2> QED
    BY <1>3, <2>1
<1>4. CASE m # 0
  <2>1. m - 1 \in Nat /\ m - 1 \notin T
    BY <1>1, <1>2, <1>4
  <2>2. PICK U : Takes(U, args, order, m - 1)
    BY <2>1
  <2> DEFINE top == m > 1 /\ args[order[m - 1]] = "option" /\ m - 1 \notin U
             W == {i \in 0 .. m : i \in U \/ (i = m /\ top)}
  <2>3. ASSUME NEW i \in 0 .. m
        PROVE  i \in W <=> i > 1 /\ args[order[i - 1]] = "option" /\ i - 1 \notin W
    <3>1. \A k \in 0 .. (m - 1) : k \in W <=> k \in U
      BY <1>2
    <3>2. m \notin U /\ (m \in W <=> top)
      BY <1>2, <2>2 DEF Takes
    <3> HIDE DEF W
    <3>3. CASE i = m
      <4>1. m - 1 \in W <=> m - 1 \in U
        BY <1>2, <1>4, <3>1
      <4> QED
        BY <3>2, <3>3, <4>1
    <3>4. CASE i # m
      <4>1. i \in 0 .. (m - 1) /\ (i \in W <=> i \in U)
        BY <1>2, <3>1, <3>4
      <4>2. i > 1 => (i - 1 \in W <=> i - 1 \in U)
        BY <1>2, <3>1, <4>1
      <4>3. i \in U <=> i > 1 /\ args[order[i - 1]] = "option" /\ i - 1 \notin U
        BY <2>2, <4>1 DEF Takes
      <4> QED
        BY <4>1, <4>2, <4>3
    <3> QED
      BY <3>3, <3>4
  <2>4. W \subseteq 0 .. m
    OBVIOUS
  <2> HIDE DEF W
  <2>5. Takes(W, args, order, m)
    BY <2>3, <2>4 DEF Takes
  <2> QED
    BY <2>5
<1> QED
  BY <1>3, <1>4

LEMMA ValuesAre ==
    ASSUME NEW args, NEW order \in Seq(Nat)
    PROVE  /\ Values(args, order) \subseteq 1 .. Len(order)
           /\ \A i \in 1 .. Len(order) :
                 i \in Values(args, order) <=>
                     /\ i > 1 /\ args[order[i - 1]] = "option"
                     /\ i - 1 \notin Values(args, order)
<1> DEFINE n == Len(order)
           Solves(f) == f = [i \in 0 .. n |-> i > 1 /\ args[order[i - 1]] = "option" /\ ~f[i - 1]]
<1>1. n \in Nat /\ DOMAIN order = 1 .. n
  OBVIOUS
<1>2. PICK W : Takes(W, args, order, n)
  BY <1>1, TakenExists
<1> DEFINE h == [i \in 0 .. n |-> i \in W]
<1>3. Solves(h)
  <2>1. ASSUME NEW i \in 0 .. n
        PROVE  h[i] = (i > 1 /\ args[order[i - 1]] = "option" /\ ~h[i - 1])
    <3>1. i > 1 => i - 1 \in 0 .. n
      BY <1>1
    <3>2. i > 1 => (h[i - 1] = (i - 1 \in W))
      BY <3>1
    <3>3. h[i] = (i \in W)
      OBVIOUS
    <3>4. i \in W <=> i > 1 /\ args[order[i - 1]] = "option" /\ i - 1 \notin W
      BY <1>2 DEF Takes
    <3> HIDE DEF h
    <3>5. i > 1 => (~h[i - 1] <=> i - 1 \notin W)
      BY <3>2
    <3>6. (i \in W) <=> (i > 1 /\ args[order[i - 1]] = "option" /\ ~h[i - 1])
      BY <3>4, <3>5
    <3>7. (i \in W) = (i > 1 /\ args[order[i - 1]] = "option" /\ ~h[i - 1])
      BY <3>6
    <3> QED
      BY <3>3, <3>7
  <2>2. h = [i \in 0 .. n |-> h[i]]
    OBVIOUS
  <2> HIDE DEF h
  <2> QED
    BY <2>1, <2>2
<1> DEFINE c == CHOOSE f : Solves(f)
<1>4. Solves(c)
  <2> HIDE DEF Solves, h
  <2> QED
    BY <1>3
<1>5. Values(args, order) = {i \in 1 .. n : c[i]}
  BY <1>1 DEF Values
<1> HIDE DEF c
<1>6. \A i \in 1 .. n : c[i] = (i > 1 /\ args[order[i - 1]] = "option" /\ ~c[i - 1])
  <2>1. \A i \in 0 .. n : c[i] = (i > 1 /\ args[order[i - 1]] = "option" /\ ~c[i - 1])
    BY <1>4, Zenon
  <2>2. 1 .. n \subseteq 0 .. n
    BY <1>1
  <2> QED
    BY <2>1, <2>2, Zenon
<1>7. \A i \in 1 .. n : i > 1 => i - 1 \in 1 .. n
  BY <1>1
<1> QED
  BY <1>5, <1>6, <1>7

\* M are the flags and the words that go with them, V the values of options
\* when the arguments are read as they are.
Layout(args, n, M, V) ==
    /\ M \subseteq 1 .. n /\ V \subseteq M
    /\ \A i \in 1 .. n : i \notin M => args[i] = "word"
    /\ \A i \in M : args[i] = "word" => i > 1 /\ i - 1 \in M /\ args[i - 1] # "word"
    /\ \A i \in 1 .. n : args[i] = "option" => i = n \/ i + 1 \in M
    /\ \A i \in 1 .. n : i \in V <=> i > 1 /\ args[i - 1] = "option" /\ i - 1 \notin V

Moved(args) == {i \in DOMAIN args : IsFlag(args[i]) \/ Captured(args, i)}

\* A list of both parts in turn: M in the first m places, the rest after it.
Reordered(o, m, n, M) ==
    /\ o \in Seq(Nat) /\ Len(o) \in Nat /\ m \in 0 .. Len(o)
    /\ \A k \in 1 .. m : o[k] \in M
    /\ \A k \in (m + 1) .. Len(o) : o[k] \in (1 .. n) \ M
    /\ \A x \in M : \E k \in 1 .. m : o[k] = x
    /\ \A x \in (1 .. n) \ M : \E k \in (m + 1) .. Len(o) : o[k] = x
    /\ \A j, k \in 1 .. m : j < k => o[j] < o[k]
    /\ \A j, k \in (m + 1) .. Len(o) : j < k => o[j] < o[k]

LEMMA PositionsAre ==
    ASSUME NEW n \in Nat, NEW args \in [1 .. n -> Kinds]
    PROVE  /\ Positions(args) \in Seq(Nat)
           /\ Len(Positions(args)) = n /\ DOMAIN Positions(args) = 1 .. n
           /\ \A i \in 1 .. n : Positions(args)[i] = i
           /\ Sorted(Positions(args), 1 .. n)
<1>1. Positions(args) = [i \in 1 .. n |-> i]
  BY DEF Positions
<1> DEFINE p == [i \in 1 .. n |-> i]
<1>2. p \in Seq(Nat) /\ Len(p) = n /\ DOMAIN p = 1 .. n /\ \A i \in 1 .. n : p[i] = i
  OBVIOUS
<1> HIDE DEF p
<1>3. Sorted(p, 1 .. n)
  <2>1. \A i, j \in 1 .. n : i < j => p[i] < p[j]
    BY <1>2
  <2>2. \A x \in 1 .. n : \E i \in 1 .. n : p[i] = x
    BY <1>2
  <2> QED
    BY <1>2, <2>1, <2>2 DEF Sorted
<1> QED
  BY <1>1, <1>2, <1>3 DEF p

LEMMA LayoutOf ==
    ASSUME NEW n \in Nat, NEW args \in [1 .. n -> Kinds]
    PROVE  Layout(args, n, Moved(args), Values(args, Positions(args)))
<1> DEFINE M == Moved(args)
           V == Values(args, Positions(args))
           p == Positions(args)
<1>1. DOMAIN args = 1 .. n /\ \A i \in 1 .. n : args[i] \in {"switch", "option", "assigned", "word"}
  BY DEF Kinds
<1>2. \A i \in 1 .. n :
         i \in M <=> \/ args[i] # "word"
                     \/ i > 1 /\ args[i - 1] \in {"switch", "option"}
  BY <1>1 DEF Moved, IsFlag, Captured
<1>3. M \subseteq 1 .. n
  BY <1>1 DEF Moved
<1>4. V \subseteq 1 .. n /\ \A i \in 1 .. n : i \in V <=> i > 1 /\ args[i - 1] = "option" /\ i - 1 \notin V
  <2>1. p \in Seq(Nat) /\ Len(p) = n /\ \A i \in 1 .. n : p[i] = i
    BY PositionsAre
  <2>2. /\ V \subseteq 1 .. n
        /\ \A i \in 1 .. n : i \in V <=> i > 1 /\ args[p[i - 1]] = "option" /\ i - 1 \notin V
    BY <2>1, ValuesAre
  <2>3. \A i \in 1 .. n : i > 1 => p[i - 1] = i - 1
    BY <2>1
  <2> HIDE DEF V, p
  <2> QED
    BY <2>2, <2>3
<1> HIDE DEF M, V, p
<1>5. V \subseteq M
  BY <1>2, <1>4
<1>6. \A i \in 1 .. n : i \notin M => args[i] = "word"
  BY <1>2
<1>7. ASSUME NEW i \in M, args[i] = "word" PROVE i > 1 /\ i - 1 \in M /\ args[i - 1] # "word"
  <2>1. i \in 1 .. n /\ i > 1 /\ args[i - 1] \in {"switch", "option"}
    BY <1>2, <1>3, <1>7
  <2>2. i - 1 \in 1 .. n
    BY <2>1
  <2> QED
    BY <1>2, <2>1, <2>2
<1>8. ASSUME NEW i \in 1 .. n, args[i] = "option", i # n PROVE i + 1 \in M
  <2>1. i + 1 \in 1 .. n /\ i + 1 > 1 /\ (i + 1) - 1 = i
    BY <1>8
  <2> QED
    BY <1>2, <1>8, <2>1
<1> QED
  BY <1>3, <1>4, <1>5, <1>6, <1>7, <1>8 DEF Layout, M, V, p

LEMMA LooseIsNotMoved ==
    ASSUME NEW n \in Nat, NEW args \in [1 .. n -> Kinds], NEW i \in 1 .. n
    PROVE  /\ Loose(args, i) <=> i \notin Moved(args)
           /\ IsFlag(args[i]) <=> args[i] # "word"
           /\ Misled(args, i) <=> /\ i \in Moved(args) /\ args[i] = "word"
                                  /\ i \notin Values(args, Positions(args))
<1>1. i \in DOMAIN args
  OBVIOUS
<1>2. i \in Moved(args) <=> IsFlag(args[i]) \/ Captured(args, i)
  BY <1>1 DEF Moved
<1>3. Captured(args, i) => args[i] = "word"
  BY DEF Captured
<1> QED
  BY <1>2, <1>3 DEF Loose, Misled, IsFlag

LEMMA ReorderedIs ==
    ASSUME NEW n \in Nat, NEW args \in [1 .. n -> Kinds]
    PROVE  \E m : /\ Reordered(ReorderArgs(args), m, n, Moved(args))
                  /\ SubSeq(ReorderArgs(args), m + 1, Len(ReorderArgs(args)))
                        = InOrder((1 .. n) \ Moved(args), n)
<1> DEFINE M == Moved(args)
           R == (1 .. n) \ M
           a == InOrder(M, n)
           b == InOrder(R, n)
           o == a \o b
           m == Len(a)
<1>1. DOMAIN args = 1 .. n /\ Len(args) = n
  OBVIOUS
<1>2. ReorderArgs(args) = o
  BY <1>1 DEF ReorderArgs, Moved
<1>3. M \subseteq 1 .. n /\ R \subseteq 1 .. n
  BY <1>1 DEF Moved
<1>4. Sorted(a, M) /\ Sorted(b, R)
  BY <1>3, InOrderIs
<1> HIDE DEF M, a, b
<1>5. /\ a \in Seq(Nat) /\ b \in Seq(Nat) /\ m \in Nat /\ Len(b) \in Nat
  BY <1>4 DEF Sorted
<1>6. /\ o \in Seq(Nat) /\ Len(o) = m + Len(b)
      /\ \A i \in 1 .. (m + Len(b)) : o[i] = IF i <= m THEN a[i] ELSE b[i - m]
  BY <1>5, ConcatProperties
<1> HIDE DEF o, m
<1>7. \A k \in 1 .. m : o[k] = a[k]
  BY <1>5, <1>6
<1>8. ASSUME NEW k \in (m + 1) .. Len(o) PROVE k - m \in 1 .. Len(b) /\ o[k] = b[k - m]
  <2>1. k \in 1 .. (m + Len(b)) /\ ~(k <= m) /\ k - m \in 1 .. Len(b)
    BY <1>5, <1>6
  <2> QED
    BY <1>6, <2>1
<1>9. \A k \in 1 .. m : o[k] \in M
  BY <1>4, <1>7 DEF Sorted, m
<1>10. \A k \in (m + 1) .. Len(o) : o[k] \in R
  BY <1>4, <1>8 DEF Sorted
<1>11. \A x \in M : \E k \in 1 .. m : o[k] = x
  BY <1>4, <1>7 DEF Sorted, m
<1>12. ASSUME NEW x \in R PROVE \E k \in (m + 1) .. Len(o) : o[k] = x
  <2>1. PICK j \in 1 .. Len(b) : b[j] = x
    BY <1>4 DEF Sorted
  <2>2. j + m \in (m + 1) .. Len(o) /\ (j + m) - m = j
    BY <1>5, <1>6, <2>1
  <2>3. o[j + m] = x
    BY <1>8, <2>1, <2>2
  <2> QED
    BY <2>2, <2>3
<1>13. \A j, k \in 1 .. m : j < k => o[j] < o[k]
  BY <1>4, <1>7 DEF Sorted, m
<1>14. ASSUME NEW j \in (m + 1) .. Len(o), NEW k \in (m + 1) .. Len(o), j < k PROVE o[j] < o[k]
  <2>1. j - m < k - m
    BY <1>5, <1>6, <1>14
  <2>2. j - m \in 1 .. Len(b) /\ k - m \in 1 .. Len(b)
    BY <1>8
  <2>3. b[j - m] < b[k - m]
    BY <1>4, <2>1, <2>2 DEF Sorted
  <2> QED
    BY <1>8, <2>3
<1>15. SubSeq(o, m + 1, Len(o)) = b
  <2> DEFINE c == SubSeq(o, m + 1, Len(o))
  <2>1. m + 1 \in Int /\ Len(o) \in Int /\ \A k \in (m + 1) .. Len(o) : o[k] \in Nat
    BY <1>5, <1>6, <1>10
  <2>2. /\ c \in Seq(Nat)
        /\ Len(c) = IF m + 1 <= Len(o) THEN Len(o) - (m + 1) + 1 ELSE 0
        /\ \A i \in 1 .. (Len(o) - (m + 1) + 1) : c[i] = o[(m + 1) + i - 1]
    BY <2>1, SubSeqProperties
  <2> HIDE DEF c
  <2>3. Len(c) = Len(b)
    BY <1>5, <1>6, <2>2
  <2>4. ASSUME NEW i \in 1 .. Len(c) PROVE c[i] = b[i]
    <3>1. i \in 1 .. (Len(o) - (m + 1) + 1) /\ (m + 1) + i - 1 = m + i
      BY <1>5, <1>6, <2>3
    <3>2. m + i \in (m + 1) .. Len(o) /\ (m + i) - m = i
      BY <1>5, <1>6, <2>3
    <3> QED
      BY <1>8, <2>2, <3>1, <3>2
  <2>5. c = b
    BY <1>5, <2>2, <2>3, <2>4, SeqEqual
  <2> QED
    BY <2>5 DEF c
<1>16. Reordered(o, m, n, M)
  <2>1. Len(o) \in Nat /\ m \in 0 .. Len(o)
    BY <1>5, <1>6
  <2> QED
    BY <2>1, <1>6, <1>9, <1>10, <1>11, <1>12, <1>13, <1>14 DEF Reordered
<1> QED
  BY <1>2, <1>15, <1>16 DEF M, b

\* Neighbours among the arguments that both move stay neighbours.
LEMMA Neighbours ==
    ASSUME NEW n \in Nat, NEW M \in SUBSET (1 .. n), NEW o, NEW m, Reordered(o, m, n, M),
           NEW k \in 1 .. m, o[k] - 1 \in M
    PROVE  k > 1 /\ o[k - 1] = o[k] - 1
<1>1. /\ m \in Nat /\ k \in Nat
      /\ \A j \in 1 .. m : o[j] \in M
      /\ \A j, i \in 1 .. m : j < i => o[j] < o[i]
  BY DEF Reordered
<1>2. \A x \in M : x \in Nat
  OBVIOUS
<1>3. PICK j \in 1 .. m : o[j] = o[k] - 1
  BY DEF Reordered
<1>4. o[j] \in Nat /\ o[k] \in Nat /\ o[j] < o[k] /\ j \in Nat
  <2>1. o[j] \in M /\ o[k] \in M
    BY <1>1
  <2>2. o[j] \in Nat /\ o[k] \in Nat
    BY <1>2, <2>1
  <2>3. o[j] < o[k]
    BY <1>3, <2>2
  <2>4. j \in Nat
    BY <1>1
  <2> QED
    BY <2>2, <2>3, <2>4
<1>5. j < k
  <2>1. k < j => o[k] < o[j]
    BY <1>1
  <2>2. j # k
    BY <1>4
  <2> QED
    BY <1>1, <1>4, <2>1, <2>2
<1>6. j = k - 1
  <2> SUFFICES ASSUME j < k - 1 PROVE FALSE
    BY <1>1, <1>4, <1>5
  <2>1. k - 1 \in 1 .. m /\ k - 1 < k
    BY <1>1, <1>4
  <2>2. o[j] < o[k - 1] /\ o[k - 1] < o[k]
    BY <1>1, <2>1
  <2>3. o[k - 1] \in Nat
    BY <1>1, <1>2, <2>1
  <2> QED
    BY <1>3, <1>4, <2>2, <2>3
<1> QED
  BY <1>3, <1>4, <1>5, <1>6

\* What goes with M takes the same values in the new order.
LEMMA ValuesKept ==
    ASSUME NEW n \in Nat, NEW args, NEW M, NEW V, Layout(args, n, M, V),
           NEW o, NEW m, Reordered(o, m, n, M)
    PROVE  \A k \in 1 .. m : k \in Values(args, o) <=> o[k] \in V
<1> DEFINE W == Values(args, o)
           T == {k \in 1 .. m : ~(k \in W <=> o[k] \in V)}
<1> SUFFICES ASSUME T # {} PROVE FALSE
  OBVIOUS
<1>1. /\ o \in Seq(Nat) /\ Len(o) \in Nat /\ m \in Nat /\ m <= Len(o)
      /\ \A j \in 1 .. m : o[j] \in M
      /\ \A j, i \in 1 .. m : j < i => o[j] < o[i]
      /\ \A x \in M : \E j \in 1 .. m : o[j] = x
  BY DEF Reordered
<1>2. M \in SUBSET (1 .. n) /\ \A x \in M : x \in Nat /\ x >= 1 /\ x <= n
  BY DEF Layout
<1>3. \A k \in 1 .. m : k \in W <=> k > 1 /\ args[o[k - 1]] = "option" /\ k - 1 \notin W
  <2>1. \A k \in 1 .. Len(o) : k \in W <=> k > 1 /\ args[o[k - 1]] = "option" /\ k - 1 \notin W
    BY <1>1, ValuesAre
  <2>2. \A k \in 1 .. m : k \in 1 .. Len(o)
    BY <1>1
  <2> HIDE DEF W
  <2> QED
    BY <2>1, <2>2
<1>4. \A x \in M : x \in V <=> x > 1 /\ args[x - 1] = "option" /\ x - 1 \notin V
  BY DEF Layout
<1>5. PICK k \in T : \A j \in T : k <= j
  <2>1. T \in SUBSET Nat
    BY <1>1
  <2> HIDE DEF T
  <2> QED
    BY <2>1, LeastOf
<1>6. k \in 1 .. m /\ k \in Nat /\ ~(k \in W <=> o[k] \in V)
  BY <1>1
<1>7. k > 1 => (k - 1 \in W <=> o[k - 1] \in V)
  <2> SUFFICES ASSUME k > 1 PROVE k - 1 \in 1 .. m /\ k - 1 \notin T
    OBVIOUS
  <2>1. k - 1 \in 1 .. m
    BY <1>1, <1>6
  <2>2. ~(k <= k - 1)
    BY <1>6
  <2> HIDE DEF T
  <2> QED
    BY <1>5, <2>1, <2>2
<1> HIDE DEF T, W
<1> DEFINE p == o[k]
<1>8. p \in M /\ p \in Nat /\ p >= 1 /\ p <= n
  BY <1>1, <1>2, <1>6
<1>9. CASE p - 1 \in M
  <2>1. k > 1 /\ o[k - 1] = p - 1
    BY <1>2, <1>6, <1>9, Neighbours
  <2>2. p > 1
    BY <1>2, <1>8, <1>9
  <2>3. p \in V <=> args[p - 1] = "option" /\ p - 1 \notin V
    BY <1>4, <1>8, <2>2
  <2>4. k \in W <=> args[p - 1] = "option" /\ k - 1 \notin W
    BY <1>3, <1>6, <2>1
  <2> QED
    BY <1>6, <1>7, <2>1, <2>3, <2>4
<1>10. CASE p - 1 \notin M
  <2>1. p \notin V
    <3> SUFFICES ASSUME p \in V PROVE FALSE
      OBVIOUS
    <3>1. p > 1 /\ args[p - 1] = "option"
      BY <1>4, <1>8
    <3>2. p - 1 \in 1 .. n
      BY <1>8, <3>1
    <3>3. args[p - 1] = "word"
      BY <1>10, <3>2 DEF Layout
    <3> QED
      BY <3>1, <3>3
  <2>2. k \in W
    BY <1>6, <2>1
  <2>3. k > 1 /\ args[o[k - 1]] = "option"
    BY <1>3, <1>6, <2>2
  <2> DEFINE q == o[k - 1]
  <2>4. q \in M /\ q \in Nat /\ q < p
    <3>1. k - 1 \in 1 .. m /\ k - 1 < k
      BY <1>1, <1>6, <2>3
    <3> QED
      BY <1>1, <1>2, <1>6, <3>1
  <2>5. q + 1 \in M
    <3>1. q \in 1 .. n /\ q # n
      BY <1>2, <1>8, <2>4
    <3> QED
      BY <2>3, <3>1 DEF Layout
  <2>6. PICK j \in 1 .. m : o[j] = q + 1
    BY <1>1, <2>5
  <2>7. q + 1 < p
    BY <1>8, <1>10, <2>4, <2>5
  <2>8. k - 1 \in 1 .. m /\ j \in Nat
    BY <1>1, <1>6, <2>3
  <2>9. j < k
    <3>1. k < j => o[k] < o[j]
      BY <1>1, <1>6
    <3> QED
      BY <1>6, <1>8, <2>4, <2>6, <2>7, <2>8, <3>1
  <2>10. k - 1 < j
    <3>1. j < k - 1 => o[j] < o[k - 1]
      BY <1>1, <2>8
    <3>2. j # k - 1
      BY <2>4, <2>6
    <3> QED
      BY <1>6, <2>4, <2>6, <2>8, <3>1, <3>2
  <2> QED
    BY <1>6, <2>8, <2>9, <2>10
<1> QED
  BY <1>9, <1>10

\* The last option lacks its value.
Lacking(args, n, V) == n > 0 /\ n \notin V /\ args[n] = "option"

\* No argument is taken for a value, unless the last option lacks one.
LEMMA ValuesAll ==
    ASSUME NEW n \in Nat, NEW args, NEW M, NEW V, Layout(args, n, M, V),
           NEW o, NEW m, Reordered(o, m, n, M),
           m = Len(o) \/ ~Lacking(args, n, V)
    PROVE  \A k \in 1 .. Len(o) : k \in Values(args, o) <=> o[k] \in V
<1> DEFINE W == Values(args, o)
<1>1. /\ o \in Seq(Nat) /\ Len(o) \in Nat /\ m \in Nat /\ m <= Len(o)
      /\ \A j \in 1 .. m : o[j] \in M
      /\ \A j \in (m + 1) .. Len(o) : o[j] \in (1 .. n) \ M
      /\ \A j, i \in 1 .. m : j < i => o[j] < o[i]
      /\ \A x \in M : \E j \in 1 .. m : o[j] = x
  BY DEF Reordered
<1>2. \A k \in 1 .. Len(o) : k \in W <=> k > 1 /\ args[o[k - 1]] = "option" /\ k - 1 \notin W
  BY <1>1, ValuesAre
<1>3. \A k \in 1 .. m : k \in W <=> o[k] \in V
  BY ValuesKept
<1> HIDE DEF W
<1>4. V \subseteq M /\ M \subseteq 1 .. n /\ \A i \in 1 .. n : i \notin M => args[i] = "word"
  BY DEF Layout
<1>5. ASSUME NEW k \in (m + 1) .. Len(o) PROVE o[k] \notin V /\ k \notin W
  <2>1. o[k] \in (1 .. n) \ M
    BY <1>1
  <2>2. o[k] \notin V
    BY <1>4, <2>1
  <2>3. ASSUME k \in W PROVE FALSE
    <3>1. k \in 1 .. Len(o) /\ k \in Nat
      BY <1>1
    <3>2. k > 1 /\ args[o[k - 1]] = "option" /\ k - 1 \notin W
      BY <1>2, <2>3, <3>1
    <3>3. CASE k > m + 1
      <4>1. k - 1 \in (m + 1) .. Len(o)
        BY <1>1, <3>1, <3>3
      <4>2. o[k - 1] \in (1 .. n) \ M
        BY <1>1, <4>1
      <4>3. args[o[k - 1]] = "word"
        BY <1>4, <4>2
      <4> QED
        BY <3>2, <4>3
    <3>4. CASE k = m + 1
      <4>1. k - 1 = m /\ m \in 1 .. m
        BY <1>1, <3>1, <3>2, <3>4
      <4> DEFINE q == o[m]
      <4>2. q \in M /\ args[q] = "option" /\ q \notin V
        BY <1>1, <1>3, <3>2, <4>1
      <4> HIDE DEF q
      <4>3. q \in 1 .. n /\ q \in Nat
        <5>1. q \in 1 .. n
          BY <1>4, <4>2
        <5> QED
          BY <5>1
      <4>4. q = n
        <5> SUFFICES ASSUME q # n PROVE FALSE
          OBVIOUS
        <5>1. q + 1 \in M
          BY <4>2, <4>3 DEF Layout
        <5>2. PICK j \in 1 .. m : o[j] = q + 1
          BY <1>1, <5>1
        <5>3. j < m => o[j] < q
          BY <1>1, <4>1 DEF q
        <5>4. j # m
          BY <4>3, <5>2 DEF q
        <5> QED
          BY <1>1, <4>3, <5>2, <5>3, <5>4
      <4>5. Lacking(args, n, V)
        BY <4>2, <4>3, <4>4 DEF Lacking
      <4>6. m # Len(o)
        BY <1>1, <3>1, <3>4
      <4> QED
        BY <4>5, <4>6
    <3> QED
      BY <1>1, <3>3, <3>4
  <2> QED
    BY <2>2, <2>3
<1>6. ASSUME NEW k \in 1 .. Len(o) PROVE k \in W <=> o[k] \in V
  <2>1. CASE k <= m
    BY <1>1, <1>3, <2>1
  <2>2. CASE k > m
    <3>1. k \in (m + 1) .. Len(o)
      BY <1>1, <2>2
    <3> QED
      BY <1>5, <3>1
  <2> QED
    BY <1>1, <2>1, <2>2
<1> QED
  BY <1>6 DEF W

\* The flag package reads up to the first word that is no value.
LEMMA ParseIs ==
    ASSUME NEW args, NEW o \in Seq(Nat)
    PROVE  \E s \in 1 .. (Len(o) + 1) :
              /\ Parse(args, o) = Reading(args, o, 1 .. (s - 1), SubSeq(o, s, Len(o)))
              /\ s <= Len(o) => s \notin Values(args, o) /\ args[o[s]] = "word"
              /\ \A k \in 1 .. (s - 1) : k \in Values(args, o) \/ args[o[k]] # "word"
<1> DEFINE W == Values(args, o)
           stops == {i \in DOMAIN o : i \notin W /\ args[o[i]] = "word"}
           s == IF stops = {} THEN Len(o) + 1
                ELSE CHOOSE i \in stops : \A k \in stops : i <= k
<1>1. Len(o) \in Nat /\ DOMAIN o = 1 .. Len(o)
  OBVIOUS
<1>2. Parse(args, o) = Reading(args, o, 1 .. (s - 1), SubSeq(o, s, Len(o)))
  BY DEF Parse
<1> HIDE DEF W
<1>3. \A k \in 1 .. Len(o) : k \in stops <=> k \notin W /\ args[o[k]] = "word"
  BY <1>1
<1>4. stops \in SUBSET Nat /\ stops \subseteq 1 .. Len(o)
  BY <1>1
<1> HIDE DEF stops
<1>5. stops # {} => s \in stops /\ \A k \in stops : s <= k
  <2>1. stops # {} => \E i \in stops : \A k \in stops : i <= k
    BY <1>4, LeastOf
  <2> QED
    BY <2>1
<1>6. stops = {} => s = Len(o) + 1
  OBVIOUS
<1> HIDE DEF s
<1>7. s \in 1 .. (Len(o) + 1)
  <2>1. stops # {} => s \in 1 .. Len(o)
    BY <1>4, <1>5
  <2>2. Len(o) + 1 \in 1 .. (Len(o) + 1) /\ 1 .. Len(o) \subseteq 1 .. (Len(o) + 1)
    BY <1>1
  <2> QED
    BY <1>6, <2>1, <2>2
<1>8. s <= Len(o) => s \in stops
  BY <1>1, <1>5, <1>6
<1>9. \A k \in 1 .. (s - 1) : k \in 1 .. Len(o) /\ k \notin stops
  BY <1>1, <1>4, <1>5, <1>6, <1>7
<1>10. /\ s <= Len(o) => s \notin W /\ args[o[s]] = "word"
       /\ \A k \in 1 .. (s - 1) : k \in W \/ args[o[k]] # "word"
  BY <1>3, <1>4, <1>8, <1>9
<1> QED
  BY <1>2, <1>7, <1>10 DEF W

\* The words that are no values.
Plain(args, n, V) == {i \in (1 .. n) \ V : args[i] = "word"}

LEMMA MeantIs ==
    ASSUME NEW n \in Nat, NEW args \in [1 .. n -> Kinds],
           NEW V, V = Values(args, Positions(args))
    PROVE  LET p == Positions(args)
               rest == Plain(args, n, V)
           IN Meant(args) = Reading(args, p, (1 .. n) \ rest, InOrder(rest, n))
<1>1. DOMAIN Positions(args) = 1 .. n /\ Len(args) = n
  BY PositionsAre
<1> QED
  BY <1>1 DEF Meant, Plain

\* Each field of a reading.
LEMMA Fields ==
    ASSUME NEW args, NEW o, NEW F, NEW rest
    PROVE  LET r == Reading(args, o, F, rest)
           IN /\ r.flags = {o[i] : i \in F \ Values(args, o)}
              /\ r.with = {<<o[i - 1], o[i]>> : i \in F \cap Values(args, o)}
              /\ r.rest = rest
              /\ r.bad <=> /\ o # <<>> /\ Len(o) \in F \ Values(args, o)
                           /\ args[o[Len(o)]] = "option"
BY DEF Reading

LEMMA PlainIs ==
    ASSUME NEW n \in Nat, NEW args, NEW M, NEW V, Layout(args, n, M, V)
    PROVE  /\ Plain(args, n, V) \in SUBSET (1 .. n)
           /\ (1 .. n) \ M \subseteq Plain(args, n, V)
           /\ \A i \in 1 .. n : i \in Plain(args, n, V) <=> i \notin V /\ args[i] = "word"
BY DEF Plain, Layout

\* When nothing has to move, the flag package stops at the first word.
LEMMA InPlace ==
    ASSUME NEW n \in Nat, NEW args \in [1 .. n -> Kinds],
           NEW V, V = Values(args, Positions(args)), V \subseteq 1 .. n,
           NEW t \in 1 .. (n + 1), Plain(args, n, V) = t .. n
    PROVE  Parse(args, Positions(args)) = Meant(args)
<1> DEFINE p == Positions(args)
           rest == Plain(args, n, V)
<1>1. /\ p \in Seq(Nat) /\ Len(p) = n /\ DOMAIN p = 1 .. n
      /\ \A i \in 1 .. n : p[i] = i
  BY PositionsAre
<1>2. \A i \in 1 .. n : i \in rest <=> i \notin V /\ args[i] = "word"
  BY DEF Plain
<1> HIDE DEF p, rest
<1>3. PICK s \in 1 .. (n + 1) :
         /\ Parse(args, p) = Reading(args, p, 1 .. (s - 1), SubSeq(p, s, n))
         /\ s <= n => s \notin V /\ args[p[s]] = "word"
         /\ \A k \in 1 .. (s - 1) : k \in V \/ args[p[k]] # "word"
  BY <1>1, ParseIs DEF p
<1>4. s = t
  <2>1. s <= n => s \in rest
    <3>1. s <= n => s \in 1 .. n /\ p[s] = s
      BY <1>1
    <3> QED
      BY <1>2, <1>3, <3>1
  <2>2. \A k \in 1 .. (s - 1) : k \notin rest
    <3>1. \A k \in 1 .. (s - 1) : k \in 1 .. n /\ p[k] = k
      BY <1>1
    <3> QED
      BY <1>2, <1>3, <3>1
  <2>3. rest = t .. n
    BY DEF rest
  <2>4. t <= n => t \in rest
    BY <2>3
  <2>5. ~(s < t)
    BY <2>1, <2>3
  <2>6. ~(t < s)
    BY <2>2, <2>4
  <2> QED
    BY <2>5, <2>6
<1>5. 1 .. (s - 1) = (1 .. n) \ rest
  <2>1. rest = s .. n
    BY <1>4 DEF rest
  <2> QED
    BY <2>1
<1>6. SubSeq(p, s, n) = InOrder(rest, n)
  <2> DEFINE c == SubSeq(p, s, n)
  <2>1. /\ c \in Seq(Nat) /\ Len(c) = (IF s <= n THEN n - s + 1 ELSE 0)
        /\ \A i \in 1 .. (n - s + 1) : c[i] = p[s + i - 1]
    BY <1>1, SubSeqProperties
  <2> HIDE DEF c
  <2>2. Len(c) = n - s + 1
    BY <2>1
  <2>3. \A i \in 1 .. Len(c) : c[i] = s + i - 1 /\ c[i] \in s .. n
    BY <1>1, <2>1, <2>2
  <2>4. \A i, j \in 1 .. Len(c) : i < j => c[i] < c[j]
    BY <2>2, <2>3
  <2>5. ASSUME NEW x \in s .. n PROVE \E i \in 1 .. Len(c) : c[i] = x
    <3>1. x - s + 1 \in 1 .. Len(c) /\ s + (x - s + 1) - 1 = x
      BY <2>2
    <3> QED
      BY <2>3, <3>1
  <2>6. Sorted(c, s .. n)
    BY <2>1, <2>3, <2>4, <2>5 DEF Sorted
  <2>7. rest = s .. n /\ rest \in SUBSET (1 .. n)
    BY <1>4 DEF rest
  <2>8. Sorted(InOrder(rest, n), rest)
    BY <2>7, InOrderIs
  <2> QED
    BY <2>6, <2>7, <2>8, SortedIsUnique DEF c
<1>7. Meant(args) = Reading(args, p, (1 .. n) \ rest, InOrder(rest, n))
  BY MeantIs DEF p, rest
<1> QED
  BY <1>3, <1>5, <1>6, <1>7 DEF p

\* With no word misled, the words that go with flags are their values, and
\* the arguments are what remains.
LEMMA NoneMisled ==
    ASSUME NEW n \in Nat, NEW args \in [1 .. n -> Kinds],
           NEW V, V = Values(args, Positions(args)),
           NEW M, Layout(args, n, M, V),
           NEW o, NEW m, Reordered(o, m, n, M),
           SubSeq(o, m + 1, Len(o)) = InOrder((1 .. n) \ M, n),
           m < Len(o), ~Lacking(args, n, V),
           Plain(args, n, V) = (1 .. n) \ M
    PROVE  Parse(args, o) = Meant(args)
<1> DEFINE p == Positions(args)
           rest == Plain(args, n, V)
           W == Values(args, o)
           F == (1 .. n) \ rest
<1>1. /\ p \in Seq(Nat) /\ Len(p) = n /\ \A i \in 1 .. n : p[i] = i
  BY PositionsAre
<1>2. /\ o \in Seq(Nat) /\ Len(o) \in Nat /\ m \in Nat /\ m <= Len(o)
      /\ \A j \in 1 .. m : o[j] \in M
      /\ \A j \in (m + 1) .. Len(o) : o[j] \in (1 .. n) \ M
      /\ \A x \in M : \E j \in 1 .. m : o[j] = x
  BY DEF Reordered
<1>3. \A k \in 1 .. Len(o) : k \in W <=> o[k] \in V
  BY ValuesAll
<1>4. /\ M \in SUBSET (1 .. n) /\ V \subseteq M
      /\ \A i \in 1 .. n : i \notin M => args[i] = "word"
      /\ \A i \in 1 .. n : i \in V <=> i > 1 /\ args[i - 1] = "option" /\ i - 1 \notin V
  BY DEF Layout
<1>5. \A i \in 1 .. n : i \in rest <=> i \notin V /\ args[i] = "word"
  BY DEF Plain
<1>6. F = M /\ \A i \in M : i \in 1 .. n /\ i \notin rest
  BY <1>4
<1>7. Meant(args) = Reading(args, p, F, InOrder(rest, n))
  BY MeantIs
<1>8. V = Values(args, p)
  OBVIOUS
<1> HIDE DEF p, rest, W, F
<1>9. PICK s \in 1 .. (Len(o) + 1) :
         /\ Parse(args, o) = Reading(args, o, 1 .. (s - 1), SubSeq(o, s, Len(o)))
         /\ s <= Len(o) => s \notin W /\ args[o[s]] = "word"
         /\ \A k \in 1 .. (s - 1) : k \in W \/ args[o[k]] # "word"
  <2>1. o \in Seq(Nat)
    BY <1>2
  <2> QED
    BY <2>1, ParseIs DEF W
<1>10. InOrder(rest, n) = SubSeq(o, m + 1, Len(o))
  BY DEF rest
<1>11. s = m + 1
  <2>1. ~(s < m + 1)
    <3> SUFFICES ASSUME s < m + 1 PROVE FALSE
      OBVIOUS
    <3>1. s \in 1 .. m /\ s \in 1 .. Len(o) /\ s <= Len(o)
      BY <1>2
    <3>2. o[s] \in M /\ o[s] \notin V /\ args[o[s]] = "word"
      BY <1>2, <1>3, <1>9, <3>1
    <3>3. o[s] \in rest
      BY <1>5, <1>6, <3>2
    <3> QED
      BY <1>6, <3>2, <3>3
  <2>2. ~(s > m + 1)
    <3> SUFFICES ASSUME s > m + 1 PROVE FALSE
      OBVIOUS
    <3>1. m + 1 \in 1 .. (s - 1) /\ m + 1 \in (m + 1) .. Len(o) /\ m + 1 \in 1 .. Len(o)
      BY <1>2
    <3>2. o[m + 1] \in (1 .. n) \ M
      BY <1>2, <3>1
    <3>3. args[o[m + 1]] = "word" /\ o[m + 1] \notin V
      BY <1>4, <3>2
    <3> QED
      BY <1>3, <1>9, <3>1, <3>3
  <2> QED
    BY <1>2, <2>1, <2>2
<1>12. 1 .. (s - 1) = 1 .. m /\ \A k \in 1 .. m : k \in 1 .. Len(o)
  BY <1>2, <1>11
<1>13. {o[i] : i \in (1 .. m) \ W} = {p[i] : i \in F \ V}
  <2>1. \A i \in F \ V : p[i] = i
    BY <1>1, <1>6
  <2>2. ASSUME NEW k \in (1 .. m) \ W PROVE o[k] \in F \ V
    BY <1>2, <1>3, <1>6, <1>12
  <2>3. ASSUME NEW i \in F \ V PROVE \E k \in (1 .. m) \ W : o[k] = i
    <3>1. PICK k \in 1 .. m : o[k] = i
      BY <1>2, <1>6
    <3> QED
      BY <1>3, <1>12, <3>1
  <2> QED
    BY <2>1, <2>2, <2>3
<1>14. {<<o[i - 1], o[i]>> : i \in (1 .. m) \cap W} = {<<p[i - 1], p[i]>> : i \in F \cap V}
  <2>1. ASSUME NEW i \in F \cap V PROVE p[i] = i /\ p[i - 1] = i - 1 /\ i - 1 \in M
    <3>1. i \in 1 .. n /\ i > 1 /\ args[i - 1] = "option"
      BY <1>4, <1>6
    <3>2. i - 1 \in 1 .. n
      BY <3>1
    <3> QED
      BY <1>1, <1>4, <3>1, <3>2
  <2>2. ASSUME NEW k \in (1 .. m) \cap W
        PROVE  o[k] \in F \cap V /\ <<o[k - 1], o[k]>> = <<p[o[k] - 1], p[o[k]]>>
    <3>1. o[k] \in F \cap V
      BY <1>2, <1>3, <1>6, <1>12
    <3>2. o[k] - 1 \in M
      BY <2>1, <3>1
    <3>3. o[k - 1] = o[k] - 1
      BY <1>4, <3>2, Neighbours
    <3> QED
      BY <2>1, <3>1, <3>3
  <2>3. ASSUME NEW i \in F \cap V
        PROVE  \E k \in (1 .. m) \cap W : <<o[k - 1], o[k]>> = <<p[i - 1], p[i]>>
    <3>1. PICK k \in 1 .. m : o[k] = i
      BY <1>2, <1>6
    <3>2. k \in (1 .. m) \cap W
      BY <1>3, <1>12, <3>1
    <3> QED
      BY <2>2, <3>1, <3>2
  <2> QED
    BY <2>2, <2>3
<1>15. ~(Len(o) \in (1 .. m) \ W)
  BY <1>2
<1>16. ~(p # <<>> /\ Len(p) \in F \ V /\ args[p[Len(p)]] = "option")
  <2> SUFFICES ASSUME n \in F \ V, args[p[n]] = "option" PROVE FALSE
    BY <1>1
  <2>1. n \in 1 .. n /\ n > 0 /\ p[n] = n
    BY <1>1, <1>6
  <2> QED
    BY <2>1 DEF Lacking
<1>17. Reading(args, o, 1 .. m, InOrder(rest, n)) = Reading(args, p, F, InOrder(rest, n))
  <2>1. {o[i] : i \in (1 .. m) \ Values(args, o)} = {p[i] : i \in F \ Values(args, p)}
    BY <1>8, <1>13 DEF W
  <2>2. {<<o[i - 1], o[i]>> : i \in (1 .. m) \cap Values(args, o)}
           = {<<p[i - 1], p[i]>> : i \in F \cap Values(args, p)}
    BY <1>8, <1>14 DEF W
  <2>3. o # <<>> /\ Len(o) \in (1 .. m) \ Values(args, o) /\ args[o[Len(o)]] = "option"
           <=> p # <<>> /\ Len(p) \in F \ Values(args, p) /\ args[p[Len(p)]] = "option"
    BY <1>8, <1>15, <1>16 DEF W
  <2>4. (o # <<>> /\ Len(o) \in (1 .. m) \ Values(args, o) /\ args[o[Len(o)]] = "option")
           = (p # <<>> /\ Len(p) \in F \ Values(args, p) /\ args[p[Len(p)]] = "option")
    BY <2>3
  <2> QED
    BY <2>1, <2>2, <2>4 DEF Reading
<1> QED
  BY <1>7, <1>9, <1>10, <1>11, <1>12, <1>17

\* What the flag package sees before the first word that is no value, when
\* that is a word reorderArgs moved: u, the first of those.
LEMMA Stopped ==
    ASSUME NEW n \in Nat, NEW args \in [1 .. n -> Kinds],
           NEW V, V = Values(args, Positions(args)),
           NEW M, Layout(args, n, M, V),
           NEW o, NEW m, Reordered(o, m, n, M),
           NEW v \in M, v \in Plain(args, n, V)
    PROVE  \E s \in 1 .. m :
              /\ Parse(args, o) = Reading(args, o, 1 .. (s - 1), SubSeq(o, s, Len(o)))
              /\ o[s] \in M /\ o[s] \in Plain(args, n, V) /\ o[s] <= v
<1> DEFINE W == Values(args, o)
           rest == Plain(args, n, V)
<1>1. /\ o \in Seq(Nat) /\ Len(o) \in Nat /\ m \in Nat /\ m <= Len(o)
      /\ \A j \in 1 .. m : o[j] \in M
      /\ \A x \in M : \E j \in 1 .. m : o[j] = x
      /\ \A j, k \in 1 .. m : j < k => o[j] < o[k]
  BY DEF Reordered
<1>2. M \subseteq 1 .. n
  BY DEF Layout
<1>3. \A k \in 1 .. m : k \in W <=> o[k] \in V
  BY ValuesKept
<1>4. \A i \in 1 .. n : i \in rest <=> i \notin V /\ args[i] = "word"
  BY DEF Plain
<1>5. PICK s \in 1 .. (Len(o) + 1) :
         /\ Parse(args, o) = Reading(args, o, 1 .. (s - 1), SubSeq(o, s, Len(o)))
         /\ s <= Len(o) => s \notin W /\ args[o[s]] = "word"
         /\ \A k \in 1 .. (s - 1) : k \in W \/ args[o[k]] # "word"
  BY <1>1, ParseIs
<1> HIDE DEF W, rest
<1>6. PICK j \in 1 .. m : o[j] = v
  BY <1>1
<1>7. v \in rest /\ v \in 1 .. n
  BY <1>2 DEF rest
<1>8. j \notin W /\ args[o[j]] = "word"
  BY <1>3, <1>4, <1>6, <1>7
<1>9. s <= j
  <2>1. j \notin 1 .. (s - 1)
    BY <1>5, <1>8
  <2> QED
    BY <1>1, <2>1
<1>10. s \in 1 .. m /\ s <= Len(o)
  BY <1>1, <1>9
<1>11. o[s] \in M /\ o[s] \in 1 .. n /\ o[s] \in Nat
  BY <1>1, <1>2, <1>10
<1>12. o[s] \in rest
  BY <1>3, <1>4, <1>5, <1>10, <1>11
<1>13. o[s] <= v
  <2>1. s < j => o[s] < o[j]
    BY <1>1, <1>10
  <2>2. v \in Nat /\ s \in Nat /\ j \in Nat
    BY <1>1, <1>7
  <2> QED
    BY <1>6, <1>9, <1>11, <2>1, <2>2
<1> QED
  BY <1>5, <1>10, <1>11, <1>12, <1>13 DEF rest

\* A flag behind a misled word is lost to the flag package.
LEMMA FlagLost ==
    ASSUME NEW n \in Nat, NEW args \in [1 .. n -> Kinds],
           NEW V, V = Values(args, Positions(args)),
           NEW M, Layout(args, n, M, V),
           NEW o, NEW m, Reordered(o, m, n, M),
           NEW v \in M, v \in Plain(args, n, V),
           NEW k \in 1 .. n, k > v, args[k] # "word"
    PROVE  Parse(args, o) # Meant(args)
<1> DEFINE p == Positions(args)
           rest == Plain(args, n, V)
           W == Values(args, o)
           F == (1 .. n) \ rest
           seen == Parse(args, o)
           meant == Meant(args)
<1>1. PICK s \in 1 .. m :
         /\ seen = Reading(args, o, 1 .. (s - 1), SubSeq(o, s, Len(o)))
         /\ o[s] \in M /\ o[s] <= v
  BY Stopped
<1>2. \A i \in 1 .. n : p[i] = i
  BY PositionsAre
<1>3. /\ m \in Nat /\ \A i \in 1 .. m : o[i] \in M
      /\ \A j, i \in 1 .. m : j < i => o[j] < o[i]
  BY DEF Reordered
<1>4. M \subseteq 1 .. n /\ \A i \in V : i > 1 /\ i \in 1 .. n
  BY DEF Layout
<1>5. /\ seen.flags = {o[i] : i \in (1 .. (s - 1)) \ W}
      /\ seen.with = {<<o[i - 1], o[i]>> : i \in (1 .. (s - 1)) \cap W}
  <2> DEFINE r == Reading(args, o, 1 .. (s - 1), SubSeq(o, s, Len(o)))
  <2>1. r.flags = {o[i] : i \in (1 .. (s - 1)) \ W}
    BY DEF Reading
  <2>2. r.with = {<<o[i - 1], o[i]>> : i \in (1 .. (s - 1)) \cap W}
    BY DEF Reading
  <2> HIDE DEF seen, W
  <2>3. seen = r
    BY <1>1
  <2> HIDE DEF r
  <2> QED
    BY <2>1, <2>2, <2>3
<1>6. meant = Reading(args, p, F, InOrder(rest, n))
  BY MeantIs
<1>7. /\ meant.flags = {p[i] : i \in F \ V}
      /\ meant.with = {<<p[i - 1], p[i]>> : i \in F \cap V}
  <2> DEFINE r == Reading(args, p, F, InOrder(rest, n))
  <2>1. r.flags = {p[i] : i \in F \ V}
    BY DEF Reading
  <2>2. r.with = {<<p[i - 1], p[i]>> : i \in F \cap V}
    BY DEF Reading
  <2> HIDE DEF meant, F, rest, p
  <2>3. meant = r
    BY <1>6
  <2> HIDE DEF r
  <2> QED
    BY <2>1, <2>2, <2>3
<1>8. k \in F
  BY DEF Plain
<1> HIDE DEF seen, meant, p, F, rest, W
<1>9. ASSUME NEW i \in 1 .. (s - 1) PROVE o[i] # k
  <2>1. i \in 1 .. m /\ i < s
    BY <1>3
  <2>2. o[i] < o[s] /\ o[i] \in 1 .. n /\ o[s] \in 1 .. n /\ v \in 1 .. n
    BY <1>1, <1>3, <1>4, <2>1
  <2> QED
    BY <1>1, <2>2
<1>10. CASE k \notin V
  <2>1. p[k] \in meant.flags /\ p[k] = k
    BY <1>2, <1>7, <1>8, <1>10
  <2>2. k \notin seen.flags
    BY <1>5, <1>9
  <2> QED
    BY <2>1, <2>2 DEF seen, meant
<1>11. CASE k \in V
  <2>1. p[k] = k
    BY <1>2
  <2>2. <<p[k - 1], k>> \in meant.with
    BY <1>7, <1>8, <1>11, <2>1
  <2>3. <<p[k - 1], k>> \notin seen.with
    BY <1>5, <1>9
  <2> QED
    BY <2>2, <2>3 DEF seen, meant
<1> QED
  BY <1>10, <1>11

\* An argument before a misled word comes after it.
LEMMA WordsSwapped ==
    ASSUME NEW n \in Nat, NEW args \in [1 .. n -> Kinds],
           NEW V, V = Values(args, Positions(args)),
           NEW M, Layout(args, n, M, V),
           NEW o, NEW m, Reordered(o, m, n, M),
           NEW v \in M, v \in Plain(args, n, V),
           NEW k \in (1 .. n) \ M, k < v
    PROVE  Parse(args, o) # Meant(args)
<1> DEFINE rest == Plain(args, n, V)
           seen == Parse(args, o)
           meant == Meant(args)
<1>1. PICK s \in 1 .. m :
         /\ seen = Reading(args, o, 1 .. (s - 1), SubSeq(o, s, Len(o)))
         /\ o[s] \in M /\ o[s] \in rest /\ o[s] <= v
  BY Stopped
<1>2. /\ o \in Seq(Nat) /\ Len(o) \in Nat /\ m \in Nat /\ m <= Len(o)
  BY DEF Reordered
<1>3. /\ M \subseteq 1 .. n
      /\ \A i \in M : args[i] = "word" => i > 1 /\ i - 1 \in M /\ args[i - 1] # "word"
      /\ \A i \in 1 .. n : i \notin M => args[i] = "word"
  BY DEF Layout
<1>4. seen.rest = SubSeq(o, s, Len(o))
  <2>1. Reading(args, o, 1 .. (s - 1), SubSeq(o, s, Len(o))).rest = SubSeq(o, s, Len(o))
    BY DEF Reading
  <2> HIDE DEF seen
  <2> QED
    BY <1>1, <2>1
<1>5. meant.rest = InOrder(rest, n)
  <2>1. meant = Reading(args, Positions(args), (1 .. n) \ rest, InOrder(rest, n))
    BY MeantIs
  <2> HIDE DEF meant, rest
  <2> QED
    BY <2>1, Fields
<1>6. rest \in SUBSET (1 .. n) /\ k \in rest /\ args[k] = "word" /\ args[v] = "word"
  <2>1. k \in rest /\ rest \in SUBSET (1 .. n)
    BY PlainIs
  <2>2. args[k] = "word" /\ args[v] = "word"
    BY <2>1 DEF Plain
  <2> QED
    BY <2>1, <2>2
<1>7. v \in 1 .. n /\ k \in 1 .. n /\ o[s] \in 1 .. n
  BY <1>1, <1>3
<1>8. CASE k < o[s]
  <2> DEFINE r == InOrder(rest, n)
             c == SubSeq(o, s, Len(o))
  <2>1. Sorted(r, rest)
    BY <1>6, InOrderIs
  <2>2. c[1] = o[s]
    <3>1. \A i \in s .. Len(o) : o[i] \in Nat
      BY <1>2
    <3>2. \A i \in 1 .. (Len(o) - s + 1) : c[i] = o[s + i - 1]
      BY <1>2, <3>1, SubSeqProperties
    <3>3. 1 \in 1 .. (Len(o) - s + 1) /\ s + 1 - 1 = s
      BY <1>2
    <3> HIDE DEF c
    <3> QED
      BY <3>2, <3>3
  <2> HIDE DEF r, c, rest
  <2>3. PICK j \in 1 .. Len(r) : r[j] = k
    BY <1>6, <2>1 DEF Sorted
  <2>4. Len(r) \in Nat /\ 1 \in 1 .. Len(r) /\ r[1] \in Nat
    <3>1. r \in Seq(Nat) /\ Len(r) \in Nat
      BY <2>1 DEF Sorted
    <3>2. 1 \in 1 .. Len(r)
      BY <2>3, <3>1
    <3> QED
      BY <3>1, <3>2
  <2>5. r[1] <= k
    <3>1. 1 < j => r[1] < r[j]
      BY <2>1, <2>4 DEF Sorted
    <3> QED
      BY <1>7, <2>3, <2>4, <3>1
  <2>6. r[1] # c[1]
    BY <1>7, <1>8, <2>2, <2>4, <2>5
  <2> QED
    BY <1>4, <1>5, <2>6 DEF r, c
<1>9. CASE k > o[s]
  <2>1. v > 1 /\ v - 1 \in M /\ args[v - 1] # "word"
    BY <1>3, <1>6
  <2>2. v - 1 \in 1 .. n /\ v - 1 # k
    BY <1>3, <1>6, <2>1
  <2>3. v - 1 > o[s]
    BY <1>7, <1>9, <2>2
  <2>4. o[s] \in M /\ o[s] \in Plain(args, n, V)
    BY <1>1
  <2> HIDE DEF seen, meant, rest
  <2> QED
    BY <2>1, <2>2, <2>3, <2>4, FlagLost
<1>10. k # o[s]
  BY <1>1
<1> QED
  BY <1>7, <1>8, <1>9, <1>10

\* When all that moves is in front already, the order stays.
LEMMA NothingMoves ==
    ASSUME NEW n \in Nat, NEW args \in [1 .. n -> Kinds],
           NEW V, V = Values(args, Positions(args)),
           NEW M, Layout(args, n, M, V),
           NEW o, NEW m, Reordered(o, m, n, M),
           NEW t \in 0 .. n, M = 1 .. t
    PROVE  o = Positions(args)
<1>1. /\ o \in Seq(Nat) /\ Len(o) \in Nat /\ m \in Nat /\ m <= Len(o)
      /\ \A j \in 1 .. m : o[j] \in M
      /\ \A j \in (m + 1) .. Len(o) : o[j] \in (1 .. n) \ M
      /\ \A x \in M : \E j \in 1 .. m : o[j] = x
      /\ \A x \in (1 .. n) \ M : \E j \in (m + 1) .. Len(o) : o[j] = x
      /\ \A j, i \in 1 .. m : j < i => o[j] < o[i]
      /\ \A j, i \in (m + 1) .. Len(o) : j < i => o[j] < o[i]
  <2>1. /\ o \in Seq(Nat) /\ Len(o) \in Nat /\ m \in 0 .. Len(o)
        /\ \A j \in 1 .. m : o[j] \in M
        /\ \A j \in (m + 1) .. Len(o) : o[j] \in (1 .. n) \ M
        /\ \A x \in M : \E j \in 1 .. m : o[j] = x
        /\ \A x \in (1 .. n) \ M : \E j \in (m + 1) .. Len(o) : o[j] = x
        /\ \A j, i \in 1 .. m : j < i => o[j] < o[i]
        /\ \A j, i \in (m + 1) .. Len(o) : j < i => o[j] < o[i]
    BY Zenon DEF Reordered
  <2>2. m \in Nat /\ m <= Len(o)
    BY <2>1
  <2> QED
    BY <2>1, <2>2, Zenon
<1>2. ASSUME NEW j \in 1 .. Len(o), NEW i \in 1 .. Len(o), j < i PROVE o[j] < o[i]
  <2>1. CASE i <= m
    <3>1. j \in 1 .. m /\ i \in 1 .. m
      BY <1>1, <1>2, <2>1
    <3> QED
      BY <1>1, <1>2, <3>1
  <2>2. CASE j > m
    <3>1. j \in (m + 1) .. Len(o) /\ i \in (m + 1) .. Len(o)
      BY <1>1, <1>2, <2>2
    <3> QED
      BY <1>1, <1>2, <3>1
  <2>3. CASE j <= m /\ i > m
    <3>1. j \in 1 .. m /\ i \in (m + 1) .. Len(o)
      BY <1>1, <1>2, <2>3
    <3>2. o[j] \in 1 .. t /\ o[i] \in (1 .. n) \ (1 .. t)
      BY <1>1, <3>1
    <3> QED
      BY <3>2
  <2> QED
    BY <1>1, <2>1, <2>2, <2>3
<1>3. ASSUME NEW j \in 1 .. Len(o) PROVE o[j] \in 1 .. n
  <2>1. CASE j <= m
    <3>1. o[j] \in 1 .. t
      BY <1>1, <2>1
    <3> QED
      BY <3>1
  <2>2. CASE j > m
    <3>1. j \in (m + 1) .. Len(o)
      BY <1>1, <2>2
    <3> QED
      BY <1>1, <3>1
  <2> QED
    BY <1>1, <2>1, <2>2
<1>4. ASSUME NEW x \in 1 .. n PROVE \E j \in 1 .. Len(o) : o[j] = x
  <2>1. \A j \in 1 .. m : j \in 1 .. Len(o)
    BY <1>1
  <2>2. \A j \in (m + 1) .. Len(o) : j \in 1 .. Len(o)
    BY <1>1
  <2>3. CASE x \in M
    BY <1>1, <2>1, <2>3
  <2>4. CASE x \notin M
    BY <1>1, <2>2, <2>4
  <2> QED
    BY <2>3, <2>4
<1>5. Sorted(o, 1 .. n)
  BY <1>1, <1>2, <1>3, <1>4 DEF Sorted
<1>6. Sorted(Positions(args), 1 .. n)
  BY PositionsAre
<1> QED
  BY <1>5, <1>6, SortedIsUnique

\* reorderArgs keeps its promise when no word of U, those that go with flags
\* and are not their values, has a flag after it or an argument before it.
LEMMA PromiseKept ==
    ASSUME NEW n \in Nat, NEW args \in [1 .. n -> Kinds],
           NEW V, V = Values(args, Positions(args)),
           NEW M, M = Moved(args),
           NEW U, U = {i \in M : i \in Plain(args, n, V)},
           \A u \in U : /\ \A k \in 1 .. n : k > u => args[k] = "word"
                        /\ \A k \in (1 .. n) \ M : ~(k < u),
           Lacking(args, n, V) => M = 1 .. n
    PROVE  Parse(args, ReorderArgs(args)) = Meant(args)
<1> DEFINE o == ReorderArgs(args)
           rest == Plain(args, n, V)
<1>1. PICK m : /\ Reordered(o, m, n, M)
               /\ SubSeq(o, m + 1, Len(o)) = InOrder((1 .. n) \ M, n)
  BY ReorderedIs
<1>2. Layout(args, n, M, V)
  BY LayoutOf
<1>3. /\ M \subseteq 1 .. n /\ V \subseteq M /\ V \subseteq 1 .. n
      /\ \A i \in M : args[i] = "word" => i > 1 /\ i - 1 \in M /\ args[i - 1] # "word"
      /\ \A i \in 1 .. n : i \notin M => args[i] = "word"
  BY <1>2 DEF Layout
<1>4. /\ rest \in SUBSET (1 .. n) /\ (1 .. n) \ M \subseteq rest
      /\ \A i \in 1 .. n : i \in rest <=> i \notin V /\ args[i] = "word"
  BY <1>2, PlainIs
<1> HIDE DEF o, rest
<1> DEFINE Cut(t, z) == M = 1 .. t /\ rest = z .. n
<1>5. ASSUME NEW t \in 0 .. n, NEW z \in 1 .. (n + 1), Cut(t, z)
      PROVE  Parse(args, o) = Meant(args)
  <2>1. o = Positions(args)
    BY <1>1, <1>2, <1>5, NothingMoves
  <2>2. Plain(args, n, V) = z .. n
    BY <1>5 DEF rest
  <2>3. Parse(args, Positions(args)) = Meant(args)
    BY <1>3, <2>2, InPlace
  <2> QED
    BY <2>1, <2>3
<1>6. CASE U = {}
  <2>1. rest = (1 .. n) \ M
    BY <1>4, <1>6 DEF rest
  <2>2. CASE M = 1 .. n
    <3>1. rest = (n + 1) .. n
      BY <2>1, <2>2
    <3>2. n \in 0 .. n /\ n + 1 \in 1 .. (n + 1)
      OBVIOUS
    <3>3. Cut(n, n + 1)
      BY <2>2, <3>1
    <3> HIDE DEF Cut
    <3> QED
      BY <1>5, <3>2, <3>3 DEF o
  <2>3. CASE M # 1 .. n
    <3>1. PICK x \in (1 .. n) \ M : TRUE
      BY <1>3, <2>3
    <3>2. m < Len(o)
      <4>1. \E k \in (m + 1) .. Len(o) : o[k] = x
        BY <1>1, <3>1 DEF Reordered
      <4>2. m \in Nat /\ Len(o) \in Nat
        BY <1>1 DEF Reordered
      <4> QED
        BY <4>1, <4>2
    <3>3. ~Lacking(args, n, V)
      BY <2>3
    <3>4. Plain(args, n, V) = (1 .. n) \ M
      BY <2>1 DEF rest
    <3> HIDE DEF Cut
    <3> QED
      BY <1>1, <1>2, <3>2, <3>3, <3>4, NoneMisled DEF o
  <2> QED
    BY <2>2, <2>3
<1>7. CASE U # {}
  <2>1. PICK u \in U : TRUE
    BY <1>7
  <2>2. u \in M /\ u \in rest /\ u \in 1 .. n /\ args[u] = "word" /\ u \notin V
    BY <1>3, <1>4, <2>1 DEF rest
  <2>3. /\ \A k \in 1 .. n : k > u => args[k] = "word"
        /\ \A k \in (1 .. n) \ M : ~(k < u)
    BY <2>1
  <2>4. ASSUME NEW k \in 1 .. n, k > u PROVE k \notin M
    <3> SUFFICES ASSUME k \in M PROVE FALSE
      OBVIOUS
    <3>1. k - 1 \in M /\ args[k - 1] # "word"
      BY <1>3, <2>3, <2>4
    <3>2. k - 1 \in 1 .. n /\ k - 1 >= u
      BY <1>3, <2>2, <2>4, <3>1
    <3>3. k - 1 # u
      BY <2>2, <3>1
    <3> QED
      BY <2>2, <2>3, <3>1, <3>2, <3>3
  <2>5. M = 1 .. u
    <3>1. \A k \in 1 .. u : k \in M
      BY <2>2, <2>3
    <3>2. \A k \in M : k \in 1 .. u
      BY <1>3, <2>2, <2>4
    <3> QED
      BY <3>1, <3>2
  <2>6. rest = u .. n
    <3>1. \A k \in u .. n : k \in rest
      BY <1>4, <2>2, <2>4
    <3>2. ASSUME NEW k \in rest PROVE k \in u .. n
      <4> SUFFICES ASSUME k < u PROVE FALSE
        BY <1>4, <2>2
      <4>1. k \in M /\ k \in 1 .. n
        BY <1>4, <2>2, <2>5
      <4>2. k \in U
        BY <3>2, <4>1 DEF rest
      <4>3. args[k + 1] = "word" /\ k + 1 \in M /\ k + 1 \in 1 .. n
        BY <1>4, <2>2, <2>5, <4>1, <4>2
      <4>4. args[k] # "word"
        BY <1>3, <4>1, <4>3
      <4> QED
        BY <1>4, <3>2, <4>1, <4>4
    <3> QED
      BY <3>1, <3>2
  <2>7. u \in 0 .. n /\ u \in 1 .. (n + 1)
    BY <2>2
  <2>8. Cut(u, u)
    BY <2>5, <2>6
  <2> HIDE DEF Cut
  <2> QED
    BY <1>5, <2>7, <2>8 DEF o
<1> QED
  BY <1>6, <1>7 DEF o

\* An option that lacks its value gets an argument for it: the error is lost.
LEMMA LackHidden ==
    ASSUME NEW n \in Nat, NEW args \in [1 .. n -> Kinds],
           NEW V, V = Values(args, Positions(args)),
           NEW M, Layout(args, n, M, V),
           NEW o, NEW m, Reordered(o, m, n, M),
           Lacking(args, n, V), NEW k \in (1 .. n) \ M
    PROVE  Parse(args, o) # Meant(args)
<1>1. /\ o \in Seq(Nat) /\ Len(o) \in Nat /\ m \in Nat
      /\ \A j \in (m + 1) .. Len(o) : o[j] \in (1 .. n) \ M
      /\ \E j \in (m + 1) .. Len(o) : o[j] = k
  BY DEF Reordered
<1>2. Len(o) \in (m + 1) .. Len(o)
  BY <1>1
<1>3. args[o[Len(o)]] = "word"
  BY <1>1, <1>2 DEF Layout
<1>4. ~Parse(args, o).bad
  <2>1. PICK s \in 1 .. (Len(o) + 1) :
           Parse(args, o) = Reading(args, o, 1 .. (s - 1), SubSeq(o, s, Len(o)))
    BY <1>1, ParseIs
  <2>2. Parse(args, o).bad => args[o[Len(o)]] = "option"
    BY <2>1, Fields
  <2> QED
    BY <1>3, <2>2
<1>5. Meant(args).bad
  <2> DEFINE p == Positions(args)
             rest == Plain(args, n, V)
  <2>1. Meant(args) = Reading(args, p, (1 .. n) \ rest, InOrder(rest, n))
    BY MeantIs
  <2>2. p \in Seq(Nat) /\ Len(p) = n /\ \A i \in 1 .. n : p[i] = i
    BY PositionsAre
  <2>3. n \in 1 .. n /\ n \notin V /\ args[n] = "option" /\ p # <<>> /\ p[n] = n
    BY <2>2 DEF Lacking
  <2>4. n \notin rest
    BY <2>3 DEF Plain
  <2> HIDE DEF p, rest
  <2>5. Len(p) \in ((1 .. n) \ rest) \ Values(args, p)
    BY <2>2, <2>3, <2>4 DEF p
  <2>6. args[p[Len(p)]] = "option"
    BY <2>2, <2>3
  <2> QED
    BY <2>1, <2>3, <2>5, <2>6, Fields
<1> QED
  BY <1>4, <1>5

LEMMA PromiseExact ==
    ASSUME NEW n \in Nat, NEW args \in [1 .. n -> Kinds]
    PROVE  LET Harmful(i) == \/ \E k \in DOMAIN args : k > i /\ IsFlag(args[k])
                             \/ \E k \in DOMAIN args : k < i /\ Loose(args, k)
           IN Parse(args, ReorderArgs(args)) = Meant(args) <=>
                 /\ \A i \in DOMAIN args : Misled(args, i) => ~Harmful(i)
                 /\ Meant(args).bad => \A i \in DOMAIN args : ~Loose(args, i)
<1> DEFINE V == Values(args, Positions(args))
           M == Moved(args)
           U == {i \in M : i \in Plain(args, n, V)}
           same == Parse(args, ReorderArgs(args)) = Meant(args)
           Harmful(i) == \/ \E k \in DOMAIN args : k > i /\ IsFlag(args[k])
                         \/ \E k \in DOMAIN args : k < i /\ Loose(args, k)
<1>1. DOMAIN args = 1 .. n
  OBVIOUS
<1>2. Layout(args, n, M, V)
  BY LayoutOf
<1>3. PICK m : Reordered(ReorderArgs(args), m, n, M)
  BY ReorderedIs
<1>4. \A i \in 1 .. n : /\ Loose(args, i) <=> i \notin M
                        /\ IsFlag(args[i]) <=> args[i] # "word"
                        /\ Misled(args, i) <=> i \in U
  <2>1. \A i \in 1 .. n : i \in Plain(args, n, V) <=> i \notin V /\ args[i] = "word"
    BY DEF Plain
  <2> HIDE DEF V
  <2> QED
    BY <2>1, LooseIsNotMoved DEF V
<1>5. M \subseteq 1 .. n /\ U \subseteq M
  BY <1>2 DEF Layout
<1>6. Meant(args).bad <=> Lacking(args, n, V)
  <2> DEFINE p == Positions(args)
             rest == Plain(args, n, V)
  <2>1. Meant(args) = Reading(args, p, (1 .. n) \ rest, InOrder(rest, n))
    BY MeantIs
  <2>2. p \in Seq(Nat) /\ Len(p) = n /\ \A i \in 1 .. n : p[i] = i
    BY PositionsAre
  <2>3. n \in (1 .. n) \ rest <=> n > 0 /\ ~(n \notin V /\ args[n] = "word")
    BY DEF Plain
  <2>4. Meant(args).bad <=> /\ p # <<>> /\ Len(p) \in ((1 .. n) \ rest) \ Values(args, p)
                            /\ args[p[Len(p)]] = "option"
    <3> HIDE DEF p, rest
    <3> QED
      BY <2>1, Fields
  <2>5. V = Values(args, p)
    OBVIOUS
  <2> HIDE DEF p, rest, V
  <2>6. n > 0 => p # <<>> /\ p[n] = n
    BY <2>2
  <2> QED
    BY <2>2, <2>3, <2>4, <2>5, <2>6 DEF Lacking
<1> DEFINE o == ReorderArgs(args)
<1> HIDE DEF V, M, o
<1>7. ASSUME NEW u \in U, NEW k \in 1 .. n, k > u, args[k] # "word" PROVE ~same
  <2>1. u \in M /\ u \in Plain(args, n, V)
    OBVIOUS
  <2> QED
    BY <1>2, <1>3, <1>7, <2>1, FlagLost DEF V, o
<1>8. ASSUME NEW u \in U, NEW k \in (1 .. n) \ M, k < u PROVE ~same
  <2>1. u \in M /\ u \in Plain(args, n, V)
    OBVIOUS
  <2> QED
    BY <1>2, <1>3, <1>8, <2>1, WordsSwapped DEF V, o
<1>9. ASSUME Lacking(args, n, V), NEW k \in (1 .. n) \ M PROVE ~same
  BY <1>2, <1>3, <1>9, LackHidden DEF V, o
<1>10. ASSUME \A u \in U : /\ \A k \in 1 .. n : k > u => args[k] = "word"
                           /\ \A k \in (1 .. n) \ M : ~(k < u),
              Lacking(args, n, V) => \A k \in 1 .. n : k \in M
       PROVE  same
  <2>1. Lacking(args, n, V) => M = 1 .. n
    BY <1>5, <1>10
  <2> QED
    BY <1>10, <2>1, PromiseKept DEF V, M
<1> HIDE DEF U, same
<1>11. ASSUME same
       PROVE  /\ \A i \in DOMAIN args : Misled(args, i) => ~Harmful(i)
              /\ Meant(args).bad => \A i \in DOMAIN args : ~Loose(args, i)
  BY <1>1, <1>4, <1>6, <1>7, <1>8, <1>9, <1>11
<1>12. ASSUME \A i \in DOMAIN args : Misled(args, i) => ~Harmful(i),
              Meant(args).bad => \A i \in DOMAIN args : ~Loose(args, i)
       PROVE  same
  <2>1. \A u \in U : u \in 1 .. n
    BY <1>5
  <2>2. ASSUME NEW u \in U
        PROVE  /\ \A k \in 1 .. n : k > u => args[k] = "word"
               /\ \A k \in (1 .. n) \ M : ~(k < u)
    BY <1>1, <1>4, <1>12, <2>1
  <2>3. Lacking(args, n, V) => \A k \in 1 .. n : k \in M
    BY <1>1, <1>4, <1>6, <1>12
  <2> QED
    BY <1>10, <2>2, <2>3
<1> QED
  BY <1>11, <1>12 DEF same

LEMMA ArgumentsCall ==
    ASSUME NEW n \in Nat, NEW args \in [1 .. n -> Kinds], ReadArguments(args)
    PROVE  ArgumentsUnderstood'
<1>1. call'.args = args /\ call'.seen = Parse(args, ReorderArgs(args))
  BY DEF ReadArguments
<1> QED
  BY <1>1, PromiseExact DEF ArgumentsUnderstood

-----------------------------------------------------------------------------
(* The last call, once more.                                               *)

Answers ==
    /\ SizesAsAsked /\ BytesReadBack /\ NamesReadBack /\ CopiesReadBack
    /\ ArgumentsUnderstood

LEMMA AnswersInit == Init => Answers
BY DEF Init, Nothing, Answers, SizesAsAsked, BytesReadBack, NamesReadBack, CopiesReadBack,
   ArgumentsUnderstood

LEMMA AnswersKept == Answers /\ [Next]_call => Answers'
<1> SUFFICES ASSUME Answers, [Next]_call PROVE Answers'
  OBVIOUS
<1>1. /\ call'.op # "size" => SizesAsAsked'
      /\ call'.op # "byte" => BytesReadBack'
      /\ call'.op # "name" => NamesReadBack'
      /\ call'.op # "copy" => CopiesReadBack'
      /\ call'.op # "args" => ArgumentsUnderstood'
  BY DEF SizesAsAsked, BytesReadBack, NamesReadBack, CopiesReadBack, ArgumentsUnderstood
<1>2. ASSUME call'.op \notin {"size", "byte", "name", "copy", "args"} PROVE Answers'
  BY <1>1, <1>2 DEF Answers
<1>3. ASSUME NEW n \in Numbers, NEW unit \in Units, SizeImage(n, unit) PROVE Answers'
  <2>1. call'.op = "size"
    BY <1>3 DEF SizeImage
  <2> QED
    BY <1>1, <1>3, <2>1, SizeCall DEF Answers
<1>4. ASSUME NEW cp \in CodepageNames, NEW b \in Bytes, ConvertByte(cp, b) PROVE Answers'
  <2>1. call'.op = "byte"
    BY <1>4 DEF ConvertByte
  <2> QED
    BY <1>1, <1>4, <2>1, ByteCall DEF Answers
<1>5. ASSUME NEW n \in 0 .. MaxName, NEW name \in [1 .. n -> SampleBytes], StoreName(name)
      PROVE  Answers'
  <2>1. call'.op = "name" /\ n \in Nat
    BY <1>5, InputAssumption DEF StoreName
  <2> QED
    BY <1>1, <1>5, <2>1, NameCall DEF Answers
<1>6. ASSUME NEW b \in SampleBytes,
             NEW textIn \in BOOLEAN, NEW tIn \in BOOLEAN, NEW bIn \in BOOLEAN,
             NEW textOut \in BOOLEAN, NEW tOut \in BOOLEAN, NEW bOut \in BOOLEAN,
             CopyBoth(b, textIn, tIn, bIn, textOut, tOut, bOut)
      PROVE  Answers'
  <2>1. call'.op = "copy"
    BY <1>6 DEF CopyBoth
  <2>2. CopiesReadBack'
    BY <1>6, CopyCall
  <2> QED
    BY <1>1, <2>1, <2>2 DEF Answers
<1>7. ASSUME NEW len, WriteAndRead(len) PROVE Answers'
  BY <1>2, <1>7 DEF WriteAndRead
<1>8. ASSUME NEW ms, Stamp(ms) PROVE Answers'
  BY <1>2, <1>8 DEF Stamp
<1>9. ASSUME NEW seconds, NEW micros, StampV1(seconds, micros) PROVE Answers'
  BY <1>2, <1>9 DEF StampV1
<1>10. ASSUME NEW n \in 0 .. MaxArgs, NEW args \in [1 .. n -> Kinds], ReadArguments(args)
       PROVE  Answers'
  <2>1. call'.op = "args" /\ n \in Nat
    BY <1>10, InputAssumption DEF ReadArguments
  <2> QED
    BY <1>1, <1>10, <2>1, ArgumentsCall DEF Answers
<1>11. CASE Return
  BY <1>2, <1>11 DEF Return, Nothing
<1>12. CASE UNCHANGED call
  BY <1>12 DEF Answers, SizesAsAsked, BytesReadBack, NamesReadBack, CopiesReadBack,
   ArgumentsUnderstood
<1> QED
  BY <1>3, <1>4, <1>5, <1>6, <1>7, <1>8, <1>9, <1>10, <1>11, <1>12 DEF Next, Convert

\* create makes the whole blocks asked for unless their number does not fit
\* into 32 bits, and upload asks for tracks that hold all of them unless that
\* number wraps: parseSize's 64 bits are always enough, for every size of the
\* words, of a block and of a track that holds one.
THEOREM SizesAlwaysAsAsked == Spec => []SizesAsAsked
<1>1. Answers => SizesAsAsked
  BY DEF Answers
<1> QED
  BY <1>1, AnswersInit, AnswersKept, PTL DEF Spec

\* In both code pages every byte reads back but the two of IBM1047 that
\* Lossy names.
THEOREM BytesAlwaysReadBack == Spec => []BytesReadBack
<1>1. Answers => BytesReadBack
  BY DEF Answers
<1> QED
  BY <1>1, AnswersInit, AnswersKept, PTL DEF Spec

\* A name, of any bytes and any length, reads back exactly when it is shorter
\* than the field, each byte is ASCII or the lead byte 0xC3, and the last one
\* neither blank nor NUL.
THEOREM NamesAlwaysReadBack == Spec => []NamesReadBack
<1>1. Answers => NamesReadBack
  BY DEF Answers
<1> QED
  BY <1>1, AnswersInit, AnswersKept, PTL DEF Spec

\* A file copied in and out with the same flags, under names of one kind, is
\* what it was but for those two bytes; so is what cat shows of it.
THEOREM CopiesAlwaysReadBack == Spec => []CopiesReadBack
<1>1. Answers => CopiesReadBack
  BY DEF Answers
<1> QED
  BY <1>1, AnswersInit, AnswersKept, PTL DEF Spec

\* For any number of arguments, reorderArgs lets the flag package read what
\* was meant in every case but two: a word goes with a switch and a flag
\* comes after it or an argument before it, or the last option lacks its value
\* and there is an argument to take for it.  In both it never does.
THEOREM ArgumentsAlwaysUnderstood == Spec => []ArgumentsUnderstood
<1>1. Answers => ArgumentsUnderstood
  BY DEF Answers
<1> QED
  BY <1>1, AnswersInit, AnswersKept, PTL DEF Spec

=============================================================================
