---------------------------- MODULE Conversions ----------------------------
(***************************************************************************)
(* The pure conversions of the program, one call at a time: `call' is the  *)
(* conversion that was made last, with what went in and what came out.     *)
(***************************************************************************)
EXTENDS CodePages, CommandLine, FileSizing, Timestamps

CONSTANTS
    MaxLength,     \* longest file written
    Times,         \* times stamped, in milliseconds
    MaxArgs,       \* arguments of a command
    Numbers,       \* numbers before the unit of a size
    Units,         \* bytes in B, K, M and G
    Track,         \* bytes of a track
    SampleBytes,   \* bytes of the names and of the files copied
    MaxName        \* longest name

ASSUME InputAssumption ==
    /\ MaxLength \in Nat /\ MaxArgs \in Nat /\ MaxName \in Nat
    /\ Times \subseteq (-Signed64) .. (Signed64 - 1)
    /\ Numbers \subseteq Nat /\ Units \subseteq Nat
    /\ Track \in Nat /\ SampleBytes \subseteq Bytes

\* A block is of 512 to 8192 bytes (Create), and a track 19254 bytes (upload).
ASSUME BlockAssumption == 2 * BlkSize <= Word32 /\ BlkSize <= Track

VARIABLE call

Nothing == [op |-> "none"]

Init == call = Nothing

\* CreateFile and ReadFileData on a file of len bytes.
WriteAndRead(len) ==
    call' = [op |-> "file", len |-> len, refused |-> TooLarge(len),
             back |-> IF TooLarge(len) THEN <<>> ELSE ReadFileData(Stored(len))]

\* A time set by this program and read again, and one set by UFS370.
Stamp(ms) == call' = [op |-> "time", ms |-> ms, back |-> ToGo(TimeFromGo(ms))]

StampV1(seconds, micros) ==
    call' = [op |-> "time", ms |-> seconds * Thousand + micros \div Thousand,
             v1 |-> TRUE, back |-> ToGo(V1Stamp(seconds, micros))]

ReadArguments(args) ==
    call' = [op |-> "args", args |-> args, seen |-> Parse(args, ReorderArgs(args))]

\* create --size, and the tracks upload asks for.
SizeImage(n, unit) ==
    LET blocks == TotalBlocks(ParseSize(n, unit), BlkSize)
    IN call' = [op |-> "size", bytes |-> n * unit, blocks |-> blocks,
                tracks |-> Tracks(blocks, Track, BlkSize)]

ConvertByte(cp, b) ==
    call' = [op |-> "byte", cp |-> cp, byte |-> b, back |-> DecodeByte(cp, EncodeByte(cp, b))]

StoreName(name) ==
    call' = [op |-> "name", name |-> name, back |-> DecodeName(EncodeName(name))]

\* A file copied in under one name and out under another, or shown.
CopyBoth(b, textIn, tIn, bIn, textOut, tOut, bOut) ==
    call' = [op |-> "copy", byte |-> b,
             same |-> <<textIn, tIn, bIn>> = <<textOut, tOut, bOut>>,
             back |-> CopyOut(textOut, tOut, bOut, CopyIn(textIn, tIn, bIn, b)),
             shown |-> Cat(bOut, CopyIn(textIn, tIn, bIn, b)),
             converted |-> <<ShouldConvertText(textIn, tIn, bIn), ~bOut>>]

Return == call' = Nothing

Convert ==
    \/ \E len \in 0 .. MaxLength : WriteAndRead(len)
    \/ \E ms \in Times : Stamp(ms)
    \/ \E seconds \in 0 .. (Word32 - 1), micros \in 0 .. (Million - 1) : StampV1(seconds, micros)
    \/ \E n \in 0 .. MaxArgs : \E args \in [1 .. n -> Kinds] : ReadArguments(args)
    \/ \E n \in Numbers, unit \in Units : SizeImage(n, unit)
    \/ \E cp \in CodepageNames, b \in Bytes : ConvertByte(cp, b)
    \/ \E n \in 0 .. MaxName : \E name \in [1 .. n -> SampleBytes] : StoreName(name)
    \/ \E b \in SampleBytes, textIn, tIn, bIn, textOut, tOut, bOut \in BOOLEAN :
          CopyBoth(b, textIn, tIn, bIn, textOut, tOut, bOut)

Next ==
    \/ call = Nothing /\ Convert
    \/ call # Nothing /\ Return

Spec == Init /\ [][Next]_call

-----------------------------------------------------------------------------
\* CreateFile refuses a file exactly when it has more bytes than its blocks
\* can hold, and what it stores reads back byte for byte; except within a
\* block of 2^32 bytes and above, where the number of blocks wraps.
FilesReadBack ==
    call.op = "file" /\ call.len + BlkSize <= Word32 =>
        /\ call.refused <=> call.len > Capacity
        /\ ~call.refused => call.back = [j \in 1 .. call.len |-> j]

\* A time reads back as it was written exactly when its low word cannot be
\* taken for microseconds, or it is 1970 itself; one in V1 always does.
TimesReadBack ==
    call.op = "time" =>
        (call.back = call.ms <=> \/ "v1" \in DOMAIN call
                                 \/ call.ms % Word32 >= Million
                                 \/ call.ms = 0)

\* The word at i goes with a flag that takes no value.
Misled(args, i) == Captured(args, i) /\ i \notin Values(args, Positions(args))

Loose(args, i) == args[i] = "word" /\ ~Captured(args, i)

\* reorderArgs keeps its promise that flags may follow arguments, except
\* where a word follows a switch (or a value that looks like one) and is not
\* in the last place of the flags and the first of the arguments, or where
\* the last option lacks its value and gets an argument for it.
ArgumentsUnderstood ==
    call.op = "args" =>
        LET args == call.args
            Harmful(i) == \/ \E k \in DOMAIN args : k > i /\ IsFlag(args[k])
                          \/ \E k \in DOMAIN args : k < i /\ Loose(args, k)
        IN call.seen = Meant(args) <=>
              /\ \A i \in DOMAIN args : Misled(args, i) => ~Harmful(i)
              /\ Meant(args).bad => \A i \in DOMAIN args : ~Loose(args, i)

\* An image gets the number of whole blocks asked for unless that number does
\* not fit into 32 bits, and upload asks for tracks that hold all of them.
SizesAsAsked ==
    call.op = "size" =>
        /\ call.blocks = call.bytes \div BlkSize \/ call.bytes >= Word32 * BlkSize
        /\ \/ call.tracks * (Track \div BlkSize) >= call.blocks
           \/ call.blocks + Track \div BlkSize > Word32

\* Bytes that no longer read back in IBM1047: NEL, which shares 0x15 with
\* LF, and the division sign, which comes back as a superscript two.
Lossy(cp) == IF cp = "IBM1047" THEN {133, 247} ELSE {}

BytesReadBack ==
    call.op = "byte" => (call.back = call.byte <=> call.byte \notin Lossy(call.cp))

\* A name reads back exactly when it is short enough, has no trailing blank
\* or NUL, and each byte is ASCII or the lead byte 0xC3: every other byte
\* beyond ASCII is replaced by a lead byte.
Readable(b) == b < 128 \/ b = 195
NamesReadBack ==
    call.op = "name" =>
        LET name == call.name
        IN call.back = name <=>
              /\ Len(name) < NameSize
              /\ \A i \in DOMAIN name : Readable(name[i])
              /\ name # <<>> => name[Len(name)] \notin {0, 32}

\* A file copied in and out with the same flags under names of one kind is
\* what it was, but for the bytes lost in a conversion, and so is what cat
\* shows if it converts a file that was converted and no other.
CopiesReadBack ==
    call.op = "copy" =>
        /\ call.same => call.back = call.byte \/ call.byte \in Lossy("IBM1047")
        /\ call.converted[1] = call.converted[2] =>
              call.shown = call.byte \/ call.byte \in Lossy("IBM1047")

=============================================================================
