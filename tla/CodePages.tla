----------------------------- MODULE CodePages -----------------------------
(***************************************************************************)
(* The code pages of pkg/ebcdic, the fields of names and owners written    *)
(* with them (encodeEBCDIC, pkg/ufs/image.go), and the choice between text *)
(* and binary copies (shouldConvertText, cmd/ufsd-utils/main.go).          *)
(*                                                                         *)
(* A table lists the images of the bytes 0 .. 255 in order.                *)
(***************************************************************************)
EXTENDS Integers, Sequences

CONSTANT NameSize   \* bytes of a name field

ASSUME NameAssumption == NameSize \in Nat \ {0}

ibm1047AtoE == <<
      0,   1,   2,   3,  55,  45,  46,  47,  22,   5,  21,  11,  12,  13,  14,  15,
     16,  17,  18,  19,  60,  61,  50,  38,  24,  25,  63,  39,  28,  29,  30,  31,
     64,  90, 127, 123,  91, 108,  80, 125,  77,  93,  92,  78, 107,  96,  75,  97,
    240, 241, 242, 243, 244, 245, 246, 247, 248, 249, 122,  94,  76, 126, 110, 111,
    124, 193, 194, 195, 196, 197, 198, 199, 200, 201, 209, 210, 211, 212, 213, 214,
    215, 216, 217, 226, 227, 228, 229, 230, 231, 232, 233, 173, 224, 189,  95, 109,
    121, 129, 130, 131, 132, 133, 134, 135, 136, 137, 145, 146, 147, 148, 149, 150,
    151, 152, 153, 162, 163, 164, 165, 166, 167, 168, 169, 192,  79, 208, 161,   7,
     32,  33,  34,  35,  36,  21,   6,  23,  40,  41,  42,  43,  44,   9,  10,  27,
     48,  49,  26,  51,  52,  53,  54,   8,  56,  57,  58,  59,   4,  20,  62, 255,
     65, 170,  74, 177, 159, 178, 106, 181, 187, 180, 154, 138, 176, 202, 175, 188,
    144, 143, 234, 250, 190, 160, 182, 179, 157, 218, 155, 139, 183, 184, 185, 171,
    100, 101,  98, 102,  99, 103, 158, 104, 116, 113, 114, 115, 120, 117, 118, 119,
    172, 105, 237, 238, 235, 239, 236, 191, 128, 253, 254, 251, 252, 186, 174,  89,
     68,  69,  66,  70,  67,  71, 156,  72,  84,  81,  82,  83,  88,  85,  86,  87,
    140,  73, 205, 206, 203, 207, 204, 225, 112, 221, 222, 219, 220, 141, 142, 223 >>

ibm1047EtoA == <<
      0,   1,   2,   3, 156,   9, 134, 127, 151, 141, 142,  11,  12,  13,  14,  15,
     16,  17,  18,  19, 157,  10,   8, 135,  24,  25, 146, 143,  28,  29,  30,  31,
    128, 129, 130, 131, 132, 133,  23,  27, 136, 137, 138, 139, 140,   5,   6,   7,
    144, 145,  22, 147, 148, 149, 150,   4, 152, 153, 154, 155,  20,  21, 158,  26,
     32, 160, 226, 228, 224, 225, 227, 229, 231, 241, 162,  46,  60,  40,  43, 124,
     38, 233, 234, 235, 232, 237, 238, 239, 236, 223,  33,  36,  42,  41,  59,  94,
     45,  47, 194, 196, 192, 193, 195, 197, 199, 209, 166,  44,  37,  95,  62,  63,
    248, 201, 202, 203, 200, 205, 206, 207, 204,  96,  58,  35,  64,  39,  61,  34,
    216,  97,  98,  99, 100, 101, 102, 103, 104, 105, 171, 187, 240, 253, 254, 177,
    176, 106, 107, 108, 109, 110, 111, 112, 113, 114, 170, 186, 230, 184, 198, 164,
    181, 126, 115, 116, 117, 118, 119, 120, 121, 122, 161, 191, 208,  91, 222, 174,
    172, 163, 165, 183, 169, 167, 182, 188, 189, 190, 221, 168, 175,  93, 180, 215,
    123,  65,  66,  67,  68,  69,  70,  71,  72,  73, 173, 244, 246, 242, 243, 245,
    125,  74,  75,  76,  77,  78,  79,  80,  81,  82, 185, 251, 252, 249, 250, 255,
     92, 178,  83,  84,  85,  86,  87,  88,  89,  90, 178, 212, 214, 210, 211, 213,
     48,  49,  50,  51,  52,  53,  54,  55,  56,  57, 179, 219, 220, 217, 218, 159 >>

cp037AtoE == <<
      0,   1,   2,   3,  55,  45,  46,  47,  22,   5,  37,  11,  12,  13,  14,  15,
     16,  17,  18,  19,  60,  61,  50,  38,  24,  25,  63,  39,  28,  29,  30,  31,
     64,  90, 127, 123,  91, 108,  80, 125,  77,  93,  92,  78, 107,  96,  75,  97,
    240, 241, 242, 243, 244, 245, 246, 247, 248, 249, 122,  94,  76, 126, 110, 111,
    124, 193, 194, 195, 196, 197, 198, 199, 200, 201, 209, 210, 211, 212, 213, 214,
    215, 216, 217, 226, 227, 228, 229, 230, 231, 232, 233, 173, 224, 189, 176, 109,
    121, 129, 130, 131, 132, 133, 134, 135, 136, 137, 145, 146, 147, 148, 149, 150,
    151, 152, 153, 162, 163, 164, 165, 166, 167, 168, 169, 192,  79, 208, 161,   7,
     32,  33,  34,  35,  36,  21,   6,  23,  40,  41,  42,  43,  44,   9,  10,  27,
     48,  49,  26,  51,  52,  53,  54,   8,  56,  57,  58,  59,   4,  20,  62, 255,
     65, 170,  74, 177, 159, 178, 106, 181, 187, 180, 154, 138,  95, 202, 175, 188,
    144, 143, 234, 250, 190, 160, 182, 179, 157, 218, 155, 139, 183, 184, 185, 171,
    100, 101,  98, 102,  99, 103, 158, 104, 116, 113, 114, 115, 120, 117, 118, 119,
    172, 105, 237, 238, 235, 239, 236, 191, 128, 253, 254, 251, 252, 186, 174,  89,
     68,  69,  66,  70,  67,  71, 156,  72,  84,  81,  82,  83,  88,  85,  86,  87,
    140,  73, 205, 206, 203, 207, 204, 225, 112, 221, 222, 219, 220, 141, 142, 223 >>

cp037EtoA == <<
      0,   1,   2,   3, 156,   9, 134, 127, 151, 141, 142,  11,  12,  13,  14,  15,
     16,  17,  18,  19, 157, 133,   8, 135,  24,  25, 146, 143,  28,  29,  30,  31,
    128, 129, 130, 131, 132,  10,  23,  27, 136, 137, 138, 139, 140,   5,   6,   7,
    144, 145,  22, 147, 148, 149, 150,   4, 152, 153, 154, 155,  20,  21, 158,  26,
     32, 160, 226, 228, 224, 225, 227, 229, 231, 241, 162,  46,  60,  40,  43, 124,
     38, 233, 234, 235, 232, 237, 238, 239, 236, 223,  33,  36,  42,  41,  59, 172,
     45,  47, 194, 196, 192, 193, 195, 197, 199, 209, 166,  44,  37,  95,  62,  63,
    248, 201, 202, 203, 200, 205, 206, 207, 204,  96,  58,  35,  64,  39,  61,  34,
    216,  97,  98,  99, 100, 101, 102, 103, 104, 105, 171, 187, 240, 253, 254, 177,
    176, 106, 107, 108, 109, 110, 111, 112, 113, 114, 170, 186, 230, 184, 198, 164,
    181, 126, 115, 116, 117, 118, 119, 120, 121, 122, 161, 191, 208,  91, 222, 174,
     94, 163, 165, 183, 169, 167, 182, 188, 189, 190, 221, 168, 175,  93, 180, 215,
    123,  65,  66,  67,  68,  69,  70,  71,  72,  73, 173, 244, 246, 242, 243, 245,
    125,  74,  75,  76,  77,  78,  79,  80,  81,  82, 185, 251, 252, 249, 250, 255,
     92, 247,  83,  84,  85,  86,  87,  88,  89,  90, 178, 212, 214, 210, 211, 213,
     48,  49,  50,  51,  52,  53,  54,  55,  56,  57, 179, 219, 220, 217, 218, 159 >>

Bytes == 0 .. 255
CodepageNames == {"IBM1047", "CP037"}

\* Mutant: the tables of one code page mixed with those of the other.
TableEtoAMixed(cp) == ibm1047EtoA

TableAtoE(cp) == IF cp = "CP037" THEN cp037AtoE ELSE ibm1047AtoE
TableEtoA(cp) == IF cp = "CP037" THEN cp037EtoA ELSE ibm1047EtoA

EncodeByte(cp, b) == TableAtoE(cp)[b + 1]
DecodeByte(cp, b) == TableEtoA(cp)[b + 1]

-----------------------------------------------------------------------------
\* Mutant: the byte itself, as one might expect.
FirstOfUTF8AsIs(b) == b

\* string(s[i]) turns a byte into the UTF-8 form of the character with that
\* number, of which Encode keeps the first byte.
FirstOfUTF8(b) == IF b < 128 THEN b ELSE IF b < 192 THEN 194 ELSE 195

\* encodeEBCDIC: a field of NameSize bytes, NUL-padded; its last byte is
\* always NUL.
EncodeName(name) ==
    [i \in 1 .. NameSize |->
        IF i <= Len(name) /\ i < NameSize
        THEN EncodeByte("IBM1047", FirstOfUTF8(name[i]))
        ELSE 0]

\* Decode, which takes off trailing EBCDIC blanks and NULs.
DecodeName(field) ==
    LET kept == {i \in DOMAIN field : field[i] \notin {64, 0}}
        end  == IF kept = {} THEN 0 ELSE CHOOSE i \in kept : \A k \in kept : k <= i
    IN [i \in 1 .. end |-> DecodeByte("IBM1047", field[i])]

-----------------------------------------------------------------------------
\* shouldConvertText: whether the path has one of the text extensions, and
\* the flags -t and -b.
ShouldConvertText(textName, t, b) == ~b /\ (t \/ textName)

\* Mutant: -b not asked for on the way out.
CopyOutIgnoringB(textName, t, b, byte) ==
    IF t \/ textName THEN DecodeByte("IBM1047", byte) ELSE byte

\* cp to the image goes by the name on the host, cp from the image by the
\* name in the image; cat converts whatever the name, unless -b is given.
CopyIn(textName, t, b, byte)  ==
    IF ShouldConvertText(textName, t, b) THEN EncodeByte("IBM1047", byte) ELSE byte
CopyOut(textName, t, b, byte) ==
    IF ShouldConvertText(textName, t, b) THEN DecodeByte("IBM1047", byte) ELSE byte
Cat(b, byte) == IF b THEN byte ELSE DecodeByte("IBM1047", byte)

=============================================================================
