--------------------------- MODULE MCConversions ---------------------------
(***************************************************************************)
(* Values of the constants of Conversions for TLC.                         *)
(***************************************************************************)
EXTENDS Conversions

\* Times around 1970, around the wrap of the low word, and at both ends of
\* what 64 bits hold.
SomeTimes == (-100) .. 300 \cup (Signed64 - 100) .. (Signed64 - 1) \cup (-Signed64) .. (100 - Signed64)

\* NUL, blank, dot, letter, NEL, the bytes of o-umlaut, and two lead bytes.
SomeBytes == {0, 32, 46, 97, 133, 182, 194, 195, 247}

=============================================================================
