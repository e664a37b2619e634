---------------------------- MODULE MachineWords ----------------------------
(***************************************************************************)
(* Go's fixed-width integers.  Word32 stands for 2^32 and Signed64 for     *)
(* 2^63, so that a model may take smaller ones.                            *)
(***************************************************************************)
EXTENDS Integers

CONSTANTS Word32, Signed64

ASSUME WordAssumption ==
    /\ Word32 \in Nat /\ Word32 > 1
    /\ Signed64 \in Nat /\ 2 * Signed64 = Word32 * Word32

\* uint32(n), uint64(n) and int64(n).
Uint32(n) == n % Word32
Uint64(n) == n % (Word32 * Word32)
Int64(n)  == ((n + Signed64) % (Word32 * Word32)) - Signed64

\* Go's division of integers, which rounds towards zero.
Quotient(n, d) == IF n < 0 THEN -((-n) \div d) ELSE n \div d

=============================================================================
