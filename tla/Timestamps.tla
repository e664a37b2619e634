----------------------------- MODULE Timestamps -----------------------------
(***************************************************************************)
(* The two formats of an inode's timestamps (pkg/ufs/timev.go): V2 holds   *)
(* milliseconds in 64 bits, V1 seconds and microseconds in 32 bits each.   *)
(* Which one it is has to be guessed from the low word.  A time is a whole *)
(* number of milliseconds since 1970.                                      *)
(***************************************************************************)
EXTENDS MachineWords

CONSTANT Thousand   \* milliseconds in a second, microseconds in one of them

Million == Thousand * Thousand

ASSUME TimeAssumption ==
    Thousand \in Nat /\ Thousand > 1 /\ Million < Word32

\* TimeFromGo.
TimeFromGo(ms) ==
    [hi |-> Uint64(ms) \div Word32, lo |-> Uint64(ms) % Word32]

\* A V1 stamp as UFS370 writes it.
V1Stamp(seconds, micros) == [hi |-> seconds, lo |-> micros]

\* Mutant: the limit one too high.
IsV1OffByOne(tv) == tv.lo <= Million

IsV1(tv) == tv.lo < Million

\* ToGo.
ToGo(tv) ==
    IF IsV1(tv)
    THEN tv.hi * Thousand + tv.lo \div Thousand
    ELSE Int64(tv.hi * Word32 + tv.lo)

=============================================================================
