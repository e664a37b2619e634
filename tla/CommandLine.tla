---------------------------- MODULE CommandLine ----------------------------
(***************************************************************************)
(* The arguments of a command (cmd/ufsd-utils/main.go): reorderArgs, the   *)
(* flag package that parses what it returns, and parseSize with the use    *)
(* Create makes of its result.                                             *)
(*                                                                         *)
(* An argument is "switch" (-r), "option" (--dsn), "assigned" (--dsn=X) or *)
(* "word"; arguments are told apart by their positions.                    *)
(***************************************************************************)
EXTENDS MachineWords, Sequences

Kinds == {"switch", "option", "assigned", "word"}

Positions(args) == [i \in DOMAIN args |-> i]
IsFlag(kind)    == kind # "word"

-----------------------------------------------------------------------------
\* Mutant: words after switches only.
CapturedBySwitch(args, i) ==
    /\ args[i] = "word"
    /\ i > 1 /\ args[i - 1] = "switch"

\* The word after any flag without "=" goes with the flag.
Captured(args, i) ==
    /\ args[i] = "word"
    /\ i > 1 /\ args[i - 1] \in {"switch", "option"}

\* The positions of S in their order, as one pass over n arguments appends them.
InOrder(S, n) ==
    LET kept[i \in 0 .. n] ==
            IF i = 0 THEN <<>> ELSE IF i \in S THEN Append(kept[i - 1], i) ELSE kept[i - 1]
    IN kept[n]

\* reorderArgs, as the sequence of positions it returns.
ReorderArgs(args) ==
    LET moved == {i \in DOMAIN args : IsFlag(args[i]) \/ Captured(args, i)}
    IN InOrder(moved, Len(args)) \o InOrder(DOMAIN args \ moved, Len(args))

\* External, the flag package: an option takes the next argument whatever it
\* is; parsing stops at the first word that is not taken.
Values(args, order) ==
    LET taken[i \in 0 .. Len(order)] ==
            i > 1 /\ args[order[i - 1]] = "option" /\ ~taken[i - 1]
    IN {i \in DOMAIN order : taken[i]}

\* What a command sees: its switches and options, their values, its
\* arguments, and whether an option has no value.
Reading(args, order, flags, rest) ==
    LET values == Values(args, order)
    IN [flags |-> {order[i] : i \in flags \ values},
        with  |-> {<<order[i - 1], order[i]>> : i \in flags \cap values},
        rest  |-> rest,
        bad   |-> /\ order # <<>> /\ Len(order) \in flags \ values
                  /\ args[order[Len(order)]] = "option"]

Parse(args, order) ==
    LET values == Values(args, order)
        stops  == {i \in DOMAIN order : i \notin values /\ args[order[i]] = "word"}
        stop   == IF stops = {} THEN Len(order) + 1
                  ELSE CHOOSE i \in stops : \A k \in stops : i <= k
    IN Reading(args, order, 1 .. (stop - 1), SubSeq(order, stop, Len(order)))

\* What the comment of reorderArgs promises: flags may follow arguments.
Meant(args) ==
    LET order  == Positions(args)
        values == Values(args, order)
        rest   == {i \in DOMAIN order \ values : args[i] = "word"}
    IN Reading(args, order, DOMAIN order \ rest, InOrder(rest, Len(args)))

-----------------------------------------------------------------------------
\* Mutant: the product cut to 32 bits.
ParseSize32(n, unit) == Uint32(n * unit)

\* parseSize: a positive number and a unit, multiplied in 64 bits.
ParseSize(n, unit) == Int64(n * unit)

\* Create: bytes to blocks, and what it refuses.
TotalBlocks(bytes, blkSize) == Uint32(Quotient(bytes, blkSize))

-----------------------------------------------------------------------------
\* allocateDataset: blocks of an image on a track, and tracks for them all.
BlocksPerTrack(track, blkSize) ==
    IF track \div blkSize < 1 THEN 1 ELSE track \div blkSize

\* Mutant: the last track forgotten when it is not full.
TracksFloor(blocks, track, blkSize) ==
    blocks \div BlocksPerTrack(track, blkSize)

Tracks(blocks, track, blkSize) ==
    Uint32(blocks + BlocksPerTrack(track, blkSize) - 1) \div BlocksPerTrack(track, blkSize)

=============================================================================
