----------------------------- MODULE BlockPool ------------------------------
(***************************************************************************)
(* What the block allocator promises its callers: a block is handed out    *)
(* only when nobody holds it, and comes back only from its holder; the     *)
(* counter the superblock reports moves by one with every allocation and   *)
(* every release.  It does not promise to keep every block: an allocation  *)
(* may cost a second block (the chain block a reload came from), and a     *)
(* failing one costs what it had taken.                                    *)
(***************************************************************************)
EXTENDS Integers, FiniteSets

CONSTANT Blocks

VARIABLES
    held,   \* blocks handed out
    gone,   \* blocks that will never be handed out again
    count   \* the number of free blocks that is reported

poolVars == <<held, gone, count>>

Available == Blocks \ (held \cup gone)

Init == held = {} /\ gone = {} /\ count = Cardinality(Blocks)

\* Besides those in taken, at most one more available block disappears.
GoneWith(taken, dropped) ==
    \/ gone' = gone \cup dropped
    \/ \E c \in Available \ taken : gone' = gone \cup dropped \cup {c}

Take == \E b \in Available :
            held' = held \cup {b} /\ GoneWith({b}, {}) /\ count' = count - 1

\* A failing allocation.
Drop == \E b \in Available :
            held' = held /\ GoneWith({b}, {b}) /\ count' = count - 1

Give == \E b \in held : held' = held \ {b} /\ gone' = gone /\ count' = count + 1

Next == Take \/ Drop \/ Give

Spec == Init /\ [][Next]_poolVars

=============================================================================
