---------------------------- MODULE CellSequences ----------------------------
(***************************************************************************)
(* Live cells as the indexer lists them: what a list of cells is worth,    *)
(* and what is left of it once some cells are spent.                       *)
(***************************************************************************)
EXTENDS Integers, Sequences

Capacity(cells) ==
    LET sum[i \in 0..Len(cells)] ==
            IF i = 0 THEN 0 ELSE sum[i - 1] + cells[i].capacity
    IN  sum[Len(cells)]

\* The cells that are not spent, in the same order.
Remaining(cells, spent) ==
    LET kept[i \in 0..Len(cells)] ==
            IF i = 0 THEN <<>>
            ELSE IF cells[i] \in spent THEN kept[i - 1]
            ELSE Append(kept[i - 1], cells[i])
    IN  kept[Len(cells)]
==============================================================================
