--------------------------- MODULE MCTokenTransfer ---------------------------
(***************************************************************************)
(* Instances of TokenTransfer for TLC: all listings of up to three cells,  *)
(* of this token or another, with amounts 0 to 3, and one that is short.   *)
(***************************************************************************)
EXTENDS TokenTransfer

MCCells ==
    {[type |-> t, data |-> [len |-> AmountSize, value |-> v]] :
        t \in {Token, Other}, v \in 0..MaxAmount}
    \cup {[type |-> Token, data |-> [len |-> AmountSize - 1, value |-> 0]]}

MCListings == BoundedSeq(MCCells, 3)
==============================================================================
