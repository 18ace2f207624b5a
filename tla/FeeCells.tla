------------------------------- MODULE FeeCells -------------------------------
(***************************************************************************)
(* How every command pays. CapacityBalancer of ckb-sdk (external) takes    *)
(* the live cells of an address in the order of the indexer until they     *)
(* cover the output, a change cell and the fee; what is left over is the   *)
(* change. Cells that carry data or a type are not among them.             *)
(***************************************************************************)
EXTENDS CellSequences, SequencesExt

CONSTANT Fee    \* network fee of a transaction, in CKB

ASSUME FeeAssumption == Fee \in Nat

MinChange == 61     \* CKB that a change cell occupies

\* Mutant: the change and the fee are not counted.
Enough_ForOutputOnly(cells, pay) == Capacity(cells) >= pay

Enough(cells, pay) == Capacity(cells) >= pay + MinChange + Fee

\* The shortest prefix that is enough, when there is one.
Collect(cells, pay) ==
    LET n == CHOOSE n \in 0..Len(cells) :
                /\ Enough(SubSeq(cells, 1, n), pay)
                /\ \A m \in 0..(n - 1) : ~Enough(SubSeq(cells, 1, m), pay)
    IN  SubSeq(cells, 1, n)

\* Mutant: the change leaves nothing for the fee.
Change_ForgetsFee(cells, pay) == Capacity(cells) - pay

Change(cells, pay) == Capacity(cells) - pay - Fee
==============================================================================
