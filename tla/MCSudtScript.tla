---------------------------- MODULE MCSudtScript ----------------------------
(***************************************************************************)
(* Instance of SudtScript for TLC: every transaction with up to three      *)
(* cells in each group, amounts up to 2 (so that two cells overflow), data *)
(* one byte too short, exact, and longer than an amount.                   *)
(***************************************************************************)
EXTENDS SudtScript, SequencesExt

CONSTANTS Owner, Self, Other

MCHashes == {Owner, Self, Other}

MCData ==
    [len: {15}, value: {1}] \cup [len: {16}, value: 0..MaxAmount]
        \cup [len: {20}, value: {1}]

MCGroups ==
    BoundedSeq(MCData, 2) \cup TupleOf([len: {16}, value: {0, 1}], 3)

\* The inputs of the group come first, then those of other scripts.
MCTx(n, rest, in, out) ==
    [argsLen     |-> n,
     ownerHash   |-> Owner,
     inputTypes  |-> [i \in DOMAIN in |-> Self] \o rest,
     groupInput  |-> in,
     groupOutput |-> out]

MCRests == BoundedSeq({NoHash, Other, Owner}, 2)

\* Every pair of groups next to an untyped input; every other choice of
\* inputs, and args of another length, next to groups of at most one cell.
MCTxs ==
    {MCTx(HashSize, <<NoHash>>, in, out) : in \in MCGroups, out \in MCGroups}
    \cup {MCTx(n, rest, in, out) :
            n \in {20, HashSize}, rest \in MCRests,
            in \in BoundedSeq(MCData, 1), out \in BoundedSeq(MCData, 1)}

\* The script runs only for a group, and a transaction has an input.
MCRunTxs ==
    {t \in MCTxs : Len(t.groupInput) + Len(t.groupOutput) > 0
                   /\ Len(t.inputTypes) > 0}

\* Counting units is adding amounts.
ASSUME UnitsAreSums ==
    \A g \in MCGroups :
        Total(DOMAIN g, g) = SumFunction([i \in DOMAIN g |-> Amount(g[i])])
=============================================================================
