------------------------------ MODULE SudtRules ------------------------------
(***************************************************************************)
(* What the sUDT type script (contracts/ckb_sudt_script) decides, as       *)
(* operators without state: how cell data is read as a token amount, what  *)
(* a group of cells adds up to, and which transactions the script accepts. *)
(* SudtScript runs the script step by step against these definitions and   *)
(* SudtLedger uses them as the rule of the chain.                          *)
(*                                                                         *)
(* A sum of amounts is written as the number of token units in the cells:  *)
(* unit <<c, n>> exists when cell c holds at least n tokens. That is the   *)
(* same number as a fold of + over the amounts, and its laws follow from   *)
(* those of Cardinality, so the proof modules can use it for every bound.  *)
(***************************************************************************)
EXTENDS Integers, FiniteSets

CONSTANT MaxAmount    \* u128::MAX

ASSUME MaxAmountAssumption == MaxAmount \in Nat

HashSize   == 32      \* bytes of a blake2b-256 hash, the length of the args
AmountSize == 16      \* bytes of a u128

(***************************************************************************)
(* The data of a cell: its length, and the little-endian value of its      *)
(* first 16 bytes, which means something only when it has that many.       *)
(***************************************************************************)
Datum == [len: Nat, value: 0..MaxAmount]

\* decode_amount refuses data shorter than a u128 and ignores what follows it.
Decodable(d) == d.len >= AmountSize

Amount(d) == IF Decodable(d) THEN d.value ELSE 0

(***************************************************************************)
(* group: a function from some cells (input or output positions, ledger    *)
(* slots) to their data; S is a set of cells in its domain.                *)
(***************************************************************************)
Units(S, group) ==
    {u \in S \X (1..MaxAmount) : u[2] <= Amount(group[u[1]])}

Total(S, group) == Cardinality(Units(S, group))

AllDecodable(group) == \A c \in DOMAIN group : Decodable(group[c])

\* Mutant: cells that do not decode are skipped instead of refused.
Sums_SkipsUndecodable(group) == Total(DOMAIN group, group) <= MaxAmount

\* sum_amounts returns a sum exactly when every amount decodes and no
\* checked_add overflows, that is when the sum itself fits.
Sums(group) ==
    /\ AllDecodable(group)
    /\ Total(DOMAIN group, group) <= MaxAmount

\* Mutant: the comparison is off by one.
Balanced_OneMore(in, out) ==
    Total(DOMAIN out, out) <= Total(DOMAIN in, in) + 1

\* The final comparison of sudt_main: outputs never exceed inputs.
Balanced(in, out) ==
    Total(DOMAIN out, out) <= Total(DOMAIN in, in)

\* The exit code 0, without the order of evaluation: sudt_main as a relation.
Accepts(argsLen, ownerMode, in, out) ==
    /\ argsLen = HashSize
    /\ \/ ownerMode
       \/ Sums(in) /\ Sums(out) /\ Balanced(in, out)
==============================================================================
