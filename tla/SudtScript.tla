------------------------------ MODULE SudtScript ------------------------------
(***************************************************************************)
(* One execution of the sUDT type script in the CKB VM on one transaction, *)
(* from load_script to the exit code: the owner scan over every input, the *)
(* checked sum over the group's inputs, the same over its outputs, and the *)
(* comparison. Each iteration of a QueryIter loop is a step.               *)
(***************************************************************************)
EXTENDS SudtRules, Sequences

CONSTANTS
    Hashes,     \* script hashes
    NoHash,     \* load_cell_type_hash of a cell without a type script
    Txs         \* the transactions the script may be run on

\* Mutant: a cell that does not decode is reported as an overflow.
Encoding_AsOverflow == 11

(***************************************************************************)
(* Exit codes: 0, or the discriminant of error::Error.                     *)
(***************************************************************************)
Success        == 0
Encoding       == 4
ArgsLength     == 10
Overflow       == 11
OutputOverflow == 12

ExitCodes == {Success, Encoding, ArgsLength, Overflow, OutputOverflow}

(***************************************************************************)
(* What the syscalls show the script: its args (a length, and the owner    *)
(* hash they hold), the type hash of every input, and the data of the      *)
(* inputs and outputs that carry this script as their type.                *)
(***************************************************************************)
TxViews == [argsLen     : Nat,
            ownerHash   : Hashes,
            inputTypes  : Seq(Hashes \cup {NoHash}),
            groupInput  : Seq(Datum),
            groupOutput : Seq(Datum)]

ASSUME TxsAssumption == NoHash \notin Hashes /\ Txs \subseteq TxViews

VARIABLES
    tx,         \* the transaction under verification, never assigned
    pc,         \* where sudt_main is
    idx,        \* index of the next item of the running QueryIter
    total,      \* the accumulator of the running sum_amounts
    inputSum,   \* input_sum, once it is computed
    exit        \* the exit code, Running before the script has returned

vars == <<tx, pc, idx, total, inputSum, exit>>

Running == -1

Stages == {"load", "owner", "sumInput", "sumOutput", "compare", "done"}

TypeOK ==
    /\ tx \in Txs
    /\ pc \in Stages
    /\ idx \in Nat \ {0}
    /\ total \in 0..MaxAmount
    /\ inputSum \in 0..MaxAmount
    /\ exit \in ExitCodes \cup {Running}

Init ==
    /\ tx \in Txs
    /\ pc = "load"
    /\ idx = 1
    /\ total = 0
    /\ inputSum = 0
    /\ exit = Running

Halt(code) ==
    /\ pc' = "done"
    /\ exit' = code
    /\ UNCHANGED <<tx, idx, total, inputSum>>

\* Mutant: the second sum goes on from the first.
Enter_KeepsTotal(stage) ==
    /\ pc' = stage
    /\ idx' = 1
    /\ UNCHANGED <<tx, total, exit>>

\* A loop starts with a fresh QueryIter and, for a sum, a zero accumulator.
Enter(stage) ==
    /\ pc' = stage
    /\ idx' = 1
    /\ total' = 0
    /\ UNCHANGED <<tx, exit>>

LoadScript ==
    /\ pc = "load"
    /\ \/ /\ tx.argsLen # HashSize
          /\ Halt(ArgsLength)
       \/ /\ tx.argsLen = HashSize
          /\ Enter("owner")
          /\ UNCHANGED inputSum

\* The scan compares TYPE hashes of the inputs with the hash in the args;
\* an input without a type script is skipped.
ScanOwner ==
    /\ pc = "owner"
    /\ idx <= Len(tx.inputTypes)
    /\ \/ /\ tx.inputTypes[idx] = tx.ownerHash
          /\ Halt(Success)
       \/ /\ tx.inputTypes[idx] # tx.ownerHash
          /\ idx' = idx + 1
          /\ UNCHANGED <<tx, pc, total, inputSum, exit>>

NoOwner ==
    /\ pc = "owner"
    /\ idx > Len(tx.inputTypes)
    /\ Enter("sumInput")
    /\ UNCHANGED inputSum

\* Mutant: addition without a width.
Fits_Always(sum) == TRUE

\* checked_add has a result only when it fits a u128.
Fits(sum) == sum <= MaxAmount

\* One iteration of sum_amounts: decode, then checked_add.
SumItem(group) ==
    /\ idx <= Len(group)
    /\ LET d == group[idx] IN
         \/ ~Decodable(d) /\ Halt(Encoding)
         \/ Decodable(d) /\ ~Fits(total + Amount(d)) /\ Halt(Overflow)
         \/ /\ Decodable(d)
            /\ Fits(total + Amount(d))
            /\ total' = total + Amount(d)
            /\ idx' = idx + 1
            /\ UNCHANGED <<tx, pc, inputSum, exit>>

SumInput == pc = "sumInput" /\ SumItem(tx.groupInput)

InputSummed ==
    /\ pc = "sumInput"
    /\ idx > Len(tx.groupInput)
    /\ Enter("sumOutput")
    /\ inputSum' = total

SumOutput == pc = "sumOutput" /\ SumItem(tx.groupOutput)

OutputSummed ==
    /\ pc = "sumOutput"
    /\ idx > Len(tx.groupOutput)
    /\ pc' = "compare"
    /\ UNCHANGED <<tx, idx, total, inputSum, exit>>

\* total now holds output_sum.
Compare ==
    /\ pc = "compare"
    /\ Halt(IF total > inputSum THEN OutputOverflow ELSE Success)

\* The process has exited; nothing happens to it any more.
Exited == pc = "done" /\ UNCHANGED vars

Next ==
    \/ LoadScript
    \/ ScanOwner
    \/ NoOwner
    \/ SumInput
    \/ InputSummed
    \/ SumOutput
    \/ OutputSummed
    \/ Compare
    \/ Exited

Spec == Init /\ [][Next]_vars

------------------------------------------------------------------------------
(***************************************************************************)
(* Properties                                                              *)
(***************************************************************************)
OwnerMode ==
    \E i \in 1..Len(tx.inputTypes) : tx.inputTypes[i] = tx.ownerHash

\* The loops with their early returns and checked additions compute exactly
\* the rule of the token: exit code 0 if and only if the args are a hash and
\* either an input is typed by the owner's script, or all amounts decode,
\* both sums fit a u128 and the outputs hold no more than the inputs.
ExitsZeroIffAccepted ==
    pc = "done" =>
        (exit = Success <=>
            Accepts(tx.argsLen, OwnerMode, tx.groupInput, tx.groupOutput))

\* An error code names the defect it is documented for: Encoding only when
\* some amount of the group cannot be decoded, Overflow only when one side's
\* amounts really exceed a u128, OutputOverflow only when both sides add up
\* and the outputs hold more; ArgsLength exactly for args of another length.
ErrorNamesTheDefect ==
    /\ exit = ArgsLength <=> pc = "done" /\ tx.argsLen # HashSize
    /\ exit = Encoding =>
         ~AllDecodable(tx.groupInput) \/ ~AllDecodable(tx.groupOutput)
    /\ exit = Overflow =>
         \E g \in {tx.groupInput, tx.groupOutput} :
             Total(DOMAIN g, g) > MaxAmount
    /\ exit = OutputOverflow =>
         /\ Sums(tx.groupInput) /\ Sums(tx.groupOutput)
         /\ ~Balanced(tx.groupInput, tx.groupOutput)

\* Where the script stands in each loop: the items before idx were neither
\* the owner nor undecodable, and total is their exact sum; a side that was
\* left behind was summed whole. This is what makes the exit code right.
Unowned(n) == \A i \in 1..n : tx.inputTypes[i] # tx.ownerHash

SummedSoFar(group) ==
    /\ idx <= Len(group) + 1
    /\ total = Total(1..(idx - 1), group)
    /\ \A i \in 1..(idx - 1) : Decodable(group[i])

Summed(group, sum) ==
    /\ AllDecodable(group)
    /\ sum = Total(DOMAIN group, group)

LoopInvariant ==
    /\ pc # "done" => exit = Running
    /\ pc \notin {"load", "done"} => tx.argsLen = HashSize
    /\ pc = "owner" => idx <= Len(tx.inputTypes) + 1 /\ Unowned(idx - 1)
    /\ pc \in {"sumInput", "sumOutput", "compare"} => ~OwnerMode
    /\ pc = "sumInput" => SummedSoFar(tx.groupInput)
    /\ pc \in {"sumOutput", "compare"} => Summed(tx.groupInput, inputSum)
    /\ pc = "sumOutput" => SummedSoFar(tx.groupOutput)
    /\ pc = "compare" => Summed(tx.groupOutput, total)
==============================================================================
