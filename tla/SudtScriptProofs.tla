--------------------------- MODULE SudtScriptProofs ---------------------------
(***************************************************************************)
(* Proofs about one execution of the sUDT script, for every transaction:   *)
(* the exit code is 0 exactly when the rule of the token accepts, and an   *)
(* error code names the defect it stands for.                              *)
(*                                                                         *)
(* The inductive invariant is Inv: what each loop has established about    *)
(* the items it has passed (LoopInvariant), and the two facts about the    *)
(* exit code themselves, which the last step of each path establishes.     *)
(***************************************************************************)
EXTENDS SudtScript, DataProofs

\* What the invariant says of the sequences in tx.
LEMMA TxType ==
    ASSUME tx \in Txs
    PROVE  /\ tx.argsLen \in Nat
           /\ tx.inputTypes \in Seq(Hashes \cup {NoHash})
           /\ tx.groupInput \in Seq(Datum)
           /\ tx.groupOutput \in Seq(Datum)
BY TxsAssumption DEF TxViews

\* One step of a sum, and what it means for the whole group.
LEMMA SumStep ==
    ASSUME NEW group \in Seq(Datum), NEW i \in 1..Len(group)
    PROVE  /\ Amount(group[i]) \in 0..MaxAmount
           /\ Total(1..i, group) = Total(1..(i - 1), group) + Amount(group[i])
           /\ Total(1..i, group) \in Nat
           /\ Total(DOMAIN group, group) \in Nat
           /\ Total(1..i, group) <= Total(DOMAIN group, group)
<1>1. Amount(group[i]) \in 0..MaxAmount
    <2>1. group[i] \in Datum
        OBVIOUS
    <2> QED
        BY <2>1, AmountType
<1>2. i - 1 \in Nat /\ (i - 1) + 1 = i
    OBVIOUS
<1>3. Total(1..i, group) = Total(1..(i - 1), group) + Amount(group[i])
    <2> DEFINE n == i - 1
    <2>1. n \in Nat /\ n + 1 = i
        BY <1>2
    <2> HIDE DEF n
    <2>2. Amount(group[n + 1]) \in 0..MaxAmount
        BY <1>1, <2>1
    <2>3. Total(1..(n + 1), group)
            = Total(1..n, group) + Amount(group[n + 1])
        BY <2>1, <2>2, TotalNext
    <2> QED
        BY <2>1, <2>3 DEF n
<1>4. DOMAIN group = 1..Len(group) /\ Len(group) \in Nat
    OBVIOUS
<1>5. IsFiniteSet(1..i) /\ IsFiniteSet(1..Len(group))
    <2>1. IsFiniteSet(1..i)
        BY FS_Interval
    <2>2. IsFiniteSet(1..Len(group))
        BY <1>4, FS_Interval
    <2> QED
        BY <2>1, <2>2
<1>6. 1..i \in SUBSET (1..Len(group))
    OBVIOUS
<1>7. /\ Total(1..i, group) \in Nat
      /\ Total(1..Len(group), group) \in Nat
    BY <1>5, TotalType
<1>8. Total(1..i, group) <= Total(1..Len(group), group)
    BY <1>5, <1>6, TotalMonotone
<1> QED
    BY <1>1, <1>3, <1>4, <1>7, <1>8

\* Every step keeps the types.
LEMMA TypeStep == TypeOK /\ [Next]_vars => TypeOK'
<1> SUFFICES ASSUME TypeOK, [Next]_vars
             PROVE  TypeOK'
    OBVIOUS
<1> USE MaxAmountAssumption DEF TypeOK, Stages, Halt, Enter,
        ExitCodes, Running, Success, Encoding, ArgsLength, Overflow,
        OutputOverflow
<1>1. CASE LoadScript
    BY <1>1 DEF LoadScript
<1>2. CASE ScanOwner
    BY <1>2 DEF ScanOwner
<1>3. CASE NoOwner
    BY <1>3 DEF NoOwner
<1>4. ASSUME NEW group \in Seq(Datum), SumItem(group)
      PROVE  TypeOK'
    <2>1. idx \in 1..Len(group)
        BY <1>4 DEF SumItem
    <2>2. Amount(group[idx]) \in 0..MaxAmount
        BY <2>1, SumStep
    <2>3. CASE ~Decodable(group[idx]) /\ Halt(Encoding)
        BY <2>3
    <2>4. CASE /\ Decodable(group[idx])
               /\ total + Amount(group[idx]) > MaxAmount
               /\ Halt(Overflow)
        BY <2>4
    <2>5. CASE /\ total + Amount(group[idx]) <= MaxAmount
               /\ total' = total + Amount(group[idx])
               /\ idx' = idx + 1
               /\ UNCHANGED <<tx, pc, inputSum, exit>>
        BY <2>2, <2>5
    <2> QED
        BY <1>4, <2>3, <2>4, <2>5 DEF SumItem, Fits
<1>5. CASE SumInput
    BY <1>4, <1>5, TxType DEF SumInput
<1>6. CASE InputSummed
    BY <1>6 DEF InputSummed
<1>7. CASE SumOutput
    BY <1>4, <1>7, TxType DEF SumOutput
<1>8. CASE OutputSummed
    BY <1>8 DEF OutputSummed
<1>9. CASE Compare
    BY <1>9 DEF Compare
<1>10. CASE UNCHANGED vars
    BY <1>10 DEF vars
<1> QED
    BY <1>1, <1>2, <1>3, <1>5, <1>6, <1>7, <1>8, <1>9, <1>10
    DEF Next, Exited

\* Every state of a script has the types declared for it.
THEOREM TypeCorrect == Spec => []TypeOK
<1>1. Init => TypeOK
    BY MaxAmountAssumption
    DEF Init, TypeOK, Stages, Running
<1> QED
    BY <1>1, TypeStep, PTL DEF Spec

------------------------------------------------------------------------------
\* The exit code, once there is one.
Verdict == ExitsZeroIffAccepted /\ ErrorNamesTheDefect

Inv == TypeOK /\ LoopInvariant /\ Verdict

LEMMA InvInit == Init => Inv
BY MaxAmountAssumption
DEF Init, Inv, Verdict, TypeOK, Stages, Running, LoopInvariant,
    ExitsZeroIffAccepted, ErrorNamesTheDefect,
    Success, Encoding, ArgsLength, Overflow, OutputOverflow

\* While the script runs there is no verdict to be wrong.
LEMMA StillRunning ==
    ASSUME pc' # "done", exit' = Running
    PROVE  Verdict'
BY DEF Verdict, ExitsZeroIffAccepted, ErrorNamesTheDefect, Running,
       Success, Encoding, ArgsLength, Overflow, OutputOverflow

\* After an iteration that halts no loop is left to speak of.
LEMMA HaltedLoops ==
    ASSUME NEW code, Halt(code)
    PROVE  LoopInvariant'
BY DEF Halt, LoopInvariant

LEMMA LoadScriptStep == Inv /\ LoadScript => LoopInvariant' /\ Verdict'
<1> SUFFICES ASSUME Inv, LoadScript
             PROVE  LoopInvariant' /\ Verdict'
    OBVIOUS
<1>1. CASE tx.argsLen # HashSize /\ Halt(ArgsLength)
    <2>1. Verdict'
        BY <1>1
        DEF Halt, Verdict, ExitsZeroIffAccepted, ErrorNamesTheDefect,
            Accepts, Success, Encoding, ArgsLength, Overflow, OutputOverflow
    <2> QED
        BY <1>1, <2>1, HaltedLoops
<1>2. CASE tx.argsLen = HashSize /\ Enter("owner") /\ UNCHANGED inputSum
    <2>1. exit = Running /\ tx \in Txs
        BY DEF Inv, LoopInvariant, LoadScript, TypeOK
    <2>2. LoopInvariant'
        BY <1>2, <2>1, TxType DEF Enter, LoopInvariant, Unowned
    <2>3. Verdict'
        BY <1>2, <2>1, StillRunning DEF Enter
    <2> QED
        BY <2>2, <2>3
<1> QED
    BY <1>1, <1>2 DEF LoadScript

LEMMA ScanOwnerStep == Inv /\ ScanOwner => LoopInvariant' /\ Verdict'
<1> SUFFICES ASSUME Inv, ScanOwner
             PROVE  LoopInvariant' /\ Verdict'
    OBVIOUS
<1>1. /\ pc = "owner" /\ exit = Running
      /\ tx.argsLen = HashSize
      /\ Unowned(idx - 1)
      /\ idx \in 1..Len(tx.inputTypes)
      /\ Len(tx.inputTypes) \in Nat
    BY TxType DEF Inv, TypeOK, LoopInvariant, ScanOwner
<1>2. CASE tx.inputTypes[idx] = tx.ownerHash /\ Halt(Success)
    <2>1. OwnerMode
        BY <1>1, <1>2 DEF OwnerMode
    <2>2. ExitsZeroIffAccepted'
        BY <1>1, <1>2, <2>1
        DEF Halt, ExitsZeroIffAccepted, OwnerMode, Accepts
    <2>3. ErrorNamesTheDefect'
        BY <1>1, <1>2
        DEF Halt, ErrorNamesTheDefect,
            Success, Encoding, ArgsLength, Overflow, OutputOverflow
    <2> QED
        BY <1>2, <2>2, <2>3, HaltedLoops DEF Verdict
<1>3. CASE /\ tx.inputTypes[idx] # tx.ownerHash
           /\ idx' = idx + 1
           /\ UNCHANGED <<tx, pc, total, inputSum, exit>>
    <2>1. Unowned(idx)
        BY <1>1, <1>3 DEF Unowned
    <2>2. idx' - 1 = idx
        BY <1>1, <1>3
    <2>3. Unowned(idx - 1)'
        BY <1>3, <2>1, <2>2 DEF Unowned
    <2>4. LoopInvariant'
        BY <1>1, <1>3, <2>3 DEF LoopInvariant
    <2>5. Verdict'
        BY <1>1, <1>3, StillRunning
    <2> QED
        BY <2>4, <2>5
<1> QED
    BY <1>2, <1>3 DEF ScanOwner

LEMMA NoOwnerStep == Inv /\ NoOwner => LoopInvariant' /\ Verdict'
<1> SUFFICES ASSUME Inv, NoOwner
             PROVE  LoopInvariant' /\ Verdict'
    OBVIOUS
<1>1. /\ pc = "owner" /\ exit = Running
      /\ tx.argsLen = HashSize
      /\ Unowned(idx - 1)
      /\ idx - 1 = Len(tx.inputTypes)
      /\ tx.groupInput \in Seq(Datum)
    BY TxType DEF Inv, TypeOK, LoopInvariant, NoOwner
<1>2. ~OwnerMode
    BY <1>1 DEF Unowned, OwnerMode
<1>3. Total(1..0, tx.groupInput) = 0
    <2>1. 1..0 = {}
        OBVIOUS
    <2> QED
        BY <2>1, TotalEmpty
<1>4. SummedSoFar(tx.groupInput)'
    BY <1>1, <1>3 DEF NoOwner, Enter, SummedSoFar
<1>5. LoopInvariant'
    BY <1>1, <1>2, <1>4 DEF NoOwner, Enter, LoopInvariant, OwnerMode
<1>6. Verdict'
    BY <1>1, StillRunning DEF NoOwner, Enter
<1> QED
    BY <1>5, <1>6

\* What one iteration of sum_amounts does to a sum that is right so far.
LEMMA SumItemStep ==
    ASSUME NEW group \in Seq(Datum),
           TypeOK, SummedSoFar(group), SumItem(group)
    PROVE  \/ Halt(Encoding) /\ ~AllDecodable(group)
           \/ Halt(Overflow) /\ Total(DOMAIN group, group) > MaxAmount
           \/ /\ idx' = idx + 1
              /\ idx <= Len(group)
              /\ total' = Total(1..idx, group)
              /\ \A i \in 1..idx : Decodable(group[i])
              /\ UNCHANGED <<tx, pc, inputSum, exit>>
<1>1. idx \in 1..Len(group)
    BY DEF TypeOK, SumItem
<1>2. /\ Total(1..idx, group) = total + Amount(group[idx])
      /\ Total(1..idx, group) \in Nat
      /\ Total(DOMAIN group, group) \in Nat
      /\ Total(1..idx, group) <= Total(DOMAIN group, group)
    BY <1>1, SumStep DEF SummedSoFar
<1>3. CASE ~Decodable(group[idx]) /\ Halt(Encoding)
    BY <1>1, <1>3 DEF AllDecodable
<1>4. CASE total + Amount(group[idx]) > MaxAmount /\ Halt(Overflow)
    BY <1>2, <1>4, MaxAmountAssumption
<1>5. CASE /\ Decodable(group[idx])
           /\ total' = total + Amount(group[idx])
           /\ idx' = idx + 1
           /\ UNCHANGED <<tx, pc, inputSum, exit>>
    <2>1. \A i \in 1..idx : Decodable(group[i])
        BY <1>1, <1>5 DEF SummedSoFar
    <2> QED
        BY <1>1, <1>2, <1>5, <2>1
<1> QED
    BY <1>2, <1>3, <1>4, <1>5, MaxAmountAssumption DEF SumItem, Fits

\* A loop that ran to its end has summed the group.
LEMMA SumEnd ==
    ASSUME NEW group \in Seq(Datum),
           TypeOK, SummedSoFar(group), idx > Len(group)
    PROVE  Summed(group, total)
<1>1. DOMAIN group = 1..Len(group) /\ Len(group) \in Nat
    OBVIOUS
<1>2. idx - 1 = Len(group)
    BY <1>1 DEF SummedSoFar, TypeOK
<1> QED
    BY <1>1, <1>2 DEF SummedSoFar, Summed, AllDecodable

\* The verdict of a sum that failed.
LEMMA SumFailed ==
    ASSUME tx.argsLen = HashSize, ~OwnerMode,
           NEW group, group \in {tx.groupInput, tx.groupOutput},
           \/ Halt(Encoding) /\ ~AllDecodable(group)
           \/ /\ Halt(Overflow)
              /\ Total(DOMAIN group, group) \in Nat
              /\ Total(DOMAIN group, group) > MaxAmount
    PROVE  LoopInvariant' /\ Verdict'
<1>1. LoopInvariant'
    BY HaltedLoops
<1>2. ~Sums(group)
    BY MaxAmountAssumption DEF Sums
<1>3. tx' = tx /\ pc' = "done" /\ exit' \in {Encoding, Overflow}
    BY DEF Halt
<1>4. ExitsZeroIffAccepted'
    BY <1>2, <1>3
    DEF ExitsZeroIffAccepted, OwnerMode, Accepts, Success, Encoding, Overflow
<1>5. ErrorNamesTheDefect'
    BY <1>3
    DEF ErrorNamesTheDefect, Halt,
        Success, Encoding, ArgsLength, Overflow, OutputOverflow
<1> QED
    BY <1>1, <1>4, <1>5 DEF Verdict

LEMMA SumInputStep == Inv /\ SumInput => LoopInvariant' /\ Verdict'
<1> SUFFICES ASSUME Inv, SumInput
             PROVE  LoopInvariant' /\ Verdict'
    OBVIOUS
<1> DEFINE g == tx.groupInput
<1>1. /\ pc = "sumInput" /\ exit = Running
      /\ tx.argsLen = HashSize /\ ~OwnerMode
      /\ TypeOK /\ SummedSoFar(g) /\ SumItem(g)
    BY DEF Inv, LoopInvariant, SumInput
<1>2. g \in Seq(Datum)
    BY <1>1, TxType DEF TypeOK
<1>3. Total(DOMAIN g, g) \in Nat
    BY <1>1, <1>2, SumStep DEF SumItem, Fits, TypeOK
<1>4. CASE \/ Halt(Encoding) /\ ~AllDecodable(g)
           \/ Halt(Overflow) /\ Total(DOMAIN g, g) > MaxAmount
    BY <1>1, <1>3, <1>4, SumFailed
<1>5. CASE /\ idx' = idx + 1
           /\ idx <= Len(g)
           /\ total' = Total(1..idx, g)
           /\ \A i \in 1..idx : Decodable(g[i])
           /\ UNCHANGED <<tx, pc, inputSum, exit>>
    <2>1. idx' - 1 = idx /\ idx' <= Len(g) + 1
        BY <1>1, <1>2, <1>5 DEF TypeOK
    <2>2. SummedSoFar(tx.groupInput)'
        BY <1>5, <2>1 DEF SummedSoFar
    <2>3. LoopInvariant'
        BY <1>1, <1>5, <2>2 DEF LoopInvariant, OwnerMode
    <2>4. Verdict'
        BY <1>1, <1>5, StillRunning
    <2> QED
        BY <2>3, <2>4
<1> QED
    BY <1>1, <1>2, <1>4, <1>5, SumItemStep

LEMMA InputSummedStep == Inv /\ InputSummed => LoopInvariant' /\ Verdict'
<1> SUFFICES ASSUME Inv, InputSummed
             PROVE  LoopInvariant' /\ Verdict'
    OBVIOUS
<1>1. /\ pc = "sumInput" /\ exit = Running
      /\ tx.argsLen = HashSize /\ ~OwnerMode
      /\ TypeOK /\ SummedSoFar(tx.groupInput)
      /\ idx > Len(tx.groupInput)
    BY DEF Inv, LoopInvariant, InputSummed
<1>2. tx.groupInput \in Seq(Datum) /\ tx.groupOutput \in Seq(Datum)
    BY <1>1, TxType DEF TypeOK
<1>3. Summed(tx.groupInput, total)
    BY <1>1, <1>2, SumEnd
<1>4. Total(1..0, tx.groupOutput) = 0
    <2>1. 1..0 = {}
        OBVIOUS
    <2> QED
        BY <2>1, TotalEmpty
<1>5. SummedSoFar(tx.groupOutput)'
    BY <1>2, <1>4 DEF InputSummed, Enter, SummedSoFar
<1>6. Summed(tx.groupInput, inputSum)'
    BY <1>3 DEF InputSummed, Enter, Summed
<1>7. LoopInvariant'
    BY <1>1, <1>5, <1>6 DEF InputSummed, Enter, LoopInvariant, OwnerMode
<1>8. Verdict'
    BY <1>1, StillRunning DEF InputSummed, Enter
<1> QED
    BY <1>7, <1>8

LEMMA SumOutputStep == Inv /\ SumOutput => LoopInvariant' /\ Verdict'
<1> SUFFICES ASSUME Inv, SumOutput
             PROVE  LoopInvariant' /\ Verdict'
    OBVIOUS
<1> DEFINE g == tx.groupOutput
<1>1. /\ pc = "sumOutput" /\ exit = Running
      /\ tx.argsLen = HashSize /\ ~OwnerMode
      /\ Summed(tx.groupInput, inputSum)
      /\ TypeOK /\ SummedSoFar(g) /\ SumItem(g)
    BY DEF Inv, LoopInvariant, SumOutput
<1>2. g \in Seq(Datum)
    BY <1>1, TxType DEF TypeOK
<1>3. Total(DOMAIN g, g) \in Nat
    BY <1>1, <1>2, SumStep DEF SumItem, Fits, TypeOK
<1>4. CASE \/ Halt(Encoding) /\ ~AllDecodable(g)
           \/ Halt(Overflow) /\ Total(DOMAIN g, g) > MaxAmount
    BY <1>1, <1>3, <1>4, SumFailed
<1>5. CASE /\ idx' = idx + 1
           /\ idx <= Len(g)
           /\ total' = Total(1..idx, g)
           /\ \A i \in 1..idx : Decodable(g[i])
           /\ UNCHANGED <<tx, pc, inputSum, exit>>
    <2>1. idx' - 1 = idx /\ idx' <= Len(g) + 1
        BY <1>1, <1>2, <1>5 DEF TypeOK
    <2>2. SummedSoFar(tx.groupOutput)'
        BY <1>5, <2>1 DEF SummedSoFar
    <2>3. Summed(tx.groupInput, inputSum)'
        BY <1>1, <1>5 DEF Summed
    <2>4. LoopInvariant'
        BY <1>1, <1>5, <2>2, <2>3 DEF LoopInvariant, OwnerMode
    <2>5. Verdict'
        BY <1>1, <1>5, StillRunning
    <2> QED
        BY <2>4, <2>5
<1> QED
    BY <1>1, <1>2, <1>4, <1>5, SumItemStep

LEMMA OutputSummedStep == Inv /\ OutputSummed => LoopInvariant' /\ Verdict'
<1> SUFFICES ASSUME Inv, OutputSummed
             PROVE  LoopInvariant' /\ Verdict'
    OBVIOUS
<1>1. /\ pc = "sumOutput" /\ exit = Running
      /\ tx.argsLen = HashSize /\ ~OwnerMode
      /\ Summed(tx.groupInput, inputSum)
      /\ TypeOK /\ SummedSoFar(tx.groupOutput)
      /\ idx > Len(tx.groupOutput)
    BY DEF Inv, LoopInvariant, OutputSummed
<1>2. tx.groupOutput \in Seq(Datum)
    BY <1>1, TxType DEF TypeOK
<1>3. Summed(tx.groupOutput, total)
    BY <1>1, <1>2, SumEnd
<1>4. Summed(tx.groupOutput, total)' /\ Summed(tx.groupInput, inputSum)'
    BY <1>1, <1>3 DEF OutputSummed, Summed
<1>5. LoopInvariant'
    BY <1>1, <1>4 DEF OutputSummed, LoopInvariant, OwnerMode
<1>6. Verdict'
    BY <1>1, StillRunning DEF OutputSummed
<1> QED
    BY <1>5, <1>6

LEMMA CompareStep == Inv /\ Compare => LoopInvariant' /\ Verdict'
<1> SUFFICES ASSUME Inv, Compare
             PROVE  LoopInvariant' /\ Verdict'
    OBVIOUS
<1> DEFINE in == tx.groupInput
           out == tx.groupOutput
<1>1. /\ tx.argsLen = HashSize /\ ~OwnerMode
      /\ TypeOK
      /\ Summed(in, inputSum) /\ Summed(out, total)
      /\ Halt(IF total > inputSum THEN OutputOverflow ELSE Success)
    BY DEF Inv, LoopInvariant, Compare
<1>2. Sums(in) /\ Sums(out)
    BY <1>1, MaxAmountAssumption DEF Summed, Sums, TypeOK
<1>3. Balanced(in, out) <=> ~(total > inputSum)
    BY <1>1, MaxAmountAssumption DEF Summed, Balanced, TypeOK
<1>4. tx' = tx /\ pc' = "done"
    BY <1>1 DEF Halt
<1>5. exit' = Success <=> Balanced(in, out)
    BY <1>1, <1>3 DEF Halt, Success, OutputOverflow
<1>6. exit' \in {Success, OutputOverflow}
    BY <1>1 DEF Halt
<1>7. ExitsZeroIffAccepted'
    BY <1>1, <1>2, <1>4, <1>5
    DEF ExitsZeroIffAccepted, OwnerMode, Accepts
<1>8. ErrorNamesTheDefect'
    BY <1>1, <1>2, <1>4, <1>5, <1>6
    DEF ErrorNamesTheDefect,
        Success, Encoding, ArgsLength, Overflow, OutputOverflow
<1>9. LoopInvariant'
    BY <1>1, HaltedLoops
<1> QED
    BY <1>7, <1>8, <1>9 DEF Verdict

LEMMA StutterStep == Inv /\ UNCHANGED vars => LoopInvariant' /\ Verdict'
<1> SUFFICES ASSUME Inv, UNCHANGED vars
             PROVE  LoopInvariant' /\ Verdict'
    OBVIOUS
<1>1. LoopInvariant'
    BY DEF Inv, vars, LoopInvariant, Unowned, SummedSoFar, Summed, OwnerMode
<1>2. ExitsZeroIffAccepted'
    BY DEF Inv, Verdict, vars, ExitsZeroIffAccepted, OwnerMode
<1>3. ErrorNamesTheDefect'
    BY DEF Inv, Verdict, vars, ErrorNamesTheDefect
<1> QED
    BY <1>1, <1>2, <1>3 DEF Verdict

\* What each loop has established carries over to the next step.
LEMMA InvStep == Inv /\ [Next]_vars => Inv'
<1> SUFFICES ASSUME Inv, [Next]_vars
             PROVE  Inv'
    OBVIOUS
<1>1. TypeOK'
    BY TypeStep DEF Inv
<1>2. LoopInvariant' /\ Verdict'
    BY LoadScriptStep, ScanOwnerStep, NoOwnerStep, SumInputStep,
       InputSummedStep, SumOutputStep, OutputSummedStep, CompareStep,
       StutterStep
    DEF Next, Exited
<1> QED
    BY <1>1, <1>2 DEF Inv

\* Whatever transaction the script runs on, its loops never lose an item.
THEOREM LoopsSumExactly == Spec => []LoopInvariant
<1>1. Inv => LoopInvariant
    BY DEF Inv
<1> QED
    BY <1>1, InvInit, InvStep, PTL DEF Spec

\* Whatever transaction the script runs on, it exits with 0 exactly when the
\* rule of the token accepts that transaction.
THEOREM ExitCodeDecides == Spec => []ExitsZeroIffAccepted
<1>1. Inv => ExitsZeroIffAccepted
    BY DEF Inv, Verdict
<1> QED
    BY <1>1, InvInit, InvStep, PTL DEF Spec

\* Whatever transaction the script runs on, an error code tells the truth.
THEOREM ErrorCodesAreTrue == Spec => []ErrorNamesTheDefect
<1>1. Inv => ErrorNamesTheDefect
    BY DEF Inv, Verdict
<1> QED
    BY <1>1, InvInit, InvStep, PTL DEF Spec
==============================================================================
