---------------------------- MODULE TokenTransfer ----------------------------
(***************************************************************************)
(* transfer_tokens of the deployer: list the sender's cells, choose token  *)
(* cells until they hold the amount, build the recipient's cell and the    *)
(* change, and send. No command calls it yet. The choice is judged by the  *)
(* rule of the sUDT script (SudtRules), and so is the transaction.         *)
(***************************************************************************)
EXTENDS SudtRules, CellSequences, SequencesExt

CONSTANTS
    Listings,       \* the sender's live cells, in the order of the indexer
    Amounts,        \* transfer_amount
    PageLimit,      \* cells that one get_cells call returns, 1000 in the code
    Token, Other    \* type scripts: this token, and one its filter also finds

\* The filter matches by prefix (SearchMode::Partial), so that cells of a
\* type with longer args are listed as well.
ASSUME TransferAssumption ==
    /\ \A l \in Listings : l \in Seq([type : {Token, Other}, data : Datum])
    /\ Amounts \subseteq 0..MaxAmount
    /\ PageLimit \in Nat
    /\ Token # Other

VARIABLES
    listing,    \* all token cells of the sender, never assigned
    amount,     \* transfer_amount, never assigned
    pc,         \* where transfer_tokens is
    idx,        \* the loop over udt_cells.objects
    inputs,     \* the data of the cells chosen
    total,      \* input_total
    outputs     \* the data of the recipient's cell and of the change

vars == <<listing, amount, pc, idx, inputs, total, outputs>>

Ends == {"panicked", "insufficient", "transferred", "refused"}

TypeOK ==
    /\ pc \in {"choose", "build", "send"} \cup Ends
    /\ idx \in 1..(PageLimit + 1)
    /\ inputs \in Seq(Datum)
    /\ total \in 0..MaxAmount
    /\ outputs \in Seq(Datum)

Init ==
    /\ listing \in Listings
    /\ amount \in Amounts
    /\ pc = "choose"
    /\ idx = 1
    /\ inputs = <<>>
    /\ total = 0
    /\ outputs = <<>>

\* What get_cells returns: one page, whatever comes after it.
Page == SubSeq(listing, 1, Min({PageLimit, Len(listing)}))

\* Mutant: the loop goes on until there is more than the amount.
Reached_More(sum) == sum > amount

\* input_total >= transfer_amount
Reached(sum) == sum >= amount

\* Mutant: the sum is not checked.
Fits_Always(sum) == TRUE

\* checked_add(..).expect("overflow")
Fits(sum) == sum <= MaxAmount

\* `continue`, which also skips the test that ends the loop.
SkipOther ==
    /\ pc = "choose"
    /\ idx <= Len(Page)
    /\ Page[idx].type # Token
    /\ idx' = idx + 1
    /\ UNCHANGED <<listing, amount, pc, inputs, total, outputs>>

\* A cell too short for output_data[..16], or a sum too large, is a panic.
Choose ==
    /\ pc = "choose"
    /\ idx <= Len(Page)
    /\ Page[idx].type = Token
    /\ LET d   == Page[idx].data
           sum == total + Amount(d)
       IN  \/ /\ ~Decodable(d) \/ ~Fits(sum)
              /\ pc' = "panicked"
              /\ UNCHANGED <<idx, inputs, total>>
           \/ /\ Decodable(d)
              /\ Fits(sum)
              /\ inputs' = Append(inputs, d)
              /\ total' = sum
              /\ idx' = idx + 1
              /\ pc' = IF Reached(sum) THEN "build" ELSE "choose"
    /\ UNCHANGED <<listing, amount, outputs>>

\* Mutant: the comparison is off by one.
Insufficient_OrEqual == total <= amount

Insufficient == total < amount

PageEnds ==
    /\ pc = "choose"
    /\ idx > Len(Page)
    /\ pc' = IF Insufficient THEN "insufficient" ELSE "build"
    /\ UNCHANGED <<listing, amount, idx, inputs, total, outputs>>

Balance(value) == [len |-> AmountSize, value |-> value]

\* Mutant: change is given back only when there is more of it than was sent.
ChangeCells_OnlyLarge(change) ==
    IF change > amount THEN <<Balance(change)>> ELSE <<>>

ChangeCells(change) == IF change > 0 THEN <<Balance(change)>> ELSE <<>>

Build ==
    /\ pc = "build"
    /\ outputs' = <<Balance(amount)>> \o ChangeCells(total - amount)
    /\ pc' = "send"
    /\ UNCHANGED <<listing, amount, idx, inputs, total>>

\* CapacityTransferBuilder gets the outputs only; the cells in `inputs` are
\* in no transaction, and the fee cells that are in it have no type.
GroupInputs == <<>>

Send ==
    /\ pc = "send"
    /\ pc' = IF Accepts(HashSize, FALSE, GroupInputs, outputs)
             THEN "transferred" ELSE "refused"
    /\ UNCHANGED <<listing, amount, idx, inputs, total, outputs>>

Done == pc \in Ends /\ UNCHANGED vars

Next == SkipOther \/ Choose \/ PageEnds \/ Build \/ Send \/ Done

Spec == Init /\ [][Next]_vars

------------------------------------------------------------------------------
(***************************************************************************)
(* Properties                                                              *)
(***************************************************************************)
SumOf(group) == Total(DOMAIN group, group)

\* What the filter also finds.
OtherCells == [type : {Other}, data : Datum]

TokenData(cells) ==
    LET own == Remaining(cells, OtherCells)
    IN  [i \in DOMAIN own |-> own[i].data]

\* What is sent on, recipient and change together, is exactly what the chosen
\* cells hold, so that the script would accept the chosen cells as inputs.
ChosenPayOutputs ==
    pc = "send" =>
        /\ SumOf(outputs) = SumOf(inputs)
        /\ Accepts(HashSize, FALSE, inputs, outputs)

\* The chosen cells are the token cells of the page read so far, and no cell
\* is chosen once the amount is reached; another token's cell never is.
ChosenAreFewest ==
    pc \in {"build", "send"} =>
        /\ inputs = TokenData(SubSeq(listing, 1, idx - 1))
        /\ inputs # <<>> /\ amount > 0 => SumOf(Front(inputs)) < amount

\* The function panics only when the page has a token cell without an amount
\* or more tokens than a u128 counts, and it claims an insufficient balance
\* only when the page holds less than the amount.
FailuresAreReal ==
    LET page == TokenData(Page) IN
    /\ pc = "panicked" => ~AllDecodable(page) \/ SumOf(page) > MaxAmount
    /\ pc = "insufficient" => AllDecodable(page) /\ SumOf(page) < amount

\* deploy_script.rs:395-396 reports "Transferred {} tokens to {}": what was
\* chosen is sent on. The node refuses a transaction only if the script would
\* refuse it with the chosen cells as its inputs.
ChosenAreTransferred ==
    pc = "refused" => ~Accepts(HashSize, FALSE, inputs, outputs)
==============================================================================
