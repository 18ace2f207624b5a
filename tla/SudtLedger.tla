------------------------------ MODULE SudtLedger ------------------------------
(***************************************************************************)
(* A chain on which sUDT tokens live: the set of live cells, and the       *)
(* transactions that consume some and create others. The chain runs the    *)
(* type script of every token that appears in a transaction, once, over    *)
(* the inputs and the outputs of that type (its group), and commits only   *)
(* what every script accepts. Which transactions are proposed is open:     *)
(* minting, transfers, splits, merges, burns and malformed data alike.     *)
(*                                                                         *)
(* A token is a type script with its args. Its owner is whoever can spend  *)
(* a cell whose type hash is in those args.                                *)
(***************************************************************************)
EXTENDS SudtRules

CONSTANTS
    Slots,      \* places of live cells: the bound on how many there are
    Tokens,     \* type hashes of sUDT scripts
    OtherTypes, \* type hashes of every other script
    NoType,     \* a cell without a type script
    Free,       \* a slot without a live cell
    Owner,      \* Owner[t]: the hash in the args of token t
    Data        \* the cell data in circulation

Types == Tokens \cup OtherTypes

\* The data of a cell matters only to a token.
Cells == [type : Tokens, data : Data] \cup [type : OtherTypes \cup {NoType}]

ASSUME LedgerAssumption ==
    /\ IsFiniteSet(Slots)
    /\ Tokens \cap OtherTypes = {}
    /\ NoType \notin Types
    /\ Free \notin Cells
    /\ DOMAIN Owner = Tokens    \* the hash may be that of no type script at all
    /\ NoType \notin {Owner[t] : t \in Tokens}
    /\ Data \subseteq Datum

VARIABLE cells                  \* what is in each slot

Live == {s \in Slots : cells[s] # Free}

\* The group of token t in a set of cells at slots S, as the script reads it.
Of(t, S, at) == {s \in S : at[s] # Free /\ at[s].type = t}

Group(t, S, at) == [s \in Of(t, S, at) |-> at[s].data]

\* Mutant: an input without a type script counts as the owner.
OwnerMode_NoneIsOwner(t, ins) ==
    \E s \in ins : cells[s].type \in {Owner[t], NoType}

\* is_owner_mode: the type hash of some input is the hash in the args.
OwnerMode(t, ins) == \E s \in ins : cells[s].type = Owner[t]

\* outs: a function from the slots of the new cells to those cells.
InTx(t, ins, outs) ==
    \/ Of(t, ins, cells) # {}
    \/ Of(t, DOMAIN outs, outs) # {}

ScriptAccepts(t, ins, outs) ==
    Accepts(HashSize, OwnerMode(t, ins),
            Group(t, ins, cells), Group(t, DOMAIN outs, outs))

TypeOK == cells \in [Slots -> Cells \cup {Free}]

\* Before the first transaction there are no tokens.
Init == cells \in [Slots -> {c \in Cells : c.type \notin Tokens} \cup {Free}]

\* A transaction consumes live cells and fills free or just emptied slots;
\* it has at least one input and one output.
Commit(ins, outs) ==
    /\ \A t \in Tokens : InTx(t, ins, outs) => ScriptAccepts(t, ins, outs)
    /\ cells' = [s \in Slots |->
                    IF s \in DOMAIN outs THEN outs[s]
                    ELSE IF s \in ins THEN Free ELSE cells[s]]

Next ==
    \E ins \in SUBSET Live \ {{}} :
        \E new \in SUBSET (ins \cup (Slots \ Live)) \ {{}} :
            \E outs \in [new -> Cells] : Commit(ins, outs)

Spec == Init /\ [][Next]_cells

------------------------------------------------------------------------------
(***************************************************************************)
(* Properties                                                              *)
(***************************************************************************)
Supply(t) == Total(Of(t, Slots, cells), Group(t, Slots, cells))

\* Some live cell carries the owner's type: only then can the owner act.
Authority(t) == \E s \in Live : cells[s].type = Owner[t]

TokenSupply ==
    INSTANCE TokenSupply WITH
        supply    <- [t \in Tokens |-> Supply(t)],
        authority <- [t \in Tokens |-> Authority(t)]

\* The script implements the promise of a token: no sequence of transactions,
\* whatever tokens they mix and however they split and merge cells, adds a
\* unit of a token while no cell of its owner's type is live.
NoInflation == TokenSupply!Spec

\* Cells whose data is no amount cannot be made and cannot be spent without
\* the owner: decode_amount fails the script on either side of the
\* transaction, so they neither vanish from nor enter the ledger.
Undecodable(t) ==
    {s \in Of(t, Slots, cells) : ~Decodable(cells[s].data)}

UndecodableNeedsOwner ==
    [][\A t \in Tokens : ~Authority(t) => Undecodable(t)' = Undecodable(t)]_cells

\* A token whose args hold a hash that no type script has, such as the hash
\* of a LOCK script, which is what mint_tokens puts there, never comes to
\* exist: every cell that carries it holds zero units, for ever.
OwnerlessIsWorthless ==
    \A t \in Tokens :
        Owner[t] \notin Types =>
            /\ Supply(t) = 0
            /\ Undecodable(t) = {}
==============================================================================
