--------------------------- MODULE SudtLedgerProofs ---------------------------
(***************************************************************************)
(* Proofs about the chain, for any number of slots, tokens and owners and  *)
(* any MaxAmount: the sUDT script implements the promise of a token        *)
(* (NoInflation), malformed cells stay put without the owner, and a token  *)
(* whose owner hash is no type script never comes to exist.                *)
(*                                                                         *)
(* The argument is a balance: the cells of a token before a transaction    *)
(* are those it keeps and those it consumes, after it those it keeps and   *)
(* those it creates, and the script has compared consumed with created.    *)
(***************************************************************************)
EXTENDS SudtLedger, DataProofs

\* Every slot holds a cell or nothing, whatever is committed.
LEMMA LedgerTypeStep == TypeOK /\ [Next]_cells => TypeOK'
<1> SUFFICES ASSUME TypeOK, [Next]_cells
             PROVE  TypeOK'
    OBVIOUS
<1>1. CASE Next
    <2>1. PICK ins \in SUBSET Live \ {{}} :
            \E new \in SUBSET (ins \cup (Slots \ Live)) \ {{}} :
                \E outs \in [new -> Cells] : Commit(ins, outs)
        BY <1>1 DEF Next
    <2>2. PICK new \in SUBSET (ins \cup (Slots \ Live)) \ {{}} :
            \E outs \in [new -> Cells] : Commit(ins, outs)
        BY <2>1
    <2>3. PICK outs \in [new -> Cells] : Commit(ins, outs)
        BY <2>2
    <2> QED
        BY <2>3 DEF TypeOK, Commit
<1>2. CASE UNCHANGED cells
    BY <1>2 DEF TypeOK
<1> QED
    BY <1>1, <1>2

\* Hence in every reachable state.
LEMMA LedgerTypeCorrect == Spec => []TypeOK
<1>1. Init => TypeOK
    BY DEF Init, TypeOK
<1> QED
    BY <1>1, LedgerTypeStep, PTL DEF Spec

\* Any set of cells of a token in finitely many slots is finite.
LEMMA OfFinite ==
    ASSUME NEW t, NEW S \in SUBSET Slots, NEW at
    PROVE  /\ IsFiniteSet(Of(t, S, at))
           /\ DOMAIN Group(t, S, at) = Of(t, S, at)
<1>1. IsFiniteSet(S)
    BY LedgerAssumption, FS_Subset
<1>2. Of(t, S, at) \in SUBSET S
    BY DEF Of
<1> QED
    BY <1>1, <1>2, FS_Subset DEF Group

------------------------------------------------------------------------------
\* Without the owner's cell the owner cannot act in a transaction, so each
\* token in it balances and all its amounts decode.
LEMMA NoOwnerAccepts ==
    ASSUME NEW t \in Tokens, ~Authority(t),
           NEW ins \in SUBSET Live, NEW outs, DOMAIN outs \in SUBSET Slots,
           Commit(ins, outs), InTx(t, ins, outs)
    PROVE  LET in  == Group(t, ins, cells)
               out == Group(t, DOMAIN outs, outs)
           IN  /\ AllDecodable(in)
               /\ AllDecodable(out)
               /\ Balanced(in, out)
<1>1. ~OwnerMode(t, ins)
    BY DEF Authority, OwnerMode
<1>2. ScriptAccepts(t, ins, outs)
    BY DEF Commit
<1> QED
    BY <1>1, <1>2 DEF ScriptAccepts, Accepts, Sums

\* The balance: a transaction without the owner neither adds units of the
\* token nor makes or removes a malformed cell of it.
LEMMA CommitWithoutOwner ==
    ASSUME TypeOK,
           NEW t \in Tokens, ~Authority(t),
           NEW ins \in SUBSET Live,
           NEW new \in SUBSET (ins \cup (Slots \ Live)),
           NEW outs \in [new -> Cells],
           Commit(ins, outs)
    PROVE  /\ Supply(t)' <= Supply(t)
           /\ Undecodable(t)' = Undecodable(t)
<1> DEFINE K == Of(t, Slots \ (ins \cup new), cells)
           I == Of(t, ins, cells)
           O == Of(t, new, outs)
           A == Of(t, Slots, cells)
           B == Of(t, Slots, cells')
           G == Group(t, Slots, cells)
           H == Group(t, Slots, cells')
           in  == Group(t, ins, cells)
           out == Group(t, new, outs)
<1>1. /\ ins \in SUBSET Slots
      /\ new \in SUBSET Slots
      /\ DOMAIN outs = new
      /\ Slots \ (ins \cup new) \in SUBSET Slots
    BY DEF Live
<1>2. cells' = [s \in Slots |-> IF s \in new THEN outs[s]
                                ELSE IF s \in ins THEN Free ELSE cells[s]]
    BY <1>1 DEF Commit
<1>3. A = K \cup I /\ K \cap I = {}
    BY <1>1 DEF Of, Live
<1>4. B = K \cup O /\ K \cap O = {}
    BY <1>1, <1>2 DEF Of
<1>5. /\ \A s \in K : G[s] = cells[s].data /\ H[s] = cells[s].data
      /\ \A s \in I : G[s] = in[s]
      /\ \A s \in O : H[s] = out[s]
    BY <1>1, <1>2, <1>3, <1>4 DEF Of, Group
<1>6. IsFiniteSet(K) /\ IsFiniteSet(I) /\ IsFiniteSet(O)
    BY <1>1, OfFinite
<1>7. DOMAIN in = I /\ DOMAIN out = O
    BY DEF Group
<1>8. InTx(t, ins, outs) => /\ AllDecodable(in)
                            /\ AllDecodable(out)
                            /\ Balanced(in, out)
    BY <1>1, NoOwnerAccepts
<1>9. Supply(t) = Total(A, G) /\ Supply(t)' = Total(B, H)
    BY DEF Supply
<1>10. /\ Undecodable(t)  = {s \in A : ~Decodable(cells[s].data)}
       /\ Undecodable(t)' = {s \in B : ~Decodable(cells'[s].data)}
    BY DEF Undecodable
<1>11. InTx(t, ins, outs) <=> I # {} \/ O # {}
    BY <1>1 DEF InTx
<1>12. /\ \A s \in I : in[s] = cells[s].data
       /\ \A s \in O : out[s] = cells'[s].data
       /\ \A s \in K : cells'[s] = cells[s]
    BY <1>1, <1>2 DEF Group, Of
<1> HIDE DEF K, I, O, A, B, G, H, in, out
<1>13. Supply(t)' <= Supply(t)
    <2>1. Total(A, G) = Total(K, G) + Total(I, G)
        BY <1>3, <1>6, TotalUnion
    <2>2. Total(B, H) = Total(K, H) + Total(O, H)
        BY <1>4, <1>6, TotalUnion
    <2>3. /\ Total(K, G) = Total(K, H)
          /\ Total(I, G) = Total(I, in)
          /\ Total(O, H) = Total(O, out)
        <3>1. \A s \in K : G[s] = H[s]
            BY <1>5
        <3>2. Total(K, G) = Total(K, H)
            BY <3>1, TotalSame
        <3>3. Total(I, G) = Total(I, in)
            BY <1>5, TotalSame
        <3>4. Total(O, H) = Total(O, out)
            BY <1>5, TotalSame
        <3> QED
            BY <3>2, <3>3, <3>4
    <2>4. /\ Total(K, H) \in Nat
          /\ Total(I, in) \in Nat
          /\ Total(O, out) \in Nat
        BY <1>6, TotalType
    <2>5. Total(O, out) <= Total(I, in)
        <3>1. CASE O = {}
            BY <2>4, <3>1, TotalEmpty
        <3>2. CASE O # {}
            BY <1>7, <1>8, <1>11, <3>2 DEF Balanced
        <3> QED
            BY <3>1, <3>2
    <2> QED
        BY <1>9, <2>1, <2>2, <2>3, <2>4, <2>5
<1>14. Undecodable(t)' = Undecodable(t)
    <2>1. \A s \in I : Decodable(cells[s].data)
        BY <1>7, <1>8, <1>11, <1>12 DEF AllDecodable
    <2>2. \A s \in O : Decodable(cells'[s].data)
        BY <1>7, <1>8, <1>11, <1>12 DEF AllDecodable
    <2> QED
        BY <1>3, <1>4, <1>10, <1>12, <2>1, <2>2
<1> QED
    BY <1>13, <1>14

\* The same of any step of the chain.
LEMMA StepWithoutOwner ==
    ASSUME TypeOK, [Next]_cells, NEW t \in Tokens, ~Authority(t)
    PROVE  /\ Supply(t)' <= Supply(t)
           /\ Undecodable(t)' = Undecodable(t)
<1>1. CASE Next
    <2>1. PICK ins \in SUBSET Live \ {{}} :
            \E new \in SUBSET (ins \cup (Slots \ Live)) \ {{}} :
                \E outs \in [new -> Cells] : Commit(ins, outs)
        BY <1>1 DEF Next
    <2>2. PICK new \in SUBSET (ins \cup (Slots \ Live)) \ {{}} :
            \E outs \in [new -> Cells] : Commit(ins, outs)
        BY <2>1
    <2>3. PICK outs \in [new -> Cells] : Commit(ins, outs)
        BY <2>2
    <2> QED
        BY <2>3, CommitWithoutOwner
<1>2. CASE UNCHANGED cells
    <2>1. Supply(t)' = Supply(t) /\ Undecodable(t)' = Undecodable(t)
        BY <1>2 DEF Supply, Undecodable, Of, Group
    <2>2. Supply(t) \in Nat
        BY OfFinite, TotalType DEF Supply
    <2> QED
        BY <2>1, <2>2
<1> QED
    BY <1>1, <1>2

------------------------------------------------------------------------------
\* The units of a token are a number, before and after a step.
LEMMA SupplyType ==
    ASSUME NEW t
    PROVE  Supply(t) \in Nat /\ Supply(t)' \in Nat
BY OfFinite, TotalType DEF Supply

\* At the start no cell is of any token.
LEMMA InitEmpty ==
    ASSUME Init, NEW t \in Tokens
    PROVE  Of(t, Slots, cells) = {}
BY LedgerAssumption DEF Init, Of

LEMMA InitSupply ==
    ASSUME Init, NEW t \in Tokens
    PROVE  Supply(t) = 0
BY InitEmpty, TotalEmpty DEF Supply

\* The script implements the promise of a token: no sequence of transactions
\* adds a unit of it while no cell of its owner's type is live.
THEOREM LedgerImplementsTokenSupply == Spec => NoInflation
<1> DEFINE supply == [t \in Tokens |-> Supply(t)]
           authority == [t \in Tokens |-> Authority(t)]
<1>1. authority \in [Tokens -> BOOLEAN]
    BY DEF Authority
<1>2. Init => TokenSupply!Init
    <2> SUFFICES ASSUME Init
                 PROVE  TokenSupply!Init
        OBVIOUS
    <2>1. supply = [t \in Tokens |-> 0]
        BY InitSupply
    <2> QED
        BY <1>1, <2>1 DEF TokenSupply!Init
<1>3. TypeOK /\ [Next]_cells => [TokenSupply!Change]_(TokenSupply!vars)
    <2> SUFFICES ASSUME TypeOK, [Next]_cells
                 PROVE  TokenSupply!Change
        OBVIOUS
    <2>1. authority' \in [Tokens -> BOOLEAN]
        BY DEF Authority
    <2>2. supply' \in [Tokens -> Nat]
        <3>1. \A t \in Tokens : Supply(t)' \in Nat
            BY SupplyType
        <3> QED
            BY <3>1
    <2>3. \A t \in Tokens : supply'[t] > supply[t] => authority[t]
        <3> SUFFICES ASSUME NEW t \in Tokens, ~Authority(t)
                     PROVE  ~(Supply(t)' > Supply(t))
            OBVIOUS
        <3>1. Supply(t)' <= Supply(t)
            BY StepWithoutOwner
        <3>2. Supply(t) \in Nat /\ Supply(t)' \in Nat
            BY SupplyType
        <3> QED
            BY <3>1, <3>2
    <2> QED
        BY <2>1, <2>2, <2>3 DEF TokenSupply!Change
<1> QED
    BY <1>2, <1>3, LedgerTypeCorrect, PTL
    DEF Spec, NoInflation, TokenSupply!Spec

\* Malformed cells of a token neither appear nor disappear without its owner.
THEOREM MalformedStayPut == Spec => UndecodableNeedsOwner
<1>1. TypeOK /\ [Next]_cells =>
        [\A t \in Tokens : ~Authority(t) =>
            Undecodable(t)' = Undecodable(t)]_cells
    BY StepWithoutOwner
<1> QED
    BY <1>1, LedgerTypeCorrect, PTL DEF Spec, UndecodableNeedsOwner

\* A hash that no type script has is never the type of a live cell.
LEMMA NobodyOwns ==
    ASSUME TypeOK, NEW t \in Tokens, Owner[t] \notin Types
    PROVE  ~Authority(t)
<1>1. Owner[t] # NoType
    BY LedgerAssumption
<1> QED
    BY <1>1 DEF TypeOK, Authority, Live, Cells, Types

\* A token owned by a hash that no type script has, as every token is that
\* mint_tokens names, is worth nothing for ever.
THEOREM OwnerlessNeverExists == Spec => []OwnerlessIsWorthless
<1> DEFINE Inv == TypeOK /\ OwnerlessIsWorthless
<1>1. Init => Inv
    <2> SUFFICES ASSUME Init
                 PROVE  Inv
        OBVIOUS
    <2>1. TypeOK
        BY DEF Init, TypeOK
    <2>2. \A t \in Tokens : Supply(t) = 0 /\ Undecodable(t) = {}
        BY InitEmpty, InitSupply DEF Undecodable
    <2> QED
        BY <2>1, <2>2 DEF OwnerlessIsWorthless
<1>2. Inv /\ [Next]_cells => Inv'
    <2> SUFFICES ASSUME Inv, [Next]_cells
                 PROVE  Inv'
        OBVIOUS
    <2>1. TypeOK'
        BY LedgerTypeStep
    <2>2. ASSUME NEW t \in Tokens, Owner[t] \notin Types
          PROVE  Supply(t)' = 0 /\ Undecodable(t)' = {}
        <3>1. Supply(t) = 0 /\ Undecodable(t) = {}
            BY <2>2 DEF OwnerlessIsWorthless
        <3>2. Supply(t)' <= Supply(t) /\ Undecodable(t)' = Undecodable(t)
            BY <2>2, NobodyOwns, StepWithoutOwner
        <3>3. Supply(t)' \in Nat
            BY SupplyType
        <3> QED
            BY <3>1, <3>2, <3>3
    <2> QED
        BY <2>1, <2>2 DEF OwnerlessIsWorthless
<1>3. Inv => OwnerlessIsWorthless
    OBVIOUS
<1> QED
    BY <1>1, <1>2, <1>3, PTL DEF Spec
==============================================================================
