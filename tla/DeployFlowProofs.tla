--------------------------- MODULE DeployFlowProofs ---------------------------
(***************************************************************************)
(* Proofs about DeployFlow, for any number of invocations, addresses,      *)
(* scripts and fee cells, and any budget of mishaps.                       *)
(*                                                                         *)
(* The inductive invariant is Inv. Three parts of it carry the theorems:   *)
(* MoneyInv, that what is pending spends the first cells of its owner's    *)
(* wallet and that a spent cell never comes back; MemoryInv, that what a   *)
(* process holds in memory was read from the place the code says; and      *)
(* FileInv, that whenever the frozen file is not that of a reported        *)
(* deployment, some deployment is still on its way to writing or reporting *)
(* it.                                                                     *)
(***************************************************************************)
EXTENDS DeployFlow, DataProofs

\* c was there at the start, or one of these transactions created it.
Originates(c, txs) == c.from[1] = <<>> \/ \E u \in txs : c.from[1] = u.inputs

FeeCell(c, a, txs) ==
    /\ c.lock = a
    /\ c.capacity \in Nat /\ c.capacity >= MinChange
    /\ Originates(c, txs)

FeeList(s, a, txs) ==
    /\ s \in Seq(ToSet(s))
    /\ \A i \in DOMAIN s : FeeCell(s[i], a, txs)

IsWallet(w, a, txs) ==
    /\ FeeList(w, a, txs)
    /\ IsInjective(w)

Lost(s, w) == ~(ToSet(s) \subseteq ToSet(w))

\* Cells of an address that were the first of its wallet, and still are or
\* have lost one of them for good.
Payment(s, w, a, txs) ==
    /\ FeeList(s, a, txs)
    /\ s # <<>>
    /\ Leads(s, w) \/ Lost(s, w)

\* What is known of a cell that has been paid for.
CellOk(cell) ==
    /\ cell.capacity \in Nat
    /\ cell.type = NoType

PendingOk(tx) ==
    /\ tx.key \in Addresses
    /\ CellOk(tx.outputs[1])
    /\ FeeList(tx.inputs, tx.key, chain)
    /\ Leads(tx.inputs, wallet[tx.key])
    /\ tx.outputs[2].capacity = Change(tx.inputs, tx.outputs[1].capacity)
    /\ tx.outputs[2].capacity >= MinChange

CommittedOk(tx) ==
    /\ tx.key \in Addresses
    /\ CellOk(tx.outputs[1])
    /\ tx.inputs # <<>>
    /\ FeeCell(tx.inputs[1], tx.key, chain)
    /\ tx.inputs[1] \notin ToSet(wallet[tx.key])

Price(tx) == tx.outputs[1].capacity + Fee

\* The cost coin by coin.
Coins(txs) == UNION {{tx} \X (1..Price(tx)) : tx \in txs}

Counted(txs) ==
    /\ IsFiniteSet(txs) /\ IsFiniteSet(Coins(txs))
    /\ \A tx \in txs : Price(tx) \in Nat

Mine(a, txs) == {tx \in txs : tx.key = a}

MoneyInv ==
    /\ DOMAIN wallet = Addresses
    /\ \A a \in Addresses : IsWallet(wallet[a], a, chain)
    /\ \A tx \in pool : PendingOk(tx)
    /\ \A tx, other \in pool : tx.key = other.key => tx = other
    /\ \A tx \in chain : CommittedOk(tx)
    /\ \A a \in Addresses : Counted(Mine(a, chain))
    /\ PaysForOwnCells

IsCode(p, idls) ==
    \E binary \in Nat, idl \in idls : out[p] = CodeCell(p, binary, idl)

Creates(p) == Jobs[p].command = "create" /\ ArgsGiven(p)

\* The output cell of a command that is about to pay.
Made(p) ==
    \/ Jobs[p].command # "create" /\ IsCode(p, Nat \cup {NoIdl})
    \/ Creates(p) /\ out[p] = LockedCell(p)
    \/ Jobs[p].command = "deploy-sudt" /\ out[p] = UdtCell(p)

Funded(p) ==
    /\ Jobs[p].address \in Addresses
    /\ Payment(fees[p], wallet[Jobs[p].address], Jobs[p].address, chain)
    /\ Enough(fees[p], out[p].capacity)

MemoryOk(p) ==
    /\ Jobs[p].command = "deploy" => code[p] = Nothing
    /\ pc[p] = "binary" => Jobs[p].command # "create"
    /\ pc[p] = "idl" => Jobs[p].command = "deploy" /\ IsCode(p, {NoIdl})
    /\ pc[p] \in {"freeze", "write"} => Jobs[p].command = "deploy" /\ IsCode(p, Nat)
    /\ pc[p] = "fetch" =>
          /\ Jobs[p].command # "deploy"
          /\ Jobs[p].command = "create" => Creates(p)
    /\ pc[p] \in {"balance", "send"} => Made(p)
    /\ pc[p] = "send" => Funded(p)

MemoryInv ==
    /\ DOMAIN code = Deployers /\ DOMAIN out = Deployers
    /\ DOMAIN fees = Deployers
    /\ pc \in [Deployers -> Stages]
    /\ \A p \in Deployers : MemoryOk(p)

\* The deployment p of script s has yet to write the file of s, or to report
\* what it has written.
Underway(p, s) ==
    /\ Deploys(p, s)
    /\ \/ pc[p] \notin {"balance", "send", "reported"}
       \/ pc[p] \in {"balance", "send"} /\ frozen[s] = out[p].data.idl

Frozens == Nat \cup {NoFile, Empty, Torn}

\* It takes another deployment to mix up the file.
Overlap(s) == \E p, q \in Deployers : Deploys(p, s) /\ Deploys(q, s) /\ p # q

FileOk(s) ==
    /\ frozen[s] \in Frozens
    /\ s # "sudt" => \A t \in printed[s] : t.outputs[1].data.script = s
    /\ \A p \in Deployers :
          (Deploys(p, s) /\ pc[p] = "write") => frozen[s] = Empty \/ Overlap(s)
    /\ (\E p \in Deployers : Deploys(p, s)) =>
          \/ frozen[s] \in Idls(printed[s])
          \/ frozen[s] = Torn /\ Overlap(s)
          \/ \E p \in Deployers : Underway(p, s)

FileInv ==
    /\ DOMAIN frozen = Scripts /\ DOMAIN printed = Scripts
    /\ tree \in [Scripts -> [binary : Nat, idl : Nat]]
    /\ \A s \in Scripts : FileOk(s)

BudgetInv ==
    /\ DOMAIN budget = DOMAIN Budget
    /\ \A k \in DOMAIN Budget : budget[k] \in 0..Budget[k]

Inv ==
    /\ MoneyInv
    /\ MemoryInv
    /\ FileInv
    /\ BudgetInv

------------------------------------------------------------------------------
(***************************************************************************)
(* Lists of fee cells                                                      *)
(***************************************************************************)
LEMMA FeeListIs ==
    ASSUME NEW s, NEW a, NEW txs, FeeList(s, a, txs)
    PROVE  /\ WithCapacity(ToSet(s)) /\ s \in Seq(ToSet(s))
           /\ Capacity(s) \in Nat
           /\ \A c \in ToSet(s) : FeeCell(c, a, txs)
<1>1. s \in Seq(ToSet(s)) /\ \A c \in ToSet(s) : FeeCell(c, a, txs)
    BY DEF FeeList, ToSet
<1>2. WithCapacity(ToSet(s))
    BY <1>1 DEF FeeCell, WithCapacity
<1> QED
    BY <1>1, <1>2, CapacityType

LEMMA FeeListIf ==
    ASSUME NEW S, NEW s \in Seq(S), NEW a, NEW txs,
           \A c \in ToSet(s) : FeeCell(c, a, txs)
    PROVE  FeeList(s, a, txs)
<1>1. s \in Seq(ToSet(s))
    BY OwnRange
<1>2. \A i \in DOMAIN s : s[i] \in ToSet(s)
    BY DEF ToSet
<1> QED
    BY <1>1, <1>2 DEF FeeList

LEMMA FeeListGrows ==
    ASSUME NEW s, NEW a, NEW txs, FeeList(s, a, txs),
           NEW more, txs \subseteq more
    PROVE  FeeList(s, a, more)
BY DEF FeeList, FeeCell, Originates

\* The first of a list is one of it.
LEMMA FirstOf ==
    ASSUME NEW s, NEW a, NEW txs, FeeList(s, a, txs), s # <<>>
    PROVE  s[1] \in ToSet(s) /\ FeeCell(s[1], a, txs)
<1>1. s \in Seq(ToSet(s))
    BY DEF FeeList
<1>2. 1 \in DOMAIN s
    BY <1>1
<1> QED
    BY <1>2 DEF ToSet, FeeList

\* Some prefix, not empty, of a list of fee cells.
LEMMA LeadingFees ==
    ASSUME NEW w, NEW a, NEW txs, FeeList(w, a, txs), NEW s, Leads(s, w)
    PROVE  /\ FeeList(s, a, txs) /\ s # <<>> /\ w # <<>>
           /\ s[1] = w[1] /\ s[1] \in ToSet(s)
           /\ ToSet(s) \subseteq ToSet(w)
<1>1. w \in Seq(ToSet(w)) /\ \A c \in ToSet(w) : FeeCell(c, a, txs)
    BY FeeListIs
<1>2. /\ s \in Seq(ToSet(s)) /\ Len(s) \in Nat \ {0}
      /\ ToSet(s) \subseteq ToSet(w)
      /\ w # <<>> /\ s[1] = w[1] /\ s[1] \in ToSet(s)
    BY <1>1, LeadsIs
<1>3. FeeList(s, a, txs)
    BY <1>1, <1>2, FeeListIf
<1>4. s # <<>>
    BY <1>2
<1> QED
    BY <1>2, <1>3, <1>4

\* Nothing is not enough.
LEMMA NothingIsNotEnough ==
    ASSUME NEW pay \in Nat
    PROVE  ~Enough(<<>>, pay)
BY CapacityEmpty, FeeAssumption DEF Enough, MinChange

\* The cells that Collect takes from a wallet that is large enough.
LEMMA CollectLeads ==
    ASSUME NEW w, NEW a, NEW txs, FeeList(w, a, txs),
           NEW pay \in Nat, Enough(w, pay)
    PROVE  Leads(Collect(w, pay), w) /\ Enough(Collect(w, pay), pay)
<1> DEFINE Prefix(m) == SubSeq(w, 1, m)
           need == pay + MinChange + Fee
           n == CHOOSE n \in 0..Len(w) :
                   /\ Enough(Prefix(n), pay)
                   /\ \A k \in 0..(n - 1) : ~Enough(Prefix(k), pay)
<1>1. w \in Seq(ToSet(w)) /\ Len(w) \in Nat
    BY DEF FeeList
<1>2. PICK m \in 0..Len(w) : Shortest(w, need, m)
    BY <1>1, ShortestExists DEF Enough
<1>3. n \in 0..Len(w) /\ Enough(Prefix(n), pay)
    BY <1>2 DEF Shortest, Enough
<1>4. Collect(w, pay) = Prefix(n)
    BY DEF Collect
<1> HIDE DEF n
<1>5. n # 0
    <2>1. Prefix(0) = <<>>
        BY <1>1
    <2> QED
        BY <1>3, <2>1, NothingIsNotEnough
<1>6. Leads(Prefix(n), w)
    BY <1>1, <1>3, <1>5 DEF Leads
<1> QED
    BY <1>3, <1>4, <1>6

------------------------------------------------------------------------------
(***************************************************************************)
(* What transactions cost                                                  *)
(***************************************************************************)
CostOf(sum, txs) ==
    sum = [some \in SUBSET txs |->
              IF some = {} THEN 0
              ELSE LET tx == CHOOSE tx \in some : TRUE
                   IN  tx.outputs[1].capacity + Fee + sum[some \ {tx}]]

LEMMA CoinsOfOne ==
    ASSUME NEW tx, Price(tx) \in Nat
    PROVE  /\ IsFiniteSet({tx} \X (1..Price(tx)))
           /\ Cardinality({tx} \X (1..Price(tx))) = Price(tx)
<1> DEFINE k == Price(tx)
<1>1. /\ IsFiniteSet(1..k)
      /\ Cardinality(1..k) = IF 1 > k THEN 0 ELSE k - 1 + 1
    BY FS_Interval
<1>2. Cardinality(1..k) = k
    BY <1>1
<1>3. IsFiniteSet({tx}) /\ Cardinality({tx}) = 1
    BY FS_Singleton
<1> HIDE DEF k
<1>4. /\ IsFiniteSet({tx} \X (1..k))
      /\ Cardinality({tx} \X (1..k)) = Cardinality({tx}) * Cardinality(1..k)
    BY <1>1, <1>3, FS_Product
<1>5. k \in Nat /\ 1 * k = k
    BY DEF k
<1> QED
    BY <1>2, <1>3, <1>4, <1>5 DEF k

LEMMA CoinsAdd ==
    ASSUME NEW txs, IsFiniteSet(Coins(txs)),
           NEW tx, tx \notin txs, Price(tx) \in Nat
    PROVE  /\ IsFiniteSet(Coins(txs \cup {tx}))
           /\ Cardinality(Coins(txs \cup {tx}))
                = Cardinality(Coins(txs)) + Price(tx)
<1> DEFINE C == Coins(txs)
           D == {tx} \X (1..Price(tx))
<1>1. Coins(txs \cup {tx}) = C \cup D
    BY DEF Coins
<1>2. C \cap D = {}
    BY DEF Coins
<1>3. IsFiniteSet(D) /\ Cardinality(D) = Price(tx)
    BY CoinsOfOne
<1> HIDE DEF C, D
<1>4. IsFiniteSet(C)
    BY DEF C
<1>5. /\ IsFiniteSet(C \cup D)
      /\ Cardinality(C \cup D)
           = Cardinality(C) + Cardinality(D) - Cardinality(C \cap D)
    BY <1>3, <1>4, FS_Union
<1>6. Cardinality(C \cap D) = 0
    BY <1>2, FS_EmptySet
<1>7. Cardinality(C) \in Nat
    BY <1>4, FS_CardinalityType
<1>8. Cardinality(C \cup D) = Cardinality(C) + Price(tx)
    BY <1>3, <1>5, <1>6, <1>7
<1>9. /\ IsFiniteSet(Coins(txs \cup {tx}))
      /\ Cardinality(Coins(txs \cup {tx})) = Cardinality(C) + Price(tx)
    BY <1>1, <1>5, <1>8
<1> QED
    BY <1>9 DEF C

LEMMA CountedAdd ==
    ASSUME NEW txs, Counted(txs), NEW tx, tx \notin txs, Price(tx) \in Nat
    PROVE  Counted(txs \cup {tx})
<1>1. IsFiniteSet(txs \cup {tx})
    BY FS_AddElement DEF Counted
<1>2. IsFiniteSet(Coins(txs \cup {tx}))
    BY CoinsAdd DEF Counted
<1> QED
    BY <1>1, <1>2 DEF Counted

LEMMA CountedPart ==
    ASSUME NEW txs, Counted(txs), NEW some \in SUBSET txs
    PROVE  Counted(some)
<1>1. IsFiniteSet(some)
    BY FS_Subset DEF Counted
<1>2. Coins(some) \in SUBSET Coins(txs)
    BY DEF Coins
<1>3. IsFiniteSet(Coins(some))
    BY <1>2, FS_Subset DEF Counted
<1> QED
    BY <1>1, <1>3 DEF Counted

\* One that is picked from some transactions, and the others.
LEMMA CoinsPick ==
    ASSUME NEW some, Counted(some), NEW tx \in some
    PROVE  /\ Cardinality(Coins(some))
                = Price(tx) + Cardinality(Coins(some \ {tx}))
           /\ Cardinality(Coins(some \ {tx})) \in Nat
<1> DEFINE others == some \ {tx}
<1>1. Counted(others) /\ tx \notin others /\ Price(tx) \in Nat
    BY CountedPart DEF Counted
<1>2. others \cup {tx} = some
    OBVIOUS
<1> HIDE DEF others
<1>3. Cardinality(Coins(others \cup {tx}))
        = Cardinality(Coins(others)) + Price(tx)
    BY <1>1, CoinsAdd DEF Counted
<1>4. Cardinality(Coins(others)) \in Nat
    BY <1>1, FS_CardinalityType DEF Counted
<1>5. Cardinality(Coins(some)) = Price(tx) + Cardinality(Coins(others))
    BY <1>1, <1>2, <1>3, <1>4
<1> QED
    BY <1>4, <1>5 DEF others

Pick(some) == CHOOSE tx \in some : TRUE

\* The sum that Cost defines is the number of coins, in whatever order the
\* transactions are picked.
LEMMA CostIsCoins ==
    ASSUME NEW txs, Counted(txs)
    PROVE  Cost(txs) = Cardinality(Coins(txs))
<1> DEFINE g == [some \in SUBSET txs |-> Cardinality(Coins(some))]
           Summed(f, some) == IF some = {} THEN 0
                             ELSE Price(Pick(some)) + f[some \ {Pick(some)}]
<1>1. \A some \in SUBSET txs : some # {} =>
         /\ Pick(some) \in some
         /\ some \ {Pick(some)} \in SUBSET txs
    BY DEF Pick
<1>2. Cardinality(Coins({})) = 0
    <2>1. Coins({}) = {}
        BY DEF Coins
    <2> QED
        BY <2>1, FS_EmptySet
<1>3. \A some \in SUBSET txs : g[some] = Summed(g, some)
    <2> SUFFICES ASSUME NEW some \in SUBSET txs
                 PROVE  g[some] = Summed(g, some)
        OBVIOUS
    <2>1. CASE some = {}
        BY <1>2, <2>1
    <2>2. CASE some # {}
        <3> DEFINE tx == Pick(some)
        <3>1. tx \in some /\ some \ {tx} \in SUBSET txs
            BY <1>1, <2>2
        <3>2. g[some] = Cardinality(Coins(some))
              /\ g[some \ {tx}] = Cardinality(Coins(some \ {tx}))
            BY <3>1
        <3> HIDE DEF tx, g
        <3>3. g[some] = Price(tx) + g[some \ {tx}]
            BY <3>1, <3>2, CountedPart, CoinsPick
        <3> QED
            BY <2>2, <3>3 DEF tx
    <2> QED
        BY <2>1, <2>2
<1>4. CostOf(g, txs)
    <2>1. g = [some \in SUBSET txs |-> Summed(g, some)]
        <3>1. g = [some \in SUBSET txs |-> g[some]]
            OBVIOUS
        <3> HIDE DEF g, Summed
        <3> QED
            BY <1>3, <3>1
    <2> HIDE DEF g
    <2> QED
        BY <2>1 DEF CostOf, Price, Pick
<1> DEFINE f == CHOOSE f : CostOf(f, txs)
<1>5. CostOf(f, txs) /\ Cost(txs) = f[txs]
    BY <1>4 DEF Cost, CostOf
<1> HIDE DEF f
<1>6. \A some \in SUBSET txs : f[some] = Summed(f, some)
    <2>1. f = [some \in SUBSET txs |-> Summed(f, some)]
        BY <1>5 DEF CostOf, Price, Pick
    <2> HIDE DEF Summed
    <2> QED
        BY <2>1
<1>7. \A some \in SUBSET txs :
         IsFiniteSet(some) /\ Cardinality(some) \in Nat
    BY CountedPart, FS_CardinalityType DEF Counted
<1> DEFINE Wrong == {some \in SUBSET txs : f[some] # g[some]}
           Sizes == {Cardinality(some) : some \in Wrong}
<1> HIDE DEF g
<1>8. Wrong = {}
    <2> SUFFICES ASSUME Wrong # {}
                 PROVE  FALSE
        OBVIOUS
    <2>1. Sizes \subseteq Nat /\ Sizes # {}
        BY <1>7
    <2>2. PICK n \in Sizes : \A m \in Sizes : n <= m
        <3> HIDE DEF Sizes
        <3> QED
            BY <2>1, Least
    <2>3. PICK some \in Wrong : n = Cardinality(some)
        OBVIOUS
    <2>4. some # {}
        <3>1. {} \in SUBSET txs
            OBVIOUS
        <3>2. f[{}] = 0 /\ g[{}] = 0
            BY <1>3, <1>6, <3>1
        <3> QED
            BY <2>3, <3>2
    <2> DEFINE tx == Pick(some)
               others == some \ {tx}
    <2>5. tx \in some /\ others \in SUBSET txs /\ some \in SUBSET txs
        BY <1>1, <2>4
    <2>6. f[some] = Price(tx) + f[others] /\ g[some] = Price(tx) + g[others]
        BY <1>3, <1>6, <2>4, <2>5
    <2>7. others \in Wrong
        BY <2>3, <2>5, <2>6
    <2>8. Cardinality(others) = Cardinality(some) - 1
        BY <1>7, <2>5, FS_RemoveElement
    <2>9. Cardinality(others) \in Sizes
        BY <2>7
    <2>10. n <= Cardinality(others) /\ Cardinality(some) \in Nat
        BY <1>7, <2>2, <2>5, <2>9
    <2> HIDE DEF others, tx, Wrong, Sizes
    <2> QED
        BY <2>3, <2>8, <2>10
<1>9. f[txs] = g[txs]
    BY <1>8
<1> QED
    BY <1>5, <1>9 DEF g

LEMMA CostAdd ==
    ASSUME NEW txs, Counted(txs), NEW tx, tx \notin txs, Price(tx) \in Nat
    PROVE  Cost(txs \cup {tx}) = Cost(txs) + Price(tx)
BY CountedAdd, CostIsCoins, CoinsAdd DEF Counted

------------------------------------------------------------------------------
(***************************************************************************)
(* Cells that are made                                                     *)
(***************************************************************************)
LEMMA JobIs ==
    ASSUME NEW p \in Deployers
    PROVE  /\ Jobs[p].script \in Scripts
           /\ \/ /\ Jobs[p].command \in {"deploy", "create"}
                 /\ Jobs[p].script \in {"simple", "timelock"}
              \/ Jobs[p].command = "deploy-sudt" /\ Jobs[p].script = "sudt"
           /\ Jobs[p].pubkey \in Nat
BY DeployAssumption DEF Scripts

\* What is minted is never read as nothing.
LEMMA MintedIsRead ==
    FromLE(BE(MintAmount, AmountWidth)) \in Nat \ {0}
<1>1. MintAmount \in Nat /\ MintAmount # 0 /\ AmountWidth \in Nat
    BY DeployAssumption, MaxAmountAssumption
<1>2. MintAmount <= Values(AmountWidth) - 1
    BY DeployAssumption, MaxAmountAssumption
<1>3. Values(AmountWidth) \in Nat
    <2>1. PICK v : IsValues(v, AmountWidth) /\ Values(AmountWidth) = v[AmountWidth]
        BY <1>1, ValuesIs
    <2>2. AmountWidth \in 0..AmountWidth
        BY <1>1
    <2> QED
        BY <2>1, <2>2 DEF IsValues
<1>4. MintAmount < Values(AmountWidth)
    BY <1>1, <1>2, <1>3
<1> QED
    BY <1>1, <1>4, ReadsNonzero

\* Without inputs and without the owner, the script accepts no amount.
LEMMA NoInputNoOutput ==
    ASSUME NEW d, d.len = AmountSize, d.value \in Nat \ {0},
           MaxAmount # 0
    PROVE  ~Accepts(HashSize, FALSE, <<>>, <<d>>)
<1> DEFINE in == <<>>
           group == <<d>>
<1>1. DOMAIN in = {} /\ DOMAIN group = {1} /\ group[1] = d
    OBVIOUS
<1>2. Amount(d) \in Nat \ {0}
    BY DEF Amount, Decodable, AmountSize
<1> HIDE DEF in, group
<1>3. <<1, 1>> \in Units({1}, group)
    BY <1>1, <1>2, MaxAmountAssumption DEF Units
<1>4. IsFiniteSet({1})
    BY FS_Singleton
<1>5. Total({1}, group) \in Nat /\ Total({1}, group) # 0
    <2>1. IsFiniteSet(Units({1}, group))
        BY <1>4, UnitsFinite
    <2>2. Cardinality(Units({1}, group)) # 0
        BY <1>3, <2>1, FS_EmptySet
    <2> QED
        BY <1>4, <2>2, TotalType DEF Total
<1>6. Total({}, in) = 0
    BY TotalEmpty
<1>7. ~Balanced(in, group)
    BY <1>1, <1>5, <1>6 DEF Balanced
<1>8. ~Accepts(HashSize, FALSE, in, group)
    BY <1>7 DEF Accepts
<1> QED
    BY <1>8 DEF in, group

\* The minted cell is refused, if it has a type at all.
LEMMA UdtIsRefused ==
    ASSUME NEW p \in Deployers, TypeAccepts(UdtCell(p))
    PROVE  UdtCell(p).type = NoType
<1> DEFINE cell == UdtCell(p)
<1>1. /\ cell.data.len = AmountSize
      /\ cell.data.value = FromLE(BE(MintAmount, AmountWidth))
    BY DEF UdtCell
<1>2. MaxAmount # 0
    BY DeployAssumption, MaxAmountAssumption
<1> HIDE DEF cell
<1>3. cell.data.value \in Nat \ {0}
    BY <1>1, MintedIsRead
<1>4. ~Accepts(HashSize, FALSE, <<>>, <<cell.data>>)
    BY <1>1, <1>2, <1>3, NoInputNoOutput
<1>5. TypeAccepts(cell)
    BY DEF cell
<1>6. cell.type = NoType
    BY <1>4, <1>5 DEF TypeAccepts
<1> QED
    BY <1>6 DEF cell

LEMMA CodeCellIs ==
    ASSUME NEW p, NEW binary, NEW idl
    PROVE  LET cell == CodeCell(p, binary, idl) IN
           /\ cell.lock = Jobs[p].address
           /\ cell.type = NoType
           /\ cell.data.binary = binary /\ cell.data.idl = idl
           /\ cell.data.script = Jobs[p].script
           /\ cell.size \in Nat
           /\ cell.capacity = cell.size + 100 /\ cell.capacity \in Nat
<1> DEFINE size == CodeSize + (IF idl = NoIdl THEN 0 ELSE HashSize)
<1>1. size \in Nat
    BY DeployAssumption DEF HashSize
<1> HIDE DEF size
<1>2. CodeCell(p, binary, idl) =
         [lock |-> Jobs[p].address, type |-> NoType, size |-> size,
          data |-> [script |-> Jobs[p].script, binary |-> binary, idl |-> idl],
          capacity |-> size + 100]
    BY DEF CodeCell, CodeCapacity, size
<1> QED
    BY <1>1, <1>2

LEMMA LockedCellIs ==
    ASSUME NEW p \in Deployers
    PROVE  LET cell == LockedCell(p) IN
           /\ cell.lock.argsLen = ArgsLen(p)
           /\ cell.lock.code = code[p].outputs[1].data
           /\ cell.type = NoType /\ cell.size = 0 /\ cell.capacity = 70464
BY DEF LockedCell

LEMMA UdtCellIs ==
    ASSUME NEW p \in Deployers
    PROVE  LET cell == UdtCell(p) IN
           /\ cell.lock = Jobs[p].address
           /\ cell.size = 16 /\ cell.capacity = 142
BY DEF UdtCell, AmountSize

ArgsFit(p) ==
    ArgsLen(p) = IF Jobs[p].script = "timelock"
                 THEN PubkeySize + HashSize ELSE HashSize

LEMMA ArgsAreWhole ==
    ASSUME NEW p \in Deployers, ArgsGiven(p)
    PROVE  ArgsFit(p) /\ ArgsLen(p) \in 0..65
BY DEF ArgsGiven, ArgsLen, ArgsFit, PubkeySize, HashSize

\* A cell that is about to be paid for has a capacity.
LEMMA MadeCapacity ==
    ASSUME NEW p \in Deployers, Made(p)
    PROVE  out[p].capacity \in Nat
BY CodeCellIs, LockedCellIs, UdtCellIs DEF Made, IsCode

\* What can be paid for and has no type, or one that accepts it, is a cell
\* that the invariant allows.
LEMMA MadeIsOk ==
    ASSUME NEW p \in Deployers, Made(p), Jobs[p].address \in Addresses,
           TypeAccepts(out[p])
    PROVE  CellOk(out[p])
<1>1. CASE IsCode(p, Nat \cup {NoIdl})
    <2>1. /\ out[p].lock = Jobs[p].address /\ out[p].type = NoType
          /\ out[p].capacity \in Nat
        BY <1>1, CodeCellIs DEF IsCode
    <2> QED
        BY <2>1 DEF CellOk
<1>2. CASE out[p] = LockedCell(p)
    BY <1>2, LockedCellIs DEF CellOk
<1>3. CASE out[p] = UdtCell(p)
    <2>1. /\ out[p].lock = Jobs[p].address /\ out[p].capacity \in Nat
          /\ out[p].type = NoType
        BY <1>3, UdtCellIs, UdtIsRefused
    <2> QED
        BY <2>1 DEF CellOk
<1> QED
    BY <1>1, <1>2, <1>3 DEF Made

\* Every cell that a command makes has the capacity it occupies.
LEMMA MadeOccupied ==
    ASSUME NEW p \in Deployers, Made(p), Jobs[p].address \in Addresses,
           out[p].type = NoType
    PROVE  out[p].capacity >= Occupied(out[p])
<1>1. CASE IsCode(p, Nat \cup {NoIdl})
    <2>1. /\ out[p].lock \in Addresses
          /\ out[p].size \in Nat /\ out[p].capacity = out[p].size + 100
        BY <1>1, CodeCellIs DEF IsCode
    <2> QED
        BY <2>1 DEF Occupied
<1>2. CASE Creates(p) /\ out[p] = LockedCell(p)
    <2>1. /\ out[p].lock.argsLen = ArgsLen(p)
          /\ out[p].size = 0 /\ out[p].capacity = 70464
        BY <1>2, LockedCellIs
    <2>2. ArgsLen(p) \in 0..65
        BY <1>2, ArgsAreWhole DEF Creates
    <2> QED
        BY <2>1, <2>2 DEF Occupied
<1>3. CASE out[p] = UdtCell(p)
    <2>1. /\ out[p].lock \in Addresses
          /\ out[p].size = 16 /\ out[p].capacity = 142
        BY <1>3, UdtCellIs
    <2> QED
        BY <2>1 DEF Occupied
<1> QED
    BY <1>1, <1>2, <1>3 DEF Made

------------------------------------------------------------------------------
(***************************************************************************)
(* What the node admits                                                    *)
(***************************************************************************)
LEMMA WalletIs ==
    ASSUME MoneyInv, NEW a \in Addresses
    PROVE  FeeList(wallet[a], a, chain) /\ IsInjective(wallet[a])
BY DEF MoneyInv, IsWallet

\* Two lists that lead a wallet have its first cell in common.
LEMMA LeadersMeet ==
    ASSUME NEW w, NEW a, NEW txs, FeeList(w, a, txs),
           NEW s, Leads(s, w), NEW t, Leads(t, w)
    PROVE  ToSet(s) \cap ToSet(t) # {}
<1>1. s[1] = w[1] /\ s[1] \in ToSet(s) /\ t[1] = w[1] /\ t[1] \in ToSet(t)
    BY LeadingFees
<1> QED
    BY <1>1

LEMMA TxIs ==
    ASSUME NEW p \in Deployers
    PROVE  /\ Tx(p).key = Jobs[p].key
           /\ Tx(p).inputs = fees[p]
           /\ Tx(p).outputs[1] = out[p]
           /\ Tx(p).outputs[2].capacity = Change(fees[p], out[p].capacity)
BY DEF Tx

\* What a command has collected leaves enough for the change cell.
LEMMA ChangeIs ==
    ASSUME NEW p \in Deployers, Funded(p), out[p].capacity \in Nat
    PROVE  /\ Change(fees[p], out[p].capacity) \in Nat
           /\ Change(fees[p], out[p].capacity) >= MinChange
<1>1. Capacity(fees[p]) \in Nat
    BY FeeListIs DEF Funded, Payment
<1> QED
    BY <1>1, FeeAssumption DEF Funded, Enough, Change, MinChange

\* A transaction that the node admits is signed with the key of the address it
\* takes its fee cells from. They still are the first of that wallet, and
\* nothing else of that key is pending.
LEMMA AdmittedIs ==
    ASSUME MoneyInv, NEW p \in Deployers, Made(p), Funded(p), Admits(Tx(p))
    PROVE  /\ PendingOk(Tx(p))
           /\ \A other \in pool : other.key # Tx(p).key
<1> DEFINE tx == Tx(p)
           a == Jobs[p].address
           f == fees[p]
<1>1. /\ tx.key = Jobs[p].key /\ tx.inputs = f /\ tx.outputs[1] = out[p]
      /\ tx.outputs[2].capacity = Change(f, out[p].capacity)
    BY TxIs
<1>2. /\ a \in Addresses /\ FeeList(f, a, chain) /\ f # <<>>
      /\ Leads(f, wallet[a]) \/ Lost(f, wallet[a])
    BY DEF Funded, Payment
<1>3. Unspent(tx) /\ Signed(tx) /\ TypeAccepts(tx.outputs[1])
    BY DEF Admits
<1>4. CellOk(out[p]) /\ out[p].capacity \in Nat
    BY <1>1, <1>2, <1>3, MadeIsOk, MadeCapacity
<1>5. /\ Change(f, out[p].capacity) >= MinChange
    BY <1>4, ChangeIs
<1> HIDE DEF tx, a, f
<1>6. f[1] \in ToSet(f) /\ \A c \in ToSet(f) : c.lock = a
    BY <1>2, FirstOf, FeeListIs DEF FeeCell
<1>7. tx.key = a
    BY <1>1, <1>3, <1>6 DEF Signed, Inputs
<1>8. Leads(f, wallet[a])
    <2>1. ASSUME NEW c \in ToSet(f)
          PROVE  c \in ToSet(wallet[a])
        <3>1. PICK b \in Addresses : Contains(wallet[b], c)
            BY <1>1, <1>3 DEF Unspent, Inputs
        <3>2. c \in ToSet(wallet[b])
            BY <3>1 DEF Contains, ToSet
        <3>3. c.lock = b
            BY <3>2, WalletIs, FeeListIs DEF FeeCell
        <3> QED
            BY <1>6, <3>2, <3>3
    <2> QED
        BY <1>2, <2>1 DEF Lost
<1>9. ASSUME NEW other \in pool, other.key = a
      PROVE  FALSE
    <2>1. Leads(other.inputs, wallet[a])
        BY <1>9 DEF MoneyInv, PendingOk
    <2>2. FeeList(wallet[a], a, chain)
        BY <1>2, WalletIs
    <2>3. ToSet(f) \cap ToSet(other.inputs) # {}
        BY <1>8, <2>1, <2>2, LeadersMeet
    <2> QED
        BY <1>1, <1>3, <2>3 DEF Unspent, Inputs
<1>10. PendingOk(tx)
    BY <1>1, <1>2, <1>4, <1>5, <1>7, <1>8 DEF PendingOk
<1> QED
    BY <1>7, <1>9, <1>10 DEF tx

\* What a command sends in its own name is refused only for a lost cell.
LEMMA OwnIsAdmitted ==
    ASSUME NEW p \in Deployers, Made(p), Funded(p),
           Jobs[p].key = Jobs[p].address, out[p].type = NoType
    PROVE  Admits(Tx(p)) <=> Unspent(Tx(p))
<1> DEFINE tx == Tx(p)
<1>1. /\ tx.key = Jobs[p].key /\ tx.inputs = fees[p] /\ tx.outputs[1] = out[p]
      /\ tx.outputs[2].capacity = Change(fees[p], out[p].capacity)
    BY TxIs
<1>2. Jobs[p].address \in Addresses /\ FeeList(fees[p], Jobs[p].address, chain)
    BY DEF Funded, Payment
<1>3. out[p].capacity \in Nat /\ out[p].capacity >= Occupied(out[p])
    BY <1>2, MadeCapacity, MadeOccupied
<1>4. Change(fees[p], out[p].capacity) >= MinChange
    BY <1>3, ChangeIs
<1> HIDE DEF tx
<1>5. Signed(tx)
    BY <1>1, <1>2, FeeListIs DEF Signed, Inputs, FeeCell
<1>6. TypeAccepts(tx.outputs[1])
    BY <1>1 DEF TypeAccepts
<1>7. Admits(tx) <=> Unspent(tx)
    BY <1>1, <1>3, <1>4, <1>5, <1>6 DEF Admits
<1> QED
    BY <1>7 DEF tx

------------------------------------------------------------------------------
(***************************************************************************)
(* What a commit does to the wallet                                        *)
(***************************************************************************)
ChangeCell(tx) ==
    [lock     |-> tx.key,
     capacity |-> tx.outputs[2].capacity,
     from     |-> <<tx.inputs, 2>>]

\* The wallet of the key after the commit: it has lost its first cell, and
\* what is new in it comes from no earlier transaction.
Advances(w, w2, a, txs, more, paid, got) ==
    /\ IsWallet(w2, a, more)
    /\ w[1] \notin ToSet(w2)
    /\ \A c \in ToSet(w2) : c \in ToSet(w) \/ ~Originates(c, txs)
    /\ Capacity(w2) = Capacity(w) - paid + got

\* The inputs of a pending transaction were those of no committed one.
LEMMA InputsAreNew ==
    ASSUME MoneyInv, NEW tx \in pool
    PROVE  /\ tx \notin chain
           /\ \A u \in chain : u.inputs # tx.inputs
           /\ tx.inputs # <<>>
<1> DEFINE a == tx.key
<1>1. /\ a \in Addresses /\ FeeList(wallet[a], a, chain)
      /\ Leads(tx.inputs, wallet[a])
    BY WalletIs DEF MoneyInv, PendingOk
<1> HIDE DEF a
<1>2. /\ tx.inputs # <<>> /\ tx.inputs[1] \in ToSet(wallet[a])
      /\ FeeCell(tx.inputs[1], a, chain)
    BY <1>1, LeadingFees, FirstOf
<1>3. ASSUME NEW u \in chain, u.inputs = tx.inputs
      PROVE  FALSE
    <2>1. /\ FeeCell(u.inputs[1], u.key, chain)
          /\ u.inputs[1] \notin ToSet(wallet[u.key])
        BY DEF MoneyInv, CommittedOk
    <2>2. u.key = a
        BY <1>2, <1>3, <2>1 DEF FeeCell
    <2> QED
        BY <1>2, <1>3, <2>1, <2>2
<1> QED
    BY <1>2, <1>3

LEMMA WalletAfter ==
    ASSUME MoneyInv, NEW tx \in pool,
           NEW w2, w2 = Remaining(wallet[tx.key], Inputs(tx)) \o <<ChangeCell(tx)>>
    PROVE  Advances(wallet[tx.key], w2, tx.key, chain, chain \cup {tx},
                    Capacity(tx.inputs), tx.outputs[2].capacity)
<1> DEFINE a == tx.key
           w == wallet[a]
           c == ChangeCell(tx)
           more == chain \cup {tx}
           S == ToSet(w) \cup {c}
<1>1. /\ a \in Addresses /\ Leads(tx.inputs, w)
      /\ tx.outputs[2].capacity = Change(tx.inputs, tx.outputs[1].capacity)
      /\ tx.outputs[2].capacity >= MinChange
      /\ tx.outputs[1].capacity \in Nat
    BY DEF MoneyInv, PendingOk, CellOk
<1>2. FeeList(w, a, chain) /\ IsInjective(w)
    BY <1>1, WalletIs
<1>3. tx.outputs[2].capacity \in Nat
    <2>1. Capacity(tx.inputs) \in Nat
        BY <1>1, <1>2, LeadingFees, FeeListIs
    <2> QED
        BY <1>1, <2>1, FeeAssumption DEF Change, MinChange
<1>4. /\ c.lock = a /\ c.capacity = tx.outputs[2].capacity
      /\ c.from[1] = tx.inputs
    BY DEF ChangeCell
<1> HIDE DEF a, w, c
<1>5. FeeCell(c, a, more) /\ ~Originates(c, chain)
    BY <1>1, <1>3, <1>4, InputsAreNew DEF FeeCell, Originates
<1>6. PICK n \in 1..Len(w) : tx.inputs = SubSeq(w, 1, n)
    BY <1>1 DEF Leads
<1>7. /\ w \in Seq(ToSet(w)) /\ w \in Seq(S) /\ Len(w) \in Nat
      /\ DOMAIN w = 1..Len(w) /\ n \in 0..Len(w)
    BY <1>2 DEF FeeList
<1>8. Remaining(w, Inputs(tx)) = SubSeq(w, n + 1, Len(w))
    <2>1. /\ DOMAIN tx.inputs = 1..n
          /\ \A i \in 1..n : tx.inputs[i] = w[i]
        BY <1>6, <1>7
    <2>2. \A i \in 1..n : w[i] \in Inputs(tx)
        BY <2>1 DEF Inputs, ToSet
    <2>3. ASSUME NEW i \in (n + 1)..Len(w)
          PROVE  w[i] \notin Inputs(tx)
        <3>1. i \in DOMAIN w /\ \A k \in 1..n : k \in DOMAIN w /\ k # i
            BY <1>7
        <3> QED
            BY <1>2, <2>1, <3>1 DEF Inputs, ToSet, IsInjective
    <2> QED
        BY <1>7, <2>2, <2>3, RemainingAfterPrefix
<1>9. w2 = After(w, n, <<c>>)
    BY <1>8 DEF After, w, a, c
<1>10. <<c>> \in Seq(S) /\ IsInjective(<<c>>) /\ ToSet(<<c>>) = {c}
    <2>1. DOMAIN <<c>> = {1} /\ <<c>>[1] = c
        OBVIOUS
    <2>2. <<c>> \in Seq(S)
        OBVIOUS
    <2> DEFINE one == <<c>>
    <2> HIDE DEF one
    <2>3. IsInjective(one) /\ ToSet(one) = {c}
        BY <2>1 DEF IsInjective, ToSet, one
    <2> QED
        BY <2>2, <2>3 DEF one
<1>11. ToSet(w) \cap {c} = {}
    <2>1. \A d \in ToSet(w) : Originates(d, chain)
        BY <1>2, FeeListIs DEF FeeCell
    <2> QED
        BY <1>5, <2>1
<1> HIDE DEF S
<1>12. /\ IsInjective(w2) /\ w2 \in Seq(ToSet(w2))
       /\ ToSet(w2) \subseteq ToSet(w) \cup {c}
       /\ w[1] \notin ToSet(w2)
    <2> DEFINE r == After(w, n, <<c>>)
    <2>1. /\ IsInjective(r) /\ r \in Seq(ToSet(r))
          /\ ToSet(r) \subseteq ToSet(w) \cup ToSet(<<c>>)
          /\ w[1] \notin ToSet(r)
        BY <1>2, <1>7, <1>10, <1>11, AfterInjective
    <2>2. w2 = r
        BY <1>9
    <2> HIDE DEF r
    <2> QED
        BY <1>10, <2>1, <2>2
<1>13. IsWallet(w2, a, more)
    <2>1. \A d \in ToSet(w) : FeeCell(d, a, more)
        BY <1>2, FeeListGrows, FeeListIs
    <2>2. \A d \in ToSet(w2) : FeeCell(d, a, more)
        BY <1>5, <1>12, <2>1
    <2> QED
        BY <1>12, <2>2, FeeListIf DEF IsWallet
<1>14. Capacity(w2) = Capacity(w) - Capacity(tx.inputs) + tx.outputs[2].capacity
    <2>1. WithCapacity(S)
        BY <1>2, <1>3, <1>4, FeeListIs DEF WithCapacity, S
    <2>2. Capacity(<<c>>) = tx.outputs[2].capacity
        BY <1>3, <1>4, CapacityOne
    <2>3. Capacity(After(w, n, <<c>>))
            = Capacity(w) - Capacity(SubSeq(w, 1, n)) + Capacity(<<c>>)
        BY <1>7, <1>10, <2>1, AfterCapacity
    <2> QED
        BY <1>6, <1>9, <2>2, <2>3
<1>15. \A d \in ToSet(w2) : d \in ToSet(w) \/ ~Originates(d, chain)
    BY <1>5, <1>12
<1>16. Advances(w, w2, a, chain, more, Capacity(tx.inputs),
                tx.outputs[2].capacity)
    BY <1>12, <1>13, <1>14, <1>15 DEF Advances
<1> QED
    BY <1>16 DEF w, a

------------------------------------------------------------------------------
(***************************************************************************)
(* Steps that leave the chain alone                                        *)
(***************************************************************************)
LEMMA MoneyStays ==
    ASSUME MoneyInv, UNCHANGED <<wallet, chain>>,
           \A tx \in pool' : PendingOk(tx),
           \A tx, other \in pool' : tx.key = other.key => tx = other
    PROVE  MoneyInv'
<1>1. \A tx \in pool' : PendingOk(tx)'
    BY DEF PendingOk, CellOk
<1>2. \A tx \in chain : CommittedOk(tx)'
    BY DEF MoneyInv, CommittedOk, CellOk
<1>3. PaysForOwnCells'
    BY DEF MoneyInv, PaysForOwnCells
<1> QED
    BY <1>1, <1>2, <1>3 DEF MoneyInv

LEMMA MoneySamePool ==
    ASSUME MoneyInv, UNCHANGED <<wallet, chain>>, pool' \subseteq pool
    PROVE  MoneyInv'
BY MoneyStays DEF MoneyInv

\* p is the only process that moves.
Alone(p) ==
    /\ pc' \in [Deployers -> Stages]
    /\ DOMAIN code' = Deployers /\ DOMAIN out' = Deployers
    /\ DOMAIN fees' = Deployers
    /\ \A q \in Deployers \ {p} :
          /\ pc'[q] = pc[q] /\ code'[q] = code[q]
          /\ out'[q] = out[q] /\ fees'[q] = fees[q]

LEMMA MadeStays ==
    ASSUME NEW p \in Deployers, Made(p),
           code'[p] = code[p], out'[p] = out[p]
    PROVE  Made(p)'
<1>1. CASE Jobs[p].command # "create" /\ IsCode(p, Nat \cup {NoIdl})
    BY <1>1 DEF Made, IsCode, CodeCell, CodeCapacity
<1>2. CASE Creates(p) /\ out[p] = LockedCell(p)
    BY <1>2 DEF Made, LockedCell, ArgsLen, Creates, ArgsGiven
<1>3. CASE Jobs[p].command = "deploy-sudt" /\ out[p] = UdtCell(p)
    BY <1>3 DEF Made, UdtCell
<1> QED
    BY <1>1, <1>2, <1>3 DEF Made

LEMMA FundedStays ==
    ASSUME NEW p \in Deployers, Funded(p), UNCHANGED <<wallet, chain>>,
           out'[p] = out[p], fees'[p] = fees[p]
    PROVE  Funded(p)'
BY DEF Funded, Enough

LEMMA OthersRemember ==
    ASSUME MemoryInv, NEW p \in Deployers, Alone(p),
           UNCHANGED <<wallet, chain>>, MemoryOk(p)'
    PROVE  MemoryInv'
<1>1. ASSUME NEW q \in Deployers, q # p
      PROVE  MemoryOk(q)'
    <2>1. /\ pc'[q] = pc[q] /\ code'[q] = code[q]
          /\ out'[q] = out[q] /\ fees'[q] = fees[q]
        BY <1>1 DEF Alone
    <2>2. MemoryOk(q)
        BY DEF MemoryInv
    <2>3. Made(q) => Made(q)'
        BY <2>1, MadeStays
    <2>4. Funded(q) => Funded(q)'
        BY <2>1, FundedStays
    <2>5. Creates(q) => Creates(q)'
        BY DEF Creates, ArgsGiven
    <2>6. ASSUME NEW idls, IsCode(q, idls)
          PROVE  IsCode(q, idls)'
        BY <2>1, <2>6 DEF IsCode, CodeCell, CodeCapacity
    <2> QED
        BY <2>1, <2>2, <2>3, <2>4, <2>5, <2>6 DEF MemoryOk
<1>2. \A q \in Deployers : MemoryOk(q)'
    BY <1>1
<1> QED
    BY <1>2 DEF MemoryInv, Alone

\* What has been printed stays printed.
Grows == \A s \in Scripts : printed[s] \subseteq printed'[s]

\* What a step of p may do to the files of a script: p is still under way, or
\* it leaves the frozen file and is done with it.
FileMove(p, s) ==
    /\ frozen'[s] \in Frozens
    /\ frozen'[s] = frozen[s] \/ Deploys(p, s)
    /\ s # "sudt" => \A t \in printed'[s] : t.outputs[1].data.script = s
    /\ Deploys(p, s) /\ pc'[p] = "write" => frozen'[s] = Empty \/ Overlap(s)
    /\ \/ Underway(p, s)'
       \/ frozen'[s] = Torn /\ Overlap(s)
       \/ /\ frozen'[s] = frozen[s]
          /\ Underway(p, s) => frozen[s] \in Idls(printed'[s])

LEMMA FilesMove ==
    ASSUME FileInv, NEW p \in Deployers, Alone(p), Grows, UNCHANGED tree,
           DOMAIN frozen' = Scripts, DOMAIN printed' = Scripts,
           \A s \in Scripts : FileMove(p, s)
    PROVE  FileInv'
<1>1. ASSUME NEW s \in Scripts
      PROVE  FileOk(s)'
    <2>1. FileOk(s) /\ FileMove(p, s) /\ printed[s] \subseteq printed'[s]
        BY DEF FileInv, Grows
    <2>2. ASSUME NEW q \in Deployers, Deploys(q, s), pc'[q] = "write"
          PROVE  frozen'[s] = Empty \/ Overlap(s)
        <3>1. CASE q = p
            BY <2>1, <2>2, <3>1 DEF FileMove
        <3>2. CASE q # p
            <4>1. pc[q] = "write"
                BY <2>2, <3>2 DEF Alone
            <4>2. frozen[s] = Empty \/ Overlap(s)
                BY <2>1, <2>2, <4>1 DEF FileOk
            <4>3. Deploys(p, s) => Overlap(s)
                BY <2>2, <3>2 DEF Overlap
            <4> QED
                BY <2>1, <4>2, <4>3 DEF FileMove
        <3> QED
            BY <3>1, <3>2
    <2>3. ASSUME \E q \in Deployers : Deploys(q, s)
          PROVE  \/ frozen'[s] \in Idls(printed'[s])
                 \/ frozen'[s] = Torn /\ Overlap(s)
                 \/ \E q \in Deployers : Underway(q, s)'
        <3>1. CASE Underway(p, s)'
            BY <3>1
        <3>2. CASE /\ frozen'[s] = frozen[s]
                   /\ Underway(p, s) => frozen[s] \in Idls(printed'[s])
            <4>1. CASE frozen[s] \in Idls(printed[s])
                BY <2>1, <3>2, <4>1 DEF Idls
            <4>2. CASE \E q \in Deployers : Underway(q, s)
                <5>1. PICK q \in Deployers : Underway(q, s)
                    BY <4>2
                <5>2. CASE q = p
                    BY <3>2, <5>1, <5>2
                <5>3. CASE q # p
                    <6>1. pc'[q] = pc[q] /\ out'[q] = out[q]
                        BY <5>3 DEF Alone
                    <6>2. Underway(q, s)'
                        BY <3>2, <5>1, <6>1 DEF Underway, Deploys
                    <6> QED
                        BY <6>2
                <5> QED
                    BY <5>2, <5>3
            <4>3. CASE frozen[s] = Torn /\ Overlap(s)
                BY <3>2, <4>3
            <4> QED
                BY <2>1, <2>3, <4>1, <4>2, <4>3 DEF FileOk
        <3> QED
            BY <2>1, <3>1, <3>2 DEF FileMove
    <2>4. /\ frozen'[s] \in Frozens
          /\ s # "sudt" => \A t \in printed'[s] : t.outputs[1].data.script = s
        BY <2>1 DEF FileMove
    <2> QED
        BY <2>2, <2>3, <2>4 DEF FileOk, Deploys, Overlap
<1>2. \A s \in Scripts : FileOk(s)'
    BY <1>1
<1> QED
    BY <1>2 DEF FileInv

\* A step of p that leaves the files alone, and p under way if it was.
LEMMA FilesStay ==
    ASSUME FileInv, NEW p \in Deployers, Alone(p),
           UNCHANGED <<tree, frozen, printed>>,
           pc'[p] # "write",
           \A s \in Scripts : Underway(p, s) => Underway(p, s)'
    PROVE  FileInv'
<1>1. \A s \in Scripts : FileMove(p, s)
    BY DEF FileMove, FileInv, FileOk
<1>2. Grows /\ DOMAIN frozen' = Scripts /\ DOMAIN printed' = Scripts
    BY DEF Grows, FileInv
<1> QED
    BY <1>1, <1>2, FilesMove

\* A deployment that has still to pay, or has failed, is under way.
LEMMA StillUnderway ==
    ASSUME NEW p, NEW s, Underway(p, s),
           pc'[p] \notin {"balance", "send", "reported"}
    PROVE  Underway(p, s)'
BY DEF Underway, Deploys

\* The end of a process.
LEMMA ExitIs ==
    ASSUME MemoryInv, NEW p \in Deployers,
           NEW result \in {"failed", "reported"}, Exit(p, result)
    PROVE  Alone(p) /\ pc'[p] = result /\ MemoryOk(p)'
<1>1. /\ pc' = [pc EXCEPT ![p] = result]
      /\ code' = [code EXCEPT ![p] = Nothing]
      /\ out' = [out EXCEPT ![p] = Nothing]
      /\ fees' = [fees EXCEPT ![p] = <<>>]
    BY DEF Exit, Goto
<1>2. pc'[p] = result /\ code'[p] = Nothing
    BY <1>1 DEF MemoryInv
<1>3. Alone(p)
    BY <1>1 DEF MemoryInv, Alone, Stages, AtRest
<1>4. MemoryOk(p)'
    BY <1>2 DEF MemoryOk
<1> QED
    BY <1>2, <1>3, <1>4

\* A process that fails without touching a file or the pool.
LEMMA FailIs ==
    ASSUME Inv, NEW p \in Deployers, Exit(p, "failed"),
           UNCHANGED <<disk, printed, node>>, BudgetInv'
    PROVE  Inv'
<1>1. UNCHANGED <<tree, frozen, printed, wallet, pool, chain>>
    BY DEF disk, node
<1>2. MoneyInv /\ MemoryInv /\ FileInv
    BY DEF Inv
<1>3. Alone(p) /\ pc'[p] = "failed" /\ MemoryOk(p)'
    BY <1>2, ExitIs
<1>4. MoneyInv' /\ MemoryInv'
    BY <1>1, <1>2, <1>3, MoneySamePool, OthersRemember
<1>5. FileInv'
    BY <1>1, <1>2, <1>3, StillUnderway, FilesStay
<1> QED
    BY <1>4, <1>5 DEF Inv

\* A process that goes on without touching a file or the pool.
LEMMA GoOnIs ==
    ASSUME Inv, NEW p \in Deployers, Alone(p), MemoryOk(p)',
           UNCHANGED <<disk, printed, node>>, BudgetInv', pc'[p] # "write",
           \A s \in Scripts : Underway(p, s) => Underway(p, s)'
    PROVE  Inv'
<1>1. UNCHANGED <<tree, frozen, printed, wallet, pool, chain>>
    BY DEF disk, node
<1>2. MoneyInv /\ MemoryInv /\ FileInv
    BY DEF Inv
<1>3. MoneyInv' /\ MemoryInv' /\ FileInv'
    BY <1>1, <1>2, MoneySamePool, OthersRemember, FilesStay
<1> QED
    BY <1>3 DEF Inv

LEMMA BudgetStays ==
    ASSUME BudgetInv, UNCHANGED budget
    PROVE  BudgetInv'
BY DEF BudgetInv

LEMMA BudgetUsed ==
    ASSUME BudgetInv, NEW kind \in DOMAIN Budget, Use(kind)
    PROVE  /\ BudgetInv'
           /\ budget'[kind] = budget[kind] - 1
           /\ \A k \in DOMAIN Budget : k # kind => budget'[k] = budget[k]
<1>1. /\ DOMAIN budget = DOMAIN Budget /\ budget[kind] > 0
      /\ budget' = [budget EXCEPT ![kind] = budget[kind] - 1]
      /\ \A k \in DOMAIN Budget : budget[k] \in 0..Budget[k]
    BY DEF BudgetInv, Use
<1>2. \A k \in DOMAIN Budget : Budget[k] \in Nat
    BY DeployAssumption
<1>3. DOMAIN budget' = DOMAIN Budget
    BY <1>1
<1>4. /\ budget'[kind] = budget[kind] - 1
      /\ \A k \in DOMAIN Budget : k # kind => budget'[k] = budget[k]
    BY <1>1
<1>5. budget'[kind] \in 0..Budget[kind]
    BY <1>1, <1>2, <1>4
<1> QED
    BY <1>1, <1>3, <1>4, <1>5 DEF BudgetInv

------------------------------------------------------------------------------
(***************************************************************************)
(* The invariant is inductive                                              *)
(***************************************************************************)
LEMMA PastedIs ==
    ASSUME Inv, NEW p \in Deployers, pc[p] = "start", WellFormed(p),
           Jobs[p].command = "create", Goto(p, "fetch"),
           NEW tx, code' = [code EXCEPT ![p] = tx],
           UNCHANGED <<out, fees, disk, printed, node>>, BudgetInv'
    PROVE  Inv'
<1>1. MemoryInv /\ pc' = [pc EXCEPT ![p] = "fetch"]
    BY DEF Inv, Goto
<1>2. Alone(p) /\ pc'[p] = "fetch"
    BY <1>1 DEF MemoryInv, Alone, Stages
<1>3. MemoryOk(p)'
    BY <1>2 DEF MemoryOk, Creates, WellFormed, ArgsGiven
<1> QED
    BY <1>2, <1>3, StillUnderway, GoOnIs

LEMMA ConfigureStep ==
    ASSUME Inv, NEW p \in Deployers, Configure(p)
    PROVE  Inv'
<1>1. MemoryInv /\ UNCHANGED <<disk, printed, node, budget>>
      /\ pc[p] = "start" /\ MemoryOk(p) /\ BudgetInv'
    BY BudgetStays DEF Inv, Configure, MemoryInv
<1>2. CASE Exit(p, "failed")
    BY <1>1, <1>2, FailIs
<1>3. CASE /\ Jobs[p].command # "create"
           /\ Goto(p, "binary")
           /\ UNCHANGED memory
    <2>1. /\ pc' = [pc EXCEPT ![p] = "binary"]
          /\ UNCHANGED <<code, out, fees>>
        BY <1>3 DEF Goto, memory
    <2>2. Alone(p) /\ pc'[p] = "binary"
        BY <1>1, <2>1 DEF MemoryInv, Alone, Stages
    <2>3. MemoryOk(p)'
        BY <1>1, <1>3, <2>1, <2>2 DEF MemoryOk
    <2> QED
        BY <1>1, <2>2, <2>3, StillUnderway, GoOnIs
<1>4. CASE /\ WellFormed(p)
           /\ Jobs[p].command = "create"
           /\ \E tx \in printed[Jobs[p].script] :
                 code' = [code EXCEPT ![p] = tx]
           /\ Goto(p, "fetch")
           /\ UNCHANGED <<out, fees>>
    BY <1>1, <1>4, PastedIs
<1> QED
    BY <1>2, <1>3, <1>4 DEF Configure

LEMMA MispasteStep ==
    ASSUME Inv, NEW p \in Deployers, Mispaste(p)
    PROVE  Inv'
<1>1. /\ UNCHANGED <<disk, printed, node>> /\ pc[p] = "start"
      /\ WellFormed(p) /\ Jobs[p].command = "create" /\ Use("slips")
    BY DEF Mispaste
<1>2. BudgetInv'
    BY <1>1, DeployAssumption, BudgetUsed DEF Inv
<1>3. CASE Exit(p, "failed")
    BY <1>1, <1>2, <1>3, FailIs
<1>4. CASE /\ \E tx \in pool \cup chain : code' = [code EXCEPT ![p] = tx]
           /\ Goto(p, "fetch")
           /\ UNCHANGED <<out, fees>>
    BY <1>1, <1>2, <1>4, PastedIs
<1> QED
    BY <1>3, <1>4 DEF Mispaste

LEMMA ReadBinaryStep ==
    ASSUME Inv, NEW p \in Deployers, ReadBinary(p)
    PROVE  Inv'
<1> DEFINE stage == IF Jobs[p].command = "deploy" THEN "idl" ELSE "balance"
           cell == CodeCell(p, tree[Jobs[p].script].binary, NoIdl)
<1>1. MemoryInv /\ UNCHANGED <<disk, printed, node, code, fees>>
      /\ pc[p] = "binary" /\ MemoryOk(p) /\ BudgetInv'
      /\ out' = [out EXCEPT ![p] = cell]
      /\ pc' = [pc EXCEPT ![p] = stage]
    BY BudgetStays DEF Inv, ReadBinary, MemoryInv, Goto
<1>2. tree[Jobs[p].script].binary \in Nat
    BY JobIs DEF Inv, FileInv
<1>3. pc'[p] = stage /\ out'[p] = cell /\ code'[p] = code[p]
    BY <1>1 DEF MemoryInv
<1>4. Alone(p)
    BY <1>1 DEF MemoryInv, Alone, Stages
<1>5. IsCode(p, {NoIdl})'
    <2>1. \E binary \in Nat, idl \in {NoIdl} :
             out'[p] = CodeCell(p, binary, idl)
        BY <1>2, <1>3
    <2> QED
        BY <2>1 DEF IsCode, CodeCell, CodeCapacity
<1>6. IsCode(p, Nat \cup {NoIdl})'
    BY <1>5 DEF IsCode
<1> HIDE DEF cell
<1>7. MemoryOk(p)'
    BY <1>1, <1>3, <1>5, <1>6 DEF MemoryOk, Made
<1>8. ASSUME NEW s \in Scripts, Underway(p, s)
      PROVE  Underway(p, s)'
    BY <1>3, <1>8, StillUnderway DEF Underway, Deploys
<1> QED
    BY <1>1, <1>3, <1>4, <1>7, <1>8, GoOnIs

LEMMA ReadIdlStep ==
    ASSUME Inv, NEW p \in Deployers, ReadIdl(p)
    PROVE  Inv'
<1> DEFINE cell == CodeCell(p, out[p].data.binary, tree[Jobs[p].script].idl)
<1>1. MemoryInv /\ UNCHANGED <<disk, printed, node, code, fees>>
      /\ pc[p] = "idl" /\ MemoryOk(p) /\ BudgetInv'
      /\ pc' = [pc EXCEPT ![p] = "freeze"]
    BY BudgetStays DEF Inv, ReadIdl, MemoryInv, Goto
<1>2. out' = [out EXCEPT ![p] = cell]
    BY DEF ReadIdl
<1>3. tree[Jobs[p].script].idl \in Nat
    BY JobIs DEF Inv, FileInv
<1>4. out[p].data.binary \in Nat
    BY <1>1, CodeCellIs DEF MemoryOk, IsCode
<1>5. pc'[p] = "freeze" /\ out'[p] = cell /\ code'[p] = code[p]
    BY <1>1, <1>2 DEF MemoryInv
<1>6. Alone(p)
    BY <1>1, <1>2 DEF MemoryInv, Alone, Stages
<1>7. IsCode(p, Nat)'
    <2>1. \E binary \in Nat, idl \in Nat : out'[p] = CodeCell(p, binary, idl)
        BY <1>3, <1>4, <1>5
    <2> QED
        BY <2>1 DEF IsCode, CodeCell, CodeCapacity
<1> HIDE DEF cell
<1>8. MemoryOk(p)'
    BY <1>1, <1>5, <1>7 DEF MemoryOk
<1> QED
    BY <1>1, <1>5, <1>6, <1>8, StillUnderway, GoOnIs

\* The two steps that write the frozen file.
LEMMA WritesFile ==
    ASSUME Inv, NEW p \in Deployers, pc[p] \in {"freeze", "write"},
           NEW stage \in {"write", "balance"}, Goto(p, stage),
           NEW v \in Frozens,
           frozen' = [frozen EXCEPT ![Jobs[p].script] = v],
           UNCHANGED <<tree, printed, node, memory, budget>>,
           stage = "write" => v = Empty,
           stage = "balance" => \/ v = out[p].data.idl
                                \/ v = Torn /\ Overlap(Jobs[p].script)
    PROVE  Inv'
<1> DEFINE script == Jobs[p].script
<1>1. /\ MoneyInv /\ MemoryInv /\ FileInv /\ BudgetInv'
      /\ MemoryOk(p)
    BY BudgetStays DEF Inv, MemoryInv
<1>2. /\ UNCHANGED <<wallet, pool, chain, code, out, fees>>
      /\ pc' = [pc EXCEPT ![p] = stage]
    BY DEF Goto, node, memory
<1>3. Jobs[p].command = "deploy" /\ IsCode(p, Nat) /\ script \in Scripts
    BY <1>1, JobIs DEF MemoryOk
<1>4. pc'[p] = stage /\ out'[p] = out[p] /\ code'[p] = code[p]
    BY <1>1, <1>2 DEF MemoryInv
<1>5. Alone(p) /\ Grows
    BY <1>1, <1>2 DEF MemoryInv, Alone, Stages, Grows
<1>6. IsCode(p, Nat)' /\ IsCode(p, Nat \cup {NoIdl})'
    BY <1>2, <1>3 DEF IsCode, CodeCell, CodeCapacity
<1>7. MemoryOk(p)'
    BY <1>1, <1>3, <1>4, <1>6 DEF MemoryOk, Made
<1>8. MoneyInv' /\ MemoryInv'
    BY <1>1, <1>2, <1>5, <1>7, MoneySamePool, OthersRemember
<1>9. DOMAIN frozen' = Scripts /\ DOMAIN printed' = Scripts
    BY <1>1 DEF FileInv
<1>10. ASSUME NEW s \in Scripts
       PROVE  FileMove(p, s)
    <2>1. FileOk(s) /\ printed'[s] = printed[s]
        BY <1>1 DEF FileInv
    <2>2. CASE s = script
        <3>1. frozen'[s] = v /\ Deploys(p, s)
            BY <1>1, <1>3, <2>2 DEF FileInv, Deploys
        <3>2. Underway(p, s)' \/ (v = Torn /\ Overlap(s))
            BY <1>4, <2>2, <3>1 DEF Underway, Deploys
        <3>3. pc'[p] = "write" => v = Empty
            BY <1>4
        <3> QED
            BY <2>1, <3>1, <3>2, <3>3 DEF FileMove, FileOk
    <2>3. CASE s # script
        <3>1. frozen'[s] = frozen[s]
            BY <1>1, <2>3 DEF FileInv
        <3>2. ~Deploys(p, s) /\ ~Underway(p, s)
            BY <2>3 DEF Underway, Deploys
        <3> QED
            BY <2>1, <3>1, <3>2 DEF FileMove, FileOk
    <2> QED
        BY <2>2, <2>3
<1>11. FileInv'
    BY <1>1, <1>5, <1>9, <1>10, FilesMove
<1> QED
    BY <1>1, <1>8, <1>11 DEF Inv

LEMMA FreezeStep ==
    ASSUME Inv, NEW p \in Deployers, Freeze(p)
    PROVE  Inv'
BY WritesFile DEF Freeze, Frozens

LEMMA WriteStep ==
    ASSUME Inv, NEW p \in Deployers, Write(p)
    PROVE  Inv'
<1> DEFINE script == Jobs[p].script
<1>1. /\ pc[p] = "write" /\ Goto(p, "balance")
      /\ UNCHANGED <<tree, printed, node, memory, budget>>
    BY DEF Write
<1>2. PICK v \in IF frozen[script] \in {Empty, Frozen(p)}
                 THEN {Frozen(p)} ELSE {Frozen(p), Torn} :
         frozen' = [frozen EXCEPT ![script] = v]
    BY DEF Write
<1>3. MemoryOk(p) /\ FileInv
    BY DEF Inv, MemoryInv
<1>4. Jobs[p].command = "deploy" /\ script \in Scripts
    BY <1>1, <1>3, JobIs DEF MemoryOk
<1>5. out[p].data.idl \in Nat
    BY <1>1, <1>3, CodeCellIs DEF MemoryOk, IsCode
<1>6. v = out[p].data.idl \/ (v = Torn /\ frozen[script] # Empty)
    BY <1>2 DEF Frozen
<1>7. frozen[script] = Empty \/ Overlap(script)
    BY <1>1, <1>3, <1>4 DEF FileInv, FileOk, Deploys
<1>8. v \in Frozens
    BY <1>5, <1>6 DEF Frozens
<1> QED
    BY <1>1, <1>2, <1>6, <1>7, <1>8, WritesFile

LEMMA FetchStep ==
    ASSUME Inv, NEW p \in Deployers, Fetch(p)
    PROVE  Inv'
<1>1. MemoryInv /\ UNCHANGED <<disk, printed, node>>
      /\ pc[p] = "fetch" /\ MemoryOk(p) /\ BudgetInv'
    BY BudgetStays DEF Inv, Fetch, MemoryInv
<1>2. CASE Exit(p, "failed")
    BY <1>1, <1>2, FailIs
<1>3. CASE /\ out' = [out EXCEPT ![p] =
                        IF Jobs[p].command = "create" THEN LockedCell(p)
                                                      ELSE UdtCell(p)]
           /\ Goto(p, "balance")
           /\ UNCHANGED <<code, fees>>
    <2>1. pc' = [pc EXCEPT ![p] = "balance"]
        BY <1>3 DEF Goto
    <2>2. /\ pc'[p] = "balance" /\ code'[p] = code[p]
          /\ Jobs[p].command = "create" => out'[p] = LockedCell(p)
          /\ Jobs[p].command # "create" => out'[p] = UdtCell(p)
        BY <1>1, <1>3, <2>1 DEF MemoryInv
    <2>3. Alone(p)
        BY <1>1, <1>3, <2>1 DEF MemoryInv, Alone, Stages
    <2>4. Made(p)'
        <3>1. CASE Jobs[p].command = "create"
            <4>1. Creates(p)
                BY <1>1, <3>1 DEF MemoryOk
            <4>2. Creates(p)'
                BY <4>1 DEF Creates, ArgsGiven
            <4>3. LockedCell(p)' = LockedCell(p)
                BY <2>2 DEF LockedCell, ArgsLen
            <4> QED
                BY <2>2, <3>1, <4>2, <4>3 DEF Made
        <3>2. CASE Jobs[p].command # "create"
            <4>1. Jobs[p].command = "deploy-sudt"
                BY <1>1, <3>2, JobIs DEF MemoryOk
            <4>2. UdtCell(p)' = UdtCell(p)
                BY DEF UdtCell
            <4> QED
                BY <2>2, <3>2, <4>1, <4>2 DEF Made
        <3> QED
            BY <3>1, <3>2
    <2>5. MemoryOk(p)'
        BY <1>1, <2>2, <2>4 DEF MemoryOk
    <2>6. \A s \in Scripts : ~Underway(p, s)
        BY <1>1 DEF MemoryOk, Underway, Deploys
    <2> QED
        BY <1>1, <2>2, <2>3, <2>5, <2>6, GoOnIs
<1> QED
    BY <1>2, <1>3 DEF Fetch

LEMMA BalanceStep ==
    ASSUME Inv, NEW p \in Deployers, Balance(p)
    PROVE  Inv'
<1> DEFINE a == Jobs[p].address
           cells == Collect(wallet[a], out[p].capacity)
<1>1. MemoryInv /\ UNCHANGED <<disk, printed, node>>
      /\ pc[p] = "balance" /\ MemoryOk(p) /\ MoneyInv /\ BudgetInv'
    BY BudgetStays DEF Inv, Balance, MemoryInv
<1>2. CASE Exit(p, "failed")
    BY <1>1, <1>2, FailIs
<1>3. CASE /\ CanPay(p)
           /\ fees' = [fees EXCEPT ![p] = cells]
           /\ Goto(p, "send")
           /\ UNCHANGED <<code, out>>
    <2>1. pc' = [pc EXCEPT ![p] = "send"]
        BY <1>3 DEF Goto
    <2>2. /\ pc'[p] = "send" /\ code'[p] = code[p] /\ out'[p] = out[p]
          /\ fees'[p] = cells
        BY <1>1, <1>3, <2>1 DEF MemoryInv
    <2>3. Alone(p)
        BY <1>1, <1>3, <2>1 DEF MemoryInv, Alone, Stages
    <2>4. Made(p) /\ out[p].capacity \in Nat
        BY <1>1, MadeCapacity DEF MemoryOk
    <2>5. a \in Addresses /\ Enough(wallet[a], out[p].capacity)
        BY <1>3 DEF CanPay
    <2>6. FeeList(wallet[a], a, chain)
        BY <1>1, <2>5, WalletIs
    <2>7. Leads(cells, wallet[a]) /\ Enough(cells, out[p].capacity)
        BY <2>4, <2>5, <2>6, CollectLeads
    <2> HIDE DEF cells
    <2>8. FeeList(cells, a, chain) /\ cells # <<>>
        BY <2>6, <2>7, LeadingFees
    <2>9. UNCHANGED <<wallet, chain, printed, frozen>>
        BY <1>1 DEF node, disk
    <2>10. Funded(p)'
        BY <2>2, <2>5, <2>7, <2>8, <2>9 DEF Funded, Payment, Enough
    <2>11. Made(p)'
        BY <2>2, <2>4, MadeStays
    <2>12. MemoryOk(p)'
        BY <1>1, <2>2, <2>10, <2>11 DEF MemoryOk
    <2>13. \A s \in Scripts : Underway(p, s) => Underway(p, s)'
        BY <1>1, <2>2, <2>9 DEF Underway, Deploys
    <2> QED
        BY <1>1, <2>2, <2>3, <2>12, <2>13, GoOnIs
<1> QED
    BY <1>2, <1>3 DEF Balance

LEMMA AdmitMoney ==
    ASSUME MoneyInv, NEW p \in Deployers, Made(p), Funded(p), Admits(Tx(p)),
           pool' = pool \cup {Tx(p)}, UNCHANGED <<wallet, chain>>
    PROVE  MoneyInv'
<1> DEFINE tx == Tx(p)
<1>1. PendingOk(tx) /\ \A other \in pool : other.key # tx.key
    BY AdmittedIs
<1>2. pool' = pool \cup {tx}
    OBVIOUS
<1> HIDE DEF tx
<1>3. \A t \in pool' : PendingOk(t)
    BY <1>1, <1>2 DEF MoneyInv
<1>4. \A t, other \in pool' : t.key = other.key => t = other
    BY <1>1, <1>2 DEF MoneyInv
<1> QED
    BY <1>3, <1>4, MoneyStays

LEMMA SendStep ==
    ASSUME Inv, NEW p \in Deployers, Send(p)
    PROVE  Inv'
<1> DEFINE tx == Tx(p)
           script == Jobs[p].script
<1>1. /\ MoneyInv /\ MemoryInv /\ FileInv /\ BudgetInv
      /\ pc[p] = "send" /\ MemoryOk(p)
      /\ UNCHANGED <<tree, frozen, wallet, chain>>
    BY DEF Inv, MemoryInv, Send, disk
<1>2. Made(p) /\ Funded(p)
    BY <1>1 DEF MemoryOk
<1>3. BudgetInv'
    <2>1. UNCHANGED budget \/ Use("lost")
        BY DEF Send
    <2> QED
        BY <1>1, <2>1, DeployAssumption, BudgetStays, BudgetUsed
<1>4. CASE /\ Exit(p, "failed")
           /\ UNCHANGED <<pool, printed, budget>>
    BY <1>1, <1>3, <1>4, FailIs DEF disk, node
<1>5. CASE /\ Admits(tx) /\ pool' = pool \cup {tx}
           /\ \/ Exit(p, "failed")
              \/ /\ Exit(p, "reported")
                 /\ Jobs[p].command = "create" \/ code[p] # Nothing
           /\ UNCHANGED printed
    <2>1. /\ Alone(p) /\ MemoryOk(p)'
          /\ pc'[p] = "failed" \/ Jobs[p].command # "deploy"
          /\ pc'[p] # "write"
        BY <1>1, <1>5, ExitIs DEF MemoryOk
    <2>3. MoneyInv' /\ MemoryInv'
        BY <1>1, <1>2, <1>5, <2>1, AdmitMoney, OthersRemember
    <2>4. ASSUME NEW s \in Scripts, Underway(p, s)
          PROVE  Underway(p, s)'
        BY <2>1, <2>4, StillUnderway DEF Underway, Deploys
    <2>5. FileInv'
        BY <1>1, <1>5, <2>1, <2>4, FilesStay
    <2> QED
        BY <1>3, <2>3, <2>5 DEF Inv
<1>6. CASE /\ Admits(tx) /\ pool' = pool \cup {tx}
           /\ Jobs[p].command # "create"
           /\ printed' = [printed EXCEPT ![script] = @ \cup {tx}]
           /\ IF Jobs[p].command = "deploy" THEN Exit(p, "reported")
              ELSE /\ code' = [code EXCEPT ![p] = tx]
                   /\ Goto(p, "fetch")
                   /\ UNCHANGED <<out, fees>>
    <2>1. script \in Scripts /\ DOMAIN printed = Scripts
        BY <1>1, JobIs DEF FileInv
    <2>2. /\ printed'[script] = printed[script] \cup {tx}
          /\ \A s \in Scripts : s # script => printed'[s] = printed[s]
          /\ DOMAIN printed' = Scripts
        BY <1>6, <2>1
    <2>3. Grows
        BY <2>2 DEF Grows
    <2>4. Alone(p) /\ MemoryOk(p)' /\ pc'[p] # "write"
        <3>1. CASE Exit(p, "reported")
            BY <1>1, <3>1, ExitIs
        <3>2. CASE /\ Jobs[p].command # "deploy"
                   /\ code' = [code EXCEPT ![p] = tx]
                   /\ Goto(p, "fetch")
                   /\ UNCHANGED <<out, fees>>
            <4>1. Alone(p) /\ pc'[p] = "fetch"
                BY <1>1, <3>2 DEF MemoryInv, Alone, Goto, Stages
            <4> QED
                BY <1>6, <3>2, <4>1 DEF MemoryOk
        <3> QED
            BY <1>6, <3>1, <3>2
    <2>5. MoneyInv' /\ MemoryInv'
        BY <1>1, <1>2, <1>6, <2>4, AdmitMoney, OthersRemember
    <2>8. script # "sudt" => out[p].data.script = script
        BY <1>2, <1>6, JobIs, CodeCellIs DEF Made, IsCode, Creates
    <2>6. ASSUME NEW s \in Scripts
          PROVE  FileMove(p, s)
        <3>1. /\ frozen'[s] = frozen[s] /\ frozen[s] \in Frozens
              /\ s # "sudt" => \A t \in printed[s] : t.outputs[1].data.script = s
            BY <1>1 DEF FileInv, FileOk
        <3>2. s # "sudt" => \A t \in printed'[s] : t.outputs[1].data.script = s
            <4>1. CASE s # script
                BY <2>2, <3>1, <4>1
            <4>2. CASE s = script
                <5>1. tx.outputs[1] = out[p]
                    BY TxIs
                <5>2. script # "sudt" => out[p].data.script = script
                    BY <2>8
                <5> HIDE DEF tx
                <5> QED
                    BY <2>2, <3>1, <4>2, <5>1, <5>2
            <4> QED
                BY <4>1, <4>2
        <3>3. ASSUME Underway(p, s)
              PROVE  frozen[s] \in Idls(printed'[s])
            <4>1. s = script /\ frozen[s] = out[p].data.idl
                BY <1>1, <3>3 DEF Underway, Deploys
            <4>2. tx \in printed'[s] /\ tx.outputs[1] = out[p]
                BY <2>2, <4>1, TxIs
            <4> HIDE DEF tx
            <4> QED
                BY <4>1, <4>2 DEF Idls
        <3> QED
            BY <2>4, <3>1, <3>2, <3>3 DEF FileMove
    <2>7. FileInv'
        <3>1. DOMAIN frozen' = Scripts
            BY <1>1 DEF FileInv
        <3> QED
            BY <1>1, <2>2, <2>3, <2>4, <2>6, <3>1, FilesMove
    <2> QED
        BY <1>3, <2>5, <2>7 DEF Inv
<1>7. \/ /\ Exit(p, "failed")
         /\ UNCHANGED <<pool, printed, budget>>
      \/ /\ Admits(tx) /\ pool' = pool \cup {tx}
         /\ Replied(p) \/ (Exit(p, "failed") /\ UNCHANGED printed)
    BY DEF Send
<1>8. Replied(p) =>
         \/ /\ Jobs[p].command = "create" \/ code[p] # Nothing
            /\ Exit(p, "reported") /\ UNCHANGED printed
         \/ /\ Jobs[p].command # "create"
            /\ printed' = [printed EXCEPT ![script] = @ \cup {tx}]
            /\ IF Jobs[p].command = "deploy" THEN Exit(p, "reported")
               ELSE /\ code' = [code EXCEPT ![p] = tx]
                    /\ Goto(p, "fetch")
                    /\ UNCHANGED <<out, fees>>
    BY DEF Replied
<1> QED
    BY <1>4, <1>5, <1>6, <1>7, <1>8

LEMMA DieStep ==
    ASSUME Inv, NEW p \in Deployers, Die(p)
    PROVE  Inv'
<1> DEFINE script == Jobs[p].script
<1>1. /\ MoneyInv /\ MemoryInv /\ FileInv /\ BudgetInv
      /\ UNCHANGED <<tree, printed, wallet, pool, chain>>
      /\ Use("crashes")
      /\ \/ frozen' = frozen
         \/ /\ pc[p] = "write"
            /\ frozen' = [frozen EXCEPT ![script] = Torn]
    BY DEF Inv, Die, node
<1>2. Alone(p) /\ pc'[p] = "failed" /\ MemoryOk(p)'
    BY <1>1, ExitIs DEF Die
<1>3. Grows
    BY <1>1 DEF Grows
<1>4. MoneyInv' /\ MemoryInv'
    BY <1>1, <1>2, MoneySamePool, OthersRemember
<1>5. BudgetInv'
    BY <1>1, DeployAssumption, BudgetUsed
<1>6. ASSUME NEW s \in Scripts
      PROVE  FileMove(p, s)
    <2>1. FileOk(s) /\ printed'[s] = printed[s]
        BY <1>1 DEF FileInv
    <2>2. CASE frozen'[s] = frozen[s]
        BY <1>2, <2>1, <2>2, StillUnderway DEF FileMove, FileOk
    <2>3. CASE frozen'[s] # frozen[s]
        <3>1. pc[p] = "write" /\ s = script /\ frozen'[s] = Torn
            BY <1>1, <2>3 DEF FileInv
        <3>2. Jobs[p].command = "deploy"
            BY <1>1, <3>1 DEF MemoryInv, MemoryOk
        <3>3. Underway(p, s)'
            BY <1>2, <3>1, <3>2 DEF Underway, Deploys
        <3> QED
            BY <1>2, <2>1, <3>1, <3>2, <3>3
            DEF FileMove, FileOk, Deploys, Frozens
    <2> QED
        BY <2>2, <2>3
<1>7. FileInv'
    <2>1. DOMAIN frozen' = Scripts /\ DOMAIN printed' = Scripts
        BY <1>1 DEF FileInv
    <2> QED
        BY <1>1, <1>2, <1>3, <1>6, <2>1, FilesMove
<1> QED
    BY <1>4, <1>5, <1>7 DEF Inv

LEMMA RerunStep ==
    ASSUME Inv, NEW p \in Deployers, Rerun(p)
    PROVE  Inv'
<1>1. /\ MemoryInv /\ MemoryOk(p)
      /\ UNCHANGED <<disk, printed, node, code, out, fees>> /\ BudgetInv'
      /\ pc' = [pc EXCEPT ![p] = "start"]
    BY BudgetStays DEF Inv, MemoryInv, Rerun, Goto, memory
<1>2. Alone(p) /\ pc'[p] = "start" /\ code'[p] = code[p]
    BY <1>1 DEF MemoryInv, Alone, Stages, AtRest
<1>3. MemoryOk(p)'
    BY <1>1, <1>2 DEF MemoryOk
<1> QED
    BY <1>1, <1>2, <1>3, StillUnderway, GoOnIs

LEMMA EditStep ==
    ASSUME Inv, Edit
    PROVE  Inv'
<1>1. /\ MoneyInv /\ MemoryInv /\ FileInv /\ BudgetInv
      /\ UNCHANGED <<frozen, printed, wallet, pool, chain, pc, code, out, fees>>
      /\ Use("edits")
    BY DEF Inv, Edit, node, memory
<1>2. tree' \in [Scripts -> [binary : Nat, idl : Nat]]
    <2>1. PICK s \in Scripts :
             \/ tree' = [tree EXCEPT ![s].binary = @ + 1]
             \/ tree' = [tree EXCEPT ![s].idl = @ + 1]
        BY DEF Edit
    <2>2. tree \in [Scripts -> [binary : Nat, idl : Nat]]
        BY <1>1 DEF FileInv
    <2>3. [tree[s] EXCEPT !.binary = @ + 1] \in [binary : Nat, idl : Nat]
          /\ [tree[s] EXCEPT !.idl = @ + 1] \in [binary : Nat, idl : Nat]
        BY <2>2
    <2> QED
        BY <2>1, <2>2, <2>3
<1>4. MoneyInv'
    BY <1>1, MoneySamePool
<1>5. ASSUME NEW q \in Deployers
      PROVE  MemoryOk(q)'
    <2>1. MemoryOk(q)
        BY <1>1 DEF MemoryInv
    <2>2. Made(q) => Made(q)'
        BY <1>1, MadeStays
    <2>3. Funded(q) => Funded(q)'
        BY <1>1, FundedStays
    <2>4. Creates(q) => Creates(q)'
        BY DEF Creates, ArgsGiven
    <2>5. ASSUME NEW idls, IsCode(q, idls)
          PROVE  IsCode(q, idls)'
        BY <1>1, <2>5 DEF IsCode, CodeCell, CodeCapacity
    <2> QED
        BY <1>1, <2>1, <2>2, <2>3, <2>4, <2>5 DEF MemoryOk
<1>6. MemoryInv'
    BY <1>1, <1>5 DEF MemoryInv
<1>7. FileInv'
    <2>1. \A s \in Scripts : FileOk(s)'
        BY <1>1 DEF FileInv, FileOk, Underway, Deploys, Overlap
    <2> QED
        BY <1>1, <1>2, <2>1 DEF FileInv
<1>8. BudgetInv'
    BY <1>1, DeployAssumption, BudgetUsed
<1> QED
    BY <1>4, <1>6, <1>7, <1>8 DEF Inv

\* A step that the processes do not take part in.
LEMMA IdleStep ==
    ASSUME MemoryInv, FileInv,
           UNCHANGED <<disk, printed, pc, code, out, fees>>,
           \A q \in Deployers : pc[q] = "send" => Funded(q)'
    PROVE  MemoryInv' /\ FileInv'
<1>1. UNCHANGED <<tree, frozen>>
    BY DEF disk
<1>2. ASSUME NEW q \in Deployers
      PROVE  MemoryOk(q)'
    <2>1. MemoryOk(q)
        BY DEF MemoryInv
    <2>2. Made(q) => Made(q)'
        BY MadeStays
    <2>3. Creates(q) => Creates(q)'
        BY DEF Creates, ArgsGiven
    <2>4. ASSUME NEW idls, IsCode(q, idls)
          PROVE  IsCode(q, idls)'
        BY <2>4 DEF IsCode, CodeCell, CodeCapacity
    <2> QED
        BY <2>1, <2>2, <2>3, <2>4 DEF MemoryOk
<1>3. MemoryInv'
    BY <1>2 DEF MemoryInv
<1>4. \A s \in Scripts : FileOk(s)'
    BY <1>1 DEF FileInv, FileOk, Underway, Deploys, Overlap
<1> QED
    BY <1>1, <1>3, <1>4 DEF FileInv

LEMMA EvictStep ==
    ASSUME Inv, Evict
    PROVE  Inv'
<1>1. /\ MoneyInv /\ MemoryInv /\ FileInv /\ BudgetInv
      /\ UNCHANGED <<disk, printed, wallet, chain, pc, code, out, fees>>
      /\ Use("evictions") /\ pool' \subseteq pool
    BY DEF Inv, Evict, memory
<1>3. MoneyInv'
    BY <1>1, MoneySamePool
<1>4. \A q \in Deployers : pc[q] = "send" => Funded(q)'
    BY <1>1, FundedStays DEF MemoryInv, MemoryOk
<1>5. MemoryInv' /\ FileInv'
    BY <1>1, <1>4, IdleStep
<1>6. BudgetInv'
    BY <1>1, DeployAssumption, BudgetUsed
<1> QED
    BY <1>3, <1>5, <1>6 DEF Inv

LEMMA CommitMoney ==
    ASSUME MoneyInv, NEW tx \in pool,
           pool' = pool \ {tx}, chain' = chain \cup {tx},
           UNCHANGED printed,
           wallet' = [wallet EXCEPT ![tx.key] =
              Remaining(wallet[tx.key], Inputs(tx)) \o <<ChangeCell(tx)>>]
    PROVE  /\ MoneyInv'
           /\ \A b \in Addresses : b # tx.key => wallet'[b] = wallet[b]
           /\ Advances(wallet[tx.key], wallet'[tx.key], tx.key, chain,
                       chain', Capacity(tx.inputs), tx.outputs[2].capacity)
<1> DEFINE a == tx.key
           w == wallet[a]
           paid == Capacity(tx.inputs)
           got == tx.outputs[2].capacity
<1>1. /\ a \in Addresses /\ DOMAIN wallet = Addresses /\ PendingOk(tx)
      /\ FeeList(w, a, chain) /\ Leads(tx.inputs, w)
    BY WalletIs DEF MoneyInv, PendingOk
<1>2. /\ wallet'[a] = Remaining(w, Inputs(tx)) \o <<ChangeCell(tx)>>
      /\ \A b \in Addresses : b # a => wallet'[b] = wallet[b]
      /\ DOMAIN wallet' = Addresses
    BY <1>1
<1>3. Advances(w, wallet'[a], a, chain, chain \cup {tx}, paid, got)
    BY <1>2, WalletAfter
<1>4. /\ FeeList(tx.inputs, a, chain) /\ tx.inputs # <<>>
      /\ tx.inputs[1] = w[1] /\ tx.inputs[1] \in ToSet(tx.inputs)
    BY <1>1, LeadingFees
<1>5. tx \notin chain
    BY InputsAreNew
<1> HIDE DEF a, w, paid, got
<1>7. ASSUME NEW b \in Addresses
      PROVE  IsWallet(wallet'[b], b, chain')
    <2>1. CASE b = a
        BY <1>3, <2>1 DEF Advances
    <2>2. CASE b # a
        BY <1>2, <2>2, WalletIs, FeeListGrows DEF IsWallet
    <2> QED
        BY <2>1, <2>2
<1>8. ASSUME NEW other \in pool'
      PROVE  PendingOk(other)'
    <2>1. other \in pool /\ other # tx
        OBVIOUS
    <2>2. PendingOk(other) /\ other.key # a
        BY <2>1 DEF MoneyInv, a
    <2>3. CellOk(other.outputs[1])'
        BY <2>2 DEF PendingOk, CellOk
    <2>4. FeeList(other.inputs, other.key, chain')
        BY <2>2, FeeListGrows DEF PendingOk
    <2>5. wallet'[other.key] = wallet[other.key]
        BY <1>2, <2>2 DEF PendingOk
    <2> QED
        BY <2>2, <2>3, <2>4, <2>5 DEF PendingOk
<1>9. ASSUME NEW u \in chain
      PROVE  CommittedOk(u)'
    <2>1. CommittedOk(u)
        BY DEF MoneyInv
    <2>2. CellOk(u.outputs[1])'
        BY <2>1 DEF CommittedOk, CellOk
    <2>3. FeeCell(u.inputs[1], u.key, chain')
        BY <2>1 DEF CommittedOk, FeeCell, Originates
    <2>4. u.inputs[1] \notin ToSet(wallet'[u.key])
        <3>1. CASE u.key = a
            <4>1. u.inputs[1] \notin ToSet(w) /\ Originates(u.inputs[1], chain)
                BY <2>1, <3>1 DEF CommittedOk, FeeCell, w
            <4> QED
                BY <1>3, <3>1, <4>1 DEF Advances
        <3>2. CASE u.key # a
            BY <1>2, <2>1, <3>2 DEF CommittedOk
        <3> QED
            BY <3>1, <3>2
    <2> QED
        BY <2>1, <2>2, <2>3, <2>4 DEF CommittedOk
<1>10. CommittedOk(tx)'
    <2>1. CellOk(tx.outputs[1])'
        BY <1>1 DEF PendingOk, CellOk
    <2>2. FeeCell(tx.inputs[1], a, chain')
        BY <1>4, FeeListIs DEF FeeCell, Originates
    <2>3. tx.inputs[1] \notin ToSet(wallet'[a])
        BY <1>3, <1>4 DEF Advances
    <2> QED
        BY <1>1, <1>4, <2>1, <2>2, <2>3 DEF CommittedOk, a
<1>11. Price(tx) \in Nat
    BY <1>1, FeeAssumption DEF PendingOk, CellOk, Price
<1>12. /\ Mine(a, chain') = Mine(a, chain) \cup {tx}
       /\ tx \notin Mine(a, chain)
       /\ \A b \in Addresses : b # a => Mine(b, chain') = Mine(b, chain)
    BY <1>5 DEF Mine, a
<1>13. \A b \in Addresses : Counted(Mine(b, chain))
    BY DEF MoneyInv
<1>14. \A b \in Addresses : Counted(Mine(b, chain'))
    <2>1. Counted(Mine(a, chain) \cup {tx})
        BY <1>1, <1>11, <1>12, <1>13, CountedAdd
    <2> QED
        BY <1>12, <1>13, <2>1
<1>15. ASSUME NEW b \in Addresses
       PROVE  Capacity(Wallet[b]) = Capacity(wallet'[b]) + Cost(Mine(b, chain'))
    <2>1. Capacity(Wallet[b]) = Capacity(wallet[b]) + Cost(Mine(b, chain))
        BY DEF MoneyInv, PaysForOwnCells, Mine
    <2>2. CASE b # a
        BY <1>2, <1>12, <2>1, <2>2
    <2>3. CASE b = a
        <3>1. Cost(Mine(a, chain')) = Cost(Mine(a, chain)) + Price(tx)
            BY <1>1, <1>11, <1>12, <1>13, CostAdd
        <3>2. Cost(Mine(a, chain)) \in Nat
            BY <1>1, <1>13, CostIsCoins, FS_CardinalityType DEF Counted
        <3>3. Capacity(wallet'[a]) = Capacity(w) - paid + got
            BY <1>3 DEF Advances
        <3>4. got = paid - tx.outputs[1].capacity - Fee
            BY <1>1 DEF PendingOk, Change, got, paid
        <3>5. paid \in Nat /\ Capacity(w) \in Nat
            BY <1>1, <1>4, FeeListIs DEF paid
        <3>6. tx.outputs[1].capacity \in Nat /\ Fee \in Nat
            BY <1>1, FeeAssumption DEF PendingOk, CellOk
        <3>7. Capacity(Wallet[a]) = Capacity(w) + Cost(Mine(a, chain))
            BY <2>1, <2>3 DEF w
        <3>8. Price(tx) = tx.outputs[1].capacity + Fee
            BY DEF Price
        <3>9. Capacity(wallet'[a])
                = Capacity(w) - tx.outputs[1].capacity - Fee
            BY <3>3, <3>4, <3>5, <3>6
        <3>10. Cost(Mine(a, chain'))
                 = Cost(Mine(a, chain)) + tx.outputs[1].capacity + Fee
            BY <3>1, <3>2, <3>6, <3>8
        <3>11. Capacity(Wallet[a])
                 = Capacity(wallet'[a]) + Cost(Mine(a, chain'))
            <4> DEFINE all == Capacity(Wallet[a])
                       has == Capacity(wallet'[a])
                       had == Capacity(w)
                       cost == Cost(Mine(a, chain'))
                       spent == Cost(Mine(a, chain))
                       price == tx.outputs[1].capacity
            <4>1. /\ had \in Nat /\ spent \in Nat /\ price \in Nat /\ Fee \in Nat
                  /\ has = had - price - Fee
                  /\ cost = spent + price + Fee
                  /\ all = had + spent
                BY <3>2, <3>5, <3>6, <3>7, <3>9, <3>10
            <4> HIDE DEF all, has, had, cost, spent, price
            <4>2. all = has + cost
                BY <4>1
            <4> QED
                BY <4>2 DEF all, has, cost
        <3> QED
            BY <2>3, <3>11
    <2> QED
        BY <2>2, <2>3
<1>16. PaysForOwnCells'
    BY <1>15 DEF PaysForOwnCells, Mine
<1>17. \A other, another \in pool' :
          other.key = another.key => other = another
    BY DEF MoneyInv
<1>18. MoneyInv'
    <2>1. \A u \in chain' : CommittedOk(u)'
        BY <1>9, <1>10
    <2> QED
        BY <1>2, <1>7, <1>8, <1>14, <1>16, <1>17, <2>1 DEF MoneyInv
<1> QED
    BY <1>2, <1>3, <1>18 DEF a, w, paid, got

LEMMA CommitStep ==
    ASSUME Inv, Commit
    PROVE  Inv'
<1>1. /\ MoneyInv /\ MemoryInv /\ FileInv /\ BudgetInv
      /\ UNCHANGED <<disk, printed, pc, code, out, fees, budget>>
    BY DEF Inv, Commit, memory
<1>2. PICK tx \in pool :
         /\ pool' = pool \ {tx} /\ chain' = chain \cup {tx}
         /\ wallet' = [wallet EXCEPT ![tx.key] =
              Remaining(wallet[tx.key], Inputs(tx)) \o <<ChangeCell(tx)>>]
    BY DEF Commit, ChangeCell
<1>3. /\ MoneyInv'
      /\ \A b \in Addresses : b # tx.key => wallet'[b] = wallet[b]
      /\ Advances(wallet[tx.key], wallet'[tx.key], tx.key, chain,
                  chain', Capacity(tx.inputs), tx.outputs[2].capacity)
    BY <1>1, <1>2, CommitMoney
<1>4. ASSUME NEW q \in Deployers, pc[q] = "send"
      PROVE  Funded(q)'
    <2> DEFINE a == Jobs[q].address
               f == fees[q]
    <2>1. Funded(q)
        BY <1>1, <1>4 DEF MemoryInv, MemoryOk
    <2>2. /\ a \in Addresses /\ FeeList(f, a, chain) /\ f # <<>>
          /\ Leads(f, wallet[a]) \/ Lost(f, wallet[a])
        BY <2>1 DEF Funded, Payment
    <2> HIDE DEF a, f
    <2>3. FeeList(f, a, chain')
        BY <1>2, <2>2, FeeListGrows
    <2>4. Leads(f, wallet'[a]) \/ Lost(f, wallet'[a])
        <3>1. CASE a # tx.key
            BY <1>3, <2>2, <3>1
        <3>2. CASE a = tx.key
            <4>1. ASSUME Leads(f, wallet[a])
                  PROVE  Lost(f, wallet'[a])
                <5>1. f[1] = wallet[a][1] /\ f[1] \in ToSet(f)
                    BY <1>1, <2>2, <4>1, WalletIs, LeadingFees
                <5>2. wallet[a][1] \notin ToSet(wallet'[a])
                    BY <1>3, <3>2 DEF Advances
                <5> QED
                    BY <5>1, <5>2 DEF Lost
            <4>2. ASSUME Lost(f, wallet[a])
                  PROVE  Lost(f, wallet'[a])
                <5>1. PICK c \in ToSet(f) : c \notin ToSet(wallet[a])
                    BY <4>2 DEF Lost
                <5>2. Originates(c, chain)
                    BY <2>2, <5>1, FeeListIs DEF FeeCell
                <5>3. c \notin ToSet(wallet'[a])
                    BY <1>3, <3>2, <5>1, <5>2 DEF Advances
                <5> QED
                    BY <5>1, <5>3 DEF Lost
            <4> QED
                BY <2>2, <4>1, <4>2
        <3> QED
            BY <3>1, <3>2
    <2>5. Payment(f, wallet'[a], a, chain')
        BY <2>2, <2>3, <2>4 DEF Payment
    <2>6. /\ a = Jobs[q].address /\ f = fees'[q] /\ out'[q] = out[q]
          /\ Enough(fees[q], out[q].capacity)
        BY <1>1, <2>1 DEF a, f, Funded
    <2> QED
        BY <1>1, <2>2, <2>5, <2>6 DEF Funded, Enough
<1>5. MemoryInv' /\ FileInv'
    BY <1>1, <1>4, IdleStep
<1>6. BudgetInv'
    BY <1>1 DEF BudgetInv
<1> QED
    BY <1>3, <1>5, <1>6 DEF Inv

LEMMA InvInit == Init => Inv
<1> SUFFICES ASSUME Init
             PROVE  Inv
    OBVIOUS
<1>1. /\ tree = [s \in Scripts |-> [binary |-> 0, idl |-> 0]]
      /\ frozen = [s \in Scripts |-> NoFile]
      /\ printed = [s \in Scripts |-> {}]
      /\ wallet = Wallet /\ pool = {} /\ chain = {}
      /\ pc = [p \in Deployers |-> "start"]
      /\ code = [p \in Deployers |-> Nothing]
      /\ DOMAIN out = Deployers /\ DOMAIN fees = Deployers
      /\ budget = Budget
    BY DEF Init
<1>2. ASSUME NEW a \in Addresses
      PROVE  IsWallet(Wallet[a], a, {})
    <2>1. /\ Wallet[a] \in Seq(ToSet(Wallet[a]))
          /\ \A i \in DOMAIN Wallet[a] :
                /\ Wallet[a][i].lock = a
                /\ Wallet[a][i].capacity \in Nat
                /\ Wallet[a][i].capacity >= MinChange
                /\ Wallet[a][i].from = <<<<>>, i>>
        BY DeployAssumption
    <2>2. \A i \in DOMAIN Wallet[a] :
             Wallet[a][i].from[1] = <<>> /\ Wallet[a][i].from[2] = i
        BY <2>1
    <2>3. FeeList(Wallet[a], a, {})
        BY <2>1, <2>2 DEF FeeList, FeeCell, Originates
    <2>4. \A i, j \in DOMAIN Wallet[a] : Wallet[a][i] = Wallet[a][j] => i = j
        BY <2>2
    <2> QED
        BY <2>3, <2>4 DEF IsWallet, IsInjective
<1>3. \A a \in Addresses : Mine(a, chain) = {}
    BY <1>1 DEF Mine
<1>4. Counted({}) /\ Cost({}) = 0
    <2>1. Coins({}) = {}
        BY DEF Coins
    <2>2. IsFiniteSet({}) /\ Cardinality({}) = 0
        BY FS_EmptySet
    <2>3. Counted({})
        BY <2>1, <2>2 DEF Counted
    <2> QED
        BY <2>1, <2>2, <2>3, CostIsCoins
<1>5. PaysForOwnCells
    <2>1. ASSUME NEW a \in Addresses
          PROVE  Capacity(Wallet[a]) = Capacity(wallet[a]) + Cost(Mine(a, chain))
        <3>1. Capacity(Wallet[a]) \in Nat
            BY <1>2, FeeListIs DEF IsWallet
        <3>2. wallet[a] = Wallet[a] /\ Cost(Mine(a, chain)) = 0
            BY <1>1, <1>3, <1>4
        <3> QED
            BY <3>1, <3>2
    <2> QED
        BY <2>1 DEF PaysForOwnCells, Mine
<1>6. MoneyInv
    <2>1. DOMAIN wallet = Addresses
        BY <1>1 DEF Addresses
    <2>2. \A a \in Addresses : IsWallet(wallet[a], a, chain)
        BY <1>1, <1>2
    <2> QED
        BY <1>1, <1>3, <1>4, <1>5, <2>1, <2>2 DEF MoneyInv
<1>7. MemoryInv
    BY <1>1 DEF MemoryInv, MemoryOk, Stages, AtRest
<1>8. ASSUME NEW s \in Scripts
      PROVE  FileOk(s)
    <2>1. \A p \in Deployers : Deploys(p, s) => Underway(p, s)
        BY <1>1 DEF Underway
    <2> QED
        BY <1>1, <2>1 DEF FileOk, Frozens
<1>9. FileInv
    BY <1>1, <1>8 DEF FileInv
<1>10. BudgetInv
    BY <1>1, DeployAssumption DEF BudgetInv
<1> QED
    BY <1>6, <1>7, <1>9, <1>10 DEF Inv

LEMMA InvStep == Inv /\ [Next]_vars => Inv'
<1> SUFFICES ASSUME Inv, [Next]_vars
             PROVE  Inv'
    OBVIOUS
<1>1. CASE UNCHANGED vars
    <2>1. UNCHANGED <<disk, printed, wallet, pool, chain, pc, code, out, fees,
                      budget>>
        BY <1>1 DEF vars, node, memory
    <2>2. MoneyInv /\ MemoryInv /\ FileInv /\ BudgetInv
        BY DEF Inv
    <2>3. MoneyInv'
        BY <2>1, <2>2, MoneySamePool
    <2>4. \A q \in Deployers : pc[q] = "send" => Funded(q)'
        BY <2>1, <2>2, FundedStays DEF MemoryInv, MemoryOk
    <2>5. MemoryInv' /\ FileInv'
        BY <2>1, <2>2, <2>4, IdleStep
    <2>6. BudgetInv'
        BY <2>1, <2>2 DEF BudgetInv
    <2> QED
        BY <2>3, <2>5, <2>6 DEF Inv
<1>2. ASSUME NEW p \in Deployers, Run(p)
      PROVE  Inv'
    BY <1>2, ConfigureStep, ReadBinaryStep, ReadIdlStep, FreezeStep,
       WriteStep, FetchStep, BalanceStep, SendStep DEF Run
<1>3. ASSUME NEW p \in Deployers, Mispaste(p) \/ Die(p) \/ Rerun(p)
      PROVE  Inv'
    BY <1>3, MispasteStep, DieStep, RerunStep
<1>4. CASE Edit \/ Commit \/ Evict
    BY <1>4, EditStep, CommitStep, EvictStep
<1> QED
    BY <1>1, <1>2, <1>3, <1>4 DEF Next

LEMMA InvAlways == Spec => []Inv
BY InvInit, InvStep, PTL DEF Spec

------------------------------------------------------------------------------
(***************************************************************************)
(* The codes and the args of locked cells. CodeInv counts, beside the      *)
(* cells that were sent, the commands that are about to send one.          *)
(***************************************************************************)
Sent == pool \cup chain

InFlight ==
    {p \in Deployers : Jobs[p].command = "create" /\ pc[p] \in {"balance", "send"}}

Named ==
    {tx.outputs[1].lock.code : tx \in Locked(Sent)}
        \cup {out[p].lock.code : p \in InFlight}

Stored == {tx.outputs[1].data : tx \in Sent}

Orphans == Named \ Stored

Stranded == {tx \in Locked(Sent) : ~Suits(tx.outputs[1].lock)}

\* The commands that have been given a hash whose code their args do not suit.
Armed ==
    {p \in Deployers :
        /\ Jobs[p].command = "create"
        /\ pc[p] \in {"fetch", "balance", "send"}
        /\ ~Suits(LockedCell(p).lock)}

CodeInv ==
    /\ IsFiniteSet(Orphans)
    /\ Cardinality(Orphans) <= Budget["evictions"] - budget["evictions"]
    /\ IsFiniteSet(Stranded) /\ IsFiniteSet(Armed)
    /\ Cardinality(Stranded) + Cardinality(Armed)
          <= Budget["slips"] - budget["slips"]

\* The budget of evictions and slips is not touched.
Sober ==
    /\ budget'["evictions"] = budget["evictions"]
    /\ budget'["slips"] = budget["slips"]

LEMMA BudgetIs ==
    ASSUME BudgetInv
    PROVE  /\ Budget["evictions"] \in Nat /\ Budget["slips"] \in Nat
           /\ budget["evictions"] \in Nat /\ budget["slips"] \in Nat
BY DeployAssumption DEF BudgetInv

LEMMA SoberIf ==
    ASSUME BudgetInv,
           UNCHANGED budget \/ \E k \in {"edits", "crashes", "lost"} : Use(k)
    PROVE  Sober
<1>1. CASE UNCHANGED budget
    BY <1>1 DEF Sober
<1>2. CASE \E k \in {"edits", "crashes", "lost"} : Use(k)
    BY <1>2, DeployAssumption, BudgetUsed DEF Sober
<1> QED
    BY <1>1, <1>2

\* Nothing is added to what is counted.
LEMMA CodeLess ==
    ASSUME CodeInv, BudgetInv, BudgetInv', Orphans' \subseteq Orphans,
           Stranded' \subseteq Stranded, Armed' \subseteq Armed,
           budget'["evictions"] <= budget["evictions"],
           budget'["slips"] <= budget["slips"]
    PROVE  CodeInv'
<1>1. /\ IsFiniteSet(Orphans') /\ Cardinality(Orphans') <= Cardinality(Orphans)
      /\ Cardinality(Orphans) \in Nat /\ Cardinality(Orphans') \in Nat
    BY FS_Subset, FS_CardinalityType DEF CodeInv
<1>2. /\ IsFiniteSet(Stranded')
      /\ Cardinality(Stranded') <= Cardinality(Stranded)
      /\ Cardinality(Stranded) \in Nat /\ Cardinality(Stranded') \in Nat
    BY FS_Subset, FS_CardinalityType DEF CodeInv
<1>3. /\ IsFiniteSet(Armed') /\ Cardinality(Armed') <= Cardinality(Armed)
      /\ Cardinality(Armed) \in Nat /\ Cardinality(Armed') \in Nat
    BY FS_Subset, FS_CardinalityType DEF CodeInv
<1>4. /\ budget["evictions"] \in Nat /\ budget["slips"] \in Nat
      /\ budget'["evictions"] \in Nat /\ budget'["slips"] \in Nat
      /\ Budget["evictions"] \in Nat /\ Budget["slips"] \in Nat
    BY DeployAssumption DEF BudgetInv
<1>5. /\ Cardinality(Orphans) <= Budget["evictions"] - budget["evictions"]
      /\ Cardinality(Stranded) + Cardinality(Armed)
            <= Budget["slips"] - budget["slips"]
    BY DEF CodeInv
<1>6. Cardinality(Orphans') <= Budget["evictions"] - budget'["evictions"]
    BY <1>1, <1>4, <1>5
<1>7. Cardinality(Stranded') + Cardinality(Armed')
         <= Budget["slips"] - budget'["slips"]
    BY <1>2, <1>3, <1>4, <1>5
<1> QED
    BY <1>1, <1>2, <1>3, <1>6, <1>7 DEF CodeInv

\* The processes but p count as before.
LEMMA OthersCount ==
    ASSUME NEW p \in Deployers, Alone(p), NEW q \in Deployers, q # p
    PROVE  /\ q \in Armed' => q \in Armed
           /\ q \in InFlight' => q \in InFlight /\ out'[q] = out[q]
<1>1. pc'[q] = pc[q] /\ code'[q] = code[q] /\ out'[q] = out[q]
    BY DEF Alone
<1> QED
    BY <1>1 DEF Armed, InFlight, LockedCell, ArgsLen

\* A step of p that sends nothing.
LEMMA CodeQuiet ==
    ASSUME CodeInv, BudgetInv, BudgetInv', Sober,
           NEW p \in Deployers, Alone(p), Sent' = Sent,
           p \in Armed' => p \in Armed,
           p \in InFlight' => out'[p].lock.code \in Named \cup Stored
    PROVE  CodeInv'
<1>1. Stranded' = Stranded /\ Stored' = Stored
    BY DEF Stranded, Stored, Locked
<1>2. Armed' \subseteq Armed
    <2>1. ASSUME NEW q \in Armed'
          PROVE  q \in Armed
        BY OthersCount, <2>1 DEF Armed
    <2> QED
        BY <2>1
<1>3. \A q \in InFlight' : out'[q].lock.code \in Named \cup Stored
    BY OthersCount DEF InFlight, Named
<1>4. Named' \subseteq Named \cup Stored
    BY <1>3 DEF Named, Locked
<1>5. Orphans' \subseteq Orphans
    BY <1>1, <1>4 DEF Orphans
<1>6. /\ budget'["evictions"] <= budget["evictions"]
      /\ budget'["slips"] <= budget["slips"]
    BY BudgetIs DEF Sober
<1> QED
    BY <1>1, <1>2, <1>5, <1>6, CodeLess

\* A step of p that neither creates nor sends.
LEMMA CodeIdle ==
    ASSUME CodeInv, BudgetInv, BudgetInv', Sober,
           NEW p \in Deployers, Alone(p), Sent' = Sent,
           Jobs[p].command # "create" \/ pc'[p] \notin {"fetch", "balance", "send"}
    PROVE  CodeInv'
<1>1. p \notin Armed' /\ p \notin InFlight'
    BY DEF Armed, InFlight
<1> QED
    BY <1>1, CodeQuiet

LEMMA ExitCode ==
    ASSUME MemoryInv, CodeInv, BudgetInv, BudgetInv', Sober,
           NEW p \in Deployers, NEW result \in {"failed", "reported"},
           Exit(p, result), UNCHANGED <<pool, chain>>
    PROVE  CodeInv'
<1>1. Alone(p) /\ pc'[p] = result
    BY ExitIs
<1>2. Sent' = Sent
    BY DEF Sent
<1> QED
    BY <1>1, <1>2, CodeIdle

LEMMA MemoryIs ==
    ASSUME Inv, NEW p \in Deployers
    PROVE  MemoryOk(p) /\ MemoryInv /\ BudgetInv /\ FileInv
BY DEF Inv, MemoryInv

\* What was printed for the script of a create command is a cell with its
\* code, and the args suit it.
LEMMA PrintedSuits ==
    ASSUME FileInv, NEW p \in Deployers, Jobs[p].command = "create",
           ArgsGiven(p), NEW tx \in printed[Jobs[p].script], code'[p] = tx
    PROVE  Suits(LockedCell(p).lock)'
<1> DEFINE s == Jobs[p].script
           lock == LockedCell(p).lock
<1>1. s \in Scripts /\ s \in {"simple", "timelock"}
    BY JobIs
<1>2. tx.outputs[1].data.script = s
    BY <1>1 DEF FileInv, FileOk
<1>3. /\ lock'.code = tx.outputs[1].data
      /\ lock'.argsLen = ArgsLen(p)
    BY DEF LockedCell, ArgsLen
<1>4. ArgsLen(p) = IF s = "timelock" THEN PubkeySize + HashSize ELSE HashSize
    BY ArgsAreWhole DEF ArgsFit
<1> HIDE DEF lock, s
<1>5. lock'.code.script = s
    BY <1>2, <1>3
<1>6. /\ s \in DOMAIN Wanted
      /\ Wanted[s] = IF s = "timelock" THEN PubkeySize + HashSize ELSE HashSize
    BY <1>1 DEF Wanted
<1>7. Suits(lock)'
    BY <1>3, <1>4, <1>5, <1>6 DEF Suits, Wanted, PubkeySize, HashSize
<1> QED
    BY <1>7 DEF lock

LEMMA ConfigureCode ==
    ASSUME Inv, Inv', CodeInv, NEW p \in Deployers, Configure(p)
    PROVE  CodeInv'
<1>1. /\ MemoryInv /\ BudgetInv /\ FileInv /\ BudgetInv'
      /\ Sober /\ UNCHANGED <<pool, chain>> /\ Sent' = Sent
    BY SoberIf DEF Inv, Configure, node, Sent
<1>2. CASE Exit(p, "failed")
    BY <1>1, <1>2, ExitCode
<1>3. CASE Jobs[p].command # "create" /\ Goto(p, "binary") /\ UNCHANGED memory
    <2>1. Alone(p)
        BY <1>1, <1>3 DEF MemoryInv, Alone, Stages, Goto, memory
    <2> QED
        BY <1>1, <1>3, <2>1, CodeIdle
<1>4. CASE /\ WellFormed(p)
           /\ Jobs[p].command = "create"
           /\ \E tx \in printed[Jobs[p].script] :
                 code' = [code EXCEPT ![p] = tx]
           /\ Goto(p, "fetch")
           /\ UNCHANGED <<out, fees>>
    <2>1. PICK tx \in printed[Jobs[p].script] : code' = [code EXCEPT ![p] = tx]
        BY <1>4
    <2>2. Alone(p) /\ pc'[p] = "fetch" /\ code'[p] = tx
        BY <1>1, <1>4, <2>1 DEF MemoryInv, Alone, Stages, Goto
    <2>3. Suits(LockedCell(p).lock)'
        BY <1>1, <1>4, <2>2, PrintedSuits DEF WellFormed
    <2>4. p \notin Armed' /\ p \notin InFlight'
        BY <2>2, <2>3 DEF Armed, InFlight
    <2> QED
        BY <1>1, <2>2, <2>4, CodeQuiet
<1> QED
    BY <1>2, <1>3, <1>4 DEF Configure

\* One element more makes a finite set larger by one at most.
LEMMA OneMore ==
    ASSUME NEW S, IsFiniteSet(S), NEW x
    PROVE  /\ IsFiniteSet(S \cup {x}) /\ Cardinality(S \cup {x}) \in Nat
           /\ Cardinality(S) \in Nat
           /\ Cardinality(S \cup {x}) <= Cardinality(S) + 1
<1>1. IsFiniteSet(S \cup {x})
    BY FS_AddElement
<1>2. Cardinality(S) \in Nat
    BY FS_CardinalityType
<1>3. Cardinality(S \cup {x}) \in Nat
    BY <1>1, FS_CardinalityType
<1>4. Cardinality(S \cup {x}) =
          IF x \in S THEN Cardinality(S) ELSE Cardinality(S) + 1
    BY FS_AddElement, Zenon
<1>5. Cardinality(S \cup {x}) <= Cardinality(S) + 1
    BY <1>2, <1>4
<1> QED
    BY <1>1, <1>2, <1>3, <1>5

\* A slip arms one process at most.
LEMMA MispasteCode ==
    ASSUME Inv, Inv', CodeInv, NEW p \in Deployers, Mispaste(p)
    PROVE  CodeInv'
<1>1. /\ MemoryInv /\ BudgetInv /\ BudgetInv'
      /\ UNCHANGED <<pool, chain>> /\ Sent' = Sent
    BY DEF Inv, Mispaste, node, Sent
<1>2. /\ budget'["slips"] = budget["slips"] - 1
      /\ budget'["evictions"] = budget["evictions"]
    BY <1>1, DeployAssumption, BudgetUsed DEF Mispaste
<1>3. Alone(p) /\ pc'[p] \in {"failed", "fetch"}
    <2>1. CASE Exit(p, "failed")
        BY <1>1, <2>1, ExitIs
    <2>2. CASE /\ \E tx \in pool \cup chain : code' = [code EXCEPT ![p] = tx]
               /\ Goto(p, "fetch")
               /\ UNCHANGED <<out, fees>>
        BY <1>1, <2>2 DEF MemoryInv, Alone, Stages, Goto
    <2> QED
        BY <2>1, <2>2 DEF Mispaste
<1>4. Stranded' = Stranded /\ Stored' = Stored
    BY <1>1 DEF Stranded, Stored, Locked
<1>5. p \notin InFlight'
    BY <1>3 DEF InFlight
<1>6. Named' \subseteq Named
    <2>1. \A q \in InFlight' : q \in InFlight /\ out'[q] = out[q]
        BY <1>3, <1>5, OthersCount DEF InFlight
    <2> QED
        BY <1>1, <2>1 DEF Named, Locked
<1>7. Orphans' \subseteq Orphans
    BY <1>4, <1>6 DEF Orphans
<1>8. Armed' \subseteq Armed \cup {p}
    BY <1>3, OthersCount DEF Armed
<1> DEFINE more == Armed \cup {p}
<1>9. /\ IsFiniteSet(more) /\ Cardinality(more) \in Nat
      /\ Cardinality(Armed) \in Nat
      /\ Cardinality(more) <= Cardinality(Armed) + 1
    BY OneMore, Zenon DEF CodeInv
<1> HIDE DEF more
<1>10. /\ IsFiniteSet(Armed') /\ Cardinality(Armed') \in Nat
       /\ Cardinality(Armed') <= Cardinality(more)
    BY <1>8, <1>9, FS_Subset, FS_CardinalityType DEF more
<1>11. /\ IsFiniteSet(Orphans') /\ Cardinality(Orphans') <= Cardinality(Orphans)
       /\ Cardinality(Orphans) \in Nat /\ Cardinality(Orphans') \in Nat
    BY <1>7, FS_Subset, FS_CardinalityType DEF CodeInv
<1>12. Cardinality(Stranded) \in Nat
    BY FS_CardinalityType DEF CodeInv
<1>13. /\ Budget["evictions"] \in Nat /\ Budget["slips"] \in Nat
       /\ budget["evictions"] \in Nat /\ budget["slips"] \in Nat
    BY <1>1, BudgetIs
<1>14. Cardinality(Orphans') <= Budget["evictions"] - budget'["evictions"]
    BY <1>2, <1>11, <1>13 DEF CodeInv
<1>15. Cardinality(Stranded') + Cardinality(Armed')
          <= Budget["slips"] - budget'["slips"]
    BY <1>2, <1>4, <1>9, <1>10, <1>12, <1>13 DEF CodeInv
<1> QED
    BY <1>4, <1>10, <1>11, <1>14, <1>15 DEF CodeInv

LEMMA ReadCode ==
    ASSUME Inv, Inv', CodeInv, NEW p \in Deployers,
           ReadBinary(p) \/ ReadIdl(p) \/ Freeze(p) \/ Write(p)
    PROVE  CodeInv'
<1>1. /\ MemoryInv /\ BudgetInv /\ BudgetInv' /\ MemoryOk(p)
      /\ Sober /\ Sent' = Sent
    BY MemoryIs, SoberIf
    DEF Inv, ReadBinary, ReadIdl, Freeze, Write, node, Sent
<1>2. Jobs[p].command # "create"
    BY <1>1 DEF MemoryOk, ReadBinary, ReadIdl, Freeze, Write
<1>3. Alone(p)
    BY <1>1
    DEF MemoryInv, Alone, Stages, Goto, ReadBinary, ReadIdl, Freeze, Write, memory
<1> QED
    BY <1>1, <1>2, <1>3, CodeIdle

LEMMA FetchCode ==
    ASSUME Inv, Inv', CodeInv, NEW p \in Deployers, Fetch(p)
    PROVE  CodeInv'
<1>1. /\ MemoryInv /\ BudgetInv /\ BudgetInv' /\ pc[p] = "fetch"
      /\ Sober /\ UNCHANGED <<pool, chain>> /\ Sent' = Sent
    BY SoberIf DEF Inv, Fetch, node, Sent
<1>2. CASE Exit(p, "failed")
    BY <1>1, <1>2, ExitCode
<1>3. CASE /\ Known(code[p])
           /\ out' = [out EXCEPT ![p] =
                        IF Jobs[p].command = "create" THEN LockedCell(p)
                                                      ELSE UdtCell(p)]
           /\ Goto(p, "balance")
           /\ UNCHANGED <<code, fees>>
    <2>1. Alone(p) /\ pc'[p] = "balance" /\ code'[p] = code[p]
        BY <1>1, <1>3 DEF MemoryInv, Alone, Stages, Goto
    <2>2. CASE Jobs[p].command # "create"
        BY <1>1, <2>1, <2>2, CodeIdle
    <2>3. CASE Jobs[p].command = "create"
        <3>1. out'[p] = LockedCell(p)
            BY <1>1, <1>3, <2>3 DEF MemoryInv
        <3>2. out'[p].lock.code = code[p].outputs[1].data
            BY <3>1, LockedCellIs
        <3>3. out'[p].lock.code \in Stored
            BY <1>3, <3>2 DEF Known, Stored, Sent
        <3>4. p \in Armed' => p \in Armed
            BY <1>1, <2>1 DEF Armed, LockedCell, ArgsLen
        <3> QED
            BY <1>1, <2>1, <3>3, <3>4, CodeQuiet
    <2> QED
        BY <2>2, <2>3
<1> QED
    BY <1>2, <1>3 DEF Fetch

LEMMA BalanceCode ==
    ASSUME Inv, Inv', CodeInv, NEW p \in Deployers, Balance(p)
    PROVE  CodeInv'
<1>1. /\ MemoryInv /\ BudgetInv /\ BudgetInv' /\ pc[p] = "balance"
      /\ Sober /\ UNCHANGED <<pool, chain>> /\ Sent' = Sent
    BY SoberIf DEF Inv, Balance, node, Sent
<1>2. CASE Exit(p, "failed")
    BY <1>1, <1>2, ExitCode
<1>3. CASE /\ fees' = [fees EXCEPT ![p] =
                         Collect(wallet[Jobs[p].address], out[p].capacity)]
           /\ Goto(p, "send")
           /\ UNCHANGED <<code, out>>
    <2>1. /\ Alone(p) /\ pc'[p] = "send"
          /\ code'[p] = code[p] /\ out'[p] = out[p]
        BY <1>1, <1>3 DEF MemoryInv, Alone, Stages, Goto
    <2>2. p \in Armed' => p \in Armed
        BY <1>1, <2>1 DEF Armed, LockedCell, ArgsLen
    <2>3. p \in InFlight' => out'[p].lock.code \in Named
        BY <1>1, <2>1 DEF InFlight, Named
    <2> QED
        BY <1>1, <2>1, <2>2, <2>3, CodeQuiet
<1> QED
    BY <1>2, <1>3 DEF Balance

\* The locked cell that a command pays for is the one it was counted for.
LEMMA SendCode ==
    ASSUME Inv, Inv', CodeInv, NEW p \in Deployers, Send(p)
    PROVE  CodeInv'
<1> DEFINE tx == Tx(p)
<1>1. /\ MemoryInv /\ BudgetInv /\ BudgetInv' /\ pc[p] = "send"
      /\ Sober /\ UNCHANGED chain /\ Made(p) /\ Funded(p)
    BY MemoryIs, SoberIf DEF Inv, Send, MemoryOk
<1>2. CASE Exit(p, "failed") /\ UNCHANGED pool
    BY <1>1, <1>2, ExitCode
<1>3. CASE /\ pool' = pool \cup {tx}
           /\ \/ Exit(p, "failed") \/ Exit(p, "reported")
              \/ /\ Jobs[p].command # "create"
                 /\ code' = [code EXCEPT ![p] = tx]
                 /\ Goto(p, "fetch")
                 /\ UNCHANGED <<out, fees>>
    <2>1. Sent' = Sent \cup {tx} /\ tx.outputs[1] = out[p]
        BY <1>1, <1>3, TxIs DEF Sent
    <2>2. Alone(p) /\ p \notin Armed' /\ p \notin InFlight'
        <3>1. CASE Exit(p, "failed") \/ Exit(p, "reported")
            BY <1>1, <3>1, ExitIs DEF Armed, InFlight
        <3>2. CASE /\ Jobs[p].command # "create"
                   /\ code' = [code EXCEPT ![p] = tx]
                   /\ Goto(p, "fetch")
                   /\ UNCHANGED <<out, fees>>
            <4> HIDE DEF tx
            <4>1. Alone(p)
                BY <1>1, <3>2 DEF MemoryInv, Alone, Stages, Goto
            <4> QED
                BY <3>2, <4>1 DEF Armed, InFlight
        <3> QED
            BY <1>3, <3>1, <3>2
    <2>3. tx \in Locked(Sent') =>
             /\ p \in InFlight
             /\ out[p] = LockedCell(p)
        BY <1>1, <2>1, CodeCellIs, UdtCellIs
        DEF Locked, Made, IsCode, Funded, Creates, InFlight
    <2>4. tx \in Stranded' => p \in Armed
        BY <1>1, <2>1, <2>3 DEF Stranded, Armed, InFlight
    <2> HIDE DEF tx
    <2>5. Stranded' \subseteq Stranded \cup {tx} /\ Stored \subseteq Stored'
        BY <2>1 DEF Stranded, Locked, Stored
    <2>6. Orphans' \subseteq Orphans
        <3>1. \A q \in InFlight' : q \in InFlight /\ out'[q] = out[q]
            BY <2>2, OthersCount DEF InFlight
        <3>2. \A t \in Locked(Sent') : t.outputs[1].lock.code \in Named
            BY <2>1, <2>3 DEF Locked, Named
        <3>3. Named' \subseteq Named
            BY <3>1, <3>2 DEF Named
        <3> QED
            BY <2>5, <3>3 DEF Orphans
    <2>7. Armed' \subseteq Armed \ {p}
        BY <2>2, OthersCount DEF Armed
    <2>8. CASE tx \notin Stranded'
        <3>1. Stranded' \subseteq Stranded /\ Armed' \subseteq Armed
            BY <2>5, <2>7, <2>8
        <3>2. /\ budget'["evictions"] <= budget["evictions"]
              /\ budget'["slips"] <= budget["slips"]
            BY <1>1, BudgetIs DEF Sober
        <3> QED
            BY <1>1, <2>6, <3>1, <3>2, CodeLess
    <2>9. CASE tx \in Stranded'
        <3> DEFINE S == Stranded \cup {tx}
                   A == Armed \ {p}
        <3>1. /\ IsFiniteSet(S) /\ Cardinality(S) \in Nat
              /\ Cardinality(Stranded) \in Nat
              /\ Cardinality(S) <= Cardinality(Stranded) + 1
            BY OneMore, Zenon DEF CodeInv
        <3>2. /\ IsFiniteSet(A) /\ Cardinality(A) = Cardinality(Armed) - 1
              /\ Cardinality(Armed) \in Nat /\ Cardinality(A) \in Nat
            BY <2>4, <2>9, FS_RemoveElement, FS_CardinalityType DEF CodeInv
        <3>3. Stranded' \subseteq S /\ Armed' \subseteq A
            BY <2>5, <2>7
        <3> HIDE DEF S, A
        <3>4. /\ IsFiniteSet(Stranded') /\ Cardinality(Stranded') <= Cardinality(S)
              /\ Cardinality(Stranded') \in Nat
            BY <3>1, <3>3, FS_Subset, FS_CardinalityType
        <3>5. /\ IsFiniteSet(Armed') /\ Cardinality(Armed') <= Cardinality(A)
              /\ Cardinality(Armed') \in Nat
            BY <3>2, <3>3, FS_Subset, FS_CardinalityType
        <3>6. /\ IsFiniteSet(Orphans')
              /\ Cardinality(Orphans') <= Cardinality(Orphans)
              /\ Cardinality(Orphans') \in Nat /\ Cardinality(Orphans) \in Nat
            BY <2>6, FS_Subset, FS_CardinalityType DEF CodeInv
        <3>7. /\ Budget["evictions"] \in Nat /\ Budget["slips"] \in Nat
              /\ budget["evictions"] \in Nat /\ budget["slips"] \in Nat
            BY <1>1, BudgetIs
        <3>8. Cardinality(Orphans') <= Budget["evictions"] - budget'["evictions"]
            BY <1>1, <3>6, <3>7 DEF CodeInv, Sober
        <3>9. Cardinality(Stranded') + Cardinality(Armed')
                 <= Budget["slips"] - budget'["slips"]
            BY <1>1, <3>1, <3>2, <3>4, <3>5, <3>7 DEF CodeInv, Sober
        <3> QED
            BY <3>4, <3>5, <3>6, <3>8, <3>9 DEF CodeInv
    <2> QED
        BY <2>8, <2>9
<1> QED
    BY <1>2, <1>3 DEF Send, Replied

LEMMA DieCode ==
    ASSUME Inv, Inv', CodeInv, NEW p \in Deployers, Die(p) \/ Rerun(p)
    PROVE  CodeInv'
<1>1. /\ MemoryInv /\ BudgetInv /\ BudgetInv'
      /\ Sober /\ UNCHANGED <<pool, chain>> /\ Sent' = Sent
    BY SoberIf DEF Inv, Die, Rerun, node, Sent
<1>2. CASE Die(p)
    BY <1>1, <1>2, ExitCode DEF Die
<1>3. CASE Rerun(p)
    <2>1. Alone(p) /\ pc'[p] = "start"
        BY <1>1, <1>3 DEF Rerun, Goto, memory, MemoryInv, Alone, Stages, AtRest
    <2> QED
        BY <1>1, <2>1, CodeIdle
<1> QED
    BY <1>2, <1>3

\* A step that no process takes: an eviction can orphan the code that the
\* transaction stored, and no other.
LEMMA OutsideCode ==
    ASSUME Inv, Inv', CodeInv, Edit \/ Commit \/ Evict \/ UNCHANGED vars
    PROVE  CodeInv'
<1>1. /\ BudgetInv /\ BudgetInv' /\ UNCHANGED <<pc, code, out>>
    BY DEF Inv, Edit, Commit, Evict, vars, memory
<1>2. Armed' = Armed /\ InFlight' = InFlight
    BY <1>1 DEF Armed, InFlight, LockedCell, ArgsLen
<1>3. ASSUME Edit \/ Commit \/ UNCHANGED vars
      PROVE  CodeInv'
    <2>1. Sent' = Sent
        BY <1>3 DEF Edit, Commit, vars, node, Sent
    <2>2. /\ budget'["evictions"] <= budget["evictions"]
          /\ budget'["slips"] <= budget["slips"]
        BY <1>1, <1>3, SoberIf, BudgetIs DEF Edit, Commit, vars, Sober
    <2>3. Stranded' = Stranded /\ Orphans' = Orphans
        BY <1>1, <1>2, <2>1 DEF Stranded, Orphans, Named, Stored, Locked
    <2> QED
        BY <1>1, <1>2, <2>2, <2>3, CodeLess
<1>4. CASE Evict
    <2>1. PICK tx \in pool : pool' = pool \ {tx}
        BY <1>4 DEF Evict
    <2>2. UNCHANGED chain /\ Use("evictions")
        BY <1>4 DEF Evict
    <2>3. Sent' \subseteq Sent /\ Sent \subseteq Sent' \cup {tx}
        BY <2>1, <2>2 DEF Sent
    <2>4. /\ budget'["evictions"] = budget["evictions"] - 1
          /\ budget'["slips"] = budget["slips"]
        BY <1>1, <2>2, DeployAssumption, BudgetUsed
    <2>5. Stranded' \subseteq Stranded /\ Named' \subseteq Named
        BY <1>1, <1>2, <2>3 DEF Stranded, Named, Locked
    <2> DEFINE more == Orphans \cup {tx.outputs[1].data}
    <2>6. Orphans' \subseteq more
        BY <2>3, <2>5 DEF Orphans, Stored
    <2>7. /\ IsFiniteSet(more) /\ Cardinality(more) \in Nat
          /\ Cardinality(Orphans) \in Nat
          /\ Cardinality(more) <= Cardinality(Orphans) + 1
        BY OneMore, Zenon DEF CodeInv
    <2> HIDE DEF more
    <2>8. /\ IsFiniteSet(Orphans') /\ Cardinality(Orphans') <= Cardinality(more)
          /\ Cardinality(Orphans') \in Nat
        BY <2>6, <2>7, FS_Subset, FS_CardinalityType
    <2>9. /\ IsFiniteSet(Stranded')
          /\ Cardinality(Stranded') <= Cardinality(Stranded)
          /\ Cardinality(Stranded') \in Nat /\ Cardinality(Stranded) \in Nat
          /\ Cardinality(Armed) \in Nat
        BY <2>5, FS_Subset, FS_CardinalityType DEF CodeInv
    <2>10. /\ Budget["evictions"] \in Nat /\ Budget["slips"] \in Nat
           /\ budget["evictions"] \in Nat /\ budget["slips"] \in Nat
        BY <1>1, BudgetIs
    <2>11. Cardinality(Orphans') <= Budget["evictions"] - budget'["evictions"]
        BY <2>4, <2>7, <2>8, <2>10 DEF CodeInv
    <2>12. Cardinality(Stranded') + Cardinality(Armed')
              <= Budget["slips"] - budget'["slips"]
        BY <1>2, <2>4, <2>9, <2>10 DEF CodeInv
    <2>13. IsFiniteSet(Armed')
        BY <1>2 DEF CodeInv
    <2> QED
        BY <2>8, <2>9, <2>11, <2>12, <2>13 DEF CodeInv
<1> QED
    BY <1>3, <1>4

LEMMA CodeInit == Init => CodeInv
<1> SUFFICES ASSUME Init
             PROVE  CodeInv
    OBVIOUS
<1>1. pool = {} /\ chain = {} /\ budget = Budget
      /\ \A p \in Deployers : pc[p] = "start"
    BY DEF Init
<1>2. Orphans = {} /\ Stranded = {} /\ Armed = {}
    BY <1>1 DEF Orphans, Named, Sent, Locked, InFlight, Stranded, Armed
<1>3. /\ IsFiniteSet({}) /\ Cardinality({}) = 0
    BY FS_EmptySet
<1>4. Budget["evictions"] \in Nat /\ Budget["slips"] \in Nat
    BY DeployAssumption
<1> QED
    BY <1>1, <1>2, <1>3, <1>4 DEF CodeInv

LEMMA CodeStep == Inv /\ Inv' /\ CodeInv /\ [Next]_vars => CodeInv'
<1> SUFFICES ASSUME Inv, Inv', CodeInv, [Next]_vars
             PROVE  CodeInv'
    OBVIOUS
<1>1. ASSUME NEW p \in Deployers,
             Run(p) \/ Mispaste(p) \/ Die(p) \/ Rerun(p)
      PROVE  CodeInv'
    BY <1>1, ConfigureCode, MispasteCode, ReadCode, FetchCode, BalanceCode,
       SendCode, DieCode DEF Run
<1>2. CASE Edit \/ Commit \/ Evict \/ UNCHANGED vars
    BY <1>2, OutsideCode
<1> QED
    BY <1>1, <1>2 DEF Next

LEMMA CodeAlways == Spec => []CodeInv
BY InvInit, InvStep, CodeInit, CodeStep, PTL DEF Spec

------------------------------------------------------------------------------
(***************************************************************************)
(* What follows                                                            *)
(***************************************************************************)
\* Every variable has its type, nothing is pending and committed at once, and
\* a command that sends has collected enough fee cells, or the balancer would
\* have returned an error (deploy_script.rs:86-113).
THEOREM TypeCorrect == Spec => []TypeOK
<1>1. Inv => TypeOK
    <2> SUFFICES ASSUME Inv
                 PROVE  TypeOK
        OBVIOUS
    <2>1. \A a \in Addresses : \A i \in DOMAIN wallet[a] :
             wallet[a][i].lock = a /\ wallet[a][i].capacity >= MinChange
        BY WalletIs DEF Inv, FeeList, FeeCell
    <2>2. pool \cap chain = {}
        BY InputsAreNew DEF Inv
    <2>3. ASSUME NEW p \in Deployers, pc[p] = "send"
          PROVE  Capacity(fees[p]) >= out[p].capacity + MinChange + Fee
        BY <2>3 DEF Inv, MemoryInv, MemoryOk, Funded, Enough
    <2> QED
        BY <2>1, <2>2, <2>3
        DEF Inv, TypeOK, MemoryInv, FileInv, FileOk, Frozens, BudgetInv
<1> QED
    BY <1>1, InvAlways, PTL

\* Commands that run for one key take turns: all collect the first cells of
\* the same wallet, so at most one transaction of a key is pending
\* (deploy_script.rs:86-113, and the cell collectors of the other commands).
OnePendingPerKey == \A tx, other \in pool : tx.key = other.key => tx = other

THEOREM OnePendingPerKeyAlways == Spec => []OnePendingPerKey
<1>1. Inv => OnePendingPerKey
    BY DEF Inv, MoneyInv, OnePendingPerKey
<1> QED
    BY <1>1, InvAlways, PTL

\* What a configured command sends is refused only for a fee cell that another
\* transaction has taken, never because a cell is too small for its fields.
THEOREM RefusedOnlyForLostCellAlways == Spec => []RefusedOnlyForLostCell
<1>1. Inv => RefusedOnlyForLostCell
    <2> SUFFICES ASSUME Inv, NEW p \in Deployers,
                        pc[p] = "send", Configured(p), out[p].type = NoType
                 PROVE  Admits(Tx(p)) <=> Unspent(Tx(p))
        BY DEF RefusedOnlyForLostCell
    <2>1. Made(p) /\ Funded(p)
        BY DEF Inv, MemoryInv, MemoryOk
    <2>2. Jobs[p].key = Jobs[p].address
        BY DEF Configured
    <2> QED
        BY <2>1, <2>2, OwnIsAdmitted
<1> QED
    BY <1>1, InvAlways, PTL

\* A wallet has paid for the cells and the fees of the committed transactions
\* of its own key, and for nothing else.
THEOREM PaysForOwnCellsAlways == Spec => []PaysForOwnCells
<1>1. Inv => PaysForOwnCells
    BY DEF Inv, MoneyInv
<1> QED
    BY <1>1, InvAlways, PTL

\* When all deployments of a script have reported, the frozen file has the IDL
\* of one of them, unless two of them have mixed it up (deploy_script.rs:45-59).
THEOREM FrozenIsOfADeploymentAlways == Spec => []FrozenIsOfADeployment
<1>1. Inv => FrozenIsOfADeployment
    BY DEF Inv, FileInv, FileOk, Underway, Overlap, FrozenIsOfADeployment,
           AllReported, DeploysOf
<1> QED
    BY <1>1, InvAlways, PTL

\* Each eviction orphans the code of one deployment at most: the code of every
\* other locked cell is in a cell that is pending or committed.
THEOREM OrphanedByEvictionsAlways == Spec => []OrphanedByEvictions
<1>1. CodeInv /\ Inv => OrphanedByEvictions
    <2> SUFFICES ASSUME CodeInv, Inv
                 PROVE  OrphanedByEvictions
        OBVIOUS
    <2> DEFINE some == {tx.outputs[1].lock.code : tx \in Locked(Sent)} \ Stored
    <2>1. some \subseteq Orphans
        BY DEF Orphans, Named
    <2> HIDE DEF some
    <2>2. /\ Cardinality(some) <= Cardinality(Orphans)
          /\ Cardinality(some) \in Nat /\ Cardinality(Orphans) \in Nat
        BY <2>1, FS_Subset, FS_CardinalityType DEF CodeInv
    <2>3. Budget["evictions"] \in Nat /\ budget["evictions"] \in Nat
        BY BudgetIs DEF Inv
    <2>4. Cardinality(some) <= Budget["evictions"] - budget["evictions"]
        BY <2>2, <2>3 DEF CodeInv
    <2> QED
        BY <2>4 DEF OrphanedByEvictions, some, Stored, Sent
<1> QED
    BY <1>1, InvAlways, CodeAlways, PTL

\* Each mistyped hash strands one locked cell at most, and nothing else does:
\* the args of every other locked cell are what its code wants.
THEOREM StrandedBySlipsAlways == Spec => []StrandedBySlips
<1>1. CodeInv /\ Inv => StrandedBySlips
    <2> SUFFICES ASSUME CodeInv, Inv
                 PROVE  StrandedBySlips
        OBVIOUS
    <2>1. Cardinality(Stranded) \in Nat /\ Cardinality(Armed) \in Nat
        BY FS_CardinalityType DEF CodeInv
    <2>2. Budget["slips"] \in Nat /\ budget["slips"] \in Nat
        BY BudgetIs DEF Inv
    <2>3. Cardinality(Stranded) <= Budget["slips"] - budget["slips"]
        BY <2>1, <2>2 DEF CodeInv
    <2> QED
        BY <2>3 DEF StrandedBySlips, Stranded, Sent
<1> QED
    BY <1>1, InvAlways, CodeAlways, PTL

\* Nothing that deploy-sudt mints is ever admitted, for any amount, width of
\* amounts and size of a byte: the script never reads the amount as zero,
\* and for lack of inputs nothing else is allowed (deploy_script.rs:136-155).
THEOREM NothingIsMintedAlways == Spec => []NothingIsMinted
<1>1. Inv => NothingIsMinted
    BY DEF Inv, MoneyInv, PendingOk, CommittedOk, CellOk, NothingIsMinted
<1> QED
    BY <1>1, InvAlways, PTL
==============================================================================
