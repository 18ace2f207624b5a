--------------------------- MODULE SpendFlowProofs ---------------------------
(***************************************************************************)
(* Proofs about SpendFlow, for any number of invocations, locked cells and *)
(* fee cells.                                                              *)
(*                                                                         *)
(* The inductive invariant is Inv. Its core is Payment: the fee cells that *)
(* a run has collected are the first of the wallet, as few as are enough,  *)
(* or one of them has been spent since and will never come back. Hence all *)
(* runs compete for the first cell of the wallet, at most one transaction  *)
(* is pending, and when it is committed exactly a prefix of the wallet     *)
(* goes. That a spent cell never comes back rests on Known: a cell that a  *)
(* transaction creates remembers a locked cell that died with it.          *)
(***************************************************************************)
EXTENDS SpendFlow, DataProofs

\* c was there at the start, or the locked cell it came from is dead.
Known(c, live) == c.from[1] = <<>> \/ c.from[1][1] \notin live

FeeCell(c, live) ==
    /\ c.lock = Sighash
    /\ c.capacity \in Nat
    /\ Known(c, live)

FeeList(s, live) ==
    /\ s \in Seq(ToSet(s))
    /\ \A i \in DOMAIN s : FeeCell(s[i], live)

IsWallet(w, live) ==
    /\ FeeList(w, live)
    /\ IsInjective(w)

Lost(s, w) == ~(ToSet(s) \subseteq ToSet(w))

\* s is enough, and nothing less of it is.
Pays(s) ==
    /\ Enough(s, PayCapacity)
    /\ \A n \in 0..(Len(s) - 1) : ~Enough(SubSeq(s, 1, n), PayCapacity)

Payment(s, w, live) ==
    /\ FeeList(s, live)
    /\ Pays(s)
    /\ Leads(s, w) \/ Lost(s, w)

\* The fee cells of a transaction, behind the locked cell.
Paid(raw) == Tail(raw.inputs)

\* A run goes on with the right IDL file only, what it sends pays, and only a
\* simple-lock run comes to a good end.
RunOk(p) ==
    /\ pc[p] \in {"draft", "balance", "send", "reported"} => Jobs[p].idlMatches
    /\ pc[p] = "reported" => Entitled(p) /\ ~Timelock(p)
    /\ pc[p] = "send" => Payment(fees[p], wallet, locked)

\* A timelock run has drafted what it sends, or a cell of the draft is lost.
DraftOk(p) ==
    Timelock(p) =>
        /\ pc[p] \in {"balance", "send"} =>
              /\ draft[p] = Raw(p, Paid(draft[p]))
              /\ Payment(Paid(draft[p]), wallet, locked)
        /\ pc[p] = "send" =>
              \/ draft[p] = Raw(p, fees[p])
              \/ Lost(Paid(draft[p]), wallet)

RunInv == \A p \in Spenders : RunOk(p) /\ DraftOk(p)

\* At most one transaction is pending, of an entitled simple-lock run, and
\* it spends the first cells of the wallet.
PoolInv ==
    /\ \A tx, other \in pool : tx = other
    /\ \A tx \in pool :
          \E p \in Spenders :
              /\ Entitled(p) /\ ~Timelock(p)
              /\ Jobs[p].target \in locked
              /\ tx.raw = Raw(p, Paid(tx.raw))
              /\ FeeList(Paid(tx.raw), locked)
              /\ Pays(Paid(tx.raw))
              /\ Leads(Paid(tx.raw), wallet)

SpentInv ==
    \A c \in Locked \ locked :
        \E p \in Spenders : Entitled(p) /\ ~Timelock(p) /\ Jobs[p].target = c

Inv ==
    /\ locked \subseteq Locked
    /\ pc \in [Spenders -> Stages]
    /\ crashes \in 0..MaxCrashes
    /\ DOMAIN draft = Spenders /\ DOMAIN fees = Spenders
    /\ IsWallet(wallet, locked)
    /\ RunInv
    /\ PoolInv
    /\ SpentInv
    /\ OneFeePerCell

------------------------------------------------------------------------------
(***************************************************************************)
(* Lists of fee cells                                                      *)
(***************************************************************************)
LEMMA FeeListCapacity ==
    ASSUME NEW s, NEW live, FeeList(s, live)
    PROVE  WithCapacity(ToSet(s)) /\ s \in Seq(ToSet(s)) /\ Capacity(s) \in Nat
<1>1. WithCapacity(ToSet(s)) /\ s \in Seq(ToSet(s))
    BY DEF FeeList, FeeCell, WithCapacity, ToSet
<1> QED
    BY <1>1, CapacityType

LEMMA FeeListPrefix ==
    ASSUME NEW w, NEW live, FeeList(w, live), NEW n \in 0..Len(w)
    PROVE  /\ FeeList(SubSeq(w, 1, n), live)
           /\ Len(SubSeq(w, 1, n)) = n
           /\ \A i \in 1..n : SubSeq(w, 1, n)[i] = w[i]
           /\ ToSet(SubSeq(w, 1, n)) \subseteq ToSet(w)
<1> DEFINE s == SubSeq(w, 1, n)
<1>1. /\ w \in Seq(ToSet(w)) /\ Len(w) \in Nat
      /\ \A i \in 1..Len(w) : FeeCell(w[i], live)
    BY DEF FeeList
<1>2. /\ s \in Seq(ToSet(w)) /\ Len(s) = n /\ DOMAIN s = 1..n
      /\ \A i \in 1..n : s[i] = w[i]
    BY <1>1
<1> HIDE DEF s
<1>3. s \in Seq(ToSet(s)) /\ ToSet(s) \subseteq ToSet(w)
    BY <1>2, OwnRange
<1>4. \A i \in 1..n : FeeCell(s[i], live)
    BY <1>1, <1>2
<1> QED
    BY <1>2, <1>3, <1>4 DEF FeeList, s

\* Nothing is not enough.
LEMMA NothingIsNotEnough == ~Enough(<<>>, PayCapacity)
BY CapacityEmpty, FeeAssumption DEF Enough, PayCapacity, MinChange

LEMMA PaysIsNotEmpty ==
    ASSUME NEW s, NEW live, FeeList(s, live), Pays(s)
    PROVE  Len(s) \in Nat \ {0} /\ s[1] \in ToSet(s) /\ FeeCell(s[1], live)
<1>1. s # <<>> /\ s \in Seq(ToSet(s))
    BY NothingIsNotEnough DEF Pays, FeeList
<1>2. Len(s) \in Nat \ {0} /\ 1 \in DOMAIN s
    BY <1>1
<1> QED
    BY <1>2 DEF ToSet, FeeList

\* The cells that Collect takes from a wallet that is large enough.
LEMMA CollectPays ==
    ASSUME NEW w, NEW live, FeeList(w, live), Enough(w, PayCapacity)
    PROVE  /\ FeeList(Collect(w, PayCapacity), live)
           /\ Pays(Collect(w, PayCapacity))
           /\ Leads(Collect(w, PayCapacity), w)
<1> DEFINE Prefix(m) == SubSeq(w, 1, m)
           need == PayCapacity + MinChange + Fee
           n == CHOOSE n \in 0..Len(w) :
                   /\ Enough(Prefix(n), PayCapacity)
                   /\ \A k \in 0..(n - 1) : ~Enough(Prefix(k), PayCapacity)
<1>1. w \in Seq(ToSet(w)) /\ Len(w) \in Nat
    BY DEF FeeList
<1>2. PICK m \in 0..Len(w) : Shortest(w, need, m)
    BY <1>1, ShortestExists DEF Enough
<1>3. /\ n \in 0..Len(w)
      /\ Enough(Prefix(n), PayCapacity)
      /\ \A k \in 0..(n - 1) : ~Enough(Prefix(k), PayCapacity)
    BY <1>2 DEF Shortest, Enough
<1>4. Collect(w, PayCapacity) = Prefix(n)
    BY DEF Collect
<1> HIDE DEF n
<1>5. n # 0
    <2>1. Prefix(0) = <<>>
        BY <1>1
    <2> QED
        BY <1>3, <2>1, NothingIsNotEnough
<1>6. FeeList(Prefix(n), live) /\ Len(Prefix(n)) = n
    BY <1>3, FeeListPrefix
<1>7. Pays(Prefix(n))
    <2>1. \A k \in 0..(n - 1) : SubSeq(Prefix(n), 1, k) = Prefix(k)
        BY <1>1, <1>3
    <2> QED
        BY <1>3, <1>6, <2>1 DEF Pays
<1>8. Leads(Prefix(n), w)
    BY <1>1, <1>3, <1>5 DEF Leads
<1> QED
    BY <1>4, <1>6, <1>7, <1>8

\* The first cells of a wallet that are enough, and as few as that, are
\* always the same.
LEMMA PaymentsAgree ==
    ASSUME NEW w, NEW live, FeeList(w, live),
           NEW s, Leads(s, w), Pays(s),
           NEW t, Leads(t, w), Pays(t)
    PROVE  s = t
<1>1. w \in Seq(ToSet(w)) /\ Len(w) \in Nat
    BY DEF FeeList
<1>2. PICK m \in 1..Len(w) : s = SubSeq(w, 1, m)
    BY DEF Leads
<1>3. PICK n \in 1..Len(w) : t = SubSeq(w, 1, n)
    BY DEF Leads
<1>4. Len(s) = m /\ Len(t) = n
    BY <1>1, <1>2, <1>3
<1>5. ~(m < n)
    <2>1. m < n => SubSeq(t, 1, m) = s /\ m \in 0..(n - 1)
        BY <1>1, <1>2, <1>3
    <2> QED
        BY <1>4, <2>1 DEF Pays
<1>6. ~(n < m)
    <2>1. n < m => SubSeq(s, 1, n) = t /\ n \in 0..(m - 1)
        BY <1>1, <1>2, <1>3
    <2> QED
        BY <1>4, <2>1 DEF Pays
<1> QED
    BY <1>2, <1>3, <1>5, <1>6

------------------------------------------------------------------------------
(***************************************************************************)
(* Transactions and the verdict of the locks                               *)
(***************************************************************************)
LEMMA TargetIs ==
    ASSUME NEW p \in Spenders
    PROVE  LET target == Jobs[p].target IN
           /\ target \in Locked
           /\ target.lock # Sighash
           /\ Timelock(p) => target.lock.script = "timelock"
           /\ ~Timelock(p) => /\ target.lock.script = "simple"
                              /\ target.lock.argsLen = DigestSize
BY SpendAssumption DEF Timelock, Sighash

\* The inputs of a transaction are its target and then its fee cells.
LEMMA RawIs ==
    ASSUME NEW p \in Spenders, NEW s, NEW live, FeeList(s, live)
    PROVE  LET ins == Raw(p, s).inputs IN
           /\ Paid(Raw(p, s)) = s
           /\ DOMAIN ins = 1..(Len(s) + 1) /\ Len(s) \in Nat
           /\ ins # <<>>
           /\ ins[1] = Jobs[p].target
           /\ \A i \in 1..Len(s) : ins[i + 1] = s[i]
           /\ ToSet(ins) = {Jobs[p].target} \cup ToSet(s)
           /\ Raw(p, s).headers = <<>>
<1> DEFINE ins == Raw(p, s).inputs
           t == Jobs[p].target
           S == {t} \cup ToSet(s)
<1>1. ins = <<t>> \o s
    BY DEF Raw
<1>2. s \in Seq(ToSet(s))
    BY DEF FeeList
<1> HIDE DEF t
<1>3. <<t>> \in Seq(S) /\ s \in Seq(S) /\ Len(<<t>>) = 1
    BY <1>2
<1> HIDE DEF S
<1>4. /\ ins \in Seq(S) /\ Len(ins) = Len(s) + 1 /\ Len(s) \in Nat
      /\ ins[1] = t
      /\ \A i \in 1..Len(s) : ins[i + 1] = s[i]
    BY <1>1, <1>3
<1>5. Tail(ins) = s
    <2>1. Tail(ins) \in Seq(S) /\ Len(Tail(ins)) = Len(s)
          /\ \A i \in 1..Len(s) : Tail(ins)[i] = ins[i + 1]
        BY <1>4
    <2> HIDE DEF ins
    <2> QED
        BY <1>3, <1>4, <2>1, SeqEqual
<1>6. ToSet(ins) = {t} \cup ToSet(s)
    <2>1. DOMAIN ins = 1..(Len(s) + 1) /\ DOMAIN s = 1..Len(s)
        BY <1>3, <1>4
    <2>2. \A i \in DOMAIN ins : i = 1 \/ (i - 1 \in DOMAIN s /\ ins[i] = s[i - 1])
        <3>1. ASSUME NEW i \in 2..(Len(s) + 1)
              PROVE  i - 1 \in 1..Len(s) /\ ins[i] = s[i - 1]
            <4>1. i - 1 \in 1..Len(s) /\ (i - 1) + 1 = i
                BY <1>4
            <4> QED
                BY <1>4, <4>1
        <3>2. \A i \in 1..(Len(s) + 1) : i = 1 \/ i \in 2..(Len(s) + 1)
            BY <1>4
        <3> QED
            BY <2>1, <3>1, <3>2
    <2>3. 1 \in DOMAIN ins /\ \A i \in DOMAIN s : i + 1 \in DOMAIN ins
        BY <1>4, <2>1
    <2> HIDE DEF ins
    <2>4. \A c : c \in ToSet(ins) => c \in {t} \cup ToSet(s)
        BY <1>4, <2>2 DEF ToSet
    <2>5. \A i \in DOMAIN s : ins[i + 1] = s[i]
        BY <1>4, <2>1
    <2>6. \A c : c \in ToSet(s) => c \in ToSet(ins)
        BY <2>3, <2>5 DEF ToSet
    <2>7. t \in ToSet(ins)
        BY <1>4, <2>3 DEF ToSet
    <2> QED
        BY <2>4, <2>6, <2>7
<1>7. Raw(p, s).headers = <<>>
    BY DEF Raw
<1>8. ins # <<>> /\ DOMAIN ins = 1..(Len(s) + 1)
    BY <1>4
<1> QED
    BY <1>4, <1>5, <1>6, <1>7, <1>8 DEF Paid, t

\* What the two scripts say, by their checks: the preimage opens a
\* simple-lock, and nothing opens a timelock without a header dep.
LEMMA SimpleUnlocks ==
    ASSUME NEW v, v.script = "simple", v.argsLen = DigestSize,
           v.witness # NoWitness
    PROVE  Unlocks(v) <=> Blake2b[v.witness] = v.hash
<1> DEFINE fits == v.argsLen = DigestSize
           given == v.witness # NoWitness
           opens == given => Blake2b[v.witness] = v.hash
<1>1. Checks(v) = <<Check(InvalidArgsLength, fits),
                    Check(SimpleMissingWitness, given),
                    Check(HashMismatch, opens)>>
    BY DEF Checks, SimpleChecks
<1>2. fits = TRUE /\ given = TRUE /\ opens \in BOOLEAN
      /\ (opens <=> Blake2b[v.witness] = v.hash)
    OBVIOUS
<1> HIDE DEF fits, given, opens
<1>3. /\ DOMAIN Checks(v) = 1..3
      /\ Checks(v)[1].ok /\ Checks(v)[2].ok
      /\ Checks(v)[3].ok <=> opens
    BY <1>1, <1>2 DEF Check
<1>4. Unlocks(v) <=> Checks(v)[3].ok
    <2>1. \A i \in 1..3 : i = 1 \/ i = 2 \/ i = 3
        OBVIOUS
    <2> QED
        BY <1>3, <2>1 DEF Unlocks
<1> QED
    BY <1>2, <1>3, <1>4

LEMMA TimelockStaysLocked ==
    ASSUME NEW v, v.script = "timelock", v.header = NoHeader
    PROVE  ~Unlocks(v)
<1> DEFINE dated == v.header # NoHeader
<1>1. 3 \in DOMAIN Checks(v) /\ Checks(v)[3] = Check(IndexOutOfBound, dated)
    BY DEF Checks, TimelockChecks
<1>2. dated = FALSE
    OBVIOUS
<1> HIDE DEF dated
<1>3. ~Checks(v)[3].ok
    BY <1>1, <1>2 DEF Check
<1> QED
    BY <1>1, <1>3 DEF Unlocks

\* What the lock of the target sees of the transaction of a run.
LEMMA TargetView ==
    ASSUME NEW p \in Spenders, NEW live, FeeList(fees[p], live)
    PROVE  LET v == View(SignedTx(p), 1) IN
           /\ v.script = Jobs[p].target.lock.script
           /\ v.argsLen = Jobs[p].target.lock.argsLen
           /\ v.hash = Jobs[p].target.lock.hash
           /\ v.witness = Wire(p)
           /\ v.header = NoHeader
<1> DEFINE tx == SignedTx(p)
<1>1. tx.raw = Raw(p, fees[p])
      /\ tx.witnesses[1] = [of   |-> Jobs[p].target.lock.script,
                            wire |-> Wire(p)]
    BY DEF SignedTx
<1>2. tx.raw.inputs[1] = Jobs[p].target /\ tx.raw.headers = <<>>
    BY <1>1, RawIs
<1> HIDE DEF tx
<1> QED
    BY <1>1, <1>2 DEF View, tx

\* No locked cell is a fee cell.
LEMMA LockedIsNotFee ==
    ASSUME NEW s, NEW live, FeeList(s, live), NEW c \in Locked
    PROVE  c \notin ToSet(s)
<1>1. c.lock # Sighash
    <2>1. c.lock.script # "sighash"
        BY SpendAssumption
    <2> QED
        BY <2>1 DEF Sighash
<1>2. \A i \in DOMAIN s : s[i].lock = Sighash
    BY DEF FeeList, FeeCell
<1> QED
    BY <1>1, <1>2 DEF ToSet

\* A transaction that the node admits is of an entitled simple-lock run whose
\* fee cells are still the first of the wallet, and nothing else is pending.
LEMMA AdmittedIs ==
    ASSUME Inv, NEW p \in Spenders, pc[p] = "send", Admits(SignedTx(p))
    PROVE  /\ ~Timelock(p) /\ Entitled(p)
           /\ Jobs[p].target \in locked
           /\ Leads(fees[p], wallet)
           /\ pool = {}
<1> DEFINE tx == SignedTx(p)
           t == Jobs[p].target
           f == fees[p]
<1>1. /\ FeeList(f, locked) /\ Pays(f)
      /\ Leads(f, wallet) \/ Lost(f, wallet)
      /\ FeeList(wallet, locked)
      /\ locked \subseteq Locked
    BY DEF Inv, RunInv, RunOk, Payment, IsWallet
<1>2. tx.raw = Raw(p, f)
    BY DEF SignedTx
<1>3. /\ tx.raw.inputs[1] = t /\ 1 \in DOMAIN tx.raw.inputs
      /\ Inputs(tx) = {t} \cup ToSet(f)
    BY <1>1, <1>2, RawIs DEF Inputs
<1>4. Unspent(tx) /\ LocksOpen(tx) /\ WalletSigned(tx)
    BY DEF Admits
<1>5. t \in Locked /\ t.lock # Sighash
    BY TargetIs
<1> HIDE DEF tx
<1>6. Unlocks(View(tx, 1))
    BY <1>3, <1>4, <1>5 DEF LocksOpen
<1>7. ~Timelock(p)
    <2>1. CASE Timelock(p)
        <3>1. View(tx, 1).script = "timelock" /\ View(tx, 1).header = NoHeader
            BY <1>1, <2>1, TargetView, TargetIs DEF tx
        <3> QED
            BY <1>6, <3>1, TimelockStaysLocked
    <2> QED
        BY <2>1
\* The sighash lock has found its signature behind the target's witness.
<1>8. Jobs[p].address = "own"
    <2>1. PICK i \in DOMAIN tx.raw.inputs :
             /\ tx.raw.inputs[i].lock = Sighash
             /\ \A j \in 1..(i - 1) : tx.raw.inputs[j].lock # Sighash
             /\ tx.witnesses[i] = [of |-> "sighash", wire |-> tx.raw]
        BY <1>4 DEF WalletSigned
    <2>2. /\ DOMAIN tx.raw.inputs = 1..(Len(f) + 1) /\ Len(f) \in Nat \ {0}
          /\ tx.raw.inputs[2] = f[1] /\ f[1].lock = Sighash
        <3>1. Len(f) \in Nat \ {0}
            BY <1>1, PaysIsNotEmpty
        <3>2. f[1].lock = Sighash
            BY <1>1, <3>1 DEF FeeList, FeeCell
        <3>3. /\ DOMAIN tx.raw.inputs = 1..(Len(f) + 1)
              /\ \A k \in 1..Len(f) : tx.raw.inputs[k + 1] = f[k]
            <4> HIDE DEF f
            <4> QED
                BY <1>1, <1>2, RawIs
        <3> QED
            BY <3>1, <3>2, <3>3
    <2>3. i = 2
        <3>1. i # 1
            BY <1>3, <1>5, <2>1
        <3>2. ~(i > 2)
            BY <2>1, <2>2
        <3> QED
            BY <2>2, <3>1, <3>2
    <2>4. tx.witnesses[2] = FeeWitness(p)
        BY DEF tx, SignedTx
    <2>5. FeeWitness(p).of = "sighash"
        BY <2>1, <2>3, <2>4
    <2> QED
        BY <2>5 DEF FeeWitness
<1>9. Entitled(p)
    <2>1. Wire(p) = Jobs[p].secret /\ Wire(p) # NoWitness
        BY <1>7, SpendAssumption DEF Wire
    <2>2. /\ View(tx, 1).script = "simple"
          /\ View(tx, 1).argsLen = DigestSize
          /\ View(tx, 1).witness = Wire(p)
          /\ View(tx, 1).hash = t.lock.hash
        BY <1>1, <1>7, TargetView, TargetIs DEF tx
    <2>3. Blake2b[Wire(p)] = t.lock.hash
        BY <1>6, <2>1, <2>2, SimpleUnlocks
    <2>4. Jobs[p].idlMatches
        BY DEF Inv, RunInv, RunOk
    <2> QED
        BY <1>8, <2>1, <2>3, <2>4 DEF Entitled
<1>10. t \in locked
    <2>1. t \notin ToSet(wallet)
        BY <1>1, <1>5, LockedIsNotFee
    <2> QED
        BY <1>3, <1>4, <2>1 DEF Unspent
<1>11. Leads(f, wallet)
    <2>1. ASSUME NEW c \in ToSet(f)
          PROVE  c \in ToSet(wallet)
        <3>1. c \notin locked
            BY <1>1, LockedIsNotFee
        <3> QED
            BY <1>3, <1>4, <3>1 DEF Unspent
    <2> QED
        BY <1>1, <2>1 DEF Lost
<1>12. pool = {}
    <2> SUFFICES ASSUME NEW o \in pool
                 PROVE  FALSE
        OBVIOUS
    <2>1. PICK q \in Spenders :
             /\ o.raw = Raw(q, Paid(o.raw))
             /\ FeeList(Paid(o.raw), locked)
             /\ Pays(Paid(o.raw)) /\ Leads(Paid(o.raw), wallet)
        BY DEF Inv, PoolInv
    <2>2. Paid(o.raw) = f
        BY <1>1, <1>11, <2>1, PaymentsAgree
    <2>3. f[1] \in ToSet(f)
        BY <1>1, PaysIsNotEmpty
    <2>4. Inputs(o) = {Jobs[q].target} \cup ToSet(f)
        <3> DEFINE g == Paid(o.raw)
        <3>1. o.raw = Raw(q, g) /\ FeeList(g, locked) /\ g = f
            BY <2>1, <2>2
        <3> HIDE DEF g, f
        <3> QED
            BY <3>1, RawIs DEF Inputs
    <2>5. f[1] \in Inputs(o) \cap Inputs(tx)
        BY <1>3, <2>3, <2>4
    <2> QED
        BY <1>4, <2>5 DEF Unspent
<1> QED
    BY <1>7, <1>9, <1>10, <1>11, <1>12

\* An entitled simple-lock run is refused only for a cell that is gone.
LEMMA EntitledIsAdmitted ==
    ASSUME NEW p \in Spenders, ~Timelock(p), Entitled(p),
           FeeList(fees[p], locked), Pays(fees[p])
    PROVE  Admits(SignedTx(p)) <=> Unspent(SignedTx(p))
<1> DEFINE tx == SignedTx(p)
           t == Jobs[p].target
           f == fees[p]
           ins == tx.raw.inputs
<1>1. /\ tx.raw = Raw(p, f)
      /\ tx.witnesses[2] = [of |-> "sighash", wire |-> tx.raw]
    <2>1. Jobs[p].address = "own"
        BY DEF Entitled
    <2> QED
        BY <2>1 DEF SignedTx, FeeWitness
<1>2. /\ DOMAIN ins = 1..(Len(f) + 1) /\ Len(f) \in Nat \ {0}
      /\ ins[1] = t /\ t.lock # Sighash
      /\ \A i \in 1..Len(f) : ins[i + 1] = f[i]
      /\ \A i \in 1..Len(f) : f[i].lock = Sighash
    <2>1. \A i \in 1..Len(f) : f[i].lock = Sighash
        BY DEF FeeList, FeeCell
    <2> HIDE DEF f
    <2> QED
        BY <1>1, <2>1, RawIs, TargetIs, PaysIsNotEmpty DEF f
<1> HIDE DEF tx, f
<1>3. \A i \in DOMAIN ins : i # 1 => ins[i].lock = Sighash
    <2>1. ASSUME NEW i \in DOMAIN ins, i # 1
          PROVE  ins[i].lock = Sighash
        <3>1. i - 1 \in 1..Len(f) /\ (i - 1) + 1 = i
            BY <1>2, <2>1
        <3> QED
            BY <1>2, <3>1
    <2> QED
        BY <2>1
<1>4. WalletSigned(tx)
    <2>1. 2 \in DOMAIN ins /\ ins[2].lock = Sighash
        BY <1>2, <1>3
    <2>2. \A j \in 1..(2 - 1) : ins[j].lock # Sighash
        BY <1>2
    <2> QED
        BY <1>1, <2>1, <2>2 DEF WalletSigned
<1>5. Unlocks(View(tx, 1))
    <2>1. Wire(p) = Jobs[p].secret /\ Wire(p) # NoWitness
        BY SpendAssumption DEF Wire
    <2>2. /\ View(tx, 1).script = "simple"
          /\ View(tx, 1).argsLen = DigestSize
          /\ View(tx, 1).witness = Wire(p)
          /\ View(tx, 1).hash = t.lock.hash
        BY TargetView, TargetIs DEF tx
    <2>3. Blake2b[Wire(p)] = t.lock.hash
        BY <2>1 DEF Entitled
    <2> QED
        BY <2>1, <2>2, <2>3, SimpleUnlocks
<1>6. LocksOpen(tx)
    BY <1>3, <1>5 DEF LocksOpen
<1> QED
    BY <1>4, <1>6 DEF Admits, tx

------------------------------------------------------------------------------
(***************************************************************************)
(* What a commit does to the wallet                                        *)
(***************************************************************************)
\* A cell that a transaction with these inputs creates.
NewCell(ins, i, capacity) ==
    [lock |-> Sighash, capacity |-> capacity, from |-> <<ins, i>>]

\* A new cell remembers the locked cell that dies with its transaction: it is
\* known after the commit, and different from every cell known before.
LEMMA NewCellIsNew ==
    ASSUME NEW live, NEW t \in live, NEW ins, ins # <<>>, ins[1] = t,
           NEW i, NEW capacity \in Nat
    PROVE  /\ FeeCell(NewCell(ins, i, capacity), live \ {t})
           /\ ~Known(NewCell(ins, i, capacity), live)
<1> DEFINE c == NewCell(ins, i, capacity)
<1>1. c.lock = Sighash /\ c.capacity = capacity /\ c.from[1] = ins
    BY DEF NewCell
<1> HIDE DEF c
<1>2. FeeCell(c, live \ {t}) /\ ~Known(c, live)
    BY <1>1 DEF FeeCell, Known
<1> QED
    BY <1>2 DEF c

LEMMA KnownStays ==
    ASSUME NEW s, NEW live, FeeList(s, live), NEW live2, live2 \subseteq live
    PROVE  FeeList(s, live2)
BY DEF FeeList, FeeCell, Known

\* A wallet after a transaction: it has lost its first cell, what is new in it
\* was not known before, and it has paid and got so much.
Advances(w, w2, live, live2, paid, got) ==
    /\ IsWallet(w2, live2)
    /\ w[1] \notin ToSet(w2)
    /\ \A c \in ToSet(w2) : c \in ToSet(w) \/ ~Known(c, live)
    /\ Capacity(w2) = Capacity(w) - paid + got

LEMMA WalletAfter ==
    ASSUME NEW w, NEW live, IsWallet(w, live),
           NEW n \in 1..Len(w),
           NEW t \in live, NEW ins, ins # <<>>, ins[1] = t,
           NEW a \in Nat, NEW b \in Nat,
           NEW w2, w2 = After(w, n, <<NewCell(ins, 1, a),
                                      NewCell(ins, 2, b)>>)
    PROVE  Advances(w, w2, live, live \ {t}, Capacity(SubSeq(w, 1, n)), a + b)
<1> DEFINE c1 == NewCell(ins, 1, a)
           c2 == NewCell(ins, 2, b)
           two == <<c1, c2>>
           S == ToSet(w) \cup {c1, c2}
<1>1. /\ FeeCell(c1, live \ {t}) /\ ~Known(c1, live)
      /\ FeeCell(c2, live \ {t}) /\ ~Known(c2, live)
    BY NewCellIsNew
<1>2. c1.capacity = a /\ c2.capacity = b /\ c1 # c2
    <2>1. c1.from[2] = 1 /\ c2.from[2] = 2
        BY DEF NewCell
    <2>2. c1.capacity = a /\ c2.capacity = b
        BY DEF NewCell
    <2> HIDE DEF c1, c2
    <2> QED
        BY <2>1, <2>2
<1>3. w2 = After(w, n, two)
    OBVIOUS
<1> HIDE DEF c1, c2
<1>4. /\ FeeList(w, live) /\ FeeList(w, live \ {t}) /\ IsInjective(w)
      /\ w \in Seq(ToSet(w)) /\ w \in Seq(S) /\ n \in 0..Len(w)
    <2>1. FeeList(w, live) /\ IsInjective(w) /\ w \in Seq(ToSet(w))
        BY DEF IsWallet, FeeList
    <2>2. FeeList(w, live \ {t})
        BY <2>1, KnownStays
    <2> QED
        BY <2>1, <2>2
<1>5. two \in Seq(S) /\ IsInjective(two) /\ ToSet(two) = {c1, c2}
    <2>1. DOMAIN two = {1, 2} /\ two[1] = c1 /\ two[2] = c2
        OBVIOUS
    <2>2. two \in Seq(S)
        OBVIOUS
    <2> HIDE DEF two, S
    <2> QED
        BY <1>2, <2>1, <2>2 DEF IsInjective, ToSet
<1>6. ToSet(w) \cap ToSet(two) = {}
    <2>1. \A c \in ToSet(w) : Known(c, live)
        BY <1>4 DEF FeeList, FeeCell, ToSet
    <2> QED
        BY <1>1, <1>5, <2>1
<1> HIDE DEF two, S
<1>7. /\ IsInjective(w2) /\ w2 \in Seq(ToSet(w2))
      /\ ToSet(w2) \subseteq ToSet(w) \cup {c1, c2}
      /\ w[1] \notin ToSet(w2)
    <2> DEFINE r == After(w, n, two)
    <2>1. /\ IsInjective(r) /\ r \in Seq(ToSet(r))
          /\ ToSet(r) \subseteq ToSet(w) \cup ToSet(two)
          /\ w[1] \notin ToSet(r)
        BY <1>4, <1>5, <1>6, AfterInjective
    <2>2. w2 = r
        BY <1>3
    <2> HIDE DEF r
    <2> QED
        BY <1>5, <2>1, <2>2
<1>8. IsWallet(w2, live \ {t})
    <2>1. \A c \in ToSet(w2) : FeeCell(c, live \ {t})
        BY <1>1, <1>4, <1>7 DEF FeeList, ToSet
    <2> QED
        BY <1>7, <2>1 DEF IsWallet, FeeList, ToSet
<1>9. Capacity(w2) = Capacity(w) - Capacity(SubSeq(w, 1, n)) + (a + b)
    <2>1. WithCapacity(S)
        <3>1. \A c \in ToSet(w) : c.capacity \in Nat
            BY <1>4 DEF FeeList, FeeCell, ToSet
        <3> QED
            BY <1>2, <3>1 DEF WithCapacity, S
    <2>2. Capacity(two) = a + b
        BY <1>2, CapacityTwo DEF two
    <2> QED
        BY <1>3, <1>4, <1>5, <2>1, <2>2, AfterCapacity
<1>10. \A c \in ToSet(w2) : c \in ToSet(w) \/ ~Known(c, live)
    BY <1>1, <1>7
<1> QED
    BY <1>7, <1>8, <1>9, <1>10 DEF Advances

\* Whatever a run has collected before a commit is lost after it: the first
\* cell of the wallet is gone, and what was lost before is no new cell.
LEMMA PaymentAfter ==
    ASSUME NEW w, NEW live, IsWallet(w, live),
           NEW live2, live2 \subseteq live,
           NEW w2, NEW paid, NEW got, Advances(w, w2, live, live2, paid, got),
           NEW s, Payment(s, w, live)
    PROVE  Payment(s, w2, live2) /\ Lost(s, w2)
<1>1. FeeList(s, live) /\ Pays(s) /\ (Leads(s, w) \/ Lost(s, w))
    BY DEF Payment
<1>2. Lost(s, w2)
    <2>1. CASE Leads(s, w)
        <3>1. s[1] \in ToSet(s)
            BY <1>1, PaysIsNotEmpty
        <3>2. s[1] = w[1]
            <4>1. w \in Seq(ToSet(w))
                BY DEF IsWallet, FeeList
            <4> QED
                BY <2>1, <4>1, LeadsIs
        <3> QED
            BY <3>1, <3>2 DEF Lost, Advances
    <2>2. CASE Lost(s, w)
        <3>1. PICK c \in ToSet(s) : c \notin ToSet(w)
            BY <2>2 DEF Lost
        <3>2. Known(c, live)
            BY <1>1, <3>1 DEF FeeList, FeeCell, ToSet
        <3> QED
            BY <3>1, <3>2 DEF Lost, Advances
    <2> QED
        BY <1>1, <2>1, <2>2
<1> QED
    BY <1>1, <1>2, KnownStays DEF Payment

\* What the node does to the cells of the run whose transaction it commits.
CommitsRun(p, n) ==
    LET f   == SubSeq(wallet, 1, n)
        ins == Raw(p, f).inputs
    IN  /\ Entitled(p) /\ ~Timelock(p) /\ Jobs[p].target \in locked
        /\ FeeList(f, locked) /\ Pays(f)
        /\ pool' = {}
        /\ locked' = locked \ {Jobs[p].target}
        /\ wallet' = After(wallet, n,
                           <<NewCell(ins, 1, PayCapacity),
                             NewCell(ins, 2, Change(f, PayCapacity))>>)

LEMMA CommitIs ==
    ASSUME Inv, Commit
    PROVE  \E p \in Spenders, n \in 1..Len(wallet) : CommitsRun(p, n)
<1>1. PICK tx \in pool :
         /\ pool' = pool \ {tx}
         /\ locked' = locked \ Inputs(tx)
         /\ wallet' = Remaining(wallet, Inputs(tx)) \o OutputCells(tx)
    BY DEF Commit
<1>2. PICK p \in Spenders :
         /\ Entitled(p) /\ ~Timelock(p)
         /\ Jobs[p].target \in locked
         /\ tx.raw = Raw(p, Paid(tx.raw))
         /\ FeeList(Paid(tx.raw), locked)
         /\ Pays(Paid(tx.raw))
         /\ Leads(Paid(tx.raw), wallet)
    BY DEF Inv, PoolInv
<1> DEFINE f == Paid(tx.raw)
           t == Jobs[p].target
<1>3. PICK n \in 1..Len(wallet) : f = SubSeq(wallet, 1, n)
    BY <1>2 DEF Leads
<1>4. /\ tx.raw = Raw(p, f) /\ FeeList(f, locked) /\ Pays(f)
      /\ t \in locked /\ locked \subseteq Locked
      /\ IsWallet(wallet, locked) /\ FeeList(wallet, locked)
      /\ \A u \in pool : u = tx
    BY <1>2 DEF Inv, PoolInv, IsWallet
<1> HIDE DEF f, t
<1>5. Inputs(tx) = {t} \cup ToSet(f)
    BY <1>4, RawIs DEF Inputs, t
<1>6. pool' = {}
    BY <1>1, <1>4
<1>7. locked' = locked \ {t}
    <2>1. \A c \in locked : c \notin ToSet(f)
        BY <1>4, LockedIsNotFee
    <2> QED
        BY <1>1, <1>5, <2>1
<1>8. /\ wallet \in Seq(ToSet(wallet)) /\ Len(wallet) \in Nat
      /\ DOMAIN wallet = 1..Len(wallet)
      /\ \A i, j \in 1..Len(wallet) : wallet[i] = wallet[j] => i = j
    BY <1>4 DEF IsWallet, FeeList, IsInjective
<1>9. DOMAIN f = 1..n /\ \A i \in 1..n : f[i] = wallet[i]
    BY <1>3, <1>8
<1>10. Remaining(wallet, Inputs(tx)) = SubSeq(wallet, n + 1, Len(wallet))
    <2>1. \A i \in 1..n : wallet[i] \in Inputs(tx)
        BY <1>5, <1>9 DEF ToSet
    <2>2. ASSUME NEW i \in (n + 1)..Len(wallet)
          PROVE  wallet[i] \notin Inputs(tx)
        <3>1. wallet[i] # t
            <4>1. i \in DOMAIN wallet
                BY <1>8
            <4>2. t \notin ToSet(wallet)
                BY <1>4, LockedIsNotFee
            <4> QED
                BY <4>1, <4>2 DEF ToSet
        <3>2. \A j \in 1..n : wallet[j] # wallet[i]
            BY <1>8
        <3> QED
            BY <1>5, <1>9, <3>1, <3>2 DEF ToSet
    <2>3. n \in 0..Len(wallet)
        BY <1>8
    <2> QED
        BY <1>8, <2>1, <2>2, <2>3, RemainingAfterPrefix
<1>11. OutputCells(tx) = <<NewCell(tx.raw.inputs, 1, PayCapacity),
                           NewCell(tx.raw.inputs, 2, Change(f, PayCapacity))>>
    <2> DEFINE outs == tx.raw.outputs
    <2>1. outs = <<[lock |-> Sighash, capacity |-> PayCapacity],
                   [lock |-> Sighash, capacity |-> Change(f, PayCapacity)]>>
        BY <1>4 DEF Raw
    <2>2. /\ DOMAIN outs = 1..2
          /\ outs[1].lock = Sighash /\ outs[1].capacity = PayCapacity
          /\ outs[2].lock = Sighash
          /\ outs[2].capacity = Change(f, PayCapacity)
        BY <2>1
    <2> HIDE DEF outs
    <2>3. OutputCells(tx) =
             [i \in 1..2 |-> [lock     |-> outs[i].lock,
                              capacity |-> outs[i].capacity,
                              from     |-> <<tx.raw.inputs, i>>]]
        BY <2>2 DEF OutputCells, outs
    <2> QED
        BY <2>2, <2>3 DEF NewCell
<1>12. CommitsRun(p, n)
    <2>1. wallet' = SubSeq(wallet, n + 1, Len(wallet))
                       \o <<NewCell(tx.raw.inputs, 1, PayCapacity),
                            NewCell(tx.raw.inputs, 2, Change(f, PayCapacity))>>
        BY <1>1, <1>10, <1>11
    <2> QED
        BY <1>2, <1>3, <1>4, <1>6, <1>7, <2>1 DEF CommitsRun, After, t
<1> QED
    BY <1>12

------------------------------------------------------------------------------
(***************************************************************************)
(* Every step preserves the invariant                                      *)
(***************************************************************************)
LEMMA CommitStep ==
    ASSUME Inv, Commit
    PROVE  Inv'
<1>1. PICK p \in Spenders, n \in 1..Len(wallet) : CommitsRun(p, n)
    BY CommitIs
<1> DEFINE f == SubSeq(wallet, 1, n)
           ins == Raw(p, f).inputs
           t == Jobs[p].target
           change == Change(f, PayCapacity)
<1>2. /\ Entitled(p) /\ ~Timelock(p)
      /\ t \in locked /\ FeeList(f, locked) /\ Pays(f)
      /\ pool' = {} /\ locked' = locked \ {t}
      /\ wallet' = After(wallet, n, <<NewCell(ins, 1, PayCapacity),
                                      NewCell(ins, 2, change)>>)
      /\ UNCHANGED <<pc, draft, fees, crashes>>
    BY <1>1 DEF CommitsRun, Commit
<1>3. ins # <<>> /\ ins[1] = t
    <2> HIDE DEF f
    <2> QED
        BY <1>2, RawIs
<1>4. IsWallet(wallet, locked) /\ locked \subseteq Locked
    BY DEF Inv
<1>5. /\ Capacity(f) \in Nat /\ Fee \in Nat
      /\ change = Capacity(f) - PayCapacity - Fee
      /\ change \in Nat /\ PayCapacity \in Nat
    <2> HIDE DEF f
    <2>1. Capacity(f) \in Nat /\ Enough(f, PayCapacity)
        BY <1>2, FeeListCapacity DEF Pays
    <2> QED
        BY <2>1, FeeAssumption DEF Enough, Change, PayCapacity, MinChange
<1> HIDE DEF ins, t, change
<1>6. Advances(wallet, wallet', locked, locked', Capacity(f),
               PayCapacity + change)
    BY <1>2, <1>3, <1>4, <1>5, WalletAfter
<1>7. IsWallet(wallet', locked')
      /\ Capacity(wallet')
            = Capacity(wallet) - Capacity(f) + (PayCapacity + change)
    BY <1>6 DEF Advances
<1>8. \A s : Payment(s, wallet, locked) =>
                Payment(s, wallet', locked') /\ Lost(s, wallet')
    <2>1. locked' \subseteq locked
        BY <1>2
    <2> QED
        BY <1>4, <1>6, <2>1, PaymentAfter
<1>9. ASSUME NEW q \in Spenders
      PROVE  RunOk(q)' /\ DraftOk(q)'
    <2>1. RunOk(q) /\ DraftOk(q)
        BY DEF Inv, RunInv
    <2>2. RunOk(q)'
        BY <1>2, <1>8, <2>1 DEF RunOk, Entitled, Timelock
    <2>3. DraftOk(q)'
        BY <1>2, <1>8, <2>1 DEF DraftOk, Timelock, Raw
    <2> QED
        BY <2>2, <2>3
<1>10. RunInv'
    BY <1>9 DEF RunInv
<1>11. PoolInv'
    BY <1>2 DEF PoolInv
<1>12. SpentInv'
    <2>1. SpentInv
        BY DEF Inv
    <2>2. ASSUME NEW c \in Locked \ locked'
          PROVE  \E q \in Spenders :
                    Entitled(q) /\ ~Timelock(q) /\ Jobs[q].target = c
        <3>1. CASE c = t
            BY <1>2, <3>1 DEF t
        <3>2. CASE c # t
            BY <1>2, <2>1, <3>2 DEF SpentInv
        <3> QED
            BY <3>1, <3>2
    <2> QED
        BY <2>2 DEF SpentInv, Entitled, Timelock
<1>13. OneFeePerCell'
    <2> DEFINE D == Locked \ locked
    <2>1. Locked \ locked' = D \cup {t} /\ t \notin D
        BY <1>2, <1>4
    <2>2. IsFiniteSet(D)
        BY SpendAssumption, FS_Subset
    <2>3. Cardinality(D \cup {t}) = Cardinality(D) + 1
        BY <2>1, <2>2, FS_AddElement
    <2>4. Cardinality(D) \in Nat
        BY <2>2, FS_CardinalityType
    <2>5. Capacity(wallet) = Capacity(Wallet) - Fee * Cardinality(D)
        BY DEF Inv, OneFeePerCell
    <2>6. Capacity(Wallet) \in Nat
        BY SpendAssumption, CapacityType DEF WithCapacity, ToSet
    <2> HIDE DEF D, f
    <2>7. Capacity(wallet') = Capacity(wallet) - Fee
        <3>1. Capacity(wallet) \in Nat
            BY <1>4, FeeListCapacity DEF IsWallet
        <3> QED
            BY <1>5, <1>7, <3>1
    <2>8. Capacity(wallet')
             = Capacity(Wallet) - Fee * (Cardinality(D) + 1)
        BY <1>5, <2>4, <2>5, <2>6, <2>7
    <2> QED
        BY <2>1, <2>3, <2>8 DEF OneFeePerCell
<1>14. /\ locked' \subseteq Locked
       /\ IsWallet(wallet', locked')
       /\ pc' \in [Spenders -> Stages]
       /\ crashes' \in 0..MaxCrashes
       /\ DOMAIN draft' = Spenders /\ DOMAIN fees' = Spenders
    BY <1>2, <1>4, <1>7 DEF Inv
<1> QED
    BY <1>10, <1>11, <1>12, <1>13, <1>14 DEF Inv

\* What the steps of one run leave alone.
LEMMA RunLeavesChain ==
    ASSUME Inv, UNCHANGED <<wallet, locked>>
    PROVE  /\ locked' \subseteq Locked
           /\ IsWallet(wallet', locked')
           /\ SpentInv'
           /\ OneFeePerCell'
BY DEF Inv, SpentInv, OneFeePerCell, Entitled, Timelock

LEMMA RunLeavesPool ==
    ASSUME Inv, UNCHANGED <<wallet, locked, pool>>
    PROVE  PoolInv'
BY DEF Inv, PoolInv, Entitled, Timelock, Raw

\* A step of one run leaves the others where they are.
Alone(p) ==
    /\ \E stage \in Stages : Goto(p, stage)
    /\ \/ UNCHANGED draft
       \/ \E d : draft' = [draft EXCEPT ![p] = d]
    /\ \/ UNCHANGED fees
       \/ \E f : fees' = [fees EXCEPT ![p] = f]

LEMMA OthersOk ==
    ASSUME Inv, NEW p \in Spenders, Alone(p), UNCHANGED <<wallet, locked>>,
           RunOk(p)', DraftOk(p)'
    PROVE  /\ pc' \in [Spenders -> Stages]
           /\ DOMAIN draft' = Spenders /\ DOMAIN fees' = Spenders
           /\ RunInv'
<1>1. /\ pc \in [Spenders -> Stages] /\ RunInv
      /\ DOMAIN draft = Spenders /\ DOMAIN fees = Spenders
    BY DEF Inv
<1>2. /\ pc' \in [Spenders -> Stages]
      /\ DOMAIN draft' = Spenders /\ DOMAIN fees' = Spenders
    BY <1>1 DEF Alone, Goto
<1>3. ASSUME NEW q \in Spenders, q # p
      PROVE  RunOk(q)' /\ DraftOk(q)'
    <2>1. pc'[q] = pc[q] /\ draft'[q] = draft[q] /\ fees'[q] = fees[q]
        BY <1>1, <1>3 DEF Alone, Goto
    <2>2. RunOk(q) /\ DraftOk(q)
        BY <1>1 DEF RunInv
    <2> QED
        BY <2>1, <2>2 DEF RunOk, DraftOk, Entitled, Timelock, Raw
<1>4. RunInv'
    BY <1>3 DEF RunInv
<1> QED
    BY <1>2, <1>4

\* A process that ends without sending anything leaves the rest as it is.
LEMMA FailedOk ==
    ASSUME Inv, NEW p \in Spenders, Exit(p, "failed"),
           UNCHANGED <<wallet, locked, pool>>, crashes' \in 0..MaxCrashes
    PROVE  Inv'
<1>1. pc'[p] = "failed"
    BY DEF Exit, Goto, Inv
<1>2. RunOk(p)' /\ DraftOk(p)'
    BY <1>1 DEF RunOk, DraftOk
<1>3. Alone(p)
    BY DEF Alone, Stages, Exit
<1> QED
    BY <1>2, <1>3, OthersOk, RunLeavesChain, RunLeavesPool DEF Inv

LEMMA VerifyStep ==
    ASSUME Inv, NEW p \in Spenders, Verify(p)
    PROVE  Inv'
<1>1. UNCHANGED <<wallet, locked, pool, crashes>> /\ crashes \in 0..MaxCrashes
    BY DEF Verify, Inv
<1>2. CASE /\ Verified(p)
           /\ Goto(p, IF Timelock(p) THEN "draft" ELSE "balance")
           /\ UNCHANGED <<draft, fees>>
    <2>1. pc'[p] = IF Timelock(p) THEN "draft" ELSE "balance"
        BY <1>2 DEF Goto, Inv
    <2>2. RunOk(p)' /\ DraftOk(p)'
        BY <1>2, <2>1 DEF RunOk, DraftOk, Verified, Timelock
    <2>3. Alone(p)
        BY <1>1, <1>2 DEF Alone, Stages
    <2> QED
        BY <1>1, <2>2, <2>3, OthersOk, RunLeavesChain, RunLeavesPool DEF Inv
<1>3. CASE Exit(p, "failed")
    BY <1>1, <1>3, FailedOk
<1> QED
    BY <1>2, <1>3 DEF Verify

LEMMA BuildDraftStep ==
    ASSUME Inv, NEW p \in Spenders, BuildDraft(p)
    PROVE  Inv'
<1> DEFINE cells == Collect(wallet, PayCapacity)
<1>1. /\ UNCHANGED <<wallet, locked, pool, crashes>>
      /\ crashes \in 0..MaxCrashes
      /\ Jobs[p].idlMatches
    BY DEF BuildDraft, Inv, RunInv, RunOk
<1>2. CASE /\ Enough(wallet, PayCapacity)
           /\ draft' = [draft EXCEPT ![p] = Draft(p)]
           /\ Goto(p, "balance")
           /\ UNCHANGED fees
    <2>1. pc'[p] = "balance" /\ draft'[p] = Raw(p, cells)
        BY <1>2 DEF Goto, Inv, Draft, Collected
    <2>2. FeeList(wallet, locked)
        BY DEF Inv, IsWallet
    <2>3. FeeList(cells, locked) /\ Pays(cells) /\ Leads(cells, wallet)
        BY <1>2, <2>2, CollectPays
    <2> HIDE DEF cells
    <2>4. Paid(Raw(p, cells)) = cells
        BY <2>3, RawIs
    <2>5. Payment(cells, wallet', locked')
        BY <1>1, <2>3 DEF Payment
    <2>6. RunOk(p)' /\ DraftOk(p)'
        BY <1>1, <2>1, <2>4, <2>5 DEF RunOk, DraftOk
    <2>7. Alone(p)
        BY <1>1, <1>2 DEF Alone, Stages
    <2> QED
        BY <1>1, <2>6, <2>7, OthersOk, RunLeavesChain, RunLeavesPool DEF Inv
<1>3. CASE Exit(p, "failed")
    BY <1>1, <1>3, FailedOk
<1> QED
    BY <1>2, <1>3 DEF BuildDraft, CanPay

LEMMA BalanceStep ==
    ASSUME Inv, NEW p \in Spenders, Balance(p)
    PROVE  Inv'
<1> DEFINE cells == Collect(wallet, PayCapacity)
<1>1. /\ UNCHANGED <<wallet, locked, pool, crashes>>
      /\ crashes \in 0..MaxCrashes
      /\ pc[p] = "balance"
      /\ Jobs[p].idlMatches
    BY DEF Balance, Inv, RunInv, RunOk
<1>2. CASE /\ Enough(wallet, PayCapacity)
           /\ fees' = [fees EXCEPT ![p] = Collected(p)]
           /\ Goto(p, "send")
           /\ UNCHANGED draft
    <2>1. pc'[p] = "send" /\ fees'[p] = cells
        BY <1>2 DEF Goto, Inv, Collected
    <2>2. FeeList(wallet, locked)
        BY DEF Inv, IsWallet
    <2>3. FeeList(cells, locked) /\ Pays(cells) /\ Leads(cells, wallet)
        BY <1>2, <2>2, CollectPays
    <2> HIDE DEF cells
    <2>4. RunOk(p)'
        BY <1>1, <2>1, <2>3 DEF RunOk, Payment
    <2>5. DraftOk(p)'
        <3> SUFFICES ASSUME Timelock(p)
                     PROVE  /\ draft[p] = Raw(p, Paid(draft[p]))
                            /\ Payment(Paid(draft[p]), wallet, locked)
                            /\ \/ draft[p] = Raw(p, cells)
                               \/ Lost(Paid(draft[p]), wallet)
            BY <1>1, <1>2, <2>1 DEF DraftOk, Timelock, Raw
        <3>1. /\ draft[p] = Raw(p, Paid(draft[p]))
              /\ Payment(Paid(draft[p]), wallet, locked)
            BY <1>1 DEF Inv, RunInv, DraftOk
        <3>2. Leads(Paid(draft[p]), wallet) => Paid(draft[p]) = cells
            BY <2>2, <2>3, <3>1, PaymentsAgree DEF Payment
        <3> QED
            BY <3>1, <3>2 DEF Payment
    <2>6. Alone(p)
        BY <1>1, <1>2 DEF Alone, Stages
    <2> QED
        BY <1>1, <2>4, <2>5, <2>6, OthersOk, RunLeavesChain, RunLeavesPool
        DEF Inv
<1>3. CASE Exit(p, "failed")
    BY <1>1, <1>3, FailedOk
<1> QED
    BY <1>2, <1>3 DEF Balance, CanPay

LEMMA SendStep ==
    ASSUME Inv, NEW p \in Spenders, Send(p)
    PROVE  Inv'
<1> DEFINE tx == SignedTx(p)
           f == fees[p]
<1>1. /\ UNCHANGED <<wallet, locked, crashes>> /\ pc[p] = "send"
      /\ crashes \in 0..MaxCrashes
    BY DEF Send, Inv
<1>2. CASE /\ Admits(tx)
           /\ pool' = pool \cup {tx}
           /\ Exit(p, "reported") \/ Exit(p, "failed")
    <2>1. /\ ~Timelock(p) /\ Entitled(p) /\ Jobs[p].target \in locked
          /\ Leads(f, wallet) /\ pool = {}
        BY <1>1, <1>2, AdmittedIs
    <2>2. FeeList(f, locked) /\ Pays(f)
        BY <1>1 DEF Inv, RunInv, RunOk, Payment
    <2>3. tx.raw = Raw(p, f)
        BY DEF SignedTx
    <2>4. Paid(tx.raw) = f
        <3> HIDE DEF f
        <3> QED
            BY <2>2, <2>3, RawIs
    <2>5. pool' = {tx}
        BY <1>2, <2>1
    <2> HIDE DEF tx, f
    <2>6. PoolInv'
        <3> SUFFICES \E q \in Spenders :
                        /\ Entitled(q) /\ ~Timelock(q)
                        /\ Jobs[q].target \in locked
                        /\ tx.raw = Raw(q, Paid(tx.raw))
                        /\ FeeList(Paid(tx.raw), locked)
                        /\ Pays(Paid(tx.raw))
                        /\ Leads(Paid(tx.raw), wallet)
            BY <1>1, <2>5 DEF PoolInv, Entitled, Timelock, Raw
        <3> QED
            BY <2>1, <2>2, <2>3, <2>4
    <2>7. pc'[p] \in {"reported", "failed"} /\ Jobs[p].idlMatches
        BY <1>1, <1>2 DEF Exit, Goto, Inv, RunInv, RunOk
    <2>8. RunOk(p)' /\ DraftOk(p)'
        BY <2>1, <2>7 DEF RunOk, DraftOk, Entitled, Timelock
    <2>9. Alone(p)
        BY <1>1, <1>2 DEF Alone, Stages, Exit
    <2> QED
        BY <1>1, <2>6, <2>8, <2>9, OthersOk, RunLeavesChain DEF Inv
<1>3. CASE Exit(p, "failed") /\ UNCHANGED pool
    BY <1>1, <1>3, FailedOk
<1> QED
    BY <1>2, <1>3 DEF Send

LEMMA DieStep ==
    ASSUME Inv, NEW p \in Spenders, Die(p)
    PROVE  Inv'
<1>1. UNCHANGED <<wallet, locked, pool>> /\ Exit(p, "failed")
    BY DEF Die
<1>2. crashes' \in 0..MaxCrashes
    BY SpendAssumption DEF Die, Inv
<1> QED
    BY <1>1, <1>2, FailedOk

LEMMA RerunStep ==
    ASSUME Inv, NEW p \in Spenders, Rerun(p)
    PROVE  Inv'
<1>1. UNCHANGED <<wallet, locked, pool, draft, fees, crashes>> /\ Goto(p, "verify")
    BY DEF Rerun
<1>2. pc'[p] = "verify"
    BY <1>1 DEF Goto, Inv
<1>3. RunOk(p)' /\ DraftOk(p)'
    BY <1>2 DEF RunOk, DraftOk
<1>4. Alone(p)
    BY <1>1 DEF Alone, Stages
<1> QED
    BY <1>1, <1>3, <1>4, OthersOk, RunLeavesChain, RunLeavesPool DEF Inv

LEMMA InvInit == Init => Inv
<1> SUFFICES ASSUME Init
             PROVE  Inv
    OBVIOUS
<1>1. /\ wallet = Wallet /\ locked = Locked /\ pool = {} /\ crashes = 0
      /\ pc = [p \in Spenders |-> "verify"]
      /\ DOMAIN draft = Spenders /\ DOMAIN fees = Spenders
    BY DEF Init
<1>2. IsWallet(wallet, locked)
    <2>1. \A i \in DOMAIN Wallet : Wallet[i].from[1] = <<>>
                                   /\ Wallet[i].from[2] = i
        BY SpendAssumption
    <2>2. FeeList(Wallet, Locked)
        BY <2>1, SpendAssumption DEF FeeList, FeeCell, Known
    <2>3. \A i, j \in DOMAIN Wallet : Wallet[i] = Wallet[j] => i = j
        BY <2>1
    <2> QED
        BY <1>1, <2>2, <2>3 DEF IsWallet, IsInjective
<1>3. RunInv
    BY <1>1 DEF RunInv, RunOk, DraftOk
<1>4. PoolInv /\ SpentInv
    BY <1>1 DEF PoolInv, SpentInv
<1>5. OneFeePerCell
    <2>1. Locked \ locked = {}
        BY <1>1
    <2>2. Cardinality({}) = 0
        BY FS_EmptySet
    <2>3. Capacity(Wallet) \in Nat
        BY SpendAssumption, CapacityType DEF WithCapacity, ToSet
    <2>4. Fee * 0 = 0
        BY FeeAssumption
    <2> QED
        BY <1>1, <2>1, <2>2, <2>3, <2>4 DEF OneFeePerCell
<1>6. pc \in [Spenders -> Stages] /\ crashes \in 0..MaxCrashes
    BY <1>1, SpendAssumption DEF Stages
<1> QED
    BY <1>1, <1>2, <1>3, <1>4, <1>5, <1>6 DEF Inv

LEMMA InvStep == Inv /\ [Next]_vars => Inv'
<1> SUFFICES ASSUME Inv, [Next]_vars
             PROVE  Inv'
    OBVIOUS
<1>1. CASE UNCHANGED vars
    <2>1. UNCHANGED <<wallet, locked, pool, pc, draft, fees, crashes>>
        BY <1>1 DEF vars
    <2>2. ASSUME NEW p \in Spenders
          PROVE  RunOk(p)' /\ DraftOk(p)'
        <3>1. RunOk(p) /\ DraftOk(p)
            BY DEF Inv, RunInv
        <3> QED
            BY <2>1, <3>1 DEF RunOk, DraftOk, Entitled, Timelock, Raw
    <2>3. RunInv'
        BY <2>2 DEF RunInv
    <2> QED
        BY <2>1, <2>3, RunLeavesChain, RunLeavesPool DEF Inv
<1>2. CASE Commit
    BY <1>2, CommitStep
<1>3. ASSUME NEW p \in Spenders, Run(p)
      PROVE  Inv'
    BY <1>3, VerifyStep, BuildDraftStep, BalanceStep, SendStep DEF Run
<1>4. ASSUME NEW p \in Spenders, Die(p)
      PROVE  Inv'
    BY <1>4, DieStep
<1>5. ASSUME NEW p \in Spenders, Rerun(p)
      PROVE  Inv'
    BY <1>5, RerunStep
<1> QED
    BY <1>1, <1>2, <1>3, <1>4, <1>5 DEF Next

LEMMA InvAlways == Spec => []Inv
BY InvInit, InvStep, PTL DEF Spec

------------------------------------------------------------------------------
(***************************************************************************)
(* What follows                                                            *)
(***************************************************************************)
LEMMA PendingIs ==
    ASSUME Inv, NEW tx \in pool
    PROVE  \E p \in Spenders :
              /\ Entitled(p) /\ Jobs[p].target \in locked
              /\ Inputs(tx) = {Jobs[p].target} \cup ToSet(Paid(tx.raw))
              /\ ToSet(Paid(tx.raw)) \subseteq ToSet(wallet)
<1> DEFINE f == Paid(tx.raw)
<1>1. PICK p \in Spenders :
         /\ Entitled(p) /\ Jobs[p].target \in locked
         /\ tx.raw = Raw(p, f) /\ FeeList(f, locked) /\ Leads(f, wallet)
    BY DEF Inv, PoolInv
<1> HIDE DEF f
<1>2. Inputs(tx) = {Jobs[p].target} \cup ToSet(f)
    BY <1>1, RawIs DEF Inputs
<1>3. ToSet(f) \subseteq ToSet(wallet)
    <2>1. FeeList(wallet, locked) /\ wallet \in Seq(ToSet(wallet))
        BY DEF Inv, IsWallet, FeeList
    <2>2. PICK n \in 1..Len(wallet) : f = SubSeq(wallet, 1, n)
        BY <1>1 DEF Leads
    <2>3. n \in 0..Len(wallet)
        BY <2>1
    <2> QED
        BY <2>1, <2>2, <2>3, FeeListPrefix
<1> QED
    BY <1>1, <1>2, <1>3 DEF f

\* Every variable has its type, what is pending can still be committed, and a
\* run that sends has collected enough fee cells: spend_locked_cell's balancer
\* (spend.rs:101-116) returns an error otherwise.
THEOREM TypeCorrect == Spec => []TypeOK
<1>1. Inv => TypeOK
    <2> SUFFICES ASSUME Inv
                 PROVE  TypeOK
        OBVIOUS
    <2>1. \A i \in DOMAIN wallet :
             wallet[i].lock = Sighash /\ wallet[i].capacity \in Nat
        BY DEF Inv, IsWallet, FeeList, FeeCell
    <2>2. \A tx \in pool : Inputs(tx) \subseteq ToSet(wallet) \cup locked
        BY PendingIs
    <2>3. \A p \in Spenders : pc[p] = "send" => Enough(fees[p], PayCapacity)
        BY DEF Inv, RunInv, RunOk, Payment, Pays
    <2> QED
        BY <2>1, <2>2, <2>3 DEF Inv, TypeOK
<1> QED
    BY <1>1, InvAlways, PTL

\* Every run collects the same first cells of the one wallet, so no two
\* transactions are ever pending together: spends of different locked cells
\* wait for each other, whoever sends first (spend.rs:101-116, where every
\* invocation asks a new cell collector).
OnePending == \A tx, other \in pool : tx = other

THEOREM OnePendingAlways == Spec => []OnePending
<1>1. Inv => OnePending
    BY DEF Inv, PoolInv, OnePending
<1> QED
    BY <1>1, InvAlways, PTL

\* Only an entitled invocation reports success, only what one had targeted is
\* pending or spent, and no cell is spent twice.
THEOREM AdmittedIsEntitledAlways == Spec => []AdmittedIsEntitled
<1>1. Inv => AdmittedIsEntitled
    <2> SUFFICES ASSUME Inv
                 PROVE  AdmittedIsEntitled
        OBVIOUS
    <2>1. \A p \in Spenders : pc[p] = "reported" => Entitled(p)
        BY DEF Inv, RunInv, RunOk
    <2>2. \A tx, other \in pool :
             tx # other => Inputs(tx) \cap Inputs(other) = {}
        BY DEF Inv, PoolInv
    <2>3. \A tx \in pool :
             \E p \in Spenders : Entitled(p) /\ Jobs[p].target \in Inputs(tx)
        <3> SUFFICES ASSUME NEW tx \in pool
                     PROVE  \E p \in Spenders :
                               Entitled(p) /\ Jobs[p].target \in Inputs(tx)
            OBVIOUS
        <3>1. PICK p \in Spenders :
                 /\ Entitled(p)
                 /\ Inputs(tx) = {Jobs[p].target} \cup ToSet(Paid(tx.raw))
            BY PendingIs
        <3> QED
            BY <3>1
    <2> QED
        BY <2>1, <2>2, <2>3 DEF Inv, SpentInv, AdmittedIsEntitled
<1> QED
    BY <1>1, InvAlways, PTL

\* What a commit does to the locked cells and to the balance.
LEMMA CommitSpends ==
    ASSUME Inv, Commit
    PROVE  \E c \in Locked : Promise!Spend(c)
<1>1. PICK p \in Spenders :
         /\ Entitled(p) /\ Jobs[p].target \in locked
         /\ locked' = locked \ {Jobs[p].target}
    BY CommitIs DEF CommitsRun
<1> DEFINE t == Jobs[p].target
           D == Locked \ locked
<1>2. Inv'
    BY CommitStep
<1>3. locked \subseteq Locked /\ t \in Locked
    BY <1>1 DEF Inv
<1>4. Locked \ locked' = D \cup {t} /\ t \notin D
    BY <1>1, <1>3
<1>5. /\ IsFiniteSet(D) /\ Cardinality(D) \in Nat
      /\ Cardinality(D \cup {t}) = Cardinality(D) + 1
    <2>1. IsFiniteSet(D)
        BY SpendAssumption, FS_Subset
    <2> QED
        BY <1>4, <2>1, FS_AddElement, FS_CardinalityType
<1>6. /\ Capacity(wallet) = Capacity(Wallet) - Fee * Cardinality(D)
      /\ Capacity(wallet') = Capacity(Wallet) - Fee * (Cardinality(D) + 1)
    BY <1>2, <1>4, <1>5 DEF Inv, OneFeePerCell
<1>7. Capacity(wallet) \in Nat /\ Capacity(wallet') \in Nat
    BY <1>2, FeeListCapacity DEF Inv, IsWallet
<1>8. Capacity(Wallet) \in Nat /\ Fee \in Nat
    BY SpendAssumption, FeeAssumption, CapacityType DEF WithCapacity, ToSet
<1> HIDE DEF D
<1>9. Fee * (Cardinality(D) + 1) = Fee * Cardinality(D) + Fee
    BY <1>5, <1>8
<1>10. Capacity(wallet') = Capacity(wallet) - Fee /\ Fee <= Capacity(wallet)
    <2>1. Fee * Cardinality(D) \in Nat
        BY <1>5, <1>8
    <2> HIDE DEF t
    <2> QED
        BY <1>6, <1>7, <1>8, <1>9, <2>1
<1>11. t \in {Jobs[q].target : q \in {r \in Spenders : Entitled(r)}}
    BY <1>1
<1>12. Promise!Spend(t)
    BY <1>1, <1>10, <1>11 DEF Promise!Spend
<1> QED
    BY <1>3, <1>12

\* The spend commands together implement the spending of one cell after the
\* other: the commit of a transaction is the spending of its locked cell, and
\* nothing else a command, its user or the node does can be seen there.
THEOREM SpendFlowImplementsLockedCells == Spec => SpendsOneByOne
<1>1. Init => Promise!Init
    BY DEF Init, Promise!Init
<1>2. Inv /\ [Next]_vars
        => [\E c \in Locked : Promise!Spend(c)]_(Promise!vars)
    <2> SUFFICES ASSUME Inv, [Next]_vars
                 PROVE  \/ \E c \in Locked : Promise!Spend(c)
                        \/ UNCHANGED <<wallet, locked>>
        BY DEF Promise!vars
    <2>1. CASE Commit
        BY <2>1, CommitSpends
    <2>2. CASE ~Commit
        BY <2>2 DEF Next, Run, Verify, BuildDraft, Balance, Send, Die, Rerun,
                    vars
    <2> QED
        BY <2>1, <2>2
<1> QED
    BY <1>1, <1>2, InvAlways, PTL DEF Spec, SpendsOneByOne, Promise!Spec

\* spend-timelock-lock never succeeds: spend_timelock_lock gives the transaction
\* no header dep (spend.rs:526), check_timelock reads the time from header dep 0
\* (timelock-lock main.rs:79), and so no timelock cell is ever spent and no such
\* run reports success, whatever its unlock time, signature or payload.
TimelockKept ==
    /\ \A c \in Locked : c.lock.script = "timelock" => c \in locked
    /\ \A p \in Spenders : Timelock(p) => pc[p] # "reported"

THEOREM TimelockKeptAlways == Spec => []TimelockKept
<1>1. Inv => TimelockKept
    <2> SUFFICES ASSUME Inv
                 PROVE  TimelockKept
        OBVIOUS
    <2>1. \A c \in Locked : c.lock.script = "timelock" => c \in locked
        BY DEF Inv, SpentInv, Timelock
    <2>2. \A p \in Spenders : Timelock(p) => pc[p] # "reported"
        BY DEF Inv, RunInv, RunOk
    <2> QED
        BY <2>1, <2>2 DEF TimelockKept
<1> QED
    BY <1>1, InvAlways, PTL

\* An entitled simple-lock run is refused only when another transaction has
\* taken or is taking a cell of its own.
THEOREM RefusedOnlyForLostCellAlways == Spec => []RefusedOnlyForLostCell
<1>1. Inv => RefusedOnlyForLostCell
    <2> SUFFICES ASSUME Inv, NEW p \in Spenders,
                        pc[p] = "send", Entitled(p), ~Timelock(p)
                 PROVE  Admits(SignedTx(p)) <=> Unspent(SignedTx(p))
        BY DEF RefusedOnlyForLostCell
    <2>1. FeeList(fees[p], locked) /\ Pays(fees[p])
        BY DEF Inv, RunInv, RunOk, Payment
    <2> QED
        BY <2>1, EntitledIsAdmitted
<1> QED
    BY <1>1, InvAlways, PTL

\* The signature over the draft covers what is sent, unless a fee cell of the
\* draft is gone by then.
THEOREM SignatureCoversAlways == Spec => []SignatureCoversUnlessCellLost
<1>1. Inv => SignatureCoversUnlessCellLost
    BY DEF Inv, RunInv, DraftOk, SignatureCoversUnlessCellLost, Lost, Paid
<1> QED
    BY <1>1, InvAlways, PTL

\* The wallet has paid one fee for each locked cell that is spent, however
\* many runs died, lost their replies, were refused or started over.
THEOREM OneFeePerCellAlways == Spec => []OneFeePerCell
<1>1. Inv => OneFeePerCell
    BY DEF Inv
<1> QED
    BY <1>1, InvAlways, PTL
==============================================================================
