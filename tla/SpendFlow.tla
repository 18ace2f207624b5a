------------------------------ MODULE SpendFlow ------------------------------
(***************************************************************************)
(* The spend commands of the deployer (spend-simple-lock and               *)
(* spend-timelock-lock) run side by side against one node. Every run pays  *)
(* its fee from the same wallet, reads the live cells through the indexer, *)
(* builds and signs a transaction locally and sends it; in between other   *)
(* runs send theirs, the node commits transactions, processes die, and     *)
(* replies get lost. A run that failed is started again.                   *)
(*                                                                         *)
(* The node is external: it admits a transaction to its pool when its      *)
(* inputs are live, no transaction in the pool spends them, and every lock *)
(* script accepts, and it commits what is in the pool in some order.       *)
(***************************************************************************)
EXTENDS LockRules, FeeCells, FiniteSets

CONSTANTS
    Spenders,       \* command invocations
    Jobs,           \* Jobs[p]: the command line and IDL file of invocation p
    Wallet,         \* the fee cells at the start, in the order of the indexer
    Locked,         \* the locked cells at the start
    MaxCrashes      \* bound on the processes that die

PayCapacity == 61   \* CKB of the output of a spend

(***************************************************************************)
(* A cell knows its lock and capacity, and where it comes from: the inputs *)
(* of the transaction that created it, none for a cell of the start, and   *)
(* its place among the outputs. That makes it unique, as an out point is.  *)
(* The lock of a wallet cell is the secp256k1 sighash lock of the          *)
(* spender's address. A job names its target cell, the secret (preimage or *)
(* extra payload), the unlock time, and whether the IDL file hashes to the *)
(* commitment in the code cell; its environment has an address whose fee   *)
(* cells it spends, of its own key or of another one, or which does not    *)
(* parse. A locked cell has args of the length that create-locked-cell     *)
(* gives it.                                                               *)
(***************************************************************************)
Sighash == [script |-> "sighash"]

ASSUME SpendAssumption ==
    /\ DOMAIN Jobs = Spenders
    /\ Wallet \in Seq(ToSet(Wallet))
    /\ \A i \in DOMAIN Wallet :
          /\ Wallet[i].lock = Sighash
          /\ Wallet[i].capacity \in Nat
          /\ Wallet[i].from = <<<<>>, i>>
    /\ IsFiniteSet(Locked)
    /\ \A c \in Locked :
          \/ c.lock.script = "simple" /\ c.lock.argsLen = DigestSize
          \/ c.lock.script = "timelock"
    /\ \A p \in Spenders :
          /\ Jobs[p].target \in Locked
          /\ Jobs[p].secret \in Payloads
          /\ Jobs[p].unlock_after_ms \in Nat
          /\ Jobs[p].idlMatches \in BOOLEAN
          /\ Jobs[p].address \in {"own", "foreign", "malformed"}
    /\ NoWitness \notin Payloads
    /\ MaxCrashes \in Nat

VARIABLES
    wallet,     \* live cells of the spender, in the order of the indexer
    locked,     \* live locked cells
    pool,       \* transactions the node has admitted and not committed
    pc,         \* pc[p]: where invocation p is
    draft,      \* draft[p]: the transaction whose hash p signed, if any
    fees,       \* fees[p]: the fee cells p has collected
    crashes     \* processes that have died so far

vars == <<wallet, locked, pool, pc, draft, fees, crashes>>

NoDraft == <<>>

Stages == {"verify", "draft", "balance", "send", "reported", "failed"}

Timelock(p) == Jobs[p].target.lock.script = "timelock"

(***************************************************************************)
(* Building the transaction                                                *)
(***************************************************************************)

\* The address is parsed before its cells are asked for.
CanPay(p) == Jobs[p].address # "malformed" /\ Enough(wallet, PayCapacity)

\* Every run asks the indexer with a new DefaultCellCollector.
Collected(p) == Collect(wallet, PayCapacity)

\* Mutant: the IDL file is not verified.
Verified_Always(p) == TRUE

\* IdlClient::verify: the hash of the file against the end of the code cell.
Verified(p) == Jobs[p].idlMatches

\* Mutant: the builder is given no output.
Raw_ChangeOnly(p, cells) ==
    [inputs  |-> <<Jobs[p].target>> \o cells,
     outputs |-> <<[lock |-> Sighash, capacity |-> Change(cells, PayCapacity)]>>,
     headers |-> <<>>]

\* Mutant: the locked cell is injected behind the fee cells, its witness in
\* front.
Raw_TargetLast(p, cells) ==
    [inputs  |-> cells \o <<Jobs[p].target>>,
     outputs |-> <<[lock |-> Sighash, capacity |-> PayCapacity],
                   [lock |-> Sighash, capacity |-> Change(cells, PayCapacity)]>>,
     headers |-> <<>>]

\* What the hash of a transaction covers: the locked cell first, then the
\* fee cells; the output to the spender and the change; no header deps.
Raw(p, cells) ==
    [inputs  |-> <<Jobs[p].target>> \o cells,
     outputs |-> <<[lock |-> Sighash, capacity |-> PayCapacity],
                   [lock |-> Sighash, capacity |-> Change(cells, PayCapacity)]>>,
     headers |-> <<>>]

\* Mutant: the locked cell is not yet injected when the hash is taken.
Draft_BeforeInjection(p) ==
    [Raw(p, Collected(p)) EXCEPT !.inputs = Collected(p)]

\* What spend_timelock_lock signs, built as spend_locked_cell does.
Draft(p) == Raw(p, Collected(p))

\* encode_bytes_field, encode_timelock_witness: what the contract decodes.
Wire(p) ==
    IF Timelock(p)
    THEN [signature       |-> draft[p],
          unlock_after_ms |-> Jobs[p].unlock_after_ms,
          extra           |-> Jobs[p].secret]
    ELSE Jobs[p].secret

\* The witnesses after the balancer signed the transaction it had balanced.
BalancedWitnesses(p) ==
    <<[of |-> "sighash", wire |-> [Raw(p, fees[p]) EXCEPT !.inputs = fees[p]]]>>

\* unlock_tx leaves the placeholder where it is when the key does not own the
\* address, and nobody looks at what it says was not unlocked.
FeeWitness(p) ==
    [of   |-> IF Jobs[p].address = "own" THEN "sighash" ELSE "placeholder",
     wire |-> Raw(p, fees[p])]

\* Mutant: Step C is left out.
SignedTx_KeepsSignature(p) ==
    [raw       |-> Raw(p, fees[p]),
     witnesses |-> <<[of   |-> Jobs[p].target.lock.script,
                      wire |-> Wire(p)]>> \o BalancedWitnesses(p)]

\* Step B and C of spend_locked_cell: the locked cell's witness goes in
\* front, as its input does, and the fee inputs are signed again.
SignedTx(p) ==
    [raw       |-> Raw(p, fees[p]),
     witnesses |-> <<[of   |-> Jobs[p].target.lock.script, wire |-> Wire(p)],
                     FeeWitness(p)>>]

(***************************************************************************)
(* The node                                                                *)
(***************************************************************************)
Inputs(tx) == ToSet(tx.raw.inputs)

OutputCells(tx) ==
    [i \in DOMAIN tx.raw.outputs |->
        [lock     |-> tx.raw.outputs[i].lock,
         capacity |-> tx.raw.outputs[i].capacity,
         from     |-> <<tx.raw.inputs, i>>]]

\* What the lock script of input i sees of a transaction.
View(tx, i) ==
    LET lock == tx.raw.inputs[i].lock
        w    == tx.witnesses[i]
    IN  [script  |-> lock.script,
         argsLen |-> lock.argsLen,
         hash    |-> lock.hash,
         witness |-> IF w.of = lock.script THEN w.wire ELSE NoWitness,
         header  |-> IF tx.raw.headers = <<>> THEN NoHeader
                                              ELSE Head(tx.raw.headers)]

\* The sighash lock looks at the witness of the first input of its group.
WalletSigned(tx) ==
    \E i \in DOMAIN tx.raw.inputs :
        /\ tx.raw.inputs[i].lock = Sighash
        /\ \A j \in 1..(i - 1) : tx.raw.inputs[j].lock # Sighash
        /\ tx.witnesses[i] = [of |-> "sighash", wire |-> tx.raw]

LocksOpen(tx) ==
    \A i \in DOMAIN tx.raw.inputs :
        tx.raw.inputs[i].lock # Sighash => Unlocks(View(tx, i))

Unspent(tx) ==
    /\ Inputs(tx) \subseteq ToSet(wallet) \cup locked
    /\ \A other \in pool : Inputs(tx) \cap Inputs(other) = {}

Admits(tx) == Unspent(tx) /\ WalletSigned(tx) /\ LocksOpen(tx)

(***************************************************************************)
(* The steps                                                               *)
(***************************************************************************)
TypeOK ==
    /\ \A i \in DOMAIN wallet :
          wallet[i].lock = Sighash /\ wallet[i].capacity \in Nat
    /\ locked \subseteq Locked
    /\ \A tx \in pool : Inputs(tx) \subseteq ToSet(wallet) \cup locked
    /\ pc \in [Spenders -> Stages]
    /\ \A p \in Spenders : pc[p] = "send" => Enough(fees[p], PayCapacity)
    /\ crashes \in 0..MaxCrashes

Init ==
    /\ wallet = Wallet
    /\ locked = Locked
    /\ pool = {}
    /\ pc = [p \in Spenders |-> "verify"]
    /\ draft = [p \in Spenders |-> NoDraft]
    /\ fees = [p \in Spenders |-> <<>>]
    /\ crashes = 0

Goto(p, stage) == pc' = [pc EXCEPT ![p] = stage]

\* The process ends, and what it had in memory is gone.
Exit(p, result) ==
    /\ Goto(p, result)
    /\ draft' = [draft EXCEPT ![p] = NoDraft]
    /\ fees' = [fees EXCEPT ![p] = <<>>]

\* fetch_code_cell_data, then verify_and_validate: the hash of the IDL file
\* against the commitment in the code cell.
Verify(p) ==
    /\ pc[p] = "verify"
    /\ \/ /\ Verified(p)
          /\ Goto(p, IF Timelock(p) THEN "draft" ELSE "balance")
          /\ UNCHANGED <<draft, fees>>
       \/ ~Verified(p) /\ Exit(p, "failed")
    /\ UNCHANGED <<wallet, locked, pool, crashes>>

\* spend_timelock_lock builds the transaction once to sign its hash.
BuildDraft(p) ==
    /\ pc[p] = "draft"
    /\ \/ /\ CanPay(p)
          /\ draft' = [draft EXCEPT ![p] = Draft(p)]
          /\ Goto(p, "balance")
          /\ UNCHANGED fees
       \/ ~CanPay(p) /\ Exit(p, "failed")
    /\ UNCHANGED <<wallet, locked, pool, crashes>>

\* Step A of spend_locked_cell, which asks the indexer again.
Balance(p) ==
    /\ pc[p] = "balance"
    /\ \/ /\ CanPay(p)
          /\ fees' = [fees EXCEPT ![p] = Collected(p)]
          /\ Goto(p, "send")
          /\ UNCHANGED draft
       \/ ~CanPay(p) /\ Exit(p, "failed")
    /\ UNCHANGED <<wallet, locked, pool, crashes>>

\* send_transaction; the reply to an admitted transaction may be lost.
Send(p) ==
    /\ pc[p] = "send"
    /\ \E tx \in {SignedTx(p)} :
          \/ /\ Admits(tx)
             /\ pool' = pool \cup {tx}
             /\ Exit(p, "reported") \/ Exit(p, "failed")
          \/ /\ ~Admits(tx)
             /\ Exit(p, "failed")
             /\ UNCHANGED pool
    /\ UNCHANGED <<wallet, locked, crashes>>

\* The process dies, or an RPC before the send fails.
Die(p) ==
    /\ pc[p] \in {"verify", "draft", "balance", "send"}
    /\ crashes < MaxCrashes
    /\ crashes' = crashes + 1
    /\ Exit(p, "failed")
    /\ UNCHANGED <<wallet, locked, pool>>

\* The same command line again.
Rerun(p) ==
    /\ pc[p] = "failed"
    /\ Goto(p, "verify")
    /\ UNCHANGED <<wallet, locked, pool, draft, fees, crashes>>

\* The node commits a transaction: its inputs die, its outputs live.
Commit ==
    /\ \E tx \in pool :
          /\ pool' = pool \ {tx}
          /\ locked' = locked \ Inputs(tx)
          /\ wallet' = Remaining(wallet, Inputs(tx)) \o OutputCells(tx)
    /\ UNCHANGED <<pc, draft, fees, crashes>>

Run(p) == Verify(p) \/ BuildDraft(p) \/ Balance(p) \/ Send(p)

Next ==
    \/ \E p \in Spenders : Run(p) \/ Die(p) \/ Rerun(p)
    \/ Commit

\* A running process goes on, the user repeats a command that failed, and
\* the node commits what it has admitted; nobody has to die.
Fairness ==
    /\ \A p \in Spenders : WF_vars(Run(p)) /\ WF_vars(Rerun(p))
    /\ WF_vars(Commit)

Spec == Init /\ [][Next]_vars /\ Fairness

------------------------------------------------------------------------------
(***************************************************************************)
(* Properties                                                              *)
(***************************************************************************)
Spent(c) == c \in Locked \ locked

\* The job has the right IDL file, pays with its own cells, and knows the
\* secret of its target.
Entitled(p) ==
    LET lock == Jobs[p].target.lock IN
    /\ Jobs[p].idlMatches
    /\ Jobs[p].address = "own"
    /\ \/ Blake2b[Jobs[p].secret] = lock.hash
       \/ Timelock(p) /\ Jobs[p].secret = EmptyPayload

\* Inserting the locked cell in front moves the fee inputs; both the locked
\* cell's witness and the spender's signature still reach their scripts. So
\* the scripts refuse a simple-lock spend only for a wrong preimage, and an
\* entitled run that is refused has lost a cell to another transaction.
RefusedOnlyForLostCell ==
    \A p \in Spenders :
        (pc[p] = "send" /\ Entitled(p) /\ ~Timelock(p)) =>
            (Admits(SignedTx(p)) <=> Unspent(SignedTx(p)))

\* However runs race, die, lose replies and start over, the wallet pays one
\* fee for each locked cell that is spent and nothing else.
OneFeePerCell ==
    Capacity(wallet)
        = Capacity(Wallet) - Fee * Cardinality(Locked \ locked)

\* Two transactions that spend the same cell are never both admitted, and a
\* transaction built on an IDL file that is not the committed one, on a wrong
\* preimage, or on fee cells of another key, is never admitted at all: only an
\* entitled invocation reports success, and what is admitted or spent is what
\* one had targeted.
AdmittedIsEntitled ==
    /\ \A p \in Spenders : pc[p] = "reported" => Entitled(p)
    /\ \A tx, other \in pool :
          tx # other => Inputs(tx) \cap Inputs(other) = {}
    /\ \A tx \in pool :
          \E p \in Spenders : Entitled(p) /\ Jobs[p].target \in Inputs(tx)
    /\ \A c \in Locked \ locked :
          \E p \in Spenders : Entitled(p) /\ Jobs[p].target = c

\* The commands, racing over one wallet, with crashes, lost replies and reruns,
\* do to the locked cells and the balance what one user does who spends one
\* cell after the other: no transaction spends two locked cells or pays twice,
\* none brings a spent cell back, and each is paid for with what is there.
Promise ==
    INSTANCE LockedCells WITH
        Openable <- {Jobs[p].target : p \in {q \in Spenders : Entitled(q)}},
        Start    <- Capacity(Wallet),
        balance  <- Capacity(wallet)

SpendsOneByOne == Promise!Spec

\* spend_timelock_lock signs the hash of a draft and spend_locked_cell then
\* balances afresh. Built twice, the transaction is the same, and the signature
\* covers what is sent, unless another transaction has taken a fee cell of the
\* draft by then, which neither spend.rs:412 nor the contract considers.
SignatureCoversUnlessCellLost ==
    \A p \in Spenders :
        (pc[p] = "send" /\ Timelock(p)) =>
            \/ draft[p] = Raw(p, fees[p])
            \/ ~(ToSet(Tail(draft[p].inputs)) \subseteq ToSet(wallet))

\* Every simple-lock cell that an entitled invocation targets is spent in the
\* end: a run that lost its fee cell to another finds a live one later.
EntitledSpends ==
    <>(\A p \in Spenders :
          Entitled(p) /\ ~Timelock(p) => Spent(Jobs[p].target))

\* README.md:108 says of spend-timelock-lock: spends the timelock cell.
TimelockSpends ==
    \A p \in Spenders :
        Entitled(p) /\ Timelock(p) => <>Spent(Jobs[p].target)

\* spend.rs:95 says of the output: return capacity to the spender.
CapacityReturned ==
    \A tx \in pool :
        Capacity(OutputCells(tx)) >= Capacity(tx.raw.inputs) - Fee
==============================================================================
