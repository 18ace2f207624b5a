------------------------------ MODULE DeployFlow ------------------------------
(***************************************************************************)
(* The deployer's commands that create cells: deploy-simple-lock and       *)
(* deploy-timelock-lock ("deploy"), deploy-sudt, which mints in the same   *)
(* run, and create-locked-cell and create-timelock-cell ("create"). They   *)
(* run side by side in one working directory, whose build artefacts and    *)
(* IDL files change under them, and against one node. A deployment empties *)
(* the frozen IDL file and writes it before it has paid for anything; any  *)
(* command may die, lose a reply or find its fee cells taken, and is then  *)
(* repeated. A create command is told a transaction hash, which may be the *)
(* wrong one.                                                              *)
(*                                                                         *)
(* The node is external, as in SpendFlow; here it may also evict a         *)
(* transaction from its pool.                                              *)
(***************************************************************************)
EXTENDS SudtRules, FeeCells, ByteLayout

CONSTANTS
    Deployers,      \* command invocations
    Jobs,           \* Jobs[p]: the command and environment of invocation p
    Wallet,         \* Wallet[a]: the fee cells of address a at the start
    CodeSize,       \* bytes of a script binary
    MintAmount,     \* the amount deploy-sudt mints
    AmountWidth,    \* bytes of an amount, 16 in the code
    Budget,         \* how many edits, crashes, lost replies, evictions and
                    \* slips of the user
    BadKey,         \* PRIVATE_KEY that is not a secret key
    BadAddress,     \* TESTNET_ADDRESS that does not parse
    NoIdl, NoFile, Empty, Torn, NoType, Nothing

Addresses == DOMAIN Wallet

(***************************************************************************)
(* A key is named by the address it owns. The script of a deploy or create *)
(* command also names its IDL and frozen files. A create command is given  *)
(* a public key and a commitment, of which only the length matters; for a  *)
(* simple-lock it hashes the preimage instead. A fee cell knows where it   *)
(* comes from, as in SpendFlow.                                            *)
(***************************************************************************)
ASSUME DeployAssumption ==
    /\ DOMAIN Jobs = Deployers
    /\ \A p \in Deployers :
          /\ \/ /\ Jobs[p].command \in {"deploy", "create"}
                /\ Jobs[p].script \in {"simple", "timelock"}
             \/ /\ Jobs[p].command = "deploy-sudt"
                /\ Jobs[p].script = "sudt"
          /\ Jobs[p].key \in Addresses \cup {BadKey}
          /\ Jobs[p].address \in Addresses \cup {BadAddress}
          /\ Jobs[p].pubkey \in Nat /\ Jobs[p].commitment \in Nat
    /\ \A a \in Addresses :
          /\ Wallet[a] \in Seq(ToSet(Wallet[a]))
          /\ \A i \in DOMAIN Wallet[a] :
                /\ Wallet[a][i].lock = a
                /\ Wallet[a][i].capacity \in Nat
                /\ Wallet[a][i].capacity >= MinChange
                /\ Wallet[a][i].from = <<<<>>, i>>
    /\ CodeSize \in Nat
    /\ AmountWidth \in Nat
    /\ MaxAmount = Values(AmountWidth) - 1
    /\ MintAmount \in 1..MaxAmount
    /\ Budget \in [{"edits", "crashes", "lost", "evictions", "slips"} -> Nat]

Scripts == {Jobs[p].script : p \in Deployers}

VARIABLES
    tree,       \* tree[s]: versions of the binary and the IDL on disk
    frozen,     \* frozen[s]: what <s>-idl.deployed.json holds
    printed,    \* printed[s]: deployments whose out point the user has seen
    wallet,     \* wallet[a]: live fee cells, in the order of the indexer
    pool,       \* transactions the node has admitted and not committed
    chain,      \* committed transactions
    pc,         \* pc[p]: where invocation p is
    code,       \* code[p]: the code cell p works with, named by its tx
    out,        \* out[p]: the output cell p is about to pay for
    fees,       \* fees[p]: the fee cells p has collected
    budget      \* what is left of Budget

disk == <<tree, frozen>>
node == <<wallet, pool, chain>>
memory == <<code, out, fees>>
vars == <<disk, printed, node, pc, memory, budget>>

AtRest == {"start", "reported", "failed"}

Stages == AtRest \cup {"binary", "idl", "freeze", "write", "fetch", "balance",
                       "send"}

(***************************************************************************)
(* The cells                                                               *)
(***************************************************************************)

\* Mutant: the capacity covers the data and nothing else.
CodeCapacity_DataOnly(size) == size

\* 100 CKB are for the other fields of the cell.
CodeCapacity(size) == size + 100

CodeCell(p, binary, idl) ==
    LET size == CodeSize + (IF idl = NoIdl THEN 0 ELSE HashSize)
    IN  [lock |-> Jobs[p].address, type |-> NoType, size |-> size,
         data |-> [script |-> Jobs[p].script, binary |-> binary, idl |-> idl],
         capacity |-> CodeCapacity(size)]

PubkeySize == 33

\* Mutant: the length of the public key is not looked at.
ArgsGiven_AnyKey(p) ==
    Jobs[p].script = "timelock" => Jobs[p].commitment \in {0, HashSize}

\* Both parts of a timelock's args have their length; without a commitment
\* there are zeros in its place.
ArgsGiven(p) ==
    Jobs[p].script = "timelock" =>
        /\ Jobs[p].pubkey = PubkeySize
        /\ Jobs[p].commitment \in {0, HashSize}

ArgsLen(p) ==
    IF Jobs[p].script = "timelock" THEN Jobs[p].pubkey + HashSize ELSE HashSize

\* Bytes::new()
NoCode == [script |-> "none", binary |-> 0, idl |-> NoIdl]

\* Mutant: the code hash is that of the binary and the IDL on disk.
LockedCell_OfTheTree(p) ==
    LET s == Jobs[p].script
    IN  [lock |-> [code |-> [script |-> s, binary |-> tree[s].binary,
                             idl |-> tree[s].idl],
                   argsLen |-> ArgsLen(p)],
         type |-> NoType, size |-> 0, data |-> NoCode, capacity |-> 70464]

\* The code hash of the lock is that of the first output's data, whatever
\* transaction the user has named; the args are of the command's own script.
LockedCell(p) ==
    [lock |-> [code |-> code[p].outputs[1].data, argsLen |-> ArgsLen(p)],
     type |-> NoType, size |-> 0, data |-> NoCode, capacity |-> 70464]

\* amount.to_be_bytes(), which the script reads with from_le_bytes. The args
\* of the type are the hash of the issuer's lock.
UdtCell(p) ==
    [lock |-> Jobs[p].address, type |-> Jobs[p].address, size |-> AmountSize,
     data |-> [len   |-> AmountSize,
               value |-> FromLE(BE(MintAmount, AmountWidth))],
     capacity |-> 142]

\* What the fields of a cell take: capacity, lock, type, data.
Occupied(cell) ==
    8 + (IF cell.lock \in Addresses THEN 53 ELSE 33 + cell.lock.argsLen)
      + (IF cell.type = NoType THEN 0 ELSE 65) + cell.size

Tx(p) ==
    [key     |-> Jobs[p].key,
     inputs  |-> fees[p],
     outputs |-> <<out[p],
                   [lock     |-> Jobs[p].address,
                    capacity |-> Change(fees[p], out[p].capacity)]>>]

(***************************************************************************)
(* The node                                                                *)
(***************************************************************************)
Inputs(tx) == ToSet(tx.inputs)

Unspent(tx) ==
    /\ \A c \in Inputs(tx) : \E a \in Addresses : Contains(wallet[a], c)
    /\ \A other \in pool : Inputs(tx) \cap Inputs(other) = {}

\* The sighash lock of every fee cell wants its owner's signature; what the
\* key cannot unlock, build_unlocked leaves unsigned.
Signed(tx) == \A c \in Inputs(tx) : c.lock = tx.key

\* The sUDT script runs for a cell that has a type. Fee cells have none, so
\* the group has no inputs and nobody is the owner.
TypeAccepts(cell) ==
    cell.type # NoType => Accepts(HashSize, FALSE, <<>>, <<cell.data>>)

Admits(tx) ==
    /\ Unspent(tx)
    /\ Signed(tx)
    /\ tx.outputs[1].capacity >= Occupied(tx.outputs[1])
    /\ tx.outputs[2].capacity >= MinChange
    /\ TypeAccepts(tx.outputs[1])

\* get_transaction answers for pending transactions as well.
Known(tx) == tx \in pool \cup chain

(***************************************************************************)
(* The steps                                                               *)
(***************************************************************************)
TypeOK ==
    /\ tree \in [Scripts -> [binary : Nat, idl : Nat]]
    /\ \A s \in Scripts : frozen[s] \in Nat \cup {NoFile, Empty, Torn}
    /\ \A a \in Addresses : \A i \in DOMAIN wallet[a] :
          wallet[a][i].lock = a /\ wallet[a][i].capacity >= MinChange
    /\ pool \cap chain = {}
    /\ pc \in [Deployers -> Stages]
    /\ \A p \in Deployers :
          pc[p] = "send" =>
              Capacity(fees[p]) >= out[p].capacity + MinChange + Fee
    /\ \A k \in DOMAIN Budget : budget[k] \in 0..Budget[k]

Init ==
    /\ tree = [s \in Scripts |-> [binary |-> 0, idl |-> 0]]
    /\ frozen = [s \in Scripts |-> NoFile]
    /\ printed = [s \in Scripts |-> {}]
    /\ wallet = Wallet
    /\ pool = {}
    /\ chain = {}
    /\ pc = [p \in Deployers |-> "start"]
    /\ code = [p \in Deployers |-> Nothing]
    /\ out = [p \in Deployers |-> Nothing]
    /\ fees = [p \in Deployers |-> <<>>]
    /\ budget = Budget

Goto(p, stage) == pc' = [pc EXCEPT ![p] = stage]

\* The process ends, and what it had in memory is gone.
Exit(p, result) ==
    /\ Goto(p, result)
    /\ code' = [code EXCEPT ![p] = Nothing]
    /\ out' = [out EXCEPT ![p] = Nothing]
    /\ fees' = [fees EXCEPT ![p] = <<>>]

Use(kind) ==
    /\ budget[kind] > 0
    /\ budget' = [budget EXCEPT ![kind] = @ - 1]

\* Config::from_env and secret_key, and the arguments. To create a cell the
\* user pastes the hash of a deployment of its script that was printed.
WellFormed(p) ==
    Jobs[p].key # BadKey /\ (Jobs[p].command = "create" => ArgsGiven(p))

Configure(p) ==
    /\ pc[p] = "start"
    /\ \/ ~WellFormed(p) /\ Exit(p, "failed")
       \/ /\ WellFormed(p)
          /\ Jobs[p].command # "create"
          /\ Goto(p, "binary")
          /\ UNCHANGED memory
       \/ /\ WellFormed(p)
          /\ Jobs[p].command = "create"
          /\ \E tx \in printed[Jobs[p].script] : code' = [code EXCEPT ![p] = tx]
          /\ Goto(p, "fetch")
          /\ UNCHANGED <<out, fees>>
    /\ UNCHANGED <<disk, printed, node, budget>>

\* The user pastes another hash. Nothing looks at what it names, pending or
\* committed; the process panics when it is not a hash or names nothing.
Mispaste(p) ==
    /\ pc[p] = "start"
    /\ WellFormed(p)
    /\ Jobs[p].command = "create"
    /\ Use("slips")
    /\ \/ Exit(p, "failed")
       \/ /\ \E tx \in pool \cup chain : code' = [code EXCEPT ![p] = tx]
          /\ Goto(p, "fetch")
          /\ UNCHANGED <<out, fees>>
    /\ UNCHANGED <<disk, printed, node>>

ReadBinary(p) ==
    /\ pc[p] = "binary"
    /\ out' = [out EXCEPT ![p] =
                 CodeCell(p, tree[Jobs[p].script].binary, NoIdl)]
    /\ Goto(p, IF Jobs[p].command = "deploy" THEN "idl" ELSE "balance")
    /\ UNCHANGED <<disk, printed, node, code, fees, budget>>

\* Its hash goes to the end of the code cell.
ReadIdl(p) ==
    /\ pc[p] = "idl"
    /\ out' = [out EXCEPT ![p] =
                 CodeCell(p, @.data.binary, tree[Jobs[p].script].idl)]
    /\ Goto(p, "freeze")
    /\ UNCHANGED <<disk, printed, node, code, fees, budget>>

\* Mutant: the IDL file is copied.
Frozen_Copied(p) == tree[Jobs[p].script].idl

\* The bytes in memory are written, not the file again.
Frozen(p) == out[p].data.idl

\* {script_name}-idl.deployed.json is one file per script; std::fs::write
\* opens it and cuts it off.
Freeze(p) ==
    /\ pc[p] = "freeze"
    /\ frozen' = [frozen EXCEPT ![Jobs[p].script] = Empty]
    /\ Goto(p, "write")
    /\ UNCHANGED <<tree, printed, node, memory, budget>>

\* Then it writes from the start. What another deployment has written in
\* between is overwritten only as far as the new IDL reaches.
Write(p) ==
    /\ pc[p] = "write"
    /\ \E result \in IF frozen[Jobs[p].script] \in {Empty, Frozen(p)}
                    THEN {Frozen(p)} ELSE {Frozen(p), Torn} :
          frozen' = [frozen EXCEPT ![Jobs[p].script] = result]
    /\ Goto(p, "balance")
    /\ UNCHANGED <<tree, printed, node, memory, budget>>

\* fetch_code_cell_data, which panics when the node does not know the
\* transaction, and the cell that is made for that code.
Fetch(p) ==
    /\ pc[p] = "fetch"
    /\ \/ ~Known(code[p]) /\ Exit(p, "failed")
       \/ /\ Known(code[p])
          /\ out' = [out EXCEPT ![p] =
                       IF Jobs[p].command = "create" THEN LockedCell(p)
                                                     ELSE UdtCell(p)]
          /\ Goto(p, "balance")
          /\ UNCHANGED <<code, fees>>
    /\ UNCHANGED <<disk, printed, node, budget>>

\* Mutant: only the first fee cell is considered.
CanPay_FirstCell(p) ==
    /\ Jobs[p].address \in Addresses
    /\ Enough(SubSeq(wallet[Jobs[p].address], 1, 1), out[p].capacity)

\* The address is parsed here, after the IDL was frozen; the indexer lists
\* live cells whether or not a transaction in the pool spends them.
CanPay(p) ==
    /\ Jobs[p].address \in Addresses
    /\ Enough(wallet[Jobs[p].address], out[p].capacity)

Balance(p) ==
    /\ pc[p] = "balance"
    /\ \/ ~CanPay(p) /\ Exit(p, "failed")
       \/ /\ CanPay(p)
          /\ fees' = [fees EXCEPT ![p] =
                        Collect(wallet[Jobs[p].address], out[p].capacity)]
          /\ Goto(p, "send")
          /\ UNCHANGED <<code, out>>
    /\ UNCHANGED <<disk, printed, node, budget>>

\* deploy_script prints the out point; deploy-sudt goes on to mint with it.
Replied(p) ==
    IF Jobs[p].command = "create" \/ code[p] # Nothing
    THEN Exit(p, "reported") /\ UNCHANGED printed
    ELSE /\ printed' = [printed EXCEPT ![Jobs[p].script] = @ \cup {Tx(p)}]
         /\ IF Jobs[p].command = "deploy" THEN Exit(p, "reported")
            ELSE /\ code' = [code EXCEPT ![p] = Tx(p)]
                 /\ Goto(p, "fetch")
                 /\ UNCHANGED <<out, fees>>

\* send_transaction; the reply to an admitted transaction may be lost.
Send(p) ==
    /\ pc[p] = "send"
    /\ \E tx \in {Tx(p)} :
          \/ /\ Admits(tx)
             /\ pool' = pool \cup {tx}
             /\ \/ Replied(p) /\ UNCHANGED budget
                \/ Use("lost") /\ Exit(p, "failed") /\ UNCHANGED printed
          \/ /\ ~Admits(tx)
             /\ Exit(p, "failed")
             /\ UNCHANGED <<pool, printed, budget>>
    /\ UNCHANGED <<disk, wallet, chain>>

\* The process dies or an RPC fails; a write that was under way is torn.
Die(p) ==
    /\ pc[p] \notin AtRest
    /\ Use("crashes")
    /\ Exit(p, "failed")
    /\ \/ UNCHANGED frozen
       \/ /\ pc[p] = "write"
          /\ frozen' = [frozen EXCEPT ![Jobs[p].script] = Torn]
    /\ UNCHANGED <<tree, printed, node>>

Rerun(p) ==
    /\ pc[p] = "failed"
    /\ Goto(p, "start")
    /\ UNCHANGED <<disk, printed, node, memory, budget>>

\* The developer rebuilds a script, or changes its IDL.
Edit ==
    /\ Use("edits")
    /\ \E s \in Scripts :
          \/ tree' = [tree EXCEPT ![s].binary = @ + 1]
          \/ tree' = [tree EXCEPT ![s].idl = @ + 1]
    /\ UNCHANGED <<frozen, printed, node, pc, memory>>

\* The code and locked cells of a committed transaction stay out of the
\* wallet; its change comes back to the address.
Commit ==
    /\ \E tx \in pool :
          /\ pool' = pool \ {tx}
          /\ chain' = chain \cup {tx}
          /\ wallet' = [wallet EXCEPT ![tx.key] =
                Remaining(@, Inputs(tx))
                  \o <<[lock     |-> tx.key,
                        capacity |-> tx.outputs[2].capacity,
                        from     |-> <<tx.inputs, 2>>]>>]
    /\ UNCHANGED <<disk, printed, pc, memory, budget>>

Evict ==
    /\ Use("evictions")
    /\ \E tx \in pool : pool' = pool \ {tx}
    /\ UNCHANGED <<disk, printed, wallet, chain, pc, memory>>

Run(p) ==
    \/ Configure(p)
    \/ ReadBinary(p)
    \/ ReadIdl(p)
    \/ Freeze(p)
    \/ Write(p)
    \/ Fetch(p)
    \/ Balance(p)
    \/ Send(p)

Next ==
    \/ \E p \in Deployers : Run(p) \/ Mispaste(p) \/ Die(p) \/ Rerun(p)
    \/ Edit \/ Commit \/ Evict

\* As in SpendFlow: processes run, failed commands are repeated, and the
\* node commits.
Fairness ==
    /\ \A p \in Deployers : WF_vars(Run(p)) /\ WF_vars(Rerun(p))
    /\ WF_vars(Commit)

Spec == Init /\ [][Next]_vars /\ Fairness

------------------------------------------------------------------------------
(***************************************************************************)
(* Properties                                                              *)
(***************************************************************************)
Configured(p) ==
    /\ Jobs[p].key = Jobs[p].address
    /\ Jobs[p].command = "create" => ArgsGiven(p)

Deploys(p, s) == Jobs[p].command = "deploy" /\ Jobs[p].script = s

\* What transactions cost: the cells they are for, and the fees.
Cost(txs) ==
    LET sum[some \in SUBSET txs] ==
            IF some = {} THEN 0
            ELSE LET tx == CHOOSE tx \in some : TRUE
                 IN  tx.outputs[1].capacity + Fee + sum[some \ {tx}]
    IN  sum[txs]

Idls(txs) == {tx.outputs[1].data.idl : tx \in txs}

\* What a configured deploy or create command sends is never refused for its
\* form: its cells have the capacity they occupy, whether or not an IDL hash
\* was appended, and it is refused only when another transaction has taken
\* one of its fee cells.
RefusedOnlyForLostCell ==
    \A p \in Deployers :
        (pc[p] = "send" /\ Configured(p) /\ out[p].type = NoType) =>
            (Admits(Tx(p)) <=> Unspent(Tx(p)))

\* A wallet pays the cells and one fee for each transaction that its own key
\* has signed, and nothing else: not for a command that runs with another
\* key, that died, that was refused, or whose transaction was evicted.
PaysForOwnCells ==
    \A a \in Addresses :
        Capacity(Wallet[a]) =
            Capacity(wallet[a]) + Cost({tx \in chain : tx.key = a})

DeploysOf(s) == {p \in Deployers : Deploys(p, s)}

AllReported(s) ==
    DeploysOf(s) # {} /\ \A p \in DeploysOf(s) : pc[p] = "reported"

\* Once every deploy command of a script has reported success, the frozen
\* file is the IDL that one of the reported deployments has committed to,
\* though files changed, processes died in the middle of writing it, and
\* deployments overtook each other; unless it is a mixture, which needs two
\* commands. It is never empty, nor the IDL of a deployment that failed.
FrozenIsOfADeployment ==
    \A s \in Scripts : AllReported(s) =>
        \/ frozen[s] \in Idls(printed[s])
        \/ frozen[s] = Torn /\ \E p, q \in DeploysOf(s) : p # q

Locked(txs) == {tx \in txs : tx.outputs[1].lock \notin Addresses}

\* A locked cell can be opened only while there is a cell with its code. The
\* codes of locked cells that no pending or committed transaction stores are
\* no more than the deployments that were evicted, though files and trees
\* change and a deployment may be pending when its code is taken.
OrphanedByEvictions ==
    LET txs    == pool \cup chain
        named  == {tx.outputs[1].lock.code : tx \in Locked(txs)}
        stored == {tx.outputs[1].data : tx \in txs}
    IN  Cardinality(named \ stored)
            <= Budget["evictions"] - budget["evictions"]

\* The length of the args that each lock wants.
Wanted == [simple |-> HashSize, timelock |-> PubkeySize + HashSize]

\* The code is that of a lock script, and the args are what it wants.
Suits(lock) ==
    /\ lock.code.script \in DOMAIN Wanted
    /\ lock.argsLen = Wanted[lock.code.script]

\* A locked cell that its code would never open, so that its capacity is gone
\* for good, comes from a mistyped hash, and there is one at most for each;
\* whatever else the user has typed, no such cell is made.
StrandedBySlips ==
    Cardinality({tx \in Locked(pool \cup chain) : ~Suits(tx.outputs[1].lock)})
        <= Budget["slips"] - budget["slips"]

Evicted == budget["evictions"] < Budget["evictions"]

\* Every configured deploy or create command reports success in the end, if
\* the wallet is large enough for the cells, unless a transaction is evicted:
\* then the hash that the user has been shown may name nothing.
CommandsSucceed ==
    <>(\/ Evicted
       \/ \A p \in Deployers :
             (Configured(p) /\ Jobs[p].command # "deploy-sudt") =>
                 pc[p] = "reported")

\* The minting half of deploy-sudt leaves no trace: whatever fee cells it
\* finds, and however often it is repeated, its cell is never admitted, since
\* no input can have the issuer's lock hash as its type hash. What is admitted
\* of the command is one more code cell each time.
NothingIsMinted ==
    \A tx \in pool \cup chain : tx.outputs[1].type = NoType

\* README.md:111 says deploy-sudt mints tokens to the deployer.
MintSucceeds ==
    \A p \in Deployers :
        (Configured(p) /\ Jobs[p].command = "deploy-sudt") =>
            <>(pc[p] = "reported")
==============================================================================
