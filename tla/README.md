# TLA+ models of ckb-lock-script

Models, model-checking configurations and proofs for the contracts and the
deployer of this repository. Line numbers refer to the files of the repository.

## 1. The system

| Part | State | Operations | Talks to |
|---|---|---|---|
| sUDT type script (`contracts/ckb_sudt_script`) | none between executions; a loop index and a `u128` accumulator within one | `sudt_main`: load args, scan the inputs for the owner, sum the group's inputs, sum its outputs, compare | the CKB VM's syscalls |
| simple-lock (`contracts/simple-lock`) | none | `check_hash`: args length, witness, hash of the preimage | syscalls, generated witness decoder |
| timelock-lock (`contracts/timelock-lock`) | none | `check_timelock`: args length, witness, header dep, time, signature, payload commitment | syscalls, generated witness decoder |
| Spend commands (`deployer/src/spend.rs`) | within a run: the draft that was signed, the fee cells collected | verify the IDL, (draft and sign), balance, inject the locked cell, sign again, send | node RPC, indexer, IDL client, the IDL file |
| Deployment (`deploy_script`, `deploy_*_lock`) | the frozen IDL file on disk | freeze the IDL, balance, sign, send | file system, node |
| `deploy-sudt`, `mint_tokens` | none | deploy, then mint in the same run | node |
| Creation of locked cells (`create_locked_cell`, `create_timelock_cell`) | none | check and compute the args, fetch the code hash, balance, sign, send | node |
| `transfer_tokens` (not called) | none | list token cells, choose enough, build outputs, send | node |
| Witness encoding, IDL validation | none | `encode_bytes_field`, `encode_timelock_witness`, `verify_and_validate` | contracts' decoders |
| Config, dispatch (`config.rs`, `main.rs`) | none | read key and address from the environment, choose the command | the commands |
| keygen, tests, build, CI | - | - | - |

The CKB node, its pool and its indexer, the sighash system lock, `ckb-sdk`,
`ckb-idl-client` and `ckb-idl-derive` are other programs. They are modelled only
as far as this code uses them, and the map marks those definitions external.

What is hard here:

* A script runs once per transaction and group, but a token lives through any
  sequence of transactions; a promise about its supply is a promise about all
  of them, with several tokens in one transaction and tokens that own tokens.
* The sums of the script are `u128` and one side may overflow, one cell may not
  decode, and which error is returned depends on the order.
* Deployer commands share a wallet and a node without any lock. Each reads the
  live cells, builds a transaction in memory and sends it. Between those steps
  other commands do the same, the node commits, the process may die, and the
  reply to `send_transaction` may be lost.
* `spend_locked_cell` changes a transaction after it was balanced and signed.
* `spend_timelock_lock` builds a transaction twice and signs the first.
* Deployment empties a file and then writes it before the transaction is paid for
  and sent, and all deployments of one script write the same file. The files it
  reads change under it.
* A create command takes the transaction hash it is given for a deployment of its
  script and looks at nothing but the data of the first output.
* `deploy-sudt` starts its second transaction while the first is in the pool.
* What a spend command validates is encoded again before it is sent, and its
  length prefix is 32 bits wide.

`PROJECT.json` lists each hazard at its line with the properties that cover it.

What makes each part correct:

* sUDT script: exit code 0 exactly on the transactions the token rule allows;
  the error names the defect.
* The token: supply grows only while its owner could act.
* Locks: the first failing check decides the exit code.
* Spend commands: a run is refused only because it lost a cell; the wallet pays
  one fee per spent cell however often commands are repeated; only entitled
  runs get a transaction admitted; entitled runs succeed in the end; the
  capacity comes back; the signature covers what is sent.
* Deployment and creation: once all deployments have reported, the frozen file is
  the IDL that one of them committed to, unless two have written it at once; the
  code that a locked cell names is stored by some transaction, and its args are
  what that code wants, except for each deployment that was evicted and each wrong
  hash that was pasted; a wallet pays for what its own key signed and for nothing
  else; configured commands succeed in the end.
* Witnesses: what the contract reads is what the user gave, or nothing is sent.
* `transfer_tokens`: the chosen cells pay exactly for the outputs and are no
  more than needed; failures have a reason.

## 2. Modules

| Module | Models |
|---|---|
| `SudtRules` | the sUDT rule as operators: decoding, sums, acceptance |
| `SudtScript` | one execution of `sudt_main`, one step per loop iteration, and its exit codes |
| `TokenSupply` | abstract specification of a token |
| `SudtLedger` | live cells and the transactions the script lets through |
| `LockRules` | the checks of both locks as tables, in the order of the code |
| `LockScripts` | one execution of a lock, one step per check |
| `CellSequences` | lists of live cells: what they hold, and what is left when some are spent |
| `FeeCells` | how a command pays: the prefix of fee cells, the change, the fee |
| `LockedCells` | abstract specification of the locked cells and the wallet |
| `SpendFlow` | spend commands racing over one wallet and node; uses `LockRules`, `FeeCells` |
| `ByteLayout` | little- and big-endian integers of any width |
| `DeployFlow` | deployments, `deploy-sudt` and creation of cells side by side; uses `SudtRules`, `FeeCells`, `ByteLayout` |
| `WitnessCodec` | a witness from the encoder through the client to the contract; uses `ByteLayout` |
| `TokenTransfer` | `transfer_tokens`; uses `SudtRules`, `CellSequences` |
| `DataProofs` | lemmas about the operators: sums, lists of cells, bytes |
| `SudtScriptProofs`, `SudtLedgerProofs`, `LockScriptsProofs`, `SpendFlowProofs`, `DeployFlowProofs`, `WitnessCodecProofs`, `TokenTransferProofs` | the theorems of a module and their proofs |
| `MC*` | instances for TLC |

Definitions whose name has an underscore (`Balanced_OneMore`) and whose comment
starts with "Mutant:" are faulty variants of the definition named before the
underscore. Nothing refers to them; substituting one must break the property
that `PROJECT.json` pairs with it, which shows that the property depends on the
code.

### SudtRules, SudtScript

The transaction is a record of what the syscalls show: the length of the args,
the owner hash in them, the type hash of every input, and the data of the group's
inputs and outputs. Data is a length and the value of its first 16 bytes, since
`decode_amount` (main.rs:50) looks at nothing else. `pc`, `idx`, `total` and
`inputSum` are the position of `sudt_main`, the position of its `QueryIter`, the
accumulator of `sum_amounts` and `input_sum`.

| Action | Code (main.rs) |
|---|---|
| `LoadScript` | 91-99 |
| `ScanOwner`, `NoOwner` | one item of `is_owner_mode` 76-83, its end |
| `SumInput`, `InputSummed` | one item of `sum_amounts` 67-70 on the inputs, its end |
| `SumOutput`, `OutputSummed` | the same on the outputs |
| `Compare` | 110-114 |

`Total` counts token units (pairs of a cell and a number up to its amount)
instead of adding amounts. The two are equal; the run `sudt_script` evaluates that
as the assumption `UnitsAreSums`. Counting makes the laws of sums
(`DataProofs`) consequences of those of `Cardinality`, and avoids a
recursive operator.

### TokenSupply, SudtLedger

`TokenSupply` has a supply and an authority per token; a step may raise the
supply of a token only if its authority held before. `SudtLedger` has a slot per
live cell, and commits any transaction for which the script of every token in it
accepts. The refinement maps supply to the units in live cells and authority to
"a live cell has the type whose hash is in the args". Who may spend that cell is
the business of its lock and not of the script.

The owner of a token is a *type* hash (main.rs:76), although the variable is
called `owner_lock_hash`, and `mint_tokens` (deploy_script.rs:136) puts a lock
hash there. `OwnerlessIsWorthless` shows the consequence: no unit of such a token
can ever exist.

### LockRules, LockScripts

`SimpleChecks` and `TimelockChecks` list the checks with their exit codes.
`LockScripts` performs the syscalls and comparisons one by one; `SpendFlow` uses
`Unlocks`, the conjunction of the table, as the verdict of the node.
`FirstFailureDecides` ties the two together. What a comment says of a commitment
of zeros is stated on its own (`ZerosSkipTheCheck`), and the code does not keep it
(section 6).
Hashes are injective on the payloads of an instance and never zero; this is the
usual assumption on blake2b. The signature is compared with zero and nothing else,
because that is all the contract does (timelock main.rs:86-92).

### SpendFlow

Each member of `Spenders` is one invocation of a spend command with its arguments.

| Action | Code (spend.rs) |
|---|---|
| `Verify` | `fetch_code_cell_data` and `verify_and_validate` 285-294, 368-381 |
| `BuildDraft` | the draft of `spend_timelock_lock` 411-498 |
| `Balance` | Step A of `spend_locked_cell` 101-116 |
| `SignedTx` in `Send` | Steps B and C, 118-159, and the send 161 |
| `Die`, `Rerun` | the process dies or an RPC fails; the user runs the command again |
| `Commit` | the node commits a transaction (external) |

Steps B and C touch only memory of the process, so they are one step with the
send. The balancer takes the shortest prefix of the live fee cells that covers
output, change and fee. `ckb-sdk` has a further case, an exact match
without a change cell, which is left out: it changes neither what is locked nor
who may spend it. The fee is the balancer's; that the locked cell's
capacity goes to the miner as well is the finding `spend_capacity`. After a
transaction was admitted the reply may be lost, in which case the command
reports a failure. `Verified` and `Collected` are the two questions a run asks
of the world outside: the IDL file against the code cell, and the indexer. The
address of a run may be malformed, which `spend_locked_cell` notices only after the
IDL was verified (53), or belong to another key. In that case `unlock_tx` signs
nothing, says so in the second half of its result, which is ignored (150), and the
node gets a placeholder for a signature (`FeeWitness`).

`LockedCells` has the unspent locked cells and the balance; its only step spends
one cell that somebody is entitled to and pays one fee. The refinement
(`SpendsOneByOne`) maps the balance to the capacity of the wallet, so that
fees, change, drafts, the pool and the processes are invisible.

### DeployFlow

Each member of `Deployers` is one invocation of `deploy-simple-lock` or
`deploy-timelock-lock` ("deploy"), `deploy-sudt`, or `create-locked-cell` or
`create-timelock-cell` ("create"), with its environment (`config.rs`) and
arguments. A key is named by the address it owns.

| Action | Code (deploy_script.rs unless named) |
|---|---|
| `Configure` | `Config::from_env`, `secret_key` (config.rs 10-40); the arguments 407, 443-462, among them the hash of a deployment of the right script that was printed |
| `Mispaste` | the same with any other hash: of a transaction that the node knows, whatever it is, or of none (407, 442, 501-505) |
| `ReadBinary`, `ReadIdl` | 41, 45-47 |
| `Freeze`, `Write` | 56: `std::fs::write` empties the file, then writes it; `Die` before the second leaves an empty or a torn file |
| `Fetch` | `fetch_code_cell_data` 209-243 and the output cell of the caller: `UdtCell` 136-155, `LockedCell` 507-521 |
| `Balance` | 61-113, 163-192, 523-556: address, output, fee cells, signature |
| `Send` | 115, 194, 558; after a reply `deploy-sudt` goes on with `Fetch` (main.rs 75) |
| `Die`, `Rerun` | the process dies or an RPC fails; the user repeats the command |
| `Edit` | a developer rebuilds a binary or changes an IDL between the steps |
| `Commit`, `Evict` | the node commits a transaction, or drops it from its pool (external) |

Binaries and IDLs are version numbers; the data of a code cell is the pair that
was appended, so that "the hash of the file is the commitment in the cell" is
equality of versions. Reading binary and IDL are two steps, since the files may
change between them. The address is parsed where the code first needs it
(69), after the file was frozen. `build_unlocked` (106) returns the groups it could
not sign and the code ignores them: a transaction with another's fee cells is sent
unsigned, and the node refuses it.

What is written into a file that another deployment has emptied in the meantime, or
that holds the same version, is the version itself. What is written over another
version may leave the end of that one when it is longer, so that `Write` chooses
between the version and `Torn`: lengths are not modelled.

A code cell's data also says which script it is of. The lock of a created cell is
the data of the first output of the transaction that was pasted, whatever that is,
with args of the length that the command gives them. Pasting a hash other than one
that was printed for the script is a slip of the user, and slips are counted, so
that `StrandedBySlips` can say that nothing else makes a cell that its code would
never open. Likewise `OrphanedByEvictions` counts the locked cells whose code is
stored by no transaction against the evictions. Both are equal to "none" when no
slip and no eviction occurs.

The node's checks are those that can fail here: inputs live and not spent in
the pool, signatures, occupied capacity, and the sUDT script on the cell that
has a type. Code cell deps are always right and are left out.

### WitnessCodec, ByteLayout

One witness goes through the encoder (spend.rs 535-556), the field reader of the
IDL client (`validate_witness_bytes`, 192), the second encoding with the real
signature (516), and the field reader generated for the contract. `ReadField`
reads one field for either reader. The two readers belong to other repositories;
that both go through the fields in order, that `bytes` has a prefix of four
bytes in little-endian order, and that the client also refuses trailing bytes is
how the code and the tests use them. The widths of all parts are constants.

### TokenTransfer

`SkipOther` and `Choose` are one iteration of the loop 294-317, `PageEnds` its
end, `Build` 327-352, `Send` 354-398. `FailuresAreReal` speaks of the page that
was read, and not of the balance: the code asks for one page of 1000 cells
and no other.

## 3. Runs

| Run | Instance | Shows |
|---|---|---|
| `sudt_script` | every pair of groups of up to two cells with amounts 0..2, short, exact or long data, and of three cells with amounts 0 and 1; every owner scan of up to three inputs; maximal amount 2 | the script computes the rule, and its errors are right |
| `sudt_ledger` | three slots, amounts up to 2, three tokens: one owned by a type-id cell, one owned by the first token, one whose args hold a lock hash | the script implements `TokenSupply` |
| `lock_scripts` | args at each boundary and one byte to either side, every witness field right and wrong, header times below, at and above the unlock time, no header | exit codes of both locks |
| `spend_races` | two entitled commands on two cells, one on the first with a wrong IDL file, one with an address of another key, one with an address that does not parse, one timelock command; three fee cells of which the first is too small alone; one crash; unbounded reruns and lost replies | refusals, fees, who is admitted, what a signature covers, progress; the commands implement `LockedCells` |
| `deploy_races` | two deployments of timelock-lock, two creations of a timelock cell (one without a commitment, one with a 32-byte key); one edit, one crash, one lost reply, one eviction, one wrong hash; a wallet for all of it, its first cell too small alone | refusals, the frozen file, locked cells without code or that cannot be opened, what the wallet pays, progress |
| `witness_codec` | both commands against both locks; every payload of up to five bytes, a prefix that ends at three; every time | what the contract reads |
| `token_transfer` | every listing of up to three cells of two tokens, amounts 0 to 3 and a short cell; pages of two; every amount to transfer | choice, outputs, failures |
| `lock_zeros`, `token_sent` | the instance of the module's other run | a comment and a message that the code does not keep, section 6 |
| `spend_capacity`, `spend_timelock`, `deploy_mint` | one command: `spend-locked-cell`, `spend-timelock-lock`, `deploy-sudt` | what docs and comments say of it and the code does not keep, section 6 |

Why the bounds suffice. Every comparison of the sUDT script is between sums and
the maximum, and with a maximum of 2 two cells overflow and three cells
reach it; the theorems cover every other bound. A transaction of the ledger
splits, merges and moves cells already with three slots, and the tokens cover
the three kinds of owner. Two entitled commands whose
targets differ race for fee cells, and each races for its own cell with the
transaction that an earlier attempt of its own has sent without learning of it. `MaxCrashes` bounds
`Die` only; a failure that is not a crash may repeat for ever. In `DeployFlow`
every reported or lost deployment costs a cell of the wallet and makes the
chain longer, so that edits, crashes, lost replies, evictions and slips are
budgeted (`Budget`); one of each is enough to interrupt any step, to tear a file, or to
separate what is on disk from what is on the chain, and refusals that come from
races are not bounded. Two versions of one file and two deployments give every
order of their steps. The codec's properties depend on lengths relative to the
prefix only. Bytes have two values, so that four lengths fit a prefix of two
bytes and payloads on both sides of the limit are few. A page of two and three cells
make the third cell invisible.

Deadlock is checked except in `sudt_ledger`, where the ledger may become empty and
then no transaction has an input, and in the runs of `DeployFlow`, whose commands
end: once all have reported and the pool is empty, nothing is left to do. The
models of a single execution have an explicit final step instead. Symmetry is used
in `sudt_ledger` on the slots, which no definition tells apart; the run has no
liveness property.

Fairness. In `SpendFlow` a live process takes its next step, the node commits some
transaction of its pool, and the user repeats a command that failed. That last
one is an assumption about people and not about the code; without it a
command that lost a race has simply failed, because the code has no retry.
`DeployFlow` assumes the same. `CommandsSucceed` says nothing of a behaviour with
an eviction, since no repetition helps a create command whose deployment was
dropped from the pool. It is
stated for commands whose key owns the address and whose arguments are
well-formed, on a wallet that can pay for all of them. The models of a single
execution have no fairness: their loops are bounded by the lists they read.

## 4. Proofs

All are checked by TLAPS for every value of the constants.

Every invariant and every action property of the passing runs is the statement
of a theorem. Each proof module defines the invariant that is inductive
(`Inv`), shows that the initial states have it
and that every action keeps it, one lemma per action, and derives the theorems.
The inductive invariants were checked with TLC on the instances of section 3
before they were proved.

**Data.** `DataProofs` has no system in it. The laws of `Total` (it is a finite
natural number, adds over disjoint sets of cells, is monotone, grows by one
cell's amount when a prefix of a sequence does) follow from those of
`Cardinality`. `Capacity`, `Remaining`, `Values`, `LE` and `FromLE` are recursive
functions, so their laws need induction over the length of a sequence. The
induction is on sets of numbers: a set of naturals that is not empty has a least
element (`Least`, from the well-foundedness of `<`), hence a set that contains 0
and the successors of its elements below n contains 0..n (`SetInduction`), and a
recursive definition has a solution (`RecursionSolution`). From these come
`RemainingAfterPrefix`, `CapacityConcat`, `AfterCapacity` for wallets, `RoundTrip`
(a number that fits a width is read back from its bytes) and `ReadsBelow` (what
is read from some bytes fits them) for witnesses and amounts.

**sUDT script.** `SudtScriptProofs` proves the four safety properties of the run
`sudt_script`. None but the invariant of the loops is inductive alone. The
inductive invariant is the conjunction of the type, `LoopInvariant` (everything
before `idx` has been summed exactly and was decodable, a side left behind was
summed whole, no owner was among the inputs scanned), and the two properties of
the exit code. The interesting case is the overflow in the middle of a group,
where monotonicity of `Total` shows that the whole side overflows.

**Ledger.** `SudtLedgerProofs` proves that every step is a step or a stutter of `TokenSupply` (`LedgerImplementsTokenSupply`), that
cells without an amount neither appear nor disappear without the owner
(`MalformedStayPut`), and that a token nobody can own never exists
(`OwnerlessNeverExists`). The main lemma is a balance argument: the supply after
a transaction is that of the cells left alone plus that of the outputs, and the
script bounds the outputs of a token by its inputs unless an input has the
owner's type, which is then live.

**Locks.** `LockScriptsProofs`: a script that is about to make check n has passed
the n - 1 before it. So the exit code is that of the first failure, and a lock
exits with 0 exactly when `Unlocks` holds (`ExitsZeroIffUnlocksAlways`). That is
what entitles `SpendFlow` to use `Unlocks` for a whole execution.

**Spend commands.** `SpendFlowProofs`, for any number of commands and fee cells.
`AdmittedIsEntitled` and `SignatureCoversUnlessCellLost` are not inductive; what
they need is an account of the wallet. The fee cells that a run has collected are
the first of the wallet and as few as are enough, or one of them has been spent
and will never come back (`Payment`). Hence all runs compete for the first cell,
at most one transaction is pending (`OnePendingAlways`), and when it is committed
exactly a prefix of the wallet goes and one change cell comes. So every step of the
racing commands is a step or a stutter of `LockedCells`
(`SpendFlowImplementsLockedCells`): one cell is spent, for somebody entitled, for
one fee. That a spent cell cannot reappear rests on `Known`: a cell that a transaction creates remembers the
locked cell that died with it. `TimelockKeptAlways` is the safety side of the
finding `spend_timelock`: only a simple-lock run is ever admitted, so no timelock
cell is spent by these commands in any number of attempts.

**Deployment.** `DeployFlowProofs`, for any number of commands, keys, scripts,
versions and mishaps. `MoneyInv` is the same account per key, with the
transactions on the chain as what a spent cell is remembered by, and with
evictions; `PaysForOwnCells` is part of it, by counting the cost of the committed
transactions coin by coin. `MemoryInv` says where each value that a process
holds was read. `FileInv` is what `FrozenIsOfADeployment` needs: whenever the
frozen file is not the IDL of a printed deployment, some deployment has yet to
write it, or has written it and has yet to report, or two have written at once.
With one deploy command per script the theorem has no exception, for any number of
edits, crashes and repetitions: overlapping is the only way to a mixture. `CodeInv` counts. The locked cells that are
stranded, and the processes that have read or are about to use a wrong hash, are
together no more than the slips so far; the codes that some locked cell or some
process in flight names and no transaction stores are no more than the evictions.
Each action moves at most one element between these sets or pays for a new one out
of its budget. `NothingIsMinted`, which no run checks,
uses `ReadsNonzero`: whatever the order of the bytes, an amount that is not zero
is not read as zero, and the script allows nothing else without inputs.

**Witnesses.** `WitnessCodecProofs`, for every size of a byte and every width. The
invariant says where a reader stands after each field and that what it has read
are the bytes at the places of the fields. The client validates a witness whose
signature is zeros, the script reads the signed one, and user and client may have
different locks in mind, so the heart is `SignedParses`: if the first parses, so
does the second. The two locks agree on the layout (`OwnParses`), or the command is
the simple one and signs nothing, or a simple lock reads the zeros of a
timelock's signature as the length of an empty payload and leaves bytes over
(`ZerosDoNotParse`). A payload whose length is cut off by `as u32` also leaves
bytes over, by `ReadsBelow`.

**transfer_tokens.** `TokenTransferProofs`: the cells chosen are the token cells
of the part of the page before `idx`, the total is their sum, and before the loop
ends it is less than the amount, or nothing is chosen. A panic in the middle of
the page is about the whole page because sums only grow (`ReadMore`).

The assumptions are those of the modules, and TLC evaluates them in the runs:
slots and locked cells are finite, tokens and other types are disjoint, an owner
hash is not "no type", the transactions of a script have the shape of the syscalls,
hashes are injective and not zero on the payloads of an instance, the cells of a
wallet are live cells of its key, a prefix of a length is not empty and not wider
than a signature, times fit their field.

`PaysForOwnCells` for a command that runs with another's address, and the cases of
a secret that does not match a simple-lock's hash, are in no instance; the theorems
`PaysForOwnCellsAlways` and `AdmittedIsEntitledAlways` cover them.

Only model-checked: `EntitledSpends` and `CommandsSucceed`, which are liveness
under fairness; that `Total` is a fold of + (the assumption `UnitsAreSums` of the
run `sudt_script`); and the counterexamples of section 6.

## 5. Plan

Done: every part of section 1 that has behaviour, and a proof of every safety
property of the passing runs. What is left:

1. `DeployFlow` against an abstract specification of a deployed script: what a
   reported deployment promises of the frozen file and of the cells created from
   it, as a refinement like those of the ledger and the spend commands.

## 6. What the code does not keep

Five statements have a run whose counterexample shows that the code does not
keep them; `PROJECT.json` quotes the text.

* `lock_zeros`: a commitment of zeros does not skip the check of the payload
  (README.md:65, timelock-lock main.rs:36); it refuses every payload but the empty
  one.
* `spend_capacity`: the locked cell's capacity is not returned to the spender.
* `spend_timelock`: `spend-timelock-lock` attaches no header dep and so can never
  succeed.
* `deploy_mint`: `deploy-sudt` never mints. Its second transaction finds the fee
  cells of the first, and with fresh ones the script would still refuse it
  (`NothingIsMintedAlways`). Each repetition pays for another code cell.
* `token_sent`: `transfer_tokens` does not spend the cells it has chosen, so the
  node refuses every transfer of an amount that is not zero, and "Transferred"
  (deploy_script.rs:396) is never reached with one.

Other comments that the models contradict, each visible in a property or a
definition:

* A payload that is not empty need not match anything when the args are shorter
  than 65 bytes (timelock-lock main.rs:49), and the args may be longer than 65
  bytes (main.rs:68): `TimelockChecks`, which `FirstFailureDecides` is about.
* The frozen file need not have the bytes that were committed
  (deploy_script.rs:49): two deployments that overlap can both report success and
  leave a mixture (`Torn` in `FrozenIsOfADeployment`), and one that fails, if only
  over an address that does not parse, has replaced the file already (`Balance`
  comes after `Write`).
* Sums need not be equal without the owner (ckb_sudt_script main.rs:63): tokens
  may be burned, as `ExitsZeroIffAccepted` states and a test confirms.
* The draft of `spend_timelock_lock` is not always the transaction that is sent
  (spend.rs:412): `SignatureCoversUnlessCellLost` says when.
* The minted amount would be big-endian (deploy_script.rs:155, against
  README.md:78): see `UdtCell`.
* "Insufficient UDT balance" (deploy_script.rs:321) may be said of a balance that
  suffices but is spread over more than one page: `FailuresAreReal` is about the
  page.

## 7. Not modelled

`keygen.rs`, the test harness, build files and CI have no behaviour to check.
Cryptography, transaction serialisation, cycles and the size-dependent part of
the fee are abstracted. The syscalls are total on what a node lets a script see, so
the `SysError` codes other than the ones above do not occur. That the IDL
client parses a file which it has verified is assumed: the file is the one that
was committed to. The unlock time is whatever the spender writes in the witness,
and there is nothing on the chain to compare it with. Locked cells are spent in
`SpendFlow` and created in `DeployFlow`; the two are not composed, since a created
cell enters `SpendFlow` as one more member of `Locked`.
