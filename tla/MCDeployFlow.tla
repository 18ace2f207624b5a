---------------------------- MODULE MCDeployFlow -----------------------------
(***************************************************************************)
(* Instances of DeployFlow for TLC: one address, and the invocations       *)
(* among which the runs choose. Binaries have one byte, so that a code     *)
(* cell costs 133 CKB and a locked cell dominates the wallet.              *)
(***************************************************************************)
EXTENDS DeployFlow

CONSTANTS alice, first, second, blank, short, minter

FeeCell(a, capacity, i) ==
    [lock |-> a, capacity |-> capacity, from |-> <<<<>>, i>>]

\* The first cell alone cannot pay for a deployment. A locked cell needs the
\* large wallet; deploy-sudt, which deploys whenever it is repeated, soon
\* empties the small one.
MCWallet ==
    alice :> <<FeeCell(alice, 150, 1), FeeCell(alice, 71200, 2),
               FeeCell(alice, 71200, 3)>>

SmallWallet ==
    alice :> <<FeeCell(alice, 150, 1), FeeCell(alice, 300, 2),
               FeeCell(alice, 300, 3)>>

Job(command, script, key, address) ==
    [command |-> command, script |-> script, key |-> key, address |-> address,
     pubkey |-> 33, commitment |-> 32]

AllJobs ==
    first    :> Job("deploy", "timelock", alice, alice) @@
    second   :> Job("deploy", "timelock", alice, alice) @@
    blank    :> [Job("create", "timelock", alice, alice)
                    EXCEPT !.commitment = 0] @@
    short    :> [Job("create", "timelock", alice, alice)
                    EXCEPT !.pubkey = 32] @@
    minter   :> Job("deploy-sudt", "sudt", alice, alice)

MCJobs == [p \in Deployers |-> AllJobs[p]]

MCBudget(edits, crashes, lost, evictions, slips) ==
    [edits |-> edits, crashes |-> crashes, lost |-> lost,
     evictions |-> evictions, slips |-> slips]

OneOfEach == MCBudget(1, 1, 1, 1, 1)
NoFaults  == MCBudget(0, 0, 0, 0, 0)
==============================================================================
