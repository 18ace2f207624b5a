----------------------------- MODULE MCSpendFlow -----------------------------
(***************************************************************************)
(* Instances of SpendFlow for TLC: three fee cells, two simple-lock cells, *)
(* a timelock cell, and the invocations among which the runs choose.       *)
(***************************************************************************)
EXTENDS SpendFlow

CONSTANTS None, Hello, World, hashNone, hashHello, hashWorld,
          owner, other, stale, late, foreign, mistyped, a, b, x

MCPayloads == {None, Hello, World}
MCHashes == {hashNone, hashHello, hashWorld, ZeroHash}
MCBlake2b == None :> hashNone @@ Hello :> hashHello @@ World :> hashWorld

Cell(lock, capacity, from) ==
    [lock |-> lock, capacity |-> capacity, from |-> from]

\* The first cell alone cannot pay for a spend.
MCWallet ==
    [i \in 1..3 |->
        Cell(Sighash, IF i = 1 THEN 61 ELSE 200, <<<<>>, i>>)]

SimpleCell(hash, from) ==
    Cell([script |-> "simple", argsLen |-> DigestSize, hash |-> hash],
         70464, from)
TimelockCell(hash, from) ==
    Cell([script |-> "timelock", argsLen |-> CommitmentEnd, hash |-> hash],
         70464, from)

CellA == SimpleCell(hashHello, a)
CellB == SimpleCell(hashWorld, b)
CellX == TimelockCell(hashHello, x)

Job(target, secret, idlMatches, address) ==
    [target |-> target, secret |-> secret, unlock_after_ms |-> 0,
     idlMatches |-> idlMatches, address |-> address]

AllJobs ==
    owner    :> Job(CellA, Hello, TRUE, "own") @@
    other    :> Job(CellB, World, TRUE, "own") @@
    stale    :> Job(CellA, Hello, FALSE, "own") @@
    foreign  :> Job(CellA, Hello, TRUE, "foreign") @@
    mistyped :> Job(CellA, Hello, TRUE, "malformed") @@
    late     :> Job(CellX, Hello, TRUE, "own")

\* What the invocations of a run are given, and the cells they target.
MCJobs == [p \in Spenders |-> AllJobs[p]]
MCLocked == {AllJobs[p].target : p \in Spenders}
=============================================================================
