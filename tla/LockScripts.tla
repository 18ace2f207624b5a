----------------------------- MODULE LockScripts -----------------------------
(***************************************************************************)
(* One execution of simple-lock or timelock-lock in the CKB VM: the        *)
(* syscalls and comparisons in the order of check_hash and check_timelock, *)
(* each with its early return.                                             *)
(***************************************************************************)
EXTENDS LockRules

CONSTANT Views      \* what a script may be run on

SimpleViews ==
    [script  : {"simple"},
     argsLen : Nat, hash : Hashes, witness : Payloads \cup {NoWitness}]

TimelockViews ==
    [script  : {"timelock"},
     argsLen : Nat, hash : Hashes, witness : TimelockWitnesses \cup {NoWitness},
     header  : Nat \cup {NoHeader}]

ASSUME ViewsAssumption ==
    /\ Views \subseteq SimpleViews \cup TimelockViews
    /\ NoWitness \notin Payloads \cup TimelockWitnesses

VARIABLES
    view,   \* what the syscalls show, never assigned
    pc,     \* where check_hash or check_timelock is
    exit    \* the exit code, Running before the script has returned

vars == <<view, pc, exit>>

Running == -1

Stages ==
    {"args", "witness", "preimage", "header", "time", "signature", "extra",
     "done"}

TypeOK ==
    /\ view \in Views
    /\ pc \in Stages
    /\ exit \in ExitCodes \cup {Running}

Init ==
    /\ view \in Views
    /\ pc = "args"
    /\ exit = Running

Halt(code) ==
    /\ pc' = "done"
    /\ exit' = code
    /\ UNCHANGED view

\* Return the error of a failed check, or go on.
Require(ok, code, next) ==
    IF ok THEN pc' = next /\ UNCHANGED <<view, exit>> ELSE Halt(code)

Simple == view.script = "simple"

\* Exactly 32 bytes for simple-lock, at least 33 for timelock-lock.
CheckArgs ==
    /\ pc = "args"
    /\ LET fits == IF Simple THEN view.argsLen = DigestSize
                             ELSE view.argsLen >= PubkeySize
       IN  Require(fits, InvalidArgsLength, "witness")

\* from_witness_args(0, GroupInput)
ReadWitness ==
    /\ pc = "witness"
    /\ Require(view.witness # NoWitness,
               IF Simple THEN SimpleMissingWitness ELSE TimelockMissingWitness,
               IF Simple THEN "preimage" ELSE "header")

CheckPreimage ==
    /\ pc = "preimage"
    /\ Halt(IF Blake2b[view.witness] = view.hash
            THEN Success ELSE HashMismatch)

\* Mutant: a missing header dep is unwrapped, which aborts with exit code 101.
LoadHeader_Panics ==
    /\ pc = "header"
    /\ Require(view.header # NoHeader, 101, "time")

\* load_header(0, HeaderDep)?
LoadHeader ==
    /\ pc = "header"
    /\ Require(view.header # NoHeader, IndexOutOfBound, "time")

CheckTime ==
    /\ pc = "time"
    /\ Require(view.header >= view.witness.unlock_after_ms,
               TimelockNotMet, "signature")

CheckSignature ==
    /\ pc = "signature"
    /\ Require(view.witness.signature # ZeroSignature,
               SignatureInvalid, "extra")

\* Mutant: the commitment is checked for shorter args too.
CheckExtra_AnyLength ==
    /\ pc = "extra"
    /\ Halt(IF view.witness.extra # EmptyPayload
               /\ Blake2b[view.witness.extra] # view.hash
            THEN Encoding ELSE Success)

CheckExtra ==
    /\ pc = "extra"
    /\ Halt(IF /\ view.argsLen >= CommitmentEnd
               /\ view.witness.extra # EmptyPayload
               /\ Blake2b[view.witness.extra] # view.hash
            THEN Encoding ELSE Success)

\* The script has exited; nothing happens to it any more.
Exited == pc = "done" /\ UNCHANGED vars

Next ==
    \/ CheckArgs
    \/ ReadWitness
    \/ CheckPreimage
    \/ LoadHeader
    \/ CheckTime
    \/ CheckSignature
    \/ CheckExtra
    \/ Exited

Spec == Init /\ [][Next]_vars

------------------------------------------------------------------------------
(***************************************************************************)
(* Properties                                                              *)
(***************************************************************************)
\* The exit code is decided by the first check that fails, whatever else is
\* wrong with the transaction: 0 when none does, else the code of the first.
FirstFailureDecides ==
    pc = "done" =>
        \/ exit = Success /\ Unlocks(view)
        \/ \E i \in DOMAIN Checks(view) :
              /\ ~Checks(view)[i].ok
              /\ exit = Checks(view)[i].code
              /\ \A j \in 1..(i - 1) : Checks(view)[j].ok

\* README.md:65 and timelock-lock/src/main.rs:36 say of the commitment "all
\* zeros = skip": whatever the payload, it is not what such a cell fails on.
ZerosSkipTheCheck ==
    view.script = "timelock" /\ view.argsLen >= CommitmentEnd
        /\ view.hash = ZeroHash
            => exit # Encoding

==============================================================================
