------------------------------ MODULE LockRules ------------------------------
(***************************************************************************)
(* What the two lock scripts of contracts/ decide, without state: for each *)
(* script the list of its checks, in the order the code makes them, with   *)
(* the exit code of a failure. LockScripts runs the scripts against these  *)
(* lists, and SpendFlow uses Unlocks as the rule of the node.              *)
(*                                                                         *)
(* A view is what the syscalls show a lock script. Both kinds have the     *)
(* args (their length and the hash in them) and the witness of the first   *)
(* input of the group, or NoWitness when from_witness_args cannot decode   *)
(* it; the timelock also has the timestamp of header dep 0.                *)
(***************************************************************************)
EXTENDS Integers, Sequences

CONSTANTS
    Payloads,       \* preimages and extra payloads
    EmptyPayload,   \* the payload of length zero
    Hashes,         \* 32-byte values
    ZeroHash,       \* 32 zero bytes
    Blake2b,        \* blake2b_256 on Payloads
    Signatures,     \* 65-byte values
    ZeroSignature,  \* 65 zero bytes
    NoWitness,
    NoHeader        \* the transaction has no header dep

\* Distinct payloads have distinct hashes, none of them all zeros.
ASSUME LockAssumption ==
    /\ EmptyPayload \in Payloads
    /\ ZeroHash \in Hashes
    /\ ZeroSignature \in Signatures
    /\ Blake2b \in [Payloads -> Hashes \ {ZeroHash}]
    /\ \A x, y \in Payloads : Blake2b[x] = Blake2b[y] => x = y
    /\ NoHeader \notin Nat

DigestSize    == 32     \* args of simple-lock
PubkeySize    == 33     \* first part of the args of timelock-lock
CommitmentEnd == 65     \* end of args[33..65]

Success           == 0
IndexOutOfBound   == 1
Encoding          == 4
InvalidArgsLength == 10
\* simple-lock numbers its own errors 11 and 12, timelock-lock 11 to 13.
HashMismatch          == 11
SimpleMissingWitness  == 12
SignatureInvalid      == 11
TimelockNotMet        == 12
TimelockMissingWitness == 13

ExitCodes == {Success, IndexOutOfBound, Encoding} \cup 10..13

TimelockWitnesses ==
    [signature : Signatures, unlock_after_ms : Nat, extra : Payloads]

\* A check that failed means a script that exits with its code.
Check(code, ok) == [code |-> code, ok |-> ok]

\* check_hash
SimpleChecks(v) ==
    <<Check(InvalidArgsLength, v.argsLen = DigestSize),
      Check(SimpleMissingWitness, v.witness # NoWitness),
      Check(HashMismatch,
            v.witness # NoWitness => Blake2b[v.witness] = v.hash)>>

\* The commitment is looked at only when the args have room for it and the
\* witness has a payload.
ExtraMatches(v) ==
    v.argsLen >= CommitmentEnd /\ v.witness.extra # EmptyPayload
        => Blake2b[v.witness.extra] = v.hash

\* check_timelock. The signature is only compared with zero.
TimelockChecks(v) ==
    LET given == v.witness # NoWitness IN
    <<Check(InvalidArgsLength, v.argsLen >= PubkeySize),
      Check(TimelockMissingWitness, given),
      Check(IndexOutOfBound, v.header # NoHeader),
      Check(TimelockNotMet,
            given /\ v.header # NoHeader
                => v.header >= v.witness.unlock_after_ms),
      Check(SignatureInvalid, given => v.witness.signature # ZeroSignature),
      Check(Encoding, given => ExtraMatches(v))>>

Checks(v) == IF v.script = "simple" THEN SimpleChecks(v) ELSE TimelockChecks(v)

Unlocks(v) == \A i \in DOMAIN Checks(v) : Checks(v)[i].ok
==============================================================================
