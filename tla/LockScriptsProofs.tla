--------------------------- MODULE LockScriptsProofs ---------------------------
(***************************************************************************)
(* Proofs about one execution of a lock script, for every transaction: the *)
(* exit code is the one of the first check that fails, and it is 0 exactly *)
(* when Unlocks holds, which is how SpendFlow uses the scripts.            *)
(*                                                                         *)
(* The inductive invariant is Inv: a script that is about to make check n  *)
(* has passed the n - 1 before it (StageInvariant).                        *)
(***************************************************************************)
EXTENDS LockScripts, TLAPS

\* A check that is boolean is what its record says of it.
LEMMA CheckIs ==
    ASSUME NEW code, NEW ok \in BOOLEAN
    PROVE  Check(code, ok).code = code /\ (Check(code, ok).ok <=> ok)
BY DEF Check

LEMMA CodeIs ==
    ASSUME NEW code, NEW ok
    PROVE  Check(code, ok).code = code
BY DEF Check

\* The checks of a script by number.
LEMMA SimpleChecksAre ==
    ASSUME NEW v, v.script = "simple"
    PROVE  /\ DOMAIN Checks(v) = 1..3
           /\ Checks(v)[1] = Check(InvalidArgsLength, v.argsLen = DigestSize)
           /\ Checks(v)[2] = Check(SimpleMissingWitness,
                                   v.witness # NoWitness)
           /\ Checks(v)[3] = Check(HashMismatch,
                                   v.witness # NoWitness
                                       => Blake2b[v.witness] = v.hash)
BY DEF Checks, SimpleChecks

LEMMA TimelockChecksAre ==
    ASSUME NEW v, v.script # "simple"
    PROVE  /\ DOMAIN Checks(v) = 1..6
           /\ Checks(v)[1] = Check(InvalidArgsLength, v.argsLen >= PubkeySize)
           /\ Checks(v)[2] = Check(TimelockMissingWitness,
                                   v.witness # NoWitness)
           /\ Checks(v)[3] = Check(IndexOutOfBound, v.header # NoHeader)
           /\ Checks(v)[4] = Check(TimelockNotMet,
                                   v.witness # NoWitness
                                     /\ v.header # NoHeader
                                       => v.header
                                            >= v.witness.unlock_after_ms)
           /\ Checks(v)[5] = Check(SignatureInvalid,
                                   v.witness # NoWitness
                                       => v.witness.signature
                                            # ZeroSignature)
           /\ Checks(v)[6] = Check(Encoding,
                                   v.witness # NoWitness
                                       => ExtraMatches(v))
BY DEF Checks, TimelockChecks

\* A timelock cell whose transaction has no header dep stays locked.
LEMMA NoHeaderLocks ==
    ASSUME NEW v, v.script # "simple", v.header = NoHeader
    PROVE  ~Unlocks(v)
<1> DEFINE given == v.header # NoHeader
<1>1. /\ 3 \in DOMAIN Checks(v)
      /\ Checks(v)[3] = Check(IndexOutOfBound, given)
      /\ given \in BOOLEAN /\ ~given
    BY TimelockChecksAre
<1> HIDE DEF given
<1>2. ~Check(IndexOutOfBound, given).ok
    BY <1>1, CheckIs
<1> QED
    BY <1>1, <1>2 DEF Unlocks

------------------------------------------------------------------------------
\* The first n checks have passed.
Passed(n) == \A i \in 1..n : Checks(view)[i].ok

\* What a script that makes a check has behind it.
StageInvariant ==
    /\ pc # "done" => exit = Running
    /\ pc = "witness"   => Passed(1)
    /\ pc = "preimage"  => Simple /\ Passed(2)
    /\ pc = "header"    => ~Simple /\ Passed(2)
    /\ pc = "time"      => ~Simple /\ Passed(3)
    /\ pc = "signature" => ~Simple /\ Passed(4)
    /\ pc = "extra"     => ~Simple /\ Passed(5)

\* The exit code, once there is one, is 0 exactly for a view that unlocks.
ExitsZeroIffUnlocks == pc = "done" => (exit = Success <=> Unlocks(view))

Inv == TypeOK /\ StageInvariant /\ FirstFailureDecides

\* Every step keeps the types.
LEMMA TypeStep == TypeOK /\ [Next]_vars => TypeOK'
BY DEF TypeOK, Next, vars, CheckArgs, ReadWitness, CheckPreimage,
       LoadHeader, CheckTime, CheckSignature, CheckExtra, Exited,
       Require, Halt, Stages, ExitCodes, Running, Success,
       IndexOutOfBound, Encoding, InvalidArgsLength, HashMismatch,
       SimpleMissingWitness, SignatureInvalid, TimelockNotMet,
       TimelockMissingWitness

\* Every state of a lock script has the types declared for it.
THEOREM TypeCorrect == Spec => []TypeOK
<1>1. Init => TypeOK
    BY DEF Init, TypeOK, Stages, Running
<1> QED
    BY <1>1, TypeStep, PTL DEF Spec

\* The number of checks a script has, and a check that fails at its turn.
LEMMA FailsInTurn ==
    ASSUME NEW n \in DOMAIN Checks(view),
           Passed(n - 1), ~Checks(view)[n].ok, Halt(Checks(view)[n].code)
    PROVE  StageInvariant' /\ FirstFailureDecides'
<1>1. pc' = "done" /\ exit' = Checks(view)[n].code /\ view' = view
    BY DEF Halt
<1>2. StageInvariant'
    BY <1>1 DEF StageInvariant
<1>3. FirstFailureDecides'
    BY <1>1 DEF FirstFailureDecides, Passed
<1> QED
    BY <1>2, <1>3

\* A script that passed every check.
LEMMA PassesAll ==
    ASSUME NEW n, DOMAIN Checks(view) = 1..n, Passed(n), Halt(Success)
    PROVE  StageInvariant' /\ FirstFailureDecides'
<1>1. pc' = "done" /\ exit' = Success /\ view' = view
    BY DEF Halt
<1>2. Unlocks(view)
    BY DEF Passed, Unlocks
<1> QED
    BY <1>1, <1>2 DEF StageInvariant, FirstFailureDecides

\* Before the script halts no exit code is there to be wrong.
LEMMA StillRunning ==
    ASSUME pc' # "done"
    PROVE  FirstFailureDecides'
BY DEF FirstFailureDecides


\* A check made by Require at its turn: it fails and the script has halted
\* with its code, or the script goes on with one more check behind it.
LEMMA RequireStep ==
    ASSUME NEW n \in DOMAIN Checks(view), n \in Nat, Passed(n - 1),
           exit = Running,
           NEW code, NEW ok \in BOOLEAN, Checks(view)[n] = Check(code, ok),
           NEW next, next # "done", Require(ok, code, next)
    PROVE  \/ StageInvariant' /\ FirstFailureDecides'
           \/ /\ FirstFailureDecides'
              /\ Passed(n)'
              /\ pc' = next
              /\ exit' = Running
              /\ view' = view
<1>1. Checks(view)[n].code = code /\ (Checks(view)[n].ok <=> ok)
    BY CheckIs
<1>2. CASE ok
    <2>1. pc' = next /\ exit' = Running /\ view' = view
        BY <1>2 DEF Require
    <2>2. Passed(n)
        <3>1. \A i \in 1..n : i = n \/ i \in 1..(n - 1)
            OBVIOUS
        <3> QED
            BY <1>1, <1>2, <3>1 DEF Passed
    <2> QED
        BY <2>1, <2>2, StillRunning DEF Passed
<1>3. CASE ~ok
    BY <1>1, <1>3, FailsInTurn DEF Require
<1> QED
    BY <1>2, <1>3

LEMMA CheckArgsStep ==
    Inv /\ CheckArgs => StageInvariant' /\ FirstFailureDecides'
<1> SUFFICES ASSUME Inv, CheckArgs
             PROVE  StageInvariant' /\ FirstFailureDecides'
    OBVIOUS
<1> DEFINE fits == IF Simple THEN view.argsLen = DigestSize
                             ELSE view.argsLen >= PubkeySize
<1>1. /\ 1 \in DOMAIN Checks(view)
      /\ Checks(view)[1] = Check(InvalidArgsLength, fits)
      /\ fits \in BOOLEAN
    <2>1. CASE Simple
        BY <2>1, SimpleChecksAre DEF Simple
    <2>2. CASE ~Simple
        BY <2>2, TimelockChecksAre DEF Simple
    <2> QED
        BY <2>1, <2>2
<1>2. Passed(1 - 1)
    BY DEF Passed
<1>3. /\ Require(fits, InvalidArgsLength, "witness")
      /\ exit = Running
    BY DEF CheckArgs, Inv, StageInvariant
<1> HIDE DEF fits
<1>4. \/ StageInvariant' /\ FirstFailureDecides'
      \/ FirstFailureDecides' /\ Passed(1)' /\ pc' = "witness"
            /\ exit' = Running
    BY <1>1, <1>2, <1>3, RequireStep
<1> QED
    BY <1>4 DEF StageInvariant

LEMMA ReadWitnessStep ==
    Inv /\ ReadWitness => StageInvariant' /\ FirstFailureDecides'
<1> SUFFICES ASSUME Inv, ReadWitness
             PROVE  StageInvariant' /\ FirstFailureDecides'
    OBVIOUS
<1> DEFINE code == IF Simple THEN SimpleMissingWitness
                             ELSE TimelockMissingWitness
           next == IF Simple THEN "preimage" ELSE "header"
           given == view.witness # NoWitness
<1>1. /\ 2 \in DOMAIN Checks(view)
      /\ Checks(view)[2] = Check(code, given)
      /\ given \in BOOLEAN
    BY SimpleChecksAre, TimelockChecksAre DEF Simple
<1>2. Passed(2 - 1) /\ exit = Running /\ Require(given, code, next)
    BY DEF ReadWitness, Inv, StageInvariant
<1>3. next # "done" /\ next = IF Simple THEN "preimage" ELSE "header"
    OBVIOUS
<1> HIDE DEF code, next, given
<1>4. \/ StageInvariant' /\ FirstFailureDecides'
      \/ FirstFailureDecides' /\ Passed(2)' /\ pc' = next
            /\ exit' = Running /\ view' = view
    BY <1>1, <1>2, <1>3, RequireStep
<1> QED
    BY <1>3, <1>4 DEF StageInvariant, Simple

LEMMA LoadHeaderStep ==
    Inv /\ LoadHeader => StageInvariant' /\ FirstFailureDecides'
<1> SUFFICES ASSUME Inv, LoadHeader
             PROVE  StageInvariant' /\ FirstFailureDecides'
    OBVIOUS
<1>1. /\ ~Simple /\ Passed(3 - 1) /\ exit = Running
      /\ Require(view.header # NoHeader, IndexOutOfBound, "time")
    BY DEF LoadHeader, Inv, StageInvariant
<1>2. /\ 3 \in DOMAIN Checks(view)
      /\ Checks(view)[3] = Check(IndexOutOfBound, view.header # NoHeader)
    BY <1>1, TimelockChecksAre DEF Simple
<1>3. \/ StageInvariant' /\ FirstFailureDecides'
      \/ FirstFailureDecides' /\ Passed(3)' /\ pc' = "time"
            /\ exit' = Running /\ view' = view
    BY <1>1, <1>2, RequireStep
<1> QED
    BY <1>1, <1>3 DEF StageInvariant, Simple

\* Behind the second check there is a witness.
LEMMA WitnessGiven ==
    ASSUME Checks(view)[2].ok
    PROVE  view.witness # NoWitness
<1> DEFINE given == view.witness # NoWitness
<1>1. CASE Simple
    <2>1. /\ Checks(view)[2] = Check(SimpleMissingWitness, given)
          /\ given \in BOOLEAN
        BY <1>1, SimpleChecksAre DEF Simple
    <2> HIDE DEF given
    <2>2. given
        BY <2>1, CheckIs
    <2> QED
        BY <2>2 DEF given
<1>2. CASE ~Simple
    <2>1. /\ Checks(view)[2] = Check(TimelockMissingWitness, given)
          /\ given \in BOOLEAN
        BY <1>2, TimelockChecksAre DEF Simple
    <2> HIDE DEF given
    <2>2. given
        BY <2>1, CheckIs
    <2> QED
        BY <2>2 DEF given
<1> QED
    BY <1>1, <1>2

LEMMA CheckTimeStep ==
    Inv /\ CheckTime => StageInvariant' /\ FirstFailureDecides'
<1> SUFFICES ASSUME Inv, CheckTime
             PROVE  StageInvariant' /\ FirstFailureDecides'
    OBVIOUS
<1> DEFINE late == view.header >= view.witness.unlock_after_ms
<1>1. /\ ~Simple /\ Passed(3) /\ exit = Running
      /\ Require(late, TimelockNotMet, "signature")
    BY DEF CheckTime, Inv, StageInvariant
<1>2. view.witness # NoWitness /\ view.header # NoHeader
    <2>1. Checks(view)[2].ok /\ Checks(view)[3].ok
        BY <1>1 DEF Passed
    <2>2. Checks(view)[3] = Check(IndexOutOfBound, view.header # NoHeader)
        BY <1>1, TimelockChecksAre DEF Simple
    <2> QED
        BY <2>1, <2>2, WitnessGiven, CheckIs
<1>3. /\ 4 \in DOMAIN Checks(view)
      /\ Checks(view)[4] = Check(TimelockNotMet, late)
      /\ late \in BOOLEAN
    BY <1>1, <1>2, TimelockChecksAre DEF Simple
<1> HIDE DEF late
<1>4. \/ StageInvariant' /\ FirstFailureDecides'
      \/ FirstFailureDecides' /\ Passed(4)' /\ pc' = "signature"
            /\ exit' = Running /\ view' = view
    BY <1>1, <1>3, RequireStep
<1> QED
    BY <1>1, <1>4 DEF StageInvariant, Simple

LEMMA CheckSignatureStep ==
    Inv /\ CheckSignature => StageInvariant' /\ FirstFailureDecides'
<1> SUFFICES ASSUME Inv, CheckSignature
             PROVE  StageInvariant' /\ FirstFailureDecides'
    OBVIOUS
<1> DEFINE signed == view.witness.signature # ZeroSignature
<1>1. /\ ~Simple /\ Passed(5 - 1) /\ exit = Running
      /\ Require(signed, SignatureInvalid, "extra")
    BY DEF CheckSignature, Inv, StageInvariant
<1>2. view.witness # NoWitness
    BY <1>1, WitnessGiven DEF Passed
<1>3. /\ 5 \in DOMAIN Checks(view)
      /\ Checks(view)[5] = Check(SignatureInvalid, signed)
      /\ signed \in BOOLEAN
    BY <1>1, <1>2, TimelockChecksAre DEF Simple
<1> HIDE DEF signed
<1>4. \/ StageInvariant' /\ FirstFailureDecides'
      \/ FirstFailureDecides' /\ Passed(5)' /\ pc' = "extra"
            /\ exit' = Running /\ view' = view
    BY <1>1, <1>3, RequireStep
<1> QED
    BY <1>1, <1>4 DEF StageInvariant, Simple

\* The last check of a script, which halts either way.
LEMMA LastCheck ==
    ASSUME NEW n \in Nat \ {0}, DOMAIN Checks(view) = 1..n, Passed(n - 1),
           NEW code, NEW ok \in BOOLEAN, Checks(view)[n] = Check(code, ok),
           Halt(IF ok THEN Success ELSE code)
    PROVE  StageInvariant' /\ FirstFailureDecides'
<1>1. Checks(view)[n].code = code /\ (Checks(view)[n].ok <=> ok)
    BY CheckIs
<1>2. CASE ok
    <2>1. Passed(n)
        <3>1. \A i \in 1..n : i = n \/ i \in 1..(n - 1)
            OBVIOUS
        <3> QED
            BY <1>1, <1>2, <3>1 DEF Passed
    <2> QED
        BY <1>2, <2>1, PassesAll
<1>3. CASE ~ok
    BY <1>1, <1>3, FailsInTurn
<1> QED
    BY <1>2, <1>3

LEMMA CheckPreimageStep ==
    Inv /\ CheckPreimage => StageInvariant' /\ FirstFailureDecides'
<1> SUFFICES ASSUME Inv, CheckPreimage
             PROVE  StageInvariant' /\ FirstFailureDecides'
    OBVIOUS
<1> DEFINE ok == Blake2b[view.witness] = view.hash
<1>1. Simple /\ Passed(3 - 1) /\ Halt(IF ok THEN Success ELSE HashMismatch)
    BY DEF CheckPreimage, Inv, StageInvariant
<1>2. view.witness # NoWitness
    BY <1>1, WitnessGiven DEF Passed
<1>3. /\ DOMAIN Checks(view) = 1..3
      /\ Checks(view)[3] = Check(HashMismatch, ok)
      /\ ok \in BOOLEAN
    BY <1>1, <1>2, SimpleChecksAre DEF Simple
<1> HIDE DEF ok
<1> QED
    BY <1>1, <1>3, LastCheck

LEMMA CheckExtraStep ==
    Inv /\ CheckExtra => StageInvariant' /\ FirstFailureDecides'
<1> SUFFICES ASSUME Inv, CheckExtra
             PROVE  StageInvariant' /\ FirstFailureDecides'
    OBVIOUS
<1> DEFINE ok == ExtraMatches(view)
<1>1. ~Simple /\ Passed(6 - 1) /\ Halt(IF ok THEN Success ELSE Encoding)
    BY DEF CheckExtra, Inv, StageInvariant, ExtraMatches
<1>2. view.witness # NoWitness
    BY <1>1, WitnessGiven DEF Passed
<1>3. /\ DOMAIN Checks(view) = 1..6
      /\ Checks(view)[6] = Check(Encoding, ok)
      /\ ok \in BOOLEAN
    BY <1>1, <1>2, TimelockChecksAre DEF Simple, ExtraMatches
<1> HIDE DEF ok
<1> QED
    BY <1>1, <1>3, LastCheck

LEMMA InvInit == Init => Inv
BY DEF Init, Inv, TypeOK, StageInvariant, FirstFailureDecides, Stages, Running

LEMMA InvStep == Inv /\ [Next]_vars => Inv'
<1> SUFFICES ASSUME Inv, [Next]_vars
             PROVE  Inv'
    OBVIOUS
<1>1. TypeOK'
    BY TypeStep DEF Inv
<1>2. StageInvariant' /\ FirstFailureDecides'
    <2>1. CASE UNCHANGED vars
        BY <2>1 DEF vars, Inv, StageInvariant, FirstFailureDecides,
                    Passed, Simple
    <2> QED
        BY <2>1, CheckArgsStep, ReadWitnessStep, CheckPreimageStep,
           LoadHeaderStep, CheckTimeStep, CheckSignatureStep,
           CheckExtraStep
        DEF Next, Exited
<1> QED
    BY <1>1, <1>2 DEF Inv

\* The exit code is decided by the first check that fails: the early returns
\* of check_hash and check_timelock make the checks in the order of Checks.
THEOREM FirstFailureDecidesAlways == Spec => []FirstFailureDecides
<1>1. Inv => FirstFailureDecides
    BY DEF Inv
<1> QED
    BY <1>1, InvInit, InvStep, PTL DEF Spec

\* No check fails with code 0, so a script that exits with 0 has passed every
\* check, and one whose checks all pass exits with 0.
LEMMA NoCheckReturnsZero ==
    ASSUME NEW v, NEW i \in DOMAIN Checks(v)
    PROVE  Checks(v)[i].code # Success
<1> DEFINE code == Checks(v)[i].code
<1>1. CASE v.script = "simple"
    <2>1. i \in 1..3 /\ Checks(v)[1].code = InvalidArgsLength
          /\ Checks(v)[2].code = SimpleMissingWitness
          /\ Checks(v)[3].code = HashMismatch
        BY <1>1, SimpleChecksAre, CodeIs, Zenon
    <2>2. code \in {InvalidArgsLength, SimpleMissingWitness, HashMismatch}
        <3>1. i = 1 \/ i = 2 \/ i = 3
            BY <2>1
        <3> QED
            BY <2>1, <3>1
    <2> HIDE DEF code
    <2>3. code # Success
        BY <2>2 DEF Success, InvalidArgsLength, SimpleMissingWitness,
                    HashMismatch
    <2> QED
        BY <2>3 DEF code
<1>2. CASE v.script # "simple"
    <2> DEFINE given == v.witness # NoWitness
               dated == v.header # NoHeader
               long == v.argsLen >= PubkeySize
               late == given /\ dated => v.header >= v.witness.unlock_after_ms
               signed == given => v.witness.signature # ZeroSignature
               matches == given => ExtraMatches(v)
    <2>0. /\ i \in 1..6
          /\ Checks(v)[1] = Check(InvalidArgsLength, long)
          /\ Checks(v)[2] = Check(TimelockMissingWitness, given)
          /\ Checks(v)[3] = Check(IndexOutOfBound, dated)
          /\ Checks(v)[4] = Check(TimelockNotMet, late)
          /\ Checks(v)[5] = Check(SignatureInvalid, signed)
          /\ Checks(v)[6] = Check(Encoding, matches)
        BY <1>2, TimelockChecksAre
    <2> HIDE DEF given, dated, long, late, signed, matches
    <2>1. /\ i \in 1..6
          /\ Checks(v)[1].code = InvalidArgsLength
          /\ Checks(v)[2].code = TimelockMissingWitness
          /\ Checks(v)[3].code = IndexOutOfBound
          /\ Checks(v)[4].code = TimelockNotMet
          /\ Checks(v)[5].code = SignatureInvalid
          /\ Checks(v)[6].code = Encoding
        BY <2>0, CodeIs
    <2>2. code \in {InvalidArgsLength, TimelockMissingWitness,
                    IndexOutOfBound, TimelockNotMet, SignatureInvalid,
                    Encoding}
        <3>1. i = 1 \/ i = 2 \/ i = 3 \/ i = 4 \/ i = 5 \/ i = 6
            BY <2>1
        <3> QED
            BY <2>1, <3>1
    <2> HIDE DEF code
    <2>3. code # Success
        BY <2>2 DEF Success, InvalidArgsLength, TimelockMissingWitness,
                    IndexOutOfBound, TimelockNotMet, SignatureInvalid,
                    Encoding
    <2> QED
        BY <2>3 DEF code
<1> QED
    BY <1>1, <1>2

\* What SpendFlow takes for the verdict of a lock script, Unlocks, is the
\* verdict of the execution modelled here: exit code 0 exactly when it holds.
THEOREM ExitsZeroIffUnlocksAlways == Spec => []ExitsZeroIffUnlocks
<1>1. Inv => ExitsZeroIffUnlocks
    BY NoCheckReturnsZero
    DEF Inv, ExitsZeroIffUnlocks, FirstFailureDecides, Unlocks
<1> QED
    BY <1>1, InvInit, InvStep, PTL DEF Spec
==============================================================================
