---------------------------- MODULE MCLockScripts ----------------------------
(***************************************************************************)
(* Instance of LockScripts for TLC: every combination of defects of both   *)
(* scripts, with args one byte short, exact and longer at each boundary,   *)
(* and header timestamps on both sides of the unlock time.                 *)
(***************************************************************************)
EXTENDS LockScripts, TLC

CONSTANTS None, Hello, World, hashNone, hashHello, hashWorld, Sig

MCPayloads == {None, Hello, World}
MCHashes == {hashNone, hashHello, hashWorld, ZeroHash}
MCBlake2b == None :> hashNone @@ Hello :> hashHello @@ World :> hashWorld

MCWitnesses ==
    [signature : {Sig, ZeroSignature}, unlock_after_ms : {0, 2},
     extra : MCPayloads]

MCViews ==
    [script : {"simple"}, argsLen : {31, 32, 33},
     hash : MCHashes, witness : MCPayloads \cup {NoWitness}]
    \cup
    [script : {"timelock"}, argsLen : {32, 33, 64, 65, 66},
     hash : {hashHello, ZeroHash}, witness : MCWitnesses \cup {NoWitness},
     header : {1, 2, 3, NoHeader}]
=============================================================================
