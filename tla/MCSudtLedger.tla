---------------------------- MODULE MCSudtLedger ----------------------------
(***************************************************************************)
(* Instance of SudtLedger for TLC: three slots, so that a transaction can  *)
(* consume and create up to three cells, and the three kinds of owner: a   *)
(* type-id cell owns Coin, Coin owns Share, and nobody can own Orphan.     *)
(***************************************************************************)
EXTENDS SudtLedger, TLC

CONSTANTS s1, s2, s3, Coin, Share, Orphan, TypeId, LockHash

MCSlots == {s1, s2, s3}
MCTokens == {Coin, Share, Orphan}
MCOwner == Coin :> TypeId @@ Share :> Coin @@ Orphan :> LockHash

\* One cell data too short to decode, and every amount.
MCData == [len : {15}, value : {0}] \cup [len : {16}, value : 0..MaxAmount]

Symmetry == Permutations(MCSlots)
=============================================================================
