---------------------------- MODULE MCWitnessCodec ---------------------------
(***************************************************************************)
(* An instance of WitnessCodec for TLC: bytes of two values and a prefix   *)
(* of two bytes, so that payloads of four bytes and more do not fit it.    *)
(***************************************************************************)
EXTENDS WitnessCodec

MCScripts   == {"simple", "timelock"}
MCPayloads  == BoundedSeq(Byte, 5)
MCSignature == <<1, 1>>
==============================================================================
