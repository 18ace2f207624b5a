----------------------------- MODULE WitnessCodec ----------------------------
(***************************************************************************)
(* The bytes of a witness on their way from a spend command to the lock    *)
(* script. The command encodes its fields, for a timelock with a signature *)
(* of zeros, and lets the IDL client validate them; it then signs, encodes *)
(* again and sends, and the script decodes what it finds. Both readers go  *)
(* through the fields of the Witness struct of the lock, in order. The     *)
(* user may have named a code cell, IDL and locked cell of the other lock. *)
(***************************************************************************)
EXTENDS ByteLayout

CONSTANTS
    SignatureSize,  \* bytes of a signature, 65 in the code
    TimeSize,       \* bytes of unlock_after_ms, 8 in the code
    PrefixSize,     \* bytes of a length prefix, 4 in the code
    Scripts,        \* the spend commands, and the locks they are for
    Payloads,       \* preimages and extra payloads
    Times,          \* values of unlock_after_ms
    Signature       \* what signing yields

ASSUME CodecAssumption ==
    /\ TimeSize \in Nat /\ PrefixSize \in Nat \ {0}
    /\ Scripts \subseteq {"simple", "timelock"}
    /\ Payloads \subseteq Seq(Byte)
    /\ Times \subseteq 0..(Values(TimeSize) - 1)
    /\ Signature \in Seq(Byte) /\ Len(Signature) = SignatureSize
    /\ SignatureSize >= PrefixSize

VARIABLES
    script, payload, time,  \* the command and its arguments, never assigned
    lock,       \* the lock that the other arguments are about
    pc,         \* where the command or the script is
    wire,       \* the witness as it stands
    at,         \* bytes of wire that the reader has passed
    read        \* the fields it has read

given == <<script, lock, payload, time>>
vars == <<given, pc, wire, at, read>>

Ends == {"refused", "decoded", "malformed"}

TypeOK ==
    /\ pc \in {"encode", "validate", "send", "decode"} \cup Ends
    /\ wire \in Seq(Byte)
    /\ at \in 0..Len(wire)
    /\ read \in Seq(Seq(Byte))

Init ==
    /\ script \in Scripts
    /\ lock \in Scripts
    /\ payload \in Payloads
    /\ time \in (IF script = "timelock" THEN Times ELSE {0})
    /\ pc = "encode"
    /\ wire = <<>>
    /\ at = 0
    /\ read = <<>>

(***************************************************************************)
(* The encoders                                                            *)
(***************************************************************************)

\* Mutant: the prefix also counts itself.
EncodeBytes_CountsPrefix(data) ==
    LE(Len(data) + PrefixSize, PrefixSize) \o data

\* The length is cut off to the width of the prefix (`as u32`).
EncodeBytes(data) == LE(Len(data), PrefixSize) \o data

\* Mutant: the time is big-endian.
EncodeTimelock_BigEndian(signature) ==
    signature \o BE(time, TimeSize) \o EncodeBytes(payload)

EncodeTimelock(signature) ==
    signature \o LE(time, TimeSize) \o EncodeBytes(payload)

Encode(signature) ==
    IF script = "timelock" THEN EncodeTimelock(signature)
                           ELSE EncodeBytes(payload)

(***************************************************************************)
(* The readers                                                             *)
(***************************************************************************)
Fixed(n) == [size |-> n, prefixed |-> FALSE]
Prefixed == [size |-> PrefixSize, prefixed |-> TRUE]

\* The Witness structs of the two contracts, as the IDL describes them.
Fields ==
    IF lock = "timelock"
    THEN <<Fixed(SignatureSize), Fixed(TimeSize), Prefixed>>
    ELSE <<Prefixed>>

\* A new reader starts at the first byte.
Restart(stage) ==
    /\ pc' = stage
    /\ at' = 0
    /\ read' = <<>>

EncodeUnsigned ==
    /\ pc = "encode"
    /\ wire' = Encode([i \in 1..SignatureSize |-> 0])
    /\ Restart("validate")
    /\ UNCHANGED given

Halt(result) ==
    /\ pc' = result
    /\ UNCHANGED <<given, wire, at, read>>

Failed == IF pc = "validate" THEN "refused" ELSE "malformed"

\* Mutant: a prefix is believed; what the field lacks is not missed.
ReadField_BelievesPrefix ==
    /\ pc \in {"validate", "decode"}
    /\ Len(read) < Len(Fields)
    /\ LET field  == Fields[Len(read) + 1]
           head   == SubSeq(wire, at + 1, at + field.size)
           length == IF field.prefixed THEN FromLE(head) ELSE 0
       IN  \/ /\ at + field.size > Len(wire)
              /\ Halt(Failed)
           \/ /\ at + field.size <= Len(wire)
              /\ at' = at + field.size + length
              /\ read' = Append(read,
                    IF field.prefixed
                    THEN SubSeq(wire, at + field.size + 1, Min({at', Len(wire)}))
                    ELSE head)
              /\ UNCHANGED <<given, pc, wire>>

\* One field: its fixed bytes, or a prefix and as many bytes as that says.
ReadField ==
    /\ pc \in {"validate", "decode"}
    /\ Len(read) < Len(Fields)
    /\ LET field  == Fields[Len(read) + 1]
           head   == SubSeq(wire, at + 1, at + field.size)
           length == IF field.prefixed THEN FromLE(head) ELSE 0
           end    == at + field.size + length
       IN  \/ /\ at + field.size > Len(wire)
              /\ Halt(Failed)
           \/ /\ at + field.size <= Len(wire)
              /\ end > Len(wire)
              /\ Halt(Failed)
           \/ /\ at + field.size <= Len(wire)
              /\ end <= Len(wire)
              /\ at' = end
              /\ read' = Append(read,
                    IF field.prefixed
                    THEN SubSeq(wire, at + field.size + 1, end) ELSE head)
              /\ UNCHANGED <<given, pc, wire>>

AllRead == Len(read) = Len(Fields)

\* The client refuses trailing bytes. The script is only ever sent what the
\* client has validated.
Validated ==
    /\ pc = "validate"
    /\ AllRead
    /\ Halt(IF at < Len(wire) THEN "refused" ELSE "send")

\* A timelock's witness is encoded again with the signature in it.
SendSigned ==
    /\ pc = "send"
    /\ wire' = Encode(Signature)
    /\ Restart("decode")
    /\ UNCHANGED given

Decoded ==
    /\ pc = "decode"
    /\ AllRead
    /\ Halt("decoded")

Done == pc \in Ends /\ UNCHANGED vars

Next ==
    EncodeUnsigned \/ ReadField \/ Validated \/ SendSigned \/ Decoded \/ Done

Spec == Init /\ [][Next]_vars

------------------------------------------------------------------------------
(***************************************************************************)
(* Properties                                                              *)
(***************************************************************************)

\* What the client has validated the script can read, though the client saw
\* a signature of zeros and the user may have mixed up the locks. What the
\* right script reads is what the user gave: the time, the signature, and the
\* whole payload, never a part of one that is too long for its prefix.
DecodedIsGiven ==
    /\ pc # "malformed"
    /\ pc = "decoded" /\ lock = script =>
          /\ read[Len(read)] = payload
          /\ script = "timelock" =>
                read[1] = Signature /\ FromLE(read[2]) = time

\* The command refuses its own encoding for no other reason than a payload
\* whose length does not fit the prefix, and then before anything is sent.
RefusedOnlyIfTooLong ==
    lock = script =>
        /\ pc = "refused" => Len(payload) >= Values(PrefixSize)
        /\ pc \in {"send", "decode", "decoded"}
             => Len(payload) < Values(PrefixSize)
==============================================================================
