------------------------- MODULE WitnessCodecProofs -------------------------
(***************************************************************************)
(* Proofs about WitnessCodec, for every size of a byte, every width of a   *)
(* signature, a time and a prefix, and every set of payloads. The          *)
(* inductive invariant says where a reader stands and what it has read;    *)
(* the argument is that a witness that parses with a signature of zeros    *)
(* parses with the signature of the user too, whichever lock reads it.     *)
(***************************************************************************)
EXTENDS WitnessCodec, DataProofs

------------------------------------------------------------------------------
(***************************************************************************)
(* The inductive invariant.                                                *)
(***************************************************************************)
\* Where the fields of the lock that is read are in a witness.
Skip == IF lock = "timelock" THEN SignatureSize + TimeSize ELSE 0

Count(w) == FromLE(SubSeq(w, Skip + 1, Skip + PrefixSize))

Body(w) == Skip + PrefixSize + Count(w)

\* A reader goes through w and is left with no byte.
Parses(w) == Skip + PrefixSize <= Len(w) /\ Body(w) = Len(w)

Zeros == [i \in 1..SignatureSize |-> 0]

Given ==
    /\ script \in {"simple", "timelock"} /\ lock \in {"simple", "timelock"}
    /\ payload \in Seq(Byte) /\ time \in Nat
    /\ script = "timelock" => time < Values(TimeSize)
    /\ pc \in {"encode", "validate", "send", "decode"} \cup Ends

\* The client has seen the witness with zeros, the script sees the signed one.
WireOk ==
    /\ pc = "encode" => wire = <<>> /\ read = <<>>
    /\ pc \in {"validate", "refused", "send"} => wire = Encode(Zeros)
    /\ pc \in {"decode", "decoded", "malformed"} => wire = Encode(Signature)

\* Where a reader stands after that many fields.
Position(n) ==
    IF n = 0 THEN 0
    ELSE IF n = Len(Fields) THEN Body(wire)
    ELSE IF n = 1 THEN SignatureSize ELSE SignatureSize + TimeSize

\* What a reader has read is the bytes at the places of the fields.
Reading ==
    /\ read \in Seq(Seq(Byte)) /\ Len(read) \in 0..Len(Fields)
    /\ at \in 0..Len(wire) /\ at = Position(Len(read))
    /\ lock = "timelock" =>
          /\ Len(read) >= 1 => read[1] = SubSeq(wire, 1, SignatureSize)
          /\ Len(read) >= 2 =>
                read[2] = SubSeq(wire, SignatureSize + 1,
                                       SignatureSize + TimeSize)
    /\ AllRead =>
          /\ Skip + PrefixSize <= Len(wire)
          /\ read[Len(read)] = SubSeq(wire, Skip + PrefixSize + 1, at)

\* What the client has let pass, and why it has refused.
Checked ==
    /\ pc \in {"send", "decode", "decoded"} => Parses(Encode(Zeros))
    /\ pc # "malformed" /\ (pc = "decoded" => AllRead)
    /\ lock = script /\ pc = "refused" => Len(payload) >= Values(PrefixSize)

Inv == Given /\ WireOk /\ Reading /\ Checked

------------------------------------------------------------------------------
(***************************************************************************)
(* What is in an encoding.                                                 *)
(***************************************************************************)
LEMMA Sizes ==
    /\ SignatureSize \in Nat /\ TimeSize \in Nat /\ PrefixSize \in Nat \ {0}
    /\ SignatureSize >= PrefixSize
    /\ Zeros \in Seq(Byte) /\ Len(Zeros) = SignatureSize
    /\ Signature \in Seq(Byte) /\ Len(Signature) = SignatureSize
<1>1. SignatureSize \in Nat
    BY CodecAssumption
<1>2. 0 \in Byte
    BY BaseAssumption DEF Byte
<1>3. Zeros \in Seq(Byte) /\ Len(Zeros) = SignatureSize
    BY <1>1, <1>2 DEF Zeros
<1> QED
    BY <1>1, <1>3, CodecAssumption

\* From offset o on, w has the length of the payload and then the payload.
EndsWith(w, o) ==
    /\ w \in Seq(Byte) /\ Len(w) = o + PrefixSize + Len(payload)
    /\ SubSeq(w, o + 1, o + PrefixSize) = LE(Len(payload), PrefixSize)
    /\ SubSeq(w, o + PrefixSize + 1, o + PrefixSize + Len(payload)) = payload

LEMMA EncodeBytesIs ==
    ASSUME payload \in Seq(Byte)
    PROVE  EndsWith(EncodeBytes(payload), 0)
<1> DEFINE p == LE(Len(payload), PrefixSize)
           e == EncodeBytes(payload)
           n == Len(payload)
<1>1. p \in Seq(Byte) /\ Len(p) = PrefixSize /\ PrefixSize \in Nat
      /\ n \in Nat
    <2>1. PrefixSize \in Nat /\ n \in Nat
        BY Sizes
    <2> HIDE DEF n
    <2> QED
        BY <2>1, LEIs DEF n
<1>2. e = p \o payload
    BY DEF EncodeBytes
<1> HIDE DEF p, e
<1>3. e \in Seq(Byte) /\ Len(e) = PrefixSize + n
    <2>1. p \o payload \in Seq(Byte)
          /\ Len(p \o payload) = Len(p) + Len(payload)
        BY <1>1
    <2> QED
        BY <1>1, <1>2, <2>1
<1>4. SubSeq(e, 1, PrefixSize) = p
    <2>1. 1 \in 1..(Len(p) + 1) /\ PrefixSize \in (1 - 1)..Len(p)
        BY <1>1
    <2>2. SubSeq(p \o payload, 1, PrefixSize) = SubSeq(p, 1, PrefixSize)
        BY <1>1, <2>1, SubSeqLeft
    <2> QED
        BY <1>1, <1>2, <2>2, SubSeqAll
<1>5. SubSeq(e, PrefixSize + 1, PrefixSize + n) = payload
    <2>1. 1 \in 1..(Len(payload) + 1) /\ n \in (1 - 1)..Len(payload)
        BY <1>1
    <2>2. SubSeq(p \o payload, Len(p) + 1, Len(p) + n) = SubSeq(payload, 1, n)
        BY <1>1, <2>1, SubSeqRight
    <2> QED
        BY <1>1, <1>2, <2>2, SubSeqAll
<1>6. /\ 0 + PrefixSize + n = PrefixSize + n /\ 0 + 1 = 1
      /\ 0 + PrefixSize = PrefixSize /\ 0 + PrefixSize + 1 = PrefixSize + 1
    BY <1>1
<1> HIDE DEF n
<1> QED
    BY <1>3, <1>4, <1>5, <1>6 DEF EndsWith, e, p, n

LEMMA EncodeAfter ==
    ASSUME payload \in Seq(Byte), NEW u \in Seq(Byte)
    PROVE  EndsWith(u \o EncodeBytes(payload), Len(u))
<1> DEFINE e == EncodeBytes(payload)
           n == Len(payload)
           o == Len(u)
<1>1. /\ e \in Seq(Byte) /\ Len(e) = PrefixSize + n
      /\ SubSeq(e, 1, PrefixSize) = LE(n, PrefixSize)
      /\ SubSeq(e, PrefixSize + 1, PrefixSize + n) = payload
      /\ n \in Nat /\ o \in Nat /\ PrefixSize \in Nat
    <2>1. EndsWith(e, 0) /\ PrefixSize \in Nat /\ n \in Nat /\ o \in Nat
        BY EncodeBytesIs, Sizes
    <2>2. /\ 0 + PrefixSize + n = PrefixSize + n /\ 0 + 1 = 1
          /\ 0 + PrefixSize = PrefixSize /\ 0 + PrefixSize + 1 = PrefixSize + 1
        BY <2>1
    <2> HIDE DEF e, o
    <2> QED
        BY <2>1, <2>2 DEF EndsWith
<1> HIDE DEF e, n, o
<1>2. u \o e \in Seq(Byte) /\ Len(u \o e) = o + PrefixSize + n
    <2>1. e \in Seq(Byte)
        BY <1>1
    <2>2. u \o e \in Seq(Byte) /\ Len(u \o e) = Len(u) + Len(e)
        BY <2>1
    <2> QED
        BY <1>1, <2>2 DEF o
<1>3. SubSeq(u \o e, o + 1, o + PrefixSize) = LE(n, PrefixSize)
    <2>1. 1 \in 1..(Len(e) + 1) /\ PrefixSize \in (1 - 1)..Len(e)
        BY <1>1
    <2> QED
        BY <1>1, <2>1, SubSeqRight DEF o
<1>4. SubSeq(u \o e, o + PrefixSize + 1, o + PrefixSize + n) = payload
    <2> DEFINE a == PrefixSize + 1
               b == PrefixSize + n
    <2>1. a \in 1..(Len(e) + 1) /\ b \in (a - 1)..Len(e)
          /\ o + PrefixSize + 1 = o + a /\ o + PrefixSize + n = o + b
        BY <1>1
    <2>2. SubSeq(e, a, b) = payload
        BY <1>1
    <2> HIDE DEF a, b
    <2>3. SubSeq(u \o e, Len(u) + a, Len(u) + b) = SubSeq(e, a, b)
        BY <1>1, <2>1, SubSeqRight
    <2> QED
        BY <2>1, <2>2, <2>3 DEF o
<1> QED
    BY <1>2, <1>3, <1>4 DEF EndsWith, e, n, o

\* Where the last field of the script's own encoding starts.
Offset == IF script = "timelock" THEN SignatureSize + TimeSize ELSE 0

\* The fields before it.
BeginsWith(w, sig) ==
    script = "timelock" =>
        /\ SubSeq(w, 1, SignatureSize) = sig
        /\ SubSeq(w, SignatureSize + 1, SignatureSize + TimeSize)
             = LE(time, TimeSize)

LEMMA EncodingIs ==
    ASSUME Given, NEW sig \in Seq(Byte), Len(sig) = SignatureSize
    PROVE  EndsWith(Encode(sig), Offset) /\ BeginsWith(Encode(sig), sig)
<1>1. payload \in Seq(Byte) /\ time \in Nat
      /\ SignatureSize \in Nat /\ TimeSize \in Nat
    BY Sizes DEF Given
<1>2. CASE script # "timelock"
    BY <1>1, <1>2, EncodeBytesIs DEF Encode, Offset, BeginsWith
<1>3. CASE script = "timelock"
    <2> DEFINE t == LE(time, TimeSize)
               u == sig \o t
               e == EncodeBytes(payload)
    <2>1. t \in Seq(Byte) /\ Len(t) = TimeSize
        BY <1>1, LEIs
    <2>2. e \in Seq(Byte)
        BY <1>1, EncodeBytesIs DEF EndsWith
    <2>3. Encode(sig) = u \o e
        BY <1>3 DEF Encode, EncodeTimelock
    <2> HIDE DEF t, e
    <2>4. u \in Seq(Byte) /\ Len(u) = SignatureSize + TimeSize
        BY <1>1, <2>1
    <2>5. EndsWith(u \o e, Len(u))
        BY <1>1, <2>4, EncodeAfter DEF e
    <2>6. SubSeq(u \o e, 1, SignatureSize) = sig
        <3>1. /\ 1 \in 1..(Len(u) + 1) /\ SignatureSize \in (1 - 1)..Len(u)
              /\ 1 \in 1..(Len(sig) + 1) /\ SignatureSize \in (1 - 1)..Len(sig)
            BY <1>1, <2>4
        <3>2. SubSeq(sig \o t, 1, SignatureSize) = SubSeq(sig, 1, SignatureSize)
            BY <2>1, <3>1, SubSeqLeft
        <3>3. SubSeq(sig, 1, SignatureSize) = sig
            BY SubSeqAll
        <3> HIDE DEF u
        <3>4. SubSeq(u \o e, 1, SignatureSize) = SubSeq(u, 1, SignatureSize)
            BY <2>2, <2>4, <3>1, SubSeqLeft
        <3> QED
            BY <3>2, <3>3, <3>4 DEF u
    <2>7. SubSeq(u \o e, SignatureSize + 1, SignatureSize + TimeSize) = t
        <3> DEFINE a == SignatureSize + 1
                   b == SignatureSize + TimeSize
        <3>1. /\ a \in 1..(Len(u) + 1) /\ b \in (a - 1)..Len(u)
              /\ 1 \in 1..(Len(t) + 1) /\ TimeSize \in (1 - 1)..Len(t)
            BY <1>1, <2>1, <2>4
        <3>2. SubSeq(sig \o t, Len(sig) + 1, Len(sig) + TimeSize)
                = SubSeq(t, 1, TimeSize)
            BY <2>1, <3>1, SubSeqRight
        <3>3. SubSeq(t, 1, TimeSize) = t
            BY <2>1, SubSeqAll
        <3>4. SubSeq(u, a, b) = t
            BY <3>2, <3>3
        <3> HIDE DEF u, a, b
        <3>5. SubSeq(u \o e, a, b) = SubSeq(u, a, b)
            BY <2>2, <2>4, <3>1, SubSeqLeft
        <3> QED
            BY <3>4, <3>5 DEF a, b
    <2> QED
        BY <1>3, <2>3, <2>4, <2>5, <2>6, <2>7 DEF Offset, BeginsWith, t
<1> QED
    BY <1>2, <1>3

------------------------------------------------------------------------------
(***************************************************************************)
(* Which encodings parse.                                                  *)
(***************************************************************************)
LEMMA SkipIs == Skip \in Nat
BY Sizes DEF Skip

\* The length that a witness claims for its last field.
LEMMA CountIs ==
    ASSUME NEW w \in Seq(Byte), Skip + PrefixSize <= Len(w)
    PROVE  Count(w) \in Nat /\ Body(w) \in Nat
<1> DEFINE h == SubSeq(w, Skip + 1, Skip + PrefixSize)
<1>1. Skip \in Nat /\ PrefixSize \in Nat
    BY SkipIs, Sizes
<1>2. h \in Seq(Byte)
    BY <1>1
<1> HIDE DEF h
<1>3. FromLE(h) \in Nat
    BY <1>2, ReadsBelow
<1>4. Count(w) \in Nat
    BY <1>3 DEF Count, h
<1> QED
    BY <1>1, <1>4 DEF Body

\* A lock parses what its own command encodes, unless the payload is longer
\* than its prefix can say; then the cut off length leaves bytes over.
LEMMA OwnParses ==
    ASSUME Given, lock = script,
           NEW sig \in Seq(Byte), Len(sig) = SignatureSize
    PROVE  /\ Skip + PrefixSize <= Len(Encode(sig))
           /\ Len(payload) < Values(PrefixSize)
                => Count(Encode(sig)) = Len(payload)
           /\ Parses(Encode(sig)) <=> Len(payload) < Values(PrefixSize)
<1> DEFINE w == Encode(sig)
           n == Len(payload)
           h == LE(n, PrefixSize)
<1>1. n \in Nat /\ PrefixSize \in Nat /\ Skip \in Nat
    BY Sizes, SkipIs DEF Given
<1>2. Offset = Skip
    BY DEF Offset, Skip
<1>3. EndsWith(w, Skip)
    BY <1>2, EncodingIs
<1> HIDE DEF w, n, h
<1>4. Len(w) = Skip + PrefixSize + n /\ Count(w) = FromLE(h)
    BY <1>3 DEF EndsWith, Count, n, h
<1>5. h \in Seq(Byte) /\ Len(h) = PrefixSize
    BY <1>1, LEIs DEF h
<1>6. FromLE(h) \in Nat /\ FromLE(h) < Values(PrefixSize)
    BY <1>5, ReadsBelow
<1>7. n < Values(PrefixSize) => FromLE(h) = n
    BY <1>1, RoundTrip DEF h
<1>8. Parses(w) <=> FromLE(h) = n
    BY <1>1, <1>4, <1>6 DEF Parses, Body
<1>9. Parses(w) <=> n < Values(PrefixSize)
    BY <1>6, <1>7, <1>8
<1> QED
    BY <1>1, <1>4, <1>7, <1>9 DEF w, n

\* A simple lock does not parse the encoding of a timelock: it takes the
\* first zeros of the signature for the length of an empty payload.
LEMMA ZerosDoNotParse ==
    ASSUME Given, script = "timelock", lock # "timelock"
    PROVE  ~Parses(Encode(Zeros))
<1> DEFINE w == Encode(Zeros)
           h == SubSeq(w, 1, PrefixSize)
<1>1. /\ SignatureSize \in Nat /\ TimeSize \in Nat /\ Len(payload) \in Nat
      /\ PrefixSize \in Nat \ {0} /\ SignatureSize >= PrefixSize
    BY Sizes DEF Given
<1>2. EndsWith(w, Offset) /\ BeginsWith(w, Zeros)
    BY Sizes, EncodingIs
<1> HIDE DEF w
<1>3. /\ w \in Seq(Byte)
      /\ Len(w) = SignatureSize + TimeSize + PrefixSize + Len(payload)
      /\ SubSeq(w, 1, SignatureSize) = Zeros
    BY <1>2 DEF EndsWith, BeginsWith, Offset
<1>4. h \in Seq(Byte) /\ Len(h) = PrefixSize
      /\ \A i \in 1..PrefixSize : h[i] = w[i]
    BY <1>1, <1>3
<1>5. \A i \in 1..SignatureSize : SubSeq(w, 1, SignatureSize)[i] = w[i]
    BY <1>1, <1>3
<1>6. \A i \in 1..SignatureSize : w[i] = 0
    BY <1>3, <1>5 DEF Zeros
<1>7. \A i \in 1..PrefixSize : i \in 1..SignatureSize
    BY <1>1
<1> HIDE DEF h
<1>8. AllZero(h)
    BY <1>4, <1>6, <1>7 DEF AllZero
<1>9. FromLE(h) = 0
    BY <1>4, <1>8, ReadsZero
<1>10. Skip = 0 /\ 0 + 1 = 1 /\ 0 + PrefixSize = PrefixSize
    BY <1>1 DEF Skip
<1>11. Count(w) = 0
    BY <1>9, <1>10 DEF Count, h
<1>12. Body(w) = PrefixSize
    BY <1>1, <1>10, <1>11 DEF Body
<1> QED
    BY <1>1, <1>3, <1>12 DEF Parses, w

\* So whatever the client lets pass, with a signature of zeros, the script
\* reads to its end.
LEMMA SignedParses ==
    ASSUME Given, Parses(Encode(Zeros))
    PROVE  Parses(Encode(Signature))
<1>1. CASE script # "timelock"
    BY <1>1 DEF Encode
<1>2. CASE script = "timelock" /\ lock = "timelock"
    <2>1. Len(payload) < Values(PrefixSize)
        BY <1>2, Sizes, OwnParses
    <2> QED
        BY <1>2, <2>1, Sizes, OwnParses
<1>3. CASE script = "timelock" /\ lock # "timelock"
    BY <1>3, ZerosDoNotParse
<1> QED
    BY <1>1, <1>2, <1>3

------------------------------------------------------------------------------
(***************************************************************************)
(* The steps.                                                              *)
(***************************************************************************)
\* The arguments stay, so the layout stays.
LEMMA LayoutStays ==
    ASSUME UNCHANGED given
    PROVE  /\ Skip' = Skip /\ Fields' = Fields
           /\ Encode(Zeros)' = Encode(Zeros)
           /\ Encode(Signature)' = Encode(Signature)
           /\ Parses(Encode(Zeros))' = Parses(Encode(Zeros))
<1>1. /\ script' = script /\ lock' = lock /\ payload' = payload
      /\ time' = time
    BY DEF given
<1>2. Skip' = Skip /\ Fields' = Fields
    BY <1>1 DEF Skip, Fields
<1>3. Encode(Zeros)' = Encode(Zeros) /\ Encode(Signature)' = Encode(Signature)
    BY <1>1 DEF Encode, EncodeTimelock, EncodeBytes, Zeros
<1>4. Parses(Encode(Zeros))' = Parses(Encode(Zeros))
    BY <1>2, <1>3 DEF Parses, Body, Count
<1> QED
    BY <1>2, <1>3, <1>4

\* The next field is the last one, or one of the two before it in a timelock.
LEMMA FieldsAre ==
    ASSUME lock \in {"simple", "timelock"}
    PROVE  /\ Len(Fields) = IF lock = "timelock" THEN 3 ELSE 1
           /\ Fields[Len(Fields)] = Prefixed
           /\ lock = "timelock" => /\ Fields[1] = Fixed(SignatureSize)
                                   /\ Fields[2] = Fixed(TimeSize)
<1>1. CASE lock = "timelock"
    BY <1>1 DEF Fields
<1>2. CASE lock # "timelock"
    BY <1>2 DEF Fields
<1> QED
    BY <1>1, <1>2

\* A new reader has read nothing.
LEMMA RestartReading ==
    ASSUME lock' \in {"simple", "timelock"}, wire' \in Seq(Byte),
           at' = 0, read' = <<>>
    PROVE  Reading'
<1>1. Len(Fields') # 0
    <2>1. Fields' = IF lock' = "timelock"
                    THEN <<Fixed(SignatureSize), Fixed(TimeSize), Prefixed>>
                    ELSE <<Prefixed>>
        BY DEF Fields
    <2> QED
        BY <2>1
<1>2. Len(read)' = 0 /\ read' \in Seq(Seq(Byte))
    <2>1. <<>> \in Seq(Seq(Byte)) /\ Len(<<>>) = 0
        OBVIOUS
    <2> QED
        BY <2>1
<1>3. Position(Len(read))' = 0
    BY <1>2 DEF Position
<1>4. at' \in 0..Len(wire')
    <2>1. Len(wire') \in Nat
        OBVIOUS
    <2> QED
        BY <2>1
<1>5. ~AllRead'
    <2>1. AllRead' <=> Len(read') = Len(Fields')
        BY DEF AllRead
    <2>2. Len(read') = 0
        BY <1>2
    <2> QED
        BY <1>1, <2>1, <2>2, Zenon
<1> QED
    BY <1>1, <1>2, <1>3, <1>4, <1>5 DEF Reading

LEMMA EncodingType ==
    ASSUME Given
    PROVE  Encode(Zeros) \in Seq(Byte) /\ Encode(Signature) \in Seq(Byte)
BY Sizes, EncodingIs DEF EndsWith

LEMMA ValuesType == Values(TimeSize) \in Nat /\ Values(PrefixSize) \in Nat
<1>1. PICK v : IsValues(v, TimeSize) /\ Values(TimeSize) = v[TimeSize]
    BY Sizes, ValuesIs
<1>2. PICK u : IsValues(u, PrefixSize) /\ Values(PrefixSize) = u[PrefixSize]
    BY Sizes, ValuesIs
<1>3. TimeSize \in 0..TimeSize /\ PrefixSize \in 0..PrefixSize
    BY Sizes
<1> QED
    BY <1>1, <1>2, <1>3 DEF IsValues

LEMMA InitInv == Init => Inv
<1> SUFFICES ASSUME Init
             PROVE  Inv
    OBVIOUS
<1>1. Given
    <2>1. script \in {"simple", "timelock"} /\ lock \in {"simple", "timelock"}
          /\ payload \in Seq(Byte) /\ pc = "encode"
        BY CodecAssumption DEF Init
    <2>2. Values(TimeSize) \in Nat
        BY ValuesType
    <2>3. CASE script = "timelock"
        <3>1. time \in 0..(Values(TimeSize) - 1)
            BY <2>3, CodecAssumption DEF Init
        <3>2. time \in Nat /\ time < Values(TimeSize)
            BY <2>2, <3>1
        <3> QED
            BY <2>1, <3>2 DEF Given
    <2>4. CASE script # "timelock"
        <3>1. time = 0
            BY <2>4 DEF Init
        <3> QED
            BY <2>1, <2>4, <3>1 DEF Given
    <2> QED
        BY <2>3, <2>4
<1>2. Reading
    <2>1. Len(Fields) = 3 \/ Len(Fields) = 1
        BY <1>1, FieldsAre DEF Given
    <2>2. /\ read = <<>> /\ Len(read) = 0 /\ at = 0 /\ Len(wire) = 0
          /\ read \in Seq(Seq(Byte))
        BY DEF Init
    <2> QED
        BY <2>1, <2>2 DEF Reading, Position, AllRead
<1>3. WireOk
    BY DEF Init, WireOk, Ends
<1>4. Checked
    BY DEF Init, Checked
<1> QED
    BY <1>1, <1>2, <1>3, <1>4 DEF Inv

LEMMA EncodeUnsignedInv == Inv /\ EncodeUnsigned => Inv'
<1> SUFFICES ASSUME Inv, EncodeUnsigned
             PROVE  Inv'
    OBVIOUS
<1>1. /\ UNCHANGED given /\ pc' = "validate" /\ at' = 0 /\ read' = <<>>
      /\ wire' = Encode(Zeros)
    BY DEF EncodeUnsigned, Restart, Zeros
<1>2. Given'
    BY <1>1 DEF Inv, Given, given, Ends
<1>3. wire' \in Seq(Byte)
    BY <1>1, EncodingType DEF Inv
<1>4. Reading'
    BY <1>1, <1>2, <1>3, RestartReading DEF Given
<1>5. WireOk'
    BY <1>1, LayoutStays DEF WireOk
<1>6. Checked'
    BY <1>1 DEF Checked
<1> QED
    BY <1>2, <1>4, <1>5, <1>6 DEF Inv

LEMMA SendSignedInv == Inv /\ SendSigned => Inv'
<1> SUFFICES ASSUME Inv, SendSigned
             PROVE  Inv'
    OBVIOUS
<1>1. /\ UNCHANGED given /\ pc = "send" /\ pc' = "decode"
      /\ at' = 0 /\ read' = <<>> /\ wire' = Encode(Signature)
    BY DEF SendSigned, Restart
<1>2. Given'
    BY <1>1 DEF Inv, Given, given, Ends
<1>3. wire' \in Seq(Byte)
    BY <1>1, EncodingType DEF Inv
<1>4. Reading'
    BY <1>1, <1>2, <1>3, RestartReading DEF Given
<1>5. WireOk'
    BY <1>1, LayoutStays DEF WireOk
<1>6. Checked'
    BY <1>1, LayoutStays DEF Inv, Checked
<1> QED
    BY <1>2, <1>4, <1>5, <1>6 DEF Inv

\* A reader that halts keeps what it has read.
LEMMA HaltKeeps ==
    ASSUME Inv, NEW result \in {"send"} \cup Ends, Halt(result)
    PROVE  Given' /\ Reading' /\ UNCHANGED <<given, wire, at, read>>
<1>1. UNCHANGED <<given, wire, at, read>> /\ pc' = result
    BY DEF Halt
<1>2. Given'
    BY <1>1 DEF Inv, Given, given, Ends
<1>3. Skip' = Skip /\ Fields' = Fields
    BY <1>1, LayoutStays
<1>4. Body(wire)' = Body(wire)
    BY <1>1, <1>3 DEF Body, Count
<1>5. Position(Len(read))' = Position(Len(read))
    BY <1>1, <1>3, <1>4 DEF Position
<1>6. lock' = lock /\ AllRead' = AllRead
    BY <1>1, <1>3 DEF given, AllRead
<1>7. Reading'
    BY <1>1, <1>3, <1>5, <1>6 DEF Inv, Reading
<1> QED
    BY <1>1, <1>2, <1>7

LEMMA ValidatedInv == Inv /\ Validated => Inv'
<1> SUFFICES ASSUME Inv, Validated
             PROVE  Inv'
    OBVIOUS
<1>1. /\ pc = "validate" /\ AllRead /\ wire = Encode(Zeros)
      /\ Halt(IF at < Len(wire) THEN "refused" ELSE "send")
    BY DEF Validated, Inv, WireOk
<1>2. Given' /\ Reading' /\ UNCHANGED <<given, wire, at, read>>
    BY <1>1, HaltKeeps DEF Ends
<1>3. pc' = IF at < Len(wire) THEN "refused" ELSE "send"
    BY <1>1 DEF Halt
<1>4. WireOk'
    BY <1>1, <1>2, <1>3, LayoutStays DEF WireOk
<1>5. at = Body(wire) /\ at \in 0..Len(wire)
    <2>1. Len(read) = Len(Fields) /\ (Len(Fields) = 3 \/ Len(Fields) = 1)
        BY <1>1, FieldsAre DEF AllRead, Inv, Given
    <2> QED
        BY <2>1 DEF Inv, Reading, Position
<1>6. pc' = "send" => Parses(Encode(Zeros))
    <2>1. Skip + PrefixSize <= Len(wire) /\ Len(wire) \in Nat
        BY <1>1, EncodingType DEF Inv, Reading
    <2>2. pc' = "send" => at = Len(wire)
        BY <1>3, <1>5, <2>1
    <2> QED
        BY <1>1, <1>5, <2>1, <2>2 DEF Parses
<1>7. lock = script /\ pc' = "refused" => Len(payload) >= Values(PrefixSize)
    <2> SUFFICES ASSUME lock = script, pc' = "refused"
                 PROVE  Len(payload) >= Values(PrefixSize)
        OBVIOUS
    <2>1. ~Parses(wire)
        <3>1. at < Len(wire) /\ Len(wire) \in Nat
            BY <1>1, <1>3, EncodingType DEF Inv
        <3> QED
            BY <1>5, <3>1 DEF Parses
    <2>2. ~(Len(payload) < Values(PrefixSize))
        BY <1>1, <2>1, Sizes, OwnParses DEF Inv
    <2> QED
        BY <2>2, ValuesType DEF Inv, Given
<1>8. Checked'
    <2>1. lock' = lock /\ script' = script /\ payload' = payload
          /\ (Parses(Encode(Zeros)))' = Parses(Encode(Zeros))
        BY <1>2, LayoutStays DEF given
    <2> QED
        BY <1>3, <1>6, <1>7, <2>1 DEF Checked
<1> QED
    BY <1>2, <1>4, <1>8 DEF Inv

LEMMA DecodedInv == Inv /\ Decoded => Inv'
<1> SUFFICES ASSUME Inv, Decoded
             PROVE  Inv'
    OBVIOUS
<1>1. pc = "decode" /\ AllRead /\ Halt("decoded")
    BY DEF Decoded
<1>2. Given' /\ Reading' /\ UNCHANGED <<given, wire, at, read>>
    BY <1>1, HaltKeeps DEF Ends
<1>3. pc' = "decoded"
    BY <1>1 DEF Halt
<1>4. WireOk'
    BY <1>1, <1>2, <1>3, LayoutStays DEF Inv, WireOk
<1>5. AllRead'
    BY <1>1, <1>2, LayoutStays DEF AllRead
<1>6. Checked'
    BY <1>1, <1>2, <1>3, <1>5, LayoutStays DEF Inv, Checked
<1> QED
    BY <1>2, <1>4, <1>6 DEF Inv

LEMMA StutterInv == Inv /\ UNCHANGED vars => Inv'
<1> SUFFICES ASSUME Inv, UNCHANGED vars
             PROVE  Inv'
    OBVIOUS
<1>1. UNCHANGED <<given, pc, wire, at, read>>
    BY DEF vars
<1>2. Skip' = Skip /\ Fields' = Fields
    BY <1>1, LayoutStays
<1>3. Given'
    BY <1>1 DEF Inv, Given, given
<1>4. WireOk'
    BY <1>1, LayoutStays DEF Inv, WireOk
<1>5. Position(Len(read))' = Position(Len(read))
    BY <1>1, <1>2 DEF Position, Body, Count
<1>6. lock' = lock /\ AllRead' = AllRead
    BY <1>1, <1>2 DEF given, AllRead
<1>7. Reading'
    BY <1>1, <1>2, <1>5, <1>6 DEF Inv, Reading
<1>8. Checked'
    BY <1>1, <1>6, LayoutStays DEF Inv, Checked, given
<1> QED
    BY <1>3, <1>4, <1>7, <1>8 DEF Inv

\* The field that a reader comes to next, and where it finds it.
LastComes == Len(read) + 1 = Len(Fields) /\ at = Skip
         /\ Fields[Len(read) + 1] = Prefixed
SignatureComes == lock = "timelock" /\ Len(read) = 0 /\ at = 0 /\ Len(Fields) = 3
         /\ Fields[Len(read) + 1] = Fixed(SignatureSize)
TimeComes == lock = "timelock" /\ Len(read) = 1 /\ at = SignatureSize
         /\ Len(Fields) = 3 /\ Fields[Len(read) + 1] = Fixed(TimeSize)

LEMMA FieldAt ==
    ASSUME Given, Reading, Len(read) < Len(Fields)
    PROVE  LastComes \/ SignatureComes \/ TimeComes
<1> DEFINE n == Len(read)
<1>1. n \in Nat /\ n < Len(Fields) /\ at = Position(n)
    BY DEF Reading
<1>2. /\ lock \in {"simple", "timelock"}
      /\ Len(Fields) = IF lock = "timelock" THEN 3 ELSE 1
      /\ Fields[Len(Fields)] = Prefixed
      /\ lock = "timelock" => /\ Fields[1] = Fixed(SignatureSize)
                              /\ Fields[2] = Fixed(TimeSize)
    BY FieldsAre DEF Given
<1> HIDE DEF n
<1>3. CASE lock = "timelock"
    <2>1. Len(Fields) = 3 /\ (n = 0 \/ n = 1 \/ n = 2)
        BY <1>1, <1>2, <1>3
    <2>2. CASE n = 0
        <3>1. at = 0 /\ n + 1 = 1
            BY <1>1, <2>2 DEF Position
        <3> QED
            BY <1>2, <1>3, <2>1, <2>2, <3>1 DEF SignatureComes, n
    <2>3. CASE n = 1
        <3>1. at = SignatureSize /\ n + 1 = 2
            BY <1>1, <2>1, <2>3 DEF Position
        <3> QED
            BY <1>2, <1>3, <2>1, <2>3, <3>1 DEF TimeComes, n
    <2>4. CASE n = 2
        <3>1. at = SignatureSize + TimeSize /\ n + 1 = 3
            BY <1>1, <2>1, <2>4 DEF Position
        <3> QED
            BY <1>2, <1>3, <2>1, <2>4, <3>1 DEF LastComes, Skip, n
    <2> QED
        BY <2>1, <2>2, <2>3, <2>4
<1>4. CASE lock # "timelock"
    <2>1. Len(Fields) = 1 /\ n = 0
        BY <1>1, <1>2, <1>4
    <2>2. at = 0 /\ n + 1 = 1
        BY <1>1, <2>1 DEF Position
    <2> QED
        BY <1>2, <1>4, <2>1, <2>2 DEF LastComes, Skip, n
<1> QED
    BY <1>3, <1>4

\* One field, as in ReadField.
Size == Fields[Len(read) + 1].size
FieldBytes == SubSeq(wire, at + 1, at + Size)
Extra == IF Fields[Len(read) + 1].prefixed THEN FromLE(FieldBytes) ELSE 0
Value == IF Fields[Len(read) + 1].prefixed
         THEN SubSeq(wire, at + Size + 1, at + Size + Extra) ELSE FieldBytes

\* The last field is where the lengths of a witness say, the others are fixed.
LEMMA FieldValues ==
    /\ LastComes => /\ Size = PrefixSize /\ Extra = Count(wire)
                /\ at + Size + Extra = Body(wire)
                /\ Value = SubSeq(wire, Skip + PrefixSize + 1, Body(wire))
    /\ SignatureComes => /\ Size = SignatureSize /\ Extra = 0
                /\ Value = SubSeq(wire, 1, SignatureSize)
    /\ TimeComes => /\ Size = TimeSize /\ Extra = 0
                /\ Value = SubSeq(wire, SignatureSize + 1,
                                        SignatureSize + TimeSize)
<1>1. ASSUME LastComes
      PROVE  /\ Size = PrefixSize /\ Extra = Count(wire)
             /\ at + Size + Extra = Body(wire)
             /\ Value = SubSeq(wire, Skip + PrefixSize + 1, Body(wire))
    <2>1. Fields[Len(read) + 1] = Prefixed /\ at = Skip
        BY <1>1 DEF LastComes
    <2>2. Size = PrefixSize /\ Fields[Len(read) + 1].prefixed = TRUE
        BY <2>1 DEF Size, Prefixed
    <2>3. Extra = Count(wire)
        BY <2>1, <2>2 DEF Extra, FieldBytes, Count
    <2>4. at + Size + Extra = Body(wire)
        BY <2>1, <2>2, <2>3 DEF Body
    <2>5. Value = SubSeq(wire, at + Size + 1, at + Size + Extra)
        BY <2>2 DEF Value
    <2> QED
        BY <2>1, <2>2, <2>3, <2>4, <2>5
<1>2. ASSUME SignatureComes
      PROVE  /\ Size = SignatureSize /\ Extra = 0
             /\ Value = SubSeq(wire, 1, SignatureSize)
    <2>1. Fields[Len(read) + 1] = Fixed(SignatureSize) /\ at = 0
        BY <1>2 DEF SignatureComes
    <2>2. Size = SignatureSize /\ Fields[Len(read) + 1].prefixed = FALSE
        BY <2>1 DEF Size, Fixed
    <2>3. at + 1 = 1 /\ at + Size = SignatureSize
        BY <2>1, <2>2, Sizes
    <2> QED
        BY <2>2, <2>3 DEF Extra, Value, FieldBytes
<1>3. ASSUME TimeComes
      PROVE  /\ Size = TimeSize /\ Extra = 0
             /\ Value = SubSeq(wire, SignatureSize + 1,
                                     SignatureSize + TimeSize)
    <2>1. Fields[Len(read) + 1] = Fixed(TimeSize) /\ at = SignatureSize
        BY <1>3 DEF TimeComes
    <2>2. Size = TimeSize /\ Fields[Len(read) + 1].prefixed = FALSE
        BY <2>1 DEF Size, Fixed
    <2> QED
        BY <2>1, <2>2 DEF Extra, Value, FieldBytes
<1> QED
    BY <1>1, <1>2, <1>3

\* A witness that parses has every field.
LEMMA NoFailure ==
    ASSUME Given, Reading, Len(read) < Len(Fields),
           wire \in Seq(Byte), Parses(wire)
    PROVE  at + Size <= Len(wire) /\ ~(at + Size + Extra > Len(wire))
<1>1. /\ SignatureSize \in Nat /\ TimeSize \in Nat /\ PrefixSize \in Nat
      /\ Skip \in Nat /\ Len(wire) \in Nat
      /\ Skip + PrefixSize <= Len(wire) /\ Body(wire) = Len(wire)
    BY Sizes, SkipIs DEF Parses
<1>2. CASE LastComes
    <2>1. at + Size = Skip + PrefixSize /\ at + Size + Extra = Len(wire)
        BY <1>1, <1>2, FieldValues DEF LastComes
    <2> QED
        BY <1>1, <2>1
<1>3. CASE SignatureComes \/ TimeComes
    <2>1. Skip = SignatureSize + TimeSize /\ Extra = 0
        BY <1>3, FieldValues DEF SignatureComes, TimeComes, Skip
    <2>2. CASE SignatureComes
        <3>1. at = 0 /\ Size = SignatureSize
            BY <2>2, FieldValues DEF SignatureComes
        <3> QED
            BY <1>1, <2>1, <3>1
    <2>3. CASE TimeComes
        <3>1. at = SignatureSize /\ Size = TimeSize
            BY <2>3, FieldValues DEF TimeComes
        <3> QED
            BY <1>1, <2>1, <3>1
    <2> QED
        BY <1>3, <2>2, <2>3
<1> QED
    BY <1>2, <1>3, FieldAt

\* A reader takes a field and moves on.
LEMMA TakeField ==
    ASSUME Inv, pc \in {"validate", "decode"}, Len(read) < Len(Fields),
           at + Size <= Len(wire), at + Size + Extra <= Len(wire),
           at' = at + Size + Extra, read' = Append(read, Value),
           UNCHANGED <<given, pc, wire>>
    PROVE  Inv'
<1> DEFINE n == Len(read)
<1>1. /\ Given /\ Reading /\ WireOk /\ Checked
    BY DEF Inv
<1>2. /\ wire \in Seq(Byte) /\ Len(wire) \in Nat
    BY <1>1, EncodingType DEF WireOk
<1>3. /\ read \in Seq(Seq(Byte)) /\ n \in Nat /\ at \in Nat
      /\ n < Len(Fields) /\ (Len(Fields) = 3 \/ Len(Fields) = 1)
    <2>1. Len(Fields) = 3 \/ Len(Fields) = 1
        BY <1>1, FieldsAre DEF Given
    <2>2. read \in Seq(Seq(Byte)) /\ at \in 0..Len(wire)
        BY <1>1 DEF Reading
    <2> QED
        BY <1>2, <2>1, <2>2
<1>4. LastComes \/ SignatureComes \/ TimeComes
    BY <1>1, FieldAt
<1>5. /\ Skip \in Nat /\ SignatureSize \in Nat /\ TimeSize \in Nat
      /\ PrefixSize \in Nat
    BY SkipIs, Sizes
<1>6. at + Size + Extra \in 0..Len(wire) /\ Value \in Seq(Byte)
    <2>1. CASE LastComes
        <3>1. Skip + PrefixSize <= Len(wire)
            BY <2>1, FieldValues DEF LastComes
        <3>2. Count(wire) \in Nat /\ Body(wire) \in Nat
            BY <1>2, <3>1, CountIs
        <3>3. at + Size + Extra = Body(wire) /\ Body(wire) <= Len(wire)
            BY <2>1, FieldValues
        <3>4. SubSeq(wire, Skip + PrefixSize + 1, Body(wire)) \in Seq(Byte)
            BY <1>2, <1>5, <3>2, <3>3
        <3>5. Body(wire) \in 0..Len(wire)
            BY <1>2, <3>2, <3>3
        <3>6. Value \in Seq(Byte)
            BY <2>1, <3>4, FieldValues
        <3> QED
            BY <3>3, <3>5, <3>6
    <2>2. CASE SignatureComes
        <3>1. at = 0 /\ Size = SignatureSize /\ Extra = 0
              /\ Value = SubSeq(wire, 1, SignatureSize)
            BY <2>2, FieldValues DEF SignatureComes
        <3>2. SignatureSize <= Len(wire)
            BY <1>5, <3>1
        <3>3. SubSeq(wire, 1, SignatureSize) \in Seq(Byte)
            BY <1>2, <1>5, <3>2
        <3> QED
            BY <1>2, <1>5, <3>1, <3>2, <3>3
    <2>3. CASE TimeComes
        <3>1. at = SignatureSize /\ Size = TimeSize /\ Extra = 0
              /\ Value = SubSeq(wire, SignatureSize + 1,
                                      SignatureSize + TimeSize)
            BY <2>3, FieldValues DEF TimeComes
        <3>2. SignatureSize + TimeSize <= Len(wire)
            BY <1>5, <3>1
        <3>3. SubSeq(wire, SignatureSize + 1, SignatureSize + TimeSize)
                \in Seq(Byte)
            BY <1>2, <1>5, <3>2
        <3> QED
            BY <1>2, <1>5, <3>1, <3>2, <3>3
    <2> QED
        BY <1>4, <2>1, <2>2, <2>3
<1>7. /\ read' \in Seq(Seq(Byte)) /\ Len(read') = n + 1
      /\ read'[n + 1] = Value /\ \A i \in 1..n : read'[i] = read[i]
    BY <1>3, <1>6
<1>8. /\ Skip' = Skip /\ Fields' = Fields /\ lock' = lock
      /\ wire' = wire /\ Body(wire)' = Body(wire)
    <2>1. Skip' = Skip /\ Fields' = Fields /\ lock' = lock /\ wire' = wire
        BY LayoutStays DEF given
    <2> QED
        BY <2>1 DEF Body, Count
<1>9. Given'
    BY <1>1 DEF Given, given
<1>10. WireOk'
    BY <1>1, LayoutStays DEF WireOk
<1>11. Checked'
    <2>1. lock' = lock /\ script' = script /\ payload' = payload
          /\ (Parses(Encode(Zeros)))' = Parses(Encode(Zeros)) /\ pc' = pc
        BY LayoutStays DEF given
    <2> QED
        BY <1>1, <2>1 DEF Checked
<1> DEFINE m == n + 1
           NewPosition == IF m = Len(Fields) THEN Body(wire)
                          ELSE IF m = 1 THEN SignatureSize
                          ELSE SignatureSize + TimeSize
<1>12. Position(Len(read))' = NewPosition
    <2>1. m # 0
        BY <1>3
    <2> HIDE DEF n
    <2> QED
        BY <1>7, <1>8, <2>1 DEF Position
<1>13. at' = NewPosition
    <2>1. CASE LastComes
        BY <2>1, FieldValues DEF LastComes
    <2>2. CASE SignatureComes
        <3>1. at = 0 /\ Size = SignatureSize /\ Extra = 0 /\ m = 1
              /\ Len(Fields) = 3
            BY <2>2, FieldValues DEF SignatureComes
        <3> QED
            BY <1>5, <3>1
    <2>3. CASE TimeComes
        <3>1. at = SignatureSize /\ Size = TimeSize /\ Extra = 0 /\ m = 2
              /\ Len(Fields) = 3
            BY <2>3, FieldValues DEF TimeComes
        <3> QED
            BY <1>5, <3>1
    <2> QED
        BY <1>4, <2>1, <2>2, <2>3
<1>14. lock = "timelock" =>
          /\ m >= 1 => read'[1] = SubSeq(wire, 1, SignatureSize)
          /\ m >= 2 => read'[2] = SubSeq(wire, SignatureSize + 1,
                                               SignatureSize + TimeSize)
    <2> SUFFICES ASSUME lock = "timelock"
                 PROVE  /\ read'[1] = SubSeq(wire, 1, SignatureSize)
                        /\ m >= 2 => read'[2] = SubSeq(wire, SignatureSize + 1,
                                                 SignatureSize + TimeSize)
        OBVIOUS
    <2>1. /\ n >= 1 => read[1] = SubSeq(wire, 1, SignatureSize)
          /\ n >= 2 => read[2] = SubSeq(wire, SignatureSize + 1,
                                              SignatureSize + TimeSize)
        BY <1>1 DEF Reading
    <2>2. CASE LastComes
        <3>1. Len(Fields) = 3
            BY <1>1, FieldsAre DEF Given
        <3>2. n + 1 = 3 /\ n \in Nat
            BY <1>3, <2>2, <3>1 DEF LastComes
        <3>3. n = 2 /\ 1 \in 1..n /\ 2 \in 1..n /\ m >= 2
            <4> HIDE DEF n
            <4> QED
                BY <3>2
        <3>4. read'[1] = read[1] /\ read'[2] = read[2]
            BY <1>7, <3>3
        <3> HIDE DEF n
        <3> QED
            BY <2>1, <3>3, <3>4
    <2>3. CASE SignatureComes
        <3>1. n = 0 /\ Value = SubSeq(wire, 1, SignatureSize)
            BY <2>3, FieldValues DEF SignatureComes
        <3>2. read'[1] = Value
            BY <1>7, <3>1
        <3>3. ~(m >= 2)
            BY <3>1
        <3> HIDE DEF m
        <3> QED
            BY <3>1, <3>2, <3>3
    <2>4. CASE TimeComes
        <3>1. n = 1 /\ 1 \in 1..n /\ n + 1 = 2
              /\ Value = SubSeq(wire, SignatureSize + 1,
                                      SignatureSize + TimeSize)
            BY <2>4, FieldValues DEF TimeComes
        <3>2. read'[1] = read[1]
            BY <1>7, <3>1
        <3>3. read'[2] = Value
            BY <1>7, <3>1
        <3>4. read[1] = SubSeq(wire, 1, SignatureSize)
            BY <2>1, <3>1
        <3> HIDE DEF m
        <3> QED
            BY <3>1, <3>2, <3>3, <3>4
    <2> QED
        BY <1>4, <2>2, <2>3, <2>4
<1>15. m = Len(Fields) =>
          /\ Skip + PrefixSize <= Len(wire)
          /\ read'[m] = SubSeq(wire, Skip + PrefixSize + 1, at')
    <2> SUFFICES ASSUME m = Len(Fields)
                 PROVE  /\ Skip + PrefixSize <= Len(wire)
                        /\ read'[m] = SubSeq(wire, Skip + PrefixSize + 1, at')
        OBVIOUS
    <2>1. LastComes
        <3>1. ~SignatureComes
            BY DEF SignatureComes
        <3>2. ~TimeComes
            <4> SUFFICES ASSUME TimeComes
                         PROVE  FALSE
                OBVIOUS
            <4>1. n = 1 /\ Len(Fields) = 3
                BY DEF TimeComes
            <4>2. m = 2
                BY <4>1
            <4>3. m = 3
                BY <4>1
            <4> HIDE DEF m
            <4> QED
                BY <4>2, <4>3
        <3> QED
            BY <1>4, <3>1, <3>2
    <2>2. /\ at = Skip /\ Size = PrefixSize /\ at' = Body(wire)
          /\ Value = SubSeq(wire, Skip + PrefixSize + 1, Body(wire))
        BY <2>1, FieldValues DEF LastComes
    <2> QED
        BY <1>7, <2>2
<1>16. Reading'
    <2>1. m \in 0..Len(Fields)
        BY <1>3
    <2>2. AllRead' <=> m = Len(Fields)
        BY <1>7, <1>8 DEF AllRead
    <2>3. at' \in 0..Len(wire)
        BY <1>6
    <2> HIDE DEF NewPosition
    <2> QED
        BY <1>7, <1>8, <1>12, <1>13, <1>14, <1>15, <2>1, <2>2, <2>3
        DEF Reading
<1> QED
    BY <1>9, <1>10, <1>11, <1>16 DEF Inv

\* A reader fails only in the client, and there only when the witness does
\* not parse.
LEMMA ReadFieldInv == Inv /\ ReadField => Inv'
<1> SUFFICES ASSUME Inv, ReadField
             PROVE  Inv'
    OBVIOUS
<1>1. /\ pc \in {"validate", "decode"} /\ Len(read) < Len(Fields)
      /\ Given /\ Reading /\ WireOk /\ Checked
    BY DEF ReadField, Inv
<1>2. \/ /\ at + Size > Len(wire) \/ at + Size + Extra > Len(wire)
         /\ Halt(Failed)
      \/ /\ at + Size <= Len(wire) /\ at + Size + Extra <= Len(wire)
         /\ at' = at + Size + Extra /\ read' = Append(read, Value)
         /\ UNCHANGED <<given, pc, wire>>
    BY DEF ReadField, Size, FieldBytes, Extra, Value
<1>3. wire \in Seq(Byte) /\ Len(wire) \in Nat
    BY <1>1, EncodingType DEF WireOk
<1>4. CASE /\ at + Size > Len(wire) \/ at + Size + Extra > Len(wire)
           /\ Halt(Failed)
    <2>1. ~Parses(wire)
        <3> SUFFICES ASSUME Parses(wire)
                     PROVE  FALSE
            OBVIOUS
        <3>1. at + Size <= Len(wire) /\ ~(at + Size + Extra > Len(wire))
            BY <1>1, <1>3, NoFailure
        <3>2. at + Size \in Int
            <4>1. at \in Nat
                BY <1>1, <1>3 DEF Reading
            <4>2. Size \in Nat
                BY <1>1, FieldAt, FieldValues, Sizes
            <4> QED
                BY <4>1, <4>2
        <3> QED
            BY <1>3, <1>4, <3>1, <3>2
    <2>2. pc = "validate"
        <3> SUFFICES ASSUME pc = "decode"
                     PROVE  FALSE
            BY <1>1
        <3>1. wire = Encode(Signature) /\ Parses(Encode(Zeros))
            BY <1>1 DEF WireOk, Checked
        <3> QED
            BY <1>1, <2>1, <3>1, SignedParses
    <2>3. Halt("refused")
        BY <1>4, <2>2 DEF Failed
    <2>4. Given' /\ Reading' /\ UNCHANGED <<given, wire, at, read>>
        BY <2>3, HaltKeeps DEF Ends
    <2>5. pc' = "refused" /\ wire = Encode(Zeros)
        BY <1>1, <2>2, <2>3 DEF Halt, WireOk
    <2>6. WireOk'
        BY <2>4, <2>5, LayoutStays DEF WireOk
    <2>7. lock = script => Len(payload) >= Values(PrefixSize)
        <3> SUFFICES ASSUME lock = script
                     PROVE  Len(payload) >= Values(PrefixSize)
            OBVIOUS
        <3>1. ~(Len(payload) < Values(PrefixSize))
            BY <1>1, <2>1, <2>5, Sizes, OwnParses
        <3> QED
            BY <1>1, <3>1, ValuesType DEF Given
    <2>8. Checked'
        <3>1. lock' = lock /\ script' = script /\ payload' = payload
            BY <2>4 DEF given
        <3> QED
            BY <2>5, <2>7, <3>1 DEF Checked
    <2> QED
        BY <2>4, <2>6, <2>8 DEF Inv
<1>5. CASE /\ at + Size <= Len(wire) /\ at + Size + Extra <= Len(wire)
           /\ at' = at + Size + Extra /\ read' = Append(read, Value)
           /\ UNCHANGED <<given, pc, wire>>
    BY <1>1, <1>5, TakeField
<1> QED
    BY <1>2, <1>4, <1>5

LEMMA InvAlways == Spec => []Inv
<1>1. Inv /\ [Next]_vars => Inv'
    BY EncodeUnsignedInv, ReadFieldInv, ValidatedInv, SendSignedInv,
       DecodedInv, StutterInv
    DEF Next, Done
<1> QED
    BY <1>1, InitInv, PTL DEF Spec

------------------------------------------------------------------------------
(***************************************************************************)
(* The theorems.                                                           *)
(***************************************************************************)
\* Every variable has its type: what is sent is bytes, and no reader goes
\* past the end of what it reads.
THEOREM TypeCorrect == Spec => []TypeOK
<1>1. Inv => TypeOK
    <2> SUFFICES ASSUME Inv
                 PROVE  TypeOK
        OBVIOUS
    <2>1. wire \in Seq(Byte)
        <3>1. CASE pc = "encode"
            <4>1. wire = <<>>
                BY <3>1 DEF Inv, WireOk
            <4> QED
                BY <4>1
        <3>2. CASE pc # "encode"
            <4>1. wire = Encode(Zeros) \/ wire = Encode(Signature)
                BY <3>2 DEF Inv, Given, WireOk, Ends
            <4> QED
                BY <4>1, EncodingType DEF Inv
        <3> QED
            BY <3>1, <3>2
    <2> QED
        BY <2>1 DEF Inv, Given, Reading, TypeOK
<1> QED
    BY <1>1, InvAlways, PTL

\* The script never meets a witness that it cannot read, and the right script
\* reads the signature, the time and the payload that the user gave
\* (encode_timelock_witness, encode_bytes_field and the Witness structs).
THEOREM DecodedIsGivenAlways == Spec => []DecodedIsGiven
<1>1. Inv => DecodedIsGiven
    <2> SUFFICES ASSUME Inv, pc = "decoded", lock = script
                 PROVE  /\ read[Len(read)] = payload
                        /\ script = "timelock" =>
                              read[1] = Signature /\ FromLE(read[2]) = time
        BY DEF Inv, Checked, DecodedIsGiven
    <2>1. /\ Given /\ Reading /\ AllRead /\ Parses(Encode(Zeros))
          /\ wire = Encode(Signature)
        BY DEF Inv, WireOk, Checked
    <2>2. Len(payload) < Values(PrefixSize)
        BY <2>1, Sizes, OwnParses
    <2>3. Count(wire) = Len(payload)
        BY <2>1, <2>2, Sizes, OwnParses
    <2>4. EndsWith(wire, Skip) /\ BeginsWith(wire, Signature)
        <3>1. Offset = Skip
            BY DEF Offset, Skip
        <3> QED
            BY <2>1, <3>1, Sizes, EncodingIs
    <2>5. Len(read) = Len(Fields)
          /\ Len(Fields) = (IF lock = "timelock" THEN 3 ELSE 1)
        BY <2>1, FieldsAre DEF AllRead, Given
    <2>6. at = Skip + PrefixSize + Len(payload)
        <3>1. Len(read) # 0
            BY <2>5
        <3>2. at = Body(wire)
            BY <2>1, <2>5, <3>1 DEF Reading, Position
        <3> QED
            BY <2>3, <3>2 DEF Body
    <2>7. read[Len(read)] = payload
        BY <2>1, <2>4, <2>6 DEF Reading, EndsWith
    <2>8. ASSUME script = "timelock"
          PROVE  read[1] = Signature /\ FromLE(read[2]) = time
        <3>1. Len(read) = 3
            BY <2>5, <2>8
        <3>2. /\ read[1] = SubSeq(wire, 1, SignatureSize)
              /\ read[2] = SubSeq(wire, SignatureSize + 1,
                                        SignatureSize + TimeSize)
            BY <2>1, <2>8, <3>1 DEF Reading
        <3>3. read[1] = Signature /\ read[2] = LE(time, TimeSize)
            BY <2>4, <2>8, <3>2 DEF BeginsWith
        <3>4. FromLE(LE(time, TimeSize)) = time
            BY <2>1, <2>8, Sizes, RoundTrip DEF Given
        <3> QED
            BY <3>3, <3>4
    <2> QED
        BY <2>7, <2>8
<1> QED
    BY <1>1, InvAlways, PTL

\* Only a payload that is longer than the prefix can say is refused, and such
\* a payload is always refused (verify_and_validate before the transaction).
THEOREM RefusedOnlyIfTooLongAlways == Spec => []RefusedOnlyIfTooLong
<1>1. Inv => RefusedOnlyIfTooLong
    <2> SUFFICES ASSUME Inv, lock = script
                 PROVE  /\ pc = "refused" => Len(payload) >= Values(PrefixSize)
                        /\ pc \in {"send", "decode", "decoded"}
                             => Len(payload) < Values(PrefixSize)
        BY DEF RefusedOnlyIfTooLong
    <2>1. ASSUME pc \in {"send", "decode", "decoded"}
          PROVE  Len(payload) < Values(PrefixSize)
        <3>1. Parses(Encode(Zeros)) /\ Given
            BY <2>1 DEF Inv, Checked
        <3> QED
            BY <3>1, Sizes, OwnParses
    <2> QED
        BY <2>1 DEF Inv, Checked
<1> QED
    BY <1>1, InvAlways, PTL
=============================================================================
