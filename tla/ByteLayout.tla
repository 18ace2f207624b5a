------------------------------ MODULE ByteLayout ------------------------------
(***************************************************************************)
(* to_le_bytes, to_be_bytes and from_le_bytes of Rust's unsigned integers, *)
(* for integers of any width and bytes of any size.                        *)
(***************************************************************************)
EXTENDS Integers, Sequences, SequencesExt

CONSTANT Base       \* values of a byte, 256 in the code

ASSUME BaseAssumption == Base \in Nat \ {0, 1}

Byte == 0..(Base - 1)

\* How many numbers have that many bytes.
Values(width) ==
    LET values[i \in 0..width] == IF i = 0 THEN 1 ELSE Base * values[i - 1]
    IN  values[width]

\* What is left of n when its lowest i bytes have been shifted out.
Shifted(n, width) ==
    LET rest[i \in 0..width] == IF i = 0 THEN n ELSE rest[i - 1] \div Base
    IN  rest

\* The low bytes of n: what does not fit the width is cut off, as by `as`.
LE(n, width) == [i \in 1..width |-> Shifted(n, width)[i - 1] % Base]

BE(n, width) == Reverse(LE(n, width))

\* From the highest byte down.
FromLE(bytes) ==
    LET number[i \in 0..Len(bytes)] ==
            IF i = 0 THEN 0
            ELSE Base * number[i - 1] + bytes[Len(bytes) - i + 1]
    IN  number[Len(bytes)]
==============================================================================
