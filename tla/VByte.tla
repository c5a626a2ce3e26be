------------------------------- MODULE VByte -------------------------------
(***************************************************************************)
(* The variable-length code of vbyte.rs: groups of all bits of a byte but  *)
(* the first, the lowest group in front; the first bit is set in the last  *)
(* byte.  decode_buf and decode_reader differ in where the bytes come from *)
(* only: an early end of the reader is an early end of the buffer.         *)
(***************************************************************************)
EXTENDS Powers, SequencesExt

CONSTANTS ByteBits,   \* bits of a byte, 8 in the code
          WordBits    \* bits of the numbers encoded, 64 in the code

ASSUME VByteAssumption ==
  /\ ByteBits \in Nat /\ ByteBits > 2
  /\ WordBits \in Nat /\ WordBits % (ByteBits - 1) = 1

Msb == Pow2[ByteBits - 1]

\* MAX_ENCODING_LEN: 10 in the code, the room of encode_array.
MaxEncodingLen == WordBits \div (ByteBits - 1) + 1

\* The bits of a number up to its highest 1-bit, by shifting them out.
ShiftedOut[at \in Nat \X Nat] == IF at[1] = 0 THEN at[2] ELSE ShiftedOut[<<at[1] \div 2, at[2] + 1>>]
Bits(n) == ShiftedOut[<<n, 0>>]

\* Mutant: the bits are not rounded up to whole groups.
EncodingLen_Floor(num) == IF num = 0 THEN 1 ELSE Bits(num) \div (ByteBits - 1)
EncodingLen(num) ==
  IF num = 0 THEN 1 ELSE (Bits(num) + ByteBits - 2) \div (ByteBits - 1)

\* What is left of the number, and the bytes before those it takes.
EncodeUnchecked[at \in Nat \X Seq(Nat)] ==
  LET num   == at[1]
      bytes == at[2]
  IN  IF num >= Msb THEN EncodeUnchecked[<<num \div Msb, Append(bytes, num % Msb)>>]
      ELSE Append(bytes, Msb + num)

EncodeVec(num) == EncodeUnchecked[<<num, <<>>>>]

\* Only the byte of the word's last bit can be too large.
MaxByteTooLarge(shift, byte) == shift = WordBits - 1 /\ byte > Msb + 1

Failure(error) == [error |-> error, num |-> 0, count |-> 0]

DecodeBuf(s) ==
  LET decode[at \in (Nat \ {0}) \X Nat] ==
        LET i     == at[1]
            num   == at[2]
            shift == (i - 1) * (ByteBits - 1)
        IN  IF i > Len(s) THEN Failure("UnexpectedEndOfBuffer")
            ELSE IF s[i] >= Msb
            THEN IF MaxByteTooLarge(shift, s[i]) THEN Failure("EncodedValueTooLarge")
                 ELSE [error |-> "None", num |-> num + (s[i] - Msb) * Pow2[shift], count |-> i]
            ELSE IF shift + ByteBits - 1 > WordBits THEN Failure("UnexpectedEncodingLen")
            ELSE decode[<<i + 1, num + s[i] * Pow2[shift]>>]
  IN  decode[<<1, 0>>]

\* A number is read back from its bytes, whatever comes after them, and they
\* are as many as encoding_len says: encode_vec allots so many and writes
\* without a check of bounds.
ReadsEncoded(n, rest) ==
  LET s == EncodeVec(n)
  IN  /\ Len(s) = EncodingLen(n)
      /\ DecodeBuf(s \o rest) = [error |-> "None", num |-> n, count |-> Len(s)]
=============================================================================
