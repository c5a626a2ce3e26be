------------------------------ MODULE Lexical ------------------------------
(***************************************************************************)
(* How values become the bytes of entries, and entries values again        *)
(* (tfc/datatypes.rs, integer.rs, decimal.rs, datetime.rs).  The bytes of  *)
(* values of one type have to sort as the values do.  Values are integers, *)
(* the bits of a float, sequences of fields, or decimals as their digits;  *)
(* bytes have ByteBits bits and decimal digits are to the base Base, so    *)
(* that every length of a code is met by small numbers.                    *)
(***************************************************************************)
EXTENDS Rope, VByte

CONSTANTS Base,          \* 10 in the code
          FractionGroup, \* digits of a part of a second shown together, 3
          Width          \* bytes of each number of fixed width

ASSUME LexicalAssumption ==
  /\ Base \in Nat /\ Base > 1 /\ FractionGroup \in Nat \ {0}
  \* Two digits and the mark that goes with them fit a byte.
  /\ 2 * (Base * Base + Base) + 1 < 2^ByteBits

Complement(byte) == 2^ByteBits - 1 - byte
Complemented(bytes) == [i \in DOMAIN bytes |-> Complement(bytes[i])]

BigEndian(n, v) == [i \in 1..n |-> (v \div 2^(ByteBits * (n - i))) % 2^ByteBits]
FromBigEndian(bytes) == FoldLeft(LAMBDA x, y : x * 2^ByteBits + y, 0, bytes)

-----------------------------------------------------------------------------
(* Numbers of fixed width.  Flipping the sign bit puts negative numbers in *)
(* front; a negative float is complemented, so that its order turns round. *)

UnsignedTypes == {"u8", "u16", "u32", "u64"}
SignedTypes   == {"i8", "i16", "i32", "i64"}
FloatTypes    == {"f32", "f64"}
ScalarTypes   == UnsignedTypes \union SignedTypes \union FloatTypes

SignMask(t) == 2^(ByteBits * Width[t] - 1)
FlipSign(t, x) == IF x >= SignMask(t) THEN x - SignMask(t) ELSE x + SignMask(t)
FlipAll(t, x) == 2 * SignMask(t) - 1 - x

\* A float is its bits: sign, exponent (ByteBits - 1 bits) and fraction.
FractionUnit(t) == 2^(ByteBits * (Width[t] - 1))
ExponentMax == 2^(ByteBits - 1) - 1
Exponent(t, x) == (x % SignMask(t)) \div FractionUnit(t)
IsNaN(t, x) == Exponent(t, x) = ExponentMax /\ x % FractionUnit(t) # 0

\* f.signum() == -1.0: of a NaN it is a NaN.
\* Mutant: the sign of a float taken for that of an integer.
IsNegative_Never(t, x) == FALSE
IsNegative(t, x) == x >= SignMask(t) /\ ~IsNaN(t, x)

ScalarToLexical(t, v) ==
  BigEndian(Width[t],
    CASE t \in UnsignedTypes -> v
      [] t \in SignedTypes -> FlipSign(t, v % (2 * SignMask(t)))
      [] OTHER -> IF IsNegative(t, v) THEN FlipAll(t, v) ELSE FlipSign(t, v))

ScalarFromBytes(t, bytes) ==
  LET i == FromBigEndian(bytes)
      flipped == FlipSign(t, i)
  IN  CASE t \in UnsignedTypes -> i
        [] t \in SignedTypes ->
             IF flipped >= SignMask(t) THEN flipped - 2 * SignMask(t) ELSE flipped
        [] OTHER -> IF i >= SignMask(t) THEN flipped ELSE FlipAll(t, i)

-----------------------------------------------------------------------------
(* Records of such numbers: dates, parts of dates, durations               *)

DateLayout == [Date  |-> <<"i64", "u8", "u8", "i16">>,
               GYear |-> <<"i64", "i16">>]
PartialDateLayout == [GMonth     |-> <<"u8", "i16">>,
                      GDay       |-> <<"u8", "i16">>,
                      GYearMonth |-> <<"i64", "u8", "i16">>,
                      GMonthDay  |-> <<"u8", "u8", "i16">>]
DurationFields == <<"i8", "i64", "u8", "u8", "u8", "u8", "f64">>
DurationLayout ==
  [t \in {"Duration", "YearMonthDuration", "DayTimeDuration"} |-> DurationFields]
Layout == [t \in ScalarTypes |-> <<t>>]
            @@ DateLayout @@ PartialDateLayout @@ DurationLayout

RecordToLexical(layout, fields) ==
  FlattenSeq([n \in DOMAIN layout |-> ScalarToLexical(layout[n], fields[n])])

\* Each field is read by read_exact from what the one before has left.
RECURSIVE ReadFields(_, _)
ReadFields(layout, b) ==
  IF layout = <<>> THEN [val |-> <<>>, buf |-> b]
  ELSE LET field == CopyToSlice(b, Width[Head(layout)])
           rest == ReadFields(Tail(layout), field.buf)
       IN  [rest EXCEPT !.val = <<ScalarFromBytes(Head(layout), field.bytes)>> \o @]

-----------------------------------------------------------------------------
(* BigInt: how many bytes follow, then these.  The size is in groups like  *)
(* those of VByte but the highest in front; the first byte has the sign    *)
(* and one bit less for the size.  A negative number is complemented.      *)

FirstSign         == Msb
FirstContinuation == Msb \div 2
FirstMax          == FirstContinuation
NegativeZero      == Msb - 1

\* From the lowest group on, which is written last.
RECURSIVE SizeGroups(_, _)
SizeGroups(remainder, last) ==
  LET group == (IF last THEN 0 ELSE Msb) + (remainder % Msb)
  IN  CASE remainder = 0 -> <<>>
        [] remainder >= Msb -> Append(SizeGroups(remainder \div Msb, FALSE), group)
        [] remainder >= FirstMax -> <<FirstSign + FirstContinuation, group>>
        [] OTHER -> <<FirstSign + (IF last THEN 0 ELSE FirstContinuation) + remainder>>

SizeEncode(size) == IF size = 0 THEN <<NegativeZero>> ELSE SizeGroups(size, TRUE)

RECURSIVE DecodeGroups(_, _, _, _)
DecodeGroups(b, first, sign, size) ==
  LET read == GetU8(b)
      positive == IF first THEN read.byte >= FirstSign ELSE sign
      v == IF positive THEN read.byte ELSE Complement(read.byte)
      continued == IF first THEN (v \div FirstContinuation) % 2 = 1 ELSE v >= Msb
      total == size + (v % (IF first THEN FirstContinuation ELSE Msb))
  IN  CASE Remaining(b) = 0 -> [sign |-> sign, size |-> size, buf |-> b]
        [] read.buf.panicked -> [sign |-> sign, size |-> 0, buf |-> read.buf]
        [] continued -> DecodeGroups(read.buf, FALSE, positive, total * Msb)
        [] OTHER -> [sign |-> positive, size |-> total, buf |-> read.buf]

SizeDecode(b) == DecodeGroups(b, TRUE, TRUE, 0)

\* With a bit more than the number has.
\* Mutant: without.
NumBytes_NoSign(n) == (Bits(n) + ByteBits - 1) \div ByteBits
NumBytes(n) == (Bits(n) + 1 + ByteBits - 1) \div ByteBits

ComplementedIf(neg, bytes) == IF neg THEN Complemented(bytes) ELSE bytes
Signed(neg, n) == IF neg THEN -n ELSE n

BigIntToStorage(int) ==
  LET Sized(size, n) == SizeEncode(size) \o BigEndian(size, n)
      Positive(n) == Sized(NumBytes(n), n)
  IN  ComplementedIf(int < 0, Positive(Signed(int < 0, int)))

RECURSIVE GetBytes(_, _)
GetBytes(b, n) ==
  IF n = 0 THEN [bytes |-> <<>>, buf |-> b]
  ELSE LET read == GetU8(b)
           rest == GetBytes(read.buf, n - 1)
       IN  [rest EXCEPT !.bytes = <<read.byte>> \o @]

StorageToBigInt(b) ==
  LET BigInt(sign, read) ==
        [val |-> Signed(~sign, FromBigEndian(ComplementedIf(~sign, read.bytes))),
         sign |-> sign, buf |-> read.buf]
      AfterSize(head) == BigInt(head.sign, GetBytes(head.buf, head.size))
  IN  AfterSize(SizeDecode(b))

-----------------------------------------------------------------------------
(* Fractions: two digits to a byte, above the mark of another byte behind; *)
(* a last digit alone is put between the pairs it begins.  No digits are a *)
(* single 0, which no pair is.                                             *)

Number(digits) == FoldLeft(LAMBDA x, y : x * Base + y, 0, digits)
DigitsOf(len, n) == [i \in 1..len |-> (n \div Base^(len - i)) % Base]

\* Mutant: a single digit stands where its pair with 0 does.
CentaryEncode_Pair(d) == Number(d) * (IF Len(d) = 1 THEN Base ELSE 1)
                           + (IF Len(d) = 1 THEN Number(d) ELSE Number(d) \div Base) + 2
CentaryEncode(d) == IF Len(d) = 1 THEN Number(d) * (Base + 1) + 1
                    ELSE Number(d) + (Number(d) \div Base) + 2

CentaryDecode(i) ==
  LET j == i - 1
  IN  IF j % (Base + 1) = 0 THEN <<j \div (Base + 1)>>
      ELSE DigitsOf(2, j - (j \div (Base + 1)) - 1)

EncodeFraction(f) ==
  LET size == (Len(f) + 1) \div 2
      Two(i) == SubSeq(f, 2 * i - 1, Min({2 * i, Len(f)}))
  IN  IF f = <<>> THEN <<0>>
      ELSE [i \in 1..size |-> 2 * CentaryEncode(Two(i)) + (IF i < size THEN 1 ELSE 0)]

RECURSIVE DecodePairs(_, _)
DecodePairs(b, positive) ==
  LET read == GetU8(b)
      byte == IF positive THEN read.byte ELSE Complement(read.byte)
      digits == CentaryDecode(byte \div 2)
      rest == DecodePairs(read.buf, positive)
  IN  CASE Remaining(b) = 0 -> [val |-> <<>>, buf |-> b]
        [] read.buf.panicked -> [val |-> <<>>, buf |-> read.buf]
        [] Len(digits) = 1 \/ byte % 2 = 0 -> [val |-> digits, buf |-> read.buf]
        [] OTHER -> [rest EXCEPT !.val = digits \o @]

DecodeFraction(b, positive) ==
  LET first == IF Chunk(b) = <<>> THEN 0 ELSE Head(Chunk(b))
  IN  IF Chunk(b) = <<>> THEN [val |-> <<>>, buf |-> [b EXCEPT !.panicked = TRUE]]
      ELSE IF (IF positive THEN first ELSE Complement(first)) = 0
      THEN [val |-> <<>>, buf |-> b]
      ELSE DecodePairs(b, positive)

IntegerAndFractionToStorage(isNeg, integer, fraction) ==
  (IF integer = 0 /\ isNeg THEN <<NegativeZero>> ELSE BigIntToStorage(integer))
    \o ComplementedIf(isNeg, EncodeFraction(fraction))

ReadIntegerAndFraction(b) ==
  LET Both(int, fraction) == [int |-> int.val, positive |-> int.sign,
                              fraction |-> fraction.val, buf |-> fraction.buf]
      AfterInt(int) == Both(int, DecodeFraction(int.buf, int.sign))
  IN  AfterInt(StorageToBigInt(b))

-----------------------------------------------------------------------------
(* Decimals as they are written: sign, digits before and behind the point, *)
(* and an exponent or none.                                                *)

Plain(neg, whole, fraction) ==
  [neg |-> neg, whole |-> whole, fraction |-> fraction, exp |-> <<>>]

Zeros(n) == [i \in 1..n |-> 0]

\* The scientific form is padded so that the point can be moved; a part with
\* the point in it is no number and counts as 0.
Point == Base       \* no digit
Shifted(d) ==
  LET exp == Head(d.exp)
      leftPad == IF -exp > Len(d.whole)
                 THEN <<0, Point>> \o Zeros(-exp - Len(d.whole)) ELSE <<>>
      combined == leftPad \o d.whole \o d.fraction \o Zeros(exp - Len(d.fraction))
      shift == Len(leftPad) + Len(d.whole) + exp
      before == SubSeq(combined, 1, shift)
  IN  [whole |-> IF Point \in ToSet(before) THEN 0 ELSE Number(before),
       fraction |-> After(combined, shift)]

DecimalToStorage(d) ==
  LET Store(parts) ==
        IntegerAndFractionToStorage(d.neg, Signed(d.neg, parts.whole), parts.fraction)
  IN  Store(IF d.exp = <<>> THEN [whole |-> Number(d.whole), fraction |-> d.fraction]
            ELSE Shifted(d))

StorageToDecimal(b) ==
  LET Digits(n) == DigitsOf(Max({1} \union {k \in 1..Bits(n) : Base^(k - 1) <= n}), n)
      NegZero(r) == r.int = 0 /\ ~r.positive /\ r.fraction # <<>>
      Decimal(r) == [val |-> Plain(r.int < 0 \/ NegZero(r), Digits(Signed(r.int < 0, r.int)),
                                   r.fraction),
                     buf |-> r.buf]
  IN  Decimal(ReadIntegerAndFraction(b))

-----------------------------------------------------------------------------
(* Date and time: the smallest parts of a second since the epoch           *)

Second == Base^(3 * FractionGroup)

DateTimeToParts(t) ==
  LET seconds == t \div Second
      nanos == t % Second
  IN  IF seconds < 0 /\ nanos # 0
      THEN [isNeg |-> TRUE, seconds |-> seconds + 1, nanos |-> Second - nanos]
      ELSE [isNeg |-> seconds < 0, seconds |-> seconds, nanos |-> nanos]

DateTimeToStorage(t) ==
  LET unit == Base^FractionGroup
      Fraction(nanos) == CASE nanos = 0 -> <<>>
                           [] nanos % unit^2 = 0 -> DigitsOf(FractionGroup, nanos \div unit^2)
                           [] nanos % unit = 0 -> DigitsOf(2 * FractionGroup, nanos \div unit)
                           [] OTHER -> DigitsOf(3 * FractionGroup, nanos)
      Store(p) == IntegerAndFractionToStorage(p.isNeg, p.seconds, Fraction(p.nanos))
  IN  Store(DateTimeToParts(t))

StorageToDateTime(b) ==
  LET Nanos(f) == Number(f \o Zeros(3 * FractionGroup - Len(f)))
      Time(r) == IF r.fraction = <<>> THEN r.int * Second
                 ELSE IF r.positive THEN r.int * Second + Nanos(r.fraction)
                 ELSE (r.int - 1) * Second + (Second - Nanos(r.fraction))
      WithTime(r) == [val |-> Time(r), buf |-> r.buf]
  IN  WithTime(ReadIntegerAndFraction(b))

-----------------------------------------------------------------------------
(* to_lexical and from_lexical of every type but Time, which goes through  *)
(* its text                                                                *)

RecordTypes == DOMAIN Layout
TextTypes ==
  {"String", "LangString", "NCName", "Name", "Token", "NMToken", "NormalizedString",
   "Language", "AnyURI", "Notation", "QName", "ID", "IDRef", "Entity", "AnySimpleType"}
BinaryTypes == {"Base64Binary", "HexBinary"}
IntegerTypes == {"BigInt", "PositiveInteger", "NonNegativeInteger", "NegativeInteger",
                 "NonPositiveInteger"}
TimestampTypes == {"DateTime", "DateTimeStamp"}
DataTypes == RecordTypes \union TextTypes \union BinaryTypes \union IntegerTypes
               \union TimestampTypes \union {"bool", "Decimal"}

\* Datatype::record_size, 0 for None
RecordSizeOf(t) ==
  IF t \in {"u32", "i32", "f32", "u64", "i64", "f64"} THEN Width[t] ELSE 0

ToLexical(t, v) ==
  CASE t \in RecordTypes -> RecordToLexical(Layout[t], v)
    [] t = "bool" -> IF v THEN <<1>> ELSE <<0>>
    [] t \in TextTypes \union BinaryTypes -> v
    [] t \in IntegerTypes -> BigIntToStorage(v)
    [] t = "Decimal" -> DecimalToStorage(v)
    [] t \in TimestampTypes -> DateTimeToStorage(v)

ReadBool(b) == [val |-> GetU8(b).byte # 0, buf |-> GetU8(b).buf]
ReadAll(b) ==
  LET read == CopyToSlice(b, Remaining(b)) IN [val |-> read.bytes, buf |-> read.buf]

\* Nothing where it panics.
FromLexical(t, b) ==
  LET Outcome(read) == IF read.buf.panicked THEN <<>> ELSE <<read.val>>
  IN  Outcome(CASE t \in RecordTypes -> ReadFields(Layout[t], b)
                [] t = "bool" -> ReadBool(b)
                [] t \in TextTypes \union BinaryTypes -> ReadAll(b)
                [] t \in IntegerTypes -> StorageToBigInt(b)
                [] t = "Decimal" -> StorageToDecimal(b)
                [] t \in TimestampTypes -> StorageToDateTime(b))
=============================================================================
