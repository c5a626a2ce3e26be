-------------------------- MODULE MCEncodedEntries --------------------------
(* Bytes of 4 bits, binary digits: every type with values on both sides of *)
(* each place where the length or the form of its code changes.            *)
EXTENDS EncodedEntries

CONSTANTS NumberMax,      \* bound: numbers of VByte and sizes
          Longest         \* bound: byte strings given to VByte's decoder

MCWidth == [u8 |-> 1, i8 |-> 1, u16 |-> 1, i16 |-> 1, u32 |-> 2, i32 |-> 2,
            f32 |-> 2, u64 |-> 3, i64 |-> 3, f64 |-> 3]

Edge(t) == SignMask(t)
Unsigned(t) == {0, 1, 15, 16, 17, Edge(t) - 1, Edge(t), 2 * Edge(t) - 1} \intersect 0..(2 * Edge(t) - 1)
SignedOf(t) == {-Edge(t), -16, -9, -8, -1, 0, 1, 7, 8, 15, 16, Edge(t) - 1}
                 \intersect (-Edge(t))..(Edge(t) - 1)
\* Zeros, the numbers next to them, infinities, NaNs, both signs.
Floats(t) ==
  {sign + bits : sign \in {0, Edge(t)},
     bits \in {0, 1, FractionUnit(t) - 1, FractionUnit(t), FractionUnit(t) + 1,
               3 * FractionUnit(t), 7 * FractionUnit(t) - 1, 7 * FractionUnit(t),
               7 * FractionUnit(t) + 1, 8 * FractionUnit(t) - 1}}
ScalarsOf(t) == CASE t \in UnsignedTypes -> Unsigned(t)
                  [] t \in SignedTypes -> SignedOf(t)
                  [] OTHER -> Floats(t)

\* A few values for each field of a record.
FieldValues(t) ==
  CASE t = "u8" -> {1, 8}
    [] t = "i8" -> {-1, 1}
    [] t = "i16" -> {-8, 0, 7}
    [] t = "i64" -> {-1, 0, 16}
    [] OTHER -> {0, 1, Edge(t) + FractionUnit(t)}

RECURSIVE Records(_)
Records(layout) ==
  IF layout = <<>> THEN {<<>>}
  ELSE {<<v>> \o r : v \in FieldValues(Head(layout)), r \in Records(Tail(layout))}

BigInts == UNION {{n, -n} : n \in {0, 1, 3, 4, 7, 8, 15, 127, 128, 2047, 2048, 32767, 32768,
                                   524287, 2^27 - 1, 2^27, 2^30}}

Digits(len) == [1..len -> 0..(Base - 1)]
Wholes == {<<0>>, <<1>>, <<1, 0>>, <<0, 1>>}
Decimals ==
  {Plain(neg, w, f) : neg \in BOOLEAN, w \in Wholes, f \in UNION {Digits(n) : n \in 0..3}}
    \union {[neg |-> neg, whole |-> w, fraction |-> f, exp |-> <<e>>] :
              neg \in BOOLEAN, w \in {<<0>>, <<1, 0>>}, f \in {<<>>, <<0, 1>>},
              e \in {-4, -3, -2, -1, 0, 1, 3}}

\* One or two of the types that have the same code.
Texts == {"String", "Token", "HexBinary"}
BigNumbers == {"BigInt", "NegativeInteger"}

MCValues == [t \in (RecordTypes \ {"YearMonthDuration"}) \union Texts \union BigNumbers
                     \union TimestampTypes \union {"bool", "Decimal"} |->
               CASE t \in ScalarTypes -> {<<v>> : v \in ScalarsOf(t)}
                 [] t \in DOMAIN DurationLayout ->
                      {r \in Records(Layout[t]) : r[3] = 1 /\ r[5] = r[4] /\ r[6] = 1}
                 [] t \in RecordTypes -> Records(Layout[t])
                 [] t = "bool" -> BOOLEAN
                 [] t \in Texts -> UNION {[1..n -> {0, 15}] : n \in 0..3} \union {Zeros(5), Zeros(6)}
                 [] t = "BigInt" -> BigInts
                 [] t = "NegativeInteger" -> {n \in BigInts : n < 0}
                 [] t = "Decimal" -> Decimals
                 [] t \in TimestampTypes -> -20..20]
              @@ [t \in Codes |-> 0..NumberMax]

-----------------------------------------------------------------------------
(* What the values mean                                                    *)

\* The number a float stands for, in units of the smallest; infinity is the
\* one that would come next.
FloatValue(t, x) ==
  LET f == x % FractionUnit(t)
      size == IF Exponent(t, x) = 0 THEN f
              ELSE (FractionUnit(t) + f) * 2^(Exponent(t, x) - 1)
  IN  IF x >= SignMask(t) THEN -size ELSE size

\* In units of Base^-10, which is less than any of the digits here.
DecimalValue(d) ==
  LET exp == IF d.exp = <<>> THEN 0 ELSE Head(d.exp)
      size == Number(d.whole \o d.fraction) * Base^(10 + exp - Len(d.fraction))
  IN  IF d.neg THEN -size ELSE size

FieldBefore(t, v, w) ==
  IF t \in FloatTypes
  THEN ~IsNaN(t, v) /\ ~IsNaN(t, w) /\ FloatValue(t, v) < FloatValue(t, w)
  ELSE v < w

\* Whether one value comes before another: records field by field, a NaN
\* neither before nor behind anything.
Before(v, w) ==
  CASE kind \in RecordTypes ->
         \E k \in DOMAIN v : /\ SubSeq(v, 1, k - 1) = SubSeq(w, 1, k - 1)
                             /\ FieldBefore(Layout[kind][k], v[k], w[k])
    [] kind = "bool" -> w /\ ~v
    [] kind \in TextTypes \union BinaryTypes -> Ordering(v, w) = "Less"
    [] kind = "Decimal" -> DecimalValue(v) < DecimalValue(w)
    [] OTHER -> v < w

NegativeNaN(t, x) == t \in FloatTypes /\ IsNaN(t, x) /\ x >= SignMask(t)

\* A decimal written as storage_to_decimal writes it.
IsNormal(d) ==
  /\ d.exp = <<>>
  /\ Len(d.whole) = 1 \/ Head(d.whole) # 0
  /\ ~(d.neg /\ Number(d.whole) = 0 /\ d.fraction = <<>>)

\* Whether w is what v is to be read back as: the same, but for a decimal of
\* another form, of which only the number is kept, and a negative NaN, which
\* becomes a number.
ReadAs(v, w) ==
  CASE kind \in RecordTypes ->
         \A k \in DOMAIN v : IF NegativeNaN(Layout[kind][k], v[k])
                             THEN ~IsNaN(Layout[kind][k], w[k]) ELSE w[k] = v[k]
    [] kind = "Decimal" -> DecimalValue(w) = DecimalValue(v) /\ (IsNormal(v) => w = v)
    [] OTHER -> w = v

Reads(read, v) == read # <<>> /\ ReadAs(v, Head(read))

\* The types that are read by get_u8.
ReadByByte == IntegerTypes \union TimestampTypes \union {"bool", "Decimal"}

\* What VByte should make of any byte string.
VByteOutcome(s) ==
  LET group == ByteBits - 1
      longest == WordBits \div group + 1
      last == Min({i \in DOMAIN s : s[i] >= Msb} \union {Len(s) + 1})
      num == SumOf([i \in 1..last |-> (s[i] % Msb) * 2^(group * (i - 1))])
  IN  CASE last > longest /\ Len(s) >= longest -> Failure("UnexpectedEncodingLen")
        [] last > Len(s) -> Failure("UnexpectedEndOfBuffer")
        [] num >= 2^WordBits -> Failure("EncodedValueTooLarge")
        [] OTHER -> [error |-> "None", num |-> num, count |-> last]

-----------------------------------------------------------------------------
(* What was encoded is read back: from the bytes, from the entry of a      *)
(* block, and from the entry an iterator gives - except that get_u8 panics *)
(* on one that starts with an empty slice.  The codes of numbers are their *)
(* own inverses, their lengths are what encoding_len promises the unsafe   *)
(* writes, and every other byte string is refused for the right reason     *)
(* (to_lexical, from_lexical, vbyte.rs, size_decode).                      *)
ReadsBack ==
  /\ kind \in DataTypes => \A i \in DOMAIN values :
       LET v == values[i]
           iterated == IteratedRope(block, i - 1)
           FromRope(rope) == FromLexical(kind, AsBuf(rope))
       IN  /\ Reads(FromRope(<<ToLexical(kind, v)>>), v)
           /\ Reads(FromRope(EntryRope(block, i - 1)), v)
           /\ IF kind \in ReadByByte /\ Head(iterated) = <<>>
              THEN FromRope(iterated) = <<>>
              ELSE Reads(FromRope(iterated), v)
  /\ kind = "size" => \A n \in ToSet(values) :
       LET read == SizeDecode(AsBuf(<<SizeEncode(n)>>))
       IN  read.size = n /\ read.sign = (n # 0) /\ Remaining(read.buf) = 0
  /\ kind = "vbyte" => \A n \in ToSet(values) :
       ReadsEncoded(n, <<>>) /\ ReadsEncoded(n, <<0, Msb>>) /\ EncodingLen(n) <= MaxEncodingLen
  /\ kind = "vbyte" /\ values = <<>> =>
       \A s \in UNION {[1..n -> {0, 1, Msb - 1, Msb, Msb + 1, Msb + 2}] : n \in 0..Longest} :
         DecodeBuf(s) = VByteOutcome(s)

(* Entries put in the order of their bytes have their values in order: a   *)
(* dictionary that compares bytes only finds and iterates values in their  *)
(* order.  The sizes of BigInts sort as they should up to FirstMax * Msb,  *)
(* where they stop to (to_lexical of each type, size_encode,               *)
(* centary_decimal_encode).                                                *)
KeepsOrder ==
  /\ kind \in DataTypes =>
       \A i, j \in DOMAIN values : i < j => ~Before(values[j], values[i])
  /\ kind = "size" => \A n \in ToSet(values) :
       LET limit == FirstMax * Msb
       IN  /\ \A m \in 1..(n - 1) :
                n < limit => Ordering(SizeEncode(m), SizeEncode(n)) = "Less"
           /\ n = limit => Ordering(SizeEncode(n), SizeEncode(n - 1)) = "Less"

(* "For any arbitrary BigInt, the higher-level `to_lexical` /              *)
(* `from_lexical` trait methods must also round-trip correctly"            *)
(* (integer.rs): a BigInt of any entry that is iterated over.              *)
IteratedReadsBack ==
  kind = "BigInt" => \A i \in DOMAIN values :
    FromLexical(kind, AsBuf(IteratedRope(block, i - 1))) = <<values[i]>>
=============================================================================
