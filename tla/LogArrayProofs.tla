--------------------------- MODULE LogArrayProofs ---------------------------
(***************************************************************************)
(* Numbers in bits.  For every word size and every width: whatever is      *)
(* pushed to a log array, an element reads back as it was pushed, and      *)
(* parse accepts what a builder finishes.  And for every word size and     *)
(* every group size of vbyte: a number reads back from its bytes.          *)
(***************************************************************************)
EXTENDS LogArrayBuilder, VByte, BitIndexProofs

USE WAssumption, LenAssumption, MaxCountAssumption

-----------------------------------------------------------------------------
(* Arithmetic.                                                             *)

\* A number is a multiple of w and a remainder in only one way.
LEMMA DivisionUnique ==
  ASSUME NEW w \in Nat \ {0}, NEW a \in Int, NEW b \in Int,
         NEW r \in 0..(w-1), NEW s \in 0..(w-1), a * w + r = b * w + s
  PROVE  a = b /\ r = s
<1>1. ASSUME a < b PROVE FALSE
  <2>1. (a + 1) * w <= b * w
    BY <1>1, MulMonotonic
  <2>. QED  BY <2>1
<1>2. ASSUME b < a PROVE FALSE
  <2>1. (b + 1) * w <= a * w
    BY <1>2, MulMonotonic
  <2>. QED  BY <2>1
<1>. QED  BY <1>1, <1>2

LEMMA Division ==
  ASSUME NEW x \in Nat, NEW w \in Nat \ {0}
  PROVE  /\ x \div w \in Nat
         /\ x % w \in 0..(w-1)
         /\ x = (x \div w) * w + (x % w)
OBVIOUS

LEMMA DivisionIs ==
  ASSUME NEW w \in Nat \ {0}, NEW q \in Nat, NEW r \in 0..(w-1),
         NEW x \in Nat, x = q * w + r
  PROVE  x \div w = q /\ x % w = r
<1>. DEFINE a == x \div w
            s == x % w
<1>1. a \in Nat /\ s \in 0..(w-1) /\ x = a * w + s
  BY Division
<1>. HIDE DEF a, s
<1>2. a = q /\ s = r
  BY <1>1, DivisionUnique
<1>. QED  BY <1>2 DEF a, s

\* The length a control word holds is the length it was made for.
LEMMA ControlWordKeepsLength ==
  ASSUME NEW len \in 0..MaxLogArrayLen, NEW wd
  PROVE  ParseLen(ControlWord(len, wd)) = len
<1>. DEFINE high == len \div LenLow
            low  == len % LenLow
<1>1. len \in Nat /\ len < LenHigh * LenLow
  BY DEF MaxLogArrayLen
<1>2. high \in Nat /\ low \in 0..(LenLow-1) /\ len = high * LenLow + low
  BY <1>1, Division
<1>3. ParseLen(ControlWord(len, wd)) = (high % LenHigh) * LenLow + low
  BY DEF ParseLen, ControlWord
<1>. HIDE DEF high, low
<1>4. high < LenHigh
  <2>1. SUFFICES ASSUME LenHigh <= high PROVE FALSE
    BY <1>2
  <2>2. LenHigh * LenLow <= high * LenLow
    BY <1>2, <2>1, MulMonotonic
  <2>. QED  BY <2>2, <1>1, <1>2
<1>5. high % LenHigh = high
  BY <1>2, <1>4, high = 0 * LenHigh + high, DivisionIs
<1>. QED  BY <1>2, <1>3, <1>5

-----------------------------------------------------------------------------
(* Words and widths.                                                       *)

LEMMA ShiftsAreWords ==
  ASSUME NEW x \in Word, NEW y \in Word, NEW n \in Nat
  PROVE  Zero \in Word /\ Shl(x, n) \in Word /\ Shr(x, n) \in Word /\ Or(x, y) \in Word
<1>1. \A b \in Bit : b + n < W => x[b + n] \in {0, 1}
  BY DEF Bit, Word
<1>2. \A b \in Bit : b >= n => x[b - n] \in {0, 1}
  BY DEF Bit, Word
<1>. QED  BY <1>1, <1>2 DEF Zero, Shl, Shr, Or, Word

LEMMA FitsWider ==
  ASSUME NEW val \in Word, NEW m \in Nat, NEW n \in Nat, m <= n, Fits(val, m)
  PROVE  Fits(val, n)
BY DEF Fits, Bit

\* There is a least width that a value fits, and it is not zero unless the
\* value is: what util::calculate_width computes from leading_zeros.
LEMMA CalculateWidthFits ==
  ASSUME NEW val \in Word
  PROVE  CalculateWidth(val) \in 1..W /\ Fits(val, CalculateWidth(val))
<1>1. CASE val = Zero
  BY <1>1 DEF CalculateWidth, Fits, Zero, Bit
<1>2. CASE val # Zero
  <2>. DEFINE T == {w \in Nat : Fits(val, w)}
  <2>1. W \in T
    BY DEF Fits, Bit
  <2>2. PICK w \in T : \A v \in T : <<v, w>> \notin OpToRel(<, Nat)
    <3>1. IsWellFoundedOn(OpToRel(<, Nat), Nat)
      BY NatLessThanWellFounded
    <3>2. T \subseteq Nat /\ T # {}
      BY <2>1
    <3>. HIDE DEF T
    <3>. QED  BY <3>1, <3>2, WFMin
  <2>3. \A v \in T : ~(v < w)
    BY <2>2 DEF OpToRel
  <2>4. w # 0
    <3>1. PICK b \in Bit : val[b] # 0
      BY <1>2 DEF Zero, Word
    <3>. QED  BY <3>1 DEF Fits, Bit
  <2>5. w \in 1..W /\ Fits(val, w)
    BY <2>1, <2>3, <2>4
  <2>6. ~Fits(val, w - 1)
    BY <2>3, <2>5
  <2>. QED  BY <1>2, <2>5, <2>6 DEF CalculateWidth
<1>. QED  BY <1>1, <1>2

-----------------------------------------------------------------------------
(* Type correctness.                                                       *)

LEMMA PushTypes ==
  ASSUME TypeOK, NEW val \in Word, Push(val)
  PROVE  /\ count' = count + 1 /\ pushed' = Append(pushed, val)
         /\ pushed' \in Seq(Word) /\ words' \in Seq(Word)
         /\ current' \in Word /\ offset' \in Bit
<1>. DEFINE filled == Or(current, Shr(Shl(val, W - width), offset))
            next   == offset + width
<1>1. filled \in Word
  <2>1. W - width \in Nat /\ offset \in Nat /\ current \in Word
    BY DEF TypeOK, Bit
  <2>2. Shl(val, W - width) \in Word
    BY <2>1, ShiftsAreWords
  <2>3. Shr(Shl(val, W - width), offset) \in Word
    BY <2>1, <2>2, ShiftsAreWords
  <2>. QED  BY <2>1, <2>3, ShiftsAreWords
<1>2. next \in Nat /\ next < 2 * W
  BY DEF TypeOK, Bit
<1>3. /\ count' = count + 1
      /\ pushed' = Append(pushed, val)
      /\ IF WordFull(next)
         THEN words' = Append(words, filled) /\ offset' = next - W
              /\ current' = Carry(val, next - W)
         ELSE current' = filled /\ offset' = next /\ words' = words
  BY DEF Push
<1>. HIDE DEF filled, next
<1>4. CASE WordFull(next)
  <2>1. next - W \in Bit
    BY <1>2, <1>4 DEF WordFull, Bit
  <2>2. Carry(val, next - W) \in Word
    BY <2>1, ShiftsAreWords DEF Carry, Bit
  <2>3. words' = Append(words, filled) /\ offset' = next - W /\ current' \in Word
    BY <1>3, <1>4, <2>2
  <2>. QED  BY <1>1, <1>3, <2>1, <2>3, AppendProperties DEF TypeOK
<1>5. CASE ~WordFull(next)
  <2>1. next \in Bit
    BY <1>2, <1>5 DEF WordFull, Bit
  <2>. QED  BY <1>1, <1>3, <1>5, <2>1, AppendProperties DEF TypeOK
<1>. QED  BY <1>4, <1>5

LEMMA ControlWordType ==
  ASSUME NEW len \in Nat, NEW wd \in 0..W
  PROVE  ControlWord(len, wd) \in [len1 : Nat, width : 0..W, len2 : Nat]
<1>1. len % LenLow \in Nat /\ len \div LenLow \in Nat
  BY Division
<1>2. (len \div LenLow) % LenHigh \in Nat
  BY <1>1, Division
<1>. QED  BY <1>1, <1>2 DEF ControlWord

LEMMA TypeInit == Init => TypeOK
<1>1. NoControl \in [len1 : Nat, width : 0..W, len2 : Nat]
  BY ControlWordType DEF NoControl
<1>2. Zero \in Word
  BY DEF Zero, Word
<1>. SUFFICES ASSUME Init PROVE TypeOK
  OBVIOUS
<1>3. direct \in BOOLEAN
  BY Zenon DEF Init
<1>4. <<>> \in Seq(Word)
  BY EmptySeq
<1>5. phase \in {"late", "packing", "done"} /\ width \in 0..W
  BY DEF Init
<1>6. /\ vals = <<>> /\ pushed = <<>> /\ words = <<>>
      /\ current = Zero /\ offset = 0 /\ count = 0 /\ control = NoControl
  BY DEF Init
<1>. QED  BY <1>1, <1>2, <1>3, <1>4, <1>5, <1>6 DEF TypeOK, Bit

LEMMA TypeStep == TypeOK /\ [Next]_vars => TypeOK'
<1>. SUFFICES ASSUME TypeOK, [Next]_vars PROVE TypeOK'
  OBVIOUS
<1>1. ASSUME NEW val \in Word, LatePush(val) PROVE TypeOK'
  <2>1. Wider(val) \in 0..W
    BY CalculateWidthFits DEF Wider, TypeOK
  <2>. QED  BY <1>1, <2>1, AppendProperties DEF LatePush, TypeOK
<1>2. ASSUME NEW val \in Word, PushNext(val) PROVE TypeOK'
  <2>1. Push(val)
    BY <1>2 DEF PushNext
  <2>. QED  BY <1>2, <2>1, PushTypes DEF PushNext, TypeOK
<1>3. CASE LatePop
  <2>1. SubSeq(vals, 1, Len(vals) - 1) \in Seq(Word)
    BY SubSeqProperties, LenProperties, ElementOfSeq DEF TypeOK
  <2>. QED  BY <1>3, <2>1 DEF LatePop, TypeOK, builder
<1>4. CASE LateFinalize
  BY <1>4 DEF LateFinalize, TypeOK, builder
<1>5. CASE PushVec
  <2>1. Head(vals) \in Word /\ Tail(vals) \in Seq(Word)
    BY <1>5, HeadTailProperties DEF PushVec, TypeOK
  <2>2. Push(Head(vals))
    BY <1>5 DEF PushVec
  <2>. QED  BY <1>5, <2>1, <2>2, PushTypes DEF PushVec, TypeOK
<1>6. CASE Finalize
  <2>1. Append(words, current) \in Seq(Word)
    BY AppendProperties DEF TypeOK
  <2>2. ControlWord(count, width) \in [len1 : Nat, width : 0..W, len2 : Nat]
    BY ControlWordType DEF TypeOK
  <2>. QED  BY <1>6, <2>1, <2>2 DEF Finalize, TypeOK
<1>7. CASE UNCHANGED vars
  BY <1>7 DEF vars, builder, TypeOK
<1>. QED  BY <1>1, <1>2, <1>3, <1>4, <1>5, <1>6, <1>7 DEF Next

\* Every variable keeps its type: no shift leaves the word, offset never
\* reaches W, and the width found for a late builder is one a word has.
THEOREM TypeCorrect == Spec => []TypeOK
BY TypeInit, TypeStep, PTL DEF Spec

-----------------------------------------------------------------------------
(* The packing invariant.                                                  *)

LEMMA PackInit == Init => PackInv
<1>. SUFFICES ASSUME Init PROVE PackInv
  OBVIOUS
<1>1. /\ pushed = <<>> /\ words = <<>> /\ current = Zero /\ offset = 0 /\ count = 0
      /\ phase # "done" /\ (phase = "late" => ~direct)
  BY Zenon DEF Init
<1>2. Len(pushed) = 0 /\ Len(words) = 0
  BY <1>1
<1>3. width \in Nat
  BY DEF Init
<1>. QED  BY <1>1, <1>2, <1>3 DEF PackInv, Packed, Zero, Bit

\* What the two halves of a push are, bit by bit.
LEMMA PushBits ==
  ASSUME TypeOK, PackInv, phase # "done", NEW val \in Word, NEW r \in Bit
  PROVE  /\ r < offset => Or(current, Shr(Shl(val, W - width), offset))[r] = current[r]
         /\ r >= offset /\ r < offset + width =>
              Or(current, Shr(Shl(val, W - width), offset))[r] = val[W - width + (r - offset)]
         /\ r >= offset + width => Or(current, Shr(Shl(val, W - width), offset))[r] = 0
         /\ offset + width > W /\ r < offset + width - W =>
              Carry(val, offset + width - W)[r] = val[W - width + (r + W - offset)]
         /\ offset + width >= W /\ r >= offset + width - W => Carry(val, offset + width - W)[r] = 0
<1>0. /\ current \in Word /\ offset \in Bit /\ width \in 0..W
      /\ \A b \in Bit : b >= offset => current[b] = 0
  BY DEF TypeOK, PackInv
<1>. DEFINE x == Shl(val, W - width)
            y == Shr(x, offset)
<1>1. \A k \in Bit : x[k] = IF k < width THEN val[W - width + k] ELSE 0
  BY <1>0 DEF Shl, Bit
<1>. HIDE DEF x
<1>2. y[r] = IF r >= offset THEN x[r - offset] ELSE 0
  BY <1>0 DEF Shr
<1>3. y[r] = IF r >= offset /\ r < offset + width THEN val[W - width + (r - offset)] ELSE 0
  BY <1>0, <1>1, <1>2 DEF Bit
<1>. HIDE DEF y
<1>4. Or(current, y)[r] = IF current[r] = 1 \/ y[r] = 1 THEN 1 ELSE 0
  BY DEF Or
<1>5. \A k \in Bit : current[k] \in {0, 1} /\ val[k] \in {0, 1}
  BY <1>0 DEF Word
<1>6. r < offset => Or(current, y)[r] = current[r]
  BY <1>0, <1>3, <1>4, <1>5 DEF Bit
<1>7. r >= offset /\ r < offset + width => Or(current, y)[r] = val[W - width + (r - offset)]
  BY <1>0, <1>3, <1>4, <1>5 DEF Bit
<1>8. r >= offset + width => Or(current, y)[r] = 0
  BY <1>0, <1>3, <1>4, <1>5 DEF Bit
<1>9. offset + width >= W /\ offset + width - W # 0 =>
        Carry(val, offset + width - W)[r] =
          IF r < offset + width - W THEN val[W - width + (r + W - offset)] ELSE 0
  BY <1>0 DEF Carry, Shl, Bit
<1>10. offset + width - W = 0 => Carry(val, offset + width - W)[r] = 0
  BY DEF Carry, Zero
<1>. QED  BY <1>0, <1>6, <1>7, <1>8, <1>9, <1>10 DEF x, y, Bit

\* The elements packed so far lie before the first unused bit.
LEMMA PackedBefore ==
  ASSUME TypeOK, PackInv, phase # "done",
         NEW i \in 1..count, NEW b \in 0..(width-1), NEW q \in Nat, NEW r \in Bit,
         (i - 1) * width + b = q * W + r
  PROVE  q < Len(words) \/ (q = Len(words) /\ r < offset)
<1>. DEFINE L == Len(words)
<1>0. /\ count \in Nat /\ width \in Nat /\ L \in Nat /\ offset \in Bit
      /\ L * W + offset = count * width
  BY LenProperties DEF TypeOK, PackInv
<1>. HIDE DEF L
<1>1. i * width <= count * width
  BY <1>0, MulMonotonic
<1>2. i * width = (i - 1) * width + width
  BY <1>0
<1>3. q * W + r < L * W + offset
  <2>. DEFINE start == (i - 1) * width
              all   == count * width
              there == q * W
              full  == L * W
  <2>1. start + width <= all /\ all = full + offset /\ start + b = there + r
    BY <1>0, <1>1, <1>2
  <2>2. start \in Int /\ all \in Int /\ there \in Int /\ full \in Int
    BY <1>0
  <2>. HIDE DEF start, all, there, full
  <2>3. there + r < full + offset
    BY <1>0, <2>1, <2>2 DEF Bit
  <2>. QED  BY <2>3 DEF there, full
<1>4. ASSUME q > L PROVE FALSE
  <2>1. (L + 1) * W <= q * W
    BY <1>0, <1>4, MulMonotonic
  <2>. QED  BY <1>0, <2>1, <1>3 DEF Bit
<1>5. q = L => r < offset
  BY <1>0, <1>3 DEF Bit
<1>. QED  BY <1>0, <1>4, <1>5 DEF L

\* The cells of the elements before are kept, and the new one's are the
\* value's, in the word that was being filled or over its end.
LEMMA PushPacks ==
  ASSUME TypeOK, PackInv, phase # "done", NEW val \in Word, Push(val), width' = width
  PROVE  /\ Len(words') * W + offset' = count' * width'
         /\ \A b \in Bit : b >= offset' => current'[b] = 0
         /\ Packed'
<1>. DEFINE filled == Or(current, Shr(Shl(val, W - width), offset))
            next   == offset + width
            L      == Len(words)
<1>1. /\ width \in 0..W /\ offset \in Bit /\ current \in Word /\ count \in Nat
      /\ words \in Seq(Word) /\ L \in Nat /\ pushed \in Seq(Word)
  BY LenProperties DEF TypeOK
<1>2. /\ Len(pushed) = count /\ L * W + offset = count * width
      /\ \A b \in Bit : b >= offset => current[b] = 0
  BY DEF PackInv
<1>3. /\ count' = count + 1 /\ pushed' = Append(pushed, val)
      /\ IF next >= W
         THEN words' = Append(words, filled) /\ offset' = next - W
              /\ current' = Carry(val, next - W)
         ELSE current' = filled /\ offset' = next /\ words' = words
  BY DEF Push, WordFull
<1>4. \A r \in Bit :
        /\ r < offset => filled[r] = current[r]
        /\ r >= offset /\ r < next => filled[r] = val[W - width + (r - offset)]
        /\ r >= next => filled[r] = 0
        /\ next > W /\ r < next - W =>
             Carry(val, next - W)[r] = val[W - width + (r + W - offset)]
        /\ next >= W /\ r >= next - W => Carry(val, next - W)[r] = 0
  <2>. TAKE r \in Bit
  <2>1. r < offset => filled[r] = current[r]
    BY PushBits
  <2>2. r >= offset /\ r < next => filled[r] = val[W - width + (r - offset)]
    BY PushBits
  <2>3. r >= next => filled[r] = 0
    BY PushBits
  <2>4. next > W /\ r < next - W => Carry(val, next - W)[r] = val[W - width + (r + W - offset)]
    BY <1>1, PushBits DEF Bit
  <2>5. next >= W /\ r >= next - W => Carry(val, next - W)[r] = 0
    BY <1>1, PushBits DEF Bit
  <2>. QED  BY <2>1, <2>2, <2>3, <2>4, <2>5
<1>5. (count + 1) * width = count * width + width /\ (L + 1) * W = L * W + W
  BY <1>1
<1>6. /\ next >= W => Len(words') = L + 1 /\ words'[L + 1] = filled
      /\ next < W => Len(words') = L
      /\ \A q \in Nat : q < L => words'[q + 1] = words[q + 1]
      /\ filled \in Word
  <2>1. filled \in Word
    <3>1. W - width \in Nat /\ offset \in Nat
      BY <1>1 DEF Bit
    <3>2. Shr(Shl(val, W - width), offset) \in Word
      BY <3>1, ShiftsAreWords
    <3>. QED  BY <1>1, <3>2, ShiftsAreWords
  <2>. HIDE DEF filled, next
  <2>2. CASE next >= W
    <3>1. words' = Append(words, filled)
      BY <1>3, <2>2
    <3>2. /\ Len(words') = L + 1 /\ words'[L + 1] = filled
          /\ \A q \in 1..L : words'[q] = words[q]
      BY <1>1, <2>1, <3>1, AppendProperties
    <3>3. next \in Int
      BY <1>1 DEF next, Bit
    <3>. HIDE DEF L
    <3>. QED  BY <1>1, <2>1, <2>2, <3>2, <3>3
  <2>3. CASE ~(next >= W)
    <3>1. words' = words /\ next \in Int
      BY <1>1, <1>3, <2>3 DEF next, Bit
    <3>. QED  BY <1>1, <2>1, <2>3, <3>1
  <2>. QED  BY <2>2, <2>3
<1>7. /\ next \in Nat /\ next < 2 * W
  BY <1>1 DEF Bit
<1>8. \A i \in 1..count : pushed'[i] = pushed[i]
  BY <1>1, <1>2, <1>3, AppendProperties
<1>9. pushed'[count + 1] = val
  BY <1>1, <1>2, <1>3, AppendProperties
<1>. HIDE DEF filled, L
<1>10. Len(words') * W + offset' = count' * width'
  <2>1. L * W + next = (count + 1) * width
    BY <1>1, <1>2, <1>5 DEF Bit
  <2>2. CASE next >= W
    <3>1. Len(words') = L + 1 /\ offset' = next - W
      BY <1>3, <1>6, <2>2
    <3>. HIDE DEF next
    <3>. QED  BY <1>1, <1>3, <1>5, <1>7, <2>1, <3>1
  <2>3. CASE ~(next >= W)
    <3>1. Len(words') = L /\ offset' = next
      BY <1>3, <1>6, <1>7, <2>3
    <3>. HIDE DEF next
    <3>. QED  BY <1>1, <1>3, <1>7, <2>1, <3>1
  <2>. QED  BY <2>2, <2>3
<1>11. \A b \in Bit : b >= offset' => current'[b] = 0
  BY <1>3, <1>4
<1>12. ASSUME NEW i \in 1..(count+1), NEW b \in 0..(width-1), NEW q \in Nat, NEW r \in Bit,
              (i - 1) * width + b = q * W + r
       PROVE  Cell(q, r)' = pushed'[i][W - width + b]
  <2>1. CASE i \in 1..count
    <3>1. q < L \/ (q = L /\ r < offset)
      BY <1>12, <2>1, PackedBefore DEF L
    <3>2. Cell(q, r) = pushed[i][W - width + b]
      BY <1>12, <2>1 DEF PackInv, Packed
    <3>3. q < L => Cell(q, r)' = Cell(q, r)
      BY SMTT(30), <1>1, <1>6, <1>7 DEF Cell, L
    <3>4. q = L /\ r < offset => Cell(q, r)' = Cell(q, r)
      BY <1>1, <1>3, <1>4, <1>6, <1>7 DEF Cell, L
    <3>. QED  BY <3>1, <3>2, <3>3, <3>4, <1>8, <2>1
  <2>2. CASE i = count + 1
    <3>1. L * W + (offset + b) = q * W + r
      <4>1. i - 1 = count /\ count * width + b = q * W + r
        BY <1>1, <1>12, <2>2
      <4>. DEFINE x == count * width
                  y == L * W
                  z == q * W
      <4>2. x \in Int /\ y \in Int /\ z \in Int /\ y + offset = x /\ x + b = z + r
        BY <1>1, <1>2, <4>1 DEF Bit
      <4>3. y + (offset + b) = z + r
        <5>. HIDE DEF x, y, z
        <5>. QED  BY <1>1, <4>2 DEF Bit
      <4>. QED  BY <4>3
    <3>2. CASE offset + b < W
      <4>1. q = L /\ r = offset + b
        BY <1>1, <1>12, <3>1, <3>2, DivisionUnique DEF Bit
      <4>2. Cell(q, r)' = filled[r]
        BY SMTT(30), <1>1, <1>3, <1>6, <1>7, <4>1 DEF Cell
      <4>. QED  BY <1>1, <1>4, <1>9, <1>12, <2>2, <4>1, <4>2 DEF Bit
    <3>3. CASE offset + b >= W
      <4>1. offset + b - W \in 0..(W-1)
        BY <1>1, <1>12, <3>3 DEF Bit
      <4>2. (L + 1) * W + (offset + b - W) = q * W + r
        BY <1>1, <1>5, <3>1, <4>1 DEF Bit
      <4>3. q = L + 1 /\ r = offset + b - W
        BY <1>1, <1>12, <4>1, <4>2, DivisionUnique DEF Bit
      <4>4. next > W /\ r < next - W
        BY <1>1, <1>12, <4>3, <3>3 DEF Bit
      <4>5. Cell(q, r)' = Carry(val, next - W)[r]
        BY <1>1, <1>3, <1>6, <1>7, <4>3, <4>4 DEF Cell
      <4>6. W - width + (r + W - offset) = W - width + b
        BY <1>1, <1>12, <4>3 DEF Bit
      <4>. QED  BY <1>4, <1>9, <1>12, <2>2, <4>4, <4>5, <4>6
    <3>4. offset + b \in Int
      BY <1>1 DEF Bit
    <3>. QED  BY <3>2, <3>3, <3>4
  <2>3. count \in Nat
    BY <1>1
  <2>4. i \in 1..count \/ i = count + 1
    BY <2>3
  <2>. QED  BY <2>1, <2>2, <2>4
<1>13. Packed'
  <2>1. count' = count + 1 /\ width' = width
    BY <1>3
  <2>. SUFFICES ASSUME NEW i \in 1..count', NEW b \in 0..(width'-1),
                       NEW q \in Nat, NEW r \in Bit,
                       (i - 1) * width' + b = q * W + r
                PROVE  Cell(q, r)' = pushed'[i][W - width' + b]
    BY DEF Packed
  <2>2. i \in 1..(count+1) /\ b \in 0..(width-1) /\ (i - 1) * width + b = q * W + r
    BY <2>1
  <2>3. Cell(q, r)' = pushed'[i][W - width + b]
    BY <1>12, <2>2
  <2>. QED  BY <2>1, <2>3
<1>. QED  BY <1>10, <1>11, <1>13

IInv == TypeOK /\ PackInv /\ LateValuesFit

LEMMA PushKeepsPackInv ==
  ASSUME TypeOK, PackInv, NEW val \in Word, Push(val),
         UNCHANGED <<phase, direct, width, control>>, phase = "packing"
  PROVE  PackInv'
<1>1. /\ count' = count + 1 /\ pushed' = Append(pushed, val)
      /\ count \in Nat /\ pushed \in Seq(Word) /\ Len(pushed) = count
  BY DEF Push, TypeOK, PackInv
<1>2. Len(pushed') = count'
  BY <1>1, AppendProperties
<1>3. ASSUME NEW i \in 1..count' PROVE Fits(pushed'[i], width')
  <2>1. CASE i \in 1..count
    BY <1>1, <2>1, AppendProperties DEF PackInv, Fits
  <2>2. CASE i = count + 1
    BY <1>1, <2>2, AppendProperties DEF Push, Fits
  <2>. QED  BY <1>1, <2>1, <2>2
<1>4. /\ Len(words') * W + offset' = count' * width'
      /\ \A b \in Bit : b >= offset' => current'[b] = 0
      /\ Packed'
  BY PushPacks
<1>. QED  BY <1>2, <1>3, <1>4 DEF PackInv

\* The last word is written exactly when some bit of it was filled.
LEMMA FinalizeKeepsPackInv ==
  ASSUME TypeOK, PackInv, Finalize
  PROVE  PackInv'
<1>. DEFINE L == Len(words)
<1>1. /\ count \in Nat /\ width \in 0..W /\ L \in Nat /\ offset \in Bit
      /\ words \in Seq(Word) /\ current \in Word
      /\ L * W + offset = count * width /\ phase = "packing"
  BY LenProperties DEF TypeOK, PackInv, Finalize
<1>2. /\ count' = count /\ width' = width /\ pushed' = pushed /\ current' = current
      /\ phase' = "done" /\ control' = ControlWord(count, width)
      /\ count <= MaxLogArrayLen
      /\ words' = IF NeedsLastWord THEN Append(words, current) ELSE words
  BY DEF Finalize
<1>3. (count * width) \div W = L /\ (count * width) % W = offset
  <2>1. count * width \in Nat
    BY <1>1
  <2>. HIDE DEF L
  <2>. QED  BY <2>1, <1>1, DivisionIs DEF Bit
<1>4. DataWords(count, width) = L + (IF offset = 0 THEN 0 ELSE 1)
  BY <1>3 DEF DataWords
<1>5. words' = IF offset = 0 THEN words ELSE Append(words, current)
  BY <1>2, <1>3 DEF NeedsLastWord
<1>6. /\ Len(words') = DataWords(count, width)
      /\ \A q \in Nat : q < L => words'[q + 1] = words[q + 1]
      /\ offset # 0 => words'[L + 1] = current
  <2>1. CASE offset = 0
    BY <1>1, <1>4, <1>5, <2>1
  <2>2. CASE offset # 0
    <3>1. words' = Append(words, current)
      BY <1>5, <2>2
    <3>2. Len(words') = L + 1 /\ words'[L + 1] = current
          /\ \A q \in 1..L : words'[q] = words[q]
      BY <1>1, <3>1, AppendProperties
    <3>. HIDE DEF L
    <3>. QED  BY <1>1, <1>4, <2>2, <3>2
  <2>. QED  BY <2>1, <2>2
<1>7. Packed'
  <2>. SUFFICES ASSUME NEW i \in 1..count', NEW b \in 0..(width'-1),
                       NEW q \in Nat, NEW r \in Bit,
                       (i - 1) * width' + b = q * W + r
                PROVE  Cell(q, r)' = pushed'[i][W - width' + b]
    BY DEF Packed
  <2>1. i \in 1..count /\ b \in 0..(width-1) /\ (i - 1) * width + b = q * W + r
    BY <1>2
  <2>2. q < L \/ (q = L /\ r < offset)
    BY <1>1, <2>1, PackedBefore
  <2>3. Cell(q, r) = pushed[i][W - width + b]
    BY <2>1 DEF PackInv, Packed
  <2>. HIDE DEF L
  <2>4. L \in Nat /\ offset \in Bit
    BY <1>1
  <2>5. L <= Len(words') /\ (offset # 0 => L < Len(words'))
    BY <1>4, <1>6, <2>4
  <2>6. q < L => Cell(q, r)' = Cell(q, r)
    BY <1>6, <2>4, <2>5 DEF Cell, L
  <2>7. q = L /\ r < offset => Cell(q, r)' = Cell(q, r)
    BY <1>2, <1>6, <2>4, <2>5 DEF Cell, L, Bit
  <2>. QED  BY <1>2, <2>2, <2>3, <2>6, <2>7
<1>8. /\ Len(pushed') = count'
      /\ \A i \in 1..count' : Fits(pushed'[i], width')
  BY <1>2 DEF PackInv, Fits
<1>. QED  BY <1>2, <1>6, <1>7, <1>8 DEF PackInv

LEMMA PackStep == IInv /\ [Next]_vars => PackInv' /\ LateValuesFit'
<1>. SUFFICES ASSUME TypeOK, PackInv, LateValuesFit, [Next]_vars
              PROVE  PackInv' /\ LateValuesFit'
  BY DEF IInv
<1>0. TypeOK'
  BY TypeStep
<1>1. ASSUME NEW val \in Word, LatePush(val) PROVE PackInv' /\ LateValuesFit'
  <2>1. /\ width' = Wider(val) /\ vals' = Append(vals, val) /\ phase = "late"
        /\ UNCHANGED <<phase, direct, words, current, offset, count, control, pushed>>
    BY <1>1 DEF LatePush
  <2>2. width' \in Nat /\ width \in Nat /\ width <= width'
        /\ Fits(val, width')
    <3>1. CalculateWidth(val) \in 1..W /\ Fits(val, CalculateWidth(val)) /\ width \in 0..W
      BY CalculateWidthFits DEF TypeOK
    <3>. QED  BY <2>1, <3>1, FitsWider DEF Wider
  <2>3. count = 0 /\ words = <<>> /\ offset = 0 /\ current = Zero /\ ~direct
    BY <2>1 DEF PackInv
  <2>4. PackInv'
    <3>1. Len(words) = 0
      BY <2>3
    <3>2. Packed'
      BY <2>1, <2>3 DEF Packed
    <3>. QED  BY <2>1, <2>2, <2>3, <3>1, <3>2 DEF PackInv
  <2>5. ASSUME NEW i \in 1..Len(vals') PROVE Fits(vals'[i], width')
    <3>1. vals \in Seq(Word)
      BY DEF TypeOK
    <3>2. CASE i \in 1..Len(vals)
      <4>1. vals'[i] = vals[i] /\ vals[i] \in Word
        BY <2>1, <3>1, <3>2, AppendProperties, ElementOfSeq
      <4>2. Fits(vals[i], width)
        BY <2>3, <3>2 DEF LateValuesFit
      <4>. QED  BY <2>2, <4>1, <4>2, FitsWider
    <3>3. CASE i = Len(vals) + 1
      BY <2>1, <2>2, <3>1, <3>3, AppendProperties
    <3>. QED  BY <2>1, <3>1, <3>2, <3>3, AppendProperties, LenProperties
  <2>. QED  BY <2>4, <2>5 DEF LateValuesFit
<1>2. ASSUME NEW val \in Word, PushNext(val) PROVE PackInv' /\ LateValuesFit'
  <2>1. Push(val) /\ phase = "packing" /\ UNCHANGED <<phase, direct, width, control, vals>>
    BY <1>2 DEF PushNext
  <2>. QED  BY <2>1, PushKeepsPackInv DEF LateValuesFit
<1>3. CASE LatePop
  <2>1. /\ vals' = SubSeq(vals, 1, Len(vals) - 1) /\ vals # <<>>
        /\ UNCHANGED <<phase, direct, width, words, current, offset, count, control, pushed>>
    BY <1>3 DEF LatePop, builder
  <2>2. PackInv'
    BY <2>1 DEF PackInv, Packed, Cell
  <2>3. vals \in Seq(Word) /\ Len(vals) \in Nat \ {0}
    BY <2>1, EmptySeq DEF TypeOK
  <2>4. /\ Len(vals') = Len(vals) - 1
        /\ \A i \in 1..(Len(vals)-1) : vals'[i] = vals[i]
    <3>1. \A i \in 1..(Len(vals)-1) : vals[i] \in Word
      BY <2>3, ElementOfSeq
    <3>. DEFINE n == Len(vals) - 1
    <3>2. n \in Nat /\ vals' = SubSeq(vals, 1, n) /\ \A i \in 1..n : vals[i] \in Word
      BY <2>1, <2>3, <3>1
    <3>. HIDE DEF n
    <3>3. /\ Len(SubSeq(vals, 1, n)) = IF 1 <= n THEN n - 1 + 1 ELSE 0
          /\ \A i \in 1..(n - 1 + 1) : SubSeq(vals, 1, n)[i] = vals[1 + i - 1]
      BY <3>2, SubSeqProperties
    <3>4. Len(vals') = n /\ \A i \in 1..n : vals'[i] = vals[i]
      BY <3>2, <3>3
    <3>. QED  BY <3>4 DEF n
  <2>. QED  BY <2>1, <2>2, <2>3, <2>4 DEF LateValuesFit
<1>4. CASE LateFinalize
  <2>1. /\ phase = "late" /\ phase' = "packing"
        /\ UNCHANGED <<direct, vals, width, words, current, offset, count, control, pushed>>
    BY <1>4 DEF LateFinalize, builder
  <2>. QED  BY <2>1 DEF PackInv, Packed, Cell, LateValuesFit
<1>5. CASE PushVec
  <2>1. /\ Push(Head(vals)) /\ phase = "packing" /\ vals # <<>> /\ vals' = Tail(vals)
        /\ UNCHANGED <<phase, direct, width, control>>
    BY <1>5 DEF PushVec
  <2>2. /\ Head(vals) \in Word /\ Len(vals) \in Nat /\ Len(vals') = Len(vals) - 1
        /\ \A i \in 1..Len(vals') : vals'[i] = vals[i + 1]
    BY <2>1, HeadTailProperties, LenProperties DEF TypeOK
  <2>3. PackInv'
    BY <2>1, <2>2, PushKeepsPackInv
  <2>. QED  BY <2>1, <2>2, <2>3 DEF LateValuesFit
<1>6. CASE Finalize
  <2>1. vals' = vals /\ vals = <<>>
    BY <1>6 DEF Finalize
  <2>. QED  BY <1>6, <2>1, FinalizeKeepsPackInv DEF LateValuesFit
<1>7. CASE UNCHANGED vars
  BY <1>7 DEF vars, builder, PackInv, Packed, Cell, LateValuesFit
<1>. QED  BY <1>1, <1>2, <1>3, <1>4, <1>5, <1>6, <1>7 DEF Next

LEMMA Inductive == Spec => []IInv
<1>1. Init => IInv
  <2>. SUFFICES ASSUME Init PROVE LateValuesFit
    BY TypeInit, PackInit DEF IInv
  <2>1. vals = <<>>
    BY DEF Init
  <2>. QED  BY <2>1 DEF LateValuesFit
<1>2. IInv /\ [Next]_vars => IInv'
  BY TypeStep, PackStep DEF IInv
<1>. QED  BY <1>1, <1>2, PTL DEF Spec

-----------------------------------------------------------------------------
(* The properties.                                                         *)

\* push_vec never meets a value that does not fit.
THEOREM LateValuesAlwaysFit == Spec => []LateValuesFit
BY Inductive, PTL DEF IInv

\* There are words for all the bits.
LEMMA DataWordsCover ==
  ASSUME NEW len \in Nat, NEW wd \in Nat
  PROVE  DataWords(len, wd) \in Nat /\ len * wd <= DataWords(len, wd) * W
<1>. DEFINE q == (len * wd) \div W
            r == (len * wd) % W
            x == len * wd
<1>1. x \in Nat
  OBVIOUS
<1>2. q \in Nat /\ r \in 0..(W-1) /\ x = q * W + r
  BY <1>1, Division
<1>3. DataWords(len, wd) = q + (IF r = 0 THEN 0 ELSE 1)
  BY DEF DataWords
<1>. HIDE DEF q, r, x
<1>4. (q + 1) * W = q * W + W
  BY <1>2
<1>5. DataWords(len, wd) \in Nat /\ x <= DataWords(len, wd) * W
  BY <1>2, <1>3, <1>4
<1>. QED  BY <1>5 DEF x

\* Where an element is in one word, and where it goes on in the next.
LEMMA EntryBits ==
  ASSUME NEW buf, NEW wd \in 0..W, NEW s \in Bit, NEW first \in Word,
         NEW second, NEW b \in Bit
  PROVE  /\ s + wd <= W => Shr(Shl(first, s), W - wd)[b] =
              IF b >= W - wd THEN first[s + (b - (W - wd))] ELSE 0
         /\ s + wd > W /\ second \in Word =>
              Or(Shl(Shr(Shl(first, s), s), wd - (W - s)),
                 Shr(second, W - (wd - (W - s))))[b] =
                IF b < W - wd THEN 0
                ELSE IF s + (b - (W - wd)) < W THEN first[s + (b - (W - wd))]
                ELSE second[s + (b - (W - wd)) - W]
<1>1. \A k \in Bit : Shl(first, s)[k] = IF k + s < W THEN first[k + s] ELSE 0
  BY DEF Shl
<1>2. ASSUME s + wd <= W
      PROVE  Shr(Shl(first, s), W - wd)[b] =
               IF b >= W - wd THEN first[s + (b - (W - wd))] ELSE 0
  <2>1. Shr(Shl(first, s), W - wd)[b] =
          IF b >= W - wd THEN Shl(first, s)[b - (W - wd)] ELSE 0
    BY DEF Shr
  <2>. QED  BY <1>1, <1>2, <2>1 DEF Bit
<1>3. ASSUME s + wd > W, second \in Word
      PROVE  Or(Shl(Shr(Shl(first, s), s), wd - (W - s)),
                Shr(second, W - (wd - (W - s))))[b] =
               IF b < W - wd THEN 0
               ELSE IF s + (b - (W - wd)) < W THEN first[s + (b - (W - wd))]
               ELSE second[s + (b - (W - wd)) - W]
  <2>. DEFINE n == wd - (W - s)
              x == Shl(Shr(Shl(first, s), s), n)
              y == Shr(second, W - n)
  <2>1. n \in Nat /\ n <= s
    BY <1>3 DEF Bit
  <2>2. \A k \in Bit : Shr(Shl(first, s), s)[k] = IF k >= s THEN first[k] ELSE 0
    BY <1>1 DEF Shr, Bit
  <2>3. x[b] = IF b + n < W THEN Shr(Shl(first, s), s)[b + n] ELSE 0
    BY DEF Shl
  <2>4. y[b] = IF b >= W - n THEN second[b - (W - n)] ELSE 0
    BY DEF Shr
  <2>5. Or(x, y)[b] = IF x[b] = 1 \/ y[b] = 1 THEN 1 ELSE 0
    BY DEF Or
  <2>. HIDE DEF x, y
  <2>6. x[b] = IF b + n < W /\ b + n >= s THEN first[b + n] ELSE 0
    BY <2>1, <2>2, <2>3 DEF Bit
  <2>7. /\ b + n < W => first[b + n] \in {0, 1}
        /\ b >= W - n => second[b - (W - n)] \in {0, 1}
    BY <1>3, <2>1 DEF Word, Bit
  <2>8. Or(x, y)[b] = IF b + n < s THEN 0
                      ELSE IF b + n < W THEN first[b + n] ELSE second[b - (W - n)]
    BY <2>1, <2>4, <2>5, <2>6, <2>7, <1>3 DEF Bit
  <2>9. /\ b + n < s <=> b < W - wd
        /\ b + n = s + (b - (W - wd)) /\ b - (W - n) = s + (b - (W - wd)) - W
    BY <1>3 DEF Bit
  <2>. QED  BY <2>8, <2>9 DEF x, y
<1>. QED  BY <1>2, <1>3

\* Reading element i takes its bits from the cells Packed put them in.
LEMMA EntryDecodes ==
  ASSUME IInv, phase = "done", NEW i \in 1..count
  PROVE  Entry(Array, i - 1) = pushed[i]
<1>. DEFINE bit == width * (0 + (i - 1))
            q   == bit \div W
            s   == bit % W
            n   == Len(words)
            e   == Entry(Array, i - 1)
<1>1. /\ width \in 0..W /\ count \in Nat /\ n \in Nat /\ words \in Seq(Word)
      /\ Len(pushed) = count /\ pushed[i] \in Word /\ Fits(pushed[i], width)
      /\ control = ControlWord(count, width) /\ n = DataWords(count, width)
  BY LenProperties, ElementOfSeq DEF IInv, TypeOK, PackInv
<1>2. bit \in Nat /\ bit = (i - 1) * width
  BY <1>1
<1>3. q \in Nat /\ s \in Bit /\ bit = q * W + s
  BY <1>2, Division DEF Bit
<1>4. /\ Array.first = 0 /\ Array.width = width /\ Array.buf = words
  BY <1>1 DEF Array, ControlWord
<1>5. e = IF s + width <= W
          THEN Shr(Shl(words[q + 1], s), W - width)
          ELSE Or(Shl(Shr(Shl(words[q + 1], s), s), width - (W - s)),
                  Shr(words[q + 2], W - (width - (W - s))))
  BY <1>4 DEF Entry
<1>6. i * width <= n * W /\ i * width = bit + width
  <2>1. count * width <= n * W
    BY <1>1, DataWordsCover
  <2>2. i * width <= count * width
    BY <1>1, MulMonotonic
  <2>3. i * width = (i - 1) * width + width
    BY <1>1
  <2>4. i * width <= n * W
    <3>. DEFINE x == i * width
                y == count * width
                z == n * W
    <3>1. x \in Int /\ y \in Int /\ z \in Int /\ x <= y /\ y <= z
      BY <1>1, <2>1, <2>2
    <3>2. x <= z
      <4>. HIDE DEF x, y, z
      <4>. QED  BY <3>1
    <3>. QED  BY <3>2
  <2>. QED  BY <1>2, <2>3, <2>4
<1>. HIDE DEF q, s, e, bit, n
\* A cell that a bit of this element is in is in a word that was written.
<1>7. ASSUME NEW p \in Nat, NEW r \in Bit, p * W + r < bit + width PROVE p < n
  <2>1. SUFFICES ASSUME n <= p PROVE FALSE
    BY <1>1
  <2>2. n * W <= p * W
    BY <1>1, <2>1, MulMonotonic
  <2>. DEFINE x == p * W
              y == n * W
  <2>3. x \in Int /\ y \in Int /\ y <= x /\ x + r < bit + width /\ bit + width <= y
    BY <1>1, <1>6, <1>7, <2>2
  <2>4. FALSE
    <3>. HIDE DEF x, y
    <3>. QED  BY <1>1, <1>2, <2>3 DEF Bit
  <2>. QED  BY <2>4
<1>8. ASSUME NEW b \in 0..(width-1), NEW p \in Nat, NEW r \in Bit, bit + b = p * W + r
      PROVE  words[p + 1] \in Word /\ words[p + 1][r] = pushed[i][W - width + b]
  <2>1. p * W + r < bit + width
    BY <1>1, <1>2, <1>8
  <2>2. p < n
    BY <1>7, <2>1
  <2>3. Cell(p, r) = pushed[i][W - width + b]
    <3>1. (i - 1) * width + b = p * W + r
      BY <1>2, <1>8
    <3>. QED  BY <3>1 DEF IInv, PackInv, Packed
  <2>. QED  BY <1>1, <2>2, <2>3, ElementOfSeq DEF Cell, n
\* The same, for a bit that is in the second word.
<1>8a. ASSUME NEW b \in 0..(width-1), NEW r \in Bit, bit + b = (q + 1) * W + r
       PROVE  words[q + 2] \in Word /\ words[q + 2][r] = pushed[i][W - width + b]
  <2>. DEFINE p == q + 1
  <2>1. p \in Nat /\ p + 1 = q + 2 /\ bit + b = p * W + r
    BY <1>3, <1>8a
  <2>. HIDE DEF p
  <2>2. words[p + 1] \in Word /\ words[p + 1][r] = pushed[i][W - width + b]
    BY <1>8, <1>8a, <2>1
  <2>. QED  BY <2>1, <2>2
<1>8b. ASSUME NEW b \in Bit, words[q + 1] \in Word, s + width <= W
       PROVE  e[b] = IF b >= W - width THEN words[q + 1][s + (b - (W - width))] ELSE 0
  <2>1. e = Shr(Shl(words[q + 1], s), W - width)
    BY <1>5, <1>8b
  <2>. QED  BY <1>1, <1>3, <1>8b, <2>1, EntryBits
<1>8c. ASSUME NEW b \in Bit, words[q + 1] \in Word, words[q + 2] \in Word, s + width > W
       PROVE  e[b] = IF b < W - width THEN 0
                     ELSE IF s + (b - (W - width)) < W
                          THEN words[q + 1][s + (b - (W - width))]
                          ELSE words[q + 2][s + (b - (W - width)) - W]
  <2>1. e = Or(Shl(Shr(Shl(words[q + 1], s), s), width - (W - s)),
               Shr(words[q + 2], W - (width - (W - s))))
    <3>1. ~(s + width <= W)
      BY <1>1, <1>3, <1>8c DEF Bit
    <3>. QED  BY <1>5, <3>1
  <2>. DEFINE first == words[q + 1]
              second == words[q + 2]
  <2>2. first \in Word /\ second \in Word
    BY <1>8c
  <2>. HIDE DEF first, second
  <2>3. Or(Shl(Shr(Shl(first, s), s), width - (W - s)),
           Shr(second, W - (width - (W - s))))[b] =
          IF b < W - width THEN 0
          ELSE IF s + (b - (W - width)) < W THEN first[s + (b - (W - width))]
          ELSE second[s + (b - (W - width)) - W]
    BY <1>1, <1>3, <1>8c, <2>2, EntryBits
  <2>. QED  BY <2>1, <2>3 DEF first, second
<1>9. ASSUME NEW b \in Bit, b >= W - width PROVE e[b] = pushed[i][b]
  <2>. DEFINE k == b - (W - width)
  <2>1. /\ k \in 0..(width-1) /\ s + k \in Nat /\ W - width + k = b
        /\ 0 \in 0..(width-1) /\ W - width + 0 \in Bit
    BY <1>1, <1>3, <1>9 DEF Bit
  <2>2. words[q + 1] \in Word
    BY <1>3, <1>8, <2>1
  <2>3. CASE s + k < W
    <3>1. s + k \in Bit /\ bit + k = q * W + (s + k)
      BY <1>1, <1>3, <2>1, <2>3 DEF Bit
    <3>2. words[q + 1][s + k] = pushed[i][b]
      BY <1>3, <1>8, <2>1, <3>1
    <3>3. CASE s + width <= W
      BY <1>8b, <1>9, <2>2, <3>2, <3>3
    <3>4. CASE s + width > W
      <4>1. W - s \in 0..(width-1) /\ bit + (W - s) = (q + 1) * W + 0 /\ 0 \in Bit
        BY <1>1, <1>2, <1>3, <3>4 DEF Bit
      <4>2. words[q + 2] \in Word
        BY <1>8a, <4>1
      <4>. QED  BY <1>1, <1>8c, <1>9, <2>2, <2>3, <3>2, <3>4, <4>2 DEF Bit
    <3>. QED  BY <1>1, <1>3, <3>3, <3>4 DEF Bit
  <2>4. CASE s + k >= W
    <3>1. s + k - W \in Bit /\ bit + k = (q + 1) * W + (s + k - W) /\ s + width > W
      BY <1>1, <1>2, <1>3, <2>1, <2>4 DEF Bit
    <3>2. words[q + 2] \in Word /\ words[q + 2][s + k - W] = pushed[i][b]
      BY <1>8a, <2>1, <3>1
    <3>. QED  BY <1>1, <1>3, <1>8c, <1>9, <2>2, <2>4, <3>1, <3>2 DEF Bit
  <2>. QED  BY <2>1, <2>3, <2>4
<1>10. ASSUME NEW b \in Bit, b < W - width PROVE e[b] = pushed[i][b]
  <2>1. pushed[i][b] = 0
    BY <1>1, <1>10 DEF Fits
  <2>2. CASE s + width <= W
    <3>1. e = Shr(Shl(words[q + 1], s), W - width)
      BY <1>5, <2>2
    <3>. QED  BY <1>1, <1>10, <2>1, <3>1 DEF Shr, Bit
  <2>3. CASE s + width > W
    <3>1. width # 0 /\ 0 \in 0..(width-1) /\ bit + 0 = q * W + s
      BY <1>1, <1>2, <1>3, <2>3 DEF Bit
    <3>2. W - s \in 0..(width-1) /\ bit + (W - s) = (q + 1) * W + 0 /\ 0 \in Bit
      BY <1>1, <1>2, <1>3, <2>3 DEF Bit
    <3>3. words[q + 1] \in Word
      BY <1>3, <1>8, <3>1
    <3>4. words[q + 2] \in Word
      BY <1>8a, <3>2
    <3>. QED  BY <1>8c, <1>10, <2>1, <2>3, <3>3, <3>4
  <2>. QED  BY <1>1, <1>3, <2>2, <2>3 DEF Bit
<1>11. e = [b \in Bit |-> e[b]]
  BY <1>5 DEF Shr, Or
<1>12. pushed[i] = [b \in Bit |-> pushed[i][b]]
  BY <1>1 DEF Word
<1>13. \A b \in Bit : e[b] = pushed[i][b]
  BY <1>1, <1>9, <1>10 DEF Bit
<1>. QED  BY <1>11, <1>12, <1>13 DEF e

\* Whatever the word size and the width, every element of every finished array
\* reads back as it was pushed.
THEOREM ElementsRoundTrip == Spec => []RoundTrip
<1>1. IInv => RoundTrip
  BY EntryDecodes DEF IInv, PackInv, RoundTrip
<1>. QED  BY <1>1, Inductive, PTL

\* A slice, and a slice of a slice, shows the elements it is cut from.
THEOREM SlicesRoundTrip == Spec => []SlicesShowTheArray
<1>1. IInv => SlicesShowTheArray
  <2>. SUFFICES ASSUME IInv, phase = "done",
                       NEW o \in 0..count, NEW l \in 0..count, MaySlice(Array, o, l),
                       NEW p \in 0..l, NEW m \in 0..l, MaySlice(Slice(Array, o, l), p, m),
                       NEW i \in 0..(m-1)
                PROVE  Entry(Slice(Slice(Array, o, l), p, m), i) = pushed[o + p + i + 1]
    BY DEF SlicesShowTheArray
  <2>1. count \in Nat /\ ParseLen(control) = count
    BY ControlWordKeepsLength DEF IInv, TypeOK, PackInv
  <2>2. o + p + i + 1 \in 1..count
    BY <2>1 DEF MaySlice, Slice, Array
  <2>3. Entry(Array, o + p + i + 1 - 1) = pushed[o + p + i + 1]
    BY <2>2, EntryDecodes
  <2>4. /\ Slice(Slice(Array, o, l), p, m).first = Array.first + o + p
        /\ Slice(Slice(Array, o, l), p, m).width = Array.width
        /\ Slice(Slice(Array, o, l), p, m).buf = Array.buf
        /\ Array.first = 0
    BY DEF Slice, SliceFirst, Array
  <2>5. Array.first + o + p + i = Array.first + (o + p + i + 1 - 1)
    BY <2>1, <2>4
  <2>. QED  BY <2>3, <2>4, <2>5 DEF Entry
<1>. QED  BY <1>1, Inductive, PTL

\* What a builder finishes, parse and parse_header_first accept, and the length
\* they read is the number of elements pushed.
THEOREM FinishedAlwaysAccepted == Spec => []FinishedIsAccepted
<1>1. IInv => FinishedIsAccepted
  <2>. SUFFICES ASSUME IInv, phase = "done" PROVE FinishedIsAccepted
    BY DEF FinishedIsAccepted
  <2>. DEFINE x == count * width
              q == x \div W
              r == x % W
  <2>1. /\ count \in 0..MaxLogArrayLen /\ width \in 0..W
        /\ control = ControlWord(count, width) /\ Len(words) = DataWords(count, width)
    BY DEF IInv, TypeOK, PackInv, MaxLogArrayLen
  <2>2. ParseLen(control) = count /\ control.width = width
    BY <2>1, ControlWordKeepsLength DEF ControlWord
  <2>3. x \in Nat
    BY <2>1
  <2>4. q \in Nat /\ r \in 0..(W-1) /\ x = q * W + r
    BY <2>3, Division
  <2>5. DataWords(count, width) = q + (IF r = 0 THEN 0 ELSE 1)
    BY DEF DataWords
  <2>6. ExpectedWords(count, width) = (x + 2 * W - 1) \div W
    BY DEF ExpectedWords
  <2>. HIDE DEF x, q, r
  <2>7. (q + 1) * W = q * W + W /\ (q + 2) * W = q * W + 2 * W
    BY <2>4
  <2>8. CASE r = 0
    <3>1. /\ x + 2 * W - 1 = (q + 1) * W + (W - 1) /\ x + 2 * W - 1 \in Nat
          /\ W - 1 \in 0..(W-1) /\ q + 1 \in Nat
      BY <2>4, <2>7, <2>8
    <3>2. (x + 2 * W - 1) \div W = q + 1
      BY SMTT(30), <3>1, DivisionIs
    <3>. QED  BY <2>1, <2>2, <2>4, <2>5, <2>6, <2>8, <3>2 DEF FinishedIsAccepted
  <2>9. CASE r # 0
    <3>. DEFINE y == x + 2 * W - 1
                p == q + 2
    <3>1. /\ y = p * W + (r - 1) /\ y \in Nat
          /\ r - 1 \in 0..(W-1) /\ p \in Nat
      BY <2>4, <2>7, <2>9
    <3>2. y \div W = p
      <4>. HIDE DEF y, p
      <4>. QED  BY <3>1, DivisionIs
    <3>. QED  BY <2>1, <2>2, <2>4, <2>5, <2>6, <2>9, <3>2 DEF FinishedIsAccepted
  <2>. QED  BY <2>8, <2>9
<1>. QED  BY <1>1, Inductive, PTL

-----------------------------------------------------------------------------
(* The search of a monotonic log array.                                    *)

\* The entries are numbers.
LEMMA ValueIsNumber ==
  ASSUME NEW word \in Word
  PROVE  ValueOf(word) \in Nat
<1>. DEFINE Equation(f) == f = [n \in 0..W |-> IF n = 0 THEN 0 ELSE 2 * f[n - 1] + word[n - 1]]
            value == CHOOSE f : Equation(f)
            g == [x \in Nat \X Nat |-> IF x[1] < W THEN 2 * x[2] + word[x[1]] ELSE 0]
            zero == 0
<1>1. \A b \in 0..(W-1) : word[b] \in {0, 1}
  BY DEF Word, Bit
<1>2. g \in [Nat \X Nat -> Nat] /\ zero \in Nat
  <2>. SUFFICES ASSUME NEW n \in Nat, NEW v \in Nat, n < W PROVE 2 * v + word[n] \in Nat
    OBVIOUS
  <2>1. word[n] \in {0, 1}
    BY <1>1
  <2>. QED  BY <2>1
<1>3. PICK f : IsRecursion(f, Nat, zero, g)
  <2>. HIDE DEF g, zero
  <2>. QED  BY <1>2, Recursion
<1>4. f \in [Nat -> Nat] /\ f[0] = 0 /\ \A n \in Nat : f[n + 1] = g[<<n, f[n]>>]
  <2>. HIDE DEF g
  <2>. QED  BY <1>3 DEF IsRecursion
<1>5. \A n \in 0..W : f[n] = IF n = 0 THEN 0 ELSE 2 * f[n - 1] + word[n - 1]
  <2>. SUFFICES ASSUME NEW n \in 0..W, n # 0 PROVE f[n] = 2 * f[n - 1] + word[n - 1]
    BY <1>4
  <2>1. n - 1 \in Nat /\ (n - 1) + 1 = n /\ n - 1 < W
    OBVIOUS
  <2>2. f[n] = g[<<n - 1, f[n - 1]>>] /\ f[n - 1] \in Nat
    <3>. HIDE DEF g
    <3>. QED  BY <1>4, <2>1
  <2>. QED  BY <2>1, <2>2
<1>. DEFINE h == [n \in 0..W |-> f[n]]
<1>6. Equation(h)
  <2>1. \A n \in 0..W : n # 0 => n - 1 \in 0..W
    OBVIOUS
  <2>. QED  BY <1>5, <2>1
<1>. HIDE DEF Equation, h
<1>7. Equation(value)
  BY <1>6
<1>. HIDE DEF value
<1>8. \A n \in 0..W : value[n] = IF n = 0 THEN 0 ELSE 2 * value[n - 1] + word[n - 1]
  BY <1>7 DEF Equation
<1>. DEFINE T == {n \in Nat : n <= W => value[n] \in Nat}
<1>9. 0 \in T
  BY <1>8
<1>10. ASSUME NEW n \in Nat, n \in T PROVE n + 1 \in T
  <2>. SUFFICES ASSUME n + 1 <= W PROVE value[n + 1] \in Nat
    OBVIOUS
  <2>1. n + 1 \in 0..W /\ n + 1 # 0 /\ (n + 1) - 1 = n /\ n \in 0..(W-1)
    OBVIOUS
  <2>2. value[n] \in Nat /\ word[n] \in {0, 1}
    BY <1>1, <1>10, <2>1
  <2>. QED  BY <1>8, <2>1, <2>2
<1>. HIDE DEF T
<1>11. W \in T
  BY <1>9, <1>10, Induct
<1>12. ValueOf(word) = value[W]
  BY DEF ValueOf, value, Equation
<1>. QED  BY <1>11, <1>12 DEF T

\* What a search looks for: an entry that is equal, or how many are smaller.
Answers(s, e, i) ==
  IF \E k \in 1..Len(s) : s[k] = e
  THEN i \in 0..(Len(s)-1) /\ s[i + 1] = e
  ELSE i \in 0..Len(s) /\ \A k \in 1..Len(s) : s[k] < e <=> k <= i

LEMMA NearestAnswers ==
  ASSUME NEW s \in Seq(Int), NEW e \in Int, Monotonic(s)
  PROVE  Answers(s, e, NearestIndexOf(s, e))
<1>. DEFINE n == Len(s)
            G == (0..n) \X (0..(n-1))
            Mid(r) == (r[1] + r[2]) \div 2
            Search(f) ==
              f = [range \in G |->
                     LET min == range[1]
                         max == range[2]
                         mid == (min + max) \div 2
                     IN  IF min > max THEN AfterSearch(min, max)
                         ELSE IF e = s[mid + 1] THEN mid
                         ELSE IF e > s[mid + 1] THEN f[<<mid + 1, max>>]
                         ELSE IF mid = 0 THEN 0
                         ELSE f[<<min, mid - 1>>]]
            search == CHOOSE f : Search(f)
            size == [r \in G |-> IF r[1] > r[2] THEN 0 ELSE r[2] - r[1] + 1]
<1>1. CASE s = <<>>
  <2>1. NearestIndexOf(s, e) = 0 /\ Len(s) = 0
    BY <1>1 DEF NearestIndexOf
  <2>. QED  BY <2>1 DEF Answers
<1>2. CASE s # <<>>
  <2>1. n \in Nat /\ n # 0 /\ \A k \in 1..n : s[k] \in Int
    BY <1>2
  <2>. HIDE DEF n
  <2>2. ASSUME NEW min \in 0..n, NEW max \in 0..(n-1), min <= max
        PROVE  (min + max) \div 2 \in min..max
    BY <2>1, <2>2
  <2>3. size \in [G -> Nat]
    BY <2>1
  <2>4. \E f : Search(f)
    <3>. DEFINE stop == {r \in G : \/ r[1] > r[2]
                                   \/ e = s[Mid(r) + 1]
                                   \/ ~(e > s[Mid(r) + 1]) /\ Mid(r) = 0}
                val == [r \in G |-> IF r[1] > r[2] THEN AfterSearch(r[1], r[2])
                                    ELSE IF e = s[Mid(r) + 1] THEN Mid(r) ELSE 0]
                next == [r \in G |-> IF r \in stop THEN r
                                     ELSE IF e > s[Mid(r) + 1] THEN <<Mid(r) + 1, r[2]>>
                                     ELSE <<r[1], Mid(r) - 1>>]
    <3>0. ASSUME NEW r \in G
          PROVE  r \in stop <=> \/ r[1] > r[2] \/ e = s[Mid(r) + 1]
                                \/ (~(e > s[Mid(r) + 1]) /\ Mid(r) = 0)
      <4>. HIDE DEF G, Mid
      <4>. QED  OBVIOUS
    <3>1. val \in [G -> Int]
      BY <2>1 DEF AfterSearch
    <3>2. ASSUME NEW r \in G, r \notin stop
          PROVE  next[r] \in G /\ size[next[r]] < size[r]
      <4>. DEFINE min == r[1]
                  max == r[2]
                  mid == Mid(r)
      <4>1. /\ min \in 0..n /\ max \in 0..(n-1) /\ min <= max
            /\ next[r] = IF e > s[mid + 1] THEN <<mid + 1, max>> ELSE <<min, mid - 1>>
            /\ e > s[mid + 1] \/ mid # 0
        <5>1. min \in 0..n /\ max \in 0..(n-1) /\ ~(min > max)
              /\ (e > s[mid + 1] \/ mid # 0)
          <6>. HIDE DEF Mid, stop
          <6>. QED  BY <3>0, <3>2
        <5>2. next[r] = IF e > s[mid + 1] THEN <<mid + 1, max>> ELSE <<min, mid - 1>>
          <6>. HIDE DEF Mid, stop
          <6>. QED  BY <3>2
        <5>. HIDE DEF mid, next
        <5>. QED  BY <2>1, <5>1, <5>2
      <4>2. mid \in min..max
        BY <2>2, <4>1
      <4>3. size[r] = max - min + 1
        BY <4>1
      <4>. HIDE DEF mid
      <4>4. CASE e > s[mid + 1]
        <5>1. mid + 1 \in 0..n
          BY <2>1, <4>1, <4>2
        <5>2. <<mid + 1, max>> \in G /\ next[r] = <<mid + 1, max>>
          <6>1. next[r] = <<mid + 1, max>>
            BY <4>1, <4>4
          <6>. HIDE DEF next
          <6>. QED  BY <4>1, <5>1, <6>1
        <5>3. size[<<mid + 1, max>>] = IF mid + 1 > max THEN 0 ELSE max - (mid + 1) + 1
          BY <5>2
        <5>. HIDE DEF next, size
        <5>. QED  BY <2>1, <4>1, <4>2, <4>3, <5>2, <5>3
      <4>5. CASE ~(e > s[mid + 1])
        <5>1. mid - 1 \in 0..(n-1)
          BY <2>1, <4>1, <4>2, <4>5
        <5>2. <<min, mid - 1>> \in G /\ next[r] = <<min, mid - 1>>
          BY <4>1, <4>5, <5>1
        <5>3. size[<<min, mid - 1>>] = IF min > mid - 1 THEN 0 ELSE (mid - 1) - min + 1
          BY <5>2
        <5>. HIDE DEF next, size
        <5>. QED  BY <2>1, <4>1, <4>2, <4>3, <5>2, <5>3
      <4>. QED  BY <4>4, <4>5
    <3>3. next \in [G -> G]
      <4>1. \A r \in G : r \in stop => next[r] \in G
        OBVIOUS
      <4>. HIDE DEF stop
      <4>. QED  BY <3>2, <4>1
    <3>. HIDE DEF G, size
    <3>4. PICK f : IsDescent(f, G, stop, val, next)
      <4>. HIDE DEF stop, val, next
      <4>. QED  BY <2>3, <3>1, <3>2, <3>3, TailRecursion
    <3>5. f = [r \in G |-> IF r \in stop THEN val[r] ELSE f[next[r]]]
      <4>. HIDE DEF stop, val, next
      <4>. QED  BY <3>4 DEF IsDescent
    <3>6. ASSUME NEW r \in G
          PROVE  f[r] = LET min == r[1]
                            max == r[2]
                            mid == (min + max) \div 2
                        IN  IF min > max THEN AfterSearch(min, max)
                            ELSE IF e = s[mid + 1] THEN mid
                            ELSE IF e > s[mid + 1] THEN f[<<mid + 1, max>>]
                            ELSE IF mid = 0 THEN 0
                            ELSE f[<<min, mid - 1>>]
      <4>1. f[r] = IF r \in stop THEN val[r] ELSE f[next[r]]
        <5>. HIDE DEF stop, val, next
        <5>. QED  BY <3>5
      <4>. DEFINE mid == Mid(r)
      <4>2. CASE r \in stop
        <5>1. val[r] = IF r[1] > r[2] THEN AfterSearch(r[1], r[2])
                       ELSE IF e = s[mid + 1] THEN mid ELSE 0
          OBVIOUS
        <5>2. r[1] > r[2] \/ e = s[mid + 1] \/ (~(e > s[mid + 1]) /\ mid = 0)
          BY <4>2
        <5>3. f[r] = val[r]
          BY <4>1, <4>2
        <5>4. f[r] = IF r[1] > r[2] THEN AfterSearch(r[1], r[2])
                     ELSE IF e = s[mid + 1] THEN mid
                     ELSE IF e > s[mid + 1] THEN f[<<mid + 1, r[2]>>]
                     ELSE IF mid = 0 THEN 0
                     ELSE f[<<r[1], mid - 1>>]
          <6>. HIDE DEF val, stop, mid
          <6>. QED  BY <5>1, <5>2, <5>3
        <5>. QED  BY <5>4
      <4>3. CASE r \notin stop
        <5>1. ~(r[1] > r[2]) /\ e # s[mid + 1] /\ (e > s[mid + 1] \/ mid # 0)
          <6>. HIDE DEF stop, Mid
          <6>. QED  BY <3>0, <4>3
        <5>2. next[r] = IF e > s[mid + 1] THEN <<mid + 1, r[2]>> ELSE <<r[1], mid - 1>>
          BY <4>3
        <5>3. f[r] = f[next[r]]
          BY <4>1, <4>3
        <5>4. f[r] = IF r[1] > r[2] THEN AfterSearch(r[1], r[2])
                     ELSE IF e = s[mid + 1] THEN mid
                     ELSE IF e > s[mid + 1] THEN f[<<mid + 1, r[2]>>]
                     ELSE IF mid = 0 THEN 0
                     ELSE f[<<r[1], mid - 1>>]
          <6>. HIDE DEF next, stop, mid
          <6>. QED  BY <5>1, <5>2, <5>3
        <5>. QED  BY <5>4
      <4>. QED  BY <4>2, <4>3
    <3>. HIDE DEF stop, val, next
    <3>7. DOMAIN f = G
      BY <3>5
    <3>8. f = [r \in G |-> f[r]]
      BY <3>5
    <3>9. Search(f)
      BY <3>6, <3>8
    <3>. QED  BY <3>9
  <2>. HIDE DEF Search
  <2>5. Search(search)
    BY <2>4
  <2>. HIDE DEF search
  <2>6. ASSUME NEW min \in 0..n, NEW max \in 0..(n-1)
        PROVE  search[<<min, max>>] =
                 LET mid == (min + max) \div 2
                 IN  IF min > max THEN AfterSearch(min, max)
                     ELSE IF e = s[mid + 1] THEN mid
                     ELSE IF e > s[mid + 1] THEN search[<<mid + 1, max>>]
                     ELSE IF mid = 0 THEN 0
                     ELSE search[<<min, mid - 1>>]
    BY <2>5 DEF Search
  <2>. DEFINE Holds(min, max) == /\ min <= max + 1
                                 /\ \A k \in 1..n : k <= min => s[k] < e
                                 /\ \A k \in 1..n : max + 1 < k => s[k] > e
              H == {r \in G : Holds(r[1], r[2])}
              Good == {r \in H : Answers(s, e, search[r])}
              sizeH == [r \in H |-> size[r]]
  <2>7. \A i, j \in 1..n : i <= j => s[i] <= s[j]
    BY DEF Monotonic, n
  <2>8. ASSUME NEW min \in 0..n, NEW max \in 0..(n-1), Holds(min, max)
        PROVE  \/ <<min, max>> \in Good
               \/ \E q \in H : size[q] < size[<<min, max>>] /\ (q \in Good => <<min, max>> \in Good)
    <3>. DEFINE mid == (min + max) \div 2
    <3>1. <<min, max>> \in H
      BY <2>8
    <3>2. CASE min > max
      <4>1. min = max + 1 /\ search[<<min, max>>] = (min + max) \div 2 + 1
        <5>1. min = max + 1
          BY <2>1, <2>8, <3>2
        <5>2. search[<<min, max>>] = AfterSearch(min, max)
          BY <2>6, <3>2
        <5>. QED  BY <5>1, <5>2 DEF AfterSearch
      <4>2. (min + max) \div 2 = max
        BY <2>1, <4>1
      <4>3. search[<<min, max>>] = min
        BY <2>1, <4>1, <4>2
      <4>4. \A k \in 1..n : s[k] # e /\ (s[k] < e <=> k <= min)
        BY <2>1, <2>8, <4>1
      <4>5. Answers(s, e, min)
        BY <4>4 DEF Answers, n
      <4>6. Answers(s, e, search[<<min, max>>])
        BY <4>3, <4>5
      <4>. HIDE DEF H
      <4>. QED  BY <3>1, <4>6
    <3>3. CASE min <= max
      <4>1. mid \in min..max
        BY <2>2, <3>3
      <4>2. search[<<min, max>>] =
              IF e = s[mid + 1] THEN mid
              ELSE IF e > s[mid + 1] THEN search[<<mid + 1, max>>]
              ELSE IF mid = 0 THEN 0
              ELSE search[<<min, mid - 1>>]
        BY <2>1, <2>6, <3>3
      <4>3. size[<<min, max>>] = max - min + 1
        BY <2>1, <3>3
      <4>. HIDE DEF mid
      <4>4. mid + 1 \in 1..n /\ s[mid + 1] \in Int /\ mid \in Nat
        BY <2>1, <4>1
      <4>5. CASE e = s[mid + 1]
        <5>1. Answers(s, e, mid)
          BY <4>4, <4>5 DEF Answers, n
        <5>. QED  BY <3>1, <4>2, <4>5, <5>1
      <4>6. CASE e > s[mid + 1]
        <5>. DEFINE q == <<mid + 1, max>>
        <5>1. q \in G
          BY <2>1, <4>1, <4>4
        <5>2. Holds(mid + 1, max)
          <6>1. \A k \in 1..n : k <= mid + 1 => s[k] < e
            BY <2>1, <2>7, <4>4, <4>6
          <6>. QED  BY <2>8, <4>1, <6>1
        <5>3. size[q] = IF mid + 1 > max THEN 0 ELSE max - (mid + 1) + 1
          BY <5>1
        <5>4. size[q] < size[<<min, max>>]
          <6>. HIDE DEF size, q
          <6>. QED  BY <2>1, <3>3, <4>1, <4>3, <5>3
        <5>5. search[<<min, max>>] = search[q]
          BY <4>2, <4>4, <4>6
        <5>6. q \in H
          BY <5>1, <5>2
        <5>. HIDE DEF size
        <5>. QED  BY <3>1, <5>4, <5>5, <5>6
      <4>7. CASE e < s[mid + 1] /\ mid = 0
        <5>1. search[<<min, max>>] = 0
          BY <4>2, <4>4, <4>7
        <5>2. \A k \in 1..n : s[k] # e /\ (s[k] < e <=> k <= 0)
          BY <2>1, <2>7, <4>4, <4>7
        <5>3. Answers(s, e, 0)
          BY <2>1, <5>2 DEF Answers, n
        <5>. QED  BY <3>1, <5>1, <5>3
      <4>8. CASE e < s[mid + 1] /\ mid # 0
        <5>. DEFINE q == <<min, mid - 1>>
        <5>1. q \in G
          BY <2>1, <4>1, <4>4, <4>8
        <5>2. Holds(min, mid - 1)
          <6>1. \A k \in 1..n : (mid - 1) + 1 < k => s[k] > e
            BY <2>1, <2>7, <4>4, <4>8
          <6>. QED  BY <2>8, <4>1, <6>1
        <5>3. size[q] = IF min > mid - 1 THEN 0 ELSE (mid - 1) - min + 1
          BY <5>1
        <5>4. size[q] < size[<<min, max>>]
          <6>. HIDE DEF size, q
          <6>. QED  BY <2>1, <3>3, <4>1, <4>3, <5>3
        <5>5. search[<<min, max>>] = search[q]
          BY <4>2, <4>4, <4>8
        <5>6. q \in H
          BY <5>1, <5>2
        <5>. HIDE DEF size
        <5>. QED  BY <3>1, <5>4, <5>5, <5>6
      <4>9. \/ e = s[mid + 1] \/ e > s[mid + 1]
            \/ (e < s[mid + 1] /\ mid = 0) \/ (e < s[mid + 1] /\ mid # 0)
        BY <4>4
      <4>. HIDE DEF Good, H, size, Holds
      <4>. QED  BY <4>5, <4>6, <4>7, <4>8, <4>9, Zenon
    <3>4. min > max \/ min <= max
      BY <2>1
    <3>. HIDE DEF Good, H, size, Holds
    <3>. QED  BY <3>2, <3>3, <3>4, Zenon
  <2>9. \A r \in H : r \in Good
    <3>1. sizeH \in [H -> Nat]
      <4>1. \A r \in H : r \in G
        OBVIOUS
      <4>. HIDE DEF size, H
      <4>. QED  BY <2>3, <4>1
    <3>2. ASSUME NEW r \in H
          PROVE  \/ r \in Good
                 \/ \E q \in H : sizeH[q] < sizeH[r] /\ (q \in Good => r \in Good)
      <4>1. r = <<r[1], r[2]>> /\ r[1] \in 0..n /\ r[2] \in 0..(n-1) /\ Holds(r[1], r[2])
        OBVIOUS
      <4>. HIDE DEF H, Good, Holds, size
      <4>2. \/ r \in Good
            \/ \E q \in H : size[q] < size[r] /\ (q \in Good => r \in Good)
        BY <2>8, <4>1
      <4>. QED  BY <4>2
    <3>. HIDE DEF H, Good, sizeH
    <3>. QED  BY <3>1, <3>2, Descent
  <2>10. <<0, n - 1>> \in H
    BY <2>1
  <2>11. Answers(s, e, search[<<0, n - 1>>])
    <3>. HIDE DEF H
    <3>. QED  BY <2>9, <2>10
  <2>12. NearestIndexOf(s, e) = search[<<0, n - 1>>]
    BY <1>2 DEF NearestIndexOf, search, Search, n
  <2>. QED  BY <2>11, <2>12
<1>. QED  BY <1>1, <1>2

\* nearest_index_of and index_of find what is there, and where it would be.
THEOREM SearchAlwaysFinds == Spec => []SearchFinds
<1>1. IInv => SearchFinds
  <2>. DEFINE s == Entries
              equal(e) == {i \in 1..count : s[i] = e}
              smaller(e) == {i \in 1..count : s[i] < e}
  <2>. SUFFICES ASSUME IInv, phase = "done", Monotonic(s), NEW e \in 0..(2^W)
                PROVE  IF equal(e) # {}
                       THEN /\ NearestIndexOf(s, e) + 1 \in equal(e)
                            /\ IndexOf(s, e) = NearestIndexOf(s, e)
                       ELSE /\ NearestIndexOf(s, e) = Cardinality(smaller(e))
                            /\ IndexOf(s, e) = NotFound
    BY DEF SearchFinds
  <2>1. count \in Nat /\ Len(pushed) = count /\ pushed \in Seq(Word)
    BY DEF IInv, TypeOK, PackInv
  <2>2. ASSUME NEW i \in 1..count PROVE ValueOf(Entry(Array, i - 1)) \in Int
    <3>1. Entry(Array, i - 1) = pushed[i]
      BY EntryDecodes DEF IInv
    <3>2. pushed[i] \in Word
      BY <2>1
    <3>. QED  BY <3>1, <3>2, ValueIsNumber
  <2>3. s \in Seq(Int) /\ Len(s) = count
    BY <2>1, <2>2 DEF Entries
  <2>4. e \in Int
    OBVIOUS
  <2>. DEFINE i == NearestIndexOf(s, e)
  <2>5. Answers(s, e, i)
    <3>. HIDE DEF s
    <3>. QED  BY <2>3, <2>4, NearestAnswers
  <2>6. IndexOf(s, e) = IF i >= Len(s) \/ s[i + 1] # e THEN NotFound ELSE i
    BY DEF IndexOf
  <2>. HIDE DEF s, i
  <2>7. CASE \E k \in 1..count : s[k] = e
    <3>1. i \in 0..(count-1) /\ i + 1 \in 1..count /\ s[i + 1] = e
      BY <2>1, <2>3, <2>5, <2>7 DEF Answers
    <3>2. equal(e) # {} /\ i + 1 \in equal(e)
      BY <3>1
    <3>3. ~(i >= Len(s))
      BY <2>1, <2>3, <3>1
    <3>4. IndexOf(s, e) = i
      BY <2>6, <3>1, <3>3
    <3>. QED  BY <3>2, <3>4 DEF i
  <2>8. CASE ~(\E k \in 1..count : s[k] = e)
    <3>1. i \in 0..count /\ \A k \in 1..count : s[k] < e <=> k <= i
      BY <2>3, <2>5, <2>8 DEF Answers
    <3>2. equal(e) = {}
      BY <2>8
    <3>3. smaller(e) = 1..i
      BY <2>1, <3>1
    <3>4. Cardinality(1..i) = i
      <4>1. 1 \in Int /\ i \in Int /\ (1 > i <=> i = 0) /\ (1 <= i => i - 1 + 1 = i)
        BY <2>1, <3>1
      <4>2. Cardinality(1..i) = IF 1 > i THEN 0 ELSE i - 1 + 1
        BY <4>1, FS_Interval
      <4>. QED  BY <2>1, <3>1, <4>1, <4>2
    <3>5. i >= Len(s) \/ s[i + 1] # e
      <4>1. CASE i < count
        BY <2>1, <2>8, <3>1, <4>1
      <4>. QED  BY <2>1, <2>3, <3>1, <4>1
    <3>6. IndexOf(s, e) = NotFound
      BY <2>6, <3>5
    <3>. QED  BY <3>2, <3>3, <3>4, <3>6 DEF i
  <2>. QED  BY <2>7, <2>8 DEF s, i
<1>. QED  BY <1>1, Inductive, PTL

-----------------------------------------------------------------------------
(* The variable-length code.                                               *)

Group == ByteBits - 1

LEMMA GroupIs ==
  /\ Group \in Nat \ {0} /\ WordBits \in Nat \ {0}
  /\ WordBits = (WordBits \div Group) * Group + 1
  /\ Msb = Pow2[Group] /\ Msb \in Nat \ {0, 1}
<1>1. Group \in Nat \ {0} /\ WordBits \in Nat /\ WordBits % Group = 1
  BY VByteAssumption DEF Group
<1>2. WordBits = (WordBits \div Group) * Group + (WordBits % Group)
  BY <1>1, Quotient
<1>3. WordBits # 0
  <2>1. 0 = 0 * Group + 0 /\ 0 \in 0..(Group - 1) /\ 0 \in Nat
    BY <1>1
  <2>2. 0 % Group = 0
    BY <1>1, <2>1, QuotientIs
  <2>. QED  BY <1>1, <2>2
<1>4. Msb = Pow2[Group]
  BY DEF Msb, Group
<1>5. Pow2[Group] \in Nat /\ Group < Pow2[Group]
  BY <1>1, Pow2Is, Pow2Above
<1>. QED  BY <1>1, <1>2, <1>3, <1>4, <1>5

LEMMA QuotientOf ==
  \A d \in Nat \ {0} : \A q, x \in Nat : \A r \in 0..(d - 1) :
    x = q * d + r => x \div d = q
<1>. TAKE d \in Nat \ {0}
<1>. TAKE q, x \in Nat
<1>. TAKE r \in 0..(d - 1)
<1>. HAVE x = q * d + r
<1>. QED  BY QuotientIs

LEMMA Pow2Sum == \A a, b \in Nat : Pow2[a + b] = Pow2[a] * Pow2[b]
<1>. SUFFICES ASSUME NEW a \in Nat PROVE \A b \in Nat : Pow2[a + b] = Pow2[a] * Pow2[b]
  OBVIOUS
<1>. DEFINE T == {b \in Nat : Pow2[a + b] = Pow2[a] * Pow2[b]}
<1>1. 0 \in T
  <2>1. a + 0 = a /\ Pow2[a] \in Nat /\ Pow2[0] = 1
    BY Pow2Is
  <2>. QED  BY <2>1
<1>2. ASSUME NEW b \in Nat, b \in T PROVE b + 1 \in T
  <2>. DEFINE x == Pow2[a]
              y == Pow2[b]
  <2>1. x \in Nat /\ y \in Nat /\ Pow2[a + b] = x * y
    BY <1>2, Pow2Is
  <2>2. Pow2[b + 1] = 2 * y /\ Pow2[(a + b) + 1] = 2 * Pow2[a + b] /\ a + (b + 1) = (a + b) + 1
    BY Pow2Is
  <2>3. 2 * (x * y) = x * (2 * y)
    <3>. HIDE DEF x, y
    <3>. QED  BY <2>1
  <2>. HIDE DEF x, y
  <2>4. Pow2[a + (b + 1)] = x * Pow2[b + 1]
    BY <2>1, <2>2, <2>3
  <2>. QED  BY <2>4 DEF x
<1>. HIDE DEF T
<1>3. \A b \in Nat : b \in T
  BY <1>1, <1>2, Induct
<1>. QED  BY <1>3 DEF T

LEMMA Pow2Grows ==
  ASSUME NEW a \in Nat, NEW b \in Nat
  PROVE  /\ Pow2[a] \in Nat \ {0}
         /\ a <= b => Pow2[a] <= Pow2[b]
         /\ a < b => 2 * Pow2[a] <= Pow2[b]
<1>1. \A n \in Nat : Pow2[n] \in Nat \ {0} /\ n + 1 <= Pow2[n]
  BY Pow2Is, Pow2Above
<1>2. ASSUME a < b PROVE 2 * Pow2[a] <= Pow2[b]
  <2>1. b - a \in Nat /\ a + (b - a) = b /\ b - a >= 1
    BY <1>2
  <2>2. Pow2[b] = Pow2[a] * Pow2[b - a]
    BY <2>1, Pow2Sum
  <2>. DEFINE x == Pow2[a]
              y == Pow2[b - a]
  <2>3. x \in Nat /\ y \in Nat /\ 2 <= y
    BY <1>1, <2>1
  <2>4. 2 * x <= y * x
    <3>. HIDE DEF x, y
    <3>. QED  BY <2>3, MulMonotonic
  <2>5. y * x = x * y
    <3>. HIDE DEF x, y
    <3>. QED  BY <2>3
  <2>. QED  BY <2>2, <2>4, <2>5
<1>3. ASSUME a <= b PROVE Pow2[a] <= Pow2[b]
  <2>1. a = b \/ a < b
    BY <1>3
  <2>. QED  BY <1>1, <1>2, <2>1
<1>. QED  BY <1>1, <1>2, <1>3

\* The place of the highest 1-bit of a number.
Top(n, h) == Pow2[h] <= n /\ n < 2 * Pow2[h]

LEMMA TopExists ==
  ASSUME NEW n \in Nat \ {0}
  PROVE  \E h \in Nat : Top(n, h)
<1>. DEFINE T == {w \in Nat : n < Pow2[w]}
<1>1. T \in SUBSET Nat /\ n \in T
  BY Pow2Above
<1>2. PICK m \in T : \A w \in T : m <= w
  <2>. HIDE DEF T
  <2>. QED  BY <1>1, Least
<1>3. m \in Nat /\ m # 0 /\ n < Pow2[m]
  BY <1>2, Pow2Is
<1>. DEFINE h == m - 1
<1>4. h \in Nat /\ h + 1 = m /\ h \notin T
  <2>1. ~(m <= h) /\ h \in Nat /\ h + 1 = m
    BY <1>3
  <2>. QED  BY <1>2, <2>1
<1>5. Pow2[h] \in Nat /\ Pow2[m] = 2 * Pow2[h]
  BY <1>4, Pow2Is
<1>6. Pow2[h] <= n
  BY <1>4, <1>5
<1>. HIDE DEF h
<1>7. Top(n, h)
  BY <1>3, <1>5, <1>6 DEF Top
<1>. QED  BY <1>4, <1>7

LEMMA ShiftedOutIs ==
  \A n, k \in Nat : ShiftedOut[<<n, k>>] = IF n = 0 THEN k ELSE ShiftedOut[<<n \div 2, k + 1>>]
<1>. DEFINE G == Nat \X Nat
            stop == {r \in G : r[1] = 0}
            val == [r \in G |-> r[2]]
            next == [r \in G |-> <<r[1] \div 2, r[2] + 1>>]
            size == [r \in G |-> r[1]]
            Equation(f) == f = [r \in G |-> IF r[1] = 0 THEN r[2]
                                            ELSE f[<<r[1] \div 2, r[2] + 1>>]]
<1>1. size \in [G -> Nat] /\ val \in [G -> Nat] /\ next \in [G -> G]
  <2>1. \A r \in G : r[1] \in Nat /\ r[2] \in Nat /\ <<r[1] \div 2, r[2] + 1>> \in G
    OBVIOUS
  <2>. HIDE DEF G
  <2>. QED  BY <2>1
<1>2. \A r \in G : r \notin stop => size[next[r]] < size[r]
  <2>. SUFFICES ASSUME NEW r \in G, r \notin stop PROVE size[next[r]] < size[r]
    OBVIOUS
  <2>1. r[1] \in Nat \ {0} /\ next[r] = <<r[1] \div 2, r[2] + 1>> /\ next[r] \in G
    OBVIOUS
  <2>2. size[next[r]] = r[1] \div 2 /\ size[r] = r[1]
    BY <2>1
  <2>3. r[1] \div 2 < r[1]
    BY <2>1
  <2>. QED  BY <2>2, <2>3
<1>3. PICK f : IsDescent(f, G, stop, val, next)
  <2>. HIDE DEF G, stop, val, next, size
  <2>. QED  BY <1>1, <1>2, TailRecursion
<1>4. Equation(f)
  BY <1>3 DEF IsDescent
<1>. HIDE DEF Equation
<1>5. ShiftedOut = CHOOSE g : Equation(g)
  BY DEF ShiftedOut, Equation
<1>6. Equation(ShiftedOut)
  BY <1>4, <1>5
<1>7. \A r \in G : ShiftedOut[r] = IF r[1] = 0 THEN r[2] ELSE ShiftedOut[<<r[1] \div 2, r[2] + 1>>]
  <2>. HIDE DEF G
  <2>. QED  BY <1>6 DEF Equation
<1>. QED  BY <1>7

\* Bits counts up to the highest 1-bit.
LEMMA BitsAre ==
  ASSUME NEW n \in Nat, NEW h \in Nat, Top(n, h)
  PROVE  Bits(n) = h + 1
<1>. DEFINE T == {t \in Nat : \A x, k \in Nat : Top(x, t) => ShiftedOut[<<x, k>>] = k + t + 1}
<1>1. 0 \in T
  <2>. SUFFICES ASSUME NEW x \in Nat, NEW k \in Nat, Top(x, 0)
                PROVE  ShiftedOut[<<x, k>>] = k + 0 + 1
    OBVIOUS
  <2>1. x = 1
    BY Pow2Is DEF Top
  <2>2. ShiftedOut[<<1, k>>] = ShiftedOut[<<1 \div 2, k + 1>>]
    BY ShiftedOutIs
  <2>3. 1 \div 2 = 0 /\ k + 1 \in Nat
    OBVIOUS
  <2>4. ShiftedOut[<<0, k + 1>>] = k + 1
    BY <2>3, ShiftedOutIs
  <2>. QED  BY <2>1, <2>2, <2>3, <2>4
<1>2. ASSUME NEW t \in Nat, t \in T PROVE t + 1 \in T
  <2>. SUFFICES ASSUME NEW x \in Nat, NEW k \in Nat, Top(x, t + 1)
                PROVE  ShiftedOut[<<x, k>>] = k + (t + 1) + 1
    OBVIOUS
  <2>. DEFINE y == x \div 2
              p == Pow2[t]
  <2>1. p \in Nat \ {0} /\ Pow2[t + 1] = 2 * p
    BY Pow2Is, Pow2Grows
  <2>2. 2 * p <= x /\ x < 2 * (2 * p)
    BY <2>1 DEF Top
  <2>. HIDE DEF p
  <2>3. y \in Nat /\ p <= y /\ y < 2 * p /\ x # 0
    BY <2>1, <2>2
  <2>. HIDE DEF y
  <2>4. Top(y, t)
    BY <2>3 DEF Top, p
  <2>5. ShiftedOut[<<y, k + 1>>] = (k + 1) + t + 1
    BY <1>2, <2>3, <2>4
  <2>6. ShiftedOut[<<x, k>>] = ShiftedOut[<<y, k + 1>>]
    BY <2>3, ShiftedOutIs DEF y
  <2>. QED  BY <2>5, <2>6
<1>. HIDE DEF T
<1>3. h \in T
  BY <1>1, <1>2, Induct
<1>4. ShiftedOut[<<n, 0>>] = 0 + h + 1
  BY <1>3 DEF T
<1>. QED  BY <1>4 DEF Bits

LEMMA EncodingLenIs ==
  ASSUME NEW n \in Nat, NEW h \in Nat, Top(n, h)
  PROVE  EncodingLen(n) = h \div Group + 1
<1>. DEFINE q == h \div Group
            r == h % Group
<1>1. n # 0
  BY Pow2Grows DEF Top
<1>2. EncodingLen(n) = (h + 1 + ByteBits - 2) \div (ByteBits - 1)
  BY <1>1, BitsAre DEF EncodingLen
<1>3. EncodingLen(n) = (h + Group) \div Group
  <2>1. h + 1 + ByteBits - 2 = h + (ByteBits - 1)
    BY VByteAssumption
  <2>. QED  BY <1>2, <2>1 DEF Group
<1>4. q \in Nat /\ r \in 0..(Group - 1) /\ h = q * Group + r /\ Group \in Nat \ {0}
  BY GroupIs, Quotient
<1>. HIDE DEF q, r
<1>5. h + Group = (q + 1) * Group + r /\ q + 1 \in Nat /\ h + Group \in Nat
  BY <1>4
<1>6. (h + Group) \div Group = q + 1
  BY <1>4, <1>5, QuotientOf
<1>. QED  BY <1>3, <1>6 DEF q

\* A number of one group, or one group less and one byte less.
LEMMA EncodingLenGrows ==
  ASSUME NEW n \in Nat
  PROVE  /\ n < Msb => EncodingLen(n) = 1
         /\ n >= Msb => EncodingLen(n) = EncodingLen(n \div Msb) + 1
<1>1. Group \in Nat \ {0} /\ Msb = Pow2[Group] /\ Msb \in Nat \ {0, 1}
  BY GroupIs
<1>2. ASSUME n < Msb, n # 0 PROVE EncodingLen(n) = 1
  <2>1. PICK h \in Nat : Top(n, h)
    BY <1>2, TopExists
  <2>2. ~(Group <= h)
    <3>1. Pow2[h] \in Nat /\ Pow2[Group] \in Nat /\ (Group <= h => Pow2[Group] <= Pow2[h])
      BY <1>1, Pow2Grows
    <3>. QED  BY <1>1, <1>2, <2>1, <3>1 DEF Top
  <2>3. h = 0 * Group + h /\ h \in 0..(Group - 1)
    BY <1>1, <2>2
  <2>4. h \div Group = 0
    BY <1>1, <2>3, QuotientOf
  <2>. QED  BY <2>1, <2>4, EncodingLenIs
<1>3. ASSUME n >= Msb PROVE EncodingLen(n) = EncodingLen(n \div Msb) + 1
  <2>1. PICK h \in Nat : Top(n, h)
    BY <1>1, <1>3, TopExists
  <2>2. Group <= h
    <3>1. Pow2[h] \in Nat /\ Pow2[Group] \in Nat /\ (h < Group => 2 * Pow2[h] <= Pow2[Group])
      BY <1>1, Pow2Grows
    <3>. QED  BY <1>1, <1>3, <2>1, <3>1 DEF Top
  <2>. DEFINE g == h - Group
              p == Pow2[g]
              y == n \div Msb
              z == n % Msb
  <2>3. g \in Nat /\ Group + g = h /\ p \in Nat \ {0}
    BY <1>1, <2>2, Pow2Grows
  <2>4. Pow2[h] = p * Msb
    <3>1. Pow2[h] = Pow2[Group] * Pow2[g]
      BY <1>1, <2>3, Pow2Sum
    <3>2. Msb * p = p * Msb
      <4>. HIDE DEF p
      <4>. QED  BY <1>1, <2>3
    <3>. QED  BY <1>1, <3>1, <3>2
  <2>5. p * Msb <= n /\ n < 2 * (p * Msb)
    BY <2>1, <2>4 DEF Top
  <2>. HIDE DEF p
  <2>6. y \in Nat /\ p <= y
    <3>. DEFINE d == Msb
    <3>1. d \in Nat \ {0} /\ p * d <= n /\ p \in Int
      BY <1>1, <2>3, <2>5
    <3>. HIDE DEF d
    <3>2. n \div d \in Nat /\ p <= n \div d
      BY <3>1, Quotient, QuotientFrom
    <3>. QED  BY <3>2 DEF d
  <2>7. y < 2 * p
    <3>1. 2 * (p * Msb) = (2 * p) * Msb
      BY <1>1, <2>3
    <3>. DEFINE d == Msb
                e == 2 * p
    <3>2. d \in Nat \ {0} /\ e \in Int /\ n < e * d
      BY <1>1, <2>3, <2>5, <3>1
    <3>. HIDE DEF d, e
    <3>3. n \div d < e
      BY <3>2, QuotientBelow
    <3>. QED  BY <3>3 DEF d, e
  <2>. HIDE DEF y
  <2>8. Top(y, g)
    BY <2>6, <2>7 DEF Top, p
  <2>9. h \div Group = g \div Group + 1
    <3>. DEFINE q == g \div Group
                r == g % Group
    <3>1. q \in Nat /\ r \in 0..(Group - 1) /\ g = q * Group + r
      BY <1>1, <2>3, Quotient
    <3>. HIDE DEF q, r, g
    <3>2. h = (q + 1) * Group + r /\ q + 1 \in Nat
      BY <1>1, <2>3, <3>1
    <3>3. h \div Group = q + 1
      BY <1>1, <3>1, <3>2, QuotientOf
    <3>. QED  BY <3>3 DEF q
  <2>. HIDE DEF g
  <2>10. EncodingLen(n) = h \div Group + 1 /\ EncodingLen(y) = g \div Group + 1
    BY <2>1, <2>3, <2>6, <2>8, EncodingLenIs
  <2>. QED  BY <2>9, <2>10 DEF y
<1>4. EncodingLen(0) = 1
  BY DEF EncodingLen
<1>. QED  BY <1>1, <1>2, <1>3, <1>4

LEMMA EncodingLenType ==
  ASSUME NEW n \in Nat
  PROVE  EncodingLen(n) \in Nat
<1>1. CASE n = 0
  BY <1>1 DEF EncodingLen
<1>2. CASE n # 0
  <2>1. PICK h \in Nat : Top(n, h)
    BY <1>2, TopExists
  <2>2. h \div Group \in Nat
    BY GroupIs, Quotient
  <2>. QED  BY <2>1, <2>2, EncodingLenIs
<1>. QED  BY <1>1, <1>2

LEMMA EncodeIs ==
  \A n \in Nat : \A bytes \in Seq(Nat) :
    EncodeUnchecked[<<n, bytes>>] =
      IF n >= Msb THEN EncodeUnchecked[<<n \div Msb, Append(bytes, n % Msb)>>]
      ELSE Append(bytes, Msb + n)
<1>. DEFINE d == Msb
            G == Nat \X Seq(Nat)
            stop == {r \in G : ~(r[1] >= d)}
            val == [r \in G |-> Append(r[2], d + r[1])]
            next == [r \in G |-> <<r[1] \div d, Append(r[2], r[1] % d)>>]
            size == [r \in G |-> r[1]]
            Equation(f) == f = [r \in G |-> IF r[1] >= d
                                            THEN f[<<r[1] \div d, Append(r[2], r[1] % d)>>]
                                            ELSE Append(r[2], d + r[1])]
<1>0. d \in Nat \ {0, 1}
  BY GroupIs
<1>. HIDE DEF d
<1>1. size \in [G -> Nat] /\ val \in [G -> Seq(Nat)] /\ next \in [G -> G]
  <2>1. \A r \in G : r[1] \in Nat /\ r[2] \in Seq(Nat)
    OBVIOUS
  <2>2. \A n \in Nat : n \div d \in Nat /\ n % d \in Nat /\ d + n \in Nat
    BY <1>0
  <2>3. ASSUME NEW r \in G
        PROVE  /\ Append(r[2], d + r[1]) \in Seq(Nat)
               /\ <<r[1] \div d, Append(r[2], r[1] % d)>> \in G
    <3>1. d + r[1] \in Nat /\ r[1] \div d \in Nat /\ r[1] % d \in Nat /\ r[2] \in Seq(Nat)
      BY <2>1, <2>2
    <3>. DEFINE a == d + r[1]
                b == r[1] \div d
                c == r[1] % d
                bytes == r[2]
    <3>2. a \in Nat /\ b \in Nat /\ c \in Nat /\ bytes \in Seq(Nat)
      BY <3>1
    <3>. HIDE DEF a, b, c, bytes
    <3>3. Append(bytes, a) \in Seq(Nat) /\ Append(bytes, c) \in Seq(Nat)
      <4>. HIDE DEF G
      <4>. QED  BY <3>2
    <3>4. <<b, Append(bytes, c)>> \in G
      BY <3>2, <3>3
    <3>. HIDE DEF G
    <3>. QED  BY <3>3, <3>4 DEF a, b, c, bytes
  <2>. HIDE DEF G
  <2>. QED  BY <2>1, <2>3
<1>2. \A r \in G : r \notin stop => size[next[r]] < size[r]
  <2>. SUFFICES ASSUME NEW r \in G, r \notin stop PROVE size[next[r]] < size[r]
    OBVIOUS
  <2>1. r[1] \in Nat /\ r[1] >= d /\ next[r] \in G /\ next[r] = <<r[1] \div d, Append(r[2], r[1] % d)>>
    BY <1>1
  <2>2. size[next[r]] = r[1] \div d /\ size[r] = r[1]
    BY <2>1
  <2>3. \A n \in Nat : n >= d => n \div d < n
    <3>. SUFFICES ASSUME NEW n \in Nat, n >= d PROVE n \div d < n
      OBVIOUS
    <3>1. n < n * d
      BY <1>0
    <3>. QED  BY <1>0, <3>1, QuotientBelow
  <2>. QED  BY <2>1, <2>2, <2>3
<1>3. PICK f : IsDescent(f, G, stop, val, next)
  <2>. HIDE DEF G, stop, val, next, size
  <2>. QED  BY <1>1, <1>2, TailRecursion
<1>4. Equation(f)
  <2>1. f = [r \in G |-> IF r \in stop THEN val[r] ELSE f[next[r]]]
    <3>. HIDE DEF G, stop, val, next
    <3>. QED  BY <1>3 DEF IsDescent
  <2>2. \A r \in G : (IF r \in stop THEN val[r] ELSE f[next[r]])
                     = IF r[1] >= d THEN f[<<r[1] \div d, Append(r[2], r[1] % d)>>]
                       ELSE Append(r[2], d + r[1])
    <3>. HIDE DEF G
    <3>. QED  OBVIOUS
  <2>. HIDE DEF G, stop, val, next
  <2>. QED  BY <2>1, <2>2
<1>. HIDE DEF Equation
<1>5. EncodeUnchecked = CHOOSE g : Equation(g)
  BY DEF EncodeUnchecked, Equation, d
<1>6. Equation(EncodeUnchecked)
  BY <1>4, <1>5
<1>7. \A r \in G : EncodeUnchecked[r] =
        IF r[1] >= d THEN EncodeUnchecked[<<r[1] \div d, Append(r[2], r[1] % d)>>]
        ELSE Append(r[2], d + r[1])
  <2>. HIDE DEF G
  <2>. QED  BY <1>6 DEF Equation
<1>8. ASSUME NEW n \in Nat, NEW bytes \in Seq(Nat)
      PROVE  EncodeUnchecked[<<n, bytes>>] =
               IF n >= d THEN EncodeUnchecked[<<n \div d, Append(bytes, n % d)>>]
               ELSE Append(bytes, d + n)
  <2>. DEFINE r == <<n, bytes>>
  <2>1. r \in G /\ r[1] = n /\ r[2] = bytes
    OBVIOUS
  <2>. HIDE DEF r, G
  <2>2. EncodeUnchecked[r] =
          IF r[1] >= d THEN EncodeUnchecked[<<r[1] \div d, Append(r[2], r[1] % d)>>]
          ELSE Append(r[2], d + r[1])
    BY <1>7, <2>1
  <2>3. EncodeUnchecked[r] =
          IF n >= d THEN EncodeUnchecked[<<n \div d, Append(bytes, n % d)>>]
          ELSE Append(bytes, d + n)
    BY <2>1, <2>2
  <2>. QED  BY <2>3 DEF r
<1>. QED  BY <1>8 DEF d

Shift(i) == (i - 1) * Group

LEMMA ShiftIs == \A i \in Nat \ {0} : Shift(i) \in Nat /\ Pow2[Shift(i)] \in Nat \ {0}
<1>. TAKE i \in Nat \ {0}
<1>1. i - 1 \in Nat /\ Group \in Nat
  BY GroupIs
<1>2. Shift(i) \in Nat
  BY <1>1 DEF Shift
<1>. QED  BY <1>2, Pow2Grows

\* What the loop of decode_buf does from byte i on.
DecodeStep(f, s, i, num) ==
  IF i > Len(s) THEN Failure("UnexpectedEndOfBuffer")
  ELSE IF s[i] >= Msb
  THEN IF MaxByteTooLarge(Shift(i), s[i]) THEN Failure("EncodedValueTooLarge")
       ELSE [error |-> "None", num |-> num + (s[i] - Msb) * Pow2[Shift(i)], count |-> i]
  ELSE IF Shift(i) + Group > WordBits THEN Failure("UnexpectedEncodingLen")
  ELSE f[<<i + 1, num + s[i] * Pow2[Shift(i)]>>]

Decodes(f, s) ==
  f = [at \in (Nat \ {0}) \X Nat |-> DecodeStep(f, s, at[1], at[2])]

LEMMA DecodesExists ==
  ASSUME NEW s \in Seq(Nat)
  PROVE  \E f : Decodes(f, s)
<1>. DEFINE G == (Nat \ {0}) \X Nat
            stop == {r \in G : r[1] > Len(s) \/ s[r[1]] >= Msb \/ Shift(r[1]) + Group > WordBits}
            val == [r \in G |-> DecodeStep([q \in {} |-> 0], s, r[1], r[2])]
            next == [r \in G |-> IF r \in stop THEN r
                                 ELSE <<r[1] + 1, r[2] + s[r[1]] * Pow2[Shift(r[1])]>>]
            size == [r \in G |-> IF r[1] > Len(s) THEN 0 ELSE Len(s) + 1 - r[1]]
            R == {val[r] : r \in G}
<1>1. size \in [G -> Nat]
  <2>1. \A r \in G : r[1] \in Nat /\ Len(s) \in Nat
    OBVIOUS
  <2>. QED  BY <2>1
<1>2. ASSUME NEW r \in G, r \notin stop PROVE next[r] \in G /\ size[next[r]] < size[r]
  <2>. DEFINE i == r[1]
              v == r[2] + s[r[1]] * Pow2[Shift(r[1])]
  <2>1. i \in 1..Len(s) /\ r[2] \in Nat /\ Len(s) \in Nat
    BY <1>2
  <2>2. s[i] \in Nat /\ Pow2[Shift(i)] \in Nat
    BY <2>1, ShiftIs
  <2>3. v \in Nat
    <3>. DEFINE a == s[i]
                b == Pow2[Shift(i)]
                c == r[2]
    <3>1. a \in Nat /\ b \in Nat /\ c \in Nat
      BY <2>1, <2>2
    <3>. HIDE DEF a, b, c
    <3>2. c + a * b \in Nat
      BY <3>1
    <3>. QED  BY <3>2 DEF a, b, c
  <2>4. next[r] = <<i + 1, v>>
    <3>. HIDE DEF stop
    <3>. QED  BY <1>2
  <2>. HIDE DEF v, next
  <2>5. next[r] \in G
    BY <2>1, <2>3, <2>4
  <2>6. size[next[r]] = (IF i + 1 > Len(s) THEN 0 ELSE Len(s) + 1 - (i + 1)) /\ size[r] = Len(s) + 1 - i
    <3>. DEFINE e == next[r]
    <3>1. e \in G /\ e[1] = i + 1
      BY <2>4, <2>5
    <3>. HIDE DEF e
    <3>2. size[e] = IF i + 1 > Len(s) THEN 0 ELSE Len(s) + 1 - (i + 1)
      <4>1. size[e] = IF e[1] > Len(s) THEN 0 ELSE Len(s) + 1 - e[1]
        BY <3>1
      <4>. HIDE DEF size, G
      <4>. QED  BY <3>1, <4>1
    <3>3. size[r] = Len(s) + 1 - i
      <4>1. size[r] = IF i > Len(s) THEN 0 ELSE Len(s) + 1 - i
        OBVIOUS
      <4>. HIDE DEF size, G, i
      <4>. QED  BY <2>1, <4>1
    <3>. QED  BY <3>2, <3>3 DEF e
  <2>. DEFINE m == size[next[r]]
              n == size[r]
  <2>7. m = (IF i + 1 > Len(s) THEN 0 ELSE Len(s) + 1 - (i + 1)) /\ n = Len(s) + 1 - i
    BY <2>6
  <2>. HIDE DEF m, n, i
  <2>8. m < n
    BY <2>1, <2>7
  <2>. QED  BY <2>5, <2>8 DEF m, n
<1>3. next \in [G -> G]
  <2>1. \A r \in G : r \in stop => next[r] \in G
    <3>. HIDE DEF stop, G
    <3>. QED  OBVIOUS
  <2>. HIDE DEF stop
  <2>2. \A r \in G : next[r] \in G
    BY <1>2, <2>1
  <2>3. next = [r \in G |-> next[r]]
    <3>. HIDE DEF G
    <3>. QED  OBVIOUS
  <2>. HIDE DEF next, G
  <2>. QED  BY <2>2, <2>3
<1>4. val \in [G -> R]
  <2>. HIDE DEF G
  <2>. QED  OBVIOUS
<1>5. PICK f : IsDescent(f, G, stop, val, next)
  <2>. HIDE DEF G, stop, val, next, size, R
  <2>. QED  BY <1>1, <1>2, <1>3, <1>4, TailRecursion
<1>6. f = [r \in G |-> IF r \in stop THEN val[r] ELSE f[next[r]]]
  <2>. HIDE DEF G, stop, val, next
  <2>. QED  BY <1>5 DEF IsDescent
<1>7. ASSUME NEW r \in G
      PROVE  (IF r \in stop THEN val[r] ELSE f[next[r]]) = DecodeStep(f, s, r[1], r[2])
  <2>1. CASE r \in stop
    <3>1. r[1] > Len(s) \/ s[r[1]] >= Msb \/ Shift(r[1]) + Group > WordBits
      BY <2>1
    <3>2. val[r] = DecodeStep([q \in {} |-> 0], s, r[1], r[2])
      <4>. HIDE DEF G
      <4>. QED  OBVIOUS
    <3>. HIDE DEF val, stop, G
    <3>. QED  BY <2>1, <3>1, <3>2 DEF DecodeStep
  <2>2. CASE r \notin stop
    <3>1. ~(r[1] > Len(s)) /\ ~(s[r[1]] >= Msb) /\ ~(Shift(r[1]) + Group > WordBits)
      <4>. HIDE DEF G
      <4>. QED  BY <2>2
    <3>2. next[r] = <<r[1] + 1, r[2] + s[r[1]] * Pow2[Shift(r[1])]>>
      <4>. HIDE DEF G, stop
      <4>. QED  BY <2>2
    <3>. HIDE DEF next, stop, G
    <3>. QED  BY <2>2, <3>1, <3>2 DEF DecodeStep
  <2>. HIDE DEF stop, val, next, G
  <2>. QED  BY <2>1, <2>2
<1>8. f = [r \in G |-> DecodeStep(f, s, r[1], r[2])]
  <2>. HIDE DEF G, stop, val, next
  <2>. QED  BY <1>6, <1>7
<1>. HIDE DEF stop, val, next, size, R
<1>9. Decodes(f, s)
  BY <1>8 DEF Decodes
<1>. QED  BY <1>9

\* decode_buf is a run of that loop from the first byte on.
LEMMA DecodeBufIs ==
  ASSUME NEW s \in Seq(Nat)
  PROVE  \E f : Decodes(f, s) /\ DecodeBuf(s) = f[<<1, 0>>]
<1>. DEFINE f == CHOOSE g : Decodes(g, s)
<1>1. Decodes(f, s)
  BY DecodesExists
<1>2. DecodeBuf(s) = f[<<1, 0>>]
  BY DEF DecodeBuf, Decodes, DecodeStep, Shift, Group
<1>. HIDE DEF f
<1>. QED  BY <1>1, <1>2

\* From the bytes before it on, a number is encoded in encoding_len bytes and
\* decoded to itself.
Encodes(n, bytes) ==
  LET s == EncodeUnchecked[<<n, bytes>>]
      k == Len(bytes)
  IN  /\ s \in Seq(Nat) /\ Extends(s, bytes)
      /\ Len(s) = k + EncodingLen(n)
      /\ \A rest \in Seq(Nat) : \A f : \A acc \in Nat :
           Decodes(f, s \o rest) /\ n * Pow2[Shift(k + 1)] < Pow2[WordBits]
           => f[<<k + 1, acc>>] =
                [error |-> "None", num |-> acc + n * Pow2[Shift(k + 1)], count |-> Len(s)]

LEMMA DecodesAt ==
  ASSUME NEW f, NEW s, Decodes(f, s), NEW i \in Nat \ {0}, NEW num \in Nat
  PROVE  f[<<i, num>>] = DecodeStep(f, s, i, num)
<1>. DEFINE G == (Nat \ {0}) \X Nat
            r == <<i, num>>
<1>1. r \in G /\ r[1] = i /\ r[2] = num
  OBVIOUS
<1>. HIDE DEF r
<1>2. f = [at \in G |-> DecodeStep(f, s, at[1], at[2])]
  BY DEF Decodes
<1>. HIDE DEF G
<1>3. f[r] = DecodeStep(f, s, r[1], r[2])
  BY <1>1, <1>2
<1>. QED  BY <1>1, <1>3 DEF r

LEMMA ShiftNext ==
  \A i \in Nat \ {0} : /\ Shift(i + 1) = Shift(i) + Group
                       /\ Pow2[Shift(i + 1)] = Msb * Pow2[Shift(i)]
<1>. TAKE i \in Nat \ {0}
<1>1. Group \in Nat /\ Shift(i) \in Nat /\ Msb = Pow2[Group]
  BY GroupIs, ShiftIs
<1>2. Shift(i + 1) = Shift(i) + Group
  <2>1. ((i + 1) - 1) * Group = (i - 1) * Group + Group
    BY <1>1
  <2>. QED  BY <2>1 DEF Shift
<1>3. Shift(i) + Group = Group + Shift(i)
  BY <1>1
<1>4. Pow2[Group + Shift(i)] = Pow2[Group] * Pow2[Shift(i)]
  BY <1>1, Pow2Sum
<1>. QED  BY <1>1, <1>2, <1>3, <1>4

LEMMA EncodesLast ==
  ASSUME NEW n \in Nat, n < Msb, NEW bytes \in Seq(Nat)
  PROVE  Encodes(n, bytes)
<1>. DEFINE s == EncodeUnchecked[<<n, bytes>>]
            k == Len(bytes)
            p == Pow2[Shift(k + 1)]
<1>1. k \in Nat /\ k + 1 \in Nat \ {0} /\ p \in Nat \ {0} /\ Msb \in Nat \ {0, 1}
  BY ShiftIs, GroupIs
<1>2. s = Append(bytes, Msb + n)
  <2>1. ~(n >= Msb)
    BY <1>1
  <2>. HIDE DEF s
  <2>2. s = IF n >= Msb THEN EncodeUnchecked[<<n \div Msb, Append(bytes, n % Msb)>>]
            ELSE Append(bytes, Msb + n)
    BY EncodeIs DEF s
  <2>. QED  BY <2>1, <2>2
<1>3. s \in Seq(Nat) /\ Len(s) = k + 1 /\ s[k + 1] = Msb + n /\ Extends(s, bytes)
  BY <1>1, <1>2 DEF Extends
<1>4. EncodingLen(n) = 1
  BY EncodingLenGrows
<1>. HIDE DEF s, p
<1>5. ASSUME NEW rest \in Seq(Nat), NEW f, NEW acc \in Nat,
             Decodes(f, s \o rest), n * p < Pow2[WordBits]
      PROVE  f[<<k + 1, acc>>] = [error |-> "None", num |-> acc + n * p, count |-> Len(s)]
  <2>. DEFINE t == s \o rest
              i == k + 1
  <2>1. i \in 1..Len(t) /\ t[i] = Msb + n
    BY <1>1, <1>3
  <2>2. ~MaxByteTooLarge(Shift(i), t[i])
    <3>. SUFFICES ASSUME Shift(i) = WordBits - 1, Msb + n > Msb + 1 PROVE FALSE
      BY <2>1 DEF MaxByteTooLarge
    <3>1. WordBits - 1 \in Nat /\ (WordBits - 1) + 1 = WordBits
      BY GroupIs
    <3>2. Pow2[WordBits] = 2 * p
      BY <3>1, Pow2Is DEF p
    <3>3. 2 <= n
      BY <1>1
    <3>4. 2 * p <= n * p
      BY <1>1, <3>3, MulMonotonic
    <3>. QED  BY <1>1, <1>5, <3>2, <3>4
  <2>3. f[<<i, acc>>] = DecodeStep(f, t, i, acc)
    <3>. HIDE DEF t
    <3>. QED  BY <1>1, <1>5, DecodesAt DEF t
  <2>4. ~(i > Len(t)) /\ t[i] >= Msb /\ t[i] - Msb = n
    <3>. HIDE DEF t, i
    <3>. QED  BY <1>1, <2>1
  <2>5. DecodeStep(f, t, i, acc) = [error |-> "None", num |-> acc + n * p, count |-> i]
    <3>. HIDE DEF t, i
    <3>1. acc + (t[i] - Msb) * Pow2[Shift(i)] = acc + n * p
      BY <2>4 DEF p, i
    <3>. QED  BY <2>2, <2>4, <3>1 DEF DecodeStep
  <2>. QED  BY <1>3, <2>3, <2>5
<1>6. \A rest \in Seq(Nat) : \A f : \A acc \in Nat :
        Decodes(f, s \o rest) /\ n * p < Pow2[WordBits]
        => f[<<k + 1, acc>>] = [error |-> "None", num |-> acc + n * p, count |-> Len(s)]
  BY <1>5
<1>. QED  BY <1>3, <1>4, <1>6 DEF Encodes, s, p

LEMMA EncodesNext ==
  ASSUME NEW n \in Nat, n >= Msb, NEW bytes \in Seq(Nat),
         \A b \in Seq(Nat) : Encodes(n \div Msb, b)
  PROVE  Encodes(n, bytes)
<1>. DEFINE s == EncodeUnchecked[<<n, bytes>>]
            k == Len(bytes)
            p == Pow2[Shift(k + 1)]
            y == n \div Msb
            z == n % Msb
            more == Append(bytes, z)
            u == EncodeUnchecked[<<y, more>>]
<1>1. k \in Nat /\ k + 1 \in Nat \ {0} /\ p \in Nat \ {0} /\ Msb \in Nat \ {0, 1}
  BY ShiftIs, GroupIs
<1>2. y \in Nat /\ z \in 0..(Msb - 1) /\ n = y * Msb + z
  <2>1. Msb \in Nat \ {0}
    BY <1>1
  <2>. DEFINE d == Msb
  <2>2. d \in Nat \ {0}
    BY <2>1
  <2>. HIDE DEF d
  <2>3. n \div d \in Nat /\ n % d \in 0..(d - 1) /\ n = (n \div d) * d + (n % d)
    BY <2>2, Quotient
  <2>. QED  BY <2>3 DEF d
<1>3. s = u
  BY EncodeIs
<1>. HIDE DEF z, y
<1>4. more \in Seq(Nat) /\ Len(more) = k + 1 /\ more[k + 1] = z /\ Extends(more, bytes)
  BY <1>1, <1>2 DEF Extends
<1>. HIDE DEF more
<1>5. Encodes(y, more)
  BY <1>4 DEF y
<1>6. u \in Seq(Nat) /\ Extends(u, more) /\ Len(u) = (k + 1) + EncodingLen(y)
  BY <1>4, <1>5 DEF Encodes
<1>. HIDE DEF u, s
<1>7. EncodingLen(n) = EncodingLen(y) + 1
  BY EncodingLenGrows DEF y
<1>8. EncodingLen(y) \in Int
  <2>1. Len(u) \in Nat
    BY <1>6
  <2>. QED  BY EncodingLenType, <1>2
<1>9. s \in Seq(Nat) /\ Len(s) = k + EncodingLen(n) /\ k + 1 <= Len(s)
  BY <1>1, <1>3, <1>4, <1>6, <1>7, <1>8 DEF Extends
<1>10. Extends(s, bytes) /\ s[k + 1] = z
  <2>1. Len(bytes) <= Len(s) /\ \A i \in 1..Len(bytes) : s[i] = bytes[i]
    <3>1. \A i \in 1..k : i \in 1..(k + 1)
      BY <1>1
    <3>2. \A i \in 1..k : u[i] = more[i] /\ more[i] = bytes[i]
      BY <1>4, <1>6, <3>1 DEF Extends
    <3>3. k <= Len(s)
      BY <1>1, <1>9
    <3>. QED  BY <1>3, <3>2, <3>3
  <2>2. k + 1 \in 1..Len(more)
    BY <1>1, <1>4
  <2>. QED  BY <1>3, <1>4, <1>6, <2>1, <2>2 DEF Extends
<1>. HIDE DEF p
<1>11. ASSUME NEW rest \in Seq(Nat), NEW f, NEW acc \in Nat,
              Decodes(f, s \o rest), n * p < Pow2[WordBits]
       PROVE  f[<<k + 1, acc>>] = [error |-> "None", num |-> acc + n * p, count |-> Len(s)]
  <2>. DEFINE t == s \o rest
              i == k + 1
              d == Msb
              more2 == acc + z * p
  <2>1. i \in 1..Len(t) /\ t[i] = z
    BY <1>1, <1>9, <1>10
  <2>2. Shift(i) \in Nat /\ Shift(i + 1) = Shift(i) + Group /\ Pow2[Shift(i + 1)] = d * p
    BY <1>1, ShiftIs, ShiftNext DEF p
  <2>3. d \in Nat \ {0, 1} /\ z \in 0..(d - 1) /\ n = y * d + z /\ n >= d
    BY <1>1, <1>2
  <2>. HIDE DEF d
  <2>4. d * p <= n * p
    <3>1. d \in Int /\ n \in Int /\ d <= n /\ p \in Nat
      BY <1>1, <2>3
    <3>. QED  BY <3>1, MulMonotonic
  <2>5. ~(Shift(i) + Group > WordBits)
    <3>1. ASSUME WordBits <= Shift(i + 1) PROVE FALSE
      <4>1. Shift(i + 1) \in Nat /\ WordBits \in Nat
        BY <1>1, ShiftIs, GroupIs
      <4>2. Pow2[WordBits] <= Pow2[Shift(i + 1)] /\ Pow2[WordBits] \in Nat
        BY <3>1, <4>1, Pow2Grows
      <4>. QED  BY <1>1, <1>11, <2>2, <2>3, <2>4, <4>2
    <3>2. Shift(i + 1) \in Nat /\ WordBits \in Nat
      BY <1>1, ShiftIs, GroupIs
    <3>. QED  BY <2>2, <3>1, <3>2
  <2>6. f[<<i, acc>>] = DecodeStep(f, t, i, acc)
    <3>. HIDE DEF t
    <3>. QED  BY <1>1, <1>11, DecodesAt DEF t
  <2>7. ~(i > Len(t)) /\ ~(t[i] >= d)
    <3>. HIDE DEF t, i
    <3>. QED  BY <2>1, <2>3
  <2>8. DecodeStep(f, t, i, acc) = f[<<i + 1, more2>>]
    <3>. HIDE DEF t, i
    <3>1. acc + t[i] * Pow2[Shift(i)] = more2
      BY <2>1 DEF p, i
    <3>. HIDE DEF more2
    <3>. QED  BY <2>5, <2>7, <3>1 DEF DecodeStep, d
  <2>9. /\ y * (d * p) = (y * d) * p
        /\ more2 + y * (d * p) = acc + n * p
        /\ y * (d * p) <= n * p /\ more2 \in Nat
    <3>1. y * (d * p) = (y * d) * p
      BY <1>1, <1>2, <2>3
    <3>. DEFINE e == y * d
    <3>2. e \in Nat /\ n = e + z /\ z \in Nat
      <4>1. y \in Nat /\ d \in Nat
        BY <1>2, <2>3
      <4>2. y * d \in Nat
        BY <4>1
      <4>. QED  BY <2>3, <4>2
    <3>. HIDE DEF e
    <3>3. n * p = e * p + z * p
      BY <1>1, <3>2
    <3>4. e * p \in Nat /\ z * p \in Nat
      BY <1>1, <3>2
    <3>5. y * (d * p) = e * p
      BY <3>1 DEF e
    <3>. QED  BY <3>1, <3>3, <3>4, <3>5
  <2>. HIDE DEF more2
  <2>10. f[<<i + 1, more2>>] = [error |-> "None", num |-> more2 + y * (d * p), count |-> Len(u)]
    <3>1. n * p \in Nat /\ y * (d * p) \in Int /\ Pow2[WordBits] \in Nat
      <4>1. y \in Nat /\ d \in Nat /\ p \in Nat
        BY <1>1, <1>2, <2>3
      <4>2. d * p \in Nat
        BY <4>1
      <4>3. y * (d * p) \in Nat /\ n * p \in Nat
        BY <4>1, <4>2
      <4>. QED  BY <4>3, GroupIs, Pow2Grows
    <3>2. y * Pow2[Shift(i + 1)] < Pow2[WordBits]
      BY <1>11, <2>2, <2>9, <3>1
    <3>3. \A r \in Seq(Nat) : \A g : \A a \in Nat :
            Decodes(g, u \o r) /\ y * Pow2[Shift(Len(more) + 1)] < Pow2[WordBits]
            => g[<<Len(more) + 1, a>>] =
                 [error |-> "None", num |-> a + y * Pow2[Shift(Len(more) + 1)], count |-> Len(u)]
      BY <1>5 DEF Encodes, u
    <3>4. Len(more) + 1 = i + 1
      BY <1>4
    <3>. HIDE DEF i
    <3>5. f[<<i + 1, more2>>] =
            [error |-> "None", num |-> more2 + y * Pow2[Shift(i + 1)], count |-> Len(u)]
      BY <1>3, <1>11, <2>9, <3>2, <3>3, <3>4
    <3>. QED  BY <2>2, <3>5
  <2>. QED  BY <1>3, <2>6, <2>8, <2>9, <2>10
<1>12. \A rest \in Seq(Nat) : \A f : \A acc \in Nat :
         Decodes(f, s \o rest) /\ n * p < Pow2[WordBits]
         => f[<<k + 1, acc>>] = [error |-> "None", num |-> acc + n * p, count |-> Len(s)]
  BY <1>11
<1>. QED  BY <1>9, <1>10, <1>12 DEF Encodes, s, p

LEMMA EncodesAlways == \A n \in Nat : \A bytes \in Seq(Nat) : Encodes(n, bytes)
<1>. DEFINE T == {t \in Nat : \A n \in Nat : n <= t => \A bytes \in Seq(Nat) : Encodes(n, bytes)}
<1>0. Msb \in Nat \ {0, 1}
  BY GroupIs
<1>1. 0 \in T
  BY <1>0, EncodesLast
<1>2. ASSUME NEW t \in Nat, t \in T PROVE t + 1 \in T
  <2>. SUFFICES ASSUME NEW n \in Nat, n <= t + 1, NEW bytes \in Seq(Nat)
                PROVE  Encodes(n, bytes)
    OBVIOUS
  <2>1. CASE n < Msb
    BY <2>1, EncodesLast
  <2>2. CASE n >= Msb
    <3>. DEFINE d == Msb
    <3>1. d \in Nat \ {0, 1} /\ n >= d
      BY <1>0, <2>2
    <3>. HIDE DEF d
    <3>2. n < n * d
      BY <3>1
    <3>3. n \div d \in Nat /\ n \div d < n
      BY <3>1, <3>2, QuotientBelow, Quotient
    <3>4. n \div Msb \in Nat /\ n \div Msb <= t
      BY <3>3 DEF d
    <3>5. \A b \in Seq(Nat) : Encodes(n \div Msb, b)
      BY <1>2, <3>4
    <3>. QED  BY <2>2, <3>5, EncodesNext
  <2>. QED  BY <1>0, <2>1, <2>2
<1>. HIDE DEF T
<1>3. \A t \in Nat : t \in T
  BY <1>1, <1>2, Induct
<1>4. ASSUME NEW n \in Nat, NEW bytes \in Seq(Nat) PROVE Encodes(n, bytes)
  <2>1. n \in T /\ n <= n
    BY <1>3
  <2>. QED  BY <2>1 DEF T
<1>. QED  BY <1>4

LEMMA EncodingLenBound ==
  ASSUME NEW n \in Nat, n < Pow2[WordBits]
  PROVE  EncodingLen(n) <= MaxEncodingLen
<1>1. Group \in Nat \ {0} /\ WordBits \in Nat
  BY GroupIs
<1>2. WordBits \div Group \in Nat /\ MaxEncodingLen = WordBits \div Group + 1
  BY <1>1, Quotient DEF MaxEncodingLen, Group
<1>3. CASE n = 0
  BY <1>2, <1>3 DEF EncodingLen
<1>4. CASE n # 0
  <2>1. PICK h \in Nat : Top(n, h)
    BY <1>4, TopExists
  <2>2. h <= WordBits
    <3>1. WordBits <= h => Pow2[WordBits] <= Pow2[h]
      BY <1>1, Pow2Grows
    <3>2. Pow2[WordBits] \in Nat /\ Pow2[h] \in Nat /\ Pow2[h] <= n
      BY <1>1, <2>1, Pow2Grows DEF Top
    <3>. QED  BY <1>1, <3>1, <3>2
  <2>3. h \div Group <= WordBits \div Group
    <3>. DEFINE q == h \div Group
                r == h % Group
    <3>1. q \in Nat /\ r \in 0..(Group - 1) /\ h = q * Group + r
      BY <1>1, Quotient
    <3>. HIDE DEF q, r
    <3>2. q * Group <= WordBits /\ q \in Int
      <4>1. q * Group \in Nat
        BY <1>1, <3>1
      <4>. QED  BY <1>1, <2>2, <3>1, <4>1
    <3>3. q <= WordBits \div Group
      BY <1>1, <3>2, QuotientFrom
    <3>. QED  BY <3>3 DEF q
  <2>4. EncodingLen(n) = h \div Group + 1 /\ h \div Group \in Nat
    BY <1>1, <2>1, EncodingLenIs, Quotient
  <2>. QED  BY <1>2, <2>3, <2>4
<1>. QED  BY <1>3, <1>4

(* Every number of a word is read back from its bytes, whatever bytes come *)
(* after them; they are as many as encoding_len says, which is what        *)
(* encode_vec allots before it writes without a check of bounds, and no    *)
(* more than encode_array has room for (vbyte.rs: encoding_len,            *)
(* encode_unchecked, decode_buf).                                          *)
THEOREM VByteReadsBack ==
  \A n \in 0..(Pow2[WordBits] - 1) :
    EncodingLen(n) <= MaxEncodingLen /\ \A rest \in Seq(Nat) : ReadsEncoded(n, rest)
<1>. TAKE n \in 0..(Pow2[WordBits] - 1)
<1>1. n \in Nat /\ n < Pow2[WordBits]
  BY GroupIs, Pow2Grows
<1>2. EncodingLen(n) <= MaxEncodingLen
  BY <1>1, EncodingLenBound
<1>3. ASSUME NEW rest \in Seq(Nat) PROVE ReadsEncoded(n, rest)
  <2>. DEFINE none == <<>>
              s == EncodeUnchecked[<<n, none>>]
  <2>1. EncodeVec(n) = s
    BY DEF EncodeVec
  <2>. HIDE DEF none
  <2>2. none \in Seq(Nat) /\ Len(none) = 0 /\ Encodes(n, none)
    <3>1. none \in Seq(Nat) /\ Len(none) = 0
      BY DEF none
    <3>. QED  BY <1>1, <3>1, EncodesAlways
  <2>3. Shift(0 + 1) = 0 /\ Pow2[Shift(0 + 1)] = 1
    BY GroupIs, Pow2Is DEF Shift
  <2>4. /\ s \in Seq(Nat) /\ Len(s) = Len(none) + EncodingLen(n)
        /\ \A r \in Seq(Nat) : \A f : \A acc \in Nat :
             Decodes(f, s \o r) /\ n * Pow2[Shift(Len(none) + 1)] < Pow2[WordBits]
             => f[<<Len(none) + 1, acc>>] =
                  [error |-> "None", num |-> acc + n * Pow2[Shift(Len(none) + 1)], count |-> Len(s)]
    BY <2>2 DEF Encodes
  <2>. HIDE DEF s
  <2>5. s \o rest \in Seq(Nat)
    BY <2>4, ConcatProperties
  <2>6. PICK f : Decodes(f, s \o rest) /\ DecodeBuf(s \o rest) = f[<<1, 0>>]
    BY <2>5, DecodeBufIs
  <2>7. 0 + 1 = 1 /\ 0 + n * 1 = n /\ n * 1 = n /\ 0 \in Nat
    BY <1>1
  <2>8. f[<<1, 0>>] = [error |-> "None", num |-> n, count |-> Len(s)]
    <3>1. Len(none) + 1 = 1 /\ Shift(Len(none) + 1) = 0 /\ Pow2[Shift(Len(none) + 1)] = 1
      BY <2>2, <2>3, <2>7
    <3>2. n * Pow2[Shift(Len(none) + 1)] < Pow2[WordBits]
      BY <1>1, <2>7, <3>1
    <3>3. f[<<Len(none) + 1, 0>>] =
            [error |-> "None", num |-> 0 + n * Pow2[Shift(Len(none) + 1)], count |-> Len(s)]
      BY <2>4, <2>6, <2>7, <3>2
    <3>. QED  BY <2>7, <3>1, <3>3
  <2>9. Len(s) = EncodingLen(n)
    <3>1. EncodingLen(n) \in Nat
      BY <1>1, EncodingLenType
    <3>2. Len(s) = 0 + EncodingLen(n)
      BY <2>2, <2>4
    <3>. QED  BY <3>1, <3>2
  <2>. QED  BY <2>1, <2>6, <2>8, <2>9 DEF ReadsEncoded
<1>. QED  BY <1>2, <1>3
=============================================================================
