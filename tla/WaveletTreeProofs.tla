-------------------------- MODULE WaveletTreeProofs --------------------------
(***************************************************************************)
(* For sources of any width and length: the builder loses no number, and   *)
(* the tree decodes to its source and finds all positions of a value.      *)
(***************************************************************************)
EXTENDS WaveletTree, BitIndexProofs

-----------------------------------------------------------------------------
(* Powers of two.                                                          *)

LEMMA Pow2Positive == \A n \in Nat : Pow2[n] \in Nat \ {0}
<1>1. \A n \in Nat : Pow2[n] \in Nat
  BY Pow2Is
<1>. QED  BY <1>1, Pow2Above

LEMMA Pow2Plus ==
  ASSUME NEW a \in Nat, NEW b \in Nat
  PROVE  Pow2[a + b] = Pow2[a] * Pow2[b]
<1>. DEFINE T == {n \in Nat : Pow2[a + n] = Pow2[a] * Pow2[n]}
<1>1. 0 \in T
  <2>1. Pow2[a] \in Nat /\ Pow2[0] = 1 /\ a + 0 = a
    BY Pow2Is
  <2>. QED  BY <2>1
<1>2. ASSUME NEW n \in Nat, n \in T PROVE n + 1 \in T
  <2>1. /\ a + n \in Nat /\ a + (n + 1) = (a + n) + 1
        /\ Pow2[(a + n) + 1] = 2 * Pow2[a + n] /\ Pow2[n + 1] = 2 * Pow2[n]
        /\ Pow2[a] \in Nat /\ Pow2[n] \in Nat
    BY Pow2Is
  <2>2. 2 * (Pow2[a] * Pow2[n]) = Pow2[a] * (2 * Pow2[n])
    BY <2>1
  <2>. QED  BY <1>2, <2>1, <2>2
<1>. HIDE DEF T
<1>3. b \in T
  BY <1>1, <1>2, Induct
<1>. QED  BY <1>3 DEF T

LEMMA Pow2Grows ==
  ASSUME NEW a \in Nat, NEW b \in Nat, a <= b
  PROVE  Pow2[a] <= Pow2[b]
<1>1. b - a \in Nat /\ a + (b - a) = b
  OBVIOUS
<1>2. Pow2[b] = Pow2[a] * Pow2[b - a]
  BY <1>1, Pow2Plus
<1>3. Pow2[a] \in Nat /\ Pow2[b - a] \in Nat \ {0}
  BY <1>1, Pow2Positive
<1>. DEFINE x == Pow2[a]
            y == Pow2[b - a]
<1>. HIDE DEF x, y
<1>4. 1 * x <= y * x
  <2>1. x \in Nat /\ 1 \in Int /\ y \in Int /\ 1 <= y
    BY <1>3 DEF x, y
  <2>. QED  BY <2>1, MulMonotonic
<1>5. 1 * x = x /\ y * x = x * y
  BY <1>3 DEF x, y
<1>. QED  BY <1>2, <1>4, <1>5 DEF x, y

-----------------------------------------------------------------------------
(* The nodes: at layer i there are 2^i, each of Size(i) values.            *)

Values  == 0..(Pow2[width] - 1)
Size(i) == Pow2[width - i]

\* The node of a value at a layer, where it starts, ends and is halved.
NodeOf(e, i) == e \div Size(i)
Low(e, i)    == NodeOf(e, i) * Size(i)
High(e, i)   == Low(e, i) + Size(i)
Half(e, i)   == Low(e, i) + Size(i + 1)

WidthOK == width \in Nat \ {0}

LEMMA SizeIs ==
  ASSUME WidthOK
  PROVE  /\ \A i \in 0..width : Size(i) \in Nat \ {0} /\ Pow2[i] * Size(i) = Pow2[width]
         /\ \A i \in 0..(width-1) : Size(i) = 2 * Size(i + 1) /\ Size(i + 1) \in Nat \ {0}
         /\ Size(0) = Pow2[width] /\ Size(width) = 1
         /\ Pow2[width] \in Nat \ {0}
<1>1. ASSUME NEW i \in 0..width
      PROVE  Size(i) \in Nat \ {0} /\ Pow2[i] * Size(i) = Pow2[width]
  <2>1. width - i \in Nat /\ i \in Nat /\ i + (width - i) = width
    BY DEF WidthOK
  <2>. QED  BY <2>1, Pow2Positive, Pow2Plus DEF Size
<1>2. ASSUME NEW i \in 0..(width-1)
      PROVE  Size(i) = 2 * Size(i + 1) /\ Size(i + 1) \in Nat \ {0}
  <2>. DEFINE m == width - (i + 1)
  <2>1. m \in Nat /\ width - i = m + 1 /\ i + 1 \in 0..width
    BY DEF WidthOK
  <2>2. Pow2[m + 1] = 2 * Pow2[m]
    BY <2>1, Pow2Is
  <2>. QED  BY <1>1, <2>1, <2>2 DEF Size
<1>3. Size(0) = Pow2[width] /\ Size(width) = 1
  <2>1. width - 0 = width /\ width - width = 0 /\ Pow2[0] = 1
    BY Pow2Is DEF WidthOK
  <2>. QED  BY <2>1 DEF Size
<1>4. Pow2[width] \in Nat \ {0}
  BY Pow2Positive DEF WidthOK
<1>. QED  BY <1>1, <1>2, <1>3, <1>4

LEMMA NodeHolds ==
  ASSUME WidthOK, NEW e \in Values, NEW i \in 0..width
  PROVE  /\ NodeOf(e, i) \in 0..(Pow2[i] - 1)
         /\ Low(e, i) \in Nat /\ Low(e, i) <= e /\ e < High(e, i)
         /\ High(e, i) \in Nat /\ High(e, i) <= Pow2[width]
<1>. DEFINE d == Size(i)
            k == NodeOf(e, i)
            n == Pow2[i]
<1>1. /\ d \in Nat \ {0} /\ n * d = Pow2[width] /\ n \in Nat \ {0}
      /\ e \in Nat /\ e < Pow2[width]
  BY SizeIs, Pow2Positive DEF Values, WidthOK
<1>2. k \in Nat /\ e % d \in 0..(d-1) /\ e = k * d + (e % d)
  BY <1>1, Quotient DEF NodeOf
<1>3. k < n
  <2>. HIDE DEF n, d
  <2>. QED  BY <1>1, QuotientBelow DEF NodeOf, d
<1>. HIDE DEF d, k, n
<1>4. k * d \in Nat /\ k * d <= e /\ e < k * d + d
  BY <1>1, <1>2
<1>5. (k + 1) * d <= n * d
  BY <1>1, <1>2, <1>3, MulMonotonic
<1>6. (k + 1) * d = k * d + d
  BY <1>1, <1>2
<1>7. k \in 0..(n-1) /\ k * d + d <= Pow2[width] /\ k * d + d \in Nat
  BY <1>1, <1>2, <1>3, <1>4, <1>5, <1>6
<1>. QED  BY <1>4, <1>7 DEF Low, High, d, k, n

LEMMA NodeEnds ==
  ASSUME WidthOK, NEW e \in Values
  PROVE  /\ Low(e, 0) = 0 /\ High(e, 0) = Pow2[width]
         /\ Low(e, width) = e /\ High(e, width) = e + 1
<1>1. e \in Nat /\ e < Pow2[width] /\ Pow2[width] \in Nat \ {0}
  BY SizeIs DEF Values
<1>2. Low(e, 0) = 0 /\ High(e, 0) = Pow2[width]
  <2>1. NodeOf(e, 0) \in 0..(Pow2[0] - 1) /\ Pow2[0] = 1
    <3>1. 0 \in 0..width
      BY DEF WidthOK
    <3>. QED  BY <3>1, NodeHolds, Pow2Is
  <2>2. NodeOf(e, 0) = 0
    BY <2>1
  <2>. QED  BY <1>1, <2>2, SizeIs DEF Low, High
<1>3. Low(e, width) = e /\ High(e, width) = e + 1
  <2>1. e \div 1 = e
    BY <1>1
  <2>. QED  BY <1>1, <2>1, SizeIs DEF Low, High, NodeOf
<1>. QED  BY <1>2, <1>3

\* A node is halved, and its two halves are nodes of the layer below.
LEMMA NodeHalves ==
  ASSUME WidthOK, NEW e \in Values, NEW i \in 0..(width-1)
  PROVE  /\ Half(e, i) \in Nat /\ Low(e, i) <= Half(e, i) /\ Half(e, i) <= High(e, i)
         /\ (Low(e, i) + High(e, i)) \div 2 = Half(e, i)
         /\ Low(e, i) + Size(i + 1) = Half(e, i) /\ High(e, i) - Size(i + 1) = Half(e, i)
         /\ e >= Half(e, i) => Low(e, i + 1) = Half(e, i) /\ High(e, i + 1) = High(e, i)
         /\ e < Half(e, i) => Low(e, i + 1) = Low(e, i) /\ High(e, i + 1) = Half(e, i)
<1>. DEFINE d == Size(i + 1)
            k == NodeOf(e, i)
<1>1. /\ d \in Nat \ {0} /\ Size(i) = 2 * d /\ e \in Nat /\ i \in 0..width
      /\ i + 1 \in 0..width
  BY SizeIs DEF WidthOK, Values
<1>2. k \in Nat /\ Low(e, i) = k * (2 * d) /\ Low(e, i) <= e /\ e < Low(e, i) + 2 * d
  <2>1. NodeOf(e, i) \in 0..(Pow2[i] - 1) /\ Low(e, i) <= e /\ e < High(e, i)
    BY <1>1, NodeHolds
  <2>. QED  BY <1>1, <2>1 DEF Low, High
<1>3. /\ High(e, i) = Low(e, i) + 2 * d /\ Half(e, i) = Low(e, i) + d
      /\ NodeOf(e, i + 1) = e \div d
      /\ Low(e, i + 1) = NodeOf(e, i + 1) * d
      /\ High(e, i + 1) = Low(e, i + 1) + d
  BY <1>1 DEF High, Half, NodeOf, Low
<1>. HIDE DEF d, k
<1>. DEFINE low == k * (2 * d)
<1>4. low = (2 * k) * d /\ low + d = (2 * k + 1) * d /\ low \in Nat /\ low = 2 * (k * d)
  BY <1>1, <1>2
<1>5. Low(e, i) = low
  BY <1>2
<1>6. (low + (low + 2 * d)) \div 2 = low + d
  <2>1. low + d \in Nat /\ low + (low + 2 * d) = (low + d) * 2 + 0
    BY <1>1, <1>4
  <2>. HIDE DEF low
  <2>2. low + (low + 2 * d) \in Nat
    BY <1>1, <1>4
  <2>. QED  BY <2>1, <2>2
<1>7. ASSUME e >= low + d
      PROVE  e \div d = 2 * k + 1
  <2>. DEFINE q == 2 * k + 1
              r == e - (low + d)
  <2>1. q \in Nat /\ r \in 0..(d-1) /\ e = q * d + r
    BY <1>1, <1>2, <1>4, <1>5, <1>7
  <2>. HIDE DEF q, r
  <2>2. e \div d = q
    BY <1>1, <2>1, QuotientIs
  <2>. QED  BY <2>2 DEF q
<1>8. ASSUME e < low + d
      PROVE  e \div d = 2 * k
  <2>. DEFINE q == 2 * k
              r == e - low
  <2>1. q \in Nat /\ r \in 0..(d-1) /\ e = q * d + r
    BY <1>1, <1>2, <1>4, <1>5, <1>8
  <2>. HIDE DEF q, r
  <2>2. e \div d = q
    BY <1>1, <2>1, QuotientIs
  <2>. QED  BY <2>2 DEF q
<1>. HIDE DEF low
<1>9. e >= low + d => Low(e, i + 1) = low + d /\ High(e, i + 1) = low + 2 * d
  <2>1. ASSUME e >= low + d PROVE Low(e, i + 1) = low + d
    BY <1>3, <1>4, <1>7, <2>1
  <2>2. (low + d) + d = low + 2 * d
    BY <1>1, <1>4
  <2>. QED  BY <1>3, <2>1, <2>2
<1>10. e < low + d => Low(e, i + 1) = low /\ High(e, i + 1) = low + d
  BY <1>3, <1>4, <1>8
<1>11. /\ low + d \in Nat /\ low <= low + d /\ low + d <= low + 2 * d
       /\ (low + 2 * d) - d = low + d
  BY <1>1, <1>4
<1>. QED  BY <1>3, <1>5, <1>6, <1>9, <1>10, <1>11 DEF d

-----------------------------------------------------------------------------
(* The fragments: the k-th of layer i is number 2^i + k.                   *)

LEMMA FragmentIs ==
  ASSUME WidthOK, NEW i \in 0..(width-1), NEW k \in 0..(Pow2[i] - 1)
  PROVE  LET f == Pow2[i] + k
         IN  /\ f \in 1..(Pow2[width] - 1) /\ LayerOf(f) = i
             /\ Increment(f) = Size(i) /\ FragmentStart(f) = k * Size(i)
             /\ FragmentEnd(f) = k * Size(i) + Size(i)
             /\ FragmentHalf(f) = k * Size(i) + Size(i + 1)
<1>. DEFINE f == Pow2[i] + k
<1>1. /\ i \in Nat /\ i + 1 \in Nat /\ i + 1 <= width /\ width \in Nat
      /\ Pow2[i] \in Nat \ {0} /\ Pow2[i + 1] = 2 * Pow2[i] /\ k \in Nat /\ k < Pow2[i]
  BY Pow2Positive, Pow2Is DEF WidthOK
<1>2. Pow2[i] <= f /\ f < Pow2[i + 1] /\ f \in Nat \ {0}
  BY <1>1
<1>3. f \in 1..(Pow2[width] - 1)
  <2>1. Pow2[i + 1] <= Pow2[width] /\ Pow2[width] \in Nat
    BY <1>1, Pow2Grows, Pow2Positive
  <2>. QED  BY <1>1, <1>2, <2>1
<1>. HIDE DEF f
<1>4. LayerOf(f) = i
  <2>1. ASSUME NEW j \in 0..(width-1), Pow2[j] <= f, f < Pow2[j + 1]
        PROVE  j = i
    <3>0. j \in Nat /\ j + 1 \in Nat /\ Pow2[j] \in Nat /\ Pow2[j + 1] \in Nat
      BY <1>1, Pow2Positive
    <3>1. ASSUME j < i PROVE FALSE
      <4>1. Pow2[j + 1] <= Pow2[i]
        <5>1. j + 1 <= i
          BY <1>1, <3>0, <3>1
        <5>. QED  BY <1>1, <3>0, <5>1, Pow2Grows
      <4>. QED  BY <1>1, <1>2, <2>1, <3>0, <4>1
    <3>2. ASSUME i < j PROVE FALSE
      <4>1. Pow2[i + 1] <= Pow2[j]
        <5>1. i + 1 <= j
          BY <1>1, <3>0, <3>2
        <5>. QED  BY <1>1, <3>0, <5>1, Pow2Grows
      <4>. QED  BY <1>1, <1>2, <2>1, <3>0, <4>1
    <3>. QED  BY <1>1, <3>0, <3>1, <3>2
  <2>. QED  BY <1>2, <2>1 DEF LayerOf
<1>5. Increment(f) = Size(i) /\ FragmentStart(f) = k * Size(i)
  <2>1. f - Pow2[i] = k
    BY <1>1 DEF f
  <2>. QED  BY <1>4, <2>1 DEF Increment, FragmentStart, Size
<1>6. FragmentEnd(f) = k * Size(i) + Size(i)
  BY <1>5 DEF FragmentEnd
<1>7. FragmentHalf(f) = k * Size(i) + Size(i + 1)
  <2>. DEFINE d == Size(i + 1)
  <2>1. d \in Nat \ {0} /\ Size(i) = 2 * d
    BY SizeIs
  <2>2. FragmentHalf(f) = (k * (2 * d) + (k * (2 * d) + 2 * d)) \div 2
    BY <1>5, <1>6, <2>1 DEF FragmentHalf
  <2>. HIDE DEF d
  <2>3. k * (2 * d) = 2 * (k * d) /\ k * d \in Nat
    BY <1>1, <2>1
  <2>. DEFINE x == k * d
  <2>. HIDE DEF x
  <2>4. (2 * x + (2 * x + 2 * d)) \div 2 = 2 * x + d
    <3>1. x \in Nat
      BY <2>3 DEF x
    <3>2. 2 * x + (2 * x + 2 * d) = (2 * x + d) * 2 + 0
      BY <2>1, <3>1
    <3>. QED  BY <2>1, <3>1, <3>2
  <2>. QED  BY <2>1, <2>2, <2>3, <2>4 DEF d, x
<1>. QED  BY <1>3, <1>4, <1>5, <1>6, <1>7 DEF f

LEMMA FragmentOf ==
  ASSUME WidthOK, NEW f \in 1..(Pow2[width] - 1)
  PROVE  \E i \in 0..(width-1) : \E k \in 0..(Pow2[i] - 1) : f = Pow2[i] + k
<1>. DEFINE Above == {n \in Nat : f < Pow2[n]}
<1>1. width \in Nat /\ Pow2[width] \in Nat /\ f \in Nat \ {0}
  BY Pow2Positive DEF WidthOK
<1>2. Above \in SUBSET Nat /\ Above # {}
  BY <1>1
<1>3. PICK m \in Above : \A n \in Above : m <= n
  BY <1>2, Least
<1>4. m \in Nat /\ f < Pow2[m] /\ m <= width /\ m # 0
  <2>1. Pow2[0] = 1
    BY Pow2Is
  <2>. QED  BY <1>1, <1>3, <2>1
<1>. DEFINE i == m - 1
<1>5. i \in Nat /\ i + 1 = m /\ i \in 0..(width-1)
  BY <1>1, <1>4
<1>6. Pow2[i] <= f
  <2>1. i \notin Above
    BY <1>3, <1>5
  <2>2. Pow2[i] \in Nat
    BY <1>5, Pow2Positive
  <2>. QED  BY <1>1, <1>5, <2>1, <2>2
<1>7. Pow2[m] = 2 * Pow2[i] /\ Pow2[i] \in Nat
  BY <1>5, Pow2Is
<1>. HIDE DEF i
<1>8. f - Pow2[i] \in 0..(Pow2[i] - 1) /\ f = Pow2[i] + (f - Pow2[i])
  BY <1>1, <1>4, <1>6, <1>7
<1>. QED  BY <1>5, <1>8

\* push_to_fragments comes by every fragment whose range a number is in.
LEMMA FragmentForIs ==
  ASSUME WidthOK, NEW num \in Values, NEW f \in 1..(Pow2[width] - 1), Accepts(f, num)
  PROVE  \E i \in 0..(width-1) : f = FragmentFor(num, i)
<1>1. PICK j \in 0..(width-1) : \E k \in 0..(Pow2[j] - 1) : f = Pow2[j] + k
  BY FragmentOf
<1>2. PICK k \in 0..(Pow2[j] - 1) : f = Pow2[j] + k
  BY <1>1
<1>. DEFINE d == Size(j)
<1>3. FragmentStart(f) = k * d /\ FragmentEnd(f) = k * d + d
  BY <1>2, FragmentIs
<1>4. /\ d \in Nat \ {0} /\ k \in Nat /\ num \in Nat /\ width \in Nat /\ j \in Nat /\ j < width
      /\ Pow2[j] \in Nat
  BY SizeIs, Pow2Positive DEF WidthOK, Values
<1>. HIDE DEF d
<1>5. num \div d = k
  <2>. DEFINE r == num - k * d
  <2>1. r \in 0..(d-1) /\ num = k * d + r
    BY <1>3, <1>4 DEF Accepts
  <2>. HIDE DEF r
  <2>. QED  BY <1>4, <2>1, QuotientIs
<1>. DEFINE i == width - j - 1
<1>6. i \in 0..(width-1) /\ i + 1 = width - j /\ width - i - 1 = j
  BY <1>4
<1>. HIDE DEF i
<1>7. FragmentFor(num, i) = k + Pow2[j]
  BY <1>5, <1>6 DEF FragmentFor, d, Size
<1>8. f = FragmentFor(num, i)
  BY <1>2, <1>4, <1>7
<1>. QED  BY <1>6, <1>8

-----------------------------------------------------------------------------
(* Building.                                                               *)

\* The places of the numbers a fragment is given; its bits tell their halves.
Own(s, f) == {p \in Nat : p < Len(s) /\ Accepts(f, s[p + 1])}

HoldsIts(bits, s, f) ==
  /\ Len(bits) = Count(Own(s, f), 0, Len(s))
  /\ \A p \in 0..(Len(s)-1) :
       p \in Own(s, f) => bits[Count(Own(s, f), 0, p) + 1] = BitFor(f, s[p + 1])

Typed ==
  /\ phase \in {"reading", "built"} /\ width \in Widths
  /\ fragments \in [1..(Pow2[width] - 1) -> Seq({0, 1})]
  /\ source \in Seq(Values) /\ Len(source) <= MaxLen

FragmentsHold == \A f \in 1..(Pow2[width] - 1) : HoldsIts(fragments[f], source, f)

\* The inductive invariant.
IInv == Typed /\ FragmentsHold /\ (phase = "built" => index = BuildIndex(FlattenSeq(fragments)))

LEMMA WidthIs == Typed => WidthOK
BY WidthsAssumption DEF Typed, WidthOK

\* The place of a number is among the bits of its fragment.
LEMMA OwnPlace ==
  ASSUME NEW s, Len(s) \in Nat, NEW f, NEW p \in 0..(Len(s)-1), p \in Own(s, f)
  PROVE  Count(Own(s, f), 0, p) \in 0..(Count(Own(s, f), 0, Len(s)) - 1)
<1>. DEFINE T == Own(s, f)
            n == Len(s)
<1>1. p \in Int /\ 0 <= p /\ p + 1 <= n /\ n \in Int /\ p \in T /\ p + 1 \in Int /\ 0 <= p + 1
  OBVIOUS
<1>. HIDE DEF T, n
<1>2. Count(T, 0, p + 1) = Count(T, 0, p) + 1
  BY <1>1, CountStep
<1>3. Count(T, 0, p + 1) <= Count(T, 0, n)
  BY <1>1, CountGrows
<1>4. Count(T, 0, p) \in Nat /\ Count(T, 0, n) \in Nat
  BY <1>1, CountType
<1>. QED  BY <1>2, <1>3, <1>4 DEF T, n

LEMMA FragmentGrows ==
  ASSUME NEW V, NEW s \in Seq(V), NEW num \in V, NEW f, NEW bits \in Seq({0, 1}),
         HoldsIts(bits, s, f)
  PROVE  HoldsIts(IF Accepts(f, num) THEN Append(bits, BitFor(f, num)) ELSE bits,
                  Append(s, num), f)
<1>. DEFINE t == Append(s, num)
            T == Own(s, f)
            U == Own(t, f)
            n == Len(s)
            grown == IF Accepts(f, num) THEN Append(bits, BitFor(f, num)) ELSE bits
<1>1. n \in Nat /\ Len(t) = n + 1 /\ t[n + 1] = num /\ \A p \in 0..(n-1) : t[p + 1] = s[p + 1]
  OBVIOUS
<1>2. \A p \in 0..(n-1) : p \in U <=> p \in T
  BY <1>1 DEF Own
<1>3. n \in U <=> Accepts(f, num)
  BY <1>1 DEF Own
<1>4. Len(bits) = Count(T, 0, n) /\ Len(bits) \in Nat
  BY DEF HoldsIts
<1>5. ASSUME NEW p \in 0..(n-1), p \in T
      PROVE  Count(T, 0, p) \in 0..(Len(bits) - 1) /\ bits[Count(T, 0, p) + 1] = BitFor(f, s[p + 1])
  BY <1>1, <1>4, <1>5, OwnPlace DEF HoldsIts
<1>. HIDE DEF T, U
<1>6. ASSUME NEW p \in 0..n PROVE Count(U, 0, p) = Count(T, 0, p)
  <2>1. \A x \in 0..(p-1) : x \in U <=> x \in T
    BY <1>1, <1>2
  <2>2. p \in Int /\ 0 \in Int
    BY <1>1
  <2>. QED  BY <2>1, <2>2, CountSame
<1>7. Count(U, 0, n + 1) = Count(U, 0, n) + (IF n \in U THEN 1 ELSE 0)
  <2>1. n \in Int /\ 0 <= n
    BY <1>1
  <2>. HIDE DEF n
  <2>. QED  BY <2>1, CountStep
<1>8. Len(grown) = Count(U, 0, n + 1)
  <2>1. Count(U, 0, n) = Count(T, 0, n)
    BY <1>1, <1>6
  <2>2. Len(Append(bits, BitFor(f, num))) = Len(bits) + 1
    BY DEF BitFor
  <2>. QED  BY <1>3, <1>4, <1>7, <2>1, <2>2
<1>9. ASSUME NEW p \in 0..n, p \in U
      PROVE  grown[Count(U, 0, p) + 1] = BitFor(f, t[p + 1])
  <2>1. Count(U, 0, p) = Count(T, 0, p)
    BY <1>6
  <2>2. CASE p = n
    <3>1. Accepts(f, num) /\ t[p + 1] = num
      BY <1>1, <1>3, <1>9, <2>2
    <3>2. Append(bits, BitFor(f, num))[Len(bits) + 1] = BitFor(f, num)
      BY DEF BitFor
    <3>. QED  BY <1>4, <2>1, <2>2, <3>1, <3>2
  <2>3. CASE p \in 0..(n-1)
    <3>1. p \in T /\ t[p + 1] = s[p + 1]
      BY <1>1, <1>2, <1>9, <2>3
    <3>2. Count(T, 0, p) + 1 \in 1..Len(bits)
      BY <1>4, <1>5, <2>3, <3>1
    <3>3. Append(bits, BitFor(f, num))[Count(T, 0, p) + 1] = bits[Count(T, 0, p) + 1]
      BY <3>2 DEF BitFor
    <3>. QED  BY <1>5, <2>1, <2>3, <3>1, <3>3
  <2>4. p = n \/ p \in 0..(n-1)
    BY <1>1
  <2>. QED  BY <2>2, <2>3, <2>4
<1>10. Len(t) - 1 = n
  BY <1>1
<1>. HIDE DEF grown
<1>11. \A p \in 0..(Len(t)-1) : p \in U => grown[Count(U, 0, p) + 1] = BitFor(f, t[p + 1])
  BY <1>9, <1>10
<1>12. HoldsIts(grown, t, f)
  BY <1>1, <1>8, <1>11 DEF HoldsIts, U
<1>. QED  BY <1>12 DEF grown

\* What the fragments hold does not depend on the step, as long as the width stays.
LEMMA WidthStays ==
  ASSUME width' = width, \A f \in 1..(Pow2[width] - 1) : HoldsIts(fragments'[f], source', f)
  PROVE  FragmentsHold'
<1>1. \A f : LayerOf(f)' = LayerOf(f)
  BY DEF LayerOf
<1>2. \A f : Increment(f)' = Increment(f) /\ FragmentStart(f)' = FragmentStart(f)
  BY <1>1 DEF Increment, FragmentStart
<1>3. \A f : FragmentEnd(f)' = FragmentEnd(f) /\ FragmentHalf(f)' = FragmentHalf(f)
  BY <1>2 DEF FragmentEnd, FragmentHalf
<1>4. \A f, x : (Accepts(f, x)' <=> Accepts(f, x)) /\ BitFor(f, x)' = BitFor(f, x)
  BY <1>2, <1>3 DEF Accepts, BitFor
<1>5. \A f : Own(source, f)' = Own(source', f)
  BY <1>4 DEF Own
<1>6. ASSUME NEW f \in 1..(Pow2[width] - 1) PROVE HoldsIts(fragments[f], source, f)'
  <2>1. HoldsIts(fragments'[f], source', f)
    OBVIOUS
  <2>. QED  BY <1>4, <1>5, <2>1 DEF HoldsIts
<1>. QED  BY <1>6 DEF FragmentsHold

LEMMA InitInv == Init => IInv
<1>. SUFFICES ASSUME Init PROVE IInv
  OBVIOUS
<1>1. WidthOK /\ width \in Widths /\ MaxLen \in Nat
  BY WidthsAssumption DEF Init, WidthOK
<1>2. source = <<>> /\ Len(source) = 0 /\ source \in Seq(Values)
  BY DEF Init
<1>3. fragments \in [1..(Pow2[width] - 1) -> Seq({0, 1})]
  BY DEF Init
<1>4. ASSUME NEW f \in 1..(Pow2[width] - 1) PROVE HoldsIts(fragments[f], source, f)
  <2>1. fragments[f] = <<>> /\ Len(fragments[f]) = 0
    BY DEF Init
  <2>2. Count(Own(source, f), 0, 0) = 0
    BY CountNone
  <2>. QED  BY <1>2, <2>1, <2>2 DEF HoldsIts
<1>. QED  BY <1>1, <1>2, <1>3, <1>4 DEF Init, IInv, Typed, FragmentsHold

LEMMA NextInv == IInv /\ [Next]_vars => IInv'
<1>. SUFFICES ASSUME IInv, [Next]_vars PROVE IInv'
  OBVIOUS
<1>1. Typed /\ FragmentsHold /\ WidthOK
  BY WidthIs DEF IInv
<1>2. ASSUME NEW num \in 0..(Pow2[width] - 1), PushToFragments(num) PROVE IInv'
  <2>. DEFINE touched == {f \in {FragmentFor(num, i) : i \in 0..(width-1)} : Accepts(f, num)}
  <2>1. /\ phase = "reading" /\ phase' = "reading" /\ width' = width
        /\ source' = Append(source, num) /\ Len(source) < MaxLen
        /\ num \in Values
    BY <1>2 DEF PushToFragments, Values
  <2>2. fragments' = [f \in DOMAIN fragments |->
                        IF f \in touched THEN Append(fragments[f], BitFor(f, num))
                        ELSE fragments[f]]
    BY <1>2 DEF PushToFragments
  <2>3. \A f \in 1..(Pow2[width] - 1) : f \in touched <=> Accepts(f, num)
    BY <1>1, <2>1, FragmentForIs
  <2>. HIDE DEF touched
  <2>4. \A f \in 1..(Pow2[width] - 1) :
          fragments'[f] = IF Accepts(f, num) THEN Append(fragments[f], BitFor(f, num))
                          ELSE fragments[f]
    BY <1>1, <2>2, <2>3 DEF Typed
  <2>5. fragments' \in [1..(Pow2[width] - 1) -> Seq({0, 1})]
    <3>1. DOMAIN fragments = 1..(Pow2[width] - 1)
          /\ \A f \in 1..(Pow2[width] - 1) : fragments[f] \in Seq({0, 1})
      BY <1>1 DEF Typed
    <3>2. ASSUME NEW f \in 1..(Pow2[width] - 1) PROVE fragments'[f] \in Seq({0, 1})
      <4>1. fragments[f] \in Seq({0, 1}) /\ BitFor(f, num) \in {0, 1}
        BY <3>1 DEF BitFor
      <4>2. Append(fragments[f], BitFor(f, num)) \in Seq({0, 1})
        BY <4>1
      <4>. QED  BY <2>4, <4>1, <4>2
    <3>. QED  BY <2>2, <3>1, <3>2
  <2>6. source' \in Seq(Values) /\ Len(source') <= MaxLen
    BY <1>1, <2>1, WidthsAssumption DEF Typed
  <2>7. Values' = Values
    BY <2>1 DEF Values
  <2>8. Typed'
    BY <1>1, <2>1, <2>5, <2>6, <2>7 DEF Typed
  <2>9. \A f \in 1..(Pow2[width] - 1) : HoldsIts(fragments'[f], source', f)
    <3>. SUFFICES ASSUME NEW f \in 1..(Pow2[width] - 1) PROVE HoldsIts(fragments'[f], source', f)
      OBVIOUS
    <3>1. /\ HoldsIts(fragments[f], source, f)
          /\ fragments[f] \in Seq({0, 1}) /\ source \in Seq(Values)
      BY <1>1 DEF FragmentsHold, Typed
    <3>. QED  BY <2>1, <2>4, <3>1, FragmentGrows
  <2>10. FragmentsHold'
    BY <2>1, <2>9, WidthStays
  <2>. QED  BY <2>1, <2>8, <2>10 DEF IInv
<1>3. ASSUME Finalize PROVE IInv'
  <2>1. /\ width' = width /\ fragments' = fragments /\ source' = source /\ phase' = "built"
        /\ index' = BuildIndex(FlattenSeq(fragments))
    BY <1>3 DEF Finalize
  <2>2. Typed'
    BY <1>1, <2>1 DEF Typed, Values
  <2>3. FragmentsHold'
    BY <1>1, <2>1, WidthStays DEF FragmentsHold
  <2>. QED  BY <2>1, <2>2, <2>3 DEF IInv
<1>4. ASSUME UNCHANGED vars PROVE IInv'
  <2>1. /\ width' = width /\ fragments' = fragments /\ source' = source /\ phase' = phase
        /\ index' = index
    BY <1>4 DEF vars
  <2>2. Typed'
    BY <1>1, <2>1 DEF Typed, Values
  <2>3. FragmentsHold'
    BY <1>1, <2>1, WidthStays DEF FragmentsHold
  <2>. QED  BY <2>1, <2>2, <2>3 DEF IInv
<1>. QED  BY <1>2, <1>3, <1>4 DEF Next

LEMMA Invariant == Spec => []IInv
BY InitInv, NextInv, PTL DEF Spec

\* The builder's fragments stay bits, one fragment for every range of values.
THEOREM TypeCorrect == Spec => []TypeOK
<1>1. IInv => TypeOK
  BY DEF IInv, Typed, TypeOK, Values
<1>. QED  BY <1>1, Invariant, PTL

-----------------------------------------------------------------------------
(* The bits of the tree.                                                   *)

N    == Len(source)
Bits == FlattenSeq(fragments)

\* The places of the numbers in a range, and how many are below one.
In(low, high) == {p \in Nat : p < N /\ low <= source[p + 1] /\ source[p + 1] < high}
Below(x)      == Count(In(0, x), 0, N)

\* Where the bits of a fragment begin.
Offset == [f \in 1..(Pow2[width] - 1 + 1) |->
             IF f = Pow2[width] THEN width * N ELSE LayerOf(f) * N + Below(FragmentStart(f))]

LEMMA SourceIs ==
  ASSUME Typed
  PROVE  N \in Nat /\ \A p \in 0..(N-1) : source[p + 1] \in Values /\ source[p + 1] \in Nat
<1>1. source \in Seq(Values) /\ N \in Nat
  BY DEF Typed, N
<1>2. ASSUME NEW p \in 0..(N-1) PROVE source[p + 1] \in Values
  <2>1. p + 1 \in 1..Len(source)
    BY <1>1 DEF N
  <2>. QED  BY <1>1, <2>1
<1>3. Values \subseteq Nat
  BY WidthIs, SizeIs DEF Values
<1>. QED  BY <1>1, <1>2, <1>3

\* Two ranges that meet.
LEMMA InParts ==
  ASSUME Typed, NEW low \in Nat, NEW mid \in Nat, NEW high \in Nat, low <= mid, mid <= high,
         NEW q \in Nat
  PROVE  Count(In(low, high), 0, q) = Count(In(low, mid), 0, q) + Count(In(mid, high), 0, q)
<1>. DEFINE A == In(low, mid) \cap (0..(q-1))
            C == In(mid, high) \cap (0..(q-1))
            U == In(low, high) \cap (0..(q-1))
<1>1. N \in Nat /\ \A p \in 0..(N-1) : source[p + 1] \in Nat
  BY SourceIs
<1>2. \A p \in Nat : /\ p \in In(low, high) <=> (p \in In(low, mid) \/ p \in In(mid, high))
                     /\ ~(p \in In(low, mid) /\ p \in In(mid, high))
  <2>. SUFFICES ASSUME NEW p \in Nat, p < N
                PROVE  /\ p \in In(low, high) <=> (p \in In(low, mid) \/ p \in In(mid, high))
                       /\ ~(p \in In(low, mid) /\ p \in In(mid, high))
    BY DEF In
  <2>1. source[p + 1] \in Nat
    BY <1>1
  <2>. QED  BY <1>1, <2>1 DEF In
<1>3. U = A \cup C /\ A \cap C = {}
  BY <1>2 DEF In
<1>4. IsFiniteSet(A) /\ IsFiniteSet(C) /\ Cardinality(A) \in Nat /\ Cardinality(C) \in Nat
  <2>1. ASSUME NEW T PROVE IsFiniteSet(T \cap (0..(q-1)))
    BY CountFinite
  <2>2. IsFiniteSet(A) /\ IsFiniteSet(C)
    BY <2>1
  <2>. HIDE DEF A, C
  <2>. QED  BY <2>2, FS_CardinalityType
<1>. HIDE DEF A, C, U
<1>5. Cardinality(A \cup C) = Cardinality(A) + Cardinality(C) - Cardinality(A \cap C)
  BY <1>4, FS_Union
<1>6. Cardinality(A \cap C) = 0
  BY <1>3, FS_EmptySet
<1>7. Cardinality(U) = Cardinality(A) + Cardinality(C)
  BY <1>3, <1>4, <1>5, <1>6
<1>. QED  BY <1>7 DEF Count, A, C, U

LEMMA BelowIs ==
  ASSUME Typed
  PROVE  /\ Below(0) = 0 /\ Below(Pow2[width]) = N
         /\ \A low, high \in Nat : low <= high =>
              /\ Below(high) = Below(low) + Count(In(low, high), 0, N)
              /\ Below(low) \in Nat /\ Below(high) \in Nat /\ Below(low) <= Below(high)
              /\ Below(high) <= N
<1>1. N \in Nat /\ \A p \in 0..(N-1) : source[p + 1] \in Values /\ source[p + 1] \in Nat
  BY SourceIs
<1>2. Below(0) = 0
  <2>1. \A p \in 0..(N-1) : p \notin In(0, 0)
    BY <1>1 DEF In
  <2>. QED  BY <1>1, <2>1, CountNone DEF Below
<1>3. Below(Pow2[width]) = N
  <2>1. \A p \in 0..(N-1) : p \in In(0, Pow2[width])
    BY <1>1, WidthIs, SizeIs DEF In, Values
  <2>. QED  BY <1>1, <2>1, CountAll DEF Below
<1>4. ASSUME NEW low \in Nat, NEW high \in Nat, low <= high
      PROVE  /\ Below(high) = Below(low) + Count(In(low, high), 0, N)
             /\ Below(low) \in Nat /\ Below(high) \in Nat /\ Below(low) <= Below(high)
             /\ Below(high) <= N
  <2>1. Count(In(0, high), 0, N) = Count(In(0, low), 0, N) + Count(In(low, high), 0, N)
    <3>. DEFINE zero == 0
    <3>1. zero \in Nat /\ zero <= low
      OBVIOUS
    <3>. HIDE DEF zero
    <3>2. Count(In(zero, high), 0, N) = Count(In(zero, low), 0, N) + Count(In(low, high), 0, N)
      BY <1>1, <1>4, <3>1, InParts
    <3>. QED  BY <3>2 DEF zero
  <2>2. Count(In(0, low), 0, N) \in Nat /\ Count(In(low, high), 0, N) \in Nat
        /\ Count(In(0, high), 0, N) \in Nat
    BY <1>1, CountType
  <2>3. Count(In(0, high), 0, N) <= N
    <3>1. Count(In(0, high), 0, N) \in 0..(N - 0)
      BY <1>1, CountBounded
    <3>. QED  BY <1>1, <3>1
  <2>. QED  BY <2>1, <2>2, <2>3 DEF Below
<1>. QED  BY <1>2, <1>3, <1>4

LEMMA OwnIs == \A f : Own(source, f) = In(FragmentStart(f), FragmentEnd(f))
BY DEF Own, In, Accepts, N

LEMMA OffsetsAre ==
  ASSUME Typed, FragmentsHold
  PROVE  Offsets(Offset, fragments, Pow2[width] - 1)
<1>. DEFINE last == Pow2[width] - 1
<1>1. WidthOK /\ width \in Nat \ {0} /\ N \in Nat /\ last \in Nat /\ last + 1 = Pow2[width]
      /\ Pow2[width] \in Nat \ {0}
  BY WidthIs, SourceIs, SizeIs DEF WidthOK
<1>2. ASSUME NEW i \in 0..(width-1), NEW k \in 0..(Pow2[i] - 1)
      PROVE  /\ Offset[Pow2[i] + k] = i * N + Below(k * Size(i))
             /\ Below(k * Size(i)) \in Nat /\ Pow2[i] + k \in 1..last
             /\ Len(fragments[Pow2[i] + k]) = Count(In(k * Size(i), k * Size(i) + Size(i)), 0, N)
             /\ Below(k * Size(i) + Size(i)) = Below(k * Size(i)) + Len(fragments[Pow2[i] + k])
  <2>. DEFINE f == Pow2[i] + k
              a == k * Size(i)
              c == a + Size(i)
  <2>1. /\ f \in 1..last /\ LayerOf(f) = i /\ FragmentStart(f) = a /\ FragmentEnd(f) = c
    BY <1>1, FragmentIs
  <2>2. Size(i) \in Nat /\ k \in Nat
    BY <1>1, SizeIs
  <2>3. a \in Nat /\ c \in Nat /\ a <= c
    BY <2>2
  <2>. HIDE DEF f, a
  <2>4. Offset[f] = i * N + Below(a)
    BY <1>1, <2>1 DEF Offset
  <2>5. Len(fragments[f]) = Count(In(a, c), 0, N)
    BY <2>1, OwnIs DEF FragmentsHold, HoldsIts, N
  <2>6. Below(a) \in Nat /\ Below(c) = Below(a) + Count(In(a, c), 0, N)
    <3>. HIDE DEF c
    <3>. QED  BY <2>3, BelowIs
  <2>. QED  BY <2>1, <2>4, <2>5, <2>6 DEF f, a
<1>3. Offset[1] = 0
  <2>1. 0 \in 0..(width-1) /\ 0 \in 0..(Pow2[0] - 1) /\ Pow2[0] = 1 /\ 1 + 0 = 1
    BY <1>1, Pow2Is
  <2>2. Offset[Pow2[0] + 0] = 0 * N + Below(0 * Size(0)) /\ Size(0) \in Nat
    BY <1>1, <1>2, <2>1, SizeIs
  <2>3. 0 * N = 0 /\ 0 * Size(0) = 0 /\ Pow2[0] + 0 = 1
    BY <1>1, <2>1, <2>2
  <2>4. Offset[1] = 0 + Below(0)
    BY <2>2, <2>3
  <2>5. Below(0) = 0
    BY BelowIs
  <2>. QED  BY <2>4, <2>5
<1>4. ASSUME NEW f \in 1..last
      PROVE  Offset[f + 1] = Offset[f] + Len(fragments[f]) /\ Offset[f] \in Nat
  <2>1. PICK i \in 0..(width-1) : \E k \in 0..(Pow2[i] - 1) : f = Pow2[i] + k
    BY <1>1, FragmentOf
  <2>2. PICK k \in 0..(Pow2[i] - 1) : f = Pow2[i] + k
    BY <2>1
  <2>. DEFINE d == Size(i)
  <2>3. /\ i \in Nat /\ k \in Nat /\ d \in Nat \ {0} /\ Pow2[i] \in Nat \ {0}
        /\ Pow2[i + 1] = 2 * Pow2[i] /\ Pow2[i] * d = Pow2[width] /\ i + 1 <= width
    BY <1>1, SizeIs, Pow2Positive, Pow2Is
  <2>4. /\ Offset[f] = i * N + Below(k * d) /\ Below(k * d) \in Nat
        /\ Below(k * d + d) = Below(k * d) + Len(fragments[f])
    BY <1>2, <2>2
  <2>. HIDE DEF d
  <2>5. i * N \in Nat /\ (i + 1) * N = i * N + N
    BY <1>1, <2>3
  <2>. DEFINE base == i * N
  <2>. HIDE DEF base
  <2>6. Offset[f] \in Nat /\ Offset[f] + Len(fragments[f]) = i * N + Below(k * d + d)
    <3>1. Len(fragments[f]) \in Nat
      BY <2>2, <1>1, <1>2 DEF Typed
    <3>. QED  BY <2>4, <2>5, <3>1 DEF base
  <2>7. (k + 1) * d = k * d + d
    BY <2>3
  <2>8. CASE k + 1 < Pow2[i]
    <3>1. k + 1 \in 0..(Pow2[i] - 1) /\ f + 1 = Pow2[i] + (k + 1)
      BY <2>2, <2>3, <2>8
    <3>2. Offset[f + 1] = i * N + Below((k + 1) * d)
      BY <1>2, <3>1 DEF d
    <3>. QED  BY <2>6, <2>7, <3>2
  <2>9. CASE k + 1 = Pow2[i]
    <3>1. f + 1 = Pow2[i + 1] /\ f + 1 = Pow2[i + 1] + 0
      BY <2>2, <2>3, <2>9
    <3>2. Below(k * d + d) = N
      BY <2>3, <2>7, <2>9, BelowIs
    <3>3. CASE i + 1 = width
      <4>1. Offset[f + 1] = width * N
        BY <1>1, <3>1, <3>3 DEF Offset
      <4>. QED  BY <2>5, <2>6, <3>2, <3>3, <4>1
    <3>4. CASE i + 1 < width
      <4>. DEFINE j == i + 1
      <4>1. j \in 0..(width-1) /\ Pow2[j] \in Nat \ {0} /\ 0 \in 0..(Pow2[j] - 1)
            /\ Size(j) \in Nat /\ 0 * Size(j) = 0
        BY <1>1, <2>3, <3>4, Pow2Positive, SizeIs
      <4>2. Offset[Pow2[j] + 0] = j * N + Below(0 * Size(j))
        <5>. HIDE DEF j
        <5>. QED  BY <1>2, <4>1
      <4>3. Offset[f + 1] = j * N + 0
        BY <3>1, <4>1, <4>2, BelowIs
      <4>. QED  BY <1>1, <2>5, <2>6, <3>2, <4>3
    <3>. QED  BY <1>1, <2>3, <3>3, <3>4
  <2>. QED  BY <2>3, <2>6, <2>8, <2>9
<1>5. Offset \in [1..(last + 1) -> Nat]
  <2>1. Offset[Pow2[width]] = width * N /\ width * N \in Nat
    BY <1>1 DEF Offset
  <2>2. \A f \in 1..(last + 1) : f \in 1..last \/ f = Pow2[width]
    BY <1>1
  <2>3. \A f \in 1..(last + 1) : Offset[f] \in Nat
    BY <1>4, <2>1, <2>2
  <2>. QED  BY <2>3 DEF Offset
<1>. QED  BY <1>3, <1>4, <1>5 DEF Offsets

\* The members of a node, its range in the bits, and the halves it is sifted into.
Members(e, i)    == In(Low(e, i), High(e, i))
First(e, i)      == i * N + Below(Low(e, i))
Behind(e, i)     == i * N + Below(High(e, i))
Place(e, i, p)   == First(e, i) + Count(Members(e, i), 0, p)
Child(e, i, bit) == IF bit = 1 THEN In(Half(e, i), High(e, i)) ELSE In(Low(e, i), Half(e, i))

LEMMA BitsAre ==
  ASSUME Typed, FragmentsHold
  PROVE  /\ Pow2[width] - 1 \in Nat \ {0}
         /\ HoldsAll(Bits, {0, 1}, Offset, fragments, Pow2[width] - 1)
         /\ Bits \in Seq({0, 1}) /\ Len(Bits) = width * N /\ width * N \in Nat
<1>. DEFINE last == Pow2[width] - 1
<1>1. last \in Nat \ {0} /\ last + 1 = Pow2[width] /\ WidthOK /\ N \in Nat /\ width \in Nat
  <2>1. width < Pow2[width] /\ width \in Nat \ {0} /\ Pow2[width] \in Nat
    BY WidthIs, SizeIs, Pow2Above DEF WidthOK
  <2>. QED  BY <2>1, WidthIs, SourceIs
<1>2. fragments \in [1..last -> Seq({0, 1})] /\ Offsets(Offset, fragments, last)
  BY OffsetsAre DEF Typed
<1>. HIDE DEF last
<1>3. HoldsAll(Bits, {0, 1}, Offset, fragments, last)
  BY <1>1, <1>2, FlattenIs DEF Bits
<1>4. Offset[last + 1] = width * N
  BY <1>1 DEF Offset, last
<1>5. Bits \in Seq({0, 1}) /\ Len(Bits) = width * N
  BY <1>3, <1>4 DEF HoldsAll
<1>. QED  BY <1>1, <1>3, <1>5 DEF last

\* The range of a node lies in the bits.
LEMMA NodeRange ==
  ASSUME Typed, FragmentsHold, NEW e \in Values, NEW i \in 0..(width-1)
  PROVE  /\ First(e, i) \in Nat /\ Behind(e, i) \in Nat
         /\ First(e, i) <= Behind(e, i) /\ Behind(e, i) <= Len(Bits)
         /\ Place(e, i, 0) = First(e, i) /\ Place(e, i, N) = Behind(e, i)
         /\ \A p \in 0..N : Place(e, i, p) \in First(e, i)..Behind(e, i)
         /\ \A p \in 0..(N-1) : p \in Members(e, i) => Place(e, i, p) < Behind(e, i)
<1>. DEFINE low == Low(e, i)
            high == High(e, i)
            T == Members(e, i)
<1>1. /\ N \in Nat /\ i \in Nat /\ i + 1 <= width /\ width \in Nat /\ Len(Bits) = width * N
  BY WidthIs, SourceIs, BitsAre DEF WidthOK
<1>2. low \in Nat /\ high \in Nat /\ low <= high
  <2>1. i \in 0..width /\ WidthOK
    BY <1>1, WidthIs
  <2>2. Low(e, i) \in Nat /\ High(e, i) \in Nat /\ Low(e, i) <= e /\ e < High(e, i)
    BY <2>1, NodeHolds
  <2>3. e \in Nat
    BY SizeIs, WidthIs DEF Values
  <2>. QED  BY <2>2, <2>3
<1>3. /\ Below(high) = Below(low) + Count(T, 0, N)
      /\ Below(low) \in Nat /\ Below(high) \in Nat /\ Below(low) <= Below(high)
      /\ Below(high) <= N
  <2>. HIDE DEF low, high
  <2>1. T = In(low, high)
    BY DEF Members, low, high
  <2>. QED  BY <1>2, <2>1, BelowIs
<1>4. i * N \in Nat /\ (i + 1) * N = i * N + N /\ (i + 1) * N <= width * N
  <2>1. i + 1 \in Int /\ width \in Int /\ N \in Nat
    BY <1>1
  <2>2. (i + 1) * N <= width * N
    BY <1>1, <2>1, MulMonotonic
  <2>. QED  BY <1>1, <2>2
<1>5. First(e, i) = i * N + Below(low) /\ Behind(e, i) = i * N + Below(high)
  BY DEF First, Behind
<1>6. \A p : Place(e, i, p) = First(e, i) + Count(T, 0, p)
  BY DEF Place
<1>. HIDE DEF low, high, T
<1>. DEFINE base == i * N
            end  == width * N
<1>. HIDE DEF base, end
<1>7. /\ First(e, i) \in Nat /\ Behind(e, i) \in Nat
      /\ Behind(e, i) = First(e, i) + Count(T, 0, N)
      /\ First(e, i) <= Behind(e, i) /\ Behind(e, i) <= Len(Bits)
  <2>1. base \in Nat /\ base + N <= end /\ Len(Bits) = end
    BY <1>1, <1>4 DEF base, end
  <2>2. First(e, i) = base + Below(low) /\ Behind(e, i) = base + Below(high)
    BY <1>5 DEF base
  <2>3. Count(T, 0, N) \in Nat
    BY <1>1, CountType
  <2>. QED  BY <1>1, <1>3, <2>1, <2>2, <2>3
<1>8. Count(T, 0, 0) = 0
  BY CountNone
<1>9. ASSUME NEW p \in 0..N
      PROVE  Count(T, 0, p) \in Nat /\ Count(T, 0, p) <= Count(T, 0, N)
  <2>1. p \in Int /\ N \in Int /\ 0 <= p /\ p <= N /\ 0 \in Int
    BY <1>1
  <2>. QED  BY <2>1, CountType, CountGrows
<1>10. ASSUME NEW p \in 0..(N-1), p \in T PROVE Count(T, 0, p) < Count(T, 0, N)
  <2>1. p \in Int /\ 0 <= p /\ p + 1 \in 0..N /\ 0 \in Int /\ p \in 0..N
    BY <1>1
  <2>2. Count(T, 0, p + 1) = Count(T, 0, p) + 1
    BY <1>10, <2>1, CountStep
  <2>3. Count(T, 0, p + 1) <= Count(T, 0, N) /\ Count(T, 0, p) \in Nat /\ Count(T, 0, N) \in Nat
    BY <1>1, <1>9, <2>1, CountType
  <2>. QED  BY <2>2, <2>3
<1>11. Place(e, i, 0) = First(e, i) /\ Place(e, i, N) = Behind(e, i)
  BY <1>6, <1>7, <1>8
<1>12. ASSUME NEW p \in 0..N PROVE Place(e, i, p) \in First(e, i)..Behind(e, i)
  <2>1. Count(T, 0, N) \in Nat /\ Count(T, 0, p) \in Nat /\ Count(T, 0, p) <= Count(T, 0, N)
    BY <1>1, <1>9, CountType
  <2>. QED  BY <1>6, <1>7, <2>1
<1>13. ASSUME NEW p \in 0..(N-1), p \in T PROVE Place(e, i, p) < Behind(e, i)
  <2>1. p \in 0..N
    BY <1>1
  <2>2. Count(T, 0, p) \in Nat /\ Count(T, 0, N) \in Nat
    BY <1>1, <1>9, <2>1, CountType
  <2>. QED  BY <1>6, <1>7, <1>10, <1>13, <2>2
<1>. QED  BY <1>7, <1>11, <1>12, <1>13 DEF T

\* A number has its bit in the node at every layer: whether it is in the upper half.
LEMMA NodeBit ==
  ASSUME Typed, FragmentsHold, NEW e \in Values, NEW i \in 0..(width-1),
         NEW p \in 0..(N-1), p \in Members(e, i)
  PROVE  Bits[Place(e, i, p) + 1] = IF source[p + 1] >= Half(e, i) THEN 1 ELSE 0
<1>. DEFINE k == NodeOf(e, i)
            f == Pow2[i] + k
            c == Count(Members(e, i), 0, p)
<1>1. WidthOK /\ i \in 0..width /\ k \in 0..(Pow2[i] - 1) /\ N \in Nat
  <2>1. WidthOK /\ i \in 0..width
    BY WidthIs DEF WidthOK
  <2>. QED  BY <2>1, NodeHolds, SourceIs
<1>2. /\ f \in 1..(Pow2[width] - 1) /\ LayerOf(f) = i
      /\ FragmentStart(f) = Low(e, i) /\ FragmentEnd(f) = High(e, i)
      /\ FragmentHalf(f) = Half(e, i)
  BY <1>1, FragmentIs DEF Low, High, Half
<1>. HIDE DEF k, f
<1>3. Own(source, f) = Members(e, i)
  BY <1>2, OwnIs DEF Members
<1>4. HoldsIts(fragments[f], source, f)
  BY <1>2 DEF FragmentsHold
<1>5. fragments[f][c + 1] = BitFor(f, source[p + 1])
  BY <1>3, <1>4 DEF HoldsIts, N
<1>6. c + 1 \in 1..Len(fragments[f])
  <2>1. Len(source) \in Nat /\ p \in 0..(Len(source)-1)
    BY <1>1 DEF N
  <2>2. c \in 0..(Count(Own(source, f), 0, Len(source)) - 1)
    BY <1>3, <2>1, OwnPlace
  <2>3. Len(fragments[f]) = Count(Own(source, f), 0, Len(source))
    BY <1>4 DEF HoldsIts
  <2>4. Count(Own(source, f), 0, Len(source)) \in Nat
    BY <2>1, CountType
  <2>. HIDE DEF c
  <2>. QED  BY <2>2, <2>3, <2>4
<1>7. Bits[Offset[f] + (c + 1)] = fragments[f][c + 1]
  <2>1. HoldsAll(Bits, {0, 1}, Offset, fragments, Pow2[width] - 1)
    BY BitsAre
  <2>. HIDE DEF c
  <2>. QED  BY <1>2, <1>6, <2>1 DEF HoldsAll
<1>8. Offset[f] = First(e, i)
  <2>1. Pow2[width] \in Nat /\ f # Pow2[width] /\ f \in 1..(Pow2[width] - 1 + 1)
    BY <1>1, <1>2, SizeIs
  <2>. QED  BY <1>2, <2>1 DEF Offset, First
<1>9. First(e, i) \in Nat /\ c \in Nat
  BY NodeRange, CountType
<1>10. Offset[f] + (c + 1) = Place(e, i, p) + 1
  <2>1. Place(e, i, p) = First(e, i) + c
    BY DEF Place
  <2>. HIDE DEF c
  <2>. QED  BY <1>8, <1>9, <2>1
<1>. QED  BY <1>2, <1>5, <1>7, <1>10 DEF BitFor

\* Of the members of T, which come one after another from first on, R are in U.
Sifts(T, U, R, first, n) ==
  /\ \A p \in 0..(n-1) : p \in R => p \in T
  /\ \A p \in 0..(n-1) : p \in T => (first + Count(T, 0, p) \in U <=> p \in R)

LEMMA Sifted ==
  ASSUME NEW T, NEW U, NEW R, NEW first \in Int, NEW n \in Nat, Sifts(T, U, R, first, n),
         NEW q \in 0..n
  PROVE  Count(U, first, first + Count(T, 0, q)) = Count(R, 0, q)
<1>. DEFINE at(p) == first + Count(T, 0, p)
            G == {p \in Nat : p <= n => Count(U, first, at(p)) = Count(R, 0, p)}
<1>1. 0 \in G
  <2>1. Count(T, 0, 0) = 0 /\ Count(R, 0, 0) = 0
    BY CountNone
  <2>2. at(0) = first
    BY <2>1
  <2>3. Count(U, first, first) = 0
    BY CountNone
  <2>. HIDE DEF at
  <2>. QED  BY <2>1, <2>2, <2>3
<1>2. ASSUME NEW p \in Nat, p \in G PROVE p + 1 \in G
  <2>. SUFFICES ASSUME p + 1 <= n PROVE Count(U, first, at(p + 1)) = Count(R, 0, p + 1)
    OBVIOUS
  <2>1. /\ p \in Int /\ 0 <= p /\ 0 \in Int /\ p \in 0..(n-1)
        /\ Count(U, first, at(p)) = Count(R, 0, p)
    BY <1>2
  <2>2. Count(T, 0, p) \in Nat
    BY <2>1, CountType
  <2>3. at(p) \in Int /\ first <= at(p)
    BY <2>2
  <2>4. Count(T, 0, p + 1) = Count(T, 0, p) + (IF p \in T THEN 1 ELSE 0)
        /\ Count(R, 0, p + 1) = Count(R, 0, p) + (IF p \in R THEN 1 ELSE 0)
    BY <2>1, CountStep
  <2>5. Count(R, 0, p) \in Nat
    BY <2>1, CountType
  <2>6. CASE p \in T
    <3>1. at(p + 1) = at(p) + 1
      BY <2>2, <2>4, <2>6
    <3>2. at(p) \in U <=> p \in R
      BY <2>1, <2>6 DEF Sifts
    <3>. HIDE DEF at
    <3>3. Count(U, first, at(p) + 1) = Count(U, first, at(p)) + (IF at(p) \in U THEN 1 ELSE 0)
      BY <2>3, CountStep
    <3>. QED  BY <2>1, <2>4, <3>1, <3>2, <3>3
  <2>7. CASE p \notin T
    <3>1. at(p + 1) = at(p) /\ p \notin R
      BY <2>1, <2>2, <2>4, <2>7 DEF Sifts
    <3>. HIDE DEF at
    <3>. QED  BY <2>1, <2>4, <2>5, <3>1
  <2>. QED  BY <2>6, <2>7
<1>. HIDE DEF G
<1>3. q \in G
  BY <1>1, <1>2, Induct
<1>. QED  BY <1>3 DEF G

LEMMA NodeSifts ==
  ASSUME Typed, FragmentsHold, NEW e \in Values, NEW i \in 0..(width-1), NEW bit \in {0, 1}
  PROVE  Sifts(Members(e, i), Sought(Bits, bit), Child(e, i, bit), First(e, i), N)
<1>1. N \in Nat /\ \A p \in 0..(N-1) : source[p + 1] \in Nat
  BY SourceIs
<1>2. /\ Low(e, i) \in Nat /\ High(e, i) \in Nat /\ Half(e, i) \in Nat
      /\ Low(e, i) <= Half(e, i) /\ Half(e, i) <= High(e, i)
  <2>1. WidthOK /\ i \in 0..width
    BY WidthIs DEF WidthOK
  <2>. QED  BY <2>1, NodeHolds, NodeHalves
<1>3. ASSUME NEW p \in 0..(N-1)
      PROVE  p \in Child(e, i, bit)
               <=> (p \in Members(e, i) /\ bit = (IF source[p + 1] >= Half(e, i) THEN 1 ELSE 0))
  <2>1. source[p + 1] \in Nat /\ p \in Nat /\ p < N
    BY <1>1
  <2>. QED  BY <1>2, <2>1 DEF Child, Members, In
<1>4. ASSUME NEW p \in 0..(N-1), p \in Members(e, i)
      PROVE  Place(e, i, p) \in Sought(Bits, bit) <=> p \in Child(e, i, bit)
  <2>1. Place(e, i, p) \in 0..(Len(Bits)-1)
    <3>1. p \in 0..N
      BY <1>1
    <3>2. /\ First(e, i) \in Nat /\ Behind(e, i) \in Nat /\ Behind(e, i) <= Len(Bits)
          /\ Place(e, i, p) \in First(e, i)..Behind(e, i) /\ Place(e, i, p) < Behind(e, i)
      BY <1>4, <3>1, NodeRange
    <3>3. Len(Bits) \in Nat
      BY BitsAre
    <3>. QED  BY <3>2, <3>3
  <2>2. Place(e, i, p) \in Sought(Bits, bit) <=> Bits[Place(e, i, p) + 1] = bit
    BY <2>1, BitsAre, SoughtIn
  <2>3. Bits[Place(e, i, p) + 1] = IF source[p + 1] >= Half(e, i) THEN 1 ELSE 0
    BY <1>4, NodeBit
  <2>. QED  BY <1>3, <1>4, <2>2, <2>3
<1>. QED  BY <1>3, <1>4 DEF Sifts, Place

\* The ranks in a node count what its halves are given.
LEMMA NodeRank ==
  ASSUME Typed, FragmentsHold, NEW e \in Values, NEW i \in 0..(width-1), NEW bit \in {0, 1},
         NEW p \in 0..N
  PROVE  RankFromRange(BuildIndex(Bits), bit, First(e, i), Place(e, i, p))
           = Count(Child(e, i, bit), 0, p)
<1>. DEFINE a == First(e, i)
            b == Place(e, i, p)
<1>1. /\ a \in 0..b /\ b \in 0..Len(Bits) /\ Bits \in Seq({0, 1}) /\ N \in Nat
      /\ Len(Bits) \in Nat
  <2>1. /\ First(e, i) \in Nat /\ Behind(e, i) \in Nat /\ Behind(e, i) <= Len(Bits)
        /\ Place(e, i, p) \in First(e, i)..Behind(e, i)
    BY NodeRange
  <2>2. Len(Bits) \in Nat /\ Bits \in Seq({0, 1}) /\ N \in Nat
    BY BitsAre, SourceIs
  <2>. QED  BY <2>1, <2>2
<1>2. b = a + Count(Members(e, i), 0, p)
  BY DEF Place
<1>. HIDE DEF a, b
<1>3. RankFromRange(BuildIndex(Bits), bit, a, b) = Count(BitsAt(Bits, bit), a, b)
  BY <1>1, RankInRange
<1>4. Count(BitsAt(Bits, bit), a, b) = Count(Sought(Bits, bit), a, b)
  <2>1. \A x \in a..(b-1) : x \in BitsAt(Bits, bit) <=> x \in Sought(Bits, bit)
    <3>. SUFFICES ASSUME NEW x \in a..(b-1)
                  PROVE  x \in BitsAt(Bits, bit) <=> x \in Sought(Bits, bit)
      OBVIOUS
    <3>1. x \in 0..(Len(Bits)-1)
      BY <1>1
    <3>2. x \in Sought(Bits, bit) <=> Bits[x + 1] = bit
      BY <1>1, <3>1, SoughtIn
    <3>. QED  BY <3>1, <3>2 DEF BitsAt
  <2>2. a \in Int /\ b \in Int
    BY <1>1
  <2>. QED  BY <2>1, <2>2, CountSame
<1>5. Count(Sought(Bits, bit), a, a + Count(Members(e, i), 0, p)) = Count(Child(e, i, bit), 0, p)
  <2>1. Sifts(Members(e, i), Sought(Bits, bit), Child(e, i, bit), a, N)
    BY NodeSifts DEF a
  <2>2. a \in Int /\ N \in Nat
    BY <1>1
  <2>. QED  BY <2>1, <2>2, Sifted
<1>. QED  BY <1>2, <1>3, <1>4, <1>5 DEF a, b

-----------------------------------------------------------------------------
(* Decoding.                                                               *)

\* What decode_one knows at layer i of the number at a position, whose value is e.
Known(e, i, pos) == [low |-> Low(e, i), high |-> High(e, i),
                     start |-> Below(Low(e, i)), end |-> Below(High(e, i)),
                     offset |-> Count(Members(e, i), 0, pos)]

\* A step of decode_one, and all of them.
DecodeStep(n, i) ==
  LET first  == FullIndex(i, n.start)
      last   == FullIndex(i, n.end)
      at     == FullIndex(i, n.start + n.offset)
      middle == Middle(n.low, n.high)
      zeros  == RankFromRange(index, 0, first, last)
      ones   == RankFromRange(index, 1, first, last)
  IN  IF Get(index, at) = 1
      THEN [n EXCEPT !.low = middle, !.start = n.start + zeros,
                     !.offset = RankFromRange(index, 1, first, at + 1) - 1]
      ELSE [n EXCEPT !.high = middle, !.end = n.end - ones,
                     !.offset = RankFromRange(index, 0, first, at + 1) - 1]
Root(position) == [low |-> 0, high |-> Pow2[width], start |-> 0, end |-> TreeLen,
                   offset |-> position]
DecodesBy(node, position) ==
  node = [i \in 0..width |-> IF i = 0 THEN Root(position) ELSE DecodeStep(node[i - 1], i - 1)]

TreeIs == Typed /\ FragmentsHold /\ index = BuildIndex(Bits)

LEMMA TreeDivides ==
  ASSUME TreeIs
  PROVE  DividesIntoLayers /\ TreeLen = N
<1>1. Typed /\ FragmentsHold /\ index = BuildIndex(Bits)
  BY DEF TreeIs
<1>2. index.len = Len(Bits) /\ Bits \in Seq({0, 1}) /\ Len(Bits) = width * N
  BY <1>1, BitsAre, IndexLengths
<1>3. width \in Nat \ {0} /\ N \in Nat
  BY <1>1, WidthIs, SourceIs DEF WidthOK
<1>. DEFINE x == width * N
            r == 0
<1>4. x \in Nat /\ x = N * width + r /\ r \in 0..(width-1)
  BY <1>3
<1>. HIDE DEF x, r
<1>5. x \div width = N /\ x % width = r
  BY <1>3, <1>4, QuotientIs
<1>. QED  BY <1>2, <1>5 DEF DividesIntoLayers, TreeLen, x, r

\* What the steps of decode_one and lookup read at a node.
LEMMA NodeReads ==
  ASSUME TreeIs, NEW e \in Values, NEW i \in 0..(width-1)
  PROVE  /\ FullIndex(i, Below(Low(e, i))) = First(e, i)
         /\ FullIndex(i, Below(High(e, i))) = Behind(e, i)
         /\ Middle(Low(e, i), High(e, i)) = Half(e, i)
         /\ Below(Low(e, i)) + RankFromRange(index, 0, First(e, i), Behind(e, i))
              = Below(Half(e, i))
         /\ Below(High(e, i)) - RankFromRange(index, 1, First(e, i), Behind(e, i))
              = Below(Half(e, i))
<1>1. Typed /\ FragmentsHold /\ index = BuildIndex(Bits) /\ TreeLen = N
  BY TreeDivides DEF TreeIs
<1>2. FullIndex(i, Below(Low(e, i))) = First(e, i) /\ FullIndex(i, Below(High(e, i))) = Behind(e, i)
  BY <1>1 DEF FullIndex, First, Behind
<1>3. /\ Low(e, i) \in Nat /\ High(e, i) \in Nat /\ Half(e, i) \in Nat
      /\ Low(e, i) <= Half(e, i) /\ Half(e, i) <= High(e, i)
      /\ Middle(Low(e, i), High(e, i)) = Half(e, i)
  <2>1. WidthOK /\ i \in 0..width
    BY <1>1, WidthIs DEF WidthOK
  <2>. QED  BY <2>1, NodeHolds, NodeHalves DEF Middle
<1>4. /\ RankFromRange(index, 0, First(e, i), Behind(e, i)) = Count(In(Low(e, i), Half(e, i)), 0, N)
      /\ RankFromRange(index, 1, First(e, i), Behind(e, i)) = Count(In(Half(e, i), High(e, i)), 0, N)
  <2>1. N \in 0..N /\ Place(e, i, N) = Behind(e, i)
    BY <1>1, SourceIs, NodeRange
  <2>2. ASSUME NEW bit \in {0, 1}
        PROVE  RankFromRange(index, bit, First(e, i), Behind(e, i)) = Count(Child(e, i, bit), 0, N)
    BY <1>1, <2>1, NodeRank
  <2>. QED  BY <2>2 DEF Child
<1>5. /\ Below(Half(e, i)) = Below(Low(e, i)) + Count(In(Low(e, i), Half(e, i)), 0, N)
      /\ Below(High(e, i)) = Below(Half(e, i)) + Count(In(Half(e, i), High(e, i)), 0, N)
      /\ Below(Half(e, i)) \in Nat
  BY <1>1, <1>3, BelowIs
<1>6. Count(In(Half(e, i), High(e, i)), 0, N) \in Nat
  BY <1>1, SourceIs, CountType
<1>. QED  BY <1>2, <1>3, <1>4, <1>5, <1>6

LEMMA DecodeGoesDown ==
  ASSUME TreeIs, NEW pos \in 0..(N-1), NEW i \in 0..(width-1)
  PROVE  DecodeStep(Known(source[pos + 1], i, pos), i) = Known(source[pos + 1], i + 1, pos)
<1>. DEFINE e == source[pos + 1]
            n == Known(e, i, pos)
            c == Count(Members(e, i), 0, pos)
            first == First(e, i)
            at == Place(e, i, pos)
<1>1. Typed /\ FragmentsHold /\ index = BuildIndex(Bits) /\ TreeLen = N /\ N \in Nat
      /\ e \in Values /\ e \in Nat
  BY TreeDivides, SourceIs DEF TreeIs
<1>. HIDE DEF e
<1>2. /\ WidthOK /\ i \in 0..width /\ pos \in 0..N /\ pos + 1 \in 0..N /\ pos \in Nat
      /\ i \in Nat
  BY <1>1, WidthIs DEF WidthOK
<1>3. /\ Low(e, i) \in Nat /\ High(e, i) \in Nat /\ Half(e, i) \in Nat
      /\ Low(e, i) <= e /\ e < High(e, i)
      /\ Low(e, i) <= Half(e, i) /\ Half(e, i) <= High(e, i)
  BY <1>1, <1>2, NodeHolds, NodeHalves
<1>4. pos \in Members(e, i) /\ pos \in Child(e, i, IF e >= Half(e, i) THEN 1 ELSE 0)
  BY <1>1, <1>3 DEF Members, Child, In, e
<1>5. c \in Nat /\ at \in Nat /\ first \in Nat /\ at \in 0..(Len(Bits)-1)
      /\ at + 1 = Place(e, i, pos + 1)
  <2>1. c \in Nat
    BY <1>2, CountType
  <2>2. Count(Members(e, i), 0, pos + 1) = c + 1
    <3>1. pos \in Int /\ 0 <= pos /\ 0 \in Int
      BY <1>2
    <3>. QED  BY <1>4, <3>1, CountStep
  <2>3. /\ first \in Nat /\ at \in first..Behind(e, i) /\ at < Behind(e, i)
        /\ Behind(e, i) \in Nat /\ Behind(e, i) <= Len(Bits) /\ Len(Bits) \in Nat
    BY <1>1, <1>2, <1>4, NodeRange, BitsAre
  <2>4. at = first + c /\ Place(e, i, pos + 1) = first + Count(Members(e, i), 0, pos + 1)
    BY DEF Place
  <2>. HIDE DEF c, first, at
  <2>. QED  BY <2>1, <2>2, <2>3, <2>4
<1>6. FullIndex(i, Below(Low(e, i)) + c) = at
  <2>1. Below(Low(e, i)) \in Nat /\ i * N \in Nat
    BY <1>1, <1>2, <1>3, BelowIs
  <2>2. i * N + (Below(Low(e, i)) + c) = (i * N + Below(Low(e, i))) + c
    BY <1>5, <2>1
  <2>. QED  BY <1>1, <2>2 DEF FullIndex, Place, First
<1>7. Get(index, at) = IF e >= Half(e, i) THEN 1 ELSE 0
  <2>1. Get(index, at) = Bits[at + 1]
    BY <1>1, <1>5, BitsAre, GetReadsBits
  <2>. QED  BY <1>1, <1>4, <2>1, NodeBit DEF e
<1>8. ASSUME NEW bit \in {0, 1}, pos \in Child(e, i, bit)
      PROVE  RankFromRange(index, bit, first, at + 1) - 1 = Count(Child(e, i, bit), 0, pos)
  <2>1. RankFromRange(index, bit, first, at + 1) = Count(Child(e, i, bit), 0, pos + 1)
    BY <1>1, <1>2, <1>5, NodeRank
  <2>2. Count(Child(e, i, bit), 0, pos + 1) = Count(Child(e, i, bit), 0, pos) + 1
        /\ Count(Child(e, i, bit), 0, pos) \in Nat
    <3>1. pos \in Int /\ 0 <= pos /\ 0 \in Int
      BY <1>2
    <3>. QED  BY <1>8, <3>1, CountStep, CountType
  <2>. QED  BY <2>1, <2>2
<1>9. /\ n.low = Low(e, i) /\ n.high = High(e, i) /\ n.start = Below(Low(e, i))
      /\ n.end = Below(High(e, i)) /\ n.offset = c
  BY DEF Known
<1>10. /\ FullIndex(i, n.start) = first /\ FullIndex(i, n.end) = Behind(e, i)
       /\ FullIndex(i, n.start + n.offset) = at /\ Middle(n.low, n.high) = Half(e, i)
       /\ n.start + RankFromRange(index, 0, first, Behind(e, i)) = Below(Half(e, i))
       /\ n.end - RankFromRange(index, 1, first, Behind(e, i)) = Below(Half(e, i))
  <2>. HIDE DEF n
  <2>. QED  BY <1>1, <1>6, <1>9, NodeReads DEF first
<1>. HIDE DEF c, first, at
<1>11. CASE e >= Half(e, i)
  <2>1. Low(e, i + 1) = Half(e, i) /\ High(e, i + 1) = High(e, i)
    BY <1>1, <1>2, <1>11, NodeHalves
  <2>2. RankFromRange(index, 1, first, at + 1) - 1 = Count(Members(e, i + 1), 0, pos)
    BY <1>4, <1>8, <1>11, <2>1 DEF Child, Members
  <2>3. DecodeStep(n, i) = [n EXCEPT !.low = Half(e, i), !.start = Below(Half(e, i)),
                                     !.offset = Count(Members(e, i + 1), 0, pos)]
    <3>. HIDE DEF n
    <3>. QED  BY <1>7, <1>11, <1>10, <2>2 DEF DecodeStep
  <2>. QED  BY <2>1, <2>3 DEF Known, e
<1>12. CASE e < Half(e, i)
  <2>1. Low(e, i + 1) = Low(e, i) /\ High(e, i + 1) = Half(e, i) /\ ~(e >= Half(e, i))
    BY <1>1, <1>2, <1>3, <1>12, NodeHalves
  <2>2. RankFromRange(index, 0, first, at + 1) - 1 = Count(Members(e, i + 1), 0, pos)
    BY <1>4, <1>8, <2>1 DEF Child, Members
  <2>3. Get(index, at) # 1
    BY <1>7, <2>1
  <2>4. DecodeStep(n, i) = [n EXCEPT !.high = Half(e, i), !.end = Below(Half(e, i)),
                                     !.offset = Count(Members(e, i + 1), 0, pos)]
    <3>. HIDE DEF n
    <3>. QED  BY <1>10, <2>2, <2>3 DEF DecodeStep
  <2>. QED  BY <2>1, <2>4 DEF Known, e
<1>. QED  BY <1>1, <1>3, <1>11, <1>12

LEMMA DecodeIs ==
  ASSUME TreeIs, NEW pos \in 0..(N-1)
  PROVE  DecodeOne(pos) = Known(source[pos + 1], width, pos)
<1>. DEFINE e == source[pos + 1]
            all == [i \in 0..width |-> Known(e, i, pos)]
<1>1. /\ Typed /\ TreeLen = N /\ N \in Nat /\ e \in Values /\ WidthOK /\ width \in Nat
  BY TreeDivides, SourceIs, WidthIs DEF TreeIs, WidthOK
<1>2. Known(e, 0, pos) = Root(pos)
  <2>1. Low(e, 0) = 0 /\ High(e, 0) = Pow2[width]
    BY <1>1, NodeEnds
  <2>2. Below(0) = 0 /\ Below(Pow2[width]) = N
    BY <1>1, BelowIs
  <2>3. Count(In(0, Pow2[width]), 0, pos) = pos
    <3>1. \A p \in 0..(pos-1) : p \in In(0, Pow2[width])
      BY <1>1, SourceIs, SizeIs DEF In, Values
    <3>2. pos \in Int /\ 0 <= pos /\ 0 \in Int /\ pos - 0 = pos
      OBVIOUS
    <3>3. Count(In(0, Pow2[width]), 0, pos) = pos - 0
      BY <3>1, <3>2, CountAll
    <3>. QED  BY <3>2, <3>3
  <2>. HIDE DEF e
  <2>. QED  BY <1>1, <2>1, <2>2, <2>3 DEF Known, Root, Members
<1>3. ASSUME NEW i \in 0..(width-1) PROVE DecodeStep(Known(e, i, pos), i) = Known(e, i + 1, pos)
  BY DecodeGoesDown
<1>. HIDE DEF e
<1>4. DecodesBy(all, pos)
  <2>1. \A i \in 0..width : i # 0 => i - 1 \in 0..(width-1) /\ (i - 1) + 1 = i
    BY <1>1
  <2>2. ASSUME NEW i \in 0..width
        PROVE  all[i] = IF i = 0 THEN Root(pos) ELSE DecodeStep(all[i - 1], i - 1)
    BY <1>1, <1>2, <1>3, <2>1
  <2>. QED  BY <2>2 DEF DecodesBy
<1>5. ASSUME NEW node, DecodesBy(node, pos) PROVE node[width] = Known(e, width, pos)
  <2>. DEFINE T == {i \in Nat : i <= width => node[i] = Known(e, i, pos)}
  <2>1. 0 \in T
    BY <1>1, <1>2, <1>5 DEF DecodesBy
  <2>2. ASSUME NEW i \in Nat, i \in T PROVE i + 1 \in T
    <3>. SUFFICES ASSUME i + 1 <= width PROVE node[i + 1] = Known(e, i + 1, pos)
      OBVIOUS
    <3>1. i + 1 \in 0..width /\ i + 1 # 0 /\ (i + 1) - 1 = i /\ i \in 0..(width-1)
      BY <1>1
    <3>2. node[i + 1] = DecodeStep(node[i], i)
      BY <1>5, <3>1 DEF DecodesBy
    <3>. QED  BY <1>1, <1>3, <2>2, <3>1, <3>2
  <2>. HIDE DEF T
  <2>3. width \in T
    BY <1>1, <2>1, <2>2, Induct
  <2>. QED  BY <1>1, <2>3 DEF T
<1>6. DecodeOne(pos) = (CHOOSE node : DecodesBy(node, pos))[width]
  BY DEF DecodeOne, DecodesBy, DecodeStep, Root
<1>. HIDE DEF all
<1>7. DecodesBy(CHOOSE node : DecodesBy(node, pos), pos)
  BY <1>4
<1>. QED  BY <1>5, <1>6, <1>7 DEF e

LEMMA InvariantDecodes == IInv => DecodesToSource
<1>. SUFFICES ASSUME IInv PROVE DecodesToSource
  OBVIOUS
<1>1. Typed /\ FragmentsHold /\ WidthOK
  BY WidthIs DEF IInv
<1>2. N \in Nat /\ Len(source) = N
  BY <1>1, SourceIs DEF N
<1>3. ASSUME NEW f \in DOMAIN fragments
      PROVE  Len(fragments[f]) = Cardinality({i \in 1..Len(source) : Accepts(f, source[i])})
  <2>. DEFINE G == {i \in 1..Len(source) : Accepts(f, source[i])}
              T == Own(source, f)
              zero == 0
              one == 1
  <2>1. Len(fragments[f]) = Count(T, zero, N)
    BY <1>1, <1>2, <1>3 DEF Typed, FragmentsHold, HoldsIts
  <2>2. Shifted(T, G, zero, N, one)
    BY <1>2 DEF Shifted, Own
  <2>3. /\ zero \in Int /\ one \in Int /\ N \in Int /\ N + 1 \in Int
        /\ one = zero + one /\ N + 1 = N + one
    BY <1>2
  <2>4. G \cap (one..((N + 1) - 1)) = G
    BY <1>2
  <2>. HIDE DEF G, T, zero, one
  <2>5. Count(T, zero, N) = Count(G, one, N + 1)
    BY <2>2, <2>3, CountShift
  <2>6. Count(G, one, N + 1) = Cardinality(G)
    BY <2>4 DEF Count
  <2>. QED  BY <2>1, <2>5, <2>6 DEF G
<1>4. ASSUME phase = "built"
      PROVE  /\ DividesIntoLayers /\ TreeLen = Len(source)
             /\ \A i \in 1..Len(source) : /\ DecodeOne(i - 1).low = source[i]
                                          /\ DecodeOne(i - 1).high = source[i] + 1
  <2>1. TreeIs
    BY <1>4 DEF IInv, TreeIs, Bits
  <2>2. ASSUME NEW i \in 1..Len(source)
        PROVE  DecodeOne(i - 1).low = source[i] /\ DecodeOne(i - 1).high = source[i] + 1
    <3>1. i - 1 \in 0..(N-1) /\ (i - 1) + 1 = i /\ source[i] \in Values
      <4>1. i - 1 \in 0..(N-1) /\ (i - 1) + 1 = i
        BY <1>2
      <4>. QED  BY <1>1, <4>1, SourceIs
    <3>2. DecodeOne(i - 1) = Known(source[i], width, i - 1)
      BY <2>1, <3>1, DecodeIs
    <3>3. Low(source[i], width) = source[i] /\ High(source[i], width) = source[i] + 1
      BY <1>1, <3>1, NodeEnds
    <3>. QED  BY <3>2, <3>3 DEF Known
  <2>. QED  BY <1>2, <2>1, <2>2, TreeDivides
<1>. QED  BY <1>3, <1>4 DEF DecodesToSource

\* The fragments hold every number of their range, the bits divide into layers of the
\* source's length, and decode gives the source back.
THEOREM DecodesAlways == Spec => []DecodesToSource
BY InvariantDecodes, Invariant, PTL

-----------------------------------------------------------------------------
(* Looking up.                                                             *)

BitOf(e, i)   == IF e >= Half(e, i) THEN 1 ELSE 0
SliceAt(e, i) == [bit |-> BitOf(e, i), start |-> First(e, i), end |-> Behind(e, i)]
Passed(e, i)  == [j \in 1..i |-> SliceAt(e, j - 1)]
Empty(e, i)   == Below(Low(e, i)) = Below(High(e, i))

\* What lookup knows of a value at layer i, as long as no range was empty.
Sighted(e, i) == [low |-> Low(e, i), high |-> High(e, i),
                  start |-> Below(Low(e, i)), end |-> Below(High(e, i)),
                  slices |-> Passed(e, i)]

LookupStep(e, n, i) ==
  LET first == FullIndex(i, n.start)
      last  == FullIndex(i, n.end)
      b     == IF e >= Middle(n.low, n.high) THEN 1 ELSE 0
      slice == [bit |-> b, start |-> first, end |-> last]
  IN  IF b = 1
      THEN [n EXCEPT !.low = @ + Pow2[width - i - 1], !.slices = Append(@, slice),
                     !.start = @ + RankFromRange(index, 0, first, last)]
      ELSE [n EXCEPT !.high = @ - Pow2[width - i - 1], !.slices = Append(@, slice),
                     !.end = @ - RankFromRange(index, 1, first, last)]
LookupRoot == [low |-> 0, high |-> Pow2[width], start |-> 0, end |-> TreeLen, slices |-> <<>>]
LooksUpBy(node, e) ==
  node = [i \in 0..width |->
            IF i = 0 THEN LookupRoot
            ELSE IF i > 1 /\ node[i - 1].start = node[i - 1].end THEN node[i - 1]
            ELSE LookupStep(e, node[i - 1], i - 1)]

LEMMA PassedIs ==
  ASSUME NEW e, NEW i \in Nat
  PROVE  /\ Len(Passed(e, i)) = i
         /\ \A j \in 1..i : Passed(e, i)[j] = SliceAt(e, j - 1)
         /\ Append(Passed(e, i), SliceAt(e, i)) = Passed(e, i + 1)
<1>. DEFINE D == {SliceAt(e, j) : j \in Int}
            x == SliceAt(e, i)
<1>1. ASSUME NEW m \in Nat
      PROVE  Passed(e, m) \in Seq(D) /\ Len(Passed(e, m)) = m
             /\ \A j \in 1..m : Passed(e, m)[j] = SliceAt(e, j - 1)
  <2>1. Passed(e, m) \in [1..m -> D]
    BY DEF Passed
  <2>. HIDE DEF D
  <2>2. Passed(e, m) \in Seq(D)
    BY <2>1, SeqDef
  <2>3. DOMAIN Passed(e, m) = 1..m /\ DOMAIN Passed(e, m) = 1..Len(Passed(e, m))
        /\ Len(Passed(e, m)) \in Nat
    BY <2>1, <2>2, LenProperties
  <2>. QED  BY <2>2, <2>3 DEF Passed
<1>2. x \in D /\ i + 1 \in Nat
  OBVIOUS
<1>. DEFINE s == Passed(e, i)
            t == Passed(e, i + 1)
<1>3. /\ s \in Seq(D) /\ t \in Seq(D) /\ Len(s) = i /\ Len(t) = i + 1
      /\ \A j \in 1..i : s[j] = SliceAt(e, j - 1)
      /\ \A j \in 1..(i + 1) : t[j] = SliceAt(e, j - 1)
  BY <1>1, <1>2
<1>4. t[i + 1] = x
  <2>1. i + 1 \in 1..(i + 1) /\ (i + 1) - 1 = i
    OBVIOUS
  <2>2. t[i + 1] = SliceAt(e, (i + 1) - 1)
    BY <1>3, <2>1
  <2>. QED  BY <2>1, <2>2
<1>. HIDE DEF D, x, s, t
<1>5. Append(s, x) = t
  <2>1. Append(s, x) \in Seq(D) /\ Len(Append(s, x)) = i + 1
    BY <1>2, <1>3
  <2>2. ASSUME NEW j \in 1..(i + 1) PROVE Append(s, x)[j] = t[j]
    <3>1. CASE j = i + 1
      <4>1. Append(s, x)[Len(s) + 1] = x
        BY <1>2, <1>3
      <4>. QED  BY <1>3, <1>4, <3>1, <4>1
    <3>2. CASE j \in 1..i
      <4>1. Append(s, x)[j] = s[j]
        BY <1>2, <1>3, <3>2
      <4>. QED  BY <1>3, <3>2, <4>1
    <3>3. j = i + 1 \/ j \in 1..i
      OBVIOUS
    <3>. QED  BY <3>1, <3>2, <3>3
  <2>. QED  BY <1>3, <2>1, <2>2, SeqEqual
<1>. QED  BY <1>3, <1>5 DEF s, t, x

LEMMA LookupGoesDown ==
  ASSUME TreeIs, NEW e \in Values, NEW i \in 0..(width-1)
  PROVE  LookupStep(e, Sighted(e, i), i) = Sighted(e, i + 1)
<1>. DEFINE n == Sighted(e, i)
            half == Half(e, i)
            first == First(e, i)
            last == Behind(e, i)
<1>1. Typed /\ WidthOK /\ i \in Nat /\ width \in Nat /\ e \in Nat
  BY WidthIs, SizeIs DEF TreeIs, WidthOK, Values
<1>2. /\ n.low = Low(e, i) /\ n.high = High(e, i) /\ n.start = Below(Low(e, i))
      /\ n.end = Below(High(e, i)) /\ n.slices = Passed(e, i)
  BY DEF Sighted
<1>3. /\ FullIndex(i, n.start) = first /\ FullIndex(i, n.end) = last
      /\ Middle(n.low, n.high) = half
      /\ n.start + RankFromRange(index, 0, first, last) = Below(half)
      /\ n.end - RankFromRange(index, 1, first, last) = Below(half)
  <2>. HIDE DEF n
  <2>. QED  BY <1>2, NodeReads
<1>4. n.low + Pow2[width - i - 1] = half /\ n.high - Pow2[width - i - 1] = half /\ half \in Nat
  <2>1. width - i - 1 = width - (i + 1)
    BY <1>1
  <2>. QED  BY <1>1, <1>2, <2>1, NodeHalves DEF Size
<1>5. Append(n.slices, [bit |-> BitOf(e, i), start |-> first, end |-> last]) = Passed(e, i + 1)
  BY <1>1, <1>2, PassedIs DEF SliceAt
<1>6. CASE e >= half
  <2>1. BitOf(e, i) = 1 /\ Low(e, i + 1) = half /\ High(e, i + 1) = High(e, i)
    BY <1>1, <1>6, NodeHalves DEF BitOf
  <2>2. LookupStep(e, n, i) = [n EXCEPT !.low = half, !.slices = Passed(e, i + 1),
                                        !.start = Below(half)]
    <3>. HIDE DEF n, half, first, last
    <3>. QED  BY <1>3, <1>4, <1>5, <1>6, <2>1 DEF LookupStep
  <2>. QED  BY <2>1, <2>2 DEF Sighted
<1>7. CASE e < half
  <2>1. /\ BitOf(e, i) = 0 /\ Low(e, i + 1) = Low(e, i) /\ High(e, i + 1) = half
        /\ ~(e >= half)
    BY <1>1, <1>4, <1>7, NodeHalves DEF BitOf
  <2>2. LookupStep(e, n, i) = [n EXCEPT !.high = half, !.slices = Passed(e, i + 1),
                                        !.end = Below(half)]
    <3>. HIDE DEF n, half, first, last
    <3>1. (IF e >= Middle(n.low, n.high) THEN 1 ELSE 0) = BitOf(e, i) /\ BitOf(e, i) # 1
      BY <1>3, <2>1
    <3>. QED  BY <1>3, <1>4, <1>5, <3>1 DEF LookupStep
  <2>. QED  BY <2>1, <2>2 DEF Sighted
<1>. QED  BY <1>1, <1>4, <1>6, <1>7

\* Where lookup stops: at the first layer whose range is empty, or at the end.
LEMMA LookupStops ==
  ASSUME WidthOK, NEW e
  PROVE  \E m \in 1..width : /\ \A j \in 1..(m-1) : ~Empty(e, j)
                             /\ m < width => Empty(e, m)
<1>. DEFINE T == {j \in Nat : 1 <= j /\ (j >= width \/ Empty(e, j))}
<1>1. width \in T /\ width \in Nat
  BY DEF WidthOK
<1>2. T \in SUBSET Nat /\ T # {}
  BY <1>1
<1>3. PICK m \in T : \A j \in T : m <= j
  <2>. HIDE DEF T
  <2>. QED  BY <1>2, Least
<1>4. m \in 1..width /\ (m < width => Empty(e, m))
  BY <1>1, <1>3
<1>5. ASSUME NEW j \in 1..(m-1) PROVE ~Empty(e, j)
  BY <1>3, <1>4
<1>. QED  BY <1>4, <1>5

LEMMA LookupNode ==
  ASSUME TreeIs, NEW e \in Values
  PROVE  LET node == CHOOSE node : LooksUpBy(node, e)
         IN  \/ node[width] = Sighted(e, width)
             \/ (\E i \in 1..width : Empty(e, i)) /\ node[width].start = node[width].end
<1>1. /\ Typed /\ TreeLen = N /\ WidthOK /\ width \in Nat \ {0}
  BY TreeDivides, WidthIs DEF TreeIs, WidthOK
<1>2. PICK m \in 1..width : (\A j \in 1..(m-1) : ~Empty(e, j)) /\ (m < width => Empty(e, m))
  BY <1>1, LookupStops
<1>. DEFINE at(i) == IF i < m THEN i ELSE m
            all == [i \in 0..width |-> Sighted(e, at(i))]
<1>3. Sighted(e, 0) = LookupRoot
  <2>1. Low(e, 0) = 0 /\ High(e, 0) = Pow2[width]
    BY <1>1, NodeEnds
  <2>2. Below(0) = 0 /\ Below(Pow2[width]) = N
    BY <1>1, BelowIs
  <2>3. Passed(e, 0) = <<>>
    BY DEF Passed
  <2>. QED  BY <1>1, <2>1, <2>2, <2>3 DEF Sighted, LookupRoot
<1>4. \A i : Sighted(e, i).start = Sighted(e, i).end <=> Empty(e, i)
  BY DEF Sighted, Empty
<1>5. ASSUME NEW i \in 1..width
      PROVE  all[i] = IF i > 1 /\ all[i - 1].start = all[i - 1].end THEN all[i - 1]
                      ELSE LookupStep(e, all[i - 1], i - 1)
  <2>1. i \in 0..width /\ i - 1 \in 0..width /\ i - 1 \in 0..(width-1) /\ (i - 1) + 1 = i
    BY <1>1
  <2>2. all[i] = Sighted(e, at(i)) /\ all[i - 1] = Sighted(e, at(i - 1))
    BY <2>1
  <2>3. CASE i <= m
    <3>1. Sighted(e, at(i)) = Sighted(e, i) /\ at(i - 1) = i - 1
      BY <1>2, <2>1, <2>3
    <3>2. LookupStep(e, Sighted(e, i - 1), i - 1) = Sighted(e, i)
      BY <2>1, LookupGoesDown
    <3>3. i > 1 => ~Empty(e, i - 1)
      <4>1. i > 1 => i - 1 \in 1..(m-1)
        BY <2>3
      <4>. QED  BY <1>2, <4>1
    <3>. HIDE DEF all, at
    <3>. QED  BY <1>4, <2>2, <3>1, <3>2, <3>3
  <2>4. CASE i > m
    <3>1. ~(i < m) /\ ~(i - 1 < m) /\ i > 1 /\ m < width
      BY <1>1, <1>2, <2>4
    <3>2. at(i) = m /\ at(i - 1) = m /\ i > 1 /\ Empty(e, m)
      BY <1>2, <3>1
    <3>. HIDE DEF all, at
    <3>. QED  BY <1>4, <2>2, <3>2
  <2>. QED  BY <1>2, <2>3, <2>4
<1>6. all[0] = LookupRoot
  BY <1>1, <1>2, <1>3
<1>7. LooksUpBy(all, e)
  <2>1. ASSUME NEW i \in 0..width
        PROVE  all[i] = IF i = 0 THEN LookupRoot
                        ELSE IF i > 1 /\ all[i - 1].start = all[i - 1].end THEN all[i - 1]
                        ELSE LookupStep(e, all[i - 1], i - 1)
    <3>. HIDE DEF all
    <3>. QED  BY <1>5, <1>6
  <2>. QED  BY <2>1 DEF LooksUpBy
<1>. DEFINE node == CHOOSE node : LooksUpBy(node, e)
<1>. HIDE DEF all
<1>8. LooksUpBy(node, e)
  BY <1>7
<1>. HIDE DEF node
<1>9. /\ node[0] = Sighted(e, 0)
      /\ \A i \in 1..width :
           node[i] = IF i > 1 /\ node[i - 1].start = node[i - 1].end THEN node[i - 1]
                     ELSE LookupStep(e, node[i - 1], i - 1)
  BY <1>1, <1>3, <1>8 DEF LooksUpBy
<1>. DEFINE Gone(i) == (\E j \in 1..width : Empty(e, j)) /\ i >= 1 /\ node[i].start = node[i].end
            T == {i \in Nat : i <= width => node[i] = Sighted(e, i) \/ Gone(i)}
<1>10. 0 \in T
  BY <1>9
<1>11. ASSUME NEW i \in Nat, i \in T PROVE i + 1 \in T
  <2>. SUFFICES ASSUME i + 1 <= width PROVE node[i + 1] = Sighted(e, i + 1) \/ Gone(i + 1)
    OBVIOUS
  <2>1. i + 1 \in 1..width /\ (i + 1) - 1 = i /\ i \in 0..(width-1)
    BY <1>1
  <2>2. node[i + 1] = IF i + 1 > 1 /\ node[i].start = node[i].end THEN node[i]
                      ELSE LookupStep(e, node[i], i)
    BY <1>9, <2>1
  <2>3. node[i] = Sighted(e, i) \/ Gone(i)
    BY <1>1, <1>11, <2>1
  <2>4. CASE i + 1 > 1 /\ node[i].start = node[i].end
    <3>1. i \in 1..width /\ i + 1 >= 1
      BY <1>1, <2>1, <2>4
    <3>2. node[i + 1] = node[i]
      BY <2>2, <2>4
    <3>3. \E j \in 1..width : Empty(e, j)
      <4>1. node[i] = Sighted(e, i) => Empty(e, i)
        BY <1>4, <2>4
      <4>. QED  BY <2>3, <3>1, <4>1
    <3>. QED  BY <2>4, <3>1, <3>2, <3>3
  <2>5. CASE ~(i + 1 > 1 /\ node[i].start = node[i].end)
    <3>1. ~Gone(i)
      BY <2>5
    <3>2. node[i + 1] = LookupStep(e, Sighted(e, i), i)
      BY <2>2, <2>3, <2>5, <3>1
    <3>. QED  BY <2>1, <3>2, LookupGoesDown
  <2>. QED  BY <2>4, <2>5
<1>12. width \in T
  <2>. HIDE DEF T
  <2>. QED  BY <1>1, <1>10, <1>11, Induct
<1>. QED  BY <1>1, <1>12 DEF node

Found(e) == {p \in 0..(Len(source)-1) : source[p + 1] = e}

\* The numbers of the node below are the half of the node that the bit tells.
LEMMA ChildIs ==
  ASSUME WidthOK, NEW e \in Values, NEW i \in 0..(width-1)
  PROVE  Child(e, i, BitOf(e, i)) = Members(e, i + 1) /\ BitOf(e, i) \in {0, 1}
<1>1. e \in Nat /\ Half(e, i) \in Nat /\ (e >= Half(e, i) \/ e < Half(e, i))
  <2>1. e \in Nat /\ Half(e, i) \in Nat
    BY SizeIs, NodeHalves DEF Values
  <2>. QED  BY <2>1
<1>2. CASE e >= Half(e, i)
  BY <1>2, NodeHalves DEF Child, BitOf, Members
<1>3. CASE e < Half(e, i)
  <2>1. BitOf(e, i) = 0
    BY <1>1, <1>3 DEF BitOf
  <2>. QED  BY <1>3, <2>1, NodeHalves DEF Child, Members
<1>. QED  BY <1>1, <1>2, <1>3

\* At the end there are the places of the value, which are in every node on the way.
LEMMA FoundIs ==
  ASSUME Typed, NEW e \in Values
  PROVE  /\ Members(e, width) = Found(e)
         /\ \A i \in 0..width : Found(e) \subseteq Members(e, i)
         /\ \A i \in 0..width : Empty(e, i) => Found(e) = {}
         /\ Found(e) = {} => Empty(e, width)
         /\ Cardinality(Found(e)) = Count(Found(e), 0, N)
<1>1. N \in Nat /\ Len(source) = N /\ (\A p \in 0..(N-1) : source[p + 1] \in Nat) /\ WidthOK
      /\ e \in Nat
  BY SourceIs, WidthIs, SizeIs DEF N, Values
<1>2. Members(e, width) = Found(e)
  <2>1. Members(e, width) = In(e, e + 1)
    BY <1>1, NodeEnds DEF Members
  <2>2. ASSUME NEW p PROVE p \in In(e, e + 1) <=> p \in Found(e)
    <3>1. p \in 0..(N-1) => source[p + 1] \in Nat
      BY <1>1
    <3>2. p \in 0..(N-1) <=> p \in Nat /\ p < N
      BY <1>1
    <3>. QED  BY <1>1, <3>1, <3>2 DEF In, Found
  <2>. QED  BY <2>1, <2>2
<1>3. ASSUME NEW i \in 0..width
      PROVE  /\ Found(e) \subseteq Members(e, i)
             /\ Low(e, i) \in Nat /\ High(e, i) \in Nat /\ Low(e, i) <= High(e, i)
  <2>1. /\ Low(e, i) \in Nat /\ Low(e, i) <= e /\ e < High(e, i) /\ High(e, i) \in Nat
    BY <1>1, NodeHolds
  <2>. QED  BY <1>1, <2>1 DEF Found, Members, In
<1>4. ASSUME NEW i \in 0..width
      PROVE  Empty(e, i) <=> Count(Members(e, i), 0, N) = 0
  <2>1. Below(High(e, i)) = Below(Low(e, i)) + Count(In(Low(e, i), High(e, i)), 0, N)
        /\ Below(Low(e, i)) \in Nat
    BY <1>3, BelowIs
  <2>2. Count(In(Low(e, i), High(e, i)), 0, N) \in Nat
    BY <1>1, CountType
  <2>. QED  BY <2>1, <2>2 DEF Empty, Members
<1>5. ASSUME NEW i \in 0..width, Empty(e, i) PROVE Found(e) = {}
  <2>. SUFFICES ASSUME NEW p \in Found(e) PROVE FALSE
    OBVIOUS
  <2>. DEFINE T == Members(e, i)
  <2>1. p \in 0..(N-1) /\ p \in T
    BY <1>1, <1>3 DEF Found
  <2>2. p \in Int /\ 0 <= p /\ p + 1 <= N /\ 0 \in Int /\ p + 1 \in Int /\ N \in Int /\ 0 <= p + 1
    BY <1>1, <2>1
  <2>3. Count(T, 0, N) = 0
    BY <1>4, <1>5
  <2>. HIDE DEF T
  <2>4. Count(T, 0, p + 1) = Count(T, 0, p) + 1 /\ Count(T, 0, p) \in Nat
    BY <2>1, <2>2, CountStep, CountType
  <2>5. Count(T, 0, p + 1) <= Count(T, 0, N)
    BY <2>2, CountGrows
  <2>. QED  BY <2>3, <2>4, <2>5
<1>6. ASSUME Found(e) = {} PROVE Empty(e, width)
  <2>1. \A p \in 0..(N-1) : p \notin Members(e, width)
    BY <1>2, <1>6
  <2>2. width \in 0..width
    BY <1>1 DEF WidthOK
  <2>3. Count(Members(e, width), 0, N) = 0
    BY <1>1, <2>1, CountNone
  <2>. QED  BY <1>4, <2>2, <2>3
<1>7. Cardinality(Found(e)) = Count(Found(e), 0, N)
  <2>1. Found(e) \cap (0..(N-1)) = Found(e)
    BY <1>1 DEF Found
  <2>. QED  BY <2>1 DEF Count
<1>. QED  BY <1>2, <1>3, <1>5, <1>6, <1>7

\* lookup of a value of the tree's width.
LEMMA SlicesAre ==
  ASSUME TreeIs, NEW e \in Values
  PROVE  Slices(e) = IF Found(e) = {} THEN <<>> ELSE Passed(e, width)
<1>. DEFINE node == CHOOSE node : LooksUpBy(node, e)
<1>1. Typed /\ WidthOK /\ width \in Nat \ {0} /\ ~(e >= Pow2[width])
  <2>1. Typed /\ WidthOK
    BY WidthIs DEF TreeIs
  <2>. QED  BY <2>1, SizeIs DEF Values, WidthOK
<1>2. Slices(e) = IF e >= Pow2[width] \/ node[width].start = node[width].end THEN <<>>
                  ELSE node[width].slices
  BY DEF Slices, LooksUpBy, LookupStep, LookupRoot
<1>3. \/ node[width] = Sighted(e, width)
      \/ (\E i \in 1..width : Empty(e, i)) /\ node[width].start = node[width].end
  BY LookupNode
<1>. HIDE DEF node
<1>4. /\ Sighted(e, width).start = Sighted(e, width).end <=> Empty(e, width)
      /\ Sighted(e, width).slices = Passed(e, width)
  BY DEF Sighted, Empty
<1>5. CASE Found(e) = {}
  <2>1. Empty(e, width)
    BY <1>1, <1>5, FoundIs
  <2>2. node[width].start = node[width].end
    BY <1>3, <1>4, <2>1
  <2>. QED  BY <1>2, <1>5, <2>2
<1>6. CASE Found(e) # {}
  <2>1. \A i \in 0..width : ~Empty(e, i)
    BY <1>1, <1>6, FoundIs
  <2>2. width \in 0..width /\ \A i \in 1..width : i \in 0..width
    BY <1>1
  <2>3. node[width] = Sighted(e, width) /\ ~Empty(e, width)
    BY <1>3, <2>1, <2>2
  <2>. QED  BY <1>1, <1>2, <1>4, <1>6, <2>3
<1>. QED  BY <1>5, <1>6

LEMMA LookupLenIs ==
  ASSUME TreeIs, NEW e \in Values
  PROVE  LookupLen(Passed(e, width)) = Cardinality(Found(e)) /\ Passed(e, width) # <<>>
<1>. DEFINE i == width - 1
            b == BitOf(e, i)
<1>1. /\ Typed /\ FragmentsHold /\ index = BuildIndex(Bits) /\ WidthOK
      /\ width \in Nat \ {0} /\ N \in Nat
  BY WidthIs, SourceIs DEF TreeIs, WidthOK
<1>2. i \in 0..(width-1) /\ i + 1 = width /\ N \in 0..N /\ width \in 1..width
  BY <1>1
<1>3. Len(Passed(e, width)) = width /\ Passed(e, width)[width] = SliceAt(e, i)
  BY <1>1, <1>2, PassedIs
<1>. HIDE DEF i
<1>4. LookupLen(Passed(e, width)) = RankFromRange(index, b, First(e, i), Behind(e, i))
  BY <1>3 DEF LookupLen, Last, SliceAt
<1>5. Place(e, i, N) = Behind(e, i) /\ b \in {0, 1} /\ Child(e, i, b) = Members(e, width)
  BY <1>1, <1>2, NodeRange, ChildIs
<1>. HIDE DEF b
<1>6. RankFromRange(index, b, First(e, i), Place(e, i, N)) = Count(Child(e, i, b), 0, N)
  BY <1>1, <1>2, <1>5, NodeRank
<1>7. Count(Members(e, width), 0, N) = Cardinality(Found(e))
  BY <1>1, FoundIs
<1>8. Passed(e, width) # <<>>
  <2>1. Len(<<>>) = 0
    OBVIOUS
  <2>. QED  BY <1>1, <1>3, <2>1
<1>. QED  BY <1>4, <1>5, <1>6, <1>7, <1>8

\* The select of a node gives back the place of a number in it.
LEMMA NodeSelect ==
  ASSUME TreeIs, NEW e \in Values, NEW i \in 0..(width-1), NEW q \in Found(e)
  PROVE  InNode(SelectFromRange(index, BitOf(e, i), Count(Members(e, i + 1), 0, q) + 1,
                                First(e, i), Behind(e, i)), First(e, i))
           = Count(Members(e, i), 0, q) + 1
<1>. DEFINE b == BitOf(e, i)
            first == First(e, i)
            end == Behind(e, i)
            p == Place(e, i, q)
            R == Child(e, i, b)
            U == Sought(Bits, b)
<1>1. /\ Typed /\ FragmentsHold /\ index = BuildIndex(Bits) /\ WidthOK
      /\ width \in Nat \ {0} /\ N \in Nat
  BY WidthIs, SourceIs DEF TreeIs, WidthOK
<1>2. /\ q \in 0..(N-1) /\ q \in 0..N /\ q + 1 \in 0..N /\ q \in Int /\ 0 <= q /\ 0 \in Int
      /\ i \in 0..width /\ i + 1 \in 0..width
  <2>1. q \in 0..(N-1)
    BY DEF Found, N
  <2>. QED  BY <1>1, <2>1
<1>3. q \in Members(e, i) /\ q \in R /\ R = Members(e, i + 1) /\ b \in {0, 1}
  BY <1>1, <1>2, FoundIs, ChildIs
<1>4. /\ first \in Nat /\ end \in Nat /\ end <= Len(Bits) /\ p \in first..end /\ p < end
      /\ Len(Bits) \in Nat /\ Bits \in Seq({0, 1})
  BY <1>1, <1>2, <1>3, NodeRange, BitsAre
<1>5. Sifts(Members(e, i), U, R, first, N)
  BY <1>1, <1>3, NodeSifts
<1>6. p = first + Count(Members(e, i), 0, q) /\ Count(Members(e, i), 0, q) \in Nat
  <2>1. Count(Members(e, i), 0, q) \in Nat
    BY <1>2, CountType
  <2>. QED  BY <2>1 DEF Place
<1>7. p \in U
  BY <1>2, <1>3, <1>5, <1>6 DEF Sifts
<1>8. Count(U, first, p + 1) = Count(R, 0, q) + 1
  <2>1. Count(Members(e, i), 0, q + 1) = Count(Members(e, i), 0, q) + 1
    BY <1>2, <1>3, CountStep
  <2>2. first + Count(Members(e, i), 0, q + 1) = p + 1
    BY <1>4, <1>6, <2>1
  <2>3. Count(R, 0, q + 1) = Count(R, 0, q) + 1
    <3>. HIDE DEF R
    <3>. QED  BY <1>2, <1>3, CountStep
  <2>. DEFINE r == q + 1
  <2>4. r \in 0..N /\ first \in Int
    BY <1>2, <1>4
  <2>. HIDE DEF U, R, first, r
  <2>5. Count(U, first, first + Count(Members(e, i), 0, r)) = Count(R, 0, r)
    BY <1>1, <1>5, <2>4, Sifted
  <2>. QED  BY <2>2, <2>3, <2>5 DEF r
<1>9. NumberFrom(Bits, b, first, p) = Count(Members(e, i + 1), 0, q) + 1
  BY <1>3, <1>8 DEF NumberFrom
<1>. HIDE DEF b, first, end, p, R, U
<1>10. SelectFromRange(BuildIndex(Bits), b, NumberFrom(Bits, b, first, p), first, end) = p
  <2>1. p \in 0..(Len(Bits)-1) /\ first \in 0..p /\ end \in 0..Len(Bits) /\ p < end
    BY <1>4
  <2>2. p \in Sought(Bits, b)
    BY <1>7 DEF U
  <2>. QED  BY <1>3, <1>4, <2>1, <2>2, SelectAt
<1>11. InNode(p, first) = Count(Members(e, i), 0, q) + 1
  BY <1>4, <1>6 DEF InNode
<1>. QED  BY <1>1, <1>9, <1>10, <1>11 DEF b, first, end

\* WaveletLookup::entry goes up through the nodes.
UpStep(slices, k, r) ==
  LET s == slices[width - k + 1]
  IN  InNode(SelectFromRange(index, s.bit, r, s.start, s.end), s.start)
GoesUp(up, slices, n) ==
  up = [k \in 0..width |-> IF k = 0 THEN n + 1 ELSE UpStep(slices, k, up[k - 1])]

LEMMA LookupEntryIs ==
  ASSUME TreeIs, NEW e \in Values, NEW q \in Found(e)
  PROVE  LookupEntry(Passed(e, width), Count(Found(e), 0, q)) = q
<1>. DEFINE n == Count(Found(e), 0, q)
            s == Passed(e, width)
            At(k) == Count(Members(e, width - k), 0, q) + 1
            all == [k \in 0..width |-> At(k)]
<1>1. /\ Typed /\ WidthOK /\ width \in Nat \ {0} /\ N \in Nat /\ q \in Nat /\ q < N
      /\ Members(e, width) = Found(e)
  <2>1. Typed /\ WidthOK
    BY WidthIs DEF TreeIs
  <2>2. width \in Nat \ {0} /\ N \in Nat /\ Members(e, width) = Found(e)
    BY <2>1, SourceIs, FoundIs DEF WidthOK
  <2>3. q \in 0..(N-1)
    BY DEF Found, N
  <2>. QED  BY <2>1, <2>2, <2>3
<1>2. ASSUME NEW k \in 1..width PROVE UpStep(s, k, At(k - 1)) = At(k)
  <2>. DEFINE i == width - k
  <2>1. i \in 0..(width-1) /\ width - (k - 1) = i + 1 /\ i + 1 \in 1..width
        /\ (i + 1) - 1 = i /\ width \in Nat
    BY <1>1
  <2>2. s[i + 1] = SliceAt(e, i)
    BY <2>1, PassedIs
  <2>. HIDE DEF i, s
  <2>3. At(k - 1) = Count(Members(e, i + 1), 0, q) + 1
    BY <2>1
  <2>4. UpStep(s, k, At(k - 1)) =
          InNode(SelectFromRange(index, BitOf(e, i), At(k - 1), First(e, i), Behind(e, i)),
                 First(e, i))
    BY <2>2 DEF UpStep, SliceAt, i
  <2>5. At(k) = Count(Members(e, i), 0, q) + 1
    BY DEF i
  <2>. HIDE DEF At
  <2>. QED  BY <2>1, <2>3, <2>4, <2>5, NodeSelect
<1>3. At(0) = n + 1
  <2>1. width - 0 = width
    BY <1>1
  <2>. QED  BY <1>1, <2>1
<1>4. At(width) = q + 1
  <2>1. width - width = 0 /\ Low(e, 0) = 0 /\ High(e, 0) = Pow2[width]
    BY <1>1, NodeEnds
  <2>2. Members(e, 0) = In(0, Pow2[width])
    BY <2>1 DEF Members
  <2>3. \A p \in 0..(q-1) : p \in Members(e, 0)
    BY <1>1, <2>2, SourceIs, SizeIs DEF In, Values
  <2>4. q \in Int /\ 0 <= q /\ 0 \in Int /\ q - 0 = q
    BY <1>1
  <2>5. Count(Members(e, 0), 0, q) = q - 0
    BY <2>3, <2>4, CountAll
  <2>. QED  BY <2>1, <2>4, <2>5
<1>. HIDE DEF At, n, s
<1>5. GoesUp(all, s, n)
  <2>1. ASSUME NEW k \in 0..width
        PROVE  all[k] = IF k = 0 THEN n + 1 ELSE UpStep(s, k, all[k - 1])
    <3>1. CASE k = 0
      BY <1>1, <1>3, <3>1
    <3>2. CASE k # 0
      <4>1. k \in 1..width /\ k - 1 \in 0..width
        BY <1>1, <3>2
      <4>. QED  BY <1>2, <3>2, <4>1
    <3>. QED  BY <3>1, <3>2
  <2>. QED  BY <2>1 DEF GoesUp
<1>. HIDE DEF all
<1>. DEFINE up == CHOOSE up : GoesUp(up, s, n)
<1>6. GoesUp(up, s, n)
  BY <1>5
<1>7. LookupEntry(s, n) = up[width] - 1
  BY DEF LookupEntry, GoesUp, UpStep
<1>. HIDE DEF up
<1>8. up[0] = n + 1 /\ \A k \in 1..width : up[k] = UpStep(s, k, up[k - 1])
  BY <1>1, <1>6 DEF GoesUp
<1>. DEFINE T == {k \in Nat : k <= width => up[k] = At(k)}
<1>9. 0 \in T
  BY <1>3, <1>8
<1>10. ASSUME NEW k \in Nat, k \in T PROVE k + 1 \in T
  <2>. SUFFICES ASSUME k + 1 <= width PROVE up[k + 1] = At(k + 1)
    OBVIOUS
  <2>1. k + 1 \in 1..width /\ (k + 1) - 1 = k /\ up[k] = At(k)
    BY <1>1, <1>10
  <2>. QED  BY <1>2, <1>8, <2>1
<1>11. width \in T
  <2>. HIDE DEF T
  <2>. QED  BY <1>1, <1>9, <1>10, Induct
<1>12. up[width] = q + 1
  BY <1>1, <1>4, <1>11
<1>. QED  BY <1>1, <1>7, <1>12 DEF s, n

LEMMA InvariantFinds == IInv => LookupFindsPositions
<1>. SUFFICES ASSUME IInv, phase = "built" PROVE LookupFindsPositions
  BY DEF LookupFindsPositions
<1>1. TreeIs /\ Typed /\ WidthOK /\ Len(source) = N /\ N \in Nat
  BY WidthIs, SourceIs DEF IInv, TreeIs, Bits, N
<1>. SUFFICES ASSUME NEW e \in 0..Pow2[width]
              PROVE  IF Found(e) = {} THEN Slices(e) = <<>>
                     ELSE /\ Slices(e) # <<>> /\ LookupLen(Slices(e)) = Cardinality(Found(e))
                          /\ \A n \in 0..(Cardinality(Found(e))-1) :
                               /\ LookupEntry(Slices(e), n) \in Found(e)
                               /\ Cardinality({i \in Found(e) : i < LookupEntry(Slices(e), n)}) = n
  BY DEF LookupFindsPositions, Found
<1>2. CASE e = Pow2[width]
  <2>1. Found(e) = {}
    BY <1>1, <1>2, SourceIs, SizeIs DEF Found, Values
  <2>2. Slices(e) = <<>>
    <3>1. e >= Pow2[width]
      BY <1>1, <1>2, SizeIs
    <3>. QED  BY <3>1 DEF Slices
  <2>. QED  BY <2>1, <2>2
<1>3. CASE e # Pow2[width]
  <2>1. e \in Values
    BY <1>1, <1>3, SizeIs DEF Values
  <2>2. CASE Found(e) = {}
    BY <1>1, <2>1, <2>2, SlicesAre
  <2>3. CASE Found(e) # {}
    <3>. DEFINE T == Found(e)
    <3>1. Slices(e) = Passed(e, width)
      BY <1>1, <2>1, <2>3, SlicesAre
    <3>2. Slices(e) # <<>> /\ LookupLen(Slices(e)) = Cardinality(T)
      BY <1>1, <2>1, <3>1, LookupLenIs
    <3>3. Cardinality(T) = Count(T, 0, N) /\ Count(T, 0, N) \in Nat /\ T \subseteq 0..(N-1)
      BY <1>1, <2>1, FoundIs, CountType DEF Found
    <3>4. ASSUME NEW n \in 0..(Cardinality(T)-1)
          PROVE  /\ LookupEntry(Slices(e), n) \in T
                 /\ Cardinality({i \in T : i < LookupEntry(Slices(e), n)}) = n
      <4>. DEFINE m == n + 1
      <4>1. m \in 1..Count(T, 0, N) /\ 0 \in Int /\ N \in Int /\ 0 <= N /\ m - 1 = n
        BY <1>1, <3>3
      <4>. HIDE DEF T, m
      <4>2. PICK q \in 0..(N-1) : q \in T /\ Count(T, 0, q + 1) = m
        BY <4>1, CountReaches
      <4>3. Count(T, 0, q) = n
        <5>1. q \in Int /\ 0 <= q
          OBVIOUS
        <5>2. Count(T, 0, q + 1) = Count(T, 0, q) + 1 /\ Count(T, 0, q) \in Nat
          BY <4>1, <4>2, <5>1, CountStep, CountType
        <5>. QED  BY <4>1, <4>2, <5>2
      <4>4. LookupEntry(Slices(e), n) = q
        BY <1>1, <2>1, <3>1, <4>2, <4>3, LookupEntryIs DEF T
      <4>5. {i \in T : i < q} = T \cap (0..(q-1))
        <5>1. \A i \in T : i \in Nat
          BY <3>3
        <5>2. \A i \in Nat : i < q <=> i \in 0..(q-1)
          OBVIOUS
        <5>. QED  BY <5>1, <5>2
      <4>. QED  BY <4>2, <4>3, <4>4, <4>5 DEF Count
    <3>. QED  BY <2>3, <3>2, <3>4
  <2>. QED  BY <2>2, <2>3
<1>. QED  BY <1>2, <1>3

\* lookup finds a value exactly if it is there, and the positions of all its
\* occurrences, in order.
THEOREM LookupAlwaysFinds == Spec => []LookupFindsPositions
BY InvariantFinds, Invariant, PTL
=============================================================================
