------------------------- MODULE AdjacencyListProofs -------------------------
(***************************************************************************)
(* For lists of any size: the bits lag one entry behind the numbers until  *)
(* the end, and the iterator gives back the pairs pushed.                  *)
(***************************************************************************)
EXTENDS AdjacencyList, BitIndexProofs, SequenceTheorems

LEMMA Sizes == /\ B \in Nat \ {0} /\ S \in Nat \ {0}
               /\ MaxLeft \in Nat \ {0} /\ MaxRight \in Nat \ {0}
BY MaxAssumption, BSizes

Pair == (1..MaxLeft) \X (1..MaxRight)

-----------------------------------------------------------------------------
(* Sequences.                                                              *)

\* The sequence t is s and then n times x.
Adds(t, s, n, x) == /\ Len(t) = Len(s) + n
                    /\ Extends(t, s)
                    /\ \A i \in (Len(s)+1)..(Len(s)+n) : t[i] = x

LEMMA AddedTimes ==
  ASSUME NEW D, NEW s \in Seq(D), NEW n \in Nat, NEW x \in D
  PROVE  s \o Times(n, x) \in Seq(D) /\ Adds(s \o Times(n, x), s, n, x)
<1>1. Times(n, x) \in Seq(D) /\ Len(Times(n, x)) = n /\ \A i \in 1..n : Times(n, x)[i] = x
  BY DEF Times
<1>. QED  BY <1>1 DEF Extends, Adds

LEMMA AddedLast ==
  ASSUME NEW D, NEW s \in Seq(D), NEW x \in D
  PROVE  /\ s \o <<x>> \in Seq(D) /\ Len(s \o <<x>>) = Len(s) + 1
         /\ (s \o <<x>>)[Len(s) + 1] = x
         /\ \A i \in 1..Len(s) : (s \o <<x>>)[i] = s[i]
OBVIOUS

LEMMA SameElements ==
  ASSUME NEW D, NEW s \in Seq(D), NEW t \in Seq(D), Len(s) = Len(t),
         \A k \in 1..Len(s) : s[k] = t[k]
  PROVE  s = t
OBVIOUS

-----------------------------------------------------------------------------
(* The inductive invariant.                                                *)

\* The list at a push: bits b, numbers n and the pairs q they stand for.  A
\* number that is no hole belongs to the pair that the numbers before it count
\* to, and its left side is counted by the bits before it.
Stands(b, n, q) ==
  /\ Count(Marked(n), 0, Len(n)) = Len(q)
  /\ \A p \in Marked(n) :
       q[Count(Marked(n), 0, p) + 1] = <<1 + Count(Marked(b), 0, p), n[p + 1]>>

\* How far the bits are, and the left sides they close.
Level ==
  /\ nums = <<>> => bits = <<>> /\ lastLeft = 0
  /\ nums # <<>> => lastLeft >= 1
  /\ Len(bits) = IF phase = "pushing" /\ nums # <<>> THEN Len(nums) - 1 ELSE Len(nums)
  /\ Count(Marked(bits), 0, Len(bits)) =
       IF phase = "pushing" /\ nums # <<>> THEN lastLeft - 1 ELSE lastLeft
  /\ phase = "built" => index = BuildIndex(bits)

\* The numbers and holes of the left sides so far.
Few == Len(nums) <= IF lastLeft = 0 THEN 0 ELSE (lastLeft - 1) * MaxRight + lastRight

Typed == /\ phase \in {"pushing", "built"}
         /\ bits \in Seq({0, 1}) /\ nums \in Seq(0..MaxRight)
         /\ lastLeft \in 0..MaxLeft /\ lastRight \in 0..MaxRight
         /\ pairs \in Seq(Pair) /\ yielded \in Seq(Pair)
         /\ iter \in [pos : Nat, left : Nat]

\* A hole is the only entry of its left side: its bit closes that side, and the
\* bit before it the side before.
Alone(b, n) ==
  \A p \in 0..(Len(n)-1) :
    \/ p \in Marked(n)
    \/ p \in Marked(b) /\ (p = 0 \/ p - 1 \in Marked(b))

\* Where the iterator is and what it has returned.
Iterates ==
  /\ phase = "pushing" => iter = Start /\ yielded = <<>>
  /\ iter.pos <= Len(nums)
  /\ iter.left = 1 + Count(Marked(bits), 0, iter.pos)
  /\ Len(yielded) = Count(Marked(nums), 0, iter.pos)
  /\ \A k \in 1..Len(yielded) : yielded[k] = pairs[k]

IInv == /\ Typed /\ Level /\ Few /\ Iterates
        /\ Stands(bits, nums, pairs) /\ Alone(bits, nums)

-----------------------------------------------------------------------------
(* The invariant implies the properties.                                   *)

LEMMA FewAreFew ==
  ASSUME Typed, Few
  PROVE  Len(nums) <= MaxLeft * MaxRight
<1>1. MaxLeft \in Nat \ {0} /\ MaxRight \in Nat \ {0}
  BY Sizes
<1>2. CASE lastLeft = 0
  <2>1. 0 * MaxRight <= MaxLeft * MaxRight
    BY <1>1, MulMonotonic
  <2>. QED  BY <1>1, <1>2, <2>1 DEF Few, Typed
<1>3. CASE lastLeft # 0
  <2>1. lastLeft \in 1..MaxLeft /\ lastRight \in 0..MaxRight /\ Len(nums) \in Nat
    BY <1>3 DEF Typed
  <2>2. lastLeft * MaxRight <= MaxLeft * MaxRight
    BY <1>1, <2>1, MulMonotonic
  <2>3. (lastLeft - 1) * MaxRight = lastLeft * MaxRight - MaxRight
    BY <1>1, <2>1
  <2>4. Len(nums) <= (lastLeft - 1) * MaxRight + lastRight
    BY <1>3 DEF Few
  <2>5. lastLeft * MaxRight \in Nat /\ MaxLeft * MaxRight \in Nat
    BY <1>1, <2>1
  <2>. QED  BY <1>1, <2>1, <2>2, <2>3, <2>4, <2>5
<1>. QED  BY <1>2, <1>3

LEMMA InvariantTypes ==
  ASSUME IInv
  PROVE  TypeOK
<1>1. iter.pos \in 0..Len(nums)
  BY DEF IInv, Typed, Iterates
<1>2. iter.left \in 1..(lastLeft + 1)
  <2>0. Len(bits) \in Nat
    BY DEF IInv, Typed
  <2>1. iter.pos \in 0..Len(bits)
    BY <1>1 DEF IInv, Typed, Level, Iterates, Start
  <2>2. Count(Marked(bits), 0, iter.pos) <= Count(Marked(bits), 0, Len(bits))
    BY <2>0, <2>1, CountGrows
  <2>3. Count(Marked(bits), 0, iter.pos) \in Nat
    <3>1. iter.pos \in Int
      BY <2>0, <2>1
    <3>. QED  BY <3>1, CountType
  <2>. DEFINE all == Count(Marked(bits), 0, Len(bits))
  <2>6. all \in Nat
    BY <2>0, CountType
  <2>4. all <= lastLeft /\ lastLeft \in Nat
    BY DEF IInv, Level, Typed
  <2>5. iter.left = 1 + Count(Marked(bits), 0, iter.pos)
    BY DEF IInv, Iterates
  <2>. QED  BY <2>2, <2>3, <2>4, <2>5, <2>6
<1>3. Len(nums) <= MaxLeft * MaxRight
  BY FewAreFew DEF IInv
<1>. QED  BY <1>1, <1>2, <1>3 DEF IInv, Typed, TypeOK, Pair

LEMMA InvariantLags ==
  ASSUME IInv
  PROVE  BitsLag
BY IndexConsistent DEF IInv, Typed, Level, BitsLag

\* The entries the iterator has yet to come to, by the bits and the numbers.
LEMMA AheadIsMarked ==
  ASSUME IInv, phase = "built"
  PROVE  /\ RightCount = Len(nums) /\ Len(nums) \in Nat /\ Len(bits) = Len(nums)
         /\ Ahead = {p \in iter.pos..(Len(nums)-1) : p \in Marked(nums)}
<1>1. RightCount = Len(bits)
  BY IndexConsistent DEF IInv, Typed, Level, RightCount
<1>2. Len(bits) = Len(nums) /\ Len(nums) \in Nat /\ iter.pos \in Nat
  BY DEF IInv, Typed, Level
<1>. QED  BY <1>1, <1>2 DEF Ahead, NumAt, Marked

LEMMA InvariantYields ==
  ASSUME IInv
  PROVE  IteratorYieldsPairs
<1>1. /\ Len(yielded) \in Nat /\ Len(pairs) \in Nat /\ Len(nums) \in Nat
      /\ iter.pos \in 0..Len(nums)
  BY DEF IInv, Typed, Iterates
<1>2. Len(yielded) <= Len(pairs)
  <2>1. Count(Marked(nums), 0, iter.pos) <= Count(Marked(nums), 0, Len(nums))
    BY <1>1, CountGrows
  <2>. QED  BY <2>1 DEF IInv, Stands, Iterates
<1>3. yielded = SubSeq(pairs, 1, Len(yielded))
  BY <1>1, <1>2 DEF IInv, Typed, Iterates
<1>4. ASSUME phase = "built", Ahead = {}
      PROVE  yielded = pairs
  <2>1. \A p \in iter.pos..(Len(nums)-1) : p \notin Marked(nums)
    BY <1>4, AheadIsMarked
  <2>2. Count(Marked(nums), iter.pos, Len(nums)) = 0
    BY <1>1, <2>1, CountNone
  <2>3. Count(Marked(nums), 0, Len(nums)) =
          Count(Marked(nums), 0, iter.pos) + Count(Marked(nums), iter.pos, Len(nums))
    BY <1>1, CountSplit
  <2>4. Len(yielded) = Len(pairs)
    BY <1>1, <2>2, <2>3 DEF IInv, Stands, Iterates
  <2>5. yielded \in Seq(Pair) /\ pairs \in Seq(Pair)
    BY DEF IInv, Typed
  <2>6. \A k \in 1..Len(yielded) : yielded[k] = pairs[k]
    BY DEF IInv, Iterates
  <2>. HIDE DEF Pair
  <2>. QED  BY <2>4, <2>5, <2>6, SameElements
<1>5. \E n \in 0..Len(pairs) : yielded = SubSeq(pairs, 1, n)
  <2>1. Len(yielded) \in 0..Len(pairs)
    BY <1>1, <1>2
  <2>. QED  BY <1>3, <2>1
<1>. QED  BY <1>4, <1>5 DEF IteratorYieldsPairs

\* The left side of a position, which a rank finds, is the one of the pair that
\* the numbers up to it count to.
LEMMA InvariantShows ==
  ASSUME IInv
  PROVE  PositionsShowPairs
<1>. SUFFICES ASSUME phase = "built"
              PROVE  LET shown == {p \in 0..(RightCount-1) : NumAt(p) # 0}
                     IN  /\ Cardinality(shown) = Len(pairs)
                         /\ \A p \in shown :
                              PairAtPos(p) = pairs[Cardinality({q \in shown : q <= p})]
  BY DEF PositionsShowPairs
<1>. DEFINE shown == {p \in 0..(RightCount-1) : NumAt(p) # 0}
            M == Marked(nums)
<1>1. /\ RightCount = Len(nums) /\ Len(nums) \in Nat /\ Len(bits) = Len(nums)
      /\ index = BuildIndex(bits) /\ bits \in Seq({0, 1})
  BY AheadIsMarked DEF IInv, Typed, Level
<1>2. shown = M
  BY <1>1 DEF NumAt, Marked
<1>3. M \cap (0..(Len(nums)-1)) = M
  BY DEF Marked
<1>4. Cardinality(shown) = Len(pairs)
  <2>1. Count(M, 0, Len(nums)) = Len(pairs)
    BY DEF IInv, Stands
  <2>. QED  BY <1>2, <1>3, <2>1 DEF Count
<1>5. ASSUME NEW p \in shown
      PROVE  PairAtPos(p) = pairs[Cardinality({q \in shown : q <= p})]
  <2>1. p \in M /\ p \in 0..(Len(nums)-1) /\ p \in Nat
    BY <1>1, <1>2 DEF Marked
  <2>2. {q \in shown : q <= p} = M \cap (0..((p+1)-1))
    BY <1>1, <1>2, <2>1 DEF Marked
  <2>3. Cardinality({q \in shown : q <= p}) = Count(M, 0, p) + 1
    <3>1. Count(M, 0, p + 1) = Count(M, 0, p) + 1
      BY <2>1, CountStep
    <3>. QED  BY <2>2, <3>1 DEF Count
  <2>4. pairs[Count(M, 0, p) + 1] = <<1 + Count(Marked(bits), 0, p), nums[p + 1]>>
    BY <2>1 DEF IInv, Stands
  <2>5. LeftAtPos(p) = 1 + Count(Marked(bits), 0, p)
    <3>1. CASE p = 0
      <4>1. Count(Marked(bits), 0, 0) = 0
        BY CountNone
      <4>. QED  BY <3>1, <4>1 DEF LeftAtPos
    <3>2. CASE p # 0
      <4>1. p - 1 \in 0..(Len(bits)-1) /\ (p - 1) + 1 = p
        BY <1>1, <2>1, <3>2
      <4>2. Rank1(index, p - 1) = Count(Marked(bits), 0, p)
        BY <1>1, <4>1, Rank1Counts
      <4>3. Count(Marked(bits), 0, p) \in Nat
        BY <2>1, CountType
      <4>. QED  BY <3>2, <4>2, <4>3 DEF LeftAtPos
    <3>. QED  BY <3>1, <3>2
  <2>. QED  BY <2>3, <2>4, <2>5 DEF PairAtPos, NumAt
<1>. QED  BY <1>4, <1>5

-----------------------------------------------------------------------------
(* The slice of a left side.                                               *)

\* A left side ends at the one of its number, and starts behind the one of the
\* side before.
LEMMA SliceEnds ==
  ASSUME IInv, phase = "built", NEW left \in 1..lastLeft
  PROVE  LET O == Marked(bits)
             a == OffsetFor(left)
             e == Select(index, 1, left)
         IN  /\ a \in 0..e /\ e \in 0..(Len(nums)-1)
             /\ Count(O, 0, a) = left - 1 /\ Count(O, 0, e) = left - 1
             /\ e \in O /\ (a = 0 \/ a - 1 \in O)
<1>. DEFINE O == Marked(bits)
            T == Sought(bits, 1)
            N == Len(nums)
<1>1. /\ bits \in Seq({0, 1}) /\ N \in Nat /\ Len(bits) = N /\ index = BuildIndex(bits)
      /\ lastLeft \in Nat /\ Count(O, 0, N) = lastLeft
  BY DEF IInv, Typed, Level
<1>2. ASSUME NEW b \in Nat PROVE Count(T, 0, b) = Count(O, 0, b)
  BY <1>1, SoughtCount
<1>. HIDE DEF T, O, N
<1>3. ASSUME NEW n \in 1..lastLeft
      PROVE  LET p == Select(index, 1, n)
             IN  p \in 0..(N-1) /\ p \in O /\ Count(O, 0, p + 1) = n
  <2>1. n \in 1..Count(O, 0, N) /\ 0 \in Int /\ N \in Int /\ 0 <= N
    BY <1>1
  <2>2. PICK p \in 0..(N-1) : p \in O /\ Count(O, 0, p + 1) = n
    BY <2>1, CountReaches
  <2>3. p \in T /\ p \in 0..(Len(bits)-1)
    BY <1>1, <2>2, SoughtIn DEF T, O
  <2>4. NumberFrom(bits, 1, 0, p) = n
    BY <1>2, <2>2 DEF NumberFrom, T
  <2>. DEFINE one == 1
  <2>5. one \in {0, 1} /\ one = 1 /\ 0 \in 0..p
    BY <2>3
  <2>6. p \in Sought(bits, one)
    BY <2>3 DEF T
  <2>. HIDE DEF one
  <2>7. SelectFromRange(BuildIndex(bits), one, NumberFrom(bits, one, 0, p), 0, NoEnd) = p
    BY <1>1, <2>3, <2>5, <2>6, SelectAt
  <2>8. Select(index, 1, n) = p
    BY <1>1, <2>4, <2>5, <2>7 DEF Select
  <2>. QED  BY <2>2, <2>8
<1>. DEFINE e == Select(index, 1, left)
            a == OffsetFor(left)
<1>4. e \in 0..(N-1) /\ e \in O /\ Count(O, 0, e) = left - 1
  <2>1. e \in 0..(N-1) /\ e \in O /\ Count(O, 0, e + 1) = left
    BY <1>3
  <2>. HIDE DEF e
  <2>3. e \in Int /\ 0 <= e
    BY <1>1, <2>1
  <2>2. Count(O, 0, e + 1) = Count(O, 0, e) + 1 /\ Count(O, 0, e) \in Nat
    BY <2>1, <2>3, CountStep, CountType
  <2>. QED  BY <2>1, <2>2
<1>5. /\ a \in Nat /\ Count(O, 0, a) = left - 1
      /\ a = 0 \/ a - 1 \in O
  <2>1. CASE left = 1
    <3>1. a = 0
      BY <2>1 DEF OffsetFor
    <3>2. Count(O, 0, 0) = 0
      BY CountNone
    <3>. QED  BY <2>1, <3>1, <3>2
  <2>2. CASE left # 1
    <3>. DEFINE d == Select(index, 1, left - 1)
    <3>1. left - 1 \in 1..lastLeft
      BY <1>1, <2>2
    <3>2. d \in 0..(N-1) /\ d \in O /\ Count(O, 0, d + 1) = left - 1
      BY <1>3, <3>1
    <3>3. a = d + 1
      BY <2>2 DEF OffsetFor
    <3>. HIDE DEF d, a
    <3>. QED  BY <1>1, <3>2, <3>3
  <2>. QED  BY <2>1, <2>2
<1>. HIDE DEF a, e
<1>6. a <= e
  <2>. SUFFICES ASSUME e + 1 <= a PROVE FALSE
    BY <1>1, <1>4, <1>5
  <2>1. Count(O, 0, e + 1) = Count(O, 0, e) + 1
    BY <1>1, <1>4, CountStep
  <2>2. Count(O, 0, e + 1) <= Count(O, 0, a)
    <3>1. 0 <= e + 1 /\ e + 1 \in Int /\ a \in Int
      BY <1>1, <1>4, <1>5
    <3>. QED  BY <3>1, CountGrows
  <2>. QED  BY <1>4, <1>5, <2>1, <2>2
<1>. QED  BY <1>1, <1>4, <1>5, <1>6 DEF a, e, O, N

\* The pairs of a left side are those of its slice, unless that is a hole.
LEMMA InvariantGets ==
  ASSUME IInv
  PROVE  GetShowsRights
<1>. SUFFICES ASSUME phase = "built"
              PROVE  /\ LeftCount = lastLeft
                     /\ \A left \in 1..LeftCount :
                          LET own == {k \in 1..Len(pairs) : pairs[k][1] = left}
                          IN  IF own = {} THEN Rights(left) = <<0>>
                              ELSE /\ Len(Rights(left)) = Cardinality(own)
                                   /\ \A k \in own :
                                        Rights(left)[Cardinality({j \in own : j <= k})]
                                          = pairs[k][2]
  BY DEF GetShowsRights
<1>. DEFINE O == Marked(bits)
            M == Marked(nums)
            N == Len(nums)
<1>1. /\ bits \in Seq({0, 1}) /\ N \in Nat /\ Len(bits) = N /\ index = BuildIndex(bits)
      /\ lastLeft \in Nat /\ Count(O, 0, N) = lastLeft /\ index.len = N
      /\ nums \in Seq(0..MaxRight) /\ pairs \in Seq(Pair) /\ Len(pairs) \in Nat
  BY AheadIsMarked DEF IInv, Typed, Level, RightCount
<1>2. LeftCount = lastLeft
  <2>1. CASE N = 0
    <3>1. Count(O, 0, 0) = 0
      BY CountNone
    <3>. QED  BY <1>1, <2>1, <3>1 DEF LeftCount
  <2>2. CASE N # 0
    <3>1. N - 1 \in 0..(Len(bits)-1) /\ (N - 1) + 1 = N
      BY <1>1, <2>2
    <3>2. Rank1(index, N - 1) = Count(O, 0, N)
      BY <1>1, <3>1, Rank1Counts
    <3>. QED  BY <1>1, <2>2, <3>2 DEF LeftCount
  <2>. QED  BY <2>1, <2>2
<1>3. /\ Count(M, 0, N) = Len(pairs)
      /\ \A p \in M : pairs[Count(M, 0, p) + 1] = <<1 + Count(O, 0, p), nums[p + 1]>>
      /\ \A p \in 0..(N-1) : p \in M \/ (p \in O /\ (p = 0 \/ p - 1 \in O))
  BY DEF IInv, Stands, Alone
<1>. HIDE DEF O, M, N
<1>4. ASSUME NEW left \in 1..lastLeft
      PROVE  LET own == {k \in 1..Len(pairs) : pairs[k][1] = left}
             IN  IF own = {} THEN Rights(left) = <<0>>
                 ELSE /\ Len(Rights(left)) = Cardinality(own)
                      /\ \A k \in own :
                           Rights(left)[Cardinality({j \in own : j <= k})] = pairs[k][2]
  <2>. DEFINE own == {k \in 1..Len(pairs) : pairs[k][1] = left}
              a == OffsetFor(left)
              e == Select(index, 1, left)
              c == Count(M, 0, a)
  <2>1. /\ a \in 0..e /\ e \in 0..(N-1)
        /\ Count(O, 0, a) = left - 1 /\ Count(O, 0, e) = left - 1
        /\ e \in O /\ (a = 0 \/ a - 1 \in O)
    BY SliceEnds DEF O, N
  <2>2. Rights(left) = SubSeq(nums, a + 1, e + 1)
    BY DEF Rights
  <2>. HIDE DEF a, e
  <2>3. /\ a \in Nat /\ e \in Nat /\ a <= e /\ e < N /\ c \in Nat /\ left \in Nat
    BY <1>1, <2>1, CountType
  <2>4. /\ Len(Rights(left)) = e - a + 1
        /\ \A i \in 1..(e-a+1) : Rights(left)[i] = nums[a + i]
        /\ Rights(left) \in Seq(0..MaxRight)
    <3>1. nums \in Seq(0..MaxRight) /\ a + 1 \in 1..(Len(nums)+1) /\ e + 1 \in a..Len(nums)
      BY <1>1, <2>3 DEF N
    <3>2. SubSeq(nums, a + 1, e + 1) \in Seq(0..MaxRight)
      <4>. DEFINE D == 0..MaxRight
                  from == a + 1
                  to == e + 1
      <4>3. from \in Int /\ to \in Int /\ \A i \in from..to : i \in 1..Len(nums)
        BY <2>3, <3>1
      <4>4. nums \in Seq(D)
        BY <3>1
      <4>. HIDE DEF D, from, to
      <4>1. from \in Int /\ to \in Int /\ \A i \in from..to : nums[i] \in D
        BY <4>3, <4>4
      <4>2. SubSeq(nums, from, to) \in Seq(D)
        BY <4>1, SubSeqProperties
      <4>. QED  BY <4>2 DEF D, from, to
    <3>3. Len(SubSeq(nums, a + 1, e + 1)) = e - a + 1
      BY <2>3, <3>1
    <3>4. ASSUME NEW i \in 1..(e-a+1)
          PROVE  SubSeq(nums, a + 1, e + 1)[i] = nums[a + i]
      BY <2>3, <3>1
    <3>. QED  BY <2>2, <3>2, <3>3, <3>4
  \* The positions of the slice are those that rank to this left side.
  <2>5. ASSUME NEW p \in a..e
        PROVE  Count(O, 0, p) = left - 1
    <3>1. p \in Int /\ 0 <= a /\ a <= p /\ p <= e /\ 0 <= p
      BY <2>3
    <3>2. Count(O, 0, a) <= Count(O, 0, p) /\ Count(O, 0, p) <= Count(O, 0, e)
      BY <2>3, <3>1, CountGrows
    <3>3. Count(O, 0, p) \in Nat
      BY <3>1, CountType
    <3>. QED  BY <2>1, <2>3, <3>2, <3>3
  <2>6. ASSUME NEW p \in 0..(N-1), Count(O, 0, p) = left - 1
        PROVE  p \in a..e
    <3>1. ~ (p < a)
      <4>. SUFFICES ASSUME p < a PROVE FALSE
        OBVIOUS
      <4>1. a # 0 /\ a - 1 \in O /\ a - 1 \in Int /\ 0 <= p /\ p \in Int /\ p <= a - 1 /\ 0 <= a - 1
        BY <1>1, <2>1, <2>3
      <4>2. Count(O, 0, (a - 1) + 1) = Count(O, 0, a - 1) + 1
        BY <4>1, CountStep
      <4>3. Count(O, 0, p) <= Count(O, 0, a - 1) /\ Count(O, 0, a - 1) \in Nat
        BY <4>1, CountGrows, CountType
      <4>4. (a - 1) + 1 = a
        BY <2>3
      <4>. QED  BY <2>1, <2>3, <2>6, <4>2, <4>3, <4>4
    <3>2. ~ (e < p)
      <4>. SUFFICES ASSUME e < p PROVE FALSE
        OBVIOUS
      <4>1. p \in Int /\ 0 <= e + 1 /\ e + 1 <= p /\ e + 1 \in Int
        BY <1>1, <2>3
      <4>2. Count(O, 0, e + 1) = Count(O, 0, e) + 1
        BY <2>1, <2>3, CountStep
      <4>3. Count(O, 0, e + 1) <= Count(O, 0, p)
        BY <4>1, CountGrows
      <4>. QED  BY <2>1, <2>3, <2>6, <4>2, <4>3
    <3>. QED  BY <1>1, <2>3, <3>1, <3>2
  \* A pair of this left side has a position in the slice.
  <2>7. ASSUME NEW k \in own
        PROVE  \E p \in a..e : p \in M /\ Count(M, 0, p) + 1 = k
    <3>1. k \in 1..Count(M, 0, N) /\ 0 \in Int /\ N \in Int /\ 0 <= N /\ pairs[k][1] = left
      BY <1>1, <1>3
    <3>2. PICK p \in 0..(N-1) : p \in M /\ Count(M, 0, p + 1) = k
      BY <3>1, CountReaches
    <3>3. p \in Int /\ 0 <= p
      BY <1>1
    <3>4. Count(M, 0, p + 1) = Count(M, 0, p) + 1 /\ Count(O, 0, p) \in Nat
      BY SMTT(30), <3>2, <3>3, CountStep, CountType
    <3>5. pairs[k] = <<1 + Count(O, 0, p), nums[p + 1]>>
      BY <1>3, <3>2, <3>4
    <3>6. 1 + Count(O, 0, p) = left
      BY <3>1, <3>5
    <3>7. Count(O, 0, p) = left - 1
      BY <2>3, <3>4, <3>6
    <3>. QED  BY <2>6, <3>2, <3>4, <3>7
  \* The pair at a position of the slice is one of this left side.
  <2>8. ASSUME NEW p \in a..e, p \in M
        PROVE  /\ Count(M, 0, p) + 1 \in own
               /\ pairs[Count(M, 0, p) + 1][2] = nums[p + 1]
    <3>. DEFINE k == Count(M, 0, p) + 1
    <3>1. p \in Int /\ 0 <= p /\ p + 1 \in Int /\ 0 <= p + 1 /\ p + 1 <= N /\ N \in Int
      BY <1>1, <2>3
    <3>2. Count(M, 0, p + 1) = k /\ Count(M, 0, p) \in Nat
      BY <2>8, <3>1, CountStep, CountType
    <3>3. Count(M, 0, p + 1) <= Count(M, 0, N)
      BY <3>1, CountGrows
    <3>4. pairs[k] = <<1 + Count(O, 0, p), nums[p + 1]>> /\ 1 + Count(O, 0, p) = left
      BY <1>3, <2>3, <2>5, <2>8
    <3>5. k \in 1..Len(pairs)
      BY <1>1, <1>3, <3>2, <3>3
    <3>. HIDE DEF k
    <3>6. k \in own /\ pairs[k][2] = nums[p + 1]
      BY <3>4, <3>5
    <3>. QED  BY <3>6 DEF k
  <2>. HIDE DEF own
  \* Where there is a hole there is nothing else.
  <2>9. ASSUME NEW p \in a..e, p \notin M
        PROVE  p = a /\ p = e
    <3>1. p \in 0..(N-1) /\ p \in Int /\ 0 <= p
      BY <1>1, <2>3
    <3>2. p \in O /\ (p = 0 \/ p - 1 \in O)
      BY <1>3, <2>9, <3>1
    <3>3. p = e
      <4>. SUFFICES ASSUME p # e PROVE FALSE
        OBVIOUS
      <4>1. p + 1 \in a..e
        BY <2>3
      <4>2. Count(O, 0, p + 1) = Count(O, 0, p) + 1
        BY <3>1, <3>2, CountStep
      <4>. QED  BY <2>3, <2>5, <4>1, <4>2
    <3>4. p = a
      <4>. SUFFICES ASSUME p # a PROVE FALSE
        OBVIOUS
      <4>1. p - 1 \in a..e /\ p - 1 \in O /\ 0 <= p - 1 /\ p - 1 \in Int /\ (p - 1) + 1 = p
        BY <2>3, <3>2
      <4>2. Count(O, 0, (p - 1) + 1) = Count(O, 0, p - 1) + 1
        BY <4>1, CountStep
      <4>. QED  BY <2>3, <2>5, <4>1, <4>2
    <3>. QED  BY <3>3, <3>4
  <2>10. CASE own = {}
    <3>1. a \in a..e
      BY <2>3
    <3>2. a \notin M
      BY <2>8, <2>10, <3>1
    <3>3. a = e
      BY <2>9, <3>1, <3>2
    <3>4. nums[a + 1] = 0
      BY <1>1, <2>3, <3>2 DEF M, N, Marked
    <3>5. Len(Rights(left)) = 1 /\ Rights(left)[1] = 0
      BY <2>3, <2>4, <3>3, <3>4
    <3>6. Rights(left) = <<0>>
      <4>1. <<0>> \in Seq(0..MaxRight) /\ Len(<<0>>) = 1 /\ <<0>>[1] = 0
        BY Sizes
      <4>2. \A i \in 1..1 : i = 1
        OBVIOUS
      <4>3. Rights(left) \in Seq(0..MaxRight)
        BY <2>4
      <4>4. \A i \in 1..Len(Rights(left)) : Rights(left)[i] = <<0>>[i]
        BY <3>5, <4>1, <4>2
      <4>. QED  BY <3>5, <4>1, <4>3, <4>4, SameElements
    <3>. QED  BY <2>10, <3>6 DEF own
  <2>11. CASE own # {}
    <3>1. \A p \in a..e : p \in M
      <4>. SUFFICES ASSUME NEW p \in a..e, p \notin M PROVE FALSE
        OBVIOUS
      <4>1. p = a /\ p = e
        BY <2>9
      <4>. QED  BY <2>3, <2>7, <2>11, <4>1
    <3>2. ASSUME NEW p \in a..e PROVE Count(M, 0, p) = c + (p - a)
      <4>1. p \in Int /\ 0 <= a /\ a <= p
        BY <2>3
      <4>2. \A q \in a..(p-1) : q \in M
        BY <2>3, <3>1
      <4>3. Count(M, a, p) = p - a
        BY <2>3, <4>1, <4>2, CountAll
      <4>4. Count(M, 0, p) = Count(M, 0, a) + Count(M, a, p)
        BY <2>3, <4>1, CountSplit
      <4>. QED  BY <4>3, <4>4
    <3>. HIDE DEF c
    <3>3. own = (c+1)..(c+(e-a)+1)
      <4>1. ASSUME NEW k \in own PROVE k \in (c+1)..(c+(e-a)+1)
        <5>1. PICK p \in a..e : Count(M, 0, p) + 1 = k
          BY <2>7
        <5>. QED  BY <2>3, <3>2, <5>1
      <4>2. ASSUME NEW k \in (c+1)..(c+(e-a)+1) PROVE k \in own
        <5>. DEFINE p == a + (k - c - 1)
        <5>1. p \in a..e /\ p - a = k - c - 1
          BY <2>3
        <5>. HIDE DEF p
        <5>2. Count(M, 0, p) + 1 = k
          BY <2>3, <3>2, <5>1
        <5>. QED  BY <2>8, <3>1, <5>1, <5>2
      <4>. QED  BY <4>1, <4>2
    <3>4. Cardinality(own) = e - a + 1
      <4>1. c + 1 \in Int /\ c + (e - a) + 1 \in Int /\ ~ (c + 1 > c + (e - a) + 1)
        BY <2>3
      <4>2. Cardinality((c+1)..(c+(e-a)+1)) = (c + (e - a) + 1) - (c + 1) + 1
        BY <4>1, FS_Interval
      <4>. QED  BY <2>3, <3>3, <4>2
    <3>5. ASSUME NEW k \in own
          PROVE  Rights(left)[Cardinality({j \in own : j <= k})] = pairs[k][2]
      <4>. DEFINE p == a + (k - c - 1)
      <4>1. /\ k \in Int /\ c + 1 <= k /\ p \in a..e /\ p - a = k - c - 1
            /\ p + 1 = a + (k - c) /\ k - c \in 1..(e-a+1)
        BY <2>3, <3>3
      <4>2. {j \in own : j <= k} = (c+1)..k
        BY <2>3, <3>3, <4>1
      <4>3. Cardinality((c+1)..k) = k - c
        <5>1. c + 1 \in Int /\ ~ (c + 1 > k)
          BY <2>3, <4>1
        <5>2. Cardinality((c+1)..k) = k - (c + 1) + 1
          BY <4>1, <5>1, FS_Interval
        <5>. QED  BY <2>3, <4>1, <5>2
      <4>. HIDE DEF p
      <4>4. Count(M, 0, p) + 1 = k
        BY <2>3, <3>2, <4>1
      <4>5. pairs[k][2] = nums[p + 1]
        BY <2>8, <3>1, <4>1, <4>4
      <4>6. Rights(left)[k - c] = nums[a + (k - c)]
        BY <2>4, <4>1
      <4>. QED  BY <4>1, <4>2, <4>3, <4>5, <4>6
    <3>. QED  BY <2>4, <2>11, <3>4, <3>5 DEF own
  <2>. QED  BY <2>10, <2>11
<1>. QED  BY <1>2, <1>4

-----------------------------------------------------------------------------
(* The invariant holds in the beginning and after every step.              *)

LEMMA EmptyMarked == Marked(<<>>) = {}
BY DEF Marked

LEMMA InitInvariant == Init => IInv
<1>. SUFFICES ASSUME Init PROVE IInv
  OBVIOUS
<1>1. Count(Marked(<<>>), 0, 0) = 0 /\ Marked(<<>>) = {} /\ Len(<<>>) = 0
  BY EmptyMarked, CountNone
<1>2. Typed
  BY Sizes DEF Init, Typed, Start
<1>3. Level /\ Few
  BY <1>1 DEF Init, Level, Few
<1>4. Stands(bits, nums, pairs)
  BY <1>1 DEF Init, Stands
<1>6. Alone(bits, nums)
  BY <1>1 DEF Init, Alone
<1>5. Iterates
  <2>1. iter.pos = 0 /\ iter.left = 1
    BY DEF Init, Start
  <2>. QED  BY <1>1, <2>1 DEF Init, Iterates
<1>. QED  BY <1>2, <1>3, <1>4, <1>5, <1>6 DEF IInv

\* A pair is pushed: bits are pushed that close the left sides before it, holes
\* that hold no pair, and its right side.
LEMMA PairStands ==
  ASSUME NEW b \in Seq({0, 1}), NEW n \in Seq(0..MaxRight), NEW q \in Seq(Pair),
         NEW c \in Seq({0, 1}), NEW m \in Seq(0..MaxRight),
         NEW left \in 1..MaxLeft, NEW right \in 1..MaxRight,
         Stands(b, n, q), Extends(c, b), Extends(m, n),
         Len(n) <= Len(b) + 1, Len(c) + 1 = Len(m), Len(n) < Len(m),
         \A i \in (Len(n)+1)..(Len(m)-1) : m[i] = 0, m[Len(m)] = right,
         Count(Marked(c), 0, Len(c)) = left - 1
  PROVE  Stands(c, m, Append(q, <<left, right>>))
<1>. DEFINE last == Len(m) - 1
            r == Append(q, <<left, right>>)
<1>1. /\ Len(n) \in Nat /\ Len(b) \in Nat /\ Len(c) \in Nat /\ Len(q) \in Nat
      /\ last \in Nat /\ last = Len(c) /\ Len(n) <= last /\ Len(m) = last + 1
  OBVIOUS
<1>. HIDE DEF last
<1>2. last \in Marked(m) /\ \A p \in Len(n)..(last-1) : p \notin Marked(m)
  <2>1. m[last + 1] # 0
    BY <1>1
  <2>2. ASSUME NEW p \in Len(n)..(last-1) PROVE m[p + 1] = 0
    <3>1. p + 1 \in (Len(n)+1)..(Len(m)-1)
      BY <1>1
    <3>. QED  BY <3>1
  <2>. QED  BY <1>1, <2>1, <2>2 DEF Marked
<1>3. Count(Marked(m), 0, Len(n)) = Len(q)
  <2>1. Len(n) \in 0..Len(n)
    BY <1>1
  <2>2. Count(Marked(m), 0, Len(n)) = Count(Marked(n), 0, Len(n))
    BY <2>1, CountExtended
  <2>. QED  BY <2>2 DEF Stands
<1>4. Count(Marked(m), 0, last) = Len(q)
  <2>0. 0 \in Int /\ Len(n) \in Int /\ last \in Int /\ 0 <= Len(n) /\ Len(n) <= last
    BY <1>1
  <2>1. Count(Marked(m), Len(n), last) = 0
    BY <2>0, <1>2, CountNone
  <2>2. Count(Marked(m), 0, last)
          = Count(Marked(m), 0, Len(n)) + Count(Marked(m), Len(n), last)
    BY <2>0, CountSplit
  <2>. QED  BY <1>1, <1>3, <2>1, <2>2
<1>5. Count(Marked(m), 0, Len(m)) = Len(q) + 1
  <2>1. Count(Marked(m), 0, last + 1) = Count(Marked(m), 0, last) + 1
    BY <1>1, <1>2, CountStep
  <2>. QED  BY <1>1, <1>4, <2>1
<1>6. Len(r) = Len(q) + 1 /\ r[Len(q) + 1] = <<left, right>> /\ \A k \in 1..Len(q) : r[k] = q[k]
  OBVIOUS
<1>7. ASSUME NEW p \in Marked(m)
      PROVE  r[Count(Marked(m), 0, p) + 1] = <<1 + Count(Marked(c), 0, p), m[p + 1]>>
  <2>1. CASE p = last
    <3>1. m[p + 1] = right /\ 1 + Count(Marked(c), 0, p) = left
      BY <1>1, <2>1
    <3>. QED  BY <1>4, <1>6, <2>1, <3>1
  <2>2. CASE p # last
    <3>1. p \in 0..(Len(n)-1)
      BY <1>1, <1>2, <2>2 DEF Marked
    <3>2. p \in Marked(n) /\ m[p + 1] = n[p + 1]
      BY <1>1, <3>1 DEF Marked, Extends
    <3>3. Count(Marked(m), 0, p) = Count(Marked(n), 0, p)
      <4>1. p \in 0..Len(n)
        BY <1>1, <3>1
      <4>. QED  BY <4>1, CountExtended
    <3>4. Count(Marked(c), 0, p) = Count(Marked(b), 0, p)
      <4>1. p \in 0..Len(b)
        BY <1>1, <3>1
      <4>. QED  BY <4>1, CountExtended
    <3>5. Count(Marked(n), 0, p) + 1 \in 1..Len(q)
      <4>1. Count(Marked(n), 0, p + 1) = Count(Marked(n), 0, p) + 1
        BY <3>1, <3>2, CountStep
      <4>2. Count(Marked(n), 0, p + 1) <= Count(Marked(n), 0, Len(n))
        <5>1. p + 1 \in Int /\ 0 <= p + 1 /\ p + 1 <= Len(n)
          BY <1>1, <3>1
        <5>. QED  BY <1>1, <5>1, CountGrows
      <4>3. Count(Marked(n), 0, p) \in Nat
        BY <3>1, CountType
      <4>. QED  BY <1>1, <4>1, <4>2, <4>3 DEF Stands
    <3>. QED  BY <1>6, <3>2, <3>3, <3>4, <3>5 DEF Stands
  <2>. QED  BY <2>1, <2>2
<1>. QED  BY <1>5, <1>6, <1>7 DEF Stands

LEMMA BitsClosed ==
  ASSUME NEW b \in Seq({0, 1}), NEW k \in Nat
  PROVE  LET c == b \o Times(k, 1)
         IN  Count(Marked(c), 0, Len(c)) = Count(Marked(b), 0, Len(b)) + k
<1>. DEFINE c == b \o Times(k, 1)
<1>0. c \in Seq({0, 1}) /\ Adds(c, b, k, 1)
  <2>1. 1 \in {0, 1}
    OBVIOUS
  <2>. QED  BY <2>1, AddedTimes
<1>1. /\ c \in Seq({0, 1}) /\ Len(c) = Len(b) + k /\ Extends(c, b)
      /\ \A i \in (Len(b)+1)..(Len(b)+k) : c[i] = 1
  BY <1>0 DEF Adds
<1>. HIDE DEF c
<1>2. Len(b) \in 0..Len(b) /\ Len(b) \in Nat
  OBVIOUS
<1>3. Count(Marked(c), 0, Len(b)) = Count(Marked(b), 0, Len(b))
  BY <1>1, <1>2, CountExtended
<1>4. \A p \in Len(b)..(Len(c)-1) : p \in Marked(c)
  <2>1. \A p \in Len(b)..(Len(c)-1) : p + 1 \in (Len(b)+1)..(Len(b)+k) /\ c[p + 1] = 1
    BY <1>1, <1>2
  <2>. QED  BY <1>1, <1>2, <2>1 DEF Marked
<1>5. Count(Marked(c), Len(b), Len(c)) = Len(c) - Len(b)
  BY <1>1, <1>2, <1>4, CountAll
<1>6. Count(Marked(c), 0, Len(c)) = Count(Marked(c), 0, Len(b)) + Count(Marked(c), Len(b), Len(c))
  BY <1>1, <1>2, CountSplit
<1>7. Count(Marked(c), 0, Len(c)) = Count(Marked(b), 0, Len(b)) + k
  BY <1>1, <1>2, <1>3, <1>5, <1>6
<1>. QED  BY <1>7 DEF c

LEMMA BitLeftOpen ==
  ASSUME NEW b \in Seq({0, 1})
  PROVE  LET c == b \o <<0>>
         IN  Count(Marked(c), 0, Len(c)) = Count(Marked(b), 0, Len(b))
<1>. DEFINE c == b \o <<0>>
<1>1. /\ c \in Seq({0, 1}) /\ Len(c) = Len(b) + 1 /\ c[Len(b) + 1] = 0
      /\ Extends(c, b) /\ Len(b) \in Nat
  BY DEF Extends
<1>. HIDE DEF c
<1>2. Len(b) \notin Marked(c)
  BY <1>1 DEF Marked
<1>3. Len(b) \in 0..Len(b)
  BY <1>1
<1>4. Count(Marked(c), 0, Len(b)) = Count(Marked(b), 0, Len(b))
  BY <1>1, <1>3, CountExtended
<1>5. Count(Marked(c), 0, Len(b) + 1) = Count(Marked(c), 0, Len(b)) + 0
  BY <1>1, <1>2, CountStep
<1>6. Count(Marked(b), 0, Len(b)) \in Nat
  BY <1>1, CountType
<1>. QED  BY <1>1, <1>4, <1>5, <1>6 DEF c

\* What a push adds: bits that bring the left sides closed up to the one before
\* the pair's, holes, and the pair's right side.
LEMMA PushAdds ==
  ASSUME IInv, NEW left \in 1..MaxLeft, NEW right \in 1..MaxRight, Push(left, right)
  PROVE  /\ bits' \in Seq({0, 1}) /\ nums' \in Seq(0..MaxRight)
         /\ Extends(bits', bits) /\ Extends(nums', nums)
         /\ Len(bits') + 1 = Len(nums')
         /\ Len(nums') = Len(nums) + (IF left = lastLeft THEN 1 ELSE left - lastLeft)
         /\ \A i \in (Len(nums)+1)..(Len(nums')-1) : nums'[i] = 0
         /\ nums'[Len(nums')] = right
         /\ Count(Marked(bits'), 0, Len(bits')) = left - 1
         /\ left # lastLeft => \A i \in (Len(bits)+1)..Len(bits') : bits'[i] = 1
<1>. DEFINE skip == left - lastLeft
            ones == Count(Marked(bits), 0, Len(bits))
<1>1. /\ bits \in Seq({0, 1}) /\ nums \in Seq(0..MaxRight)
      /\ lastLeft \in Nat /\ left \in Nat \ {0} /\ right \in 0..MaxRight
      /\ Len(bits) \in Nat /\ Len(nums) \in Nat /\ skip \in Nat /\ phase = "pushing"
  BY Sizes DEF IInv, Typed, Push, Ordered
<1>2. /\ Len(bits) = IF nums # <<>> THEN Len(nums) - 1 ELSE Len(nums)
      /\ ones = IF nums # <<>> THEN lastLeft - 1 ELSE lastLeft
      /\ nums # <<>> <=> lastLeft >= 1
      /\ nums = <<>> => bits = <<>>
  BY <1>1 DEF IInv, Level
<1>5. /\ Len(bits) = IF lastLeft = 0 THEN Len(nums) ELSE Len(nums) - 1
      /\ ones = IF lastLeft = 0 THEN lastLeft ELSE lastLeft - 1
  BY <1>1, <1>2
<1>6. lastLeft \in Nat /\ left \in Nat /\ Len(bits) \in Nat /\ Len(nums) \in Nat
  BY <1>1
<1>3. CASE skip = 0
  <2>1. bits' = bits \o <<0>> /\ nums' = nums \o <<>> \o <<right>>
    BY <1>3 DEF Push
  <2>2. nums # <<>> /\ left = lastLeft
    BY <1>1, <1>2, <1>3
  <2>3. /\ bits \o <<0>> \in Seq({0, 1}) /\ Len(bits \o <<0>>) = Len(bits) + 1
        /\ Extends(bits \o <<0>>, bits)
    BY <1>1 DEF Extends
  <2>4. nums \o <<>> = nums
    BY <1>1
  <2>5. /\ nums \o <<right>> \in Seq(0..MaxRight)
        /\ Len(nums \o <<right>>) = Len(nums) + 1
        /\ Extends(nums \o <<right>>, nums)
        /\ (nums \o <<right>>)[Len(nums) + 1] = right
    BY <1>1 DEF Extends
  <2>6. Count(Marked(bits \o <<0>>), 0, Len(bits \o <<0>>)) = left - 1
    BY <1>1, <1>2, <2>2, BitLeftOpen
  <2>. QED  BY <1>1, <1>2, <2>1, <2>2, <2>3, <2>4, <2>5, <2>6
<1>4. CASE skip # 0
  <2>. DEFINE k == IF lastLeft = 0 THEN skip - 1 ELSE skip
              c == bits \o Times(k, 1)
              m == nums \o Times(skip - 1, 0)
  <2>1. bits' = c /\ nums' = m \o <<right>>
    BY <1>4 DEF Push, ClosingBits, Holes
  <2>2. k \in Nat /\ skip - 1 \in Nat /\ 0 \in 0..MaxRight /\ 1 \in {0, 1}
    BY <1>1, <1>4, Sizes
  <2>5. Count(Marked(c), 0, Len(c)) = ones + k
    BY <1>1, <2>2, BitsClosed
  <2>11. c \in Seq({0, 1}) /\ Adds(c, bits, k, 1)
    <3>. HIDE DEF k
    <3>. QED  BY <1>1, <2>2, AddedTimes
  <2>12. m \in Seq(0..MaxRight) /\ Adds(m, nums, skip - 1, 0)
    <3>. HIDE DEF skip
    <3>. QED  BY <1>1, <2>2, AddedTimes
  <2>. HIDE DEF skip, ones, k, c, m
  <2>3. /\ c \in Seq({0, 1}) /\ Len(c) = Len(bits) + k /\ Extends(c, bits)
        /\ \A i \in (Len(bits)+1)..Len(c) : c[i] = 1
    BY <2>11 DEF Adds
  <2>4. /\ m \in Seq(0..MaxRight) /\ Len(m) = Len(nums) + (skip - 1) /\ Extends(m, nums)
        /\ \A i \in (Len(nums)+1)..(Len(nums)+(skip-1)) : m[i] = 0
    BY <2>12 DEF Adds
  <2>6. ones + k = left - 1 /\ Len(bits) + k = Len(nums) + (skip - 1)
    BY <1>4, <1>5, <1>6 DEF skip, k
  <2>7. /\ m \o <<right>> \in Seq(0..MaxRight) /\ Len(m \o <<right>>) = Len(m) + 1
        /\ (m \o <<right>>)[Len(m) + 1] = right
        /\ \A i \in 1..Len(m) : (m \o <<right>>)[i] = m[i]
    <3>1. m \in Seq(0..MaxRight) /\ right \in 0..MaxRight
      BY <1>1, <2>4
    <3>. QED  BY <3>1, AddedLast
  <2>13. Len(nums) <= Len(m) /\ Len(m) \in Nat /\ \A i \in 1..Len(nums) : m[i] = nums[i]
    BY <1>1, <2>2, <2>4 DEF Extends
  <2>8. /\ Extends(m \o <<right>>, nums)
        /\ \A i \in (Len(nums)+1)..Len(m) : (m \o <<right>>)[i] = 0
    <3>1. \A i \in 1..Len(nums) : i \in 1..Len(m)
      BY <1>6, <2>13
    <3>2. \A i \in (Len(nums)+1)..Len(m) :
            i \in 1..Len(m) /\ i \in (Len(nums)+1)..(Len(nums)+(skip-1))
      BY <1>6, <2>4, <2>13
    <3>3. Extends(m \o <<right>>, nums)
      BY <1>6, <2>7, <2>13, <3>1 DEF Extends
    <3>4. \A i \in (Len(nums)+1)..Len(m) : (m \o <<right>>)[i] = 0
      BY <2>4, <2>7, <3>2
    <3>. QED  BY <3>3, <3>4
  <2>9. left # lastLeft /\ Len(m) + 1 = Len(nums) + (left - lastLeft) /\ Len(m) = Len(c)
    BY <1>1, <1>4, <2>2, <2>3, <2>4, <2>6 DEF skip
  <2>10. Len(m \o <<right>>) - 1 = Len(m)
    BY <1>1, <2>2, <2>4, <2>7
  <2>. QED  BY <2>1, <2>3, <2>5, <2>6, <2>7, <2>8, <2>9, <2>10
<1>. QED  BY <1>3, <1>4

\* The holes that are pushed, each between two bits that close a left side.
LEMMA AloneStays ==
  ASSUME IInv, NEW left \in 1..MaxLeft, NEW right \in 1..MaxRight, Push(left, right)
  PROVE  Alone(bits', nums')
<1>1. /\ bits' \in Seq({0, 1}) /\ nums' \in Seq(0..MaxRight)
      /\ Extends(bits', bits) /\ Extends(nums', nums)
      /\ Len(bits') + 1 = Len(nums')
      /\ Len(nums') = Len(nums) + (IF left = lastLeft THEN 1 ELSE left - lastLeft)
      /\ nums'[Len(nums')] = right
      /\ left # lastLeft => \A i \in (Len(bits)+1)..Len(bits') : bits'[i] = 1
  BY PushAdds
<1>2. bits \in Seq({0, 1}) /\ nums \in Seq(0..MaxRight) /\ phase = "pushing"
  BY DEF IInv, Typed, Push
<1>3. /\ Len(bits) \in Nat /\ Len(nums) \in Nat /\ Len(bits') \in Nat /\ Len(nums') \in Nat
      /\ Len(nums) # 0 => Len(bits) = Len(nums) - 1
      /\ Len(nums) = 0 => Len(bits) = 0
  BY <1>1, <1>2 DEF IInv, Level
<1>4. ASSUME NEW p \in 0..(Len(nums)-1), p \notin Marked(nums')
      PROVE  p \in Marked(bits') /\ (p = 0 \/ p - 1 \in Marked(bits'))
  <2>1. p \notin Marked(nums)
    BY <1>1, <1>2, <1>3, <1>4 DEF Marked, Extends
  <2>2. p \in Marked(bits) /\ (p = 0 \/ p - 1 \in Marked(bits))
    BY <2>1 DEF IInv, Alone
  <2>. QED  BY <1>1, <1>2, <1>3, <2>2 DEF Marked, Extends
<1>5. ASSUME NEW p \in Len(nums)..(Len(nums')-1), p \notin Marked(nums')
      PROVE  p \in Marked(bits') /\ (p = 0 \/ p - 1 \in Marked(bits'))
  <2>1. p # Len(nums') - 1
    BY <1>1, <1>3, <1>5 DEF Marked
  <2>2. left # lastLeft
    BY <1>1, <1>3, <2>1
  <2>3. \A q \in Len(bits)..(Len(bits')-1) : q \in Marked(bits')
    <3>1. \A q \in Len(bits)..(Len(bits')-1) : bits'[q + 1] = 1
      BY <1>1, <1>3, <2>2
    <3>. QED  BY <1>3, <3>1 DEF Marked
  <2>4. p \in Len(bits)..(Len(bits')-1) /\ (p = 0 \/ p - 1 \in Len(bits)..(Len(bits')-1))
    BY <1>1, <1>3, <2>1
  <2>. QED  BY <2>3, <2>4
<1>. QED  BY <1>3, <1>4, <1>5 DEF Alone

\* The number of entries grows with the left sides.
LEMMA FewStay ==
  ASSUME Typed, Level, Few, phase = "pushing",
         NEW left \in 1..MaxLeft, NEW right \in 1..MaxRight, Ordered(left, right)
  PROVE  Len(nums) + (IF left = lastLeft THEN 1 ELSE left - lastLeft)
           <= (left - 1) * MaxRight + right
<1>. DEFINE L == Len(nums)
            M == MaxRight
<1>1. /\ M \in Nat \ {0} /\ L \in Nat /\ lastLeft \in Nat /\ left \in Nat \ {0}
      /\ lastRight \in 0..M /\ right \in 1..M
  BY Sizes DEF Typed
<1>2. lastLeft = 0 => L = 0
  BY <1>1 DEF Few
<1>3. lastLeft # 0 => L <= (lastLeft - 1) * M + lastRight
  BY DEF Few
<1>. HIDE DEF L, M
<1>4. CASE left = lastLeft
  <2>1. right > lastRight
    BY <1>1, <1>4 DEF Ordered
  <2>2. L <= (left - 1) * M + lastRight
    BY <1>1, <1>3, <1>4
  <2>3. (left - 1) * M \in Nat
    BY <1>1
  <2>. QED  BY <1>1, <1>4, <2>1, <2>2, <2>3 DEF L, M
<1>5. CASE left > lastLeft
  <2>. DEFINE skip == left - lastLeft
  <2>1. skip \in Nat \ {0} /\ left = lastLeft + skip
    BY <1>1, <1>5
  <2>. HIDE DEF skip
  <2>2. (skip - 1) * 1 <= (skip - 1) * M
    <3>1. skip - 1 \in Nat /\ 1 \in Int /\ M \in Int /\ 1 <= M
      BY <1>1, <2>1
    <3>2. 1 * (skip - 1) <= M * (skip - 1)
      BY <3>1, MulMonotonic
    <3>. QED  BY <3>1, <3>2
  <2>3. (left - 1) * M = lastLeft * M + (skip - 1) * M
    BY <1>1, <2>1
  <2>4. L <= lastLeft * M
    <3>1. CASE lastLeft = 0
      BY <1>1, <1>2, <3>1
    <3>2. CASE lastLeft # 0
      <4>1. (lastLeft - 1) * M = lastLeft * M - M
        BY <1>1
      <4>2. lastLeft * M \in Nat
        BY <1>1
      <4>. QED  BY <1>1, <1>3, <3>2, <4>1, <4>2
    <3>. QED  BY <3>1, <3>2
  <2>5. lastLeft * M \in Nat /\ (skip - 1) * M \in Nat
    BY <1>1, <2>1
  <2>6. L + skip <= (left - 1) * M + right
    BY <1>1, <2>1, <2>2, <2>3, <2>4, <2>5
  <2>. QED  BY <1>1, <1>5, <2>6 DEF L, M, skip
<1>. QED  BY <1>1, <1>4, <1>5 DEF Ordered

LEMMA PushInvariant ==
  ASSUME IInv, NEW left \in 1..MaxLeft, NEW right \in 1..MaxRight, Push(left, right)
  PROVE  IInv'
<1>1. /\ phase = "pushing" /\ phase' = "pushing" /\ Ordered(left, right)
      /\ lastLeft' = left /\ lastRight' = right /\ pairs' = Append(pairs, <<left, right>>)
      /\ UNCHANGED <<index, iter, yielded>>
  BY DEF Push
<1>2. /\ bits' \in Seq({0, 1}) /\ nums' \in Seq(0..MaxRight)
      /\ Extends(bits', bits) /\ Extends(nums', nums)
      /\ Len(bits') + 1 = Len(nums')
      /\ Len(nums') = Len(nums) + (IF left = lastLeft THEN 1 ELSE left - lastLeft)
      /\ \A i \in (Len(nums)+1)..(Len(nums')-1) : nums'[i] = 0
      /\ nums'[Len(nums')] = right
      /\ Count(Marked(bits'), 0, Len(bits')) = left - 1
  BY PushAdds
<1>3. /\ bits \in Seq({0, 1}) /\ nums \in Seq(0..MaxRight) /\ pairs \in Seq(Pair)
      /\ Len(nums) <= Len(bits) + 1 /\ lastLeft \in Nat
      /\ Len(nums) \in Nat /\ Len(bits) \in Nat /\ Len(bits') \in Nat
  <2>1. bits \in Seq({0, 1}) /\ nums \in Seq(0..MaxRight) /\ pairs \in Seq(Pair) /\ lastLeft \in Nat
    BY DEF IInv, Typed
  <2>2. Len(nums) \in Nat /\ Len(bits) \in Nat /\ Len(bits') \in Nat
    BY <1>2, <2>1
  <2>3. Len(bits) = IF phase = "pushing" /\ nums # <<>> THEN Len(nums) - 1 ELSE Len(nums)
    BY DEF IInv, Level
  <2>4. Len(nums) <= Len(bits) + 1
    BY <2>2, <2>3
  <2>. QED  BY <2>1, <2>2, <2>4
<1>4. Len(nums) < Len(nums')
  BY <1>1, <1>2, <1>3 DEF Ordered
<1>5. Typed'
  <2>1. <<left, right>> \in Pair
    BY DEF Pair
  <2>2. Append(pairs, <<left, right>>) \in Seq(Pair)
    BY <1>3, <2>1
  <2>3. left \in 0..MaxLeft /\ right \in 0..MaxRight
    BY Sizes
  <2>. QED  BY <1>1, <1>2, <2>2, <2>3 DEF IInv, Typed
<1>6. Level'
  <2>1. nums' # <<>> /\ lastLeft' >= 1
    BY <1>1, <1>2, <1>3, <1>4
  <2>2. Len(nums') \in Nat /\ Len(bits') = Len(nums') - 1
    BY <1>2, <1>3
  <2>. QED  BY <1>1, <1>2, <2>1, <2>2 DEF Level
<1>7. Few'
  <2>1. left # 0
    OBVIOUS
  <2>2. Len(nums') <= (left - 1) * MaxRight + right
    BY <1>1, <1>2, FewStay DEF IInv
  <2>. QED  BY <1>1, <2>1, <2>2 DEF Few
<1>8. Stands(bits', nums', pairs')
  <2>1. Stands(bits, nums, pairs)
    BY DEF IInv
  <2>. QED  BY <1>1, <1>2, <1>3, <1>4, <2>1, PairStands
<1>9. Iterates'
  <2>1. iter' = Start /\ yielded' = <<>> /\ iter'.pos = 0 /\ iter'.left = 1
    BY <1>1 DEF IInv, Iterates, Start
  <2>2. Count(Marked(bits'), 0, 0) = 0 /\ Count(Marked(nums'), 0, 0) = 0
    BY CountNone
  <2>3. Len(yielded') = 0 /\ Len(nums') \in Nat
    BY <1>2, <2>1
  <2>. QED  BY <2>1, <2>2, <2>3 DEF Iterates
<1>. QED  BY <1>5, <1>6, <1>7, <1>8, <1>9, AloneStays DEF IInv

\* The last entry closes the last left side.
LEMMA FinalizeInvariant ==
  ASSUME IInv, Finalize
  PROVE  IInv'
<1>1. /\ phase = "pushing" /\ phase' = "built" /\ bits' = bits \o LastBit
      /\ index' = BuildIndex(bits')
      /\ UNCHANGED <<nums, lastLeft, lastRight, iter, pairs, yielded>>
  BY DEF Finalize
<1>2. bits \in Seq({0, 1}) /\ nums \in Seq(0..MaxRight) /\ lastLeft \in Nat
  BY DEF IInv, Typed
<1>3. Len(nums) \in Nat /\ Len(bits) \in Nat
  BY <1>2
<1>. DEFINE one == bits \o Times(1, 1)
<1>4. /\ one \in Seq({0, 1}) /\ Adds(one, bits, 1, 1)
      /\ Count(Marked(one), 0, Len(one)) = Count(Marked(bits), 0, Len(bits)) + 1
  <2>1. 1 \in {0, 1} /\ 1 \in Nat
    OBVIOUS
  <2>2. Count(Marked(one), 0, Len(one)) = Count(Marked(bits), 0, Len(bits)) + 1
    BY <1>2, <2>1, BitsClosed
  <2>. QED  BY <1>2, <2>1, <2>2, AddedTimes
<1>5. Times(1, 1) = <<1>>
  BY DEF Times
<1>6. bits' = IF nums # <<>> THEN one ELSE bits
  <2>1. CASE nums # <<>>
    <3>1. bits' = bits \o <<1>>
      BY <1>1, <2>1 DEF LastBit
    <3>. QED  BY <1>5, <2>1, <3>1
  <2>2. CASE nums = <<>>
    <3>1. bits' = bits \o <<>>
      BY <1>1, <2>2 DEF LastBit
    <3>2. bits \o <<>> = bits
      BY <1>2
    <3>. QED  BY <2>2, <3>1, <3>2
  <2>. QED  BY <2>1, <2>2
<1>. HIDE DEF one
<1>7. /\ bits' \in Seq({0, 1}) /\ Extends(bits', bits)
      /\ Len(bits') = Len(nums) /\ Count(Marked(bits'), 0, Len(bits')) = lastLeft
  <2>1. CASE nums = <<>>
    <3>1. Len(bits) = Len(nums) /\ Count(Marked(bits), 0, Len(bits)) = lastLeft
      BY <2>1 DEF IInv, Level
    <3>2. Extends(bits, bits)
      BY <1>3 DEF Extends
    <3>. QED  BY <1>2, <1>6, <2>1, <3>1, <3>2
  <2>2. CASE nums # <<>>
    <3>1. Len(bits) = Len(nums) - 1 /\ Count(Marked(bits), 0, Len(bits)) = lastLeft - 1
      BY <1>1, <2>2 DEF IInv, Level
    <3>2. Len(one) = Len(bits) + 1 /\ Extends(one, bits)
      BY <1>4 DEF Adds
    <3>3. (lastLeft - 1) + 1 = lastLeft /\ (Len(nums) - 1) + 1 = Len(nums)
      BY <1>2, <1>3
    <3>. QED  BY <1>4, <1>6, <2>2, <3>1, <3>2, <3>3
  <2>. QED  BY <2>1, <2>2
<1>8. Typed'
  BY <1>1, <1>7 DEF IInv, Typed
<1>9. Level'
  <2>1. nums = <<>> => bits' = <<>>
    BY <1>6 DEF IInv, Level
  <2>. QED  BY <1>1, <1>7, <2>1 DEF IInv, Level
<1>10. Few'
  BY <1>1 DEF IInv, Few
<1>11. Stands(bits', nums, pairs)
  <2>1. ASSUME NEW p \in Marked(nums)
        PROVE  Count(Marked(bits'), 0, p) = Count(Marked(bits), 0, p)
    <3>1. p \in 0..(Len(nums)-1)
      BY DEF Marked
    <3>2. p \in 0..Len(bits)
      BY <1>1, <1>3, <3>1 DEF IInv, Level
    <3>. QED  BY <1>2, <1>7, <3>2, CountExtended
  <2>. QED  BY <2>1 DEF IInv, Stands
<1>12. Iterates'
  <2>1. iter.pos = 0 /\ iter.left = 1 /\ yielded = <<>>
    BY <1>1 DEF IInv, Iterates, Start
  <2>2. Count(Marked(bits'), 0, 0) = 0 /\ Count(Marked(nums), 0, 0) = 0
    BY CountNone
  <2>. QED  BY <1>1, <1>3, <2>1, <2>2 DEF Iterates
<1>13. Alone(bits', nums)
  <2>1. \A p \in Marked(bits) : p \in Marked(bits')
    BY <1>2, <1>3, <1>7 DEF Marked, Extends
  <2>. QED  BY <2>1 DEF IInv, Alone
<1>. QED  BY <1>1, <1>8, <1>9, <1>10, <1>11, <1>12, <1>13 DEF IInv

\* The iterator goes to the next entry that is no hole, and has then counted the
\* left sides up to it.
LEMMA IterNextInvariant ==
  ASSUME IInv, IterNext
  PROVE  IInv'
<1>. DEFINE pos == CHOOSE p \in Ahead : \A q \in Ahead : p <= q
            from == iter.pos
            M == Marked(nums)
            O == Marked(bits)
            closed(to) == Cardinality({p \in from..to : Get(index, p) = 1})
            pair == <<iter.left + closed(pos - 1), nums[pos + 1]>>
<1>1. /\ phase = "built" /\ Ahead # {}
      /\ yielded' = Append(yielded, pair)
      /\ iter' = [pos |-> pos + 1, left |-> iter.left + closed(pos)]
      /\ UNCHANGED <<phase, bits, nums, lastLeft, lastRight, index, pairs>>
  BY DEF IterNext, Passed, NumAt
<1>2. /\ Len(nums) \in Nat /\ Len(bits) = Len(nums) /\ from \in 0..Len(nums)
      /\ iter.left \in Nat /\ bits \in Seq({0, 1}) /\ yielded \in Seq(Pair) /\ pairs \in Seq(Pair)
      /\ index = BuildIndex(bits)
  BY <1>1 DEF IInv, Typed, Level, Iterates
<1>3. Ahead = {p \in from..(Len(nums)-1) : p \in M}
  BY <1>1, AheadIsMarked
<1>4. /\ pos \in M /\ pos \in from..(Len(nums)-1)
      /\ \A p \in from..(pos-1) : p \notin M
  <2>1. \E p \in Ahead : \A q \in Ahead : p <= q
    <3>1. Ahead \subseteq Nat /\ Ahead # {}
      BY <1>1, <1>2, <1>3
    <3>2. Ahead \in SUBSET Nat
      BY <3>1
    <3>. QED  BY <3>1, <3>2, Least
  <2>2. pos \in Ahead /\ \A q \in Ahead : pos <= q
    BY <2>1
  <2>. HIDE DEF pos
  <2>. QED  BY <1>2, <1>3, <2>2
<1>. HIDE DEF pos
<1>5. ASSUME NEW to \in Int, from <= to + 1, to < Len(nums)
      PROVE  closed(to) = Count(O, from, to + 1)
  <2>1. \A p \in from..to : p \in 0..(Len(bits)-1)
    BY <1>2, <1>5
  <2>2. \A p \in from..to : Get(index, p) = bits[p + 1] /\ bits[p + 1] \in {0, 1}
    BY <1>2, <2>1, GetReadsBits
  <2>3. {p \in from..to : Get(index, p) = 1} = O \cap (from..((to + 1)-1))
    <3>1. from..((to + 1)-1) = from..to
      BY <1>2
    <3>. QED  BY <2>1, <2>2, <3>1 DEF Marked
  <2>. QED  BY <2>3 DEF Count
<1>. HIDE DEF closed, M, O
<1>6. pos \in Nat /\ pos < Len(nums) /\ from <= pos /\ from \in Nat
  BY <1>2, <1>4
<1>7. Count(M, 0, pos) = Len(yielded)
  <2>1. Count(M, from, pos) = 0
    BY <1>4, <1>6, CountNone
  <2>2. Count(M, 0, pos) = Count(M, 0, from) + Count(M, from, pos)
    BY <1>6, CountSplit
  <2>3. Count(M, 0, from) = Len(yielded) /\ Len(yielded) \in Nat
    BY <1>2 DEF IInv, Iterates, M
  <2>. QED  BY <2>1, <2>2, <2>3
<1>8. Count(M, 0, pos + 1) = Len(yielded) + 1
  BY <1>4, <1>6, <1>7, CountStep
<1>9. iter.left + closed(pos - 1) = 1 + Count(O, 0, pos)
  <2>1. closed(pos - 1) = Count(O, from, pos)
    <3>1. pos - 1 \in Int /\ from <= (pos - 1) + 1 /\ pos - 1 < Len(nums) /\ (pos - 1) + 1 = pos
      BY <1>2, <1>6
    <3>. QED  BY <1>5, <3>1
  <2>2. Count(O, 0, pos) = Count(O, 0, from) + Count(O, from, pos)
    BY <1>6, CountSplit
  <2>3. Count(O, 0, from) \in Nat /\ Count(O, from, pos) \in Nat
    BY <1>6, CountType
  <2>4. iter.left = 1 + Count(O, 0, from)
    BY DEF IInv, Iterates, O
  <2>. QED  BY <2>1, <2>2, <2>3, <2>4
<1>10. iter.left + closed(pos) = 1 + Count(O, 0, pos + 1)
  <2>1. closed(pos) = Count(O, from, pos + 1)
    <3>1. pos \in Int /\ from <= pos + 1
      BY <1>6
    <3>. QED  BY <1>5, <1>6, <3>1
  <2>2. Count(O, 0, pos + 1) = Count(O, 0, from) + Count(O, from, pos + 1)
    <3>1. 0 <= from /\ from <= pos + 1 /\ pos + 1 \in Int
      BY <1>6
    <3>. QED  BY <1>6, <3>1, CountSplit
  <2>3. Count(O, 0, from) \in Nat /\ Count(O, from, pos + 1) \in Nat
    BY <1>6, CountType
  <2>4. iter.left = 1 + Count(O, 0, from)
    BY DEF IInv, Iterates, O
  <2>. QED  BY <2>1, <2>2, <2>3, <2>4
<1>11. pair = pairs[Len(yielded) + 1]
  BY <1>4, <1>7, <1>9 DEF IInv, Stands, M, O
<1>12. Len(yielded) + 1 \in 1..Len(pairs) /\ Len(yielded) \in Nat
  <2>1. Count(M, 0, pos + 1) <= Count(M, 0, Len(nums))
    <3>1. pos + 1 \in Int /\ 0 <= pos + 1 /\ pos + 1 <= Len(nums)
      BY <1>2, <1>6
    <3>. QED  BY <1>2, <3>1, CountGrows
  <2>2. Count(M, 0, Len(nums)) = Len(pairs)
    BY DEF IInv, Stands, M
  <2>. QED  BY <1>2, <1>8, <2>1, <2>2
<1>. HIDE DEF pair
<1>13. pair \in Pair
  BY <1>2, <1>11, <1>12
<1>14. /\ yielded' \in Seq(Pair) /\ Len(yielded') = Len(yielded) + 1
       /\ \A k \in 1..Len(yielded') : yielded'[k] = pairs[k]
  <2>1. /\ Append(yielded, pair) \in Seq(Pair)
        /\ Len(Append(yielded, pair)) = Len(yielded) + 1
        /\ Append(yielded, pair)[Len(yielded) + 1] = pair
        /\ \A k \in 1..Len(yielded) : Append(yielded, pair)[k] = yielded[k]
    BY <1>2, <1>13
  <2>2. \A k \in 1..Len(yielded) : yielded[k] = pairs[k]
    BY DEF IInv, Iterates
  <2>3. \A k \in 1..(Len(yielded)+1) : k \in 1..Len(yielded) \/ k = Len(yielded) + 1
    BY <1>12
  <2>. QED  BY <1>1, <1>11, <2>1, <2>2, <2>3
<1>15. Typed'
  <2>1. Count(O, 0, pos + 1) \in Nat
    BY <1>6, CountType
  <2>2. iter' \in [pos : Nat, left : Nat]
    BY <1>1, <1>6, <1>10, <2>1
  <2>. QED  BY <1>1, <1>14, <2>2 DEF IInv, Typed
<1>16. Level' /\ Few' /\ Stands(bits', nums', pairs') /\ Alone(bits', nums')
  BY <1>1 DEF IInv, Level, Few
<1>17. Iterates'
  <2>1. iter'.pos = pos + 1 /\ iter'.left = 1 + Count(O, 0, pos + 1)
    BY <1>1, <1>10
  <2>2. pos + 1 <= Len(nums)
    BY <1>2, <1>6
  <2>. QED  BY <1>1, <1>8, <1>14, <2>1, <2>2 DEF Iterates, M, O
<1>. QED  BY <1>15, <1>16, <1>17 DEF IInv

THEOREM Invariance == Spec => []IInv
<1>1. Init => IInv
  BY InitInvariant
<1>2. IInv /\ [Next]_vars => IInv'
  <2>. SUFFICES ASSUME IInv, [Next]_vars PROVE IInv'
    OBVIOUS
  <2>1. ASSUME NEW left \in 1..MaxLeft, NEW right \in 1..MaxRight, Push(left, right)
        PROVE  IInv'
    BY <2>1, PushInvariant
  <2>2. CASE Finalize
    BY <2>2, FinalizeInvariant
  <2>3. CASE IterNext
    BY <2>3, IterNextInvariant
  <2>4. CASE UNCHANGED vars
    BY <2>4 DEF vars, IInv, Typed, Level, Few, Stands, Alone, Iterates
  <2>. QED  BY <2>1, <2>2, <2>3, <2>4 DEF Next
<1>. QED  BY <1>1, <1>2, PTL DEF Spec

\* The variables keep their types, whatever is pushed and iterated over: the list
\* is never longer than left sides times right sides and the iterator never
\* counts further than the last left side.
THEOREM TypeCorrect == Spec => []TypeOK
<1>1. IInv => TypeOK
  BY InvariantTypes
<1>. QED  BY <1>1, Invariance, PTL

\* The builder's bits stay one entry behind its numbers until finalize brings
\* them level, wherever there are holes.
THEOREM BitsAlwaysLag == Spec => []BitsLag
<1>1. IInv => BitsLag
  BY InvariantLags
<1>. QED  BY <1>1, Invariance, PTL

\* Every position shows the pair pushed there, with the left side a rank finds.
THEOREM PositionsAlwaysShow == Spec => []PositionsShowPairs
<1>1. IInv => PositionsShowPairs
  BY InvariantShows
<1>. QED  BY <1>1, Invariance, PTL

\* get of a left side returns its right sides in order, or the 0 of a hole: the
\* slice that two selects cut out of the numbers has what was pushed.
THEOREM GetAlwaysShows == Spec => []GetShowsRights
<1>1. IInv => GetShowsRights
  BY InvariantGets
<1>. QED  BY <1>1, Invariance, PTL

\* The iterator returns the pairs that were pushed, each with its left side, in
\* order, and all of them when it has come to the end.
THEOREM IteratorAlwaysYields == Spec => []IteratorYieldsPairs
<1>1. IInv => IteratorYieldsPairs
  BY InvariantYields
<1>. QED  BY <1>1, Invariance, PTL
=============================================================================
