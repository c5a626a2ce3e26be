------------------------ MODULE BitIndexBuilderProofs ------------------------
(***************************************************************************)
(* For words and superblocks of any size and any bits pushed: the file     *)
(* holds the bits, build_bitindex leaves their index, and rank, asked of   *)
(* that, counts them.                                                      *)
(***************************************************************************)
EXTENDS BitIndexBuilder, BitIndexProofs, SequenceTheorems

USE MaxBitsAssumption

-----------------------------------------------------------------------------
(* Words, as bits come in.                                                 *)

\* The words that are full.
FullWords(s) == [k \in 1..(Len(s) \div B) |-> WordOf(s, k)]

\* The word that is being filled.
Rest(s) == WordOf(s, Len(s) \div B + 1)

LEMMA WordIsWord ==
  ASSUME NEW s \in Seq({0, 1}), NEW k \in Nat \ {0}
  PROVE  WordOf(s, k) \in Words
<1>. SUFFICES ASSUME NEW b \in 0..(B-1) PROVE Padded(s, (k - 1) * B + b) \in {0, 1}
  BY DEF WordOf, Words
<1>. DEFINE i == (k - 1) * B + b
<1>1. i \in Nat
  <2>1. k - 1 \in Nat /\ B \in Nat /\ b \in Nat
    BY BSizes
  <2>2. (k - 1) * B \in Nat
    BY <2>1
  <2>. QED  BY <2>1, <2>2
<1>. HIDE DEF i
<1>2. Padded(s, i) \in {0, 1}
  BY <1>1 DEF Padded
<1>. QED  BY <1>2 DEF i

LEMMA FullWordsType ==
  ASSUME NEW s \in Seq({0, 1})
  PROVE  /\ Len(s) \div B \in Nat
         /\ FullWords(s) \in Seq(Words) /\ Len(FullWords(s)) = Len(s) \div B
         /\ Rest(s) \in Words
<1>. DEFINE q == Len(s) \div B
<1>1. q \in Nat
  BY BSizes, Quotient
<1>2. FullWords(s) = [k \in 1..q |-> WordOf(s, k)] /\ Rest(s) = WordOf(s, q + 1)
  BY DEF FullWords, Rest
<1>. HIDE DEF q
<1>3. \A k \in 1..(q + 1) : WordOf(s, k) \in Words
  BY <1>1, WordIsWord
<1>4. [k \in 1..q |-> WordOf(s, k)] \in Seq(Words)
  BY <1>1, <1>3
<1>5. Len([k \in 1..q |-> WordOf(s, k)]) = q
  BY <1>1
<1>6. q + 1 \in 1..(q + 1)
  BY <1>1
<1>. QED  BY <1>1, <1>2, <1>3, <1>4, <1>5, <1>6 DEF q

\* No bits.
LEMMA NoWords == FullWords(<<>>) = <<>> /\ Rest(<<>>) = Zero
<1>1. Len(<<>>) = 0 /\ B \in Nat \ {0} /\ <<>> \in Seq({0, 1})
  BY BSizes
<1>2. 0 \div B = 0
  <2>1. 0 \in 0..(B-1) /\ 0 = 0 * B + 0
    BY <1>1
  <2>. QED  BY <1>1, <2>1, QuotientIs
<1>3. FullWords(<<>>) = <<>>
  <2>1. FullWords(<<>>) \in Seq(Words) /\ Len(FullWords(<<>>)) = 0
    BY <1>1, <1>2, FullWordsType
  <2>. QED  BY <2>1
<1>4. \A b \in 0..(B-1) : Padded(<<>>, (1 - 1) * B + b) = 0
  <2>. SUFFICES ASSUME NEW b \in 0..(B-1) PROVE Padded(<<>>, (1 - 1) * B + b) = 0
    OBVIOUS
  <2>1. (1 - 1) * B + b = b /\ b >= 0
    BY <1>1
  <2>. QED  BY <1>1, <2>1 DEF Padded
<1>5. Rest(<<>>) = WordOf(<<>>, 1)
  BY <1>1, <1>2, 0 + 1 = 1 DEF Rest
<1>6. Rest(<<>>) = Zero
  BY <1>4, <1>5 DEF WordOf, Zero
<1>. QED  BY <1>3, <1>6

\* A bit more is in the word after the full ones, behind the bits it has.
LEMMA BitAdded ==
  ASSUME NEW s \in Seq({0, 1}), NEW bit \in {0, 1}
  PROVE  LET t == Append(s, bit)
             q == Len(s) \div B
         IN  /\ \A k \in 1..q : WordOf(t, k) = WordOf(s, k)
             /\ WordOf(t, q + 1) =
                  IF bit = 1 THEN [Rest(s) EXCEPT ![Len(s) % B] = 1] ELSE Rest(s)
             /\ WordOf(t, q + 2) = Zero
<1>. DEFINE t == Append(s, bit)
            n == Len(s)
            q == n \div B
            r == n % B
<1>1. /\ B \in Nat \ {0} /\ n \in Nat
      /\ q \in Nat /\ r \in 0..(B-1) /\ n = q * B + r
  <2>1. B \in Nat \ {0} /\ n \in Nat
    BY BSizes
  <2>. HIDE DEF n
  <2>. QED  BY <2>1, Quotient
<1>2. /\ t \in Seq({0, 1}) /\ Len(t) = n + 1 /\ t[n + 1] = bit
      /\ \A i \in 1..n : t[i] = s[i]
  OBVIOUS
<1>0. Rest(s) = WordOf(s, q + 1)
  BY DEF Rest
<1>. HIDE DEF t, q, r
<1>3. ASSUME NEW i \in Nat
      PROVE  Padded(t, i) = IF i = n THEN bit ELSE Padded(s, i)
  <2>1. CASE i < n
    BY <1>1, <1>2, <2>1 DEF Padded
  <2>2. CASE i = n
    BY <1>1, <1>2, <2>2 DEF Padded
  <2>3. CASE i > n
    BY <1>1, <1>2, <2>3 DEF Padded
  <2>. QED  BY <1>1, <2>1, <2>2, <2>3
<1>4. ASSUME NEW k \in 1..q
      PROVE  WordOf(t, k) = WordOf(s, k)
  <2>. SUFFICES ASSUME NEW b \in 0..(B-1)
                PROVE  Padded(t, (k - 1) * B + b) = Padded(s, (k - 1) * B + b)
    BY DEF WordOf
  <2>. DEFINE i == (k - 1) * B + b
  <2>1. i \in Nat /\ i < n
    <3>1. (k - 1) * B = k * B - B /\ (k - 1) * B \in Nat /\ k * B \in Nat
      BY <1>1
    <3>2. k * B <= q * B
      BY <1>1, MulMonotonic
    <3>3. q * B \in Nat
      BY <1>1
    <3>. QED  BY <1>1, <3>1, <3>2, <3>3
  <2>. HIDE DEF i
  <2>2. Padded(t, i) = Padded(s, i)
    BY <1>1, <1>3, <2>1
  <2>. QED  BY <2>2 DEF i
<1>5. WordOf(t, q + 1) = IF bit = 1 THEN [Rest(s) EXCEPT ![r] = 1] ELSE Rest(s)
  <2>1. ASSUME NEW b \in 0..(B-1)
        PROVE  Padded(t, q * B + b) = IF b = r THEN bit ELSE Padded(s, q * B + b)
    <3>1. q * B \in Nat
      BY <1>1
    <3>2. q * B + b \in Nat /\ (q * B + b = n <=> b = r)
      BY <1>1, <3>1
    <3>. QED  BY <1>3, <3>2
  <2>2. Padded(s, q * B + r) = 0
    BY <1>1 DEF Padded
  <2>3. (q + 1) - 1 = q
    BY <1>1
  <2>4. /\ WordOf(t, q + 1) = [b \in 0..(B-1) |-> Padded(t, q * B + b)]
        /\ WordOf(s, q + 1) = [b \in 0..(B-1) |-> Padded(s, q * B + b)]
    BY <2>3 DEF WordOf
  <2>5. CASE bit = 1
    <3>1. [WordOf(s, q + 1) EXCEPT ![r] = 1]
            = [b \in 0..(B-1) |-> IF b = r THEN 1 ELSE Padded(s, q * B + b)]
      BY <1>1, <2>4
    <3>. QED  BY <1>0, <2>1, <2>4, <2>5, <3>1
  <2>6. CASE bit = 0
    <3>1. \A b \in 0..(B-1) : Padded(t, q * B + b) = Padded(s, q * B + b)
      BY <2>1, <2>2, <2>6
    <3>2. WordOf(t, q + 1) = WordOf(s, q + 1)
      BY <2>4, <3>1
    <3>. QED  BY <1>0, <2>6, <3>2
  <2>. QED  BY <2>5, <2>6
<1>6. WordOf(t, q + 2) = Zero
  <2>. SUFFICES ASSUME NEW b \in 0..(B-1) PROVE Padded(t, ((q + 2) - 1) * B + b) = 0
    BY DEF WordOf, Zero
  <2>. DEFINE i == ((q + 2) - 1) * B + b
  <2>1. i \in Nat /\ i >= n + 1
    <3>1. ((q + 2) - 1) * B = q * B + B /\ q * B \in Nat
      BY <1>1
    <3>. QED  BY <1>1, <3>1
  <2>. HIDE DEF i
  <2>2. Padded(t, i) = 0
    BY <1>1, <1>2, <2>1 DEF Padded
  <2>. QED  BY <2>2 DEF i
<1>. QED  BY <1>4, <1>5, <1>6 DEF t, q, r

\* How push keeps the full words and the rest.
LEMMA WordsPushed ==
  ASSUME NEW s \in Seq({0, 1}), NEW bit \in {0, 1}
  PROVE  LET t == Append(s, bit)
             filled == IF bit = 1 THEN [Rest(s) EXCEPT ![Len(s) % B] = 1] ELSE Rest(s)
         IN  IF (Len(s) + 1) % B = 0
             THEN FullWords(t) = Append(FullWords(s), filled) /\ Rest(t) = Zero
             ELSE FullWords(t) = FullWords(s) /\ Rest(t) = filled
<1>. DEFINE t == Append(s, bit)
            n == Len(s)
            q == n \div B
            r == n % B
            filled == IF bit = 1 THEN [Rest(s) EXCEPT ![r] = 1] ELSE Rest(s)
<1>1. /\ B \in Nat \ {0} /\ n \in Nat
      /\ q \in Nat /\ r \in 0..(B-1) /\ n = q * B + r
  <2>1. B \in Nat \ {0} /\ n \in Nat
    BY BSizes
  <2>. HIDE DEF n
  <2>. QED  BY <2>1, Quotient
<1>2. /\ \A k \in 1..q : WordOf(t, k) = WordOf(s, k)
      /\ WordOf(t, q + 1) = filled /\ WordOf(t, q + 2) = Zero
  BY BitAdded
<1>3. /\ t \in Seq({0, 1}) /\ Len(t) = n + 1
  OBVIOUS
<1>4. FullWords(s) = [k \in 1..q |-> WordOf(s, k)]
  BY DEF FullWords
<1>. HIDE DEF t, q, r, filled
<1>5. CASE r = B - 1
  <2>1. (n + 1) \div B = q + 1 /\ (n + 1) % B = 0
    <3>. DEFINE x == n + 1
                y == q + 1
    <3>1. y \in Nat /\ 0 \in 0..(B-1) /\ x \in Nat
      BY <1>1
    <3>2. x = y * B + 0
      <4>1. (q + 1) * B = q * B + B /\ q * B \in Nat
        BY <1>1
      <4>. QED  BY <1>1, <1>5, <4>1
    <3>. HIDE DEF x, y
    <3>3. x \div B = y /\ x % B = 0
      BY <1>1, <3>1, <3>2, QuotientIs
    <3>. QED  BY <3>3 DEF x, y
  <2>2. FullWords(t) = [k \in 1..(q + 1) |-> WordOf(t, k)] /\ Rest(t) = WordOf(t, q + 2)
    <3>1. (q + 1) + 1 = q + 2
      BY <1>1
    <3>. QED  BY <1>3, <2>1, <3>1 DEF FullWords, Rest
  <2>3. [k \in 1..(q + 1) |-> WordOf(t, k)] = Append([k \in 1..q |-> WordOf(s, k)], filled)
    <3>1. \A k \in 1..(q + 1) : WordOf(t, k) = IF k = q + 1 THEN filled ELSE WordOf(s, k)
      BY <1>1, <1>2
    <3>2. Len([k \in 1..q |-> WordOf(s, k)]) = q
      BY <1>1
    <3>. QED  BY <1>1, <3>1, <3>2
  <2>. QED  BY <1>2, <1>4, <2>1, <2>2, <2>3 DEF t, r, filled
<1>6. CASE r # B - 1
  <2>1. (n + 1) \div B = q /\ (n + 1) % B = r + 1
    <3>. DEFINE x == n + 1
                y == r + 1
    <3>1. y \in 0..(B-1) /\ x \in Nat
      BY <1>1, <1>6
    <3>2. x = q * B + y
      <4>1. q * B \in Nat
        BY <1>1
      <4>. QED  BY <1>1, <4>1
    <3>. HIDE DEF x, y
    <3>3. x \div B = q /\ x % B = y
      BY <1>1, <3>1, <3>2, QuotientIs
    <3>. QED  BY <3>3 DEF x, y
  <2>2. r + 1 # 0
    BY <1>1
  <2>3. FullWords(t) = [k \in 1..q |-> WordOf(t, k)] /\ Rest(t) = WordOf(t, q + 1)
    BY <1>3, <2>1 DEF FullWords, Rest
  <2>4. FullWords(t) = FullWords(s)
    BY <1>2, <1>4, <2>3
  <2>. QED  BY <1>2, <2>1, <2>2, <2>3, <2>4 DEF t, r, filled
<1>. QED  BY <1>5, <1>6

\* As many words as the bits need.
LEMMA WordCount ==
  ASSUME NEW n \in Nat
  PROVE  CeilDiv(n, B) = IF n % B = 0 THEN n \div B ELSE n \div B + 1
<1>. DEFINE q == n \div B
            r == n % B
            x == n + B - 1
<1>1. /\ B \in Nat \ {0}
      /\ q \in Nat /\ r \in 0..(B-1) /\ n = q * B + r
  BY BSizes, Quotient
<1>2. x \in Nat /\ q * B \in Nat /\ CeilDiv(n, B) = x \div B
  BY <1>1 DEF CeilDiv
<1>. HIDE DEF q, r
<1>3. CASE r = 0
  <2>. DEFINE y == B - 1
  <2>1. y \in 0..(B-1) /\ x = q * B + y
    BY <1>1, <1>2, <1>3
  <2>. HIDE DEF x, y
  <2>2. x \div B = q
    BY <1>1, <1>2, <2>1, QuotientIs
  <2>. QED  BY <1>2, <1>3, <2>2 DEF q, r
<1>4. CASE r # 0
  <2>. DEFINE y == r - 1
              k == q + 1
  <2>1. y \in 0..(B-1) /\ k \in Nat /\ x = k * B + y
    <3>1. (q + 1) * B = q * B + B
      BY <1>1
    <3>. QED  BY <1>1, <1>2, <1>4, <3>1
  <2>. HIDE DEF x, y, k
  <2>2. x \div B = k
    BY <1>1, <1>2, <2>1, QuotientIs
  <2>. QED  BY <1>2, <1>4, <2>2 DEF q, r, k
<1>. QED  BY <1>3, <1>4

LEMMA WordsOfType ==
  ASSUME NEW s \in Seq({0, 1})
  PROVE  /\ CeilDiv(Len(s), B) \in Nat
         /\ WordsOf(s) \in Seq(Words) /\ Len(WordsOf(s)) = CeilDiv(Len(s), B)
<1>. DEFINE n == CeilDiv(Len(s), B)
<1>1. n \in Nat
  BY BSizes, CeilDivType
<1>2. WordsOf(s) = [k \in 1..n |-> WordOf(s, k)]
  BY DEF WordsOf
<1>. HIDE DEF n
<1>3. \A k \in 1..n : WordOf(s, k) \in Words
  BY <1>1, WordIsWord
<1>4. [k \in 1..n |-> WordOf(s, k)] \in Seq(Words)
  BY <1>1, <1>3
<1>5. Len([k \in 1..n |-> WordOf(s, k)]) = n
  BY <1>1
<1>. QED  BY <1>1, <1>2, <1>4, <1>5 DEF n

\* What finalize has written: the rest goes behind the full words.
LEMMA WordsFinished ==
  ASSUME NEW s \in Seq({0, 1})
  PROVE  (IF Len(s) % B # 0 THEN Append(FullWords(s), Rest(s)) ELSE FullWords(s)) = WordsOf(s)
<1>. DEFINE n == Len(s)
            q == n \div B
<1>1. n \in Nat /\ q \in Nat
  <2>1. n \in Nat /\ B \in Nat \ {0}
    BY BSizes
  <2>. HIDE DEF n
  <2>. QED  BY <2>1, Quotient
<1>2. /\ FullWords(s) = [k \in 1..q |-> WordOf(s, k)] /\ Rest(s) = WordOf(s, q + 1)
      /\ WordsOf(s) = [k \in 1..CeilDiv(n, B) |-> WordOf(s, k)]
  BY DEF FullWords, Rest, WordsOf
<1>3. CeilDiv(n, B) = IF n % B = 0 THEN q ELSE q + 1
  BY <1>1, WordCount
<1>. HIDE DEF q
<1>4. Append([k \in 1..q |-> WordOf(s, k)], WordOf(s, q + 1)) = [k \in 1..(q + 1) |-> WordOf(s, k)]
  <2>1. Len([k \in 1..q |-> WordOf(s, k)]) = q
    BY <1>1
  <2>. QED  BY <1>1, <2>1
<1>. QED  BY <1>2, <1>3, <1>4

-----------------------------------------------------------------------------
(* The file, and the chunks read back of it.                               *)

Stored(s) == WordsOf(s) \o <<[control |-> Len(s)]>>

LEMMA StoredRead ==
  ASSUME NEW s \in Seq({0, 1}), NEW f, f = Stored(s)
  PROVE  /\ Len(f) = CeilDiv(Len(s), B) + 1
         /\ \A k \in 1..CeilDiv(Len(s), B) : f[k] \in Words
         /\ f[Len(f)] = [control |-> Len(s)]
         /\ SubSeq(f, 1, Len(f) - 1) = WordsOf(s)
<1>. DEFINE n == CeilDiv(Len(s), B)
            w == WordsOf(s)
            c == [control |-> Len(s)]
<1>1. n \in Nat /\ w \in Seq(Words) /\ Len(w) = n
  BY WordsOfType
<1>2. f = w \o <<c>>
  BY DEF Stored
<1>. HIDE DEF n, w, c
<1>3. Len(f) = n + 1 /\ f[n + 1] = c /\ \A k \in 1..n : f[k] = w[k] /\ w[k] \in Words
  BY <1>1, <1>2
<1>4. SubSeq(f, 1, n) = w
  BY <1>1, <1>2
<1>5. (n + 1) - 1 = n
  BY <1>1
<1>. QED  BY <1>3, <1>4, <1>5 DEF n, w, c

LEMMA PartOf ==
  ASSUME NEW D, NEW w \in Seq(D), NEW d \in Nat, NEW c \in Nat, d + c <= Len(w)
  PROVE  /\ SubSeq(w, d + 1, d + c) \in Seq(D)
         /\ Len(SubSeq(w, d + 1, d + c)) = c
         /\ \A i \in 1..c : SubSeq(w, d + 1, d + c)[i] = w[i + d]
<1>. DEFINE a == d + 1
            e == d + c
<1>1. a \in Int /\ e \in Int /\ (e - a) + 1 = c /\ (a <= e <=> c # 0)
  OBVIOUS
<1>2. \A i \in a..e : w[i] \in D
  OBVIOUS
<1>3. \A i \in 1..c : (a + i) - 1 = i + d
  OBVIOUS
<1>. HIDE DEF a, e
<1>4. /\ SubSeq(w, a, e) \in Seq(D)
      /\ Len(SubSeq(w, a, e)) = IF a <= e THEN e - a + 1 ELSE 0
      /\ \A i \in 1..(e - a + 1) : SubSeq(w, a, e)[i] = w[a + i - 1]
  BY <1>1, <1>2, SubSeqProperties
<1>5. Len(SubSeq(w, a, e)) = c
  BY <1>1, <1>4
<1>6. ASSUME NEW i \in 1..c
      PROVE  SubSeq(w, a, e)[i] = w[i + d]
  <2>1. i \in 1..(e - a + 1) /\ a + i - 1 = i + d
    BY <1>1, <1>3
  <2>. QED  BY <1>4, <2>1
<1>. QED  BY <1>4, <1>5, <1>6 DEF a, e

\* Ones of a chunk are ones of the words it is cut from.
LEMMA OnesOfPart ==
  ASSUME NEW w \in Seq(Words), NEW d \in Nat, NEW c \in Nat, d + c <= Len(w),
         NEW k \in 1..c
  PROVE  /\ SubSeq(w, d + 1, d + c) \in Seq(Words) /\ Len(SubSeq(w, d + 1, d + c)) = c
         /\ OnesBetween(SubSeq(w, d + 1, d + c), k, c) = OnesBetween(w, d + k, d + c)
<1>. DEFINE v == SubSeq(w, d + 1, d + c)
            I == 0..(B-1)
            T == {u \in (k..c) \X I : u[1] \in DOMAIN v /\ v[u[1]][u[2]] = 1}
            U == {u \in ((d + k)..(d + c)) \X I : u[1] \in DOMAIN w /\ w[u[1]][u[2]] = 1}
            f == [u \in T |-> <<u[1] + d, u[2]>>]
<1>1. v \in Seq(Words) /\ Len(v) = c /\ \A i \in 1..c : v[i] = w[i + d]
  BY PartOf
<1>2. DOMAIN v = 1..c /\ DOMAIN w = 1..Len(w) /\ Len(w) \in Nat
  BY <1>1
<1>3. OnesBetween(v, k, c) = Cardinality(T) /\ OnesBetween(w, d + k, d + c) = Cardinality(U)
  BY DEF OnesBetween
<1>4. IsFiniteSet(T)
  <2>1. B - 1 \in Int /\ k \in Int /\ c \in Int
    BY BSizes
  <2>2. IsFiniteSet(k..c) /\ IsFiniteSet(I)
    BY <2>1, FS_Interval
  <2>3. IsFiniteSet((k..c) \X I)
    BY <2>2, FS_Product
  <2>4. T \in SUBSET ((k..c) \X I)
    OBVIOUS
  <2>. HIDE DEF T, I
  <2>. QED  BY <2>3, <2>4, FS_Subset
<1>. HIDE DEF v
<1>5. \A u \in T : u = <<u[1], u[2]>> /\ u[1] \in k..c /\ u[2] \in I /\ v[u[1]][u[2]] = 1
  OBVIOUS
<1>6. ASSUME NEW u \in T PROVE f[u] \in U
  <2>1. u[1] \in 1..c /\ u[1] + d \in (d + k)..(d + c) /\ u[1] + d \in 1..Len(w)
    BY <1>2, <1>5
  <2>2. w[u[1] + d][u[2]] = 1
    BY <1>1, <1>5, <2>1
  <2>3. f[u] = <<u[1] + d, u[2]>>
    OBVIOUS
  <2>. HIDE DEF f
  <2>. QED  BY <1>2, <1>5, <2>1, <2>2, <2>3
<1>7. \A x, y \in T : f[x] = f[y] => x = y
  <2>. SUFFICES ASSUME NEW x \in T, NEW y \in T, f[x] = f[y] PROVE x = y
    OBVIOUS
  <2>1. x[1] \in Int /\ y[1] \in Int /\ x = <<x[1], x[2]>> /\ y = <<y[1], y[2]>>
    BY <1>5
  <2>2. x[1] + d = y[1] + d /\ x[2] = y[2]
    OBVIOUS
  <2>3. x[1] = y[1]
    BY <2>1, <2>2
  <2>. QED  BY <2>1, <2>2, <2>3
<1>8. ASSUME NEW u \in U PROVE \E x \in T : f[x] = u
  <2>1. u = <<u[1], u[2]>> /\ u[1] \in (d + k)..(d + c) /\ u[2] \in I /\ w[u[1]][u[2]] = 1
    OBVIOUS
  <2>. DEFINE i == u[1] - d
              x == <<i, u[2]>>
  <2>2. i \in k..c /\ i \in 1..c /\ i + d = u[1]
    BY <2>1
  <2>3. v[i][u[2]] = 1
    BY <1>1, <2>1, <2>2
  <2>. HIDE DEF i
  <2>4. x \in T
    BY <1>2, <2>1, <2>2, <2>3
  <2>5. f[x] = <<i + d, u[2]>>
    BY <2>4
  <2>. QED  BY <2>1, <2>2, <2>4, <2>5
<1>9. f \in [T -> U]
  BY <1>6
<1>. HIDE DEF T, U, f
<1>10. Cardinality(U) = Cardinality(T)
  BY <1>4, <1>7, <1>8, <1>9, SameNumber
<1>. QED  BY <1>1, <1>3, <1>10 DEF v

\* Where the last superblock goes beyond the last word there is nothing.
LEMMA NothingBehind ==
  ASSUME NEW s \in Seq({0, 1}), NEW p \in Marked(s)
  PROVE  p \in Nat /\ p < CeilDiv(Len(s), B) * B
<1>1. p \in Nat /\ Len(s) \in Nat /\ p < Len(s) /\ B \in Nat \ {0}
  BY BSizes DEF Marked
<1>. DEFINE k == p \div B
            n == CeilDiv(Len(s), B)
<1>2. k + 1 \in 1..n /\ p % B \in 0..(B-1) /\ k * B + (p % B) = p /\ k \in Nat
  BY <1>1, Places, Quotient
<1>3. n \in Nat
  BY <1>1, CeilDivType
<1>. HIDE DEF k, n
<1>4. (k + 1) * B <= n * B
  BY <1>1, <1>2, <1>3, MulMonotonic
<1>5. (k + 1) * B = k * B + B /\ k * B \in Nat /\ n * B \in Nat
  BY <1>1, <1>2, <1>3
<1>. QED  BY <1>1, <1>2, <1>4, <1>5 DEF n

-----------------------------------------------------------------------------
(* The entries of the index, as numbers of bits.                           *)

Lower(x, y) == IF x > y THEN y ELSE x

BlockCount(s, k)  == Count(Marked(s), (k - 1) * B, (CeilDiv(k, S) * S) * B)
SBlockCount(s, k) == Count(Marked(s), 0, (k * S) * B)

\* A chunk from superblock m on adds the entries of its blocks.
LEMMA ChunkCounts ==
  ASSUME NEW s \in Seq({0, 1}), NEW m \in Nat, NEW n \in Nat, n = Len(WordsOf(s)),
         NEW d \in Nat, d = m * S, d < n,
         NEW c \in Nat, d + c = Lower(d + S, n)
  PROVE  /\ c \in 1..S /\ Len(SubSeq(WordsOf(s), d + 1, d + c)) = c
         /\ \A k \in 1..c :
              OnesBetween(SubSeq(WordsOf(s), d + 1, d + c), k, c) = BlockCount(s, d + k)
         /\ SBlockCount(s, m) + OnesBetween(SubSeq(WordsOf(s), d + 1, d + c), 1, c)
              = SBlockCount(s, m + 1)
<1>. DEFINE w == WordsOf(s)
            v == SubSeq(w, d + 1, d + c)
            M == Marked(s)
            end == ((m + 1) * S) * B
<1>1. /\ B \in Nat \ {0} /\ S \in Nat \ {0} /\ c \in 1..S
      /\ (m + 1) * S = d + S /\ end \in Nat
  BY BSizes DEF Lower
<1>2. w \in Seq(Words) /\ Len(w) = n /\ d + c <= Len(w) /\ n = CeilDiv(Len(s), B)
  BY <1>1, WordsOfType DEF Lower
<1>3. Len(v) = c
  <2>. HIDE DEF w
  <2>. QED  BY <1>2, PartOf
<1>4. \A p \in M : p \in Nat /\ p < n * B
  BY <1>2, NothingBehind
<1>. HIDE DEF w, M, end
<1>5. ASSUME NEW k \in 1..c
      PROVE  OnesBetween(v, k, c) = Count(M, ((d + k) - 1) * B, end)
  <2>. DEFINE first == d + k
              last == d + c
              from == (first - 1) * B
  <2>1. OnesBetween(v, k, c) = OnesBetween(w, first, last)
    BY <1>2, OnesOfPart
  <2>2. first \in Nat \ {0} /\ last \in Nat
    OBVIOUS
  <2>3. from \in Nat
    <3>1. first - 1 \in Nat
      OBVIOUS
    <3>. HIDE DEF first
    <3>. QED  BY <1>1, <3>1
  <2>10. first - 1 <= last /\ first - 1 \in Int
    OBVIOUS
  <2>. HIDE DEF first, last
  <2>4. OnesBetween(w, first, last) = Count(M, from, last * B)
    BY <2>2, OnesBetweenCounts DEF w, M
  <2>5. CASE last = d + S
    BY <1>1, <2>1, <2>4, <2>5 DEF end, first
  <2>6. CASE last # d + S
    <3>1. last = n /\ n <= (m + 1) * S
      BY <1>1, <2>6 DEF last, Lower
    <3>2. n * B <= end
      <4>1. (m + 1) * S \in Int
        BY <1>1
      <4>. QED  BY <1>1, <3>1, <4>1, MulMonotonic DEF end
    <3>3. from <= n * B /\ n * B \in Nat
      <4>1. first - 1 <= n
        BY <2>10, <3>1
      <4>. QED  BY <1>1, <2>10, <4>1, MulMonotonic
    <3>4. Count(M, from, end) = Count(M, from, n * B) + Count(M, n * B, end)
      <4>. HIDE DEF from
      <4>. QED  BY <1>1, <2>3, <3>2, <3>3, CountSplit
    <3>5. Count(M, n * B, end) = 0
      <4>1. \A p \in (n * B)..(end - 1) : p \notin M
        BY <1>1, <1>4, <3>3
      <4>. QED  BY <1>1, <3>3, <4>1, CountNone
    <3>6. Count(M, from, n * B) \in Nat
      <4>. HIDE DEF from
      <4>. QED  BY <2>3, <3>3, CountType
    <3>. QED  BY <2>1, <2>4, <3>1, <3>4, <3>5, <3>6 DEF first
  <2>. QED  BY <2>5, <2>6
<1>6. ASSUME NEW k \in 1..c
      PROVE  OnesBetween(v, k, c) = BlockCount(s, d + k)
  <2>. DEFINE p == d + (k - 1)
              r == k - 1
  <2>1. p \in Nat /\ r \in 0..(S-1) /\ p = m * S + r /\ p + 1 = d + k
    BY <1>1
  <2>. HIDE DEF p, r
  <2>2. p \div S = m
    BY <1>1, <2>1, QuotientIs
  <2>3. CeilDiv(p + 1, S) = m + 1
    BY ZenonT(40), <1>1, <2>1, <2>2, LastBlockOf
  <2>. QED  BY <1>5, <2>1, <2>3 DEF BlockCount, end, M
<1>7. SBlockCount(s, m) + OnesBetween(v, 1, c) = SBlockCount(s, m + 1)
  <2>. DEFINE mid == d * B
  <2>1. 1 \in 1..c /\ (d + 1) - 1 = d
    BY <1>1
  <2>2. OnesBetween(v, 1, c) = Count(M, mid, end)
    BY <1>5, <2>1
  <2>3. mid \in Nat /\ mid <= end
    <3>1. d <= (m + 1) * S /\ (m + 1) * S \in Int
      BY <1>1
    <3>. QED  BY <1>1, <3>1, MulMonotonic DEF end
  <2>. HIDE DEF mid
  <2>4. Count(M, 0, end) = Count(M, 0, mid) + Count(M, mid, end)
    BY <1>1, <2>3, CountSplit
  <2>. QED  BY <2>2, <2>4 DEF SBlockCount, M, end, mid
<1>. QED  BY <1>1, <1>3, <1>6, <1>7 DEF w

LEMMA SBlockCountBounded ==
  ASSUME NEW s \in Seq({0, 1}), NEW m \in Nat
  PROVE  SBlockCount(s, m) \in 0..Len(s)
<1>. DEFINE M == Marked(s)
            end == (m * S) * B
            n == Len(s)
<1>1. B \in Nat \ {0} /\ S \in Nat \ {0} /\ n \in Nat
  BY BSizes
<1>2. end \in Nat
  BY <1>1
<1>3. \A p \in M : p < n
  BY DEF Marked
<1>. HIDE DEF M, end, n
<1>4. CASE end <= n
  <2>1. Count(M, 0, end) \in 0..(end - 0)
    BY <1>2, CountBounded
  <2>. QED  BY <1>1, <1>2, <1>4, <2>1 DEF SBlockCount, M, end, n
<1>5. CASE n <= end
  <2>1. Count(M, 0, n) \in 0..(n - 0)
    BY <1>1, CountBounded
  <2>2. Count(M, 0, end) = Count(M, 0, n) + Count(M, n, end)
    BY <1>1, <1>2, <1>5, CountSplit
  <2>3. Count(M, n, end) = 0
    <3>1. \A p \in n..(end-1) : p \notin M
      BY <1>1, <1>2, <1>3
    <3>. QED  BY <1>1, <1>2, <3>1, CountNone
  <2>4. Count(M, 0, end) \in 0..n
    BY <1>1, <2>1, <2>2, <2>3
  <2>. QED  BY <2>4 DEF SBlockCount, M, end, n
<1>. QED  BY <1>1, <1>2, <1>4, <1>5

LEMMA BlockCountBounded ==
  ASSUME NEW s \in Seq({0, 1}), NEW k \in Nat \ {0}
  PROVE  BlockCount(s, k) \in 0..(B * S)
<1>. DEFINE p == k - 1
            j == p \div S
            r == p % S
            from == p * B
            end == ((j + 1) * S) * B
<1>1. B \in Nat \ {0} /\ S \in Nat \ {0} /\ p \in Nat /\ p + 1 = k
  BY BSizes
<1>2. j \in Nat /\ r \in 0..(S-1) /\ p = j * S + r
  <2>. HIDE DEF p
  <2>. QED  BY <1>1, Quotient
<1>3. CeilDiv(k, S) = j + 1
  <2>. HIDE DEF p
  <2>1. CeilDiv(p + 1, S) = p \div S + 1
    BY <1>1, LastBlockOf
  <2>. QED  BY <1>1, <2>1
<1>4. BlockCount(s, k) = Count(Marked(s), from, end)
  BY <1>3 DEF BlockCount
<1>. HIDE DEF p, j, r
<1>5. p <= (j + 1) * S /\ (j + 1) * S <= p + S /\ (j + 1) * S \in Nat
  <2>1. (j + 1) * S = j * S + S /\ j * S \in Nat
    BY <1>1, <1>2
  <2>. QED  BY <1>1, <1>2, <2>1
<1>6. from <= end /\ end <= (p + S) * B
  BY <1>1, <1>5, MulMonotonic
<1>7. (p + S) * B = from + B * S /\ from \in Nat /\ end \in Nat /\ B * S \in Nat
  BY <1>1, <1>5
<1>. HIDE DEF from, end
<1>8. Count(Marked(s), from, end) \in 0..(end - from)
  BY <1>6, <1>7, CountBounded
<1>. QED  BY <1>4, <1>6, <1>7, <1>8

-----------------------------------------------------------------------------
(* The inductive invariant.                                                *)

\* What build_bitindex has after m superblocks of the index of s: the first
\* block of the next one, the entries, and the sum so far.
Reached(s, m, nx, bl, sb, rank) ==
  LET n == Len(WordsOf(s))
  IN  /\ m # 0 => (m - 1) * S < n
      /\ nx = m * S + 1
      /\ bl = [k \in 1..Lower(m * S, n) |-> BlockCount(s, k)]
      /\ sb = [k \in 1..m |-> SBlockCount(s, k)]
      /\ rank = SBlockCount(s, m)

Pushing == /\ file = FullWords(pushed) /\ current = Rest(pushed)
           /\ next = 1 /\ blocks = <<>> /\ sblocks = <<>> /\ sblockRank = 0

Indexing ==
  /\ file = Stored(pushed)
  /\ \E m \in Nat : /\ Reached(pushed, m, next, blocks, sblocks, sblockRank)
                    /\ phase = "done" => Len(WordsOf(pushed)) <= m * S

IInv == /\ phase \in {"pushing", "indexing", "done"}
        /\ pushed \in Seq({0, 1}) /\ count = Len(pushed) /\ count <= MaxBits
        /\ current \in Words
        /\ phase = "pushing" => Pushing
        /\ phase # "pushing" => Indexing

\* Nothing is reached at first.
LEMMA NothingReached ==
  ASSUME NEW s \in Seq({0, 1})
  PROVE  Reached(s, 0, 1, <<>>, <<>>, 0)
<1>. DEFINE n == Len(WordsOf(s))
<1>1. B \in Nat \ {0} /\ S \in Nat \ {0} /\ n \in Nat
  BY BSizes, WordsOfType
<1>2. 0 * S = 0 /\ 0 * B = 0
  BY <1>1
<1>. HIDE DEF n
<1>3. Lower(0, n) = 0
  BY <1>1 DEF Lower
<1>4. SBlockCount(s, 0) = 0
  <2>1. Count(Marked(s), 0, 0) = 0
    BY CountNone
  <2>. QED  BY <1>2, <2>1 DEF SBlockCount
<1>5. /\ <<>> = [k \in 1..0 |-> BlockCount(s, k)]
      /\ <<>> = [k \in 1..0 |-> SBlockCount(s, k)]
  OBVIOUS
<1>. QED  BY <1>2, <1>3, <1>4, <1>5 DEF Reached, n

\* The words of the superblock that begins at block nx.
IsChunk(chunk, s, nx) ==
  LET n == Len(WordsOf(s))
  IN  chunk = SubSeq(WordsOf(s), nx, IF nx + S - 1 > n THEN n ELSE nx + S - 1)

\* A chunk further.
LEMMA ChunkReached ==
  ASSUME NEW s \in Seq({0, 1}), NEW m \in Nat,
         NEW nx, NEW bl, NEW sb, NEW rank, Reached(s, m, nx, bl, sb, rank),
         NEW chunk, IsChunk(chunk, s, nx)
  PROVE  /\ chunk = <<>> <=> Len(WordsOf(s)) <= m * S
         /\ chunk # <<>> =>
              Reached(s, m + 1, nx + S,
                      bl \o [k \in 1..Len(chunk) |-> OnesBetween(chunk, k, Len(chunk))],
                      Append(sb, rank + OnesBetween(chunk, 1, Len(chunk))),
                      rank + OnesBetween(chunk, 1, Len(chunk)))
<1>. DEFINE d == m * S
            w == WordsOf(s)
            n == Len(w)
            e == Lower(d + S, n)
<1>1. /\ B \in Nat \ {0} /\ S \in Nat \ {0} /\ d \in Nat /\ w \in Seq(Words)
      /\ n \in Nat /\ n = Len(WordsOf(s))
  BY BSizes, WordsOfType
<1>0. chunk = SubSeq(w, nx, IF nx + S - 1 > n THEN n ELSE nx + S - 1)
  BY DEF IsChunk
<1>2. /\ nx = d + 1 /\ rank = SBlockCount(s, m)
      /\ bl = [k \in 1..Lower(d, n) |-> BlockCount(s, k)]
      /\ sb = [k \in 1..m |-> SBlockCount(s, k)]
  BY DEF Reached
<1>. HIDE DEF d, w, n
<1>3. chunk = SubSeq(w, d + 1, e)
  <2>1. (IF nx + S - 1 > n THEN n ELSE nx + S - 1) = e
    BY <1>1, <1>2 DEF Lower
  <2>. QED  BY <1>0, <1>2, <2>1
<1>4. CASE n <= d
  <2>1. e \in Int /\ e < d + 1 /\ d + 1 \in Int
    BY <1>1, <1>4 DEF Lower
  <2>. HIDE DEF e
  <2>2. chunk = <<>>
    BY <1>1, <1>3, <2>1, SubSeqEmpty
  <2>. QED  BY <1>1, <1>4, <2>2 DEF d
<1>5. CASE d < n
  <2>. DEFINE c == e - d
  <2>1. c \in Nat /\ d + c = e /\ d + c = Lower(d + S, n) /\ e \in Nat
    BY <1>1, <1>5 DEF Lower
  <2>. HIDE DEF c, e
  <2>2. chunk = SubSeq(WordsOf(s), d + 1, d + c) /\ d = m * S
    BY <1>3, <2>1 DEF w, d
  <2>3. /\ c \in 1..S /\ Len(chunk) = c
        /\ \A k \in 1..c : OnesBetween(chunk, k, c) = BlockCount(s, d + k)
        /\ SBlockCount(s, m) + OnesBetween(chunk, 1, c) = SBlockCount(s, m + 1)
    <3>1. /\ c \in 1..S /\ Len(SubSeq(WordsOf(s), d + 1, d + c)) = c
          /\ \A k \in 1..c :
               OnesBetween(SubSeq(WordsOf(s), d + 1, d + c), k, c) = BlockCount(s, d + k)
          /\ SBlockCount(s, m) + OnesBetween(SubSeq(WordsOf(s), d + 1, d + c), 1, c)
               = SBlockCount(s, m + 1)
      BY <1>1, <1>5, <2>1, <2>2, ChunkCounts
    <3>. QED  BY <2>2, <3>1
  <2>4. chunk # <<>>
    <3>1. c \in 1..S /\ Len(chunk) = c
      BY <2>3
    <3>2. c # 0
      BY <1>1, <3>1
    <3>3. Len(<<>>) = 0
      OBVIOUS
    <3>. QED  BY <3>1, <3>2, <3>3
  <2>5. (m + 1) * S = d + S /\ (m + 1) - 1 = m
    BY <1>1 DEF d
  <2>6. bl \o [k \in 1..c |-> OnesBetween(chunk, k, c)]
          = [k \in 1..Lower((m + 1) * S, n) |-> BlockCount(s, k)]
    <3>. DEFINE new == [k \in 1..c |-> OnesBetween(chunk, k, c)]
                all == [k \in 1..e |-> BlockCount(s, k)]
    <3>1. bl = [k \in 1..d |-> BlockCount(s, k)] /\ Len(bl) = d
      <4>1. Lower(d, n) = d
        BY <1>1, <1>5 DEF Lower
      <4>2. bl = [k \in 1..d |-> BlockCount(s, k)]
        BY <1>2, <4>1
      <4>. QED  BY <1>1, <4>2
    <3>2. new = [k \in 1..c |-> BlockCount(s, d + k)] /\ Len(new) = c
      BY <2>1, <2>3
    <3>3. [k \in 1..d |-> BlockCount(s, k)] \o [k \in 1..c |-> BlockCount(s, d + k)]
            = [k \in 1..(d + c) |-> BlockCount(s, k)]
      <4>. DEFINE x == [k \in 1..d |-> BlockCount(s, k)]
                  y == [k \in 1..c |-> BlockCount(s, d + k)]
      <4>1. Len(x) = d /\ Len(y) = c
        BY <1>1, <2>1
      <4>2. x \o y = [i \in 1..(d + c) |-> IF i <= d THEN x[i] ELSE y[i - d]]
        BY <1>1, <2>1, <4>1
      <4>3. ASSUME NEW i \in 1..(d + c)
            PROVE  (IF i <= d THEN x[i] ELSE y[i - d]) = BlockCount(s, i)
        <5>1. CASE i <= d
          BY <1>1, <5>1
        <5>2. CASE i > d
          <6>1. i - d \in 1..c /\ d + (i - d) = i
            BY <1>1, <2>1, <5>2
          <6>2. y[i - d] = BlockCount(s, d + (i - d))
            BY <6>1
          <6>. QED  BY <1>1, <5>2, <6>1, <6>2
        <5>. QED  BY <1>1, <5>1, <5>2
      <4>. HIDE DEF x, y
      <4>4. x \o y = [i \in 1..(d + c) |-> BlockCount(s, i)]
        BY <4>2, <4>3
      <4>. QED  BY <4>4 DEF x, y
    <3>. HIDE DEF new
    <3>4. bl \o new = [k \in 1..(d + c) |-> BlockCount(s, k)]
      BY <3>1, <3>2, <3>3
    <3>. QED  BY <2>1, <2>5, <3>4 DEF new
  <2>7. Append(sb, SBlockCount(s, m + 1)) = [k \in 1..(m + 1) |-> SBlockCount(s, k)]
    <3>1. Len([k \in 1..m |-> SBlockCount(s, k)]) = m
      OBVIOUS
    <3>. QED  BY <1>2, <3>1
  <2>8. nx + S = (m + 1) * S + 1
    BY <1>1, <1>2, <2>5
  <2>9. (m + 1) # 0 => ((m + 1) - 1) * S < n
    BY <1>5, <2>5 DEF d
  <2>10. Reached(s, m + 1, nx + S, bl \o [k \in 1..c |-> OnesBetween(chunk, k, c)],
                 Append(sb, SBlockCount(s, m + 1)), SBlockCount(s, m + 1))
    BY <1>1, <2>6, <2>7, <2>8, <2>9 DEF Reached
  <2>11. Len(chunk) = c /\ rank + OnesBetween(chunk, 1, c) = SBlockCount(s, m + 1)
    BY <1>2, <2>3
  <2>12. ~(Len(WordsOf(s)) <= m * S)
    BY <1>1, <1>5, <2>2
  <2>. QED  BY <2>4, <2>10, <2>11, <2>12
<1>6. n <= d \/ d < n
  BY <1>1
<1>. QED  BY <1>4, <1>5, <1>6

LEMMA InitInvariant == Init => IInv
<1>. SUFFICES ASSUME Init PROVE IInv
  OBVIOUS
<1>1. /\ phase = "pushing" /\ file = <<>> /\ current = Zero /\ count = 0
      /\ next = 1 /\ blocks = <<>> /\ sblocks = <<>> /\ sblockRank = 0 /\ pushed = <<>>
  BY DEF Init
<1>2. <<>> \in Seq({0, 1}) /\ Len(<<>>) = 0
  OBVIOUS
<1>3. Rest(<<>>) \in Words
  BY <1>2, FullWordsType
<1>4. Pushing
  BY <1>1, NoWords DEF Pushing
<1>5. current \in Words
  BY <1>1, <1>3, NoWords
<1>. QED  BY <1>1, <1>2, <1>4, <1>5 DEF IInv

LEMMA PushInvariant ==
  ASSUME IInv, NEW bit \in {0, 1}, Push(bit)
  PROVE  IInv'
<1>. DEFINE filled == IF bit = 1 THEN [current EXCEPT ![Position] = 1] ELSE current
            t == Append(pushed, bit)
<1>1. /\ phase = "pushing" /\ count < MaxBits /\ count' = count + 1
      /\ IF (count + 1) % B = 0
         THEN file' = Append(file, filled) /\ current' = Zero
         ELSE current' = filled /\ UNCHANGED file
      /\ pushed' = t
      /\ UNCHANGED <<phase, next, blocks, sblocks, sblockRank>>
  BY DEF Push
<1>2. /\ pushed \in Seq({0, 1}) /\ count = Len(pushed)
      /\ file = FullWords(pushed) /\ current = Rest(pushed)
      /\ next = 1 /\ blocks = <<>> /\ sblocks = <<>> /\ sblockRank = 0
  BY <1>1 DEF IInv, Pushing
<1>3. t \in Seq({0, 1}) /\ Len(t) = Len(pushed) + 1
  BY <1>2
<1>4. filled = IF bit = 1 THEN [Rest(pushed) EXCEPT ![Len(pushed) % B] = 1] ELSE Rest(pushed)
  BY <1>2 DEF Position
<1>. HIDE DEF filled
<1>5. IF (Len(pushed) + 1) % B = 0
      THEN FullWords(t) = Append(FullWords(pushed), filled) /\ Rest(t) = Zero
      ELSE FullWords(t) = FullWords(pushed) /\ Rest(t) = filled
  BY <1>2, <1>4, WordsPushed
<1>. HIDE DEF t
<1>6. file' = FullWords(t) /\ current' = Rest(t)
  BY SMTT(30), <1>1, <1>2, <1>5
<1>7. Rest(t) \in Words
  BY <1>3, FullWordsType
<1>8. Pushing'
  BY <1>1, <1>2, <1>6 DEF Pushing
<1>9. count' <= MaxBits
  BY <1>1, <1>2
<1>. QED  BY <1>1, <1>2, <1>3, <1>6, <1>7, <1>8, <1>9 DEF IInv

LEMMA FinalizeInvariant ==
  ASSUME IInv, Finalize
  PROVE  IInv'
<1>1. /\ phase = "pushing" /\ phase' = "indexing"
      /\ file' = (IF count % B # 0 THEN Append(file, current) ELSE file)
                   \o <<[control |-> count]>>
      /\ UNCHANGED <<current, count, next, blocks, sblocks, sblockRank, pushed>>
  BY DEF Finalize
<1>2. /\ pushed \in Seq({0, 1}) /\ count = Len(pushed)
      /\ file = FullWords(pushed) /\ current = Rest(pushed)
      /\ next = 1 /\ blocks = <<>> /\ sblocks = <<>> /\ sblockRank = 0
  BY <1>1 DEF IInv, Pushing
<1>3. file' = Stored(pushed)
  BY <1>1, <1>2, WordsFinished DEF Stored
<1>4. Reached(pushed, 0, 1, <<>>, <<>>, 0)
  BY <1>2, NothingReached
<1>5. Indexing'
  <2>1. 0 \in Nat /\ phase' # "done"
    BY <1>1
  <2>. QED  BY <1>1, <1>2, <1>3, <1>4, <2>1 DEF Indexing
<1>. QED  BY <1>1, <1>5 DEF IInv

\* The chunk that comes next, and how far the index is.
LEMMA NextChunk ==
  ASSUME IInv, phase = "indexing"
  PROVE  \E m \in Nat :
           /\ Reached(pushed, m, next, blocks, sblocks, sblockRank)
           /\ Chunk = <<>> <=> Len(WordsOf(pushed)) <= m * S
           /\ Chunk # <<>> =>
                Reached(pushed, m + 1, next + S,
                        blocks \o [k \in 1..Len(Chunk) |-> OnesBetween(Chunk, k, Len(Chunk))],
                        Append(sblocks, sblockRank + OnesBetween(Chunk, 1, Len(Chunk))),
                        sblockRank + OnesBetween(Chunk, 1, Len(Chunk)))
<1>1. pushed \in Seq({0, 1}) /\ file = Stored(pushed)
  BY DEF IInv, Indexing
<1>2. PICK m \in Nat : Reached(pushed, m, next, blocks, sblocks, sblockRank)
  BY DEF IInv, Indexing
<1>3. DataWords = WordsOf(pushed)
  BY <1>1, StoredRead DEF DataWords
<1>4. IsChunk(Chunk, pushed, next)
  BY <1>3 DEF Chunk, ChunkEnd, IsChunk
<1>5. /\ Chunk = <<>> <=> Len(WordsOf(pushed)) <= m * S
      /\ Chunk # <<>> =>
           Reached(pushed, m + 1, next + S,
                   blocks \o [k \in 1..Len(Chunk) |-> OnesBetween(Chunk, k, Len(Chunk))],
                   Append(sblocks, sblockRank + OnesBetween(Chunk, 1, Len(Chunk))),
                   sblockRank + OnesBetween(Chunk, 1, Len(Chunk)))
  BY <1>1, <1>2, <1>4, ChunkReached
<1>. QED  BY <1>2, <1>5

LEMMA IndexChunkInvariant ==
  ASSUME IInv, IndexChunk
  PROVE  IInv'
<1>. DEFINE rank == sblockRank + OnesBetween(Chunk, 1, Len(Chunk))
            bl == blocks \o [k \in 1..Len(Chunk) |-> OnesBetween(Chunk, k, Len(Chunk))]
<1>1. /\ phase = "indexing" /\ Chunk # <<>>
      /\ sblockRank' = rank /\ blocks' = bl /\ sblocks' = Append(sblocks, rank)
      /\ next' = next + S
      /\ UNCHANGED <<phase, file, current, count, pushed>>
  BY DEF IndexChunk, OnesOf, SubRank
<1>2. PICK m \in Nat : Reached(pushed, m + 1, next + S, bl, Append(sblocks, rank), rank)
  BY <1>1, NextChunk
<1>3. m + 1 \in Nat /\ phase' # "done"
  BY <1>1
<1>. HIDE DEF bl, rank
<1>4. Indexing'
  BY <1>1, <1>2, <1>3 DEF IInv, Indexing
<1>. QED  BY <1>1, <1>4 DEF IInv

LEMMA IndexDoneInvariant ==
  ASSUME IInv, IndexDone
  PROVE  IInv'
<1>1. /\ phase = "indexing" /\ Chunk = <<>> /\ phase' = "done"
      /\ UNCHANGED <<file, current, count, next, blocks, sblocks, sblockRank, pushed>>
  BY DEF IndexDone
<1>2. PICK m \in Nat : /\ Reached(pushed, m, next, blocks, sblocks, sblockRank)
                       /\ Len(WordsOf(pushed)) <= m * S
  BY <1>1, NextChunk
<1>3. Indexing'
  BY <1>1, <1>2 DEF IInv, Indexing
<1>. QED  BY <1>1, <1>3 DEF IInv

\* Invariance: at every step of building, file and counts are those of the bits
\* pushed so far (BitArrayFileBuilder, build_bitindex).
THEOREM Invariance == Spec => []IInv
<1>1. ASSUME IInv, Next PROVE IInv'
  <2>1. CASE \E bit \in {0, 1} : Push(bit)
    BY <1>1, <2>1, PushInvariant
  <2>2. CASE Finalize
    BY <1>1, <2>2, FinalizeInvariant
  <2>3. CASE IndexChunk
    BY <1>1, <2>3, IndexChunkInvariant
  <2>4. CASE IndexDone
    BY <1>1, <2>4, IndexDoneInvariant
  <2>. QED  BY <1>1, <2>1, <2>2, <2>3, <2>4 DEF Next
<1>2. ASSUME IInv, UNCHANGED vars PROVE IInv'
  <2>1. /\ phase' = phase /\ file' = file /\ current' = current /\ count' = count
        /\ next' = next /\ blocks' = blocks /\ sblocks' = sblocks
        /\ sblockRank' = sblockRank /\ pushed' = pushed
    BY <1>2 DEF vars
  <2>. QED  BY <1>2, <2>1 DEF IInv, Pushing, Indexing
<1>. QED  BY <1>1, <1>2, InitInvariant, PTL DEF Spec

-----------------------------------------------------------------------------
(* The invariant implies the properties.                                   *)

\* There are no more words than bits.
LEMMA FewWords ==
  ASSUME NEW n \in Nat
  PROVE  CeilDiv(n, B) <= n
<1>. DEFINE q == n \div B
            r == n % B
<1>1. B \in Nat \ {0} /\ q \in Nat /\ r \in 0..(B-1) /\ n = q * B + r
  BY BSizes, Quotient
<1>2. CeilDiv(n, B) = IF r = 0 THEN q ELSE q + 1
  BY WordCount
<1>. HIDE DEF q, r
<1>3. q * 1 <= q * B
  BY <1>1
<1>. QED  BY <1>1, <1>2, <1>3

LEMMA ReachedTypes ==
  ASSUME NEW s \in Seq({0, 1}), NEW m \in Nat, Len(s) <= MaxBits,
         NEW nx, NEW bl, NEW sb, NEW rank, Reached(s, m, nx, bl, sb, rank)
  PROVE  /\ nx \in 1..(MaxBits + S)
         /\ bl \in Seq(0..(B * S)) /\ sb \in Seq(0..MaxBits) /\ rank \in 0..MaxBits
<1>. DEFINE n == Len(WordsOf(s))
            e == Lower(m * S, n)
<1>1. B \in Nat \ {0} /\ S \in Nat \ {0} /\ Len(s) \in Nat /\ MaxBits \in Nat
  BY BSizes
<1>2. n \in Nat /\ n <= MaxBits
  <2>1. n \in Nat /\ n = CeilDiv(Len(s), B)
    BY WordsOfType
  <2>2. CeilDiv(Len(s), B) <= Len(s)
    BY <1>1, FewWords
  <2>. HIDE DEF n
  <2>. QED  BY <1>1, <2>1, <2>2
<1>3. /\ m # 0 => (m - 1) * S < n
      /\ nx = m * S + 1
      /\ bl = [k \in 1..e |-> BlockCount(s, k)]
      /\ sb = [k \in 1..m |-> SBlockCount(s, k)]
      /\ rank = SBlockCount(s, m)
  BY DEF Reached
<1>. HIDE DEF n
<1>4. m * S \in Nat /\ e \in Nat
  BY <1>1, <1>2 DEF Lower
<1>5. nx \in 1..(MaxBits + S)
  <2>1. CASE m = 0
    BY <1>1, <1>3, <2>1
  <2>2. CASE m # 0
    <3>1. (m - 1) * S = m * S - S
      BY <1>1
    <3>. QED  BY <1>1, <1>2, <1>3, <1>4, <2>2, <3>1
  <2>. QED  BY <2>1, <2>2
<1>. HIDE DEF e
<1>6. bl \in Seq(0..(B * S))
  <2>1. \A k \in 1..e : BlockCount(s, k) \in 0..(B * S)
    BY <1>4, BlockCountBounded
  <2>. QED  BY <1>3, <1>4, <2>1
<1>7. \A k \in Nat : SBlockCount(s, k) \in 0..MaxBits
  <2>. SUFFICES ASSUME NEW k \in Nat PROVE SBlockCount(s, k) \in 0..MaxBits
    OBVIOUS
  <2>1. SBlockCount(s, k) \in 0..Len(s)
    BY SBlockCountBounded
  <2>. QED  BY <1>1, <2>1
<1>8. sb \in Seq(0..MaxBits)
  <2>1. ASSUME NEW k \in 1..m PROVE SBlockCount(s, k) \in 0..MaxBits
    <3>1. k \in Nat
      OBVIOUS
    <3>. QED  BY <1>7, <3>1
  <2>2. [k \in 1..m |-> SBlockCount(s, k)] \in Seq(0..MaxBits)
    BY <2>1
  <2>. QED  BY <1>3, <2>2
<1>. QED  BY <1>3, <1>5, <1>6, <1>7, <1>8

LEMMA InvariantTypes ==
  ASSUME IInv
  PROVE  TypeOK
<1>1. /\ phase \in {"pushing", "indexing", "done"}
      /\ pushed \in Seq({0, 1}) /\ count = Len(pushed) /\ count <= MaxBits
      /\ current \in Words /\ Len(pushed) \in Nat
      /\ B \in Nat \ {0} /\ S \in Nat \ {0}
  BY BSizes DEF IInv
<1>2. count \in 0..MaxBits
  BY <1>1
<1>3. CASE phase = "pushing"
  <2>1. Pushing
    BY <1>3 DEF IInv
  <2>2. /\ next \in 1..(MaxBits + S)
        /\ blocks \in Seq(0..(B * S)) /\ sblocks \in Seq(0..MaxBits)
        /\ sblockRank \in 0..MaxBits
    BY <1>1, <2>1 DEF Pushing
  <2>3. \A k \in 1..Len(file) : file[k] \in Words
    <3>1. file \in Seq(Words)
      BY <1>1, <2>1, FullWordsType DEF Pushing
    <3>. QED  BY <3>1
  <2>. QED  BY <1>1, <1>2, <2>2, <2>3 DEF TypeOK
<1>4. CASE phase # "pushing"
  <2>1. file = Stored(pushed)
    BY <1>4 DEF IInv, Indexing
  <2>2. PICK m \in Nat : Reached(pushed, m, next, blocks, sblocks, sblockRank)
    BY <1>4 DEF IInv, Indexing
  <2>3. /\ next \in 1..(MaxBits + S)
        /\ blocks \in Seq(0..(B * S)) /\ sblocks \in Seq(0..MaxBits)
        /\ sblockRank \in 0..MaxBits
    BY <1>1, <2>2, ReachedTypes
  <2>4. ASSUME NEW k \in 1..Len(file)
        PROVE  \/ file[k] \in Words
               \/ k = Len(file) /\ file[k] \in [control : 0..MaxBits]
    <3>. DEFINE n == CeilDiv(Len(pushed), B)
    <3>1. /\ Len(file) = n + 1 /\ \A i \in 1..n : file[i] \in Words
          /\ file[Len(file)] = [control |-> Len(pushed)] /\ n \in Nat
      BY <1>1, <2>1, StoredRead, WordsOfType
    <3>2. [control |-> Len(pushed)] \in [control : 0..MaxBits]
      BY <1>1, <1>2
    <3>. HIDE DEF n
    <3>3. k \in 1..n \/ k = Len(file)
      BY <3>1
    <3>. QED  BY <3>1, <3>2, <3>3
  <2>. QED  BY <1>1, <1>2, <2>3, <2>4 DEF TypeOK
<1>. QED  BY <1>3, <1>4

\* The index, written with the numbers of bits it stands for.
LEMMA IndexIs ==
  ASSUME NEW s \in Seq({0, 1})
  PROVE  LET n == CeilDiv(Len(s), B)
         IN  BuildIndex(s) = [len |-> Len(s), words |-> WordsOf(s),
                           blocks |-> [k \in 1..n |-> BlockCount(s, k)],
                           sblocks |-> [k \in 1..CeilDiv(n, S) |-> SBlockCount(s, k)]]
<1>. DEFINE n == CeilDiv(Len(s), B)
            m == CeilDiv(n, S)
            w == WordsOf(s)
            bl == [k \in 1..Len(w) |-> OnesBetween(w, k, CeilDiv(k, S) * S)]
            sb == [k \in 1..CeilDiv(Len(w), S) |-> OnesBetween(w, 1, k * S)]
<1>1. BuildIndex(s) = [len |-> Len(s), words |-> w, blocks |-> bl, sblocks |-> sb]
  BY DEF BuildIndex
<1>2. /\ \A k \in 1..n : BuildIndex(s).blocks[k] = BlockCount(s, k)
      /\ \A k \in 1..m : BuildIndex(s).sblocks[k] = SBlockCount(s, k)
      /\ Len(w) = n
  BY EntriesCount DEF BlockCount, SBlockCount
<1>3. BuildIndex(s).blocks = bl /\ BuildIndex(s).sblocks = sb
  BY <1>1
<1>4. bl = [k \in 1..n |-> BlockCount(s, k)]
  <2>. HIDE DEF n
  <2>. QED  BY <1>2, <1>3
<1>5. sb = [k \in 1..m |-> SBlockCount(s, k)]
  <2>1. Len(w) = n
    BY <1>2
  <2>2. sb = [k \in 1..CeilDiv(n, S) |-> OnesBetween(w, 1, k * S)]
    BY <2>1
  <2>3. \A k \in 1..CeilDiv(n, S) : sb[k] = SBlockCount(s, k)
    BY <1>2, <1>3
  <2>. HIDE DEF n, w
  <2>. QED  BY <2>2, <2>3
<1>. QED  BY <1>1, <1>4, <1>5

\* When no block is left the superblocks are those there are.
LEMMA AllReached ==
  ASSUME NEW n \in Nat, NEW m \in Nat, m # 0 => (m - 1) * S < n, n <= m * S
  PROVE  CeilDiv(n, S) = m /\ Lower(m * S, n) = n
<1>. DEFINE x == n + S - 1
            r == x - m * S
<1>1. S \in Nat \ {0} /\ m * S \in Nat
  BY BSizes
<1>2. r \in 0..(S-1)
  <2>1. CASE m = 0
    BY <1>1, <2>1
  <2>2. CASE m # 0
    <3>1. (m - 1) * S = m * S - S
      BY <1>1
    <3>. QED  BY <1>1, <2>2, <3>1
  <2>. QED  BY <2>1, <2>2
<1>3. x \in Nat /\ x = m * S + r
  BY <1>1
<1>4. CeilDiv(n, S) = x \div S
  BY DEF CeilDiv
<1>. HIDE DEF x, r
<1>5. x \div S = m
  BY <1>1, <1>2, <1>3, QuotientIs
<1>6. Lower(m * S, n) = n
  BY <1>1 DEF Lower
<1>. QED  BY <1>4, <1>5, <1>6

LEMMA InvariantMatches ==
  ASSUME IInv
  PROVE  IndexMatches
<1>. SUFFICES ASSUME phase = "done"
              PROVE  /\ Len(file) = ExpectedWords(count) /\ Consistent(Index)
                     /\ Index = BuildIndex(pushed)
  BY DEF IndexMatches
<1>1. /\ pushed \in Seq({0, 1}) /\ count = Len(pushed) /\ Len(pushed) \in Nat
      /\ file = Stored(pushed)
  BY DEF IInv, Indexing
<1>2. PICK m \in Nat : /\ Reached(pushed, m, next, blocks, sblocks, sblockRank)
                       /\ Len(WordsOf(pushed)) <= m * S
  BY DEF IInv, Indexing
<1>. DEFINE n == CeilDiv(Len(pushed), B)
<1>3. n \in Nat /\ Len(WordsOf(pushed)) = n
  BY <1>1, WordsOfType
<1>4. /\ m # 0 => (m - 1) * S < n
      /\ n <= m * S
      /\ blocks = [k \in 1..Lower(m * S, n) |-> BlockCount(pushed, k)]
      /\ sblocks = [k \in 1..m |-> SBlockCount(pushed, k)]
  BY <1>2, <1>3 DEF Reached
<1>5. CeilDiv(n, S) = m /\ Lower(m * S, n) = n
  <2>. HIDE DEF n
  <2>. QED  BY <1>3, <1>4, AllReached
<1>6. /\ Len(file) = n + 1 /\ file[Len(file)] = [control |-> Len(pushed)]
      /\ DataWords = WordsOf(pushed)
  BY <1>1, StoredRead DEF DataWords
<1>7. Index = [len |-> Len(pushed), words |-> WordsOf(pushed),
               blocks |-> [k \in 1..n |-> BlockCount(pushed, k)],
               sblocks |-> [k \in 1..CeilDiv(n, S) |-> SBlockCount(pushed, k)]]
  <2>1. file[Len(file)].control = Len(pushed)
    BY <1>6
  <2>. HIDE DEF n
  <2>. QED  BY <1>4, <1>5, <1>6, <2>1 DEF Index
<1>8. Index = BuildIndex(pushed)
  BY <1>1, <1>7, IndexIs
<1>9. Consistent(Index)
  BY <1>1, <1>8, IndexConsistent
<1>10. Len(file) = ExpectedWords(count)
  <2>. DEFINE q == Len(pushed) \div B
              r == Len(pushed) % B
  <2>1. n = IF r = 0 THEN q ELSE q + 1
    BY <1>1, WordCount
  <2>2. q \in Nat
    BY <1>1, FullWordsType
  <2>3. ExpectedWords(count) = q + (IF r = 0 THEN 1 ELSE 2)
    BY <1>1 DEF ExpectedWords
  <2>. HIDE DEF n, q, r
  <2>. QED  BY <1>3, <1>6, <2>1, <2>2, <2>3
<1>. QED  BY <1>8, <1>9, <1>10

\* The width found for a number has bits for it, and for all that is smaller.
LEMMA BitsOfCovers ==
  ASSUME NEW max \in Nat
  PROVE  max < Pow2[BitsOf(max)] /\ BitsOf(max) \in Nat
<1>. DEFINE Wide == {w \in Nat : max < Pow2[w]}
            Width(w) == Pow2[w] > max /\ \A v \in 0..(w-1) : Pow2[v] <= max
<1>1. \A n \in Nat : Pow2[n] \in Nat
  BY Pow2Is
<1>2. max \in Wide /\ Wide \in SUBSET Nat
  BY Pow2Above
<1>3. PICK w \in Wide : \A v \in Wide : w <= v
  <2>. HIDE DEF Wide
  <2>. QED  BY <1>2, Least
<1>4. w \in 0..max /\ Pow2[w] > max
  BY <1>1, <1>2, <1>3
<1>5. \A v \in 0..(w-1) : Pow2[v] <= max
  <2>. SUFFICES ASSUME NEW v \in 0..(w-1) PROVE ~(max < Pow2[v])
    BY <1>1
  <2>1. v \in Nat /\ ~(w <= v)
    BY <1>4
  <2>. QED  BY <1>3, <2>1
<1>6. \E x \in 0..max : Width(x)
  BY <1>4, <1>5
<1>7. Width(BitsOf(max)) /\ BitsOf(max) \in 0..max
  <2>1. BitsOf(max) = CHOOSE x \in 0..max : Width(x)
    BY DEF BitsOf
  <2>. HIDE DEF Width
  <2>. QED  BY <1>6, <2>1
<1>. QED  BY <1>1, <1>7

LEMMA InvariantFits ==
  ASSUME IInv
  PROVE  BlocksFit
<1>. DEFINE max == S * B
<1>1. max \in Nat /\ B * S = max /\ pushed \in Seq({0, 1})
  BY BSizes DEF IInv
<1>2. blocks \in Seq(0..max)
  BY <1>1, InvariantTypes DEF TypeOK
<1>. HIDE DEF max
<1>3. max < Pow2[BitsOf(max)] /\ Pow2[BitsOf(max)] \in Int
  <2>1. max < Pow2[BitsOf(max)]
    BY <1>1, BitsOfCovers
  <2>2. BitsOf(max) \in Nat
    BY <1>1, BitsOfCovers
  <2>. QED  BY <2>1, <2>2, Pow2Is
<1>4. \A k \in 1..Len(blocks) : blocks[k] < Pow2[BitsOf(max)]
  BY <1>1, <1>2, <1>3
<1>. QED  BY <1>4 DEF BlocksFit, BlockWidth, max

LEMMA InvariantCounts ==
  ASSUME IInv
  PROVE  RankCounts
<1>. SUFFICES ASSUME phase = "done", NEW bit \in {0, 1}, NEW end \in 0..count
              PROVE  /\ end < count => Rank(Index, bit, end) = Ones(bit, 0, end + 1)
                     /\ \A start \in 0..end :
                          RankFromRange(Index, bit, start, end) = Ones(bit, start, end)
  BY DEF RankCounts
<1>1. /\ pushed \in Seq({0, 1}) /\ count = Len(pushed) /\ Len(pushed) \in Nat
      /\ Index = BuildIndex(pushed)
  BY InvariantMatches DEF IInv, IndexMatches
<1>2. ASSUME NEW a \in Nat, NEW b \in Nat, b <= Len(pushed)
      PROVE  Ones(bit, a, b) = Count(BitsAt(pushed, bit), a, b)
  <2>1. {i \in a..(b-1) : pushed[i + 1] = bit} = BitsAt(pushed, bit) \cap (a..(b-1))
    BY <1>1, <1>2 DEF BitsAt
  <2>. QED  BY <2>1 DEF Ones, Count
<1>3. ASSUME end < count PROVE Rank(Index, bit, end) = Ones(bit, 0, end + 1)
  <2>1. end \in 0..(Len(pushed)-1) /\ end + 1 \in Nat /\ end + 1 <= Len(pushed)
    BY <1>1, <1>3
  <2>2. Ones(bit, 0, end + 1) = Count(BitsAt(pushed, bit), 0, end + 1)
    BY <1>2, <2>1
  <2>3. Rank(BuildIndex(pushed), bit, end) = Count(BitsAt(pushed, bit), 0, end + 1)
    BY <1>1, <2>1, RankOf
  <2>. QED  BY <1>1, <2>2, <2>3
<1>4. ASSUME NEW start \in 0..end
      PROVE  RankFromRange(Index, bit, start, end) = Ones(bit, start, end)
  <2>1. end \in 0..Len(pushed) /\ end \in Nat /\ end <= Len(pushed) /\ start \in Nat
    BY <1>1
  <2>2. Ones(bit, start, end) = Count(BitsAt(pushed, bit), start, end)
    BY <1>2, <2>1
  <2>3. RankFromRange(BuildIndex(pushed), bit, start, end)
          = Count(BitsAt(pushed, bit), start, end)
    BY <1>1, <2>1, RankInRange
  <2>. QED  BY <1>1, <2>2, <2>3
<1>. QED  BY <1>3, <1>4

\* The reference counts what is sought, and its n-th bit is the one with that
\* number.
LEMMA OnesIs ==
  ASSUME IInv, NEW bit \in {0, 1}, NEW a \in Nat, NEW b \in Nat, b <= Len(pushed)
  PROVE  /\ \A i \in a..(b-1) : pushed[i + 1] = bit <=> i \in Sought(pushed, bit)
         /\ Ones(bit, a, b) = Count(Sought(pushed, bit), a, b)
<1>1. pushed \in Seq({0, 1})
  BY DEF IInv
<1>2. \A i \in a..(b-1) : i \in 0..(Len(pushed)-1)
  BY <1>1
<1>3. \A i \in a..(b-1) : pushed[i + 1] = bit <=> i \in Sought(pushed, bit)
  BY <1>1, <1>2, SoughtIn
<1>4. {i \in a..(b-1) : pushed[i + 1] = bit} = Sought(pushed, bit) \cap (a..(b-1))
  BY <1>3
<1>. QED  BY <1>3, <1>4 DEF Ones, Count

LEMMA NthIs ==
  ASSUME IInv, NEW bit \in {0, 1}, NEW end \in 0..Len(pushed), NEW start \in 0..end,
         NEW rank \in 1..Ones(bit, start, end)
  PROVE  \E p \in start..(end-1) :
           /\ p \in Sought(pushed, bit)
           /\ NumberFrom(pushed, bit, start, p) = rank
           /\ Nth(bit, rank, start, end) = p
<1>. DEFINE T == Sought(pushed, bit)
            hits == {i \in start..(end-1) : pushed[i + 1] = bit /\ Ones(bit, start, i + 1) = rank}
<1>1. /\ pushed \in Seq({0, 1}) /\ Len(pushed) \in Nat
      /\ start \in Nat /\ end \in Nat /\ start <= end /\ end <= Len(pushed)
  BY DEF IInv
<1>2. rank \in 1..Count(T, start, end)
  BY <1>1, OnesIs
<1>. HIDE DEF T
<1>3. PICK p \in start..(end-1) : p \in T /\ Count(T, start, p + 1) = rank
  BY <1>1, <1>2, CountReaches
<1>4. ASSUME NEW i \in start..(end-1)
      PROVE  /\ pushed[i + 1] = bit <=> i \in T
             /\ Ones(bit, start, i + 1) = Count(T, start, i + 1)
  <2>1. i + 1 \in Nat /\ i + 1 <= Len(pushed)
    BY <1>1
  <2>. QED  BY <1>1, <2>1, OnesIs DEF T
<1>5. p \in hits
  BY <1>3, <1>4
<1>6. \A i \in hits : i = p
  <2>. SUFFICES ASSUME NEW i \in start..(end-1), i \in T, Count(T, start, i + 1) = rank
                PROVE  i = p
    BY <1>4
  <2>1. i \in Int /\ p \in Int /\ start \in Int /\ start <= i /\ start <= p
        /\ Count(T, start, i + 1) = Count(T, start, p + 1)
    BY <1>1, <1>3
  <2>. QED  BY <1>3, <2>1, CountTells
<1>7. (CHOOSE i \in hits : TRUE) = p /\ hits # {}
  <2>. HIDE DEF hits
  <2>. QED  BY <1>5, <1>6
<1>8. Nth(bit, rank, start, end) = p
  BY <1>7 DEF Nth
<1>. QED  BY <1>3, <1>8 DEF T, NumberFrom

LEMMA InvariantRangeSelects ==
  ASSUME IInv
  PROVE  RangeSelectFinds
<1>. SUFFICES ASSUME phase = "done", NEW bit \in {0, 1}, NEW end \in 0..count,
                     NEW start \in 0..(end-1), NEW rank \in 1..Ones(bit, start, end)
              PROVE  SelectFromRange(Index, bit, rank, start, end)
                       = Nth(bit, rank, start, end)
  BY DEF RangeSelectFinds
<1>1. /\ pushed \in Seq({0, 1}) /\ count = Len(pushed) /\ Len(pushed) \in Nat
      /\ Index = BuildIndex(pushed)
  BY InvariantMatches DEF IInv, IndexMatches
<1>2. end \in 0..Len(pushed) /\ start \in 0..end /\ end \in Nat /\ start \in Nat
  BY <1>1
<1>3. PICK p \in start..(end-1) :
        /\ p \in Sought(pushed, bit)
        /\ NumberFrom(pushed, bit, start, p) = rank
        /\ Nth(bit, rank, start, end) = p
  BY <1>2, NthIs
<1>4. p \in 0..(Len(pushed)-1) /\ start \in 0..p
      /\ (end = NoEnd \/ (end \in 0..Len(pushed) /\ p < end))
  BY <1>1, <1>2
<1>5. SelectFromRange(BuildIndex(pushed), bit, NumberFrom(pushed, bit, start, p), start, end) = p
  BY <1>1, <1>3, <1>4, SelectAt
<1>. QED  BY <1>1, <1>3, <1>5

LEMMA InvariantSelects ==
  ASSUME IInv
  PROVE  SelectFinds
<1>. SUFFICES ASSUME phase = "done", NEW rank \in 1..(count + S * B)
              PROVE  /\ Select(Index, 1, rank) = Nth(1, rank, 0, count)
                     /\ rank <= Ones(0, 0, count)
                          => Select(Index, 0, rank) = Nth(0, rank, 0, count)
  BY DEF SelectFinds
<1>1. /\ pushed \in Seq({0, 1}) /\ count = Len(pushed) /\ Len(pushed) \in Nat
      /\ Index = BuildIndex(pushed) /\ rank \in Nat /\ 1 <= rank
  <2>1. S * B \in Nat
    BY BSizes
  <2>2. pushed \in Seq({0, 1}) /\ count = Len(pushed) /\ Len(pushed) \in Nat
        /\ Index = BuildIndex(pushed)
    BY InvariantMatches DEF IInv, IndexMatches
  <2>. QED  BY <2>1, <2>2
<1>2. ASSUME NEW bit \in {0, 1}
      PROVE  Ones(bit, 0, count) = Count(Sought(pushed, bit), 0, Len(pushed))
             /\ Ones(bit, 0, count) \in Nat
  <2>1. Ones(bit, 0, count) = Count(Sought(pushed, bit), 0, Len(pushed))
    BY <1>1, OnesIs
  <2>. QED  BY <1>1, <2>1, CountType
<1>3. ASSUME NEW bit \in {0, 1}, rank <= Ones(bit, 0, count)
      PROVE  Select(Index, bit, rank) = Nth(bit, rank, 0, count)
  <2>1. /\ count \in 0..Len(pushed) /\ 0 \in 0..count
        /\ rank \in 1..Ones(bit, 0, count)
    BY <1>1, <1>2, <1>3
  <2>2. PICK p \in 0..(count-1) :
          /\ p \in Sought(pushed, bit)
          /\ NumberFrom(pushed, bit, 0, p) = rank
          /\ Nth(bit, rank, 0, count) = p
    BY <2>1, NthIs
  <2>3. p \in 0..(Len(pushed)-1) /\ 0 \in 0..p
        /\ (NoEnd = NoEnd \/ (NoEnd \in 0..Len(pushed) /\ p < NoEnd))
    BY <1>1
  <2>4. SelectFromRange(BuildIndex(pushed), bit, NumberFrom(pushed, bit, 0, p), 0, NoEnd) = p
    BY <1>1, <2>2, <2>3, SelectAt
  <2>. QED  BY <1>1, <2>2, <2>4 DEF Select
<1>4. CASE rank <= Ones(1, 0, count)
  BY <1>3, <1>4
<1>5. CASE Ones(1, 0, count) < rank
  <2>. DEFINE hits == {i \in 0..(count-1) : pushed[i + 1] = 1 /\ Ones(1, 0, i + 1) = rank}
  <2>1. hits = {}
    <3>. SUFFICES ASSUME NEW i \in 0..(count-1) PROVE Ones(1, 0, i + 1) # rank
      OBVIOUS
    <3>1. i + 1 \in Nat /\ i + 1 <= Len(pushed)
      BY <1>1
    <3>2. Ones(1, 0, i + 1) = Count(Sought(pushed, 1), 0, i + 1)
      BY <1>1, <3>1, OnesIs
    <3>3. Count(Sought(pushed, 1), 0, i + 1) <= Count(Sought(pushed, 1), 0, Len(pushed))
      BY <1>1, <3>1, CountGrows
    <3>4. Count(Sought(pushed, 1), 0, i + 1) \in Nat
      BY <3>1, CountType
    <3>. QED  BY <1>1, <1>2, <1>5, <3>2, <3>3, <3>4
  <2>2. Nth(1, rank, 0, count) = NoIndex
    BY <2>1 DEF Nth
  <2>3. Select(BuildIndex(pushed), 1, rank) = NoIndex
    <3>1. Count(Sought(pushed, 1), 0, Len(pushed)) < rank
      BY <1>2, <1>5
    <3>. QED  BY <1>1, <3>1, SelectNone
  <2>. QED  BY <1>1, <1>2, <1>3, <2>2, <2>3
<1>. QED  BY <1>1, <1>2, <1>4, <1>5

\* Types: what is in the file and in the index stays in its range, for every
\* size of words and superblocks.
THEOREM TypeCorrect == Spec => []TypeOK
BY Invariance, InvariantTypes, PTL

\* build_bitindex leaves the index of the bits that were pushed, of the sizes
\* from_bits and from_parts check: chunk by chunk, with a short last superblock
\* and the control word left out.
THEOREM IndexAlwaysMatches == Spec => []IndexMatches
BY Invariance, InvariantMatches, PTL

\* And the entries of its blocks fit the width their array is given before any
\* of them is known.
THEOREM IndexIsBuilt == Spec => []BuildsTheIndex
<1>1. ASSUME IInv PROVE BuildsTheIndex
  BY <1>1, InvariantFits, InvariantMatches DEF BuildsTheIndex
<1>. QED  BY <1>1, Invariance, PTL

\* rank1 and rank0 of what was built count the bits pushed, up to any position
\* and in any range.
THEOREM RankAlwaysCounts == Spec => []RankCounts
BY Invariance, InvariantCounts, PTL

\* select1 finds the bit of every rank, and nothing past the last; select0 the
\* zeros there are: for every size of words, superblocks and lines, whether the
\* index is searched or the bits are scanned.
THEOREM SelectAlwaysFinds == Spec => []SelectFinds
BY Invariance, InvariantSelects, PTL

\* And counting from the start of a range that holds the bit sought.
THEOREM RangeSelectAlwaysFinds == Spec => []RangeSelectFinds
BY Invariance, InvariantRangeSelects, PTL
=============================================================================
