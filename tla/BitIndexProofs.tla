--------------------------- MODULE BitIndexProofs ---------------------------
(***************************************************************************)
(* Facts about the index of an array of bits, for blocks and superblocks   *)
(* of any size: get reads the bits, rank counts them and select finds      *)
(* them.  Before them come the facts they rest on, which the modules that  *)
(* extend this one use too: about quotients, about the members a set has   *)
(* between two bounds, about induction and recursion, and about binary     *)
(* searches.                                                               *)
(***************************************************************************)
EXTENDS BitIndex, SequencesExt, FiniteSetTheorems, SequenceTheorems, WellFoundedInduction,
        TLAPS

-----------------------------------------------------------------------------
(* Quotients.                                                              *)

LEMMA MulMonotonic ==
  ASSUME NEW d \in Nat, NEW a \in Int, NEW b \in Int, a <= b
  PROVE  a * d <= b * d
OBVIOUS

LEMMA Quotient ==
  ASSUME NEW x \in Nat, NEW d \in Nat \ {0}
  PROVE  /\ x \div d \in Nat /\ x % d \in 0..(d-1)
         /\ x = (x \div d) * d + (x % d)
OBVIOUS

\* A quotient is below a bound if the multiple of the divisor is.
LEMMA QuotientBelow ==
  ASSUME NEW x \in Nat, NEW d \in Nat \ {0}, NEW q \in Int, x < q * d
  PROVE  x \div d < q
<1>. DEFINE k == x \div d
            r == x % d
<1>1. k \in Nat /\ r \in 0..(d-1) /\ x = k * d + r
  BY Quotient
<1>. HIDE DEF k, r
<1>2. ASSUME q <= k PROVE FALSE
  <2>1. q * d <= k * d
    BY <1>1, <1>2, MulMonotonic
  <2>. QED  BY <1>1, <2>1
<1>3. k < q
  BY <1>1, <1>2
<1>. QED  BY <1>3 DEF k

\* A number has only one quotient and remainder.
LEMMA QuotientIs ==
  ASSUME NEW d \in Nat \ {0}, NEW q \in Nat, NEW r \in 0..(d-1), NEW x \in Nat,
         x = q * d + r
  PROVE  x \div d = q /\ x % d = r
<1>. DEFINE k == x \div d
            s == x % d
<1>1. k \in Nat /\ s \in 0..(d-1) /\ x = k * d + s
  BY Quotient
<1>. HIDE DEF k, s
<1>2. k < q + 1
  <2>1. (q + 1) * d = q * d + d
    OBVIOUS
  <2>2. x < (q + 1) * d
    BY <2>1
  <2>. QED  BY <2>2, QuotientBelow DEF k
<1>3. ASSUME k < q PROVE FALSE
  <2>1. (k + 1) * d <= q * d
    BY <1>1, <1>3, MulMonotonic
  <2>2. (k + 1) * d = k * d + d
    BY <1>1
  <2>. QED  BY <1>1, <2>1, <2>2
<1>4. k = q
  BY <1>1, <1>2, <1>3
<1>5. s = r
  BY <1>1, <1>4
<1>. QED  BY <1>4, <1>5 DEF k, s

-----------------------------------------------------------------------------
(* Members between two bounds.                                             *)

\* The members of T from a on and below b.
Count(T, a, b) == Cardinality(T \cap (a..(b-1)))

\* The places of a sequence of numbers, from 0 on, that do not hold a zero.
Marked(s) == {p \in 0..(Len(s)-1) : s[p + 1] # 0}

Extends(t, s) == Len(s) <= Len(t) /\ \A i \in 1..Len(s) : t[i] = s[i]

\* The members in an interval are finitely many.
LEMMA CountFinite ==
  ASSUME NEW T, NEW a \in Int, NEW b \in Int
  PROVE  IsFiniteSet(T \cap (a..(b-1)))
<1>1. b - 1 \in Int
  OBVIOUS
<1>2. IsFiniteSet(a..(b-1))
  BY <1>1, FS_Interval
<1>. QED  BY <1>2, FS_Intersection

LEMMA CountType ==
  ASSUME NEW T, NEW a \in Int, NEW b \in Int
  PROVE  Count(T, a, b) \in Nat
BY CountFinite, FS_CardinalityType DEF Count

\* Only what the set has inside the bounds counts.
LEMMA CountSame ==
  ASSUME NEW T, NEW U, NEW a \in Int, NEW b \in Int,
         \A p \in a..(b-1) : p \in T <=> p \in U
  PROVE  Count(T, a, b) = Count(U, a, b)
<1>1. T \cap (a..(b-1)) = U \cap (a..(b-1))
  OBVIOUS
<1>. QED  BY <1>1 DEF Count

LEMMA CountNone ==
  ASSUME NEW T, NEW a \in Int, NEW b \in Int, \A p \in a..(b-1) : p \notin T
  PROVE  Count(T, a, b) = 0
<1>1. T \cap (a..(b-1)) = {}
  OBVIOUS
<1>. QED  BY <1>1, FS_EmptySet DEF Count

LEMMA CountAll ==
  ASSUME NEW T, NEW a \in Int, NEW b \in Int, a <= b, \A p \in a..(b-1) : p \in T
  PROVE  Count(T, a, b) = b - a
<1>1. T \cap (a..(b-1)) = a..(b-1)
  OBVIOUS
<1>2. b - 1 \in Int
  OBVIOUS
<1>3. Cardinality(a..(b-1)) = IF a > b - 1 THEN 0 ELSE (b - 1) - a + 1
  BY <1>2, FS_Interval
<1>4. Cardinality(a..(b-1)) = b - a
  BY <1>3
<1>5. Count(T, a, b) = Cardinality(a..(b-1))
  BY <1>1 DEF Count
<1>. QED  BY <1>4, <1>5

\* Two intervals that meet.
LEMMA CountSplit ==
  ASSUME NEW T, NEW a \in Int, NEW b \in Int, NEW c \in Int, a <= b, b <= c
  PROVE  Count(T, a, c) = Count(T, a, b) + Count(T, b, c)
<1>. DEFINE L == T \cap (a..(b-1))
            R == T \cap (b..(c-1))
<1>1. T \cap (a..(c-1)) = L \cup R
  OBVIOUS
<1>2. L \cap R = {}
  OBVIOUS
<1>3. IsFiniteSet(L) /\ IsFiniteSet(R) /\ Cardinality(L) \in Nat /\ Cardinality(R) \in Nat
  BY CountFinite, FS_CardinalityType
<1>4. Cardinality(L \cup R) = Cardinality(L) + Cardinality(R) - Cardinality(L \cap R)
  BY <1>3, FS_Union
<1>5. Cardinality(L \cap R) = 0
  BY <1>2, FS_EmptySet
<1>6. Count(T, a, b) = Cardinality(L) /\ Count(T, b, c) = Cardinality(R)
  BY DEF Count
<1>7. Count(T, a, c) = Cardinality(L \cup R)
  BY <1>1 DEF Count
<1>. HIDE DEF L, R
<1>. QED  BY <1>3, <1>4, <1>5, <1>6, <1>7

\* A step further counts one or none.
LEMMA CountStep ==
  ASSUME NEW T, NEW a \in Int, NEW b \in Int, a <= b
  PROVE  Count(T, a, b + 1) = Count(T, a, b) + (IF b \in T THEN 1 ELSE 0)
<1>1. Count(T, a, b + 1) = Count(T, a, b) + Count(T, b, b + 1)
  BY CountSplit
<1>2. CASE b \in T
  <2>1. Count(T, b, b + 1) = (b + 1) - b
    BY <1>2, CountAll
  <2>. QED  BY <1>1, <1>2, <2>1
<1>3. CASE b \notin T
  <2>1. Count(T, b, b + 1) = 0
    BY <1>3, CountNone
  <2>2. Count(T, a, b) \in Nat
    BY CountType
  <2>. QED  BY <1>1, <1>3, <2>1, <2>2
<1>. QED  BY <1>2, <1>3

\* More of the set is not less.
LEMMA CountGrows ==
  ASSUME NEW T, NEW a \in Int, NEW b \in Int, NEW c \in Int, a <= b, b <= c
  PROVE  Count(T, a, b) <= Count(T, a, c)
<1>1. Count(T, a, c) = Count(T, a, b) + Count(T, b, c)
  BY CountSplit
<1>2. Count(T, a, b) \in Nat /\ Count(T, b, c) \in Nat
  BY CountType
<1>. QED  BY <1>1, <1>2

\* What a sequence is extended by does not count before its end.
LEMMA CountExtended ==
  ASSUME NEW D, NEW s \in Seq(D), NEW t \in Seq(D), Extends(t, s),
         NEW n \in 0..Len(s)
  PROVE  Count(Marked(t), 0, n) = Count(Marked(s), 0, n)
<1>1. \A p \in 0..(n-1) : p \in Marked(t) <=> p \in Marked(s)
  BY DEF Marked, Extends
<1>. QED  BY <1>1, CountSame

\* As many members as another set has, if one is the image of the other.
LEMMA SameNumber ==
  ASSUME NEW T, NEW U, IsFiniteSet(T), NEW f \in [T -> U],
         \A x, y \in T : f[x] = f[y] => x = y,
         \A u \in U : \E x \in T : f[x] = u
  PROVE  IsFiniteSet(U) /\ Cardinality(U) = Cardinality(T)
<1>1. f \in Bijection(T, U)
  BY DEF Bijection, Injection, Surjection, IsInjective
<1>2. ExistsBijection(T, U)
  BY <1>1 DEF ExistsBijection
<1>. QED  BY <1>2, FS_Bijection

\* Between a and b the members of U are those of T that are d further on.
Shifted(U, T, a, b, d) == \A p \in a..(b-1) : p \in U <=> p + d \in T

\* Counting from another place on.
LEMMA CountShift ==
  ASSUME NEW T, NEW U, NEW a \in Int, NEW b \in Int, NEW c \in Int, NEW e \in Int,
         NEW d \in Int, c = a + d, e = b + d, Shifted(U, T, a, b, d)
  PROVE  Count(U, a, b) = Count(T, c, e)
<1>. DEFINE D == U \cap (a..(b-1))
            R == T \cap (c..(e-1))
            f == [x \in D |-> x + d]
<1>1. IsFiniteSet(D)
  BY CountFinite
<1>2. f \in [D -> R]
  BY DEF Shifted
<1>3. \A x, y \in D : f[x] = f[y] => x = y
  OBVIOUS
<1>4. ASSUME NEW u \in R PROVE \E x \in D : f[x] = u
  <2>1. u - d \in a..(b-1) /\ (u - d) + d = u
    OBVIOUS
  <2>2. u - d \in D
    BY <2>1 DEF Shifted
  <2>. QED  BY <2>1, <2>2
<1>. HIDE DEF D, R, f
<1>5. Cardinality(R) = Cardinality(D)
  BY <1>1, <1>2, <1>3, <1>4, SameNumber
<1>. QED  BY <1>5 DEF D, R, Count

\* What is not counted is counted by the complement.
LEMMA CountComplement ==
  ASSUME NEW T, NEW U, NEW a \in Int, NEW b \in Int, a <= b,
         \A p \in a..(b-1) : p \in U <=> p \notin T
  PROVE  Count(U, a, b) = (b - a) - Count(T, a, b)
<1>. DEFINE I == a..(b-1)
<1>1. IsFiniteSet(I) /\ Cardinality(I) = Count(I, a, b)
  <2>1. I \cap (a..(b-1)) = I
    OBVIOUS
  <2>2. IsFiniteSet(I \cap (a..(b-1)))
    BY CountFinite
  <2>. QED  BY <2>1, <2>2 DEF Count
<1>2. Count(I, a, b) = b - a
  BY CountAll
<1>3. U \cap (a..(b-1)) = I \ T
  OBVIOUS
<1>4. I \cap T = T \cap (a..(b-1))
  OBVIOUS
<1>5. Cardinality(I \ T) = Cardinality(I) - Cardinality(I \cap T)
  BY <1>1, FS_Difference
<1>6. Count(U, a, b) = Cardinality(I \ T) /\ Count(T, a, b) = Cardinality(I \cap T)
  BY <1>3, <1>4 DEF Count
<1>. QED  BY <1>1, <1>2, <1>5, <1>6

\* Quotients grow with what is divided.
LEMMA QuotientFrom ==
  ASSUME NEW x \in Nat, NEW d \in Nat \ {0}, NEW q \in Int, q * d <= x
  PROVE  q <= x \div d
<1>. DEFINE k == x \div d
            r == x % d
<1>1. k \in Nat /\ r \in 0..(d-1) /\ x = k * d + r
  BY Quotient
<1>. HIDE DEF k, r
<1>2. ASSUME k + 1 <= q PROVE FALSE
  <2>1. (k + 1) * d <= q * d
    BY <1>1, <1>2, MulMonotonic
  <2>2. (k + 1) * d = k * d + d
    BY <1>1
  <2>. QED  BY <1>1, <2>1, <2>2
<1>3. q <= k
  BY <1>1, <1>2
<1>. QED  BY <1>3 DEF k

LEMMA QuotientGrows ==
  ASSUME NEW x \in Nat, NEW y \in Nat, x <= y, NEW d \in Nat \ {0}
  PROVE  x \div d <= y \div d
<1>. DEFINE k == x \div d
            r == x % d
<1>1. k \in Nat /\ r \in 0..(d-1) /\ x = k * d + r
  BY Quotient
<1>. HIDE DEF k, r
<1>2. k * d <= y
  <2>1. k * d \in Nat
    BY <1>1
  <2>. QED  BY <1>1, <2>1
<1>3. k <= y \div d
  BY <1>1, <1>2, QuotientFrom
<1>. QED  BY <1>3 DEF k

-----------------------------------------------------------------------------
(* Induction, over sets.                                                   *)

\* A set of naturals has a least member.
LEMMA Least ==
  ASSUME NEW T \in SUBSET Nat, T # {}
  PROVE  \E m \in T : \A n \in T : m <= n
<1>1. PICK m \in T : \A n \in T : ~(<<n, m>> \in OpToRel(<, Nat))
  BY NatLessThanWellFounded, WFMin
<1>2. \A n \in T : ~(n < m)
  BY <1>1 DEF OpToRel
<1>. QED  BY <1>2

\* What is good for zero, and for a successor if for its predecessor, is good for
\* all naturals.
LEMMA Induct ==
  ASSUME NEW T, 0 \in T, \A n \in Nat : n \in T => n + 1 \in T
  PROVE  \A n \in Nat : n \in T
<1>. DEFINE Bad == {n \in Nat : n \notin T}
<1>1. ASSUME Bad # {} PROVE FALSE
  <2>. HIDE DEF Bad
  <2>1. Bad \in SUBSET Nat
    BY DEF Bad
  <2>2. PICK m \in Bad : \A n \in Bad : m <= n
    BY <1>1, <2>1, Least
  <2>3. m \in Nat /\ m \notin T
    BY DEF Bad
  <2>4. m - 1 \in Nat /\ (m - 1) + 1 = m
    BY <2>3
  <2>5. m - 1 \notin Bad
    BY <2>2, <2>3
  <2>. QED  BY <2>3, <2>4, <2>5 DEF Bad
<1>. QED  BY <1>1

\* What is good whenever something smaller is, is always good.
LEMMA Descent ==
  ASSUME NEW G, NEW size \in [G -> Nat], NEW Good,
         \A r \in G : \/ r \in Good
                     \/ \E q \in G : size[q] < size[r] /\ (q \in Good => r \in Good)
  PROVE  \A r \in G : r \in Good
<1>. SUFFICES ASSUME NEW x \in G, x \notin Good PROVE FALSE
  OBVIOUS
<1>. DEFINE Bad == {n \in Nat : \E r \in G : r \notin Good /\ size[r] = n}
<1>1. Bad \in SUBSET Nat /\ size[x] \in Bad
  OBVIOUS
<1>2. \A r \in G : r \notin Good => size[r] \in Bad
  OBVIOUS
<1>. HIDE DEF Bad
<1>3. PICK m \in Bad : \A n \in Bad : m <= n
  BY <1>1, Least
<1>4. PICK r \in G : r \notin Good /\ size[r] = m
  BY DEF Bad
<1>5. PICK q \in G : size[q] < size[r] /\ q \notin Good
  BY <1>4
<1>6. size[q] \in Nat /\ m \in Nat
  BY <1>1
<1>. QED  BY <1>2, <1>3, <1>4, <1>5, <1>6

\* A first value and a way on from each give a function on the naturals.
IsRecursion(f, V, a, g) ==
  f \in [Nat -> V] /\ f[0] = a /\ \A n \in Nat : f[n + 1] = g[<<n, f[n]>>]

LEMMA Recursion ==
  ASSUME NEW V, NEW a \in V, NEW g \in [Nat \X V -> V]
  PROVE  \E f : IsRecursion(f, V, a, g)
<1>. DEFINE Part(n, f) == /\ f \in [0..n -> V] /\ f[0] = a
                          /\ \A i \in 0..(n-1) : f[i + 1] = g[<<i, f[i]>>]
            Reached == {n \in Nat : \E f : Part(n, f)}
<1>1. 0 \in Reached
  <2>1. Part(0, [i \in 0..0 |-> a])
    OBVIOUS
  <2>. QED  BY <2>1
<1>2. ASSUME NEW n \in Nat, n \in Reached PROVE n + 1 \in Reached
  <2>1. PICK f : Part(n, f)
    BY <1>2
  <2>. DEFINE h == [i \in 0..(n+1) |-> IF i = n + 1 THEN g[<<n, f[n]>>] ELSE f[i]]
  <2>2. g[<<n, f[n]>>] \in V /\ \A i \in 0..n : f[i] \in V
    BY <2>1
  <2>3. h \in [0..(n+1) -> V] /\ h[0] = a
    BY <2>1, <2>2
  <2>4. ASSUME NEW i \in 0..n PROVE h[i + 1] = g[<<i, h[i]>>]
    <3>1. h[i] = f[i] /\ i + 1 \in 0..(n+1)
      OBVIOUS
    <3>2. CASE i = n
      BY <3>1, <3>2
    <3>3. CASE i # n
      <4>1. i \in 0..(n-1) /\ i + 1 # n + 1
        BY <3>3
      <4>2. h[i + 1] = f[i + 1]
        BY <3>1, <4>1
      <4>. HIDE DEF h
      <4>. QED  BY <2>1, <3>1, <4>1, <4>2
    <3>. QED  BY <3>2, <3>3
  <2>5. (n + 1) - 1 = n
    OBVIOUS
  <2>. HIDE DEF h
  <2>6. Part(n + 1, h)
    BY <2>3, <2>4, <2>5
  <2>. QED  BY <2>6
<1>3. \A n \in Nat : \E f : Part(n, f)
  <2>. HIDE DEF Part
  <2>1. 0 \in Reached /\ \A n \in Nat : n \in Reached => n + 1 \in Reached
    BY <1>1, <1>2
  <2>. HIDE DEF Reached
  <2>2. \A n \in Nat : n \in Reached
    BY <2>1, Induct
  <2>. QED  BY <2>2 DEF Reached
<1>4. ASSUME NEW n \in Nat, NEW f, NEW h, Part(n, f), Part(n + 1, h)
      PROVE  h[n] = f[n]
  <2>. DEFINE Same == {i \in Nat : i <= n => h[i] = f[i]}
  <2>1. 0 \in Same
    BY <1>4
  <2>2. ASSUME NEW i \in Nat, i \in Same PROVE i + 1 \in Same
    <3>. SUFFICES ASSUME i + 1 <= n PROVE h[i + 1] = f[i + 1]
      OBVIOUS
    <3>1. i \in 0..(n-1) /\ i \in 0..((n + 1)-1) /\ h[i] = f[i]
      BY <2>2
    <3>. QED  BY <1>4, <3>1
  <2>. HIDE DEF Same
  <2>3. n \in Same
    BY <2>1, <2>2, Induct
  <2>. QED  BY <2>3 DEF Same
<1>. DEFINE p == [n \in Nat |-> CHOOSE f : Part(n, f)]
            F == [n \in Nat |-> p[n][n]]
<1>5. \A n \in Nat : Part(n, p[n])
  <2>. HIDE DEF Part
  <2>. QED  BY <1>3
<1>. HIDE DEF p
<1>6. F \in [Nat -> V] /\ F[0] = a
  BY <1>5
<1>7. ASSUME NEW n \in Nat PROVE F[n + 1] = g[<<n, F[n]>>]
  <2>1. Part(n, p[n]) /\ Part(n + 1, p[n + 1])
    BY <1>5
  <2>2. n \in 0..((n + 1)-1) /\ n + 1 \in Nat
    OBVIOUS
  <2>3. p[n + 1][n + 1] = g[<<n, p[n + 1][n]>>]
    BY <2>1, <2>2
  <2>4. p[n + 1][n] = p[n][n]
    <3>. HIDE DEF Part
    <3>. QED  BY <1>4, <2>1
  <2>. QED  BY <2>2, <2>3, <2>4
<1>. HIDE DEF F
<1>. QED  BY <1>6, <1>7 DEF IsRecursion

\* So does a value where a way ends, and a way that gets shorter.
IsDescent(f, G, stop, val, next) ==
  f = [r \in G |-> IF r \in stop THEN val[r] ELSE f[next[r]]]

LEMMA TailRecursion ==
  ASSUME NEW G, NEW size \in [G -> Nat], NEW stop, NEW next \in [G -> G],
         NEW R, NEW val \in [G -> R],
         \A r \in G : r \notin stop => size[next[r]] < size[r]
  PROVE  \E f : IsDescent(f, G, stop, val, next)
<1>. DEFINE V == [G -> R]
            g == [x \in Nat \X V |->
                    [r \in G |-> IF r \in stop THEN val[r] ELSE x[2][next[r]]]]
<1>1. g \in [Nat \X V -> V] /\ val \in V
  OBVIOUS
<1>2. PICK F : IsRecursion(F, V, val, g)
  <2>. HIDE DEF V, g
  <2>. QED  BY <1>1, Recursion
<1>3. F \in [Nat -> V] /\ F[0] = val /\ \A n \in Nat : F[n + 1] = g[<<n, F[n]>>]
  <2>. HIDE DEF V, g
  <2>. QED  BY <1>2 DEF IsRecursion
<1>4. ASSUME NEW n \in Nat, NEW r \in G
      PROVE  /\ F[0][r] = val[r]
             /\ F[n + 1][r] = IF r \in stop THEN val[r] ELSE F[n][next[r]]
  <2>1. F[n] \in V
    <3>. HIDE DEF V, g
    <3>. QED  BY <1>3
  <2>2. F[n + 1] = g[<<n, F[n]>>]
    <3>. HIDE DEF V, g
    <3>. QED  BY <1>3
  <2>3. g[<<n, F[n]>>] = [x \in G |-> IF x \in stop THEN val[x] ELSE F[n][next[x]]]
    <3>. HIDE DEF V
    <3>. QED  BY <2>1
  <2>. QED  BY <1>3, <2>2, <2>3
<1>. HIDE DEF V, g
<1>. DEFINE Stable(n) == \A m \in 0..n : \A r \in G : size[r] <= m => F[m][r] = F[size[r]][r]
            T == {n \in Nat : Stable(n)}
<1>5. \A n \in Nat : \A r \in G : r \in stop => F[n][r] = val[r]
  <2>. SUFFICES ASSUME NEW n \in Nat, NEW r \in G, r \in stop PROVE F[n][r] = val[r]
    OBVIOUS
  <2>1. CASE n = 0
    BY <1>4, <2>1
  <2>2. CASE n # 0
    <3>1. n - 1 \in Nat /\ (n - 1) + 1 = n
      BY <2>2
    <3>. QED  BY <1>4, <3>1
  <2>. QED  BY <2>1, <2>2
<1>6. 0 \in T
  <2>. SUFFICES ASSUME NEW m \in 0..0, NEW r \in G, size[r] <= m PROVE F[m][r] = F[size[r]][r]
    OBVIOUS
  <2>1. size[r] = m
    OBVIOUS
  <2>. QED  BY <2>1
<1>7. ASSUME NEW n \in Nat, n \in T PROVE n + 1 \in T
  <2>. SUFFICES ASSUME NEW r \in G, size[r] <= n + 1
                PROVE  F[n + 1][r] = F[size[r]][r]
    <3>1. \A m \in 0..(n+1) : m \in 0..n \/ m = n + 1
      OBVIOUS
    <3>. QED  BY <1>7, <3>1
  <2>1. CASE size[r] = n + 1
    BY <2>1
  <2>2. CASE size[r] <= n /\ r \in stop
    BY <1>5, <2>2
  <2>3. CASE size[r] <= n /\ r \notin stop
    <3>. DEFINE q == next[r]
                k == size[r] - 1
    <3>1. q \in G /\ size[q] \in Nat /\ size[r] \in Nat /\ size[q] < size[r]
      BY <2>3
    <3>2. k \in 0..n /\ size[q] <= k /\ k + 1 = size[r] /\ n \in 0..n /\ size[q] <= n
      BY <2>3, <3>1
    <3>3. F[k][q] = F[size[q]][q] /\ F[n][q] = F[size[q]][q]
      <4>1. Stable(n)
        BY <1>7
      <4>. HIDE DEF q, k
      <4>. QED  BY <3>1, <3>2, <4>1
    <3>4. F[n + 1][r] = F[n][q] /\ F[k + 1][r] = F[k][q]
      BY <1>4, <2>3, <3>2
    <3>. QED  BY <3>2, <3>3, <3>4
  <2>4. size[r] \in Nat
    OBVIOUS
  <2>. QED  BY <2>1, <2>2, <2>3, <2>4
<1>8. \A n \in Nat : Stable(n)
  <2>. HIDE DEF Stable
  <2>1. 0 \in T /\ \A n \in Nat : n \in T => n + 1 \in T
    BY <1>6, <1>7
  <2>. HIDE DEF T
  <2>2. \A n \in Nat : n \in T
    BY <2>1, Induct
  <2>. QED  BY <2>2 DEF T
<1>. DEFINE f == [r \in G |-> F[size[r]][r]]
<1>9. ASSUME NEW r \in G PROVE f[r] = IF r \in stop THEN val[r] ELSE f[next[r]]
  <2>1. size[r] \in Nat
    OBVIOUS
  <2>2. CASE r \in stop
    BY <1>5, <2>1, <2>2
  <2>3. CASE r \notin stop
    <3>. DEFINE q == next[r]
                k == size[r] - 1
    <3>1. q \in G /\ size[q] \in Nat /\ size[q] < size[r]
      BY <2>3
    <3>2. k \in Nat /\ k \in 0..k /\ size[q] <= k /\ k + 1 = size[r]
      BY <2>1, <3>1
    <3>3. F[k][q] = F[size[q]][q]
      <4>1. Stable(k)
        <5>. HIDE DEF Stable
        <5>. QED  BY <1>8, <3>2
      <4>. HIDE DEF q, k
      <4>. QED  BY <3>1, <3>2, <4>1
    <3>4. F[k + 1][r] = F[k][q]
      BY <1>4, <2>3, <3>2
    <3>. QED  BY <2>3, <3>1, <3>2, <3>3, <3>4
  <2>. QED  BY <2>2, <2>3
<1>10. f = [r \in G |-> IF r \in stop THEN val[r] ELSE f[next[r]]]
  BY <1>9
<1>. HIDE DEF f
<1>. QED  BY <1>10 DEF IsDescent

\* Entries are no larger than what they count.
LEMMA CountBounded ==
  ASSUME NEW T, NEW a \in Int, NEW b \in Int, a <= b
  PROVE  Count(T, a, b) \in 0..(b - a)
<1>. DEFINE U == {p \in Int : p \notin T}
<1>1. \A p \in a..(b-1) : p \in U <=> p \notin T
  OBVIOUS
<1>2. Count(U, a, b) \in Nat /\ Count(T, a, b) \in Nat
  BY CountType
<1>. HIDE DEF U
<1>3. Count(U, a, b) = (b - a) - Count(T, a, b)
  BY <1>1, CountComplement
<1>. QED  BY <1>2, <1>3

-----------------------------------------------------------------------------
(* Sequences one after another.                                            *)

\* F as the definition of FlattenSeq has it, up to the i-th sequence; o tells
\* where every sequence begins.
Flattens(F, s, n) == F = [i \in 1..n |-> IF i = 1 THEN s[i] ELSE F[i - 1] \o s[i]]
Offsets(o, s, n) == /\ o \in [1..(n+1) -> Nat] /\ o[1] = 0
                    /\ \A f \in 1..n : o[f + 1] = o[f] + Len(s[f])
HoldsAll(r, D, o, s, m) == /\ r \in Seq(D) /\ Len(r) = o[m + 1]
                           /\ \A f \in 1..m : \A k \in 1..Len(s[f]) :
                                o[f] + k <= o[m + 1] /\ r[o[f] + k] = s[f][k]

LEMMA FlattensExists ==
  ASSUME NEW n \in Nat \ {0}, NEW D, NEW s \in [1..n -> Seq(D)]
  PROVE  \E F : Flattens(F, s, n)
<1>. DEFINE V == Seq(D)
            a == s[1]
            g == [x \in Nat \X V |-> IF x[1] + 2 \in 1..n THEN x[2] \o s[x[1] + 2] ELSE x[2]]
<1>1. a \in V /\ g \in [Nat \X V -> V]
  OBVIOUS
<1>2. PICK G : IsRecursion(G, V, a, g)
  <2>. HIDE DEF V, a, g
  <2>. QED  BY <1>1, Recursion
<1>3. G \in [Nat -> V] /\ G[0] = s[1] /\ \A m \in Nat : G[m + 1] = g[<<m, G[m]>>]
  <2>. HIDE DEF g, V
  <2>. QED  BY <1>2 DEF IsRecursion
<1>. DEFINE F == [i \in 1..n |-> G[i - 1]]
<1>4. ASSUME NEW i \in 1..n, i # 1 PROVE F[i] = F[i - 1] \o s[i]
  <2>. DEFINE m == i - 2
  <2>1. m \in Nat /\ m + 1 = i - 1 /\ m + 2 = i /\ i - 1 \in 1..n /\ (i - 1) - 1 = m
    BY <1>4
  <2>. HIDE DEF m
  <2>2. F[i] = G[m + 1] /\ F[i - 1] = G[m]
    BY <2>1
  <2>3. G[m + 1] = g[<<m, G[m]>>] /\ G[m] \in V
    <3>. HIDE DEF g, V
    <3>. QED  BY <1>3, <2>1
  <2>4. <<m, G[m]>> \in Nat \X V /\ <<m, G[m]>>[1] = m /\ <<m, G[m]>>[2] = G[m]
    BY <2>1, <2>3
  <2>5. g[<<m, G[m]>>] = G[m] \o s[m + 2]
    BY <2>1, <2>4
  <2>. QED  BY <2>1, <2>2, <2>3, <2>5
<1>5. F[1] = s[1]
  BY <1>3
<1>6. \A i \in 1..n : F[i] = IF i = 1 THEN s[i] ELSE F[i - 1] \o s[i]
  BY <1>4, <1>5
<1>7. Flattens(F, s, n)
  BY <1>6 DEF Flattens
<1>. QED  BY <1>7

LEMMA FlattenIs ==
  ASSUME NEW n \in Nat \ {0}, NEW D, NEW s \in [1..n -> Seq(D)], NEW o, Offsets(o, s, n)
  PROVE  HoldsAll(FlattenSeq(s), D, o, s, n)
<1>1. s \in Seq(Seq(D)) /\ Len(s) = n
  <2>1. s \in Seq(Seq(D))
    BY SeqDef
  <2>2. DOMAIN s = 1..Len(s) /\ Len(s) \in Nat /\ DOMAIN s = 1..n
    BY <2>1, LenProperties
  <2>. QED  BY <2>1, <2>2
<1>. DEFINE F == CHOOSE F : Flattens(F, s, n)
<1>2. Flattens(F, s, n)
  BY FlattensExists
<1>3. FlattenSeq(s) = F[n]
  <2>1. F = CHOOSE h : h = [i \in 1..Len(s) |-> IF i = 1 THEN s[i] ELSE h[i - 1] \o s[i]]
    BY <1>1 DEF Flattens
  <2>. QED  BY <1>1, <2>1 DEF FlattenSeq
<1>. HIDE DEF F
<1>4. F[1] = s[1] /\ \A i \in 1..n : i # 1 => F[i] = F[i - 1] \o s[i]
  <2>1. 1 \in 1..n
    OBVIOUS
  <2>. QED  BY <1>2, <2>1 DEF Flattens
<1>5. /\ o \in [1..(n+1) -> Nat] /\ o[1] = 0
      /\ \A f \in 1..n : o[f + 1] = o[f] + Len(s[f]) /\ Len(s[f]) \in Nat /\ s[f] \in Seq(D)
  BY DEF Offsets
<1>. DEFINE T == {m \in Nat : m + 1 <= n => HoldsAll(F[m + 1], D, o, s, m + 1)}
<1>6. 0 \in T
  <2>1. o[1 + 1] = Len(s[1]) /\ F[1] = s[1] /\ s[1] \in Seq(D)
    BY <1>4, <1>5
  <2>2. ASSUME NEW k \in 1..Len(s[1]) PROVE o[1] + k <= o[1 + 1] /\ F[1][o[1] + k] = s[1][k]
    BY <1>4, <1>5, <2>1
  <2>3. HoldsAll(F[1], D, o, s, 1)
    BY <2>1, <2>2 DEF HoldsAll
  <2>. QED  BY <2>3
<1>7. ASSUME NEW m \in Nat, m \in T PROVE m + 1 \in T
  <2>. SUFFICES ASSUME (m + 1) + 1 <= n PROVE HoldsAll(F[(m + 1) + 1], D, o, s, (m + 1) + 1)
    OBVIOUS
  <2>. DEFINE i == m + 1
              r == F[i]
              t == F[i + 1]
              b == s[i + 1]
  <2>1. /\ i \in 1..n /\ i + 1 \in 1..n /\ i + 1 # 1 /\ (i + 1) - 1 = i
        /\ HoldsAll(r, D, o, s, i)
    BY <1>7
  <2>2. t = r \o b
    BY <1>4, <2>1
  <2>3. /\ r \in Seq(D) /\ b \in Seq(D) /\ Len(b) \in Nat /\ Len(r) \in Nat
        /\ Len(r) = o[i + 1] /\ o[(i + 1) + 1] = o[i + 1] + Len(b)
    BY <1>5, <2>1 DEF HoldsAll
  <2>. HIDE DEF r, t, b, i
  <2>4. /\ t \in Seq(D) /\ Len(t) = o[(i + 1) + 1]
        /\ \A x \in 1..(Len(r) + Len(b)) : t[x] = IF x <= Len(r) THEN r[x] ELSE b[x - Len(r)]
    <3>1. r \o b \in Seq(D) /\ Len(r \o b) = Len(r) + Len(b)
      <4>1. r \in Seq(D) /\ b \in Seq(D)
        BY <2>3
      <4>. QED  BY <4>1, ConcatProperties
    <3>2. ASSUME NEW x \in 1..(Len(r) + Len(b))
          PROVE  (r \o b)[x] = IF x <= Len(r) THEN r[x] ELSE b[x - Len(r)]
      BY <2>3
    <3>. QED  BY <2>2, <2>3, <3>1, <3>2
  <2>5. ASSUME NEW f \in 1..(i + 1), NEW k \in 1..Len(s[f])
        PROVE  o[f] + k <= o[(i + 1) + 1] /\ t[o[f] + k] = s[f][k]
    <3>1. CASE f = i + 1
      <4>1. s[f] = b /\ o[f] = Len(r)
        BY <2>3, <3>1 DEF b
      <4>2. Len(r) + k \in 1..(Len(r) + Len(b)) /\ ~(Len(r) + k <= Len(r))
            /\ (Len(r) + k) - Len(r) = k
        BY <2>3, <4>1
      <4>. QED  BY SMTT(30), <2>3, <2>4, <4>1, <4>2
    <3>2. CASE f \in 1..i
      <4>1. o[f] + k <= Len(r) /\ r[o[f] + k] = s[f][k]
        BY <2>1, <2>3, <3>2 DEF HoldsAll
      <4>2. o[f] \in Nat /\ k \in Nat \ {0}
        <5>1. f \in 1..n /\ f \in 1..(n+1)
          BY <2>1, <3>2
        <5>2. Len(s[f]) \in Nat /\ o[f] \in Nat
          BY <1>5, <5>1
        <5>. QED  BY <5>2
      <4>3. o[f] + k \in 1..(Len(r) + Len(b))
        BY SMTT(30), <2>3, <4>1, <4>2
      <4>4. o[f] + k <= Len(r) + Len(b)
        BY <2>3, <4>1, <4>2
      <4>5. o[f] + k <= o[(i + 1) + 1]
        BY <2>3, <4>4
      <4>. DEFINE x == o[f] + k
      <4>6. x \in 1..(Len(r) + Len(b)) /\ x <= Len(r) /\ r[x] = s[f][k]
        BY <4>1, <4>3
      <4>. HIDE DEF x
      <4>7. t[x] = s[f][k]
        BY <2>4, <4>6
      <4>. QED  BY <4>5, <4>7 DEF x
    <3>3. f = i + 1 \/ f \in 1..i
      BY <2>1
    <3>. QED  BY <3>1, <3>2, <3>3
  <2>6. HoldsAll(t, D, o, s, i + 1)
    BY <2>4, <2>5 DEF HoldsAll
  <2>. QED  BY <2>6 DEF t, i
<1>. HIDE DEF T
<1>8. n - 1 \in T
  <2>1. n - 1 \in Nat
    OBVIOUS
  <2>. QED  BY <1>6, <1>7, <2>1, Induct
<1>9. (n - 1) + 1 = n
  OBVIOUS
<1>10. HoldsAll(F[n], D, o, s, n)
  BY <1>8, <1>9 DEF T
<1>. QED  BY <1>3, <1>10

-----------------------------------------------------------------------------
(* Members by their number.                                                *)

\* Counting from a on, every number up to the count is that of a member.
LEMMA CountReaches ==
  ASSUME NEW T, NEW a \in Int, NEW b \in Int, a <= b, NEW n \in 1..Count(T, a, b)
  PROVE  \E p \in a..(b-1) : p \in T /\ Count(T, a, p + 1) = n
<1>. DEFINE Far == {d \in Nat : n <= Count(T, a, a + d)}
<1>1. b - a \in Far
  <2>1. b - a \in Nat /\ a + (b - a) = b
    OBVIOUS
  <2>2. n <= Count(T, a, b)
    BY CountType
  <2>. QED  BY <2>1, <2>2
<1>2. Far \in SUBSET Nat /\ Far # {}
  BY <1>1
<1>3. PICK d \in Far : \A e \in Far : d <= e
  <2>. HIDE DEF Far
  <2>. QED  BY <1>2, Least
<1>4. d \in Nat /\ n <= Count(T, a, a + d) /\ d <= b - a
  BY <1>1, <1>3
<1>5. n \in Nat /\ 1 <= n
  BY CountType
<1>6. d # 0
  <2>1. Count(T, a, a) = 0
    BY CountNone
  <2>. QED  BY <1>4, <1>5, <2>1
<1>. DEFINE p == a + (d - 1)
<1>7. /\ d - 1 \in Nat /\ d - 1 < d
      /\ p \in Int /\ a <= p /\ p \in a..(b-1) /\ p + 1 = a + d
  BY <1>4, <1>6
<1>8. ~(n <= Count(T, a, p))
  BY <1>3, <1>7
<1>. HIDE DEF p, Far
<1>9. Count(T, a, p + 1) = Count(T, a, p) + (IF p \in T THEN 1 ELSE 0)
  BY <1>7, CountStep
<1>10. Count(T, a, p) \in Nat
  BY <1>7, CountType
<1>11. p \in T /\ Count(T, a, p + 1) = n
  BY <1>4, <1>5, <1>7, <1>8, <1>9, <1>10
<1>. QED  BY <1>7, <1>11

\* Two members have different numbers.
LEMMA CountTells ==
  ASSUME NEW T, NEW a \in Int, NEW p \in Int, NEW q \in Int, a <= p, a <= q,
         p \in T, q \in T, Count(T, a, p + 1) = Count(T, a, q + 1)
  PROVE  p = q
<1>1. ASSUME NEW x \in Int, NEW y \in Int, a <= x, x < y, y \in T
      PROVE  Count(T, a, x + 1) < Count(T, a, y + 1)
  <2>1. Count(T, a, y + 1) = Count(T, a, y) + 1
    BY <1>1, CountStep
  <2>2. Count(T, a, x + 1) <= Count(T, a, y)
    BY <1>1, CountGrows
  <2>3. Count(T, a, x + 1) \in Nat /\ Count(T, a, y) \in Nat
    BY <1>1, CountType
  <2>. QED  BY <2>1, <2>2, <2>3
<1>2. Count(T, a, p + 1) \in Nat
  BY CountType
<1>3. ~(p < q) /\ ~(q < p)
  BY <1>1, <1>2
<1>. QED  BY <1>3

\* A quotient of a quotient.
LEMMA QuotientTwice ==
  ASSUME NEW x \in Nat, NEW d \in Nat \ {0}, NEW e \in Nat \ {0}
  PROVE  x \div (d * e) = (x \div d) \div e
<1>. DEFINE k == x \div d
            b == x % d
            q == k \div e
            r == k % e
<1>1. k \in Nat /\ b \in 0..(d-1) /\ x = k * d + b
  BY Quotient
<1>. HIDE DEF k, b
<1>2. q \in Nat /\ r \in 0..(e-1) /\ k = q * e + r
  BY <1>1, Quotient
<1>. HIDE DEF q, r
<1>3. r * d \in Nat /\ r * d + d <= e * d
  <2>1. r + 1 <= e /\ r + 1 \in Int /\ e \in Int /\ d \in Nat
    BY <1>2
  <2>2. (r + 1) * d <= e * d
    BY <2>1, MulMonotonic
  <2>3. (r + 1) * d = r * d + d /\ r * d \in Nat
    BY <1>2
  <2>. QED  BY <2>2, <2>3
<1>4. d * e \in Nat \ {0} /\ d * e = e * d
  OBVIOUS
<1>5. r * d + b \in 0..(d * e - 1)
  BY <1>1, <1>3, <1>4
<1>6. x = q * (d * e) + (r * d + b)
  <2>1. k * d = q * (d * e) + r * d
    BY <1>2
  <2>2. q * (d * e) \in Int
    BY <1>2
  <2>. QED  BY <1>1, <1>3, <2>1, <2>2
<1>. DEFINE y == r * d + b
            c == d * e
<1>7. c \in Nat \ {0} /\ y \in 0..(c-1) /\ x = q * c + y
  BY <1>4, <1>5, <1>6
<1>. HIDE DEF y, c
<1>8. x \div c = q
  BY <1>2, <1>7, QuotientIs
<1>. QED  BY <1>8 DEF c, q, k

-----------------------------------------------------------------------------
(* Searches that halve a range.                                            *)

LEMMA MidBetween ==
  ASSUME NEW lo \in Int, NEW hi \in Int, lo < hi
  PROVE  /\ (lo + hi) \div 2 \in lo..(hi-1)
         /\ (hi + lo) \div 2 \in lo..(hi-1)
         /\ (lo + hi + 1) \div 2 \in (lo+1)..hi
         /\ (hi + lo + 1) \div 2 \in (lo+1)..hi
OBVIOUS

\* The searches of select, which go up for the places in Up: the middle is rounded
\* down, or up.
SearchDown(f, first, last, Up) ==
  [range \in (first..last) \X (first..last) |->
     LET lo  == range[1]
         hi  == range[2]
         mid == (lo + hi) \div 2
     IN  IF lo = hi THEN mid
         ELSE IF mid \in Up THEN f[<<mid + 1, hi>>] ELSE f[<<lo, mid>>]]
IsSearchDown(f, first, last, Up) == f = SearchDown(f, first, last, Up)

SearchUp(f, first, last, Up) ==
  [range \in (first..last) \X (first..last) |->
     LET lo  == range[1]
         hi  == range[2]
         mid == (lo + hi + 1) \div 2
     IN  IF lo = hi THEN mid
         ELSE IF mid \in Up THEN f[<<mid, hi>>] ELSE f[<<lo, mid - 1>>]]
IsSearchUp(f, first, last, Up) == f = SearchUp(f, first, last, Up)

\* From every range that holds j it finds j.
Finds(f, first, last, j) == \A lo \in first..j, hi \in j..last : f[<<lo, hi>>] = j

Within(j, lo, hi) == IF j < lo THEN lo ELSE IF j > hi THEN hi ELSE j
Ends(j, first, last) ==
  [range \in (first..last) \X (first..last) |->
     IF range[1] > range[2] THEN 0 ELSE Within(j, range[1], range[2])]

LEMMA SearchDownEnds ==
  ASSUME NEW first \in Int, NEW last \in Int, NEW Up, NEW j \in first..last,
         \A mid \in first..(last-1) : mid \in Up <=> mid < j
  PROVE  /\ \E f : IsSearchDown(f, first, last, Up)
         /\ \A f : IsSearchDown(f, first, last, Up) => Finds(f, first, last, j)
<1>. DEFINE D == first..last
<1>1. ASSUME NEW g, NEW lo \in D, NEW hi \in D
      PROVE  /\ SearchDown(g, first, last, Up)[<<lo, hi>>] =
                  (IF lo = hi THEN (lo + hi) \div 2
                   ELSE IF (lo + hi) \div 2 \in Up THEN g[<<(lo + hi) \div 2 + 1, hi>>]
                   ELSE g[<<lo, (lo + hi) \div 2>>])
  BY DEF SearchDown
<1>2. \E f : IsSearchDown(f, first, last, Up)
  <2>. DEFINE w == Ends(j, first, last)
  <2>1. ASSUME NEW lo \in D, NEW hi \in D
        PROVE  w[<<lo, hi>>] = IF lo > hi THEN 0 ELSE Within(j, lo, hi)
    BY DEF Ends
  <2>2. DOMAIN w = D \X D /\ DOMAIN SearchDown(w, first, last, Up) = D \X D
    BY DEF Ends, SearchDown
  <2>. HIDE DEF w
  <2>3. ASSUME NEW lo \in D, NEW hi \in D
        PROVE  w[<<lo, hi>>] = SearchDown(w, first, last, Up)[<<lo, hi>>]
    <3>. DEFINE mid == (lo + hi) \div 2
    <3>1. SearchDown(w, first, last, Up)[<<lo, hi>>] =
            IF lo = hi THEN mid ELSE IF mid \in Up THEN w[<<mid + 1, hi>>] ELSE w[<<lo, mid>>]
      BY <1>1
    <3>2. CASE lo = hi
      <4>1. mid = lo
        BY <3>2
      <4>. QED  BY <2>1, <3>1, <3>2, <4>1 DEF Within
    <3>3. CASE lo < hi
      <4>1. mid \in lo..(hi-1)
        BY <3>3, MidBetween
      <4>. HIDE DEF mid
      <4>2. mid \in D /\ mid + 1 \in D /\ (mid \in Up <=> mid < j)
        BY <4>1
      <4>3. /\ w[<<lo, hi>>] = Within(j, lo, hi)
            /\ w[<<mid + 1, hi>>] = Within(j, mid + 1, hi)
            /\ w[<<lo, mid>>] = Within(j, lo, mid)
        BY <2>1, <3>3, <4>1, <4>2
      <4>. QED  BY <3>1, <3>3, <4>1, <4>2, <4>3 DEF Within
    <3>4. CASE lo > hi
      <4>1. mid \in hi..(lo-1)
        BY <3>4, MidBetween
      <4>. HIDE DEF mid
      <4>2. mid \in D /\ mid + 1 \in D
        BY <4>1
      <4>3. w[<<lo, hi>>] = 0 /\ w[<<mid + 1, hi>>] = 0 /\ w[<<lo, mid>>] = 0
        BY <2>1, <3>4, <4>1, <4>2
      <4>. QED  BY <3>1, <3>4, <4>3
    <3>. QED  BY <3>2, <3>3, <3>4
  <2>4. w = SearchDown(w, first, last, Up)
    <3>1. \A r \in D \X D : w[r] = SearchDown(w, first, last, Up)[r]
      BY <2>3
    <3>. QED  BY <2>2, <3>1 DEF SearchDown, Ends, w
  <2>. QED  BY <2>4 DEF IsSearchDown
<1>3. ASSUME NEW f, IsSearchDown(f, first, last, Up)
      PROVE  Finds(f, first, last, j)
  <2>. DEFINE G == (first..j) \X (j..last)
              size == [r \in G |-> r[2] - r[1]]
              Good == {r \in G : f[r] = j}
  <2>1. size \in [G -> Nat]
    OBVIOUS
  <2>2. ASSUME NEW lo \in first..j, NEW hi \in j..last
        PROVE  \/ <<lo, hi>> \in Good
               \/ \E q \in G : size[q] < size[<<lo, hi>>] /\ (q \in Good => <<lo, hi>> \in Good)
    <3>. DEFINE mid == (lo + hi) \div 2
    <3>1. f[<<lo, hi>>] =
            IF lo = hi THEN mid ELSE IF mid \in Up THEN f[<<mid + 1, hi>>] ELSE f[<<lo, mid>>]
      <4>1. f = SearchDown(f, first, last, Up)
        BY <1>3 DEF IsSearchDown
      <4>2. lo \in D /\ hi \in D
        OBVIOUS
      <4>. HIDE DEF D
      <4>3. f[<<lo, hi>>] = SearchDown(f, first, last, Up)[<<lo, hi>>]
        BY <4>1
      <4>. QED  BY <1>1, <4>2, <4>3
    <3>2. CASE lo = hi
      <4>1. mid = lo /\ lo = j
        BY <3>2
      <4>. QED  BY <3>1, <3>2, <4>1
    <3>3. CASE lo < hi
      <4>1. mid \in lo..(hi-1)
        BY <3>3, MidBetween
      <4>. HIDE DEF mid
      <4>2. mid \in Up <=> mid < j
        BY <4>1
      <4>3. CASE mid < j
        <5>1. f[<<lo, hi>>] = f[<<mid + 1, hi>>]
          BY <3>1, <3>3, <4>2, <4>3
        <5>2. <<mid + 1, hi>> \in G /\ size[<<mid + 1, hi>>] < size[<<lo, hi>>]
          BY <4>1, <4>3
        <5>. QED  BY <5>1, <5>2
      <4>4. CASE j <= mid
        <5>1. f[<<lo, hi>>] = f[<<lo, mid>>]
          BY <3>1, <3>3, <4>1, <4>2, <4>4
        <5>2. <<lo, mid>> \in G /\ size[<<lo, mid>>] < size[<<lo, hi>>]
          BY <4>1, <4>4
        <5>. QED  BY <5>1, <5>2
      <4>5. mid < j \/ j <= mid
        BY <4>1
      <4>. QED  BY <4>3, <4>4, <4>5, Zenon
    <3>4. lo = hi \/ lo < hi
      OBVIOUS
    <3>. QED  BY <3>2, <3>3, <3>4, Zenon
  <2>3. \A r \in G : \/ r \in Good
                     \/ \E q \in G : size[q] < size[r] /\ (q \in Good => r \in Good)
    <3>. HIDE DEF size, Good
    <3>. QED  BY <2>2
  <2>. HIDE DEF G, size, Good
  <2>4. \A r \in G : r \in Good
    BY <2>1, <2>3, Descent
  <2>. QED  BY <2>4 DEF G, Good, Finds
<1>. QED  BY <1>2, <1>3

LEMMA SearchUpEnds ==
  ASSUME NEW first \in Int, NEW last \in Int, NEW Up, NEW j \in first..last,
         \A mid \in (first+1)..last : mid \in Up <=> mid <= j
  PROVE  /\ \E f : IsSearchUp(f, first, last, Up)
         /\ \A f : IsSearchUp(f, first, last, Up) => Finds(f, first, last, j)
<1>. DEFINE D == first..last
<1>1. ASSUME NEW g, NEW lo \in D, NEW hi \in D
      PROVE  /\ SearchUp(g, first, last, Up)[<<lo, hi>>] =
                  (IF lo = hi THEN (lo + hi + 1) \div 2
                   ELSE IF (lo + hi + 1) \div 2 \in Up THEN g[<<(lo + hi + 1) \div 2, hi>>]
                   ELSE g[<<lo, (lo + hi + 1) \div 2 - 1>>])
  BY DEF SearchUp
<1>2. \E f : IsSearchUp(f, first, last, Up)
  <2>. DEFINE w == Ends(j, first, last)
  <2>1. ASSUME NEW lo \in D, NEW hi \in D
        PROVE  w[<<lo, hi>>] = IF lo > hi THEN 0 ELSE Within(j, lo, hi)
    BY DEF Ends
  <2>2. DOMAIN w = D \X D /\ DOMAIN SearchUp(w, first, last, Up) = D \X D
    BY DEF Ends, SearchUp
  <2>. HIDE DEF w
  <2>3. ASSUME NEW lo \in D, NEW hi \in D
        PROVE  w[<<lo, hi>>] = SearchUp(w, first, last, Up)[<<lo, hi>>]
    <3>. DEFINE mid == (lo + hi + 1) \div 2
    <3>1. SearchUp(w, first, last, Up)[<<lo, hi>>] =
            IF lo = hi THEN mid ELSE IF mid \in Up THEN w[<<mid, hi>>] ELSE w[<<lo, mid - 1>>]
      BY <1>1
    <3>2. CASE lo = hi
      <4>1. mid = lo
        BY <3>2
      <4>. QED  BY <2>1, <3>1, <3>2, <4>1 DEF Within
    <3>3. CASE lo < hi
      <4>1. mid \in (lo+1)..hi
        BY <3>3, MidBetween
      <4>. HIDE DEF mid
      <4>2. mid \in D /\ mid - 1 \in D /\ (mid \in Up <=> mid <= j)
        BY <4>1
      <4>3. /\ w[<<lo, hi>>] = Within(j, lo, hi)
            /\ w[<<mid, hi>>] = Within(j, mid, hi)
            /\ w[<<lo, mid - 1>>] = Within(j, lo, mid - 1)
        BY <2>1, <3>3, <4>1, <4>2
      <4>. QED  BY <3>1, <3>3, <4>1, <4>2, <4>3 DEF Within
    <3>4. CASE lo > hi
      <4>1. mid \in (hi+1)..lo
        BY <3>4, MidBetween
      <4>. HIDE DEF mid
      <4>2. mid \in D /\ mid - 1 \in D
        BY <4>1
      <4>3. w[<<lo, hi>>] = 0 /\ w[<<mid, hi>>] = 0 /\ w[<<lo, mid - 1>>] = 0
        BY <2>1, <3>4, <4>1, <4>2
      <4>. QED  BY <3>1, <3>4, <4>3
    <3>. QED  BY <3>2, <3>3, <3>4
  <2>4. w = SearchUp(w, first, last, Up)
    <3>1. \A r \in D \X D : w[r] = SearchUp(w, first, last, Up)[r]
      BY <2>3
    <3>. QED  BY <2>2, <3>1 DEF SearchUp, Ends, w
  <2>. QED  BY <2>4 DEF IsSearchUp
<1>3. ASSUME NEW f, IsSearchUp(f, first, last, Up)
      PROVE  Finds(f, first, last, j)
  <2>. DEFINE G == (first..j) \X (j..last)
              size == [r \in G |-> r[2] - r[1]]
              Good == {r \in G : f[r] = j}
  <2>1. size \in [G -> Nat]
    OBVIOUS
  <2>2. ASSUME NEW lo \in first..j, NEW hi \in j..last
        PROVE  \/ <<lo, hi>> \in Good
               \/ \E q \in G : size[q] < size[<<lo, hi>>] /\ (q \in Good => <<lo, hi>> \in Good)
    <3>. DEFINE mid == (lo + hi + 1) \div 2
    <3>1. f[<<lo, hi>>] =
            IF lo = hi THEN mid ELSE IF mid \in Up THEN f[<<mid, hi>>] ELSE f[<<lo, mid - 1>>]
      <4>1. f = SearchUp(f, first, last, Up)
        BY <1>3 DEF IsSearchUp
      <4>2. lo \in D /\ hi \in D
        OBVIOUS
      <4>. HIDE DEF D
      <4>3. f[<<lo, hi>>] = SearchUp(f, first, last, Up)[<<lo, hi>>]
        BY <4>1
      <4>. QED  BY <1>1, <4>2, <4>3
    <3>2. CASE lo = hi
      <4>1. mid = lo /\ lo = j
        BY <3>2
      <4>. QED  BY <3>1, <3>2, <4>1
    <3>3. CASE lo < hi
      <4>1. mid \in (lo+1)..hi
        BY <3>3, MidBetween
      <4>. HIDE DEF mid
      <4>2. mid \in Up <=> mid <= j
        BY <4>1
      <4>3. CASE mid <= j
        <5>1. f[<<lo, hi>>] = f[<<mid, hi>>]
          BY <3>1, <3>3, <4>2, <4>3
        <5>2. <<mid, hi>> \in G /\ size[<<mid, hi>>] < size[<<lo, hi>>]
          BY <4>1, <4>3
        <5>. QED  BY <5>1, <5>2
      <4>4. CASE j < mid
        <5>1. f[<<lo, hi>>] = f[<<lo, mid - 1>>]
          BY <3>1, <3>3, <4>1, <4>2, <4>4
        <5>2. <<lo, mid - 1>> \in G /\ size[<<lo, mid - 1>>] < size[<<lo, hi>>]
          BY <4>1, <4>4
        <5>. QED  BY <5>1, <5>2
      <4>5. mid <= j \/ j < mid
        BY <4>1
      <4>. QED  BY <4>3, <4>4, <4>5, Zenon
    <3>4. lo = hi \/ lo < hi
      OBVIOUS
    <3>. QED  BY <3>2, <3>3, <3>4, Zenon
  <2>3. \A r \in G : \/ r \in Good
                     \/ \E q \in G : size[q] < size[r] /\ (q \in Good => r \in Good)
    <3>. HIDE DEF size, Good
    <3>. QED  BY <2>2
  <2>. HIDE DEF G, size, Good
  <2>4. \A r \in G : r \in Good
    BY <2>1, <2>3, Descent
  <2>. QED  BY <2>4 DEF G, Good, Finds
<1>. QED  BY <1>2, <1>3

-----------------------------------------------------------------------------
(* The index.                                                              *)

LEMMA BSizes == B \in Nat \ {0} /\ S \in Nat \ {0}
BY SizeAssumption

-----------------------------------------------------------------------------
(* Blocks.                                                                 *)

\* Powers, from the equation they are defined by.
LEMMA Pow2Is ==
  /\ Pow2 \in [Nat -> Nat] /\ Pow2[0] = 1
  /\ \A n \in Nat : Pow2[n + 1] = 2 * Pow2[n]
<1>. DEFINE g == [x \in Nat \X Nat |-> 2 * x[2]]
            Equation(f) == f = [n \in Nat |-> IF n = 0 THEN 1 ELSE 2 * f[n - 1]]
<1>1. PICK f \in [Nat -> Nat] : f[0] = 1 /\ \A n \in Nat : f[n + 1] = g[<<n, f[n]>>]
  <2>. DEFINE one == 1
  <2>1. g \in [Nat \X Nat -> Nat] /\ one \in Nat
    OBVIOUS
  <2>. HIDE DEF g, one
  <2>2. \E f : IsRecursion(f, Nat, one, g)
    BY <2>1, Recursion
  <2>. QED  BY <2>2 DEF one, IsRecursion
<1>2. \A n \in Nat : f[n + 1] = 2 * f[n]
  BY <1>1
<1>3. \A n \in Nat : f[n] = IF n = 0 THEN 1 ELSE 2 * f[n - 1]
  <2>. SUFFICES ASSUME NEW n \in Nat, n # 0 PROVE f[n] = 2 * f[n - 1]
    BY <1>1
  <2>1. n - 1 \in Nat /\ (n - 1) + 1 = n
    OBVIOUS
  <2>. QED  BY <1>2, <2>1
<1>4. Equation(f)
  BY <1>1, <1>3
<1>. HIDE DEF Equation
<1>5. Pow2 = CHOOSE h : Equation(h)
  BY DEF Pow2, Equation
<1>6. Equation(Pow2)
  BY <1>4, <1>5
<1>7. ASSUME NEW n \in Nat PROVE Pow2[n + 1] = 2 * Pow2[n] /\ Pow2[0] = 1
  <2>1. n + 1 \in Nat /\ n + 1 # 0 /\ (n + 1) - 1 = n
    OBVIOUS
  <2>. QED  BY <1>6, <2>1 DEF Equation
<1>. DEFINE T == {n \in Nat : Pow2[n] \in Nat}
<1>8. 0 \in T /\ \A n \in Nat : n \in T => n + 1 \in T
  BY <1>7
<1>9. \A n \in Nat : Pow2[n] \in Nat
  <2>. HIDE DEF T
  <2>1. \A n \in Nat : n \in T
    BY <1>8, Induct
  <2>. QED  BY <2>1 DEF T
<1>10. Pow2 \in [Nat -> Nat]
  BY <1>6, <1>9 DEF Equation
<1>. QED  BY <1>7, <1>10

LEMMA Pow2Above == \A n \in Nat : n < Pow2[n]
<1>. DEFINE T == {n \in Nat : n < Pow2[n]}
<1>1. 0 \in T
  BY Pow2Is
<1>2. ASSUME NEW n \in Nat, n \in T PROVE n + 1 \in T
  BY <1>2, Pow2Is
<1>. HIDE DEF T
<1>3. \A n \in Nat : n \in T
  BY <1>1, <1>2, Induct
<1>. QED  BY <1>3 DEF T

LEMMA CeilDivType ==
  ASSUME NEW x \in Nat, NEW y \in Nat \ {0}
  PROVE  CeilDiv(x, y) \in Nat
BY DEF CeilDiv

\* Number p of n is in one of the blocks of d that hold n.
LEMMA BlockOf ==
  ASSUME NEW p \in Nat, NEW n \in Nat, p < n, NEW d \in Nat \ {0}
  PROVE  p \div d + 1 \in 1..CeilDiv(n, d)
<1>. DEFINE k == p \div d
            b == p % d
            x == n + d - 1
            c == x \div d
            s == x % d
<1>1. x \in Nat /\ p < x - d + 1
  OBVIOUS
<1>2. k \in Nat /\ b \in 0..(d-1) /\ p = k * d + b
  BY <1>1, Quotient
<1>3. c \in Nat /\ s \in 0..(d-1) /\ x = c * d + s
  BY <1>1, Quotient
<1>. HIDE DEF k, b, x, c, s
<1>4. p < c * d
  BY <1>1, <1>2, <1>3
<1>5. k < c
  BY <1>1, <1>3, <1>4, QuotientBelow DEF k
<1>6. CeilDiv(n, d) = c
  BY DEF CeilDiv, c, x
<1>7. k + 1 \in 1..c
  BY <1>2, <1>3, <1>5
<1>. QED  BY <1>6, <1>7 DEF k

\* The blocks that hold the first p + 1 end with the block of p.
LEMMA LastBlockOf ==
  ASSUME NEW p \in Nat, NEW d \in Nat \ {0}
  PROVE  CeilDiv(p + 1, d) = p \div d + 1
<1>. DEFINE k == p \div d
            b == p % d
<1>1. k \in Nat /\ b \in 0..(d-1) /\ p = k * d + b
  BY Quotient
<1>. HIDE DEF k, b
<1>2. (k + 1) * d + b = (p + 1) + d - 1
  <2>1. (k + 1) * d = k * d + d
    BY <1>1
  <2>. QED  BY <1>1, <2>1
<1>3. (p + 1) + d - 1 \in Nat /\ k + 1 \in Nat
  BY <1>1
<1>4. ((p + 1) + d - 1) \div d = k + 1
  BY <1>1, <1>2, <1>3, QuotientIs
<1>. QED  BY <1>4 DEF CeilDiv, k

\* The word and the place in it that position p is in.
LEMMA Places ==
  ASSUME NEW p \in Nat, NEW n \in Nat, p < n
  PROVE  /\ p \div B + 1 \in 1..CeilDiv(n, B)
         /\ p % B \in 0..(B-1)
         /\ (p \div B) * B + (p % B) = p
BY BSizes, BlockOf, Quotient

LEMMA PositionOf ==
  ASSUME NEW k \in Nat, NEW b \in 0..(B-1)
  PROVE  (k * B + b) \div B = k /\ (k * B + b) % B = b
<1>. DEFINE x == k * B + b
<1>1. B \in Nat \ {0} /\ x \in Nat /\ x = k * B + b
  BY BSizes
<1>. HIDE DEF x
<1>2. x \div B = k /\ x % B = b
  BY <1>1, QuotientIs
<1>. QED  BY <1>2 DEF x

-----------------------------------------------------------------------------
(* Words.                                                                  *)

\* get reads the bits the words were made of.
LEMMA GetReadsBits ==
  ASSUME NEW s \in Seq({0, 1}), NEW p \in 0..(Len(s)-1)
  PROVE  Get(BuildIndex(s), p) = s[p + 1]
<1>. DEFINE word == p \div B + 1
            place == p % B
<1>1. /\ word \in 1..CeilDiv(Len(s), B) /\ place \in 0..(B-1)
      /\ (word - 1) * B + place = p
  <2>1. p \in Nat /\ Len(s) \in Nat /\ p < Len(s) /\ B \in Nat \ {0}
    BY BSizes
  <2>2. p \div B \in Int
    BY <2>1, Quotient
  <2>3. word - 1 = p \div B
    BY <2>2
  <2>. QED  BY <2>1, <2>3, Places
<1>2. BuildIndex(s).words = WordsOf(s)
  BY DEF BuildIndex
<1>3. Get(BuildIndex(s), p) = WordsOf(s)[word][place]
  BY <1>2 DEF Get
<1>. HIDE DEF word, place
<1>4. WordsOf(s)[word][place] = s[p + 1]
  BY <1>1 DEF WordsOf, WordOf, Padded
<1>. QED  BY <1>3, <1>4

LEMMA IndexConsistent ==
  ASSUME NEW s \in Seq({0, 1})
  PROVE  Consistent(BuildIndex(s)) /\ BuildIndex(s).len = Len(s)
<1>. DEFINE n == CeilDiv(Len(s), B)
            m == CeilDiv(n, S)
            words == WordsOf(s)
            ones(k) == OnesBetween(words, k, CeilDiv(k, S) * S)
            upTo(k) == OnesBetween(words, 1, k * S)
<1>1. n \in Nat /\ m \in Nat
  <2>1. Len(s) \in Nat /\ B \in Nat \ {0} /\ S \in Nat \ {0}
    BY BSizes
  <2>2. n \in Nat
    BY <2>1, CeilDivType
  <2>. QED  BY <2>1, <2>2, CeilDivType
<1>2. Len(words) = n
  BY <1>1 DEF WordsOf
<1>3. /\ BuildIndex(s).blocks = [k \in 1..n |-> ones(k)]
      /\ BuildIndex(s).sblocks = [k \in 1..m |-> upTo(k)]
      /\ BuildIndex(s).len = Len(s)
  BY <1>2 DEF BuildIndex
<1>. HIDE DEF n, m, ones, upTo
<1>4. Len([k \in 1..n |-> ones(k)]) = n /\ Len([k \in 1..m |-> upTo(k)]) = m
  BY <1>1
<1>. QED  BY <1>3, <1>4 DEF Consistent, n, m

\* The bits of word k that are 1, and the bits of the array.
LEMMA BitsOfWords ==
  ASSUME NEW s \in Seq({0, 1}), NEW k \in 1..CeilDiv(Len(s), B), NEW b \in 0..(B-1)
  PROVE  /\ WordsOf(s)[k][b] \in {0, 1}
         /\ WordsOf(s)[k][b] = 1 <=> (k - 1) * B + b \in Marked(s)
<1>. DEFINE i == (k - 1) * B + b
<1>1. i \in Nat
  <2>1. k - 1 \in Nat /\ B \in Nat /\ b \in Nat
    BY CeilDivType, BSizes
  <2>2. (k - 1) * B \in Nat
    BY <2>1
  <2>. QED  BY <2>1, <2>2
<1>2. WordsOf(s)[k][b] = Padded(s, i)
  BY DEF WordsOf, WordOf
<1>. HIDE DEF i
<1>3. i < Len(s) => s[i + 1] \in {0, 1}
  BY <1>1
<1>4. Padded(s, i) \in {0, 1} /\ (Padded(s, i) = 1 <=> i \in Marked(s))
  BY <1>1, <1>3 DEF Padded, Marked
<1>. QED  BY <1>2, <1>4 DEF i

\* The ones of some words are the bits from where the first begins to where the
\* last ends.
LEMMA OnesBetweenCounts ==
  ASSUME NEW s \in Seq({0, 1}), NEW first \in Nat \ {0}, NEW last \in Nat
  PROVE  OnesBetween(WordsOf(s), first, last) = Count(Marked(s), (first - 1) * B, last * B)
<1>. DEFINE lo == (first - 1) * B
            hi == last * B
            T == Marked(s) \cap (lo..(hi-1))
            U == {place \in (first..last) \X (0..(B-1)) :
                    place[1] \in DOMAIN WordsOf(s) /\ WordsOf(s)[place[1]][place[2]] = 1}
            f == [i \in T |-> <<i \div B + 1, i % B>>]
<1>1. /\ B \in Nat \ {0} /\ lo \in Nat /\ hi \in Nat /\ first - 1 \in Int
      /\ CeilDiv(Len(s), B) \in Nat /\ Len(s) \in Nat
  BY BSizes, CeilDivType
<1>2. DOMAIN WordsOf(s) = 1..CeilDiv(Len(s), B)
  BY DEF WordsOf
<1>3. IsFiniteSet(T)
  <2>1. lo \in Int /\ hi \in Int
    BY <1>1
  <2>. HIDE DEF lo, hi
  <2>. QED  BY <2>1, CountFinite, Zenon
<1>. HIDE DEF lo, hi
<1>4. ASSUME NEW i \in T PROVE f[i] \in U
  <2>1. i \in Nat /\ i < Len(s) /\ lo <= i /\ i < hi /\ i \in Marked(s)
    BY <1>1 DEF Marked
  <2>. DEFINE k == i \div B
              b == i % B
  <2>2. /\ k + 1 \in 1..CeilDiv(Len(s), B) /\ b \in 0..(B-1)
        /\ k \in Nat /\ k * B + b = i
    BY <1>1, <2>1, Places, Quotient
  <2>3. k < last
    BY <1>1, <2>1, QuotientBelow DEF hi
  <2>4. first - 1 <= k
    BY <1>1, <2>1, QuotientFrom DEF lo
  <2>5. f[i] = <<k + 1, b>>
    OBVIOUS
  <2>. HIDE DEF k, b, f
  <2>6. ((k + 1) - 1) * B + b = i
    BY <2>2
  <2>7. WordsOf(s)[k + 1][b] = 1
    BY <2>1, <2>2, <2>6, BitsOfWords
  <2>8. k + 1 \in first..last
    BY <2>2, <2>3, <2>4
  <2>. QED  BY <1>2, <2>2, <2>5, <2>7, <2>8
<1>5. \A x, y \in T : f[x] = f[y] => x = y
  <2>. SUFFICES ASSUME NEW x \in T, NEW y \in T, f[x] = f[y] PROVE x = y
    OBVIOUS
  <2>1. x \in Nat /\ y \in Nat
    BY DEF Marked
  <2>2. x \div B + 1 = y \div B + 1 /\ x % B = y % B
    OBVIOUS
  <2>3. x \div B \in Nat /\ y \div B \in Nat
    BY <1>1, <2>1, Quotient
  <2>5. x \div B = y \div B
    BY <2>2, <2>3
  <2>4. x = (x \div B) * B + (x % B) /\ y = (y \div B) * B + (y % B)
    BY <1>1, <2>1, Quotient
  <2>. QED  BY <2>2, <2>4, <2>5
<1>6. ASSUME NEW u \in U PROVE \E x \in T : f[x] = u
  <2>. DEFINE k == u[1]
              b == u[2]
              i == (k - 1) * B + b
  <2>1. /\ u = <<k, b>> /\ k \in first..last /\ b \in 0..(B-1)
        /\ k \in 1..CeilDiv(Len(s), B) /\ WordsOf(s)[k][b] = 1
    BY <1>2
  <2>. HIDE DEF k, b
  <2>2. i \in Marked(s)
    BY <2>1, BitsOfWords
  <2>3. i \in Nat /\ k - 1 \in Nat
    BY <2>1, <2>2 DEF Marked
  <2>4. i \div B = k - 1 /\ i % B = b
    <3>. DEFINE q == k - 1
    <3>1. i = q * B + b /\ q \in Nat /\ i \in Nat
      BY <2>3
    <3>. HIDE DEF i, q
    <3>2. i \div B = q /\ i % B = b
      BY <2>1, <3>1, PositionOf
    <3>. QED  BY <3>2 DEF q
  <2>5. lo <= (k - 1) * B /\ k * B <= hi
    <3>1. /\ first - 1 \in Int /\ k - 1 \in Int /\ k \in Int /\ last \in Int
          /\ first - 1 <= k - 1 /\ k <= last /\ B \in Nat
      BY <1>1, <2>1, <2>3
    <3>2. (first - 1) * B <= (k - 1) * B
      BY <3>1, MulMonotonic
    <3>3. k * B <= last * B
      BY <3>1, MulMonotonic
    <3>. QED  BY <3>2, <3>3 DEF lo, hi
  <2>6. i <= k * B - 1
    <3>1. (k - 1) * B = k * B - B
      BY <1>1, <2>1
    <3>2. k * B \in Nat
      BY <1>1, <2>1
    <3>. QED  BY <1>1, <2>1, <3>1, <3>2
  <2>7. (k - 1) * B \in Nat /\ k * B \in Nat
    BY <1>1, <2>1
  <2>10. i >= (k - 1) * B
    BY <2>1, <2>7
  <2>. HIDE DEF i
  <2>8. i \in T
    BY SMTT(30), <1>1, <2>2, <2>3, <2>5, <2>6, <2>7, <2>10
  <2>. HIDE DEF T
  <2>9. f[i] = <<(k - 1) + 1, b>> /\ (k - 1) + 1 = k
    BY <2>1, <2>3, <2>4, <2>8
  <2>. QED  BY <2>1, <2>8, <2>9
<1>7. OnesBetween(WordsOf(s), first, last) = Cardinality(U)
  BY DEF OnesBetween
<1>8. f \in [T -> U]
  BY <1>4
<1>. HIDE DEF T, U, f
<1>9. Cardinality(U) = Cardinality(T)
  BY <1>3, <1>5, <1>6, <1>8, SameNumber
<1>. QED  BY <1>7, <1>9 DEF T, Count, lo, hi

\* The ones at the beginning of a word, and the bits of the array.
LEMMA CountInWord ==
  ASSUME NEW s \in Seq({0, 1}), NEW k \in 1..CeilDiv(Len(s), B), NEW n \in 1..B
  PROVE  CountIn(WordsOf(s)[k], 1, n) = Count(Marked(s), (k - 1) * B, (k - 1) * B + n)
<1>. DEFINE d == (k - 1) * B
            T == {x \in Int : x + d \in Marked(s)}
<1>1. B \in Nat \ {0} /\ k \in Int /\ d \in Int /\ n \in Nat
  <2>1. B \in Nat \ {0} /\ CeilDiv(Len(s), B) \in Nat
    BY BSizes, CeilDivType
  <2>2. k \in Int /\ n \in Nat
    BY <2>1
  <2>3. d \in Int
    BY <2>1, <2>2
  <2>. QED  BY <2>1, <2>2, <2>3
<1>2. \A b \in 0..(n-1) : WordsOf(s)[k][b] = 1 <=> b \in T
  <2>. SUFFICES ASSUME NEW b \in 0..(n-1) PROVE WordsOf(s)[k][b] = 1 <=> b \in T
    OBVIOUS
  <2>1. b \in 0..(B-1) /\ b \in Int
    BY <1>1
  <2>2. WordsOf(s)[k][b] = 1 <=> d + b \in Marked(s)
    BY <2>1, BitsOfWords
  <2>3. d + b = b + d
    BY <1>1, <2>1
  <2>. QED  BY <2>1, <2>2, <2>3
<1>3. CountIn(WordsOf(s)[k], 1, n) = Count(T, 0, n)
  <2>1. {b \in 0..(n-1) : WordsOf(s)[k][b] = 1} = T \cap (0..(n-1))
    BY <1>2
  <2>. QED  BY <2>1 DEF CountIn, Count
<1>. HIDE DEF d
<1>4. Count(T, 0, n) = Count(Marked(s), d, d + n)
  <2>1. Shifted(T, Marked(s), 0, n, d)
    BY <1>1 DEF Shifted
  <2>. DEFINE e == d + n
  <2>2. /\ 0 \in Int /\ n \in Int /\ d \in Int /\ e \in Int
        /\ d = 0 + d /\ e = n + d
    BY <1>1
  <2>. HIDE DEF T, e
  <2>3. Count(T, 0, n) = Count(Marked(s), d, e)
    BY <2>1, <2>2, CountShift
  <2>. QED  BY <2>3 DEF e
<1>. QED  BY <1>3, <1>4 DEF d

\* The entries of the index are the ones to the end of a superblock, from the
\* beginning of the block and from the beginning of the array.
LEMMA EntriesCount ==
  ASSUME NEW s \in Seq({0, 1})
  PROVE  /\ BuildIndex(s).words = WordsOf(s) /\ Len(WordsOf(s)) = CeilDiv(Len(s), B)
         /\ \A k \in 1..CeilDiv(Len(s), B) :
              BuildIndex(s).blocks[k] = Count(Marked(s), (k - 1) * B, (CeilDiv(k, S) * S) * B)
         /\ \A k \in 1..CeilDiv(CeilDiv(Len(s), B), S) :
              BuildIndex(s).sblocks[k] = Count(Marked(s), 0, (k * S) * B)
<1>. DEFINE n == CeilDiv(Len(s), B)
            m == CeilDiv(n, S)
            words == WordsOf(s)
<1>1. B \in Nat \ {0} /\ S \in Nat \ {0} /\ n \in Nat /\ m \in Nat
  <2>1. B \in Nat \ {0} /\ S \in Nat \ {0} /\ n \in Nat
    BY BSizes, CeilDivType
  <2>. HIDE DEF n
  <2>. QED  BY <2>1, CeilDivType
<1>2. Len(words) = n
  BY <1>1 DEF WordsOf
<1>3. BuildIndex(s).words = words
  BY DEF BuildIndex
<1>4. ASSUME NEW k \in 1..n
      PROVE  BuildIndex(s).blocks[k] = Count(Marked(s), (k - 1) * B, (CeilDiv(k, S) * S) * B)
  <2>1. BuildIndex(s).blocks[k] = OnesBetween(words, k, CeilDiv(k, S) * S)
    BY <1>2 DEF BuildIndex
  <2>2. k \in Nat \ {0}
    BY <1>1
  <2>3. CeilDiv(k, S) \in Nat
    BY <1>1, <2>2, CeilDivType
  <2>4. CeilDiv(k, S) * S \in Nat
    BY <1>1, <2>3
  <2>. QED  BY <2>1, <2>2, <2>4, OnesBetweenCounts
<1>5. ASSUME NEW k \in 1..m
      PROVE  BuildIndex(s).sblocks[k] = Count(Marked(s), 0, (k * S) * B)
  <2>1. BuildIndex(s).sblocks[k] = OnesBetween(words, 1, k * S)
    BY <1>2 DEF BuildIndex
  <2>2. k * S \in Nat
    BY <1>1
  <2>3. OnesBetween(words, 1, k * S) = Count(Marked(s), (1 - 1) * B, (k * S) * B)
    BY <2>2, OnesBetweenCounts
  <2>4. (1 - 1) * B = 0
    BY <1>1
  <2>. QED  BY <2>1, <2>3, <2>4
<1>. QED  BY <1>2, <1>3, <1>4, <1>5

\* rank1 counts the ones of the array up to a position.
LEMMA Rank1Counts ==
  ASSUME NEW s \in Seq({0, 1}), NEW i \in 0..(Len(s)-1)
  PROVE  Rank1(BuildIndex(s), i) = Count(Marked(s), 0, i + 1)
<1>. DEFINE M == Marked(s)
            block == i \div B
            sblock == block \div S
            place == i % B
            n == CeilDiv(Len(s), B)
            from == block * B
            end == ((sblock + 1) * S) * B
<1>1. /\ B \in Nat \ {0} /\ S \in Nat \ {0} /\ i \in Nat /\ Len(s) \in Nat /\ i < Len(s)
  BY BSizes
<1>2. /\ block + 1 \in 1..n /\ place \in 0..(B-1) /\ block \in Nat /\ n \in Nat
      /\ from + place = i
  BY <1>1, Places, Quotient, CeilDivType
<1>3. sblock \in Nat /\ sblock + 1 \in 1..CeilDiv(n, S)
  <2>1. block < n
    BY <1>2
  <2>. HIDE DEF block, n
  <2>. QED  BY <1>1, <1>2, <2>1, BlockOf, Quotient
<1>4. CeilDiv(block + 1, S) = sblock + 1
  <2>. HIDE DEF block
  <2>. QED  BY <1>1, <1>2, LastBlockOf
<1>5. from \in Nat /\ end \in Nat /\ from + B <= end
  <2>1. block + 1 <= (sblock + 1) * S
    <3>1. /\ block % S \in 0..(S-1) /\ block = sblock * S + (block % S)
      BY <1>1, <1>2, Quotient
    <3>2. (sblock + 1) * S = sblock * S + S
      BY <1>1, <1>3
    <3>3. sblock * S \in Nat
      BY <1>1, <1>3
    <3>. QED  BY <1>1, <1>2, <3>1, <3>2, <3>3
  <2>2. (block + 1) * B <= end
    <3>1. block + 1 \in Int /\ (sblock + 1) * S \in Int /\ B \in Nat
      BY <1>1, <1>2, <1>3
    <3>. QED  BY <2>1, <3>1, MulMonotonic
  <2>3. (block + 1) * B = from + B
    BY <1>1, <1>2
  <2>4. from \in Nat /\ (sblock + 1) * S \in Nat
    BY <1>1, <1>2, <1>3
  <2>5. end \in Nat
    BY <1>1, <2>4
  <2>. QED  BY <2>2, <2>3, <2>4, <2>5
<1>6. BuildIndex(s).blocks[block + 1] = Count(M, from, end)
  <2>1. (block + 1) - 1 = block
    BY <1>2
  <2>2. BuildIndex(s).blocks[block + 1]
          = Count(M, ((block + 1) - 1) * B, (CeilDiv(block + 1, S) * S) * B)
    BY <1>2, EntriesCount
  <2>. QED  BY <1>4, <2>1, <2>2
<1>7. BuildIndex(s).sblocks[sblock + 1] = Count(M, 0, end)
  BY <1>3, EntriesCount
<1>8. RankInBlock(BuildIndex(s).words[block + 1], i) = Count(M, from, i + 1)
  <2>1. place + 1 \in 1..B /\ (block + 1) - 1 = block /\ from + (place + 1) = i + 1
    BY <1>1, <1>2, <1>5
  <2>2. CountIn(WordsOf(s)[block + 1], 1, place + 1)
          = Count(M, ((block + 1) - 1) * B, ((block + 1) - 1) * B + (place + 1))
    BY <1>2, <2>1, CountInWord
  <2>3. BuildIndex(s).words = WordsOf(s)
    BY EntriesCount
  <2>. QED  BY <2>1, <2>2, <2>3 DEF RankInBlock
<1>9. Rank1(BuildIndex(s), i) = Count(M, 0, end) - Count(M, from, end) + Count(M, from, i + 1)
  BY <1>6, <1>7, <1>8 DEF Rank1
<1>. HIDE DEF M, block, sblock, place, n, from, end
<1>10. Count(M, 0, end) = Count(M, 0, from) + Count(M, from, end)
  BY <1>1, <1>5, CountSplit
<1>11. Count(M, 0, i + 1) = Count(M, 0, from) + Count(M, from, i + 1)
  <2>1. from <= i + 1 /\ i + 1 \in Int /\ 0 <= from
    BY <1>1, <1>2, <1>5
  <2>. QED  BY <1>5, <2>1, CountSplit
<1>12. /\ Count(M, 0, from) \in Nat /\ Count(M, from, end) \in Nat
  BY <1>5, CountType
<1>13. Count(M, from, i + 1) \in Nat
  BY <1>1, <1>5, CountType
<1>. QED  BY <1>9, <1>10, <1>11, <1>12, <1>13 DEF M

\* The places that hold a bit.
BitsAt(s, bit) == {p \in 0..(Len(s)-1) : s[p + 1] = bit}

LEMMA BitsAtCount ==
  ASSUME NEW s \in Seq({0, 1}), NEW a \in 0..Len(s), NEW b \in a..Len(s)
  PROVE  /\ Count(BitsAt(s, 1), a, b) = Count(Marked(s), a, b)
         /\ Count(BitsAt(s, 0), a, b) = (b - a) - Count(Marked(s), a, b)
<1>1. a \in Int /\ b \in Int /\ a <= b
  OBVIOUS
<1>2. \A p \in a..(b-1) : p \in 0..(Len(s)-1) /\ s[p + 1] \in {0, 1}
  OBVIOUS
<1>3. \A p \in a..(b-1) : p \in BitsAt(s, 1) <=> p \in Marked(s)
  BY <1>2 DEF BitsAt, Marked
<1>4. \A p \in a..(b-1) : p \in BitsAt(s, 0) <=> p \notin Marked(s)
  BY <1>2 DEF BitsAt, Marked
<1>. QED  BY <1>1, <1>3, <1>4, CountSame, CountComplement

\* rank1 and rank0 count the bits up to a position.
LEMMA RankOf ==
  ASSUME NEW s \in Seq({0, 1}), NEW bit \in {0, 1}, NEW i \in 0..(Len(s)-1)
  PROVE  Rank(BuildIndex(s), bit, i) = Count(BitsAt(s, bit), 0, i + 1)
<1>1. 0 \in 0..Len(s) /\ i + 1 \in 0..Len(s) /\ (i + 1) - 0 = 1 + i
  OBVIOUS
<1>2. /\ Count(BitsAt(s, 1), 0, i + 1) = Count(Marked(s), 0, i + 1)
      /\ Count(BitsAt(s, 0), 0, i + 1) = (1 + i) - Count(Marked(s), 0, i + 1)
  BY <1>1, BitsAtCount
<1>3. Rank1(BuildIndex(s), i) = Count(Marked(s), 0, i + 1)
  BY Rank1Counts
<1>4. i \in Int /\ Count(Marked(s), 0, i + 1) \in Int
  <2>1. i + 1 \in Int
    OBVIOUS
  <2>. QED  BY <2>1, CountType
<1>5. CASE bit = 1
  BY <1>2, <1>3, <1>5 DEF Rank
<1>6. CASE bit = 0
  BY <1>2, <1>3, <1>4, <1>6 DEF Rank
<1>. QED  BY <1>5, <1>6

\* rank in a range counts the bits in it.
LEMMA RankInRange ==
  ASSUME NEW s \in Seq({0, 1}), NEW bit \in {0, 1},
         NEW end \in 0..Len(s), NEW start \in 0..end
  PROVE  RankFromRange(BuildIndex(s), bit, start, end) = Count(BitsAt(s, bit), start, end)
<1>. DEFINE T == BitsAt(s, bit)
<1>1. start \in Nat /\ end \in Nat /\ start <= end /\ end <= Len(s) /\ Len(s) \in Nat
  OBVIOUS
<1>2. CASE start = end
  <2>1. Count(T, start, end) = 0
    BY <1>1, <1>2, CountNone
  <2>. QED  BY <1>2, <2>1 DEF RankFromRange
<1>3. CASE start # end
  <2>1. end - 1 \in 0..(Len(s)-1) /\ (end - 1) + 1 = end
    BY <1>1, <1>3
  <2>2. Rank(BuildIndex(s), bit, end - 1) = Count(T, 0, end)
    BY <2>1, RankOf
  <2>3. (IF start = 0 THEN 0 ELSE Rank(BuildIndex(s), bit, start - 1)) = Count(T, 0, start)
    <3>1. CASE start = 0
      <4>1. Count(T, 0, start) = 0
        BY <3>1, CountNone
      <4>. QED  BY <3>1, <4>1
    <3>2. CASE start # 0
      <4>1. start - 1 \in 0..(Len(s)-1) /\ (start - 1) + 1 = start
        BY <1>1, <3>2
      <4>. QED  BY <3>2, <4>1, RankOf
    <3>. QED  BY <3>1, <3>2
  <2>. HIDE DEF T
  <2>4. Count(T, 0, end) = Count(T, 0, start) + Count(T, start, end)
    BY <1>1, CountSplit
  <2>5. Count(T, 0, start) \in Nat /\ Count(T, start, end) \in Nat
    BY <1>1, CountType
  <2>6. Count(T, 0, end) - Count(T, 0, start) = Count(T, start, end)
    BY <2>4, <2>5
  <2>7. RankFromRange(BuildIndex(s), bit, start, end) = Count(T, 0, end) - Count(T, 0, start)
    BY <1>3, <2>2, <2>3 DEF RankFromRange
  <2>. QED  BY <2>6, <2>7 DEF T
<1>. QED  BY <1>2, <1>3

-----------------------------------------------------------------------------
(* Select.                                                                 *)

\* The places that hold a bit, and for zeros the padding behind the last one.
Sought(s, bit) == {p \in Nat : Padded(s, p) = bit}

\* The number a place has among them, counting from a start, and from its block.
NumberFrom(s, bit, start, p) == Count(Sought(s, bit), start, p + 1)
NumberInBlock(s, bit, p) == Count(Sought(s, bit), (p \div B) * B, p + 1)
Home(p) == p \div B

LEMMA SoughtIn ==
  ASSUME NEW s \in Seq({0, 1}), NEW bit \in {0, 1}
  PROVE  /\ \A p \in Nat : Padded(s, p) \in {0, 1}
         /\ \A p \in 0..(Len(s)-1) : p \in Sought(s, bit) <=> s[p + 1] = bit
         /\ \A p \in Nat : p \in Sought(s, 1) <=> p \in Marked(s)
         /\ \A p \in Nat : p \in Sought(s, 0) <=> p \notin Marked(s)
<1>1. ASSUME NEW p \in Nat
      PROVE  /\ Padded(s, p) \in {0, 1}
             /\ p \in Marked(s) <=> Padded(s, p) = 1
  <2>1. p < Len(s) => s[p + 1] \in {0, 1}
    OBVIOUS
  <2>. QED  BY <2>1 DEF Padded, Marked
<1>. QED  BY <1>1 DEF Sought, Padded

\* What the index counts ones by, and zeros, which it takes from what fits.
LEMMA SoughtCount ==
  ASSUME NEW s \in Seq({0, 1}), NEW a \in Nat, NEW b \in Nat, a <= b
  PROVE  /\ Count(Sought(s, 1), a, b) = Count(Marked(s), a, b)
         /\ Count(Sought(s, 0), a, b) = (b - a) - Count(Marked(s), a, b)
<1>1. \A p \in a..(b-1) : p \in Nat
  OBVIOUS
<1>2. /\ \A p \in a..(b-1) : p \in Sought(s, 1) <=> p \in Marked(s)
      /\ \A p \in a..(b-1) : p \in Sought(s, 0) <=> p \notin Marked(s)
  BY <1>1, SoughtIn
<1>. QED  BY <1>2, CountSame, CountComplement

LEMMA IndexLengths ==
  ASSUME NEW s \in Seq({0, 1})
  PROVE  /\ CeilDiv(Len(s), B) \in Nat /\ CeilDiv(CeilDiv(Len(s), B), S) \in Nat
         /\ Len(BuildIndex(s).blocks) = CeilDiv(Len(s), B)
         /\ Len(BuildIndex(s).sblocks) = CeilDiv(CeilDiv(Len(s), B), S)
         /\ BuildIndex(s).len = Len(s)
<1>1. CeilDiv(Len(s), B) \in Nat
  BY BSizes, CeilDivType
<1>2. CeilDiv(CeilDiv(Len(s), B), S) \in Nat
  BY <1>1, BSizes, CeilDivType
<1>. QED  BY <1>1, <1>2, IndexConsistent DEF Consistent

\* The first superblocks hold the bits before the next.
LEMMA SBlockRankCounts ==
  ASSUME NEW s \in Seq({0, 1}), NEW bit \in {0, 1},
         NEW k \in Nat, k < CeilDiv(CeilDiv(Len(s), B), S)
  PROVE  /\ ((k + 1) * S) * B \in Nat
         /\ SBlockRank(BuildIndex(s), bit, k) = Count(Sought(s, bit), 0, ((k + 1) * S) * B)
<1>. DEFINE e == ((k + 1) * S) * B
            c == Count(Marked(s), 0, e)
<1>1. B \in Nat \ {0} /\ S \in Nat \ {0} /\ k + 1 \in 1..CeilDiv(CeilDiv(Len(s), B), S)
  BY BSizes, IndexLengths
<1>2. e \in Nat /\ (1 + k) * S * B = e
  <2>1. (k + 1) * S \in Nat /\ 1 + k = k + 1
    BY <1>1
  <2>. QED  BY <1>1, <2>1
<1>3. BuildIndex(s).sblocks[k + 1] = c
  BY <1>1, EntriesCount
<1>4. Count(Sought(s, 1), 0, e) = c /\ Count(Sought(s, 0), 0, e) = (e - 0) - c
  <2>. HIDE DEF e
  <2>. QED  BY <1>2, SoughtCount
<1>5. c \in Nat
  <2>. HIDE DEF e
  <2>. QED  BY <1>2, CountType
<1>6. CASE bit = 1
  BY <1>2, <1>3, <1>4, <1>6 DEF SBlockRank
<1>7. CASE bit = 0
  <2>1. SBlockRank(BuildIndex(s), 0, k) = e - c
    BY <1>2, <1>3 DEF SBlockRank
  <2>. HIDE DEF e, c
  <2>. QED  BY <1>2, <1>4, <1>5, <1>7, <2>1 DEF e
<1>. QED  BY <1>6, <1>7

\* From a block on to the end of its superblock.
LEMMA BlockRankCounts ==
  ASSUME NEW s \in Seq({0, 1}), NEW bit \in {0, 1},
         NEW k \in Nat, k < CeilDiv(Len(s), B)
  PROVE  /\ k * B \in Nat /\ ((k \div S + 1) * S) * B \in Nat
         /\ (k + 1) * B <= ((k \div S + 1) * S) * B
         /\ BlockRank(BuildIndex(s), bit, k)
              = Count(Sought(s, bit), k * B, ((k \div S + 1) * S) * B)
<1>. DEFINE q == k \div S
            r == k % S
            a == k * B
            e == ((q + 1) * S) * B
            c == Count(Marked(s), a, e)
<1>1. B \in Nat \ {0} /\ S \in Nat \ {0} /\ k + 1 \in 1..CeilDiv(Len(s), B)
  BY BSizes, IndexLengths
<1>2. q \in Nat /\ r \in 0..(S-1) /\ k = q * S + r
  BY <1>1, Quotient
<1>3. (k + 1) - 1 = k /\ CeilDiv(k + 1, S) = q + 1
  <2>1. CeilDiv(k + 1, S) = k \div S + 1
    BY <1>1, LastBlockOf
  <2>. QED  BY <2>1
<1>4. BuildIndex(s).blocks[k + 1] = c
  <2>1. BuildIndex(s).blocks[k + 1]
          = Count(Marked(s), ((k + 1) - 1) * B, (CeilDiv(k + 1, S) * S) * B)
    BY <1>1, EntriesCount
  <2>. QED  BY <1>3, <2>1
<1>. HIDE DEF q, r
<1>5. (q + 1) * S = k + (S - r) /\ (q + 1) * S \in Nat /\ k + 1 <= (q + 1) * S
  <2>1. (q + 1) * S = q * S + S /\ q * S \in Nat
    BY <1>1, <1>2
  <2>. QED  BY <1>1, <1>2, <2>1
<1>6. a \in Nat /\ e \in Nat /\ a <= e /\ e = a + (S - r) * B /\ (S - r) * B \in Nat
  <2>1. S - r \in Nat
    BY <1>1, <1>2
  <2>2. (S - r) * B \in Nat /\ a \in Nat
    BY <1>1, <2>1
  <2>3. (k + (S - r)) * B = k * B + (S - r) * B
    BY <1>1, <2>1
  <2>. QED  BY <1>5, <2>2, <2>3
<1>7. (k + 1) * B <= e
  BY <1>1, <1>5, MulMonotonic
<1>8. Count(Sought(s, 1), a, e) = c /\ Count(Sought(s, 0), a, e) = (e - a) - c
  <2>. HIDE DEF a, e
  <2>. QED  BY <1>6, SoughtCount
<1>9. c \in Nat
  <2>. HIDE DEF a, e
  <2>. QED  BY <1>6, CountType
<1>10. BlockRank(BuildIndex(s), bit, k) = Count(Sought(s, bit), a, e)
  <2>1. CASE bit = 1
    BY <1>4, <1>8, <2>1 DEF BlockRank
  <2>2. CASE bit = 0
    <3>1. BlockRank(BuildIndex(s), 0, k) = (S - r) * B - c
      BY <1>4 DEF BlockRank, r
    <3>. DEFINE y == (S - r) * B
    <3>. HIDE DEF a, e, c, y
    <3>2. y \in Nat /\ e = a + y
      BY <1>6 DEF y
    <3>3. (e - a) - c = y - c
      BY SMTT(30), <1>6, <1>9, <3>2
    <3>. QED  BY <1>8, <2>2, <3>1, <3>3 DEF y
  <2>. QED  BY <2>1, <2>2
<1>. QED  BY <1>6, <1>7, <1>10 DEF q

\* In a word.
LEMMA WordBitIs ==
  ASSUME NEW s \in Seq({0, 1}), NEW bit \in {0, 1},
         NEW k \in Nat, k < CeilDiv(Len(s), B), NEW b \in 0..(B-1)
  PROVE  /\ BuildIndex(s).words[k + 1][b] = bit <=> k * B + b \in Sought(s, bit)
         /\ k * B + b \in Nat
<1>1. B \in Nat \ {0} /\ k + 1 \in 1..CeilDiv(Len(s), B) /\ (k + 1) - 1 = k
  BY BSizes, IndexLengths
<1>2. BuildIndex(s).words = WordsOf(s)
  BY EntriesCount
<1>3. WordsOf(s)[k + 1] = WordOf(s, k + 1)
  BY <1>1 DEF WordsOf
<1>4. WordOf(s, k + 1)[b] = Padded(s, k * B + b)
  BY <1>1 DEF WordOf
<1>5. k * B + b \in Nat
  BY <1>1
<1>. QED  BY <1>2, <1>3, <1>4, <1>5 DEF Sought

LEMMA WordCounts ==
  ASSUME NEW s \in Seq({0, 1}), NEW bit \in {0, 1},
         NEW k \in Nat, k < CeilDiv(Len(s), B), NEW n \in 0..B
  PROVE  CountIn(BuildIndex(s).words[k + 1], bit, n) = Count(Sought(s, bit), k * B, k * B + n)
<1>. DEFINE d == k * B
            T == {x \in Int : x + d \in Sought(s, bit)}
            word == BuildIndex(s).words[k + 1]
<1>1. d \in Nat /\ n \in Nat /\ B \in Nat \ {0}
  BY BSizes
<1>2. \A b \in 0..(n-1) : word[b] = bit <=> b \in T
  <2>. SUFFICES ASSUME NEW b \in 0..(n-1) PROVE word[b] = bit <=> b \in T
    OBVIOUS
  <2>1. b \in 0..(B-1) /\ b \in Int /\ d + b = b + d
    BY <1>1
  <2>2. word[b] = bit <=> d + b \in Sought(s, bit)
    BY <2>1, WordBitIs
  <2>. HIDE DEF word, d
  <2>. QED  BY <2>1, <2>2
<1>3. CountIn(word, bit, n) = Count(T, 0, n)
  <2>1. {b \in 0..(n-1) : word[b] = bit} = T \cap (0..(n-1))
    <3>. HIDE DEF T, word
    <3>. QED  BY <1>2
  <2>. QED  BY <2>1 DEF CountIn, Count
<1>. HIDE DEF d
<1>4. Count(T, 0, n) = Count(Sought(s, bit), d, d + n)
  <2>1. Shifted(T, Sought(s, bit), 0, n, d)
    BY <1>1 DEF Shifted
  <2>. DEFINE e == d + n
  <2>2. /\ 0 \in Int /\ n \in Int /\ d \in Int /\ e \in Int
        /\ d = 0 + d /\ e = n + d
    BY <1>1
  <2>. HIDE DEF T, e
  <2>3. Count(T, 0, n) = Count(Sought(s, bit), d, e)
    BY <2>1, <2>2, CountShift
  <2>. QED  BY <2>3 DEF e
<1>. QED  BY <1>3, <1>4 DEF d, word

-----------------------------------------------------------------------------
\* A place lies in the superblock of its block.
LEMMA SBlockOf ==
  ASSUME NEW p \in Nat
  PROVE  /\ p \div B \in Nat /\ p \div (B * S) \in Nat /\ B * S \in Nat \ {0}
         /\ (p \div B) \div S = p \div (B * S)
         /\ p \div B \in ((p \div (B * S)) * S)..((p \div (B * S)) * S + S - 1)
         /\ (p \div B) * B <= p /\ p < (p \div B + 1) * B
<1>. DEFINE k == p \div B
            b == p % B
            q == p \div (B * S)
            r == k % S
<1>1. B \in Nat \ {0} /\ S \in Nat \ {0}
  BY BSizes
<1>2. k \in Nat /\ b \in 0..(B-1) /\ p = k * B + b
  BY <1>1, Quotient
<1>3. k \div S = q
  BY <1>1, QuotientTwice
<1>4. k \div S \in Nat /\ r \in 0..(S-1) /\ k = (k \div S) * S + r
  <2>. HIDE DEF k
  <2>. QED  BY <1>1, <1>2, Quotient
<1>5. B * S \in Nat \ {0}
  BY <1>1
<1>. HIDE DEF k, b, q, r
<1>6. q \in Nat /\ k = q * S + r
  BY <1>3, <1>4
<1>7. k \in (q * S)..(q * S + S - 1)
  BY <1>1, <1>4, <1>6
<1>8. (k + 1) * B = k * B + B /\ k * B \in Nat
  BY <1>1, <1>2
<1>9. k * B <= p /\ p < (k + 1) * B
  BY <1>1, <1>2, <1>8
<1>. QED  BY <1>2, <1>3, <1>5, <1>6, <1>7, <1>9 DEF k, q

LEMMA CeilDivCovers ==
  ASSUME NEW x \in Nat, NEW d \in Nat \ {0}
  PROVE  x <= CeilDiv(x, d) * d
<1>. DEFINE y == x + d - 1
            c == y \div d
            r == y % d
<1>1. y \in Nat /\ c = CeilDiv(x, d)
  BY DEF CeilDiv
<1>2. c \in Nat /\ r \in 0..(d-1) /\ y = c * d + r
  <2>. HIDE DEF y
  <2>. QED  BY <1>1, Quotient
<1>3. x = y - d + 1
  OBVIOUS
<1>. HIDE DEF y, c, r
<1>4. x <= c * d
  <2>1. c * d \in Nat
    BY <1>2
  <2>. QED  BY <1>2, <1>3, <2>1
<1>. QED  BY <1>1, <1>4

\* The superblock of the end of a range is one of the index, or the one behind.
LEMMA EndSBlock ==
  ASSUME NEW s \in Seq({0, 1}), NEW e \in 0..Len(s)
  PROVE  e \div (B * S) <= CeilDiv(CeilDiv(Len(s), B), S)
<1>. DEFINE n == CeilDiv(Len(s), B)
            m == CeilDiv(n, S)
            d == B * S
<1>1. B \in Nat \ {0} /\ S \in Nat \ {0} /\ n \in Nat /\ m \in Nat /\ d \in Nat \ {0}
  BY BSizes, IndexLengths
<1>2. Len(s) <= n * B /\ n <= m * S
  <2>1. n <= m * S
    <3>. HIDE DEF n
    <3>. QED  BY <1>1, CeilDivCovers DEF m
  <2>. QED  BY <1>1, <2>1, CeilDivCovers
<1>. HIDE DEF n, m
<1>3. n * B <= (m * S) * B
  <2>1. m * S \in Nat
    BY <1>1
  <2>. HIDE DEF d
  <2>. QED  BY <1>1, <1>2, <2>1, MulMonotonic
<1>4. (m * S) * B = m * d
  BY <1>1
<1>. HIDE DEF d
<1>5. (m + 1) * d = m * d + d /\ m * d \in Nat /\ n * B \in Nat
  BY <1>1
<1>6. e < (m + 1) * d
  <2>. DEFINE x == (m + 1) * d
              y == m * d
              z == n * B
  <2>1. e \in Int /\ Len(s) \in Int /\ e <= Len(s) /\ Len(s) <= z /\ z <= y /\ x = y + d
        /\ y \in Nat /\ z \in Nat /\ d \in Nat \ {0}
    BY <1>1, <1>2, <1>3, <1>4, <1>5
  <2>. HIDE DEF x, y, z
  <2>2. e < x
    BY <2>1
  <2>. QED  BY <2>2 DEF x
<1>7. e \div d < m + 1
  BY <1>1, <1>6, QuotientBelow
<1>8. e \div d \in Nat
  <2>1. e \in Nat
    OBVIOUS
  <2>. QED  BY <1>1, <2>1, Quotient
<1>9. e \div d <= m
  BY <1>1, <1>7, <1>8
<1>. QED  BY <1>9 DEF d, m, n

\* What the entries of the superblocks tell of the one with the bit sought, and
\* those of the blocks.
SBlocksTell(ix, bit, rank, zero, last, j) ==
  \A mid \in zero..(last-1) : SBlockRank(ix, bit, mid) < rank <=> mid < j
BlocksTell(ix, bit, subrank, first, last, j) ==
  \A mid \in (first+1)..last : BlockRank(ix, bit, mid) > subrank <=> mid <= j

\* The search for a superblock ends at the first that holds enough.
LEMMA SelectSBlockIs ==
  ASSUME NEW ix, NEW bit, NEW rank, NEW start, NEW end,
         NEW zero \in Int, NEW last \in Int, NEW j \in zero..last, NEW first \in zero..j,
         SBlocksTell(ix, bit, rank, zero, last, j)
  PROVE  zero = 0 /\ first = start \div (B * S)
             /\ last = (IF end = NoEnd THEN Len(ix.sblocks) - 1 ELSE end \div (B * S))
           => SelectSBlock(ix, bit, rank, start, end) = j
<1>. DEFINE Up == {mid \in Int : SBlockRank(ix, bit, mid) < rank}
            Halves(f) ==
              f = [range \in (zero..last) \X (zero..last) |->
                     LET lo  == range[1]
                         hi  == range[2]
                         mid == (lo + hi) \div 2
                     IN  IF lo = hi THEN mid
                         ELSE IF SBlockRank(ix, bit, mid) < rank THEN f[<<mid + 1, hi>>]
                         ELSE f[<<lo, mid>>]]
            search == CHOOSE f : Halves(f)
<1>1. \A f : Halves(f) <=> IsSearchDown(f, zero, last, Up)
  <2>. SUFFICES ASSUME NEW f, NEW range \in (zero..last) \X (zero..last)
                PROVE  (SBlockRank(ix, bit, (range[1] + range[2]) \div 2) < rank)
                         <=> (range[1] + range[2]) \div 2 \in Up
    BY DEF IsSearchDown, SearchDown
  <2>1. (range[1] + range[2]) \div 2 \in Int
    OBVIOUS
  <2>. QED  BY <2>1
<1>. HIDE DEF Halves
<1>2. \A mid \in zero..(last-1) : mid \in Up <=> mid < j
  BY DEF SBlocksTell
<1>. HIDE DEF Up
<1>3. /\ \E f : IsSearchDown(f, zero, last, Up)
      /\ \A f : IsSearchDown(f, zero, last, Up) => Finds(f, zero, last, j)
  BY <1>2, SearchDownEnds
<1>4. Halves(search)
  BY <1>1, <1>3
<1>5. search[<<first, last>>] = j
  <2>1. IsSearchDown(search, zero, last, Up)
    BY <1>1, <1>4
  <2>. HIDE DEF search
  <2>. QED  BY <1>3, <2>1 DEF Finds
<1>6. ASSUME zero = 0, first = start \div (B * S),
             last = (IF end = NoEnd THEN Len(ix.sblocks) - 1 ELSE end \div (B * S))
      PROVE  SelectSBlock(ix, bit, rank, start, end) = search[<<first, last>>]
  BY <1>6 DEF SelectSBlock, Halves
<1>. QED  BY <1>5, <1>6

\* And the search for a block, at the last that begins before the bit.
LEMMA SelectBlockIs ==
  ASSUME NEW ix, NEW bit, NEW sblock, NEW subrank,
         NEW first \in Int, NEW last \in Int, NEW j \in first..last,
         BlocksTell(ix, bit, subrank, first, last, j)
  PROVE  first = sblock * S
             /\ last = (IF first + S - 1 > Len(ix.blocks) - 1 THEN Len(ix.blocks) - 1
                        ELSE first + S - 1)
           => SelectBlock(ix, bit, sblock, subrank) = j
<1>. DEFINE Up == {mid \in Int : BlockRank(ix, bit, mid) > subrank}
            Halves(f) ==
              f = [range \in (first..last) \X (first..last) |->
                     LET lo  == range[1]
                         hi  == range[2]
                         mid == (lo + hi + 1) \div 2
                     IN  IF lo = hi THEN mid
                         ELSE IF StartsBefore(BlockRank(ix, bit, mid), subrank)
                              THEN f[<<mid, hi>>] ELSE f[<<lo, mid - 1>>]]
            search == CHOOSE f : Halves(f)
<1>1. \A f : Halves(f) <=> IsSearchUp(f, first, last, Up)
  <2>. SUFFICES ASSUME NEW f, NEW range \in (first..last) \X (first..last)
                PROVE  StartsBefore(BlockRank(ix, bit, (range[1] + range[2] + 1) \div 2), subrank)
                         <=> (range[1] + range[2] + 1) \div 2 \in Up
    BY DEF IsSearchUp, SearchUp
  <2>1. (range[1] + range[2] + 1) \div 2 \in Int
    OBVIOUS
  <2>. QED  BY <2>1 DEF StartsBefore
<1>. HIDE DEF Halves
<1>2. \A mid \in (first+1)..last : mid \in Up <=> mid <= j
  BY DEF BlocksTell
<1>. HIDE DEF Up
<1>3. /\ \E f : IsSearchUp(f, first, last, Up)
      /\ \A f : IsSearchUp(f, first, last, Up) => Finds(f, first, last, j)
  BY <1>2, SearchUpEnds
<1>4. Halves(search)
  BY <1>1, <1>3
<1>5. search[<<first, last>>] = j
  <2>1. IsSearchUp(search, first, last, Up)
    BY <1>1, <1>4
  <2>. HIDE DEF search
  <2>. QED  BY <1>3, <2>1 DEF Finds
<1>6. ASSUME first = sblock * S,
             last = (IF first + S - 1 > Len(ix.blocks) - 1 THEN Len(ix.blocks) - 1
                     ELSE first + S - 1)
      PROVE  SelectBlock(ix, bit, sblock, subrank) = search[<<first, last>>]
  BY <1>6 DEF SelectBlock, Halves
<1>. QED  BY <1>5, <1>6

\* The scan of a block ends at the bit sought.
LEMMA SelectInBlockIs ==
  ASSUME NEW s \in Seq({0, 1}), NEW bit \in {0, 1}, NEW p \in 0..(Len(s)-1), p \in Sought(s, bit),
         NEW start \in 0..p, NEW end, NEW subrank, subrank # 0,
         end = NoEnd \/ (end \in Nat /\ p < end)
  PROVE  SelectInBlock(BuildIndex(s), bit, subrank, start, end, Home(p),
                       NumberInBlock(s, bit, p)) = p
<1>. DEFINE k == p \div B
            r == NumberInBlock(s, bit, p)
            T == Sought(s, bit)
            word == BuildIndex(s).words[k + 1]
            place == p % B
            from == k * B
            hits == {b \in 0..(B-1) : word[b] = bit /\ CountIn(word, bit, b + 1) = r}
<1>0. k \in Nat /\ k = p \div B /\ r = Count(Sought(s, bit), k * B, p + 1)
  <2>1. p \in Nat /\ B \in Nat \ {0}
    BY BSizes
  <2>2. k \in Nat
    BY <2>1, Quotient
  <2>. QED  BY <2>2 DEF NumberInBlock
<1>. HIDE DEF k, r
<1>. USE <1>0
<1>1. /\ B \in Nat \ {0} /\ p \in Nat /\ Len(s) \in Nat /\ p < Len(s)
      /\ from \in Nat
  BY BSizes
<1>2. /\ k < CeilDiv(Len(s), B) /\ place \in 0..(B-1) /\ from + place = p
  <2>1. k + 1 \in 1..CeilDiv(Len(s), B) /\ place \in 0..(B-1) /\ from + place = p
    BY <1>1, Places
  <2>2. CeilDiv(Len(s), B) \in Nat
    BY IndexLengths
  <2>. HIDE DEF place, from
  <2>. QED  BY <2>1, <2>2
<1>3. p \in T
  BY <1>1, SoughtIn
<1>4. ASSUME NEW b \in 0..(B-1)
      PROVE  /\ word[b] = bit <=> from + b \in T
             /\ CountIn(word, bit, b + 1) = Count(T, from, from + b + 1)
  <2>1. b + 1 \in 0..B /\ from + (b + 1) = from + b + 1
    BY <1>1
  <2>. HIDE DEF from
  <2>2. CountIn(word, bit, b + 1) = Count(T, k * B, k * B + (b + 1))
    BY <1>2, <2>1, WordCounts
  <2>. QED  BY <1>2, <2>1, <2>2, WordBitIs DEF from
<1>. HIDE DEF T, word, place, from
<1>5. place \in hits
  BY <1>2, <1>3, <1>4 DEF T, from
<1>6. \A b \in hits : b = place
  <2>. SUFFICES ASSUME NEW b \in 0..(B-1), word[b] = bit, CountIn(word, bit, b + 1) = r
                PROVE  b = place
    OBVIOUS
  <2>1. /\ from + b \in Int /\ p \in Int /\ from \in Int
        /\ from <= from + b /\ from <= p
    BY <1>1, <1>2
  <2>2. from + b \in T
    BY <1>4
  <2>3. Count(T, from, from + b + 1) = Count(T, from, p + 1)
    BY <1>4 DEF T, from
  <2>4. from + b = p
    <3>. DEFINE q == from + b
    <3>. HIDE DEF q
    <3>1. q \in Int /\ from <= q /\ q \in T /\ Count(T, from, q + 1) = Count(T, from, p + 1)
      BY <2>1, <2>2, <2>3 DEF q
    <3>2. q = p
      BY <1>3, <2>1, <3>1, CountTells
    <3>. QED  BY <3>2 DEF q
  <2>. QED  BY <1>1, <1>2, <2>4
<1>7. (CHOOSE b \in hits : TRUE) = place /\ hits # {}
  <2>. HIDE DEF hits
  <2>. QED  BY <1>5, <1>6
<1>8. r \in Nat /\ r <= B /\ r # 0
  <2>1. /\ from \in Int /\ p + 1 \in Int /\ from <= p /\ p \in Int
    BY <1>1, <1>2
  <2>2. Count(T, from, p + 1) = Count(T, from, p) + 1
    BY <1>3, <2>1, CountStep
  <2>3. Count(T, from, p) \in 0..(p - from)
    BY <2>1, CountBounded
  <2>4. r = Count(T, from, p) + 1
    BY <2>2 DEF T, from
  <2>. QED  BY <1>1, <1>2, <2>3, <2>4
<1>. DEFINE result == k * B + (CHOOSE b \in hits : TRUE)
<1>9. result = p
  BY <1>2, <1>7 DEF from
<1>10. SelectInBlock(BuildIndex(s), bit, subrank, start, end, k, r)
         = IF result < start \/ (end # NoEnd /\ result >= end) THEN NoIndex ELSE result
  <2>1. r \in Nat /\ r <= B /\ r # 0 /\ B \in Nat
    BY <1>1, <1>8
  <2>2. ~(r > B) /\ ~(r = 0 /\ CountIn(word, bit, B) > 0)
    BY <2>1
  <2>. QED  BY <1>7, <2>2 DEF SelectInBlock, word
<1>11. ~(p < start) /\ ~(end # NoEnd /\ p >= end)
  BY <1>1
<1>. HIDE DEF result, hits
<1>12. SelectInBlock(BuildIndex(s), bit, subrank, start, end, k, r) = p
  BY <1>9, <1>10, <1>11
<1>. QED  BY <1>12 DEF Home, k, r

\* The linear scan counts from the start of its range.
LEMMA ScanCount ==
  ASSUME NEW s \in Seq({0, 1}), NEW bit \in {0, 1}, NEW start \in Nat,
         NEW i \in start..(Len(s)-1)
  PROVE  /\ Get(BuildIndex(s), i) = bit <=> i \in Sought(s, bit)
         /\ Cardinality({j \in start..i : Get(BuildIndex(s), j) = bit})
              = Count(Sought(s, bit), start, i + 1)
<1>1. \A j \in start..i : Get(BuildIndex(s), j) = bit <=> j \in Sought(s, bit)
  <2>. SUFFICES ASSUME NEW j \in start..i
                PROVE  Get(BuildIndex(s), j) = bit <=> j \in Sought(s, bit)
    OBVIOUS
  <2>1. j \in 0..(Len(s)-1)
    OBVIOUS
  <2>. QED  BY <2>1, GetReadsBits, SoughtIn
<1>2. i \in start..i /\ (i + 1) - 1 = i
  OBVIOUS
<1>3. {j \in start..i : Get(BuildIndex(s), j) = bit} = Sought(s, bit) \cap (start..((i + 1) - 1))
  BY <1>1, <1>2
<1>. QED  BY <1>1, <1>2, <1>3 DEF Count

LEMMA SelectLinearIs ==
  ASSUME NEW s \in Seq({0, 1}), NEW bit \in {0, 1}, NEW p \in 0..(Len(s)-1), p \in Sought(s, bit),
         NEW start \in 0..p, NEW end,
         end = NoEnd \/ (end \in 0..Len(s) /\ p < end)
  PROVE  SelectLinear(BuildIndex(s), bit, NumberFrom(s, bit, start, p), start, end) = p
<1>. DEFINE subrank == NumberFrom(s, bit, start, p)
<1>0. subrank = Count(Sought(s, bit), start, p + 1)
  BY DEF NumberFrom
<1>. HIDE DEF subrank
<1>. USE <1>0
<1>. DEFINE T == Sought(s, bit)
            stop == IF end = NoEnd THEN BuildIndex(s).len ELSE end
            hits == {i \in start..(stop-1) :
                       /\ Get(BuildIndex(s), i) = bit
                       /\ Cardinality({j \in start..i : Get(BuildIndex(s), j) = bit}) = subrank}
<1>1. /\ p \in Nat /\ start \in Nat /\ start <= p /\ Len(s) \in Nat
      /\ stop \in 0..Len(s) /\ p < stop /\ ~(end # NoEnd /\ start >= end)
  BY IndexLengths DEF NoEnd
<1>2. p \in T
  BY <1>1, SoughtIn
<1>. HIDE DEF T, stop
<1>3. \A i \in start..(stop-1) :
        /\ Get(BuildIndex(s), i) = bit <=> i \in T
        /\ Cardinality({j \in start..i : Get(BuildIndex(s), j) = bit}) = Count(T, start, i + 1)
  <2>. SUFFICES ASSUME NEW i \in start..(stop-1)
                PROVE  /\ Get(BuildIndex(s), i) = bit <=> i \in T
                       /\ Cardinality({j \in start..i : Get(BuildIndex(s), j) = bit})
                            = Count(T, start, i + 1)
    OBVIOUS
  <2>1. i \in start..(Len(s)-1)
    BY <1>1
  <2>. QED  BY <1>1, <2>1, ScanCount DEF T
<1>4. p \in hits
  <2>1. p \in start..(stop-1)
    BY <1>1
  <2>. QED  BY <1>2, <1>3, <2>1 DEF T
<1>5. \A i \in hits : i = p
  <2>. SUFFICES ASSUME NEW i \in start..(stop-1), i \in T, Count(T, start, i + 1) = subrank
                PROVE  i = p
    BY <1>3
  <2>. QED  BY <1>1, <1>2, CountTells DEF T
<1>6. (CHOOSE i \in hits : TRUE) = p /\ hits # {}
  <2>. HIDE DEF hits
  <2>. QED  BY <1>4, <1>5
<1>7. subrank # 0
  <2>1. Count(T, start, p + 1) = Count(T, start, p) + 1
    BY <1>1, <1>2, CountStep
  <2>2. Count(T, start, p) \in Nat
    BY <1>1, CountType
  <2>. QED  BY <2>1, <2>2 DEF T
<1>8. SelectLinear(BuildIndex(s), bit, subrank, start, end) = CHOOSE i \in hits : TRUE
  BY <1>1, <1>6, <1>7 DEF SelectLinear, stop
<1>9. SelectLinear(BuildIndex(s), bit, subrank, start, end) = p
  BY <1>6, <1>8
<1>. QED  BY <1>9 DEF subrank

\* Where a range ends.
EndOf(s, end) == IF end = NoEnd THEN Len(s) ELSE end

LEMMA RankBeforeCounts ==
  ASSUME NEW s \in Seq({0, 1}), NEW bit \in {0, 1}, NEW start \in 0..(Len(s)-1)
  PROVE  RankBefore(BuildIndex(s), bit, start) = Count(Sought(s, bit), 0, start)
<1>. DEFINE T == Sought(s, bit)
<1>1. CASE start = 0
  <2>1. Count(T, 0, start) = 0
    BY <1>1, CountNone
  <2>. QED  BY <1>1, <2>1 DEF RankBefore
<1>2. CASE start # 0
  <2>1. start - 1 \in 0..(Len(s)-1) /\ (start - 1) + 1 = start
    BY <1>2
  <2>2. Rank(BuildIndex(s), bit, start - 1) = Count(BitsAt(s, bit), 0, start)
    BY <2>1, RankOf
  <2>3. \A q \in 0..(start-1) : q \in BitsAt(s, bit) <=> q \in T
    <3>1. \A q \in 0..(start-1) : q \in 0..(Len(s)-1)
      OBVIOUS
    <3>. HIDE DEF T
    <3>. QED  BY <3>1, SoughtIn DEF BitsAt, T
  <2>4. Count(BitsAt(s, bit), 0, start) = Count(T, 0, start)
    BY <2>3, CountSame
  <2>. QED  BY <1>2, <2>2, <2>4 DEF RankBefore
<1>. QED  BY <1>1, <1>2

\* The members before a place are fewer than those up to a member if the place
\* does not lie behind it.
LEMMA CountAfter ==
  ASSUME NEW T, NEW p \in Nat, p \in T, NEW x \in Nat
  PROVE  Count(T, 0, x) < Count(T, 0, p + 1) <=> x <= p
<1>1. Count(T, 0, p + 1) = Count(T, 0, p) + 1
  BY CountStep
<1>2. Count(T, 0, p) \in Nat /\ Count(T, 0, x) \in Nat /\ Count(T, 0, p + 1) \in Nat
  BY CountType
<1>3. CASE x <= p
  <2>1. Count(T, 0, x) <= Count(T, 0, p)
    BY <1>3, CountGrows
  <2>. QED  BY <1>1, <1>2, <1>3, <2>1
<1>4. CASE p + 1 <= x
  <2>1. Count(T, 0, p + 1) <= Count(T, 0, x)
    BY <1>4, CountGrows
  <2>. QED  BY <1>2, <1>4, <2>1
<1>. QED  BY <1>3, <1>4

\* The entries of the blocks of the superblock of a place tell which lie behind it.
LEMMA BlockRankTells ==
  ASSUME NEW s \in Seq({0, 1}), NEW bit \in {0, 1}, NEW p \in 0..(Len(s)-1), p \in Sought(s, bit),
         NEW upTo, upTo = Count(Sought(s, bit), 0, ((p \div (B * S) + 1) * S) * B),
         NEW q \in Nat, q < CeilDiv(Len(s), B), q \div S = p \div (B * S)
  PROVE  /\ q * B \in Nat /\ upTo \in Nat
         /\ BlockRank(BuildIndex(s), bit, q) = upTo - Count(Sought(s, bit), 0, q * B)
         /\ BlockRank(BuildIndex(s), bit, q) > upTo - Count(Sought(s, bit), 0, p + 1)
              <=> q <= p \div B
<1>. DEFINE T == Sought(s, bit)
            k == p \div B
            a == q * B
            e == ((q \div S + 1) * S) * B
<1>1. /\ p \in Nat /\ p \in T /\ B \in Nat \ {0}
      /\ k \in Nat /\ k * B <= p /\ p < (k + 1) * B
  <2>1. p \in Nat /\ p \in T /\ B \in Nat \ {0}
    BY SoughtIn, BSizes
  <2>. QED  BY <2>1, SBlockOf
<1>2. a \in Nat /\ e \in Nat /\ (q + 1) * B <= e
      /\ BlockRank(BuildIndex(s), bit, q) = Count(T, a, e)
  BY BlockRankCounts
<1>3. upTo = Count(T, 0, e)
  OBVIOUS
<1>4. a <= e
  <2>1. (q + 1) * B = a + B
    BY <1>1
  <2>. HIDE DEF a, e
  <2>. QED  BY <1>1, <1>2, <2>1
<1>5. a <= p <=> q <= k
  <2>1. CASE q <= k
    <3>1. a <= k * B
      BY <1>1, <2>1, MulMonotonic
    <3>2. k * B \in Nat
      BY <1>1
    <3>. HIDE DEF a, k
    <3>. QED  BY <1>1, <1>2, <2>1, <3>1, <3>2
  <2>2. CASE k + 1 <= q
    <3>1. (k + 1) * B <= a
      BY <1>1, <2>2, MulMonotonic
    <3>2. (k + 1) * B \in Nat
      BY <1>1
    <3>. HIDE DEF a, k
    <3>. QED  BY <1>1, <1>2, <2>2, <3>1, <3>2
  <2>3. q <= k \/ k + 1 <= q
    BY <1>1
  <2>. QED  BY <2>1, <2>2, <2>3
<1>. HIDE DEF T, a, e, k
<1>6. Count(T, 0, e) = Count(T, 0, a) + Count(T, a, e)
  BY <1>2, <1>4, CountSplit
<1>7. Count(T, 0, a) \in Nat /\ Count(T, a, e) \in Nat /\ Count(T, 0, p + 1) \in Nat
      /\ Count(T, 0, e) \in Nat
  BY <1>1, <1>2, <1>4, CountType
<1>8. Count(T, 0, a) < Count(T, 0, p + 1) <=> a <= p
  BY <1>1, <1>2, CountAfter
<1>9. BlockRank(BuildIndex(s), bit, q) = upTo - Count(T, 0, a)
  BY <1>2, <1>3, <1>6, <1>7
<1>10. upTo - Count(T, 0, a) > upTo - Count(T, 0, p + 1) <=> q <= k
  BY <1>3, <1>5, <1>7, <1>8
<1>. QED  BY <1>2, <1>3, <1>7, <1>9, <1>10 DEF T, a, k

\* select finds the bit that has the rank sought in the range.
LEMMA SelectAt ==
  ASSUME NEW s \in Seq({0, 1}), NEW bit \in {0, 1}, NEW p \in 0..(Len(s)-1), p \in Sought(s, bit),
         NEW start \in 0..p, NEW end,
         end = NoEnd \/ (end \in 0..Len(s) /\ p < end)
  PROVE  SelectFromRange(BuildIndex(s), bit, NumberFrom(s, bit, start, p), start, end) = p
<1>. DEFINE subrank == NumberFrom(s, bit, start, p)
<1>0. subrank = Count(Sought(s, bit), start, p + 1)
  BY DEF NumberFrom
<1>. HIDE DEF subrank
<1>. USE <1>0
<1>. DEFINE T == Sought(s, bit)
            n == CeilDiv(Len(s), B)
            m == CeilDiv(n, S)
            rank == Count(T, 0, p + 1)
            k == p \div B
            j == p \div (B * S)
            upTo == Count(T, 0, ((j + 1) * S) * B)
            ix == BuildIndex(s)
<1>1. /\ p \in Nat /\ start \in Nat /\ start <= p /\ Len(s) \in Nat /\ p < Len(s)
      /\ B \in Nat \ {0} /\ S \in Nat \ {0}
  BY BSizes
<1>2. p \in T
  BY <1>1, SoughtIn
<1>3. /\ k \in Nat /\ j \in Nat /\ B * S \in Nat \ {0} /\ k \div S = j
      /\ k \in (j * S)..(j * S + S - 1) /\ k * B <= p /\ p < (k + 1) * B
  BY <1>1, SBlockOf
<1>4. /\ n \in Nat /\ m \in Nat /\ Len(ix.blocks) = n /\ Len(ix.sblocks) = m
      /\ ix.len = Len(s)
  BY IndexLengths
<1>5. k < n
  <2>1. k + 1 \in 1..n
    BY <1>1, BlockOf
  <2>. HIDE DEF n, k
  <2>. QED  BY <1>3, <1>4, <2>1
<1>6. j < m
  <2>1. k \div S + 1 \in 1..m
    <3>. HIDE DEF n, k
    <3>. QED  BY <1>1, <1>3, <1>4, <1>5, BlockOf DEF m
  <2>. HIDE DEF k, j, m, n
  <2>. QED  BY <1>3, <1>4, <2>1
<1>7. RankBefore(ix, bit, start) + subrank = rank
  <2>1. RankBefore(ix, bit, start) = Count(T, 0, start)
    BY <1>1, RankBeforeCounts
  <2>2. Count(T, 0, p + 1) = Count(T, 0, start) + Count(T, start, p + 1)
    <3>1. 0 <= start /\ start <= p + 1 /\ p + 1 \in Int /\ start \in Int
      BY <1>1
    <3>. HIDE DEF T
    <3>. QED  BY <3>1, CountSplit
  <2>. QED  BY <2>1, <2>2
<1>. HIDE DEF T, n, m, rank, k, j, upTo, ix
<1>8. /\ rank \in Nat
      /\ rank = Count(T, 0, p) + 1 /\ Count(T, 0, p) \in Nat
  <2>1. Count(T, 0, p + 1) = Count(T, 0, p) + 1
    BY <1>1, <1>2, CountStep
  <2>2. Count(T, 0, p) \in Nat
    BY <1>1, CountType
  <2>. QED  BY <2>1, <2>2 DEF rank
<1>9. ASSUME NEW q \in Nat, q < m
      PROVE  /\ SBlockRank(ix, bit, q) \in Nat
             /\ SBlockRank(ix, bit, q) < rank <=> q < j
  <2>. DEFINE e == ((q + 1) * S) * B
  <2>1. SBlockRank(ix, bit, q) = Count(T, 0, e) /\ e \in Nat
    BY <1>9, SBlockRankCounts DEF m, n, T, ix
  <2>2. (q + 1) * S \in Nat /\ k + 1 \in Int
    BY <1>1, <1>3
  <2>3. Count(T, 0, e) \in Nat
    <3>. HIDE DEF e
    <3>. QED  BY <2>1, CountType
  <2>4. CASE q < j
    <3>1. (q + 1) * S <= j * S
      <4>1. q + 1 <= j /\ q + 1 \in Int /\ j \in Int
        BY <1>3, <2>4
      <4>. QED  BY <1>1, <4>1, MulMonotonic
    <3>2. (q + 1) * S <= k
      BY <1>1, <1>3, <2>2, <3>1
    <3>3. e <= k * B
      BY <1>1, <1>3, <2>2, <3>2, MulMonotonic
    <3>4. e <= p
      BY <1>1, <1>3, <2>1, <3>3
    <3>5. Count(T, 0, e) <= Count(T, 0, p)
      <4>. HIDE DEF e
      <4>. QED  BY <1>1, <2>1, <3>4, CountGrows
    <3>. HIDE DEF e
    <3>. QED  BY <1>8, <2>1, <2>3, <2>4, <3>5
  <2>5. CASE j <= q
    <3>1. j * S + S <= (q + 1) * S
      <4>1. j + 1 <= q + 1 /\ j + 1 \in Int /\ q + 1 \in Int
        BY <1>3, <2>5
      <4>2. (j + 1) * S <= (q + 1) * S
        BY <1>1, <4>1, MulMonotonic
      <4>3. (j + 1) * S = j * S + S
        BY <1>1, <1>3
      <4>. QED  BY <4>2, <4>3
    <3>2. k + 1 <= (q + 1) * S
      <4>1. j * S \in Int
        BY <1>1, <1>3
      <4>. QED  BY <1>1, <1>3, <2>2, <3>1, <4>1
    <3>3. (k + 1) * B <= e
      BY <1>1, <2>2, <3>2, MulMonotonic
    <3>4. p + 1 <= e
      <4>1. (k + 1) * B \in Int
        BY <1>1, <2>2
      <4>. HIDE DEF e
      <4>. QED  BY <1>1, <1>3, <2>1, <3>3, <4>1
    <3>5. Count(T, 0, p + 1) <= Count(T, 0, e)
      <4>. HIDE DEF e
      <4>. QED  BY <1>1, <2>1, <3>4, CountGrows
    <3>. HIDE DEF e
    <3>. QED  BY <1>3, <1>8, <2>1, <2>3, <2>5, <3>5 DEF rank
  <2>. QED  BY <1>3, <2>4, <2>5
<1>10. SelectSBlock(ix, bit, rank, start, end) = j
  <2>. DEFINE first == start \div (B * S)
              last == IF end = NoEnd THEN Len(ix.sblocks) - 1 ELSE end \div (B * S)
  <2>1. first \in Nat /\ first <= j
    BY <1>1, <1>3, QuotientGrows, SBlockOf DEF j
  <2>2. last \in Nat /\ j <= last /\ last <= m
    <3>1. CASE end = NoEnd
      BY <1>3, <1>4, <1>6, <3>1
    <3>2. CASE end # NoEnd
      <4>1. end \in 0..Len(s) /\ end \in Nat /\ p <= end
        BY <1>1, <3>2
      <4>2. end \div (B * S) \in Nat /\ end \div (B * S) <= m
        BY <4>1, SBlockOf, EndSBlock DEF m, n
      <4>3. j <= end \div (B * S)
        BY <1>1, <1>3, <4>1, QuotientGrows DEF j
      <4>. QED  BY <3>2, <4>2, <4>3
    <3>. QED  BY <3>1, <3>2
  <2>. HIDE DEF first, last
  <2>3. SBlocksTell(ix, bit, rank, 0, last, j)
    BY <1>4, <1>9, <2>2 DEF SBlocksTell
  <2>4. 0 \in Int /\ last \in Int /\ j \in 0..last /\ first \in 0..j
    BY <1>3, <2>1, <2>2
  <2>5. 0 = 0 /\ first = start \div (B * S)
          /\ last = (IF end = NoEnd THEN Len(ix.sblocks) - 1 ELSE end \div (B * S))
    BY DEF first, last
  <2>. QED  BY <2>3, <2>4, <2>5, SelectSBlockIs
<1>11. /\ upTo = SBlockRank(ix, bit, j) /\ upTo \in Nat /\ rank <= upTo
  <2>. DEFINE e == ((j + 1) * S) * B
  <2>1. e \in Nat /\ SBlockRank(ix, bit, j) = Count(T, 0, e)
    BY <1>3, <1>6, SBlockRankCounts DEF T, ix, m, n
  <2>2. upTo = Count(T, 0, e)
    BY DEF upTo
  <2>3. Count(T, 0, e) \in Nat
    <3>. HIDE DEF e
    <3>. QED  BY <2>1, CountType
  <2>4. ~(SBlockRank(ix, bit, j) < rank)
    BY <1>3, <1>6, <1>9
  <2>. QED  BY <1>8, <2>1, <2>2, <2>3, <2>4
<1>12. ASSUME NEW q \in Nat, q < n, q \div S = j
       PROVE  /\ BlockRank(ix, bit, q) = upTo - Count(T, 0, q * B)
              /\ BlockRank(ix, bit, q) > upTo - rank <=> q <= k
  <2>1. q < CeilDiv(Len(s), B) /\ q \div S = p \div (B * S)
    BY <1>12 DEF n, j
  <2>2. upTo = Count(Sought(s, bit), 0, ((p \div (B * S) + 1) * S) * B)
    BY DEF upTo, T, j
  <2>. QED  BY <2>1, <2>2, BlockRankTells DEF T, ix, rank, k
<1>13. SelectBlock(ix, bit, j, upTo - rank) = k
  <2>. DEFINE first == j * S
              last == IF first + S - 1 > Len(ix.blocks) - 1 THEN Len(ix.blocks) - 1
                      ELSE first + S - 1
  <2>1. /\ first \in Nat /\ last \in Int /\ k \in first..last
        /\ last <= first + S - 1 /\ last <= n - 1
    <3>1. first \in Nat
      BY <1>1, <1>3
    <3>. HIDE DEF first
    <3>2. k \in first..(first + S - 1)
      BY <1>3 DEF first
    <3>. QED  BY <1>1, <1>3, <1>4, <1>5, <3>1, <3>2
  <2>. HIDE DEF last
  <2>2. BlocksTell(ix, bit, upTo - rank, first, last, k)
    <3>. SUFFICES ASSUME NEW q \in (first + 1)..last
                  PROVE  BlockRank(ix, bit, q) > upTo - rank <=> q <= k
      BY DEF BlocksTell
    <3>. DEFINE r == q - first
    <3>1. q \in Nat /\ r \in 0..(S-1) /\ q = first + r /\ q < n
      <4>. HIDE DEF first
      <4>. QED  BY <1>1, <1>4, <2>1
    <3>. HIDE DEF r
    <3>2. q \div S = j
      BY <1>1, <1>3, <3>1, QuotientIs
    <3>. QED  BY <1>12, <3>1, <3>2
  <2>3. first \in Int /\ last \in Int /\ k \in first..last
    BY <2>1
  <2>4. first = j * S
          /\ last = (IF first + S - 1 > Len(ix.blocks) - 1 THEN Len(ix.blocks) - 1
                     ELSE first + S - 1)
    BY DEF last
  <2>. HIDE DEF first
  <2>. QED  BY <2>2, <2>3, <2>4, SelectBlockIs
<1>14. rank - (upTo - BlockRank(ix, bit, k)) = Count(T, k * B, p + 1)
  <2>. DEFINE a == k * B
  <2>1. a \in Nat /\ a <= p
    BY <1>1, <1>3
  <2>2. BlockRank(ix, bit, k) = upTo - Count(T, 0, a)
    BY <1>3, <1>5, <1>12
  <2>. HIDE DEF a
  <2>3. rank = Count(T, 0, a) + Count(T, a, p + 1)
    BY <1>1, <2>1, CountSplit DEF rank
  <2>4. Count(T, 0, a) \in Nat /\ Count(T, a, p + 1) \in Nat
    BY <1>1, <2>1, CountType
  <2>. QED  BY <1>8, <1>11, <2>2, <2>3, <2>4 DEF a
<1>15. subrank # 0
  <2>1. Count(T, start, p + 1) = Count(T, start, p) + 1
    BY <1>1, <1>2, CountStep
  <2>2. Count(T, start, p) \in Nat
    BY <1>1, CountType
  <2>. QED  BY <2>1, <2>2 DEF T
<1>16. SelectInBlock(ix, bit, subrank, start, end, k,
                     rank - (upTo - BlockRank(ix, bit, k))) = p
  <2>1. end = NoEnd \/ (end \in Nat /\ p < end)
    BY <1>1
  <2>2. Home(p) = k
    BY DEF Home, k
  <2>3. NumberInBlock(s, bit, p) = Count(T, k * B, p + 1)
    BY DEF NumberInBlock, T, k
  <2>4. SelectInBlock(ix, bit, subrank, start, end, Home(p), NumberInBlock(s, bit, p)) = p
    BY <1>1, <1>15, <2>1, SelectInBlockIs DEF ix
  <2>. QED  BY <1>14, <2>2, <2>3, <2>4
<1>17. SelectLinear(ix, bit, subrank, start, end) = p
  BY SelectLinearIs DEF ix, subrank
<1>18. ~(j >= Len(ix.sblocks)) /\ ~(upTo < rank)
  BY <1>3, <1>4, <1>6, <1>8, <1>11
<1>19. SelectFromRange(ix, bit, subrank, start, end) = p
  BY <1>7, <1>10, <1>11, <1>13, <1>16, <1>17, <1>18 DEF SelectFromRange
<1>. QED  BY <1>19 DEF ix, subrank

\* select1 finds nothing for a rank the array has no bit for.
LEMMA SelectNone ==
  ASSUME NEW s \in Seq({0, 1}), NEW rank \in Nat, Count(Sought(s, 1), 0, Len(s)) < rank
  PROVE  Select(BuildIndex(s), 1, rank) = NoIndex
<1>. DEFINE T == Sought(s, 1)
            n == CeilDiv(Len(s), B)
            m == CeilDiv(n, S)
            ix == BuildIndex(s)
            total == Count(T, 0, Len(s))
<1>1. Len(s) \in Nat /\ B \in Nat \ {0} /\ S \in Nat \ {0} /\ total \in Nat /\ total < rank
  BY BSizes, CountType
<1>2. /\ n \in Nat /\ m \in Nat /\ Len(ix.blocks) = n /\ Len(ix.sblocks) = m
      /\ ix.len = Len(s)
  BY IndexLengths
<1>. HIDE DEF T, n, m, ix, total
<1>3. ASSUME NEW x \in Nat PROVE Count(T, 0, x) \in Nat /\ Count(T, 0, x) < rank
  <2>1. Count(T, 0, x) \in Nat
    BY CountType
  <2>2. CASE x <= Len(s)
    <3>1. Count(T, 0, x) <= total
      BY <1>1, <2>2, CountGrows DEF total
    <3>. QED  BY <1>1, <2>1, <3>1
  <2>3. CASE Len(s) <= x
    <3>1. \A p \in Len(s)..(x-1) : p \notin T
      BY <1>1 DEF T, Sought, Padded
    <3>2. Count(T, Len(s), x) = 0
      BY <1>1, <3>1, CountNone
    <3>3. Count(T, 0, x) = total + Count(T, Len(s), x)
      BY <1>1, <2>3, CountSplit DEF total
    <3>. QED  BY <1>1, <2>1, <3>2, <3>3
  <2>. QED  BY <1>1, <2>2, <2>3
<1>4. RankBefore(ix, 1, 0) + rank = rank
  BY DEF RankBefore
<1>5. SelectLinear(ix, 1, rank, 0, NoEnd) = NoIndex
  <2>. DEFINE hits == {i \in 0..(Len(s)-1) :
                         /\ Get(ix, i) = 1
                         /\ Cardinality({j \in 0..i : Get(ix, j) = 1}) = rank}
  <2>1. hits = {}
    <3>. SUFFICES ASSUME NEW i \in 0..(Len(s)-1)
                  PROVE  Cardinality({j \in 0..i : Get(ix, j) = 1}) # rank
      OBVIOUS
    <3>1. Cardinality({j \in 0..i : Get(ix, j) = 1}) = Count(T, 0, i + 1)
      BY ScanCount DEF ix, T
    <3>2. i + 1 \in Nat
      OBVIOUS
    <3>3. Count(T, 0, i + 1) \in Nat /\ Count(T, 0, i + 1) < rank
      BY <1>3, <3>2
    <3>. QED  BY <3>1, <3>3
  <2>2. rank # 0
    BY <1>1
  <2>3. SelectLinear(ix, 1, rank, 0, NoEnd) =
          IF hits = {} THEN NoIndex ELSE CHOOSE i \in hits : TRUE
    BY <1>2, <2>2 DEF SelectLinear
  <2>. HIDE DEF hits
  <2>. QED  BY <2>1, <2>3
<1>6. CASE Len(s) = 0
  <2>1. UseLinearBitscan(0, ix.len)
    BY <1>2, <1>6 DEF UseLinearBitscan
  <2>2. SelectFromRange(ix, 1, rank, 0, NoEnd) = NoIndex
    BY <1>5, <2>1 DEF SelectFromRange
  <2>. QED  BY <2>2 DEF Select, ix
<1>7. CASE Len(s) # 0
  <2>. DEFINE last == m - 1
  <2>1. last \in Nat /\ last < m
    <3>1. 0 \div B + 1 \in 1..n
      BY <1>1, <1>7, BlockOf DEF n
    <3>2. 0 < n
      BY <1>2, <3>1
    <3>3. 0 \div S + 1 \in 1..m
      BY <1>1, <1>2, <3>2, BlockOf DEF m
    <3>. QED  BY <1>2, <3>3
  <2>2. ASSUME NEW q \in Nat, q < m
        PROVE  SBlockRank(ix, 1, q) \in Nat /\ SBlockRank(ix, 1, q) < rank
    <3>. DEFINE e == ((q + 1) * S) * B
    <3>1. e \in Nat /\ SBlockRank(ix, 1, q) = Count(T, 0, e)
      BY <2>2, SBlockRankCounts DEF m, n, T, ix
    <3>. HIDE DEF e
    <3>. QED  BY <1>3, <3>1
  <2>. HIDE DEF last
  <2>3. SBlocksTell(ix, 1, rank, 0, last, last)
    BY <1>2, <2>1, <2>2 DEF SBlocksTell
  <2>4. SelectSBlock(ix, 1, rank, 0, NoEnd) = last
    <3>1. 0 \in Int /\ last \in Int /\ last \in 0..last /\ 0 \in 0..last
      BY <2>1
    <3>2. 0 = 0 /\ 0 = 0 \div (B * S)
            /\ last = (IF NoEnd = NoEnd THEN Len(ix.sblocks) - 1 ELSE NoEnd \div (B * S))
      <4>1. 0 = 0 \div (B * S)
        <5>. DEFINE d == B * S
        <5>1. d \in Nat \ {0}
          BY <1>1
        <5>. HIDE DEF d
        <5>2. 0 \div d = 0
          BY <5>1
        <5>. QED  BY <5>2 DEF d
      <4>. QED  BY <1>2, <4>1 DEF last
    <3>. QED  BY <2>3, <3>1, <3>2, SelectSBlockIs
  <2>5. ~(last >= Len(ix.sblocks)) /\ SBlockRank(ix, 1, last) < rank
    BY <1>2, <2>1, <2>2
  <2>6. SelectFromRange(ix, 1, rank, 0, NoEnd) = NoIndex
    BY <1>4, <1>5, <2>4, <2>5 DEF SelectFromRange
  <2>. QED  BY <2>6 DEF Select, ix
<1>. QED  BY <1>6, <1>7
=============================================================================
