-------------------------- MODULE TypedDictProofs --------------------------
(***************************************************************************)
(* For all types, record sizes and values, and any number of entries added *)
(* in order: ids are those of the entries added, iterating and streaming   *)
(* give them back, and a value looked up is found where the order has it.  *)
(* From the bytes of a block over the blocks of a buffer to the segments   *)
(* of the types.                                                           *)
(***************************************************************************)
EXTENDS TypedDict, BitIndexProofs

-----------------------------------------------------------------------------
(* Greatest and least.                                                     *)

\* The least of a set of naturals.
LEMMA MinIs ==
  ASSUME NEW T \in SUBSET Nat, T # {}
  PROVE  Min(T) \in T /\ \A n \in T : Min(T) <= n
<1>1. PICK m \in T : \A n \in T : m <= n
  BY Least
<1>. QED  BY <1>1 DEF Min

\* The greatest of a bounded set of naturals.
LEMMA MaxIs ==
  ASSUME NEW T \in SUBSET Nat, T # {}, NEW top \in Nat, \A n \in T : n <= top
  PROVE  Max(T) \in T /\ \A n \in T : n <= Max(T)
<1>. DEFINE U == {top - n : n \in T}
<1>1. U \in SUBSET Nat /\ U # {}
  OBVIOUS
<1>2. \A n \in T : top - n \in U
  OBVIOUS
<1>3. \A u \in U : \E n \in T : u = top - n
  OBVIOUS
<1>. HIDE DEF U
<1>4. PICK u \in U : \A v \in U : u <= v
  BY <1>1, Least
<1>5. PICK m \in T : u = top - m
  BY <1>3
<1>6. ASSUME NEW n \in T PROVE m >= n
  <2>1. u <= top - n /\ n \in Nat /\ m \in Nat
    BY <1>2, <1>4
  <2>. QED  BY <2>1, <1>5
<1>7. \E x \in T : \A n \in T : x >= n
  BY <1>6
<1>8. Max(T) \in T /\ \A n \in T : Max(T) >= n
  BY <1>7 DEF Max
<1>. QED  BY <1>8

-----------------------------------------------------------------------------
(* Sums.                                                                   *)

Sums(f, s) == f = [n \in 0..Len(s) |-> IF n = 0 THEN 0 ELSE f[n - 1] + s[n]]

\* There are partial sums.
LEMMA SumsExist ==
  ASSUME NEW s \in Seq(Nat)
  PROVE  \E f : Sums(f, s)
<1>. DEFINE V == Nat
            g == [x \in Nat \X V |-> IF x[1] + 1 \in 1..Len(s) THEN x[2] + s[x[1] + 1] ELSE x[2]]
<1>1. Len(s) \in Nat /\ s \in [1..Len(s) -> Nat]
  OBVIOUS
<1>2. 0 \in V /\ g \in [Nat \X V -> V]
  BY <1>1
<1>3. PICK G : IsRecursion(G, V, 0, g)
  <2>. HIDE DEF V, g
  <2>. QED  BY <1>2, Recursion
<1>4. G \in [Nat -> V] /\ G[0] = 0 /\ \A m \in Nat : G[m + 1] = g[<<m, G[m]>>]
  <2>. HIDE DEF g, V
  <2>. QED  BY <1>3 DEF IsRecursion
<1>. DEFINE F == [n \in 0..Len(s) |-> G[n]]
<1>5. ASSUME NEW n \in 0..Len(s), n # 0 PROVE F[n] = F[n - 1] + s[n]
  <2>. DEFINE m == n - 1
  <2>1. m \in Nat /\ m + 1 = n /\ m \in 0..Len(s) /\ m + 1 \in 1..Len(s)
    BY <1>1, <1>5
  <2>. HIDE DEF m
  <2>2. G[m + 1] = g[<<m, G[m]>>] /\ G[m] \in V
    <3>. HIDE DEF g, V
    <3>. QED  BY <1>4, <2>1
  <2>3. g[<<m, G[m]>>] = G[m] + s[m + 1]
    BY <2>1, <2>2
  <2>4. F[n] = G[m + 1] /\ F[m] = G[m]
    BY <2>1
  <2>5. m = n - 1
    BY DEF m
  <2>. QED  BY <2>1, <2>2, <2>3, <2>4, <2>5
<1>6. \A n \in 0..Len(s) : F[n] = IF n = 0 THEN 0 ELSE F[n - 1] + s[n]
  BY <1>4, <1>5
<1>7. Sums(F, s)
  BY <1>6 DEF Sums
<1>. QED  BY <1>7

\* The sum is that of the function for it.
LEMMA SumIs ==
  ASSUME NEW s \in Seq(Nat)
  PROVE  \E f \in [0..Len(s) -> Nat] :
           /\ f[0] = 0 /\ \A n \in 1..Len(s) : f[n] = f[n - 1] + s[n]
           /\ SumOf(s) = f[Len(s)]
<1>. DEFINE f == CHOOSE f : Sums(f, s)
<1>1. Sums(f, s)
  BY SumsExist
<1>2. SumOf(s) = f[Len(s)]
  BY DEF SumOf, Sums
<1>. HIDE DEF f
<1>3. Len(s) \in Nat /\ s \in [1..Len(s) -> Nat]
  OBVIOUS
<1>4. DOMAIN f = 0..Len(s) /\ f[0] = 0 /\ \A n \in 1..Len(s) : f[n] = f[n - 1] + s[n]
  <2>1. f = [n \in 0..Len(s) |-> IF n = 0 THEN 0 ELSE f[n - 1] + s[n]]
    BY <1>1 DEF Sums
  <2>2. 0 \in 0..Len(s) /\ \A n \in 1..Len(s) : n \in 0..Len(s) /\ n # 0
    BY <1>3
  <2>. QED  BY <2>1, <2>2
<1>. DEFINE T == {n \in Nat : n <= Len(s) => f[n] \in Nat}
<1>5. 0 \in T
  BY <1>4
<1>6. ASSUME NEW n \in Nat, n \in T PROVE n + 1 \in T
  <2>. SUFFICES ASSUME n + 1 <= Len(s) PROVE f[n + 1] \in Nat
    OBVIOUS
  <2>1. n + 1 \in 1..Len(s) /\ (n + 1) - 1 = n /\ f[n] \in Nat
    BY <1>3, <1>6
  <2>. QED  BY <1>3, <1>4, <2>1
<1>. HIDE DEF T
<1>7. \A n \in Nat : n \in T
  BY <1>5, <1>6, Induct
<1>8. \A n \in 0..Len(s) : f[n] \in Nat
  BY <1>3, <1>7 DEF T
<1>9. f = [n \in 0..Len(s) |-> f[n]]
  BY <1>1, <1>4 DEF Sums
<1>10. f \in [0..Len(s) -> Nat]
  BY <1>8, <1>9
<1>. QED  BY <1>2, <1>4, <1>10

\* A sum of naturals is a natural.
LEMMA SumType == \A s \in Seq(Nat) : SumOf(s) \in Nat
<1>. SUFFICES ASSUME NEW s \in Seq(Nat) PROVE SumOf(s) \in Nat
  OBVIOUS
<1>1. PICK f \in [0..Len(s) -> Nat] : SumOf(s) = f[Len(s)]
  BY SumIs
<1>. QED  BY <1>1

\* Nothing sums up to zero.
LEMMA SumEmpty == SumOf(<<>>) = 0
<1>1. <<>> \in Seq(Nat) /\ Len(<<>>) = 0
  OBVIOUS
<1>. QED  BY <1>1, SumIs

\* The sum of the first n is the one before and the n-th.
LEMMA SumFirst ==
  ASSUME NEW s \in Seq(Nat), NEW n \in 1..Len(s)
  PROVE  SumOf(SubSeq(s, 1, n)) = SumOf(SubSeq(s, 1, n - 1)) + s[n]
<1>1. Len(s) \in Nat /\ s \in [1..Len(s) -> Nat]
  OBVIOUS
<1>. DEFINE p == SubSeq(s, 1, n)
            q == SubSeq(s, 1, n - 1)
<1>2. p \in Seq(Nat) /\ Len(p) = n /\ \A k \in 1..n : p[k] = s[k]
  BY <1>1
<1>3. q \in Seq(Nat) /\ Len(q) = n - 1 /\ \A k \in 1..(n-1) : q[k] = s[k]
  BY <1>1
<1>. HIDE DEF p, q
<1>4. PICK f \in [0..n -> Nat] :
         /\ f[0] = 0 /\ \A k \in 1..n : f[k] = f[k - 1] + p[k]
         /\ SumOf(p) = f[n]
  BY <1>2, SumIs
<1>5. PICK g \in [0..(n-1) -> Nat] :
         /\ g[0] = 0 /\ \A k \in 1..(n-1) : g[k] = g[k - 1] + q[k]
         /\ SumOf(q) = g[n - 1]
  BY <1>3, SumIs
<1>. DEFINE T == {k \in Nat : k <= n - 1 => f[k] = g[k]}
<1>6. 0 \in T
  BY <1>4, <1>5
<1>7. ASSUME NEW k \in Nat, k \in T PROVE k + 1 \in T
  <2>. SUFFICES ASSUME k + 1 <= n - 1 PROVE f[k + 1] = g[k + 1]
    OBVIOUS
  <2>1. k + 1 \in 1..(n-1) /\ k + 1 \in 1..n /\ (k + 1) - 1 = k /\ f[k] = g[k]
    BY <1>7
  <2>2. p[k + 1] = q[k + 1]
    BY <1>2, <1>3, <2>1
  <2>. QED  BY <1>4, <1>5, <2>1, <2>2
<1>. HIDE DEF T
<1>8. n - 1 \in Nat /\ n \in 1..n
  BY <1>1
<1>9. n - 1 \in T
  BY <1>6, <1>7, <1>8, Induct
<1>10. f[n - 1] = g[n - 1]
  BY <1>8, <1>9 DEF T
<1>11. p[n] = s[n]
  BY <1>2, <1>8
<1>. QED  BY <1>4, <1>5, <1>8, <1>10, <1>11 DEF p, q

\* The sum of numbers put behind others.
LEMMA SumAppend ==
  ASSUME NEW s \in Seq(Nat), NEW x \in Nat
  PROVE  SumOf(Append(s, x)) = SumOf(s) + x
<1>. DEFINE t == Append(s, x)
            n == Len(s) + 1
<1>1. /\ t \in Seq(Nat) /\ Len(t) = n /\ t[n] = x /\ n \in 1..n
      /\ \A k \in 1..Len(s) : t[k] = s[k]
  BY AppendProperties
<1>. HIDE DEF t
<1>2. SubSeq(t, 1, n) = t
  BY <1>1
<1>3. SubSeq(t, 1, n - 1) = s
  BY <1>1
<1>4. SumOf(SubSeq(t, 1, n)) = SumOf(SubSeq(t, 1, n - 1)) + t[n]
  BY <1>1, SumFirst
<1>. QED  BY <1>1, <1>2, <1>3, <1>4 DEF t

-----------------------------------------------------------------------------
(* What is put behind a sequence of sequences.                             *)

\* Nothing is flattened to nothing.
LEMMA FlattenEmpty == FlattenSeq(<<>>) = <<>>
BY DEF FlattenSeq

\* F has what is flattened up to each of the sequences.
FlattensTo(F, D, s) ==
  /\ FlattenSeq(s) = F[Len(s)]
  /\ F[1] = s[1] /\ \A i \in 2..Len(s) : F[i] = F[i - 1] \o s[i]
  /\ \A i \in 1..Len(s) : F[i] \in Seq(D)

\* The recursive function FlattenSeq CHOOSEs exists.
LEMMA FlattenDef ==
  ASSUME NEW D, NEW s \in Seq(Seq(D)), s # <<>>
  PROVE  \E F : FlattensTo(F, D, s)
<1>. DEFINE n == Len(s)
<1>1. n \in Nat \ {0} /\ s \in [1..n -> Seq(D)]
  OBVIOUS
<1>. DEFINE F == CHOOSE F : Flattens(F, s, n)
<1>2. Flattens(F, s, n)
  BY <1>1, FlattensExists
<1>3. FlattenSeq(s) = F[n]
  <2>1. F = CHOOSE h : h = [i \in 1..Len(s) |-> IF i = 1 THEN s[i] ELSE h[i - 1] \o s[i]]
    BY DEF Flattens
  <2>. QED  BY <1>1, <2>1 DEF FlattenSeq
<1>. HIDE DEF F
<1>4. F[1] = s[1] /\ \A i \in 2..n : F[i] = F[i - 1] \o s[i]
  <2>1. F = [i \in 1..n |-> IF i = 1 THEN s[i] ELSE F[i - 1] \o s[i]]
    BY <1>2 DEF Flattens
  <2>2. 1 \in 1..n /\ \A i \in 2..n : i \in 1..n /\ i # 1
    BY <1>1
  <2>. HIDE DEF n
  <2>. QED  BY <2>1, <2>2
<1>. DEFINE T == {m \in Nat : m + 1 <= n => F[m + 1] \in Seq(D)}
<1>5. 0 \in T
  BY <1>1, <1>4
<1>6. ASSUME NEW m \in Nat, m \in T PROVE m + 1 \in T
  <2>. SUFFICES ASSUME (m + 1) + 1 <= n PROVE F[(m + 1) + 1] \in Seq(D)
    OBVIOUS
  <2>1. /\ (m + 1) + 1 \in 2..n /\ ((m + 1) + 1) - 1 = m + 1
        /\ F[m + 1] \in Seq(D) /\ s[(m + 1) + 1] \in Seq(D)
    BY <1>1, <1>6
  <2>2. F[(m + 1) + 1] = F[m + 1] \o s[(m + 1) + 1]
    BY <1>4, <2>1
  <2>. QED  BY <2>1, <2>2, ConcatProperties
<1>. HIDE DEF T
<1>7. \A m \in Nat : m \in T
  BY <1>5, <1>6, Induct
<1>8. ASSUME NEW i \in 1..n PROVE F[i] \in Seq(D)
  <2>1. i - 1 \in Nat /\ (i - 1) + 1 = i /\ i <= n
    BY <1>1
  <2>. QED  BY <1>7, <2>1 DEF T
<1>9. FlattensTo(F, D, s)
  BY <1>3, <1>4, <1>8 DEF FlattensTo
<1>. QED  BY <1>9

\* What is flattened consists of the elements.
LEMMA FlattenType ==
  ASSUME NEW D, NEW s \in Seq(Seq(D))
  PROVE  FlattenSeq(s) \in Seq(D)
<1>1. CASE s = <<>>
  <2>1. <<>> \in Seq(D)
    OBVIOUS
  <2>. QED  BY <1>1, <2>1, FlattenEmpty
<1>2. CASE s # <<>>
  <2>1. Len(s) \in 1..Len(s)
    BY <1>2
  <2>2. PICK F : FlattensTo(F, D, s)
    BY <1>2, FlattenDef
  <2>. QED  BY <2>1, <2>2 DEF FlattensTo
<1>. QED  BY <1>1, <1>2

\* One sequence is flattened to itself.
LEMMA FlattenOne ==
  ASSUME NEW D, NEW x \in Seq(D)
  PROVE  FlattenSeq(<<x>>) = x
<1>. DEFINE s == <<x>>
<1>1. s \in Seq(Seq(D)) /\ s # <<>> /\ Len(s) = 1 /\ s[1] = x
  OBVIOUS
<1>. HIDE DEF s
<1>2. PICK F : FlattensTo(F, D, s)
  BY <1>1, FlattenDef
<1>3. FlattenSeq(s) = s[1]
  BY <1>1, <1>2 DEF FlattensTo
<1>. QED  BY <1>1, <1>3 DEF s

\* A sequence appended comes last in what is flattened.
LEMMA FlattenAppend ==
  ASSUME NEW D, NEW s \in Seq(Seq(D)), NEW x \in Seq(D)
  PROVE  FlattenSeq(Append(s, x)) = FlattenSeq(s) \o x
<1>1. CASE s = <<>>
  <2>1. Append(s, x) = <<x>> /\ <<>> \o x = x
    BY <1>1
  <2>. QED  BY <1>1, <2>1, FlattenOne, FlattenEmpty
<1>2. CASE s # <<>>
  <2>. DEFINE n == Len(s)
              t == Append(s, x)
  <2>1. n \in Nat \ {0}
    BY <1>2
  <2>2. /\ t \in Seq(Seq(D)) /\ t # <<>> /\ Len(t) = n + 1 /\ t[n + 1] = x
        /\ \A i \in 1..n : t[i] = s[i]
    BY <2>1, AppendProperties
  <2>. HIDE DEF t
  <2>3. PICK F : /\ FlattenSeq(s) = F[n] /\ F[1] = s[1]
                 /\ \A i \in 2..n : F[i] = F[i - 1] \o s[i]
    <3>1. PICK F : FlattensTo(F, D, s)
      BY <1>2, FlattenDef
    <3>. QED  BY <3>1 DEF FlattensTo
  <2>4. PICK G : /\ FlattenSeq(t) = G[n + 1] /\ G[1] = t[1]
                 /\ \A i \in 2..(n+1) : G[i] = G[i - 1] \o t[i]
    <3>1. PICK G : FlattensTo(G, D, t)
      BY <2>2, FlattenDef
    <3>. QED  BY <2>2, <3>1 DEF FlattensTo
  <2>. HIDE DEF n
  <2>. DEFINE T == {m \in Nat : m + 1 <= n => F[m + 1] = G[m + 1]}
  <2>5. 0 \in T
    BY <2>1, <2>2, <2>3, <2>4
  <2>6. ASSUME NEW m \in Nat, m \in T PROVE m + 1 \in T
    <3>. SUFFICES ASSUME (m + 1) + 1 <= n PROVE F[(m + 1) + 1] = G[(m + 1) + 1]
      OBVIOUS
    <3>1. /\ (m + 1) + 1 \in 2..n /\ (m + 1) + 1 \in 2..(n+1) /\ (m + 1) + 1 \in 1..n
          /\ ((m + 1) + 1) - 1 = m + 1 /\ F[m + 1] = G[m + 1]
      BY <2>1, <2>6
    <3>. QED  BY ZenonT(40), <2>2, <2>3, <2>4, <3>1
  <2>. HIDE DEF T
  <2>7. n - 1 \in Nat /\ (n - 1) + 1 = n
    BY <2>1
  <2>8. n - 1 \in T
    BY <2>5, <2>6, <2>7, Induct
  <2>9. F[n] = G[n]
    BY <2>7, <2>8 DEF T
  <2>10. n + 1 \in 2..(n+1) /\ (n + 1) - 1 = n
    BY <2>1
  <2>11. G[n + 1] = G[n] \o t[n + 1]
    BY <2>4, <2>10
  <2>. QED  BY <2>2, <2>3, <2>4, <2>9, <2>11 DEF t
<1>. QED  BY <1>1, <1>2

\* Each more of a sequence of sequences goes behind those before it.
LEMMA FlattenFirst ==
  ASSUME NEW D, NEW s \in Seq(Seq(D)), NEW n \in 1..Len(s)
  PROVE  FlattenSeq(SubSeq(s, 1, n)) = FlattenSeq(SubSeq(s, 1, n - 1)) \o s[n]
<1>1. Len(s) \in Nat /\ s[n] \in Seq(D)
  OBVIOUS
<1>. DEFINE p == SubSeq(s, 1, n - 1)
            q == SubSeq(s, 1, n)
<1>2. /\ p \in Seq(Seq(D)) /\ Len(p) = n - 1 /\ \A k \in 1..(n-1) : p[k] = s[k]
      /\ q \in Seq(Seq(D)) /\ Len(q) = n /\ \A k \in 1..n : q[k] = s[k]
  BY <1>1
<1>. HIDE DEF p, q
<1>3. q = Append(p, s[n])
  <2>1. /\ Append(p, s[n]) \in Seq(Seq(D)) /\ Len(Append(p, s[n])) = n
        /\ \A k \in 1..(n-1) : Append(p, s[n])[k] = p[k]
        /\ Append(p, s[n])[n] = s[n]
    BY <1>1, <1>2, AppendProperties
  <2>2. \A k \in 1..n : k \in 1..(n-1) \/ k = n
    BY <1>1
  <2>3. \A k \in 1..n : q[k] = Append(p, s[n])[k]
    BY <1>2, <2>1, <2>2
  <2>. QED  BY <1>2, <2>1, <2>3, SeqEqual
<1>4. FlattenSeq(Append(p, s[n])) = FlattenSeq(p) \o s[n]
  BY <1>1, <1>2, FlattenAppend
<1>. QED  BY <1>3, <1>4 DEF p, q

Bytes == Seq(Nat)

-----------------------------------------------------------------------------
(* Prefixes.                                                               *)

\* A slice from its first to its last element.
LEMMA SliceIs ==
  ASSUME NEW D, NEW s \in Seq(D), NEW m \in Nat \ {0}, NEW n \in Nat,
         m <= n + 1, n <= Len(s)
  PROVE  /\ SubSeq(s, m, n) \in Seq(D) /\ Len(SubSeq(s, m, n)) = (n - m) + 1
         /\ \A i \in 1..((n - m) + 1) : SubSeq(s, m, n)[i] = s[(m + i) - 1]
<1>1. Len(s) \in Nat /\ \A i \in m..n : s[i] \in D
  OBVIOUS
<1>. QED  BY <1>1, SubSeqProperties

\* The first k, and what is after them.
LEMMA FirstIs ==
  ASSUME NEW D, NEW s \in Seq(D), NEW k \in 0..Len(s)
  PROVE  /\ SubSeq(s, 1, k) \in Seq(D) /\ Len(SubSeq(s, 1, k)) = k
         /\ \A i \in 1..k : SubSeq(s, 1, k)[i] = s[i]
<1>1. Len(s) \in Nat /\ k \in Nat /\ 1 <= k + 1 /\ k <= Len(s) /\ (k - 1) + 1 = k
  OBVIOUS
<1>2. \A i \in 1..k : (1 + i) - 1 = i
  OBVIOUS
<1>. DEFINE one == 1
<1>3. one \in Nat \ {0} /\ one <= k + 1 /\ (k - one) + 1 = k /\ \A i \in 1..k : (one + i) - 1 = i
  BY <1>1, <1>2
<1>. HIDE DEF one
<1>4. /\ SubSeq(s, one, k) \in Seq(D) /\ Len(SubSeq(s, one, k)) = (k - one) + 1
      /\ \A i \in 1..((k - one) + 1) : SubSeq(s, one, k)[i] = s[(one + i) - 1]
  BY <1>1, <1>3, SliceIs
<1>5. \A i \in 1..k : SubSeq(s, one, k)[i] = s[i]
  BY <1>3, <1>4
<1>. QED  BY <1>3, <1>4, <1>5 DEF one

\* What follows the first k elements.
LEMMA AfterIs ==
  ASSUME NEW D, NEW s \in Seq(D), NEW k \in 0..Len(s)
  PROVE  /\ After(s, k) \in Seq(D) /\ Len(After(s, k)) = Len(s) - k
         /\ \A i \in 1..(Len(s) - k) : After(s, k)[i] = s[k + i]
<1>. DEFINE n == Len(s)
            m == k + 1
<1>1. n \in Nat /\ m \in Nat \ {0} /\ m <= n + 1 /\ n <= Len(s) /\ (n - m) + 1 = n - k
      /\ k \in Nat
  OBVIOUS
<1>2. \A i \in 1..(n - k) : (m + i) - 1 = k + i
  BY <1>1
<1>. HIDE DEF n, m
<1>3. /\ SubSeq(s, m, n) \in Seq(D) /\ Len(SubSeq(s, m, n)) = (n - m) + 1
      /\ \A i \in 1..((n - m) + 1) : SubSeq(s, m, n)[i] = s[(m + i) - 1]
  BY <1>1, SliceIs
<1>. QED  BY <1>1, <1>2, <1>3 DEF After, n, m

\* a and b share k bytes, and no more.
SharesTo(a, b, k) ==
  /\ k \in Nat /\ k <= Len(a) /\ k <= Len(b)
  /\ \A i \in 1..k : a[i] = b[i]
  /\ k < Len(a) /\ k < Len(b) => a[k + 1] # b[k + 1]

\* There is one longest shared prefix.
LEMMA SharesOne ==
  ASSUME NEW a \in Bytes, NEW b \in Bytes, NEW j, NEW k, SharesTo(a, b, j), SharesTo(a, b, k)
  PROVE  j = k
<1>1. Len(a) \in Nat /\ Len(b) \in Nat /\ j \in Nat /\ k \in Nat
  BY DEF SharesTo, Bytes
<1>2. ASSUME j < k PROVE FALSE
  <2>1. j + 1 \in 1..k /\ j < Len(a) /\ j < Len(b)
    BY <1>1, <1>2 DEF SharesTo
  <2>. QED  BY <2>1 DEF SharesTo
<1>3. ASSUME k < j PROVE FALSE
  <2>1. k + 1 \in 1..j /\ k < Len(a) /\ k < Len(b)
    BY <1>1, <1>3 DEF SharesTo
  <2>. QED  BY <2>1 DEF SharesTo
<1>. QED  BY <1>1, <1>2, <1>3

\* Whichever comes first.
LEMMA SharesSymmetric ==
  ASSUME NEW a, NEW b, NEW k, SharesTo(a, b, k)
  PROVE  SharesTo(b, a, k)
BY DEF SharesTo

\* CommonPrefix is that of the longest one.
LEMMA CommonPrefixShares ==
  ASSUME NEW a \in Bytes, NEW b \in Bytes
  PROVE  SharesTo(a, b, CommonPrefix(a, b))
<1>1. Len(a) \in Nat /\ Len(b) \in Nat
  BY DEF Bytes
<1>. DEFINE least == Min({Len(a), Len(b)})
<1>2. least \in Nat /\ least <= Len(a) /\ least <= Len(b) /\ (least = Len(a) \/ least = Len(b))
  <2>. DEFINE both == {Len(a), Len(b)}
  <2>1. both \in SUBSET Nat /\ both # {} /\ Len(a) \in both /\ Len(b) \in both
    BY <1>1
  <2>2. \A x \in both : x = Len(a) \/ x = Len(b)
    OBVIOUS
  <2>. HIDE DEF both
  <2>3. Min(both) \in both /\ \A n \in both : Min(both) <= n
    BY <2>1, MinIs
  <2>. QED  BY <1>1, <2>1, <2>2, <2>3 DEF both
<1>. HIDE DEF least
<1>. DEFINE T == {k \in 0..least : SubSeq(a, 1, k) = SubSeq(b, 1, k)}
            max == Max(T)
<1>3. ASSUME NEW k \in 0..least
      PROVE  k \in T <=> \A i \in 1..k : a[i] = b[i]
  <2>1. k \in 0..Len(a) /\ k \in 0..Len(b)
    BY <1>1, <1>2
  <2>2. /\ SubSeq(a, 1, k) \in Seq(Nat) /\ Len(SubSeq(a, 1, k)) = k
        /\ \A i \in 1..k : SubSeq(a, 1, k)[i] = a[i]
    BY <2>1, FirstIs DEF Bytes
  <2>3. /\ SubSeq(b, 1, k) \in Seq(Nat) /\ Len(SubSeq(b, 1, k)) = k
        /\ \A i \in 1..k : SubSeq(b, 1, k)[i] = b[i]
    BY <2>1, FirstIs DEF Bytes
  <2>. DEFINE p == SubSeq(a, 1, k)
              q == SubSeq(b, 1, k)
  <2>4. k \in T <=> p = q
    OBVIOUS
  <2>. HIDE DEF T, p, q
  <2>5. ASSUME \A i \in 1..k : a[i] = b[i] PROVE p = q
    <3>1. \A i \in 1..Len(p) : p[i] = q[i]
      BY <2>2, <2>3, <2>5 DEF p, q
    <3>. QED  BY <2>2, <2>3, <3>1, SeqEqual DEF p, q
  <2>6. ASSUME p = q, NEW i \in 1..k PROVE a[i] = b[i]
    BY <2>2, <2>3, <2>6 DEF p, q
  <2>. QED  BY <2>4, <2>5, <2>6
<1>4. max \in T /\ \A n \in T : n <= max
  <2>1. 0 \in T
    <3>1. 0 \in 0..least /\ \A i \in 1..0 : a[i] = b[i]
      BY <1>2
    <3>. HIDE DEF T
    <3>. QED  BY <1>3, <3>1
  <2>2. T \in SUBSET Nat /\ \A n \in T : n <= least
    BY <1>2
  <2>. HIDE DEF T
  <2>. QED  BY <1>2, <2>1, <2>2, MaxIs
<1>5. max \in 0..least
  BY <1>4
<1>. HIDE DEF T, max
<1>6. \A i \in 1..max : a[i] = b[i]
  BY <1>3, <1>4, <1>5
<1>7. ASSUME max < Len(a), max < Len(b), a[max + 1] = b[max + 1] PROVE FALSE
  <2>1. max + 1 \in 0..least
    BY <1>1, <1>2, <1>5, <1>7
  <2>2. \A i \in 1..(max + 1) : i \in 1..max \/ i = max + 1
    BY <1>2, <1>5
  <2>3. max + 1 \in T
    BY <1>3, <1>6, <1>7, <2>1, <2>2
  <2>. QED  BY <1>2, <1>4, <1>5, <2>3
<1>8. max <= Len(a) /\ max <= Len(b) /\ max \in Nat
  BY <1>1, <1>2, <1>5
<1>9. SharesTo(a, b, max)
  BY <1>6, <1>7, <1>8 DEF SharesTo
<1>10. CommonPrefix(a, b) = max
  BY DEF CommonPrefix, max, T, least
<1>. QED  BY <1>9, <1>10

-----------------------------------------------------------------------------
(* What is in a block.                                                     *)

\* The entries a block may be built from.
Fits(recordSize, es) ==
  /\ recordSize \in Nat
  /\ es \in Seq(Bytes) /\ Len(es) \in 1..BlockSize
  /\ recordSize # 0 => \A i \in 1..Len(es) : Len(es[i]) = recordSize

Later(es) == [i \in 1..(Len(es) - 1) |-> After(es[i + 1], Shared(es, i))]

\* What an entry shares with the one before it.
LEMMA SharedIs ==
  ASSUME NEW es \in Seq(Bytes), NEW i \in 1..(Len(es) - 1)
  PROVE  /\ es[i] \in Bytes /\ es[i + 1] \in Bytes
         /\ SharesTo(es[i], es[i + 1], Shared(es, i))
         /\ Shared(es, i) \in 0..Len(es[i]) /\ Shared(es, i) \in 0..Len(es[i + 1])
<1>1. es[i] \in Bytes /\ es[i + 1] \in Bytes
  BY DEF Bytes
<1>2. SharesTo(es[i], es[i + 1], Shared(es, i))
  BY <1>1, CommonPrefixShares DEF Shared
<1>3. Len(es[i]) \in Nat /\ Len(es[i + 1]) \in Nat
  BY <1>1 DEF Bytes
<1>4. Shared(es, i) \in 0..Len(es[i]) /\ Shared(es, i) \in 0..Len(es[i + 1])
  BY <1>2, <1>3 DEF SharesTo
<1>. QED  BY <1>1, <1>2, <1>4

\* The bytes stored of the entries after the first.
LEMMA LaterIs ==
  ASSUME NEW es \in Seq(Bytes), Len(es) >= 1
  PROVE  /\ Later(es) \in Seq(Bytes) /\ Len(Later(es)) = Len(es) - 1
         /\ \A i \in 1..(Len(es) - 1) :
              /\ Later(es)[i] = After(es[i + 1], Shared(es, i))
              /\ Len(Later(es)[i]) = Len(es[i + 1]) - Shared(es, i)
<1>1. Len(es) - 1 \in Nat
  OBVIOUS
<1>2. ASSUME NEW i \in 1..(Len(es) - 1)
      PROVE  /\ After(es[i + 1], Shared(es, i)) \in Bytes
             /\ Len(After(es[i + 1], Shared(es, i))) = Len(es[i + 1]) - Shared(es, i)
  <2>1. es[i + 1] \in Seq(Nat) /\ Shared(es, i) \in 0..Len(es[i + 1])
    BY SharedIs DEF Bytes
  <2>. QED  BY <2>1, AfterIs DEF Bytes
<1>. DEFINE n == Len(es) - 1
<1>3. \A i \in 1..n : /\ Later(es)[i] = After(es[i + 1], Shared(es, i))
                      /\ Len(Later(es)[i]) = Len(es[i + 1]) - Shared(es, i)
  BY <1>2 DEF Later
<1>4. Later(es) \in [1..n -> Bytes]
  BY <1>2 DEF Later
<1>. HIDE DEF n
<1>5. n \in Nat
  BY <1>1 DEF n
<1>6. Later(es) \in Seq(Bytes) /\ Len(Later(es)) = n
  BY <1>4, <1>5
<1>. QED  BY <1>3, <1>6 DEF n

\* A block built from entries, field by field.
LEMMA BlockIs ==
  ASSUME NEW recordSize, NEW es, Fits(recordSize, es), NEW i \in 1..(BlockSize - 1)
  PROVE  LET b == BuildBlock(recordSize, es)
         IN  /\ b.num = Len(es) /\ b.head = es[1]
             /\ Shareds(b)[i] = IF i < Len(es) THEN Shared(es, i) ELSE 0
             /\ Sizes(b)[i] = IF i < Len(es) THEN Len(es[i + 1]) - Shared(es, i) ELSE 0
             /\ Sizes(b)[i] \in Nat
<1>. DEFINE b == BuildBlock(recordSize, es)
<1>1. /\ b.num = Len(es) /\ b.head = es[1] /\ b.recordSize = recordSize
      /\ b.shareds = [k \in 1..(Len(es)-1) |-> Shared(es, k)]
      /\ recordSize = 0 => b.stored = [k \in 1..(Len(es)-1) |-> Len(Later(es)[k])]
  BY DEF BuildBlock, Later
<1>. HIDE DEF b
<1>2. Shareds(b)[i] = IF i < b.num THEN b.shareds[i] ELSE 0
  BY DEF Shareds
<1>3. Sizes(b)[i] = IF i >= b.num THEN 0
                    ELSE IF b.recordSize = 0 THEN b.stored[i]
                    ELSE b.recordSize - b.shareds[i]
  BY DEF Sizes
<1>4. es \in Seq(Bytes) /\ Len(es) \in Nat \ {0}
  BY DEF Fits
<1>5. CASE i < Len(es)
  <2>1. i \in 1..(Len(es)-1) /\ ~(i >= Len(es)) /\ i + 1 \in 1..Len(es)
    BY <1>4, <1>5
  <2>2. /\ Len(Later(es)[i]) = Len(es[i + 1]) - Shared(es, i)
        /\ Shared(es, i) \in 0..Len(es[i + 1]) /\ Len(es[i + 1]) \in Nat
    <3>1. es[i + 1] \in Bytes /\ Shared(es, i) \in 0..Len(es[i + 1])
      BY <1>4, <2>1, SharedIs
    <3>2. Len(es) >= 1
      BY <1>4
    <3>3. Len(Later(es)[i]) = Len(es[i + 1]) - Shared(es, i)
      BY <1>4, <2>1, <3>2, LaterIs
    <3>4. Len(es[i + 1]) \in Nat
      BY <3>1 DEF Bytes
    <3>. QED  BY <3>1, <3>3, <3>4
  <2>3. recordSize # 0 => recordSize = Len(es[i + 1])
    BY <2>1 DEF Fits
  <2>. QED  BY <1>1, <1>2, <1>3, <1>5, <2>1, <2>2, <2>3 DEF b
<1>6. CASE ~(i < Len(es))
  <2>1. i >= Len(es)
    BY <1>4, <1>6
  <2>. QED  BY <1>1, <1>2, <1>3, <1>6, <2>1 DEF b
<1>. QED  BY <1>5, <1>6

\* The header of a block, and the types of what is read from it.
LEMMA BlockHeader ==
  ASSUME NEW recordSize, NEW es, Fits(recordSize, es)
  PROVE  LET b == BuildBlock(recordSize, es)
         IN  /\ b.num = Len(es) /\ b.head = es[1] /\ b.head \in Bytes
             /\ b.data = FlattenSeq(Later(es))
             /\ Sizes(b) \in Seq(Nat) /\ Len(Sizes(b)) = BlockSize - 1
             /\ Shareds(b) \in [1..(BlockSize - 1) -> Nat]
<1>. DEFINE b == BuildBlock(recordSize, es)
            n == BlockSize - 1
<1>1. b.num = Len(es) /\ b.head = es[1] /\ b.data = FlattenSeq(Later(es))
  BY DEF BuildBlock, Later
<1>2. es[1] \in Bytes
  BY DEF Fits
<1>3. n \in Nat
  BY BlockSizeAssumption
<1>4. ASSUME NEW i \in 1..n PROVE Sizes(b)[i] \in Nat /\ Shareds(b)[i] \in Nat
  <2>1. /\ Sizes(b)[i] \in Nat
        /\ Shareds(b)[i] = IF i < Len(es) THEN Shared(es, i) ELSE 0
    BY BlockIs
  <2>2. CASE i < Len(es)
    <3>1. es \in Seq(Bytes) /\ i \in 1..(Len(es) - 1)
      BY <1>3, <2>2 DEF Fits
    <3>2. Shared(es, i) \in 0..Len(es[i]) /\ es[i] \in Seq(Nat)
      BY <3>1, SharedIs DEF Bytes
    <3>3. Len(es[i]) \in Nat
      BY <3>2
    <3>. QED  BY <2>1, <2>2, <3>2, <3>3
  <2>. QED  BY <2>1, <2>2
<1>5. Sizes(b) \in [1..n -> Nat]
  <2>1. Sizes(b) = [i \in 1..n |-> Sizes(b)[i]]
    BY DEF Sizes
  <2>. HIDE DEF n, b
  <2>. QED  BY <1>4, <2>1
<1>6. Shareds(b) \in [1..n -> Nat]
  <2>1. Shareds(b) = [i \in 1..n |-> Shareds(b)[i]]
    BY DEF Shareds
  <2>. HIDE DEF n, b
  <2>. QED  BY <1>4, <2>1
<1>. HIDE DEF b, n
<1>7. Sizes(b) \in Seq(Nat) /\ Len(Sizes(b)) = n
  BY <1>3, <1>5
<1>. QED  BY <1>1, <1>2, <1>6, <1>7 DEF b, n

\* What parse gives back of an entry: the bytes it does not share.
LEMMA SuffixIs ==
  ASSUME NEW recordSize, NEW es, Fits(recordSize, es), NEW i \in 1..(BlockSize - 1)
  PROVE  SuffixOf(BuildBlock(recordSize, es), i) =
           IF i < Len(es) THEN After(es[i + 1], Shared(es, i)) ELSE <<>>
<1>. DEFINE b == BuildBlock(recordSize, es)
            sizes == Sizes(b)
            start == SumOf(SubSeq(sizes, 1, i - 1))
            n == Len(es) - 1
            s == Later(es)
<1>1. /\ b.data = FlattenSeq(s) /\ sizes \in Seq(Nat) /\ Len(sizes) = BlockSize - 1
  BY BlockHeader
<1>2. SuffixOf(b, i) = SubSeq(b.data, start + 1, start + sizes[i])
  BY DEF SuffixOf
<1>3. /\ \A k \in 1..(BlockSize-1) :
           sizes[k] = IF k < Len(es) THEN Len(es[k + 1]) - Shared(es, k) ELSE 0
  BY BlockIs
<1>4. es \in Seq(Bytes) /\ Len(es) \in 1..BlockSize /\ n \in Nat /\ n <= BlockSize - 1
      /\ Len(es) \in Nat /\ Len(es) >= 1
  BY BlockSizeAssumption DEF Fits
<1>5. /\ s \in Seq(Bytes) /\ Len(s) = n
      /\ \A k \in 1..n : s[k] = After(es[k + 1], Shared(es, k))
      /\ \A k \in 1..n : Len(s[k]) = Len(es[k + 1]) - Shared(es, k)
  BY <1>4, LaterIs
<1>. HIDE DEF b, sizes, s
<1>6. i - 1 \in 0..Len(sizes) /\ start \in Nat
  <2>1. i - 1 \in 0..Len(sizes)
    BY <1>1, BlockSizeAssumption
  <2>2. SubSeq(sizes, 1, i - 1) \in Seq(Nat)
    BY <1>1, <2>1, FirstIs
  <2>. QED  BY <2>1, <2>2, SumType
<1>7. CASE i < Len(es)
  <2>1. i \in 1..n /\ n \in Nat \ {0}
    BY <1>4, <1>7
  <2>. DEFINE o == [f \in 1..(n + 1) |-> SumOf(SubSeq(sizes, 1, f - 1))]
  <2>2. Offsets(o, s, n)
    <3>1. ASSUME NEW f \in 1..(n + 1) PROVE o[f] \in Nat
      <4>1. f - 1 \in 0..Len(sizes)
        BY <1>1, <1>4
      <4>2. SubSeq(sizes, 1, f - 1) \in Seq(Nat)
        BY <1>1, <4>1, FirstIs
      <4>. QED  BY <4>2, SumType
    <3>2. o[1] = 0
      <4>1. SubSeq(sizes, 1, 0) = <<>>
        BY <1>1
      <4>2. 1 \in 1..(n + 1) /\ 1 - 1 = 0
        BY <1>4
      <4>. QED  BY <4>1, <4>2, SumEmpty
    <3>3. ASSUME NEW f \in 1..n PROVE o[f + 1] = o[f] + Len(s[f])
      <4>1. f \in 1..Len(sizes) /\ f \in 1..(n+1) /\ f + 1 \in 1..(n+1) /\ (f + 1) - 1 = f
            /\ f \in 1..(BlockSize-1) /\ f < Len(es)
        BY <1>1, <1>4, BlockSizeAssumption
      <4>2. SumOf(SubSeq(sizes, 1, f)) = SumOf(SubSeq(sizes, 1, f - 1)) + sizes[f]
        BY <1>1, <4>1, SumFirst
      <4>3. sizes[f] = Len(s[f])
        BY <1>3, <1>5, <4>1
      <4>. QED  BY <4>1, <4>2, <4>3
    <3>4. o \in [1..(n+1) -> Nat]
      BY <3>1
    <3>. QED  BY <3>2, <3>3, <3>4 DEF Offsets
  <2>3. s \in [1..n -> Seq(Nat)]
    BY <1>5 DEF Bytes
  <2>4. o[i] = start
    BY <1>4, <2>1
  <2>. HIDE DEF o
  <2>5. HoldsAll(FlattenSeq(s), Nat, o, s, n)
    <3>. HIDE DEF n
    <3>. QED  BY <2>1, <2>2, <2>3, FlattenIs
  <2>. DEFINE bytes == b.data
              len == Len(s[i])
  <2>6. s[i] \in Seq(Nat) /\ len \in Nat /\ sizes[i] = len
    BY <1>3, <1>5, <1>7, <2>1 DEF Bytes
  <2>7. /\ bytes \in Seq(Nat)
        /\ \A k \in 1..len : start + k <= Len(bytes) /\ bytes[start + k] = s[i][k]
    <3>1. bytes \in Seq(Nat) /\ Len(bytes) = o[n + 1]
      BY <1>1, <2>5 DEF HoldsAll
    <3>2. \A k \in 1..len : o[i] + k <= o[n + 1] /\ bytes[o[i] + k] = s[i][k]
      BY <1>1, <2>1, <2>5 DEF HoldsAll
    <3>. QED  BY <2>4, <3>1, <3>2
  <2>. HIDE DEF bytes, len, start
  <2>8. SubSeq(bytes, start + 1, start + len) = s[i]
    <3>1. \A k \in (start+1)..(start+len) : bytes[k] \in Nat
      <4>. SUFFICES ASSUME NEW k \in (start+1)..(start+len) PROVE bytes[k] \in Nat
        OBVIOUS
      <4>1. k - start \in 1..len /\ start + (k - start) = k
        BY <1>6, <2>6
      <4>2. bytes[k] = s[i][k - start]
        BY <2>7, <4>1
      <4>. QED  BY <2>6, <4>1, <4>2 DEF len
    <3>2. (start + len) - (start + 1) + 1 = len /\ (start + 1 <= start + len <=> len # 0)
          /\ start + 1 \in Int /\ start + len \in Int
      BY <1>6, <2>6
    <3>. DEFINE p == SubSeq(bytes, start + 1, start + len)
    <3>3. p \in Seq(Nat) /\ Len(p) = len /\ \A k \in 1..len : p[k] = bytes[start + 1 + k - 1]
      BY <2>6, <3>1, <3>2, SubSeqProperties
    <3>4. \A k \in 1..len : p[k] = s[i][k]
      BY <1>6, <2>6, <2>7, <3>3
    <3>. HIDE DEF p
    <3>5. p = s[i]
      BY <2>6, <3>3, <3>4, SeqEqual DEF len
    <3>. QED  BY <3>5 DEF p
  <2>. QED  BY <1>2, <1>5, <1>7, <2>1, <2>6, <2>8 DEF b, start, bytes
<1>8. CASE ~(i < Len(es))
  <2>1. sizes[i] = 0
    BY <1>3, <1>8
  <2>2. SubSeq(b.data, start + 1, start + 0) = <<>>
    <3>. HIDE DEF start
    <3>. QED  BY <1>6
  <2>. QED  BY <1>2, <1>8, <2>1, <2>2 DEF b
<1>. QED  BY <1>7, <1>8

-----------------------------------------------------------------------------
(* Entries.                                                                *)

\* A recursive function on the numbers from lo to hi.
RecursesOn(f, lo, hi, a, g) ==
  f = [j \in lo..hi |-> IF j = lo THEN a ELSE g[<<j, f[j - 1]>>]]

\* Such a function exists.
LEMMA RecursionOn ==
  ASSUME NEW lo \in Int, NEW hi \in Int, lo <= hi,
         NEW V, NEW a \in V, NEW g \in [(lo..hi) \X V -> V]
  PROVE  \E f \in [lo..hi -> V] : RecursesOn(f, lo, hi, a, g)
<1>. DEFINE h == [x \in Nat \X V |-> IF lo + x[1] + 1 <= hi THEN g[<<lo + x[1] + 1, x[2]>>] ELSE x[2]]
<1>1. h \in [Nat \X V -> V]
  <2>. SUFFICES ASSUME NEW n \in Nat, NEW v \in V PROVE h[<<n, v>>] \in V
    OBVIOUS
  <2>1. h[<<n, v>>] = IF lo + n + 1 <= hi THEN g[<<lo + n + 1, v>>] ELSE v
    OBVIOUS
  <2>2. lo + n + 1 <= hi => <<lo + n + 1, v>> \in (lo..hi) \X V
    OBVIOUS
  <2>. HIDE DEF h
  <2>. QED  BY <2>1, <2>2
<1>2. \A n \in Nat, v \in V : lo + n + 1 <= hi => h[<<n, v>>] = g[<<lo + n + 1, v>>]
  OBVIOUS
<1>. HIDE DEF h
<1>3. PICK G : IsRecursion(G, V, a, h)
  BY <1>1, Recursion
<1>4. G \in [Nat -> V] /\ G[0] = a /\ \A m \in Nat : G[m + 1] = h[<<m, G[m]>>]
  BY <1>3 DEF IsRecursion
<1>. DEFINE f == [j \in lo..hi |-> G[j - lo]]
<1>5. f \in [lo..hi -> V]
  BY <1>4
<1>6. ASSUME NEW j \in lo..hi, j # lo PROVE f[j] = g[<<j, f[j - 1]>>]
  <2>. DEFINE m == (j - lo) - 1
  <2>1. m \in Nat /\ m + 1 = j - lo /\ lo + m + 1 = j /\ j - 1 \in lo..hi /\ (j - 1) - lo = m
        /\ j <= hi
    BY <1>6
  <2>. HIDE DEF m
  <2>2. f[j] = G[m + 1] /\ f[j - 1] = G[m]
    BY <2>1
  <2>3. G[m + 1] = h[<<m, G[m]>>] /\ G[m] \in V
    BY <1>4, <2>1
  <2>4. h[<<m, G[m]>>] = g[<<j, G[m]>>]
    BY <1>2, <2>1, <2>3
  <2>. QED  BY <2>2, <2>3, <2>4
<1>7. f[lo] = a
  BY <1>4
<1>8. f = [j \in lo..hi |-> IF j = lo THEN a ELSE g[<<j, f[j - 1]>>]]
  <2>1. \A j \in lo..hi : f[j] = IF j = lo THEN a ELSE g[<<j, f[j - 1]>>]
    BY <1>6, <1>7
  <2>2. f = [j \in lo..hi |-> f[j]]
    OBVIOUS
  <2>. HIDE DEF f
  <2>. QED  BY <2>1, <2>2
<1>9. RecursesOn(f, lo, hi, a, g)
  BY <1>8 DEF RecursesOn
<1>. HIDE DEF f
<1>. QED  BY <1>5, <1>9

\* What all entries from the one after j to the i-th share with those before them.
SharedFrom(es, i, j) == Min({Shared(es, m) : m \in (j+1)..i})

\* The least number of bytes shared on the way from one entry to a later one.
LEMMA SharedFromIs ==
  ASSUME NEW es \in Seq(Bytes), NEW i \in 1..(Len(es) - 1), NEW j \in 0..(i - 1)
  PROVE  /\ SharedFrom(es, i, j) \in Nat
         /\ \A m \in (j+1)..i : SharedFrom(es, i, j) <= Shared(es, m)
         /\ \E m \in (j+1)..i : SharedFrom(es, i, j) = Shared(es, m)
<1>. DEFINE T == {Shared(es, m) : m \in (j+1)..i}
<1>1. \A m \in (j+1)..i : m \in 1..(Len(es)-1) /\ Shared(es, m) \in Nat
  <2>. SUFFICES ASSUME NEW m \in (j+1)..i
                PROVE  m \in 1..(Len(es)-1) /\ Shared(es, m) \in Nat
    OBVIOUS
  <2>1. m \in 1..(Len(es)-1)
    OBVIOUS
  <2>2. SharesTo(es[m], es[m + 1], Shared(es, m))
    BY <2>1, SharedIs
  <2>. QED  BY <2>1, <2>2 DEF SharesTo
<1>2. i \in (j+1)..i
  OBVIOUS
<1>3. T \in SUBSET Nat /\ T # {}
  BY <1>1, <1>2
<1>4. \A m \in (j+1)..i : Shared(es, m) \in T
  OBVIOUS
<1>5. \A x \in T : \E m \in (j+1)..i : x = Shared(es, m)
  OBVIOUS
<1>6. SharedFrom(es, i, j) = Min(T)
  BY DEF SharedFrom
<1>. HIDE DEF T
<1>7. Min(T) \in T /\ \A x \in T : Min(T) <= x
  BY <1>3, MinIs
<1>. QED  BY <1>3, <1>4, <1>5, <1>6, <1>7

\* The later entry has as many of the earlier one's bytes.
LEMMA SharedFromBytes ==
  ASSUME NEW es \in Seq(Bytes), NEW i \in 1..(Len(es) - 1), NEW j \in 0..(i - 1)
  PROVE  /\ SharedFrom(es, i, j) <= Len(es[j + 1]) /\ SharedFrom(es, i, j) <= Len(es[i + 1])
         /\ \A p \in 1..SharedFrom(es, i, j) : es[j + 1][p] = es[i + 1][p]
<1>. DEFINE t == SharedFrom(es, i, j)
<1>1. t \in Nat /\ \A m \in (j+1)..i : t <= Shared(es, m)
  BY SharedFromIs
<1>2. \A m \in (j+1)..i : m \in 1..(Len(es)-1)
  OBVIOUS
<1>3. \A m \in (j+1)..i : SharesTo(es[m], es[m + 1], Shared(es, m))
  BY <1>2, SharedIs
<1>. HIDE DEF t
<1>4. i \in Nat /\ j \in Nat /\ j + 1 \in (j+1)..i /\ i \in (j+1)..i
  OBVIOUS
<1>5. \A m \in (j+1)..i : Shared(es, m) \in Nat
  BY <1>3 DEF SharesTo
<1>6. t <= Len(es[j + 1]) /\ t <= Len(es[i + 1])
  <2>1. /\ Shared(es, j + 1) <= Len(es[j + 1]) /\ Shared(es, i) <= Len(es[i + 1])
        /\ t <= Shared(es, j + 1) /\ t <= Shared(es, i)
    BY <1>1, <1>3, <1>4 DEF SharesTo
  <2>2. es[j + 1] \in Bytes /\ es[i + 1] \in Bytes
    OBVIOUS
  <2>3. Len(es[j + 1]) \in Nat /\ Len(es[i + 1]) \in Nat
    BY <2>2 DEF Bytes
  <2>. QED  BY <1>1, <1>4, <1>5, <2>1, <2>3
<1>7. ASSUME NEW p \in 1..t PROVE es[j + 1][p] = es[i + 1][p]
  <2>. DEFINE T == {n \in Nat : j + n <= i => es[j + 1][p] = es[(j + n) + 1][p]}
  <2>1. 0 \in T
    BY <1>4
  <2>2. ASSUME NEW n \in Nat, n \in T PROVE n + 1 \in T
    <3>. SUFFICES ASSUME j + (n + 1) <= i PROVE es[j + 1][p] = es[(j + (n + 1)) + 1][p]
      OBVIOUS
    <3>. DEFINE m == (j + n) + 1
    <3>1. m \in (j+1)..i /\ j + n <= i /\ j + (n + 1) = m
      BY <1>4
    <3>2. es[j + 1][p] = es[m][p]
      BY <2>2, <3>1
    <3>. HIDE DEF m, T
    <3>3. p \in 1..Shared(es, m)
      BY <1>1, <1>5, <3>1
    <3>4. es[m][p] = es[m + 1][p]
      BY <1>3, <3>1, <3>3 DEF SharesTo
    <3>. QED  BY <3>1, <3>2, <3>4
  <2>. HIDE DEF T
  <2>3. i - j \in Nat /\ j + (i - j) = i
    BY <1>4
  <2>4. i - j \in T
    BY <2>1, <2>2, <2>3, Induct
  <2>. QED  BY <1>4, <2>3, <2>4 DEF T
<1>. QED  BY <1>6, <1>7 DEF t

\* One entry more on the way.
LEMMA SharedFromStep ==
  ASSUME NEW es \in Seq(Bytes), NEW i \in 1..(Len(es) - 1), NEW j \in 1..(i - 1)
  PROVE  \/ SharedFrom(es, i, j - 1) = SharedFrom(es, i, j)
         \/ /\ SharedFrom(es, i, j - 1) = Shared(es, j)
            /\ Shared(es, j) <= SharedFrom(es, i, j)
<1>. DEFINE t == SharedFrom(es, i, j)
            u == SharedFrom(es, i, j - 1)
<1>1. j - 1 \in 0..(i-1) /\ j \in 0..(i-1) /\ (j - 1) + 1 = j /\ j \in j..i
  OBVIOUS
<1>2. /\ t \in Nat /\ \A m \in (j+1)..i : t <= Shared(es, m)
      /\ \E m \in (j+1)..i : t = Shared(es, m)
  BY <1>1, SharedFromIs
<1>3. /\ u \in Nat /\ \A m \in j..i : u <= Shared(es, m)
      /\ \E m \in j..i : u = Shared(es, m)
  BY <1>1, SharedFromIs
<1>. HIDE DEF t, u
<1>4. PICK m \in (j+1)..i : t = Shared(es, m)
  BY <1>2
<1>5. u <= t
  <2>1. m \in j..i
    BY <1>1
  <2>. QED  BY <1>3, <1>4, <2>1
<1>6. PICK k \in j..i : u = Shared(es, k)
  BY <1>3
<1>7. CASE k = j
  BY <1>5, <1>6, <1>7 DEF t, u
<1>8. CASE k # j
  <2>1. k \in (j+1)..i
    BY <1>8
  <2>2. t <= u
    BY <1>2, <1>6, <2>1
  <2>3. t = u
    BY <1>2, <1>3, <1>5, <2>2
  <2>. QED  BY <2>3 DEF t, u
<1>. QED  BY <1>7, <1>8

-----------------------------------------------------------------------------
(* Induction and recursion on a range of numbers.                          *)

\* Induction on the numbers from lo to hi.
LEMMA InductOn ==
  ASSUME NEW lo \in Int, NEW hi \in Int, NEW P, lo \in P,
         \A j \in (lo+1)..hi : j - 1 \in P => j \in P
  PROVE  \A j \in lo..hi : j \in P
<1>. DEFINE T == {n \in Nat : lo + n <= hi => lo + n \in P}
<1>1. 0 \in T
  OBVIOUS
<1>2. ASSUME NEW n \in Nat, n \in T PROVE n + 1 \in T
  <2>. SUFFICES ASSUME lo + (n + 1) <= hi PROVE lo + (n + 1) \in P
    OBVIOUS
  <2>1. lo + (n + 1) \in (lo+1)..hi /\ (lo + (n + 1)) - 1 = lo + n /\ lo + n \in P
    BY <1>2
  <2>. QED  BY <2>1
<1>. HIDE DEF T
<1>3. \A n \in Nat : n \in T
  BY <1>1, <1>2, Induct
<1>4. ASSUME NEW j \in lo..hi PROVE j \in P
  <2>1. j - lo \in Nat /\ lo + (j - lo) = j /\ j <= hi
    OBVIOUS
  <2>. QED  BY <1>3, <2>1 DEF T
<1>. QED  BY <1>4

\* Induction from zero.
LEMMA InductUpTo ==
  ASSUME NEW hi \in Nat, NEW P, 0 \in P, \A j \in 1..hi : j - 1 \in P => j \in P
  PROVE  \A j \in 0..hi : j \in P
<1>. DEFINE zero == 0
<1>1. zero \in Int /\ zero \in P /\ zero + 1 = 1
  OBVIOUS
<1>. HIDE DEF zero
<1>2. \A j \in (zero+1)..hi : j - 1 \in P => j \in P
  BY <1>1
<1>3. \A j \in zero..hi : j \in P
  BY <1>1, <1>2, InductOn
<1>. QED  BY <1>3 DEF zero

\* A recursive function whose j-th value is in G[j].
RunsWithin(f, lo, hi, G, a, g) ==
  /\ f = [j \in lo..hi |-> f[j]]
  /\ f[lo] = a
  /\ \A j \in (lo+1)..hi : f[j] = g[<<j, f[j - 1]>>]
  /\ \A j \in lo..hi : f[j] \in G[j]

\* A recursive function each of whose values is in a set of its own exists.
LEMMA RecursionWithin ==
  ASSUME NEW lo \in Int, NEW hi \in Int, lo <= hi, NEW G, NEW a \in G[lo], NEW g,
         \A j \in (lo+1)..hi : \A v \in G[j - 1] : g[<<j, v>>] \in G[j]
  PROVE  \E f : RunsWithin(f, lo, hi, G, a, g)
<1>. DEFINE V == UNION {G[j] : j \in lo..hi}
            h == [x \in (lo..hi) \X V |->
                    IF x[1] # lo /\ x[2] \in G[x[1] - 1] THEN g[x] ELSE a]
<1>1. \A j \in lo..hi : G[j] \subseteq V
  OBVIOUS
<1>2. a \in V
  BY <1>1
<1>. HIDE DEF V
<1>3. \A j \in lo..hi, v \in V : h[<<j, v>>] = IF j # lo /\ v \in G[j - 1] THEN g[<<j, v>>] ELSE a
  OBVIOUS
<1>4. h \in [(lo..hi) \X V -> V]
  <2>1. ASSUME NEW j \in lo..hi, NEW v \in V PROVE h[<<j, v>>] \in V
    <3>1. j # lo => j \in (lo+1)..hi
      OBVIOUS
    <3>2. j # lo /\ v \in G[j - 1] => g[<<j, v>>] \in V
      BY <1>1, <3>1
    <3>. HIDE DEF h
    <3>. QED  BY <1>2, <1>3, <3>2
  <2>2. h = [x \in (lo..hi) \X V |-> h[x]]
    OBVIOUS
  <2>. HIDE DEF h
  <2>3. \A x \in (lo..hi) \X V : h[x] \in V
    BY <2>1
  <2>. QED  BY <2>2, <2>3
<1>. HIDE DEF h
<1>5. PICK f \in [lo..hi -> V] : RecursesOn(f, lo, hi, a, h)
  BY <1>2, <1>4, RecursionOn
<1>6. lo \in lo..hi /\ \A j \in (lo+1)..hi : j \in lo..hi /\ j # lo /\ j - 1 \in lo..hi
  OBVIOUS
<1>7. f[lo] = a /\ \A j \in (lo+1)..hi : f[j] = h[<<j, f[j - 1]>>]
  BY <1>5, <1>6 DEF RecursesOn
<1>. DEFINE P == {j \in lo..hi : f[j] \in G[j]}
<1>8. lo \in P
  BY <1>6, <1>7
<1>9. ASSUME NEW j \in (lo+1)..hi, f[j - 1] \in G[j - 1]
      PROVE  f[j] = g[<<j, f[j - 1]>>] /\ f[j] \in G[j]
  <2>1. h[<<j, f[j - 1]>>] = g[<<j, f[j - 1]>>]
    BY <1>3, <1>6, <1>9
  <2>. QED  BY <1>7, <1>9, <2>1
<1>10. \A j \in (lo+1)..hi : j - 1 \in P => j \in P
  BY <1>6, <1>9
<1>. HIDE DEF P
<1>11. \A j \in lo..hi : j \in P
  BY <1>8, <1>10, InductOn
<1>12. \A j \in lo..hi : f[j] \in G[j]
  BY <1>11 DEF P
<1>13. \A j \in (lo+1)..hi : f[j] = g[<<j, f[j - 1]>>]
  BY <1>6, <1>9, <1>12
<1>14. f = [j \in lo..hi |-> f[j]]
  OBVIOUS
<1>15. RunsWithin(f, lo, hi, G, a, g)
  BY <1>7, <1>12, <1>13, <1>14 DEF RunsWithin
<1>. QED  BY <1>15

-----------------------------------------------------------------------------
(* Ropes: the slices of earlier entries an entry is put together from.     *)

\* What is flattened of the first sequences begins what is flattened of all.
LEMMA FlattenPrefix ==
  ASSUME NEW D, NEW s \in Seq(Seq(D)), NEW k \in 0..Len(s)
  PROVE  LET p == FlattenSeq(SubSeq(s, 1, k))
             w == FlattenSeq(s)
         IN  /\ p \in Seq(D) /\ w \in Seq(D) /\ Len(p) <= Len(w)
             /\ \A i \in 1..Len(p) : w[i] = p[i]
<1>. DEFINE Part(j) == FlattenSeq(SubSeq(s, 1, j))
            n == Len(s)
<1>1. n \in Nat /\ k \in Nat /\ k <= n /\ n \in k..n
  OBVIOUS
<1>2. \A j \in 0..n : Part(j) \in Seq(D)
  <2>. SUFFICES ASSUME NEW j \in 0..n PROVE Part(j) \in Seq(D)
    OBVIOUS
  <2>1. SubSeq(s, 1, j) \in Seq(Seq(D))
    BY FirstIs
  <2>. QED  BY <2>1, FlattenType
<1>3. \A j \in 1..n : Part(j) = Part(j - 1) \o s[j] /\ s[j] \in Seq(D)
  <2>. SUFFICES ASSUME NEW j \in 1..n PROVE Part(j) = Part(j - 1) \o s[j] /\ s[j] \in Seq(D)
    OBVIOUS
  <2>1. s[j] \in Seq(D)
    OBVIOUS
  <2>. QED  BY <2>1, FlattenFirst
<1>4. SubSeq(s, 1, n) = s
  BY <1>1
<1>. HIDE DEF Part, n
<1>. DEFINE P == {j \in k..n : /\ Len(Part(k)) <= Len(Part(j))
                               /\ \A i \in 1..Len(Part(k)) : Part(j)[i] = Part(k)[i]}
<1>5. k \in P
  <2>1. Part(k) \in Seq(D)
    BY <1>1, <1>2
  <2>2. Len(Part(k)) \in Nat
    BY <2>1
  <2>. QED  BY <1>1, <2>2
<1>6. \A j \in (k+1)..n : j - 1 \in P => j \in P
  <2>. SUFFICES ASSUME NEW j \in (k+1)..n, j - 1 \in P PROVE j \in P
    OBVIOUS
  <2>1. j \in 1..n /\ j - 1 \in 0..n /\ k \in 0..n /\ j \in k..n
    BY <1>1
  <2>2. Part(j - 1) \in Seq(D) /\ Part(k) \in Seq(D) /\ s[j] \in Seq(D)
    BY <1>2, <1>3, <2>1
  <2>3. Part(j) = Part(j - 1) \o s[j]
    BY <1>3, <2>1
  <2>. DEFINE x == Part(j - 1)
              y == s[j]
              z == Part(k)
  <2>4. Len(z) <= Len(x) /\ \A i \in 1..Len(z) : x[i] = z[i]
    OBVIOUS
  <2>. HIDE DEF x, y, z
  <2>5. Len(z) <= Len(x \o y) /\ \A i \in 1..Len(z) : (x \o y)[i] = z[i]
    <3>1. x \in Seq(D) /\ y \in Seq(D) /\ z \in Seq(D)
      BY <2>2 DEF x, y, z
    <3>. QED  BY <2>4, <3>1
  <2>. QED  BY <2>1, <2>3, <2>5 DEF x, y, z
<1>. HIDE DEF P
<1>7. \A j \in k..n : j \in P
  <2>1. k \in Int /\ n \in Int
    BY <1>1
  <2>. QED  BY <2>1, <1>5, <1>6, InductOn, Zenon
<1>8. n \in P
  BY <1>1, <1>7
<1>9. Part(k) \in Seq(D) /\ Part(n) \in Seq(D)
  BY <1>1, <1>2
<1>. QED  BY <1>4, <1>8, <1>9 DEF P, Part, n

\* How many bytes there are in the first k slices of a rope.
BytesIn(rope, k) == SumOf([n \in 1..k |-> Len(rope[n])])

\* The bytes in the first slices of a rope.
LEMMA BytesInIs ==
  ASSUME NEW rope \in Seq(Bytes), NEW k \in 0..Len(rope)
  PROVE  BytesIn(rope, k) = Len(FlattenSeq(SubSeq(rope, 1, k)))
<1>. DEFINE lens == [n \in 1..Len(rope) |-> Len(rope[n])]
            n == Len(rope)
<1>1. n \in Nat /\ \A j \in 1..n : rope[j] \in Seq(Nat)
  BY DEF Bytes
<1>2. lens \in Seq(Nat) /\ Len(lens) = n /\ \A j \in 1..n : lens[j] = Len(rope[j])
  BY <1>1
<1>3. ASSUME NEW j \in 0..n PROVE [m \in 1..j |-> Len(rope[m])] = SubSeq(lens, 1, j)
  <2>. DEFINE q == [m \in 1..j |-> Len(rope[m])]
  <2>1. j \in Nat /\ \A m \in 1..j : m \in 1..n
    OBVIOUS
  <2>2. q \in Seq(Nat) /\ Len(q) = j /\ \A m \in 1..j : q[m] = lens[m]
    BY <1>1, <1>2, <2>1
  <2>. HIDE DEF q, lens
  <2>3. /\ SubSeq(lens, 1, j) \in Seq(Nat) /\ Len(SubSeq(lens, 1, j)) = j
        /\ \A i \in 1..j : SubSeq(lens, 1, j)[i] = lens[i]
    <3>1. j \in 0..Len(lens)
      BY <1>2
    <3>. QED  BY <1>2, <3>1, FirstIs
  <2>4. q = SubSeq(lens, 1, j)
    BY <2>2, <2>3, SeqEqual
  <2>. QED  BY <2>4 DEF q
<1>. HIDE DEF lens
<1>. DEFINE P == {j \in 0..n : SumOf(SubSeq(lens, 1, j)) = Len(FlattenSeq(SubSeq(rope, 1, j)))}
<1>4. 0 \in P
  <2>1. SubSeq(lens, 1, 0) = <<>> /\ SubSeq(rope, 1, 0) = <<>>
    BY <1>1, <1>2
  <2>2. FlattenSeq(SubSeq(rope, 1, 0)) = <<>> /\ SumOf(SubSeq(lens, 1, 0)) = 0 /\ Len(<<>>) = 0
    BY <2>1, FlattenEmpty, SumEmpty
  <2>3. 0 \in 0..n
    BY <1>1
  <2>. QED  BY <2>2, <2>3
<1>5. \A j \in 1..n : j - 1 \in P => j \in P
  <2>. SUFFICES ASSUME NEW j \in 1..n, j - 1 \in P PROVE j \in P
    OBVIOUS
  <2>1. j \in 1..n /\ j - 1 \in 0..n /\ j \in 1..Len(lens) /\ j \in 0..n
    BY <1>1, <1>2
  <2>2. SumOf(SubSeq(lens, 1, j)) = SumOf(SubSeq(lens, 1, j - 1)) + lens[j]
    BY <1>2, <2>1, SumFirst
  <2>3. rope \in Seq(Seq(Nat)) /\ j \in 1..Len(rope)
    BY <2>1 DEF Bytes
  <2>4. FlattenSeq(SubSeq(rope, 1, j)) = FlattenSeq(SubSeq(rope, 1, j - 1)) \o rope[j]
    BY <2>3, FlattenFirst
  <2>5. FlattenSeq(SubSeq(rope, 1, j - 1)) \in Seq(Nat)
    <3>1. SubSeq(rope, 1, j - 1) \in Seq(Seq(Nat))
      <4>1. j - 1 \in 0..Len(rope)
        BY <2>1
      <4>. QED  BY <2>3, <4>1, FirstIs
    <3>. QED  BY <3>1, FlattenType
  <2>6. rope[j] \in Seq(Nat) /\ lens[j] = Len(rope[j])
    BY <1>1, <1>2, <2>1
  <2>7. Len(FlattenSeq(SubSeq(rope, 1, j))) = Len(FlattenSeq(SubSeq(rope, 1, j - 1))) + lens[j]
    <3>. DEFINE x == FlattenSeq(SubSeq(rope, 1, j - 1))
                y == rope[j]
    <3>. HIDE DEF x, y
    <3>1. x \in Seq(Nat) /\ y \in Seq(Nat)
      BY <2>5, <2>6 DEF x, y
    <3>2. Len(x \o y) = Len(x) + Len(y)
      BY <3>1, ConcatProperties
    <3>. QED  BY <2>4, <2>6, <3>2 DEF x, y
  <2>8. SumOf(SubSeq(lens, 1, j - 1)) = Len(FlattenSeq(SubSeq(rope, 1, j - 1)))
    OBVIOUS
  <2>. QED  BY <2>1, <2>2, <2>7, <2>8
<1>. HIDE DEF P
<1>6. \A j \in 0..n : j \in P
  BY <1>1, <1>4, <1>5, InductUpTo
<1>7. SumOf(SubSeq(lens, 1, k)) = Len(FlattenSeq(SubSeq(rope, 1, k)))
  BY <1>6 DEF P
<1>. QED  BY <1>3, <1>7 DEF BytesIn

\* The ropes of a string: only the first slice and the last may be empty.
Ropey(bytes) ==
  {r \in Seq(Bytes) : /\ r # <<>> /\ FlattenSeq(r) = bytes
                      /\ \A k \in 2..(Len(r) - 1) : r[k] # <<>>}

\* Cutting a rope after `shared` bytes and adding a suffix.
LEMMA NextRopeIs ==
  ASSUME NEW bytes \in Bytes, NEW rope \in Ropey(bytes), NEW shared \in 0..Len(bytes),
         NEW suffix \in Bytes
  PROVE  /\ NextRope[<<rope, shared, suffix>>] \in Ropey(SubSeq(bytes, 1, shared) \o suffix)
         /\ Len(NextRope[<<rope, shared, suffix>>]) <= Len(rope) + 1
<1>. DEFINE n == Len(rope)
            cuts == {k \in DOMAIN rope : BytesIn(rope, k) >= shared}
            cut == Min(cuts)
            p == SubSeq(rope, 1, cut - 1)
            end == SubSeq(rope[cut], 1, shared - BytesIn(rope, cut - 1))
            next == p \o <<end, suffix>>
<1>1. NextRope[<<rope, shared, suffix>>] = next
  <2>1. <<rope, shared, suffix>> \in Seq(Seq(Nat)) \X Nat \X Seq(Nat)
    BY DEF Bytes, Ropey
  <2>. QED  BY <2>1 DEF NextRope, BytesIn, CutAt
<1>2. /\ rope \in Seq(Bytes) /\ rope \in Seq(Seq(Nat)) /\ n \in Nat \ {0} /\ DOMAIN rope = 1..n
      /\ FlattenSeq(rope) = bytes /\ shared \in Nat /\ Len(bytes) \in Nat
      /\ shared <= Len(bytes)
  BY DEF Bytes, Ropey
<1>. DEFINE Part(k) == FlattenSeq(SubSeq(rope, 1, k))
<1>3. \A k \in 0..n : BytesIn(rope, k) = Len(Part(k)) /\ Part(k) \in Seq(Nat)
  <2>. SUFFICES ASSUME NEW k \in 0..n
                PROVE  BytesIn(rope, k) = Len(Part(k)) /\ Part(k) \in Seq(Nat)
    OBVIOUS
  <2>. QED  BY <1>2, BytesInIs, FlattenPrefix
<1>4. \A k \in 1..n : Part(k) = Part(k - 1) \o rope[k] /\ rope[k] \in Seq(Nat)
  <2>. SUFFICES ASSUME NEW k \in 1..n
                PROVE  Part(k) = Part(k - 1) \o rope[k] /\ rope[k] \in Seq(Nat)
    OBVIOUS
  <2>1. rope[k] \in Seq(Nat)
    BY <1>2
  <2>. QED  BY <1>2, <2>1, FlattenFirst
<1>5. \A k \in 0..n : /\ Len(Part(k)) <= Len(bytes)
                      /\ \A i \in 1..Len(Part(k)) : bytes[i] = Part(k)[i]
  <2>. SUFFICES ASSUME NEW k \in 0..n
                PROVE  /\ Len(Part(k)) <= Len(bytes)
                       /\ \A i \in 1..Len(Part(k)) : bytes[i] = Part(k)[i]
    OBVIOUS
  <2>. QED  BY <1>2, FlattenPrefix
<1>6. Part(n) = bytes
  <2>1. SubSeq(rope, 1, n) = rope
    BY <1>2
  <2>. QED  BY <1>2, <2>1
<1>7. Part(0) = <<>>
  <2>1. SubSeq(rope, 1, 0) = <<>>
    BY <1>2
  <2>. QED  BY <2>1, FlattenEmpty
<1>8. /\ cut \in 1..n /\ BytesIn(rope, cut) >= shared
      /\ \A k \in 1..n : BytesIn(rope, k) >= shared => cut <= k
  <2>1. n \in cuts
    <3>1. n \in 0..n /\ n \in 1..n
      BY <1>2
    <3>2. BytesIn(rope, n) = Len(bytes)
      BY <1>3, <1>6, <3>1
    <3>. QED  BY <1>2, <3>1, <3>2
  <2>2. cuts \in SUBSET Nat
    BY <1>2
  <2>3. \A k \in 1..n : BytesIn(rope, k) >= shared => k \in cuts
    BY <1>2
  <2>4. \A k \in cuts : k \in 1..n /\ BytesIn(rope, k) >= shared
    BY <1>2
  <2>. HIDE DEF cuts
  <2>5. cut \in cuts /\ \A k \in cuts : cut <= k
    BY <2>1, <2>2, MinIs
  <2>. QED  BY <2>3, <2>4, <2>5
<1>. HIDE DEF cuts, cut, Part
<1>. DEFINE a == Part(cut - 1)
            y == rope[cut]
            m == shared - Len(a)
<1>9. cut - 1 \in 0..n /\ cut \in 0..n
  BY <1>2, <1>8
<1>10. a \in Seq(Nat) /\ y \in Seq(Nat) /\ Part(cut) = a \o y /\ Len(a) \in Nat /\ Len(y) \in Nat
  <2>1. a \in Seq(Nat) /\ y \in Seq(Nat) /\ Part(cut) = a \o y
    BY <1>3, <1>4, <1>8, <1>9
  <2>. HIDE DEF a, y
  <2>. QED  BY <2>1
<1>11. Len(a) <= shared
  <2>1. CASE cut = 1
    <3>1. cut - 1 = 0 /\ Len(<<>>) = 0
      BY <2>1
    <3>. QED  BY <1>2, <1>7, <3>1
  <2>2. CASE cut # 1
    <3>1. cut - 1 \in 1..n /\ ~(cut <= cut - 1)
      BY <1>8, <2>2
    <3>2. ~(BytesIn(rope, cut - 1) >= shared)
      BY <1>8, <3>1
    <3>3. BytesIn(rope, cut - 1) = Len(a)
      BY <1>3, <1>9
    <3>. QED  BY <1>2, <1>10, <3>2, <3>3
  <2>. QED  BY <2>1, <2>2
<1>12. shared <= Len(a) + Len(y)
  <2>1. Len(Part(cut)) >= shared
    BY <1>3, <1>8, <1>9
  <2>2. Len(a \o y) = Len(a) + Len(y)
    BY <1>10, ConcatProperties
  <2>. QED  BY <1>10, <2>1, <2>2
<1>13. m \in 0..Len(y) /\ m = shared - BytesIn(rope, cut - 1)
  <2>1. BytesIn(rope, cut - 1) = Len(a)
    BY <1>3, <1>9
  <2>2. Len(a) \in Nat /\ Len(y) \in Nat
    BY <1>10
  <2>. DEFINE l == Len(a)
              h == Len(y)
  <2>3. shared \in Nat /\ l \in Nat /\ h \in Nat /\ l <= shared /\ shared <= l + h
    BY <1>2, <1>11, <1>12, <2>2
  <2>. HIDE DEF l, h
  <2>4. shared - l \in 0..h
    BY <2>3
  <2>. QED  BY <2>1, <2>4 DEF l, h
<1>14. end = SubSeq(y, 1, m)
  BY <1>13
<1>15. end \in Seq(Nat) /\ Len(end) = m /\ \A i \in 1..m : end[i] = y[i]
  <2>. HIDE DEF end, y, m
  <2>. QED  BY <1>10, <1>13, <1>14, FirstIs
<1>16. p \in Seq(Seq(Nat)) /\ FlattenSeq(p) = a
  <2>1. p \in Seq(Seq(Nat))
    <3>1. cut - 1 \in 0..Len(rope)
      BY <1>9
    <3>. QED  BY <1>2, <3>1, FirstIs
  <2>. QED  BY <2>1 DEF Part
<1>17. suffix \in Seq(Nat)
  BY DEF Bytes
<1>. HIDE DEF p, end
<1>18. next = Append(Append(p, end), suffix)
  BY <1>15, <1>16, <1>17
<1>19. Append(p, end) \in Seq(Seq(Nat)) /\ FlattenSeq(Append(p, end)) = a \o end
  <2>1. FlattenSeq(Append(p, end)) = FlattenSeq(p) \o end
    BY <1>15, <1>16, FlattenAppend
  <2>. QED  BY <1>15, <1>16, <2>1
<1>20. next \in Seq(Seq(Nat)) /\ next # <<>> /\ FlattenSeq(next) = (a \o end) \o suffix
  <2>. DEFINE q == Append(p, end)
  <2>. HIDE DEF q
  <2>1. q \in Seq(Seq(Nat)) /\ FlattenSeq(q) = a \o end /\ next = Append(q, suffix)
    BY <1>18, <1>19 DEF q
  <2>2. FlattenSeq(Append(q, suffix)) = FlattenSeq(q) \o suffix
    BY <1>17, <2>1, FlattenAppend
  <2>3. Append(q, suffix) \in Seq(Seq(Nat)) /\ Append(q, suffix) # <<>>
    BY <1>17, <2>1
  <2>. QED  BY <2>1, <2>2, <2>3
<1>21. a \o end = SubSeq(bytes, 1, shared)
  <2>1. bytes \in Seq(Nat) /\ shared \in 0..Len(bytes)
    BY DEF Bytes
  <2>. DEFINE first == SubSeq(bytes, 1, shared)
  <2>2. first \in Seq(Nat) /\ Len(first) = shared /\ \A i \in 1..shared : first[i] = bytes[i]
    BY <2>1, FirstIs
  <2>. HIDE DEF first
  <2>3. a \o end \in Seq(Nat) /\ Len(a \o end) = shared
    BY <1>2, <1>10, <1>13, <1>15
  <2>4. ASSUME NEW i \in 1..shared PROVE (a \o end)[i] = (a \o y)[i]
    <3>. HIDE DEF a, y
    <3>. QED  BY <1>2, <1>10, <1>13, <1>15, <2>4
  <2>5. ASSUME NEW i \in 1..shared PROVE (a \o y)[i] = bytes[i]
    <3>1. i \in 1..Len(Part(cut))
      <4>1. Len(a \o y) = Len(a) + Len(y)
        BY <1>10, ConcatProperties
      <4>. HIDE DEF a, y
      <4>. QED  BY <1>2, <1>10, <1>12, <4>1
    <3>. QED  BY <1>5, <1>9, <1>10, <3>1
  <2>6. \A i \in 1..shared : (a \o end)[i] = first[i]
    BY <2>2, <2>4, <2>5
  <2>7. a \o end = first
    BY <2>2, <2>3, <2>6, SeqEqual
  <2>. QED  BY <2>7 DEF first
<1>22. /\ Len(p) = cut - 1 /\ Len(next) = cut + 1
       /\ \A k \in 1..(cut - 1) : p[k] = rope[k] /\ next[k] = p[k]
       /\ next[cut] = end
  <2>1. Len(p) = cut - 1 /\ \A k \in 1..(cut - 1) : p[k] = rope[k]
    <3>1. cut - 1 \in 0..Len(rope)
      BY <1>9
    <3>. QED  BY <1>2, <3>1, FirstIs DEF p
  <2>. DEFINE q == Append(p, end)
  <2>2. /\ q \in Seq(Seq(Nat)) /\ Len(q) = cut /\ q[cut] = end
        /\ \A k \in 1..(cut - 1) : q[k] = p[k]
    BY <1>8, <1>15, <1>16, <2>1
  <2>. HIDE DEF q
  <2>3. next = Append(q, suffix)
    BY <1>18 DEF q
  <2>. HIDE DEF next
  <2>4. Len(next) = cut + 1 /\ \A k \in 1..cut : next[k] = q[k]
    BY <1>8, <1>17, <2>2, <2>3
  <2>. QED  BY <1>8, <2>1, <2>2, <2>4
<1>23. Len(next) <= Len(rope) + 1
  BY <1>2, <1>8, <1>22
<1>24. ASSUME NEW k \in 2..(Len(next) - 1) PROVE next[k] # <<>>
  <2>1. CASE k <= cut - 1
    <3>1. k \in 2..(Len(rope) - 1) /\ k \in 1..(cut - 1)
      BY <1>2, <1>8, <2>1
    <3>2. rope[k] # <<>>
      BY <3>1 DEF Ropey
    <3>. QED  BY <1>22, <3>1, <3>2
  <2>2. CASE ~(k <= cut - 1)
    <3>1. k = cut /\ cut - 1 \in 1..n /\ ~(cut <= cut - 1)
      BY <1>8, <1>22, <2>2
    <3>2. ~(BytesIn(rope, cut - 1) >= shared) /\ BytesIn(rope, cut - 1) = Len(a)
      BY <1>3, <1>8, <1>9, <3>1
    <3>3. m >= 1
      BY <1>2, <1>10, <3>2
    <3>4. Len(end) >= 1
      BY <1>15, <3>3
    <3>5. Len(<<>>) = 0
      OBVIOUS
    <3>. QED  BY <1>22, <3>1, <3>4, <3>5
  <2>. QED  BY <1>2, <1>8, <2>1, <2>2
<1>25. next \in Ropey(SubSeq(bytes, 1, shared) \o suffix)
  BY <1>20, <1>21, <1>24 DEF Ropey, Bytes
<1>. QED  BY <1>1, <1>23, <1>25

\* What is shared and what follows it make up the string.
LEMMA JoinIs ==
  ASSUME NEW a \in Bytes, NEW b \in Bytes, NEW k \in Nat, k <= Len(a), k <= Len(b),
         \A i \in 1..k : a[i] = b[i]
  PROVE  SubSeq(a, 1, k) \o After(b, k) = b
<1>1. a \in Seq(Nat) /\ b \in Seq(Nat) /\ Len(a) \in Nat /\ Len(b) \in Nat
      /\ k \in 0..Len(a) /\ k \in 0..Len(b)
  BY DEF Bytes
<1>. DEFINE p == SubSeq(a, 1, k)
            q == After(b, k)
<1>2. p \in Seq(Nat) /\ Len(p) = k /\ \A i \in 1..k : p[i] = a[i]
  BY <1>1, FirstIs
<1>3. q \in Seq(Nat) /\ Len(q) = Len(b) - k /\ \A i \in 1..(Len(b) - k) : q[i] = b[k + i]
  BY <1>1, AfterIs
<1>. HIDE DEF p, q
<1>4. /\ p \o q \in Seq(Nat) /\ Len(p \o q) = Len(p) + Len(q)
      /\ \A i \in 1..(Len(p) + Len(q)) :
           (p \o q)[i] = IF i <= Len(p) THEN p[i] ELSE q[i - Len(p)]
  BY <1>2, <1>3, ConcatProperties
<1>5. ASSUME NEW i \in 1..Len(b) PROVE (p \o q)[i] = b[i]
  <2>1. CASE i <= k
    <3>1. i \in 1..k /\ i \in 1..(Len(p) + Len(q))
      BY <1>1, <1>2, <1>3, <2>1
    <3>2. (p \o q)[i] = p[i]
      BY <1>2, <1>4, <2>1, <3>1
    <3>. QED  BY <1>2, <3>1, <3>2
  <2>2. CASE ~(i <= k)
    <3>1. i - k \in 1..(Len(b) - k) /\ k + (i - k) = i
      BY <1>1, <2>2
    <3>. QED  BY SMTT(30), <1>1, <1>2, <1>3, <1>4, <2>2, <3>1
  <2>. QED  BY <2>1, <2>2
<1>6. Len(p \o q) = Len(b)
  BY <1>1, <1>2, <1>3, <1>4
<1>7. p \o q = b
  BY <1>1, <1>4, <1>5, <1>6, SeqEqual
<1>. QED  BY <1>7 DEF p, q

RopesOf(r, b) ==
  r = [i \in 0..(b.num-1) |->
         IF i = 0 THEN <<b.head>>
         ELSE NextRope[<<r[i - 1], Shareds(b)[i], SuffixOf(b, i)>>]]

\* Iterating over a block gives the entries it was built from.
LEMMA RopesAre ==
  ASSUME NEW recordSize, NEW es, Fits(recordSize, es)
  PROVE  \A i \in 0..(Len(es) - 1) :
           /\ FlattenSeq(Ropes(BuildBlock(recordSize, es))[i]) = es[i + 1]
           /\ Ropes(BuildBlock(recordSize, es))[i] \in Ropey(es[i + 1])
           /\ Len(Ropes(BuildBlock(recordSize, es))[i]) <= i + 1
<1>. DEFINE b == BuildBlock(recordSize, es)
            last == Len(es) - 1
            G == [i \in 0..last |-> {r \in Ropey(es[i + 1]) : Len(r) <= i + 1}]
            a == <<b.head>>
            Step(j, v) == NextRope[<<v, Shareds(b)[j], SuffixOf(b, j)>>]
            g == [x \in (0..last) \X Seq(Bytes) |-> Step(x[1], x[2])]
<1>1. es \in Seq(Bytes) /\ last \in Nat /\ b.num - 1 = last /\ last <= BlockSize - 1
  <2>1. b.num = Len(es) /\ Len(es) \in Nat
    BY BlockHeader DEF Fits
  <2>. QED  BY <2>1, BlockSizeAssumption DEF Fits
<1>2. ASSUME NEW j \in 1..last, NEW v \in Ropey(es[j])
      PROVE  Step(j, v) \in Ropey(es[j + 1]) /\ Len(Step(j, v)) <= Len(v) + 1
  <2>1. j \in 1..(BlockSize - 1) /\ j < Len(es) /\ j \in 1..(Len(es) - 1)
    BY <1>1, BlockSizeAssumption
  <2>2. Shareds(b)[j] = Shared(es, j) /\ SuffixOf(b, j) = After(es[j + 1], Shared(es, j))
    BY <2>1, BlockIs, SuffixIs
  <2>3. /\ es[j] \in Bytes /\ es[j + 1] \in Bytes /\ SharesTo(es[j], es[j + 1], Shared(es, j))
        /\ Shared(es, j) \in 0..Len(es[j]) /\ Shared(es, j) \in 0..Len(es[j + 1])
    BY <1>1, <2>1, SharedIs
  <2>. DEFINE k == Shared(es, j)
              x == es[j]
              y == es[j + 1]
  <2>4. After(y, k) \in Bytes
    BY <2>3, AfterIs DEF Bytes
  <2>5. k \in Nat /\ k <= Len(x) /\ k <= Len(y) /\ \A i \in 1..k : x[i] = y[i]
    BY <2>3 DEF SharesTo
  <2>. HIDE DEF k, x, y
  <2>6. SubSeq(x, 1, k) \o After(y, k) = y
    <3>1. x \in Bytes /\ y \in Bytes
      BY <2>3 DEF x, y
    <3>. QED  BY <2>5, <3>1, JoinIs
  <2>7. /\ NextRope[<<v, k, After(y, k)>>] \in Ropey(SubSeq(x, 1, k) \o After(y, k))
        /\ Len(NextRope[<<v, k, After(y, k)>>]) <= Len(v) + 1
    <3>1. x \in Bytes /\ k \in 0..Len(x) /\ v \in Ropey(x)
      BY <2>3 DEF x, k
    <3>. QED  BY <2>4, <3>1, NextRopeIs
  <2>. QED  BY <2>2, <2>6, <2>7 DEF x, y, k
<1>3. a \in Ropey(es[1]) /\ Len(a) = 1
  <2>1. b.head = es[1] /\ es[1] \in Bytes
    BY BlockHeader
  <2>2. FlattenSeq(<<es[1]>>) = es[1]
    BY <2>1, FlattenOne DEF Bytes
  <2>. QED  BY <2>1, <2>2 DEF Ropey
<1>4. \A j \in 0..last : G[j] = {r \in Ropey(es[j + 1]) : Len(r) <= j + 1}
  OBVIOUS
<1>5. \A j \in 0..last : \A v \in Seq(Bytes) : g[<<j, v>>] = Step(j, v)
  OBVIOUS
<1>6. \A j \in 1..last : j \in 0..last /\ j - 1 \in 0..last /\ (j - 1) + 1 = j
  BY <1>1
<1>7. 0 \in 0..last /\ a \in G[0]
  <2>1. 0 \in 0..last /\ 0 + 1 = 1
    BY <1>1
  <2>. QED  BY <1>3, <1>4, <2>1
<1>8. \A s, v : v \in Ropey(s) => v \in Seq(Bytes)
  BY DEF Ropey
<1>. HIDE DEF G, g, a, b, last, Step
<1>9. \A j \in 1..last : \A v \in G[j - 1] : g[<<j, v>>] \in G[j]
  <2>. SUFFICES ASSUME NEW j \in 1..last, NEW v \in G[j - 1] PROVE g[<<j, v>>] \in G[j]
    OBVIOUS
  <2>1. j \in 0..last /\ j - 1 \in 0..last /\ (j - 1) + 1 = j
    BY <1>6
  <2>2. v \in Ropey(es[j]) /\ v \in Seq(Bytes) /\ Len(v) <= j
    BY <1>4, <1>8, <2>1
  <2>3. Step(j, v) \in {r \in Ropey(es[j + 1]) : Len(r) <= j + 1}
    <3>1. Step(j, v) \in Ropey(es[j + 1]) /\ Len(Step(j, v)) <= Len(v) + 1
      BY <1>2, <2>2
    <3>2. Len(v) \in Nat /\ Len(Step(j, v)) \in Nat
      <4>1. Step(j, v) \in Seq(Bytes)
        BY <1>8, <3>1
      <4>. QED  BY <2>2, <4>1
    <3>. QED  BY <2>2, <3>1, <3>2
  <2>4. g[<<j, v>>] = Step(j, v)
    BY <1>5, <2>1, <2>2
  <2>. QED  BY <1>4, <2>1, <2>3, <2>4
<1>10. \E f : RopesOf(f, b)
  <2>. DEFINE zero == 0
  <2>1. zero \in Int /\ zero <= last /\ last \in Int /\ zero + 1 = 1 /\ a \in G[zero]
    BY <1>1, <1>7
  <2>. HIDE DEF zero
  <2>2. \A j \in (zero+1)..last : \A v \in G[j - 1] : g[<<j, v>>] \in G[j]
    BY <1>9, <2>1
  <2>3. PICK f : RunsWithin(f, zero, last, G, a, g)
    BY <2>1, <2>2, RecursionWithin
  <2>4. /\ f = [j \in 0..last |-> f[j]] /\ f[0] = a
        /\ \A j \in 1..last : f[j] = g[<<j, f[j - 1]>>]
        /\ \A j \in 0..last : f[j] \in G[j]
    BY <2>1, <2>3 DEF RunsWithin, zero
  <2>5. \A j \in 1..last : f[j] = Step(j, f[j - 1])
    <3>. SUFFICES ASSUME NEW j \in 1..last PROVE f[j] = Step(j, f[j - 1])
      OBVIOUS
    <3>1. j \in 0..last /\ j - 1 \in 0..last /\ f[j - 1] \in G[j - 1]
      BY <1>6, <2>4
    <3>2. f[j - 1] \in Seq(Bytes)
      BY <1>4, <1>8, <3>1
    <3>3. g[<<j, f[j - 1]>>] = Step(j, f[j - 1])
      BY <1>5, <3>1, <3>2
    <3>. QED  BY <2>4, <3>3
  <2>6. \A j \in 0..last : f[j] = IF j = 0 THEN a ELSE Step(j, f[j - 1])
    <3>1. \A j \in 0..last : j # 0 => j \in 1..last
      BY <1>1
    <3>. QED  BY <2>4, <2>5, <3>1
  <2>7. f = [j \in 0..last |-> IF j = 0 THEN a ELSE Step(j, f[j - 1])]
    BY <2>4, <2>6
  <2>8. RopesOf(f, b)
    BY <1>1, <2>7 DEF RopesOf, a, Step
  <2>. QED  BY <2>8
<1>. DEFINE f == CHOOSE f : RopesOf(f, b)
<1>11. RopesOf(f, b)
  BY <1>10
<1>12. Ropes(b) = f
  BY DEF Ropes, RopesOf
<1>. HIDE DEF f
<1>13. f[0] = a /\ \A j \in 1..last : f[j] = Step(j, f[j - 1])
  <2>1. f = [j \in 0..last |-> IF j = 0 THEN a ELSE Step(j, f[j - 1])]
    BY <1>1, <1>11 DEF RopesOf, a, Step
  <2>2. \A j \in 1..last : j # 0
    BY <1>1
  <2>. QED  BY <1>6, <1>7, <2>1, <2>2
<1>. DEFINE P == {j \in 0..last : f[j] \in G[j]}
<1>14. 0 \in P
  BY <1>7, <1>13
<1>15. \A j \in 1..last : j - 1 \in P => j \in P
  <2>. SUFFICES ASSUME NEW j \in 1..last, f[j - 1] \in G[j - 1] PROVE f[j] \in G[j]
    BY <1>6
  <2>1. f[j - 1] \in Seq(Bytes) /\ j \in 0..last /\ j - 1 \in 0..last
    BY <1>4, <1>6, <1>8
  <2>2. g[<<j, f[j - 1]>>] = f[j]
    BY <1>5, <1>13, <2>1
  <2>. QED  BY <1>9, <2>2
<1>. HIDE DEF P
<1>16. \A j \in 0..last : j \in P
  BY <1>1, <1>14, <1>15, InductUpTo
<1>17. \A j \in 0..last : /\ FlattenSeq(f[j]) = es[j + 1] /\ f[j] \in Ropey(es[j + 1])
                         /\ Len(f[j]) <= j + 1
  BY <1>4, <1>16 DEF P, Ropey
<1>. QED  BY <1>12, <1>17 DEF b, last

-----------------------------------------------------------------------------
(* Entries, read one at a time.                                            *)

\* The bytes from u to t after those up to u.
LEMMA SliceStep ==
  ASSUME NEW e \in Bytes, NEW w \in Bytes, NEW u \in Nat, NEW t \in Nat,
         u <= t, t <= Len(e), t <= Len(w), \A i \in 1..t : e[i] = w[i]
  PROVE  /\ SubSeq(After(e, u), 1, t - u) \in Bytes
         /\ SubSeq(w, 1, u) \o SubSeq(After(e, u), 1, t - u) = SubSeq(w, 1, t)
<1>1. e \in Seq(Nat) /\ w \in Seq(Nat) /\ Len(e) \in Nat /\ Len(w) \in Nat
      /\ u \in 0..Len(e) /\ u \in 0..Len(w) /\ t \in 0..Len(w) /\ t - u \in Nat
  BY DEF Bytes
<1>. DEFINE x == After(e, u)
            p == SubSeq(w, 1, u)
            q == SubSeq(x, 1, t - u)
            r == SubSeq(w, 1, t)
<1>2. x \in Seq(Nat) /\ Len(x) = Len(e) - u /\ \A i \in 1..(Len(e) - u) : x[i] = e[u + i]
  BY <1>1, AfterIs
<1>3. p \in Seq(Nat) /\ Len(p) = u /\ \A i \in 1..u : p[i] = w[i]
  BY <1>1, FirstIs
<1>4. r \in Seq(Nat) /\ Len(r) = t /\ \A i \in 1..t : r[i] = w[i]
  BY <1>1, FirstIs
<1>. HIDE DEF x, p, r
<1>5. q \in Seq(Nat) /\ Len(q) = t - u /\ \A i \in 1..(t - u) : q[i] = x[i]
  <2>1. t - u \in 0..Len(x)
    BY <1>1, <1>2
  <2>. QED  BY <1>2, <2>1, FirstIs
<1>. HIDE DEF q
<1>6. /\ p \o q \in Seq(Nat) /\ Len(p \o q) = t
      /\ \A i \in 1..t : (p \o q)[i] = IF i <= u THEN p[i] ELSE q[i - u]
  <2>1. Len(p) + Len(q) = t
    BY <1>1, <1>3, <1>5
  <2>. QED  BY <1>3, <1>5, <2>1, ConcatProperties
<1>7. ASSUME NEW i \in 1..t PROVE (p \o q)[i] = r[i]
  <2>1. CASE i <= u
    <3>1. i \in 1..u
      BY <1>1, <2>1
    <3>. QED  BY <1>3, <1>4, <1>6, <2>1, <3>1
  <2>2. CASE ~(i <= u)
    <3>1. i - u \in 1..(t - u) /\ i - u \in 1..(Len(e) - u) /\ u + (i - u) = i
      BY <1>1, <2>2
    <3>2. q[i - u] = e[i]
      BY <1>2, <1>5, <3>1
    <3>. QED  BY <1>4, <1>6, <2>2, <3>2
  <2>. QED  BY <2>1, <2>2
<1>8. p \o q = r
  BY <1>1, <1>4, <1>6, <1>7, SeqEqual
<1>. QED  BY <1>5, <1>8 DEF Bytes, p, q, r, x

TakenBy(b, i, j) == IF j < Start(b, i) THEN 0 ELSE TakenUpTo(b, i, j)
SliceBy(b, i, j) ==
  SubSeq(IF j = 0 THEN b.head ELSE SuffixOf(b, j), 1, TakenBy(b, i, j) - TakenBy(b, i, j - 1))
SlicesOf(f, b, i) ==
  f = [j \in (Start(b, i)-1)..(i-1) |->
         IF j = Start(b, i) - 1 THEN <<>>
         ELSE IF SliceBy(b, i, j) = <<>> THEN f[j - 1]
         ELSE Append(f[j - 1], SliceBy(b, i, j))]

Spelling(bytes) == {q \in Seq(Bytes) : FlattenSeq(q) = bytes}

\* What an entry has taken of each one before it.
LEMMA TakenIs ==
  ASSUME NEW recordSize, NEW es, Fits(recordSize, es), NEW i \in 1..(Len(es) - 1)
  PROVE  LET b == BuildBlock(recordSize, es)
         IN  /\ Start(b, i) \in 0..i
             /\ Start(b, i) # 0 => Shared(es, Start(b, i)) = 0
             /\ \A j \in 0..(i - 1) : j >= Start(b, i) => TakenBy(b, i, j) = SharedFrom(es, i, j)
             /\ TakenBy(b, i, Start(b, i) - 1) = 0
<1>. DEFINE b == BuildBlock(recordSize, es)
            T == {0} \union {s \in 1..i : Shareds(b)[s] = 0}
            start == Max(T)
<1>1. /\ es \in Seq(Bytes) /\ Len(es) \in Nat /\ Len(es) <= BlockSize /\ BlockSize \in Nat
  BY BlockSizeAssumption DEF Fits
<1>2. \A m \in 1..i : Shareds(b)[m] = Shared(es, m)
  <2>. SUFFICES ASSUME NEW m \in 1..i PROVE Shareds(b)[m] = Shared(es, m)
    OBVIOUS
  <2>1. m \in 1..(BlockSize - 1) /\ m < Len(es)
    BY <1>1
  <2>. QED  BY <2>1, BlockIs
<1>3. start \in T
  <2>1. T \in SUBSET Nat /\ T # {} /\ i \in Nat /\ \A n \in T : n <= i
    BY <1>1
  <2>. HIDE DEF T
  <2>. QED  BY <2>1, MaxIs
<1>4. Start(b, i) = start
  BY DEF Start
<1>5. start \in 0..i /\ (start # 0 => Shareds(b)[start] = 0 /\ start \in 1..i)
  <2>1. 0 \in 0..i /\ \A s \in 1..i : s \in 0..i
    BY <1>1
  <2>2. \A n \in T : n = 0 \/ (n \in 1..i /\ Shareds(b)[n] = 0)
    <3>. HIDE DEF b
    <3>. SUFFICES ASSUME NEW n \in T PROVE n = 0 \/ (n \in 1..i /\ Shareds(b)[n] = 0)
      OBVIOUS
    <3>1. n \in {0} \/ n \in {s \in 1..i : Shareds(b)[s] = 0}
      OBVIOUS
    <3>. QED  BY <3>1
  <2>. HIDE DEF T
  <2>. QED  BY <1>3, <2>1, <2>2
<1>. HIDE DEF b, T, start
<1>6. ASSUME NEW j \in 0..(i - 1), j >= start PROVE TakenBy(b, i, j) = SharedFrom(es, i, j)
  <2>1. ~(j < start)
    BY <1>5, <1>6
  <2>2. \A m \in (j+1)..i : m \in 1..i
    BY <1>1
  <2>3. {Shareds(b)[m] : m \in (j+1)..i} = {Shared(es, m) : m \in (j+1)..i}
    BY <1>2, <2>2
  <2>. QED  BY <1>4, <2>1, <2>3 DEF TakenBy, TakenUpTo, SharedFrom
<1>7. TakenBy(b, i, start - 1) = 0
  BY <1>4, <1>5 DEF TakenBy
<1>. QED  BY <1>2, <1>4, <1>5, <1>6, <1>7 DEF b

\* The slice of one entry, behind the bytes before it.
LEMMA SliceOfEntry ==
  ASSUME NEW recordSize, NEW es, Fits(recordSize, es), NEW i \in 1..(Len(es) - 1),
         NEW j \in Start(BuildBlock(recordSize, es), i)..(i - 1)
  PROVE  LET b == BuildBlock(recordSize, es)
             w == es[i + 1]
         IN  /\ SliceBy(b, i, j) \in Bytes
             /\ SubSeq(w, 1, TakenBy(b, i, j - 1)) \o SliceBy(b, i, j)
                  = SubSeq(w, 1, TakenBy(b, i, j))
<1>. DEFINE b == BuildBlock(recordSize, es)
            start == Start(b, i)
            w == es[i + 1]
            e == es[j + 1]
            t == TakenBy(b, i, j)
            u == TakenBy(b, i, j - 1)
            x == IF j = 0 THEN b.head ELSE SuffixOf(b, j)
<1>1. /\ es \in Seq(Bytes) /\ Len(es) \in Nat /\ Len(es) <= BlockSize /\ BlockSize \in Nat
  BY BlockSizeAssumption DEF Fits
<1>2. /\ start \in 0..i
      /\ start # 0 => Shared(es, start) = 0
      /\ \A k \in 0..(i - 1) : k >= start => TakenBy(b, i, k) = SharedFrom(es, i, k)
      /\ TakenBy(b, i, start - 1) = 0
  BY TakenIs
<1>. HIDE DEF b, start
<1>3. j \in start..(i - 1)
  BY DEF b, start
<1>4. j \in 0..(i - 1) /\ j >= start /\ j \in Nat /\ i \in Nat /\ start \in Nat
  BY <1>1, <1>2, <1>3
<1>5. t = SharedFrom(es, i, j)
  BY <1>2, <1>4
<1>6. /\ t \in Nat /\ t <= Len(e) /\ t <= Len(w) /\ \A p \in 1..t : e[p] = w[p]
  BY <1>1, <1>4, <1>5, SharedFromIs, SharedFromBytes
<1>7. e \in Bytes /\ w \in Bytes /\ Len(e) \in Nat /\ Len(w) \in Nat
  <2>1. e \in Bytes /\ w \in Bytes
    BY <1>1, <1>4
  <2>. QED  BY <2>1 DEF Bytes
<1>8. x = IF j = 0 THEN After(e, 0) ELSE After(e, Shared(es, j))
  <2>1. CASE j = 0
    <3>1. b.head = es[1] /\ j + 1 = 1
      BY <2>1, BlockHeader DEF b
    <3>2. After(e, 0) = e
      <4>1. 0 + 1 = 1 /\ SubSeq(e, 1, Len(e)) = e
        BY <1>7 DEF Bytes
      <4>. QED  BY <4>1 DEF After
    <3>. QED  BY <2>1, <3>1, <3>2
  <2>2. CASE j # 0
    <3>1. j \in 1..(BlockSize - 1) /\ j < Len(es)
      BY <1>1, <1>4, <2>2
    <3>2. SuffixOf(b, j) = After(e, Shared(es, j))
      BY <3>1, SuffixIs DEF b
    <3>. QED  BY <2>2, <3>2
  <2>. QED  BY <2>1, <2>2
<1>9. SliceBy(b, i, j) = SubSeq(x, 1, t - u)
  BY DEF SliceBy
<1>. HIDE DEF x, e, w
<1>10. CASE u \in Nat /\ u <= t /\ x = After(e, u)
  <2>. HIDE DEF t, u
  <2>1. /\ SubSeq(After(e, u), 1, t - u) \in Bytes
        /\ SubSeq(w, 1, u) \o SubSeq(After(e, u), 1, t - u) = SubSeq(w, 1, t)
    BY <1>6, <1>7, <1>10, SliceStep
  <2>2. SliceBy(b, i, j) = SubSeq(After(e, u), 1, t - u)
    BY <1>9, <1>10
  <2>. QED  BY <2>1, <2>2 DEF b, w, t, u
<1>11. CASE u = t /\ j # 0
  <2>1. t - u = 0 /\ x \in Seq(Nat)
    <3>1. j \in 1..(Len(es) - 1)
      BY <1>1, <1>4, <1>11
    <3>2. Shared(es, j) \in 0..Len(e)
      BY <1>1, <3>1, SharedIs DEF e
    <3>3. After(e, Shared(es, j)) \in Seq(Nat)
      BY <1>7, <3>2, AfterIs DEF Bytes
    <3>. QED  BY <1>6, <1>8, <1>11, <3>3
  <2>2. SubSeq(x, 1, 0) = <<>>
    BY <2>1
  <2>3. SliceBy(b, i, j) = <<>>
    BY <1>9, <2>1, <2>2
  <2>4. SubSeq(w, 1, t) \in Seq(Nat)
    <3>1. t \in 0..Len(w)
      BY <1>6, <1>7
    <3>. QED  BY <1>7, <3>1, FirstIs DEF Bytes
  <2>5. SubSeq(w, 1, t) \o <<>> = SubSeq(w, 1, t) /\ <<>> \in Bytes
    BY <2>4 DEF Bytes
  <2>. QED  BY <1>11, <2>3, <2>5 DEF b, w, t, u
<1>12. CASE j = start
  <2>1. u = 0
    BY <1>2, <1>12
  <2>2. x = After(e, 0)
    BY <1>2, <1>8, <1>12
  <2>3. u \in Nat /\ u <= t /\ x = After(e, u)
    <3>. HIDE DEF t
    <3>. QED  BY <1>6, <2>1, <2>2
  <2>. QED  BY <1>10, <2>3
<1>13. CASE j # start
  <2>1. j \in 1..(i - 1) /\ j - 1 \in 0..(i - 1) /\ j - 1 >= start /\ j # 0
    BY <1>4, <1>13
  <2>2. u = SharedFrom(es, i, j - 1)
    BY <1>2, <2>1
  <2>3. u \in Nat
    BY <1>1, <2>1, <2>2, SharedFromIs
  <2>4. u = t \/ (u = Shared(es, j) /\ Shared(es, j) <= t)
    <3>1. \/ SharedFrom(es, i, j - 1) = SharedFrom(es, i, j)
          \/ /\ SharedFrom(es, i, j - 1) = Shared(es, j)
             /\ Shared(es, j) <= SharedFrom(es, i, j)
      BY <1>1, <2>1, SharedFromStep
    <3>. HIDE DEF t, u
    <3>. QED  BY <1>5, <2>2, <3>1
  <2>. QED  BY <1>8, <1>10, <1>11, <2>1, <2>3, <2>4
<1>. QED  BY <1>12, <1>13

\* Reading an entry of a block gives the entry it was built from.
LEMMA EntriesAre ==
  ASSUME NEW recordSize, NEW es, Fits(recordSize, es)
  PROVE  \A i \in 0..(Len(es) - 1) : Entry(BuildBlock(recordSize, es), i) = es[i + 1]
<1>. SUFFICES ASSUME NEW i \in 0..(Len(es) - 1)
              PROVE  Entry(BuildBlock(recordSize, es), i) = es[i + 1]
  OBVIOUS
<1>. DEFINE b == BuildBlock(recordSize, es)
<1>1. /\ es \in Seq(Bytes) /\ Len(es) \in Nat \ {0} /\ Len(es) <= BlockSize /\ BlockSize \in Nat
  BY BlockSizeAssumption DEF Fits
<1>2. CASE i = 0
  <2>1. b.head = es[1] /\ es[1] \in Bytes
    BY BlockHeader
  <2>2. FlattenSeq(<<es[1]>>) = es[1]
    BY <2>1, FlattenOne DEF Bytes
  <2>3. EntrySlices(b, i) = <<b.head>>
    BY <1>2 DEF EntrySlices
  <2>. QED  BY <1>2, <2>1, <2>2, <2>3 DEF Entry
<1>3. CASE i # 0
  <2>1. i \in 1..(Len(es) - 1) /\ i \in 1..(BlockSize - 1) /\ i < Len(es) /\ i \in Nat
    BY <1>1, <1>3
  <2>. DEFINE lo == Start(b, i) - 1
              hi == i - 1
              w == es[i + 1]
              G == [j \in lo..hi |-> Spelling(SubSeq(w, 1, TakenBy(b, i, j)))]
              empty == <<>>
              Step(j, v) == IF SliceBy(b, i, j) = <<>> THEN v ELSE Append(v, SliceBy(b, i, j))
              g == [x \in (lo..hi) \X Seq(Bytes) |-> Step(x[1], x[2])]
  <2>2. /\ Start(b, i) \in 0..i
        /\ Start(b, i) # 0 => Shared(es, Start(b, i)) = 0
        /\ \A j \in 0..(i - 1) : j >= Start(b, i) => TakenBy(b, i, j) = SharedFrom(es, i, j)
        /\ TakenBy(b, i, lo) = 0
    BY <2>1, TakenIs
  <2>3. lo \in Int /\ hi \in Int /\ lo <= hi /\ lo + 1 = Start(b, i)
    BY <2>1, <2>2
  <2>4. \A j \in (lo+1)..hi : /\ SliceBy(b, i, j) \in Bytes
                              /\ SubSeq(w, 1, TakenBy(b, i, j - 1)) \o SliceBy(b, i, j)
                                   = SubSeq(w, 1, TakenBy(b, i, j))
    BY <2>1, <2>3, SliceOfEntry
  <2>5. w \in Bytes
    BY <1>1, <2>1
  <2>. HIDE DEF b, w
  <2>6. ASSUME NEW j \in (lo+1)..hi, NEW v \in Spelling(SubSeq(w, 1, TakenBy(b, i, j - 1)))
        PROVE  Step(j, v) \in Spelling(SubSeq(w, 1, TakenBy(b, i, j)))
    <3>. DEFINE s == SliceBy(b, i, j)
                p == SubSeq(w, 1, TakenBy(b, i, j - 1))
    <3>1. v \in Seq(Seq(Nat)) /\ FlattenSeq(v) = p
      BY DEF Spelling, Bytes
    <3>2. s \in Seq(Nat) /\ p \o s = SubSeq(w, 1, TakenBy(b, i, j))
      BY <2>4 DEF Bytes
    <3>3. p \in Seq(Nat)
      BY <3>1, FlattenType
    <3>. HIDE DEF s, p
    <3>4. FlattenSeq(Append(v, s)) = p \o s /\ Append(v, s) \in Seq(Seq(Nat))
      <4>1. s \in Seq(Nat)
        BY <3>2
      <4>2. FlattenSeq(Append(v, s)) = FlattenSeq(v) \o s
        BY <3>1, <4>1, FlattenAppend
      <4>. QED  BY <3>1, <4>1, <4>2
    <3>5. s = <<>> => p \o s = p
      BY <3>3
    <3>. QED  BY <3>1, <3>2, <3>4, <3>5 DEF Spelling, Bytes, s
  <2>7. \A j \in lo..hi : G[j] = Spelling(SubSeq(w, 1, TakenBy(b, i, j)))
    OBVIOUS
  <2>8. \A j \in lo..hi : \A v \in Seq(Bytes) : g[<<j, v>>] = Step(j, v)
    OBVIOUS
  <2>9. lo \in lo..hi /\ \A j \in (lo+1)..hi : j \in lo..hi /\ j - 1 \in lo..hi /\ j # lo
    BY <2>3
  <2>10. empty \in G[lo]
    <3>1. w \in Seq(Nat) /\ SubSeq(w, 1, 0) = <<>>
      BY <2>5 DEF Bytes
    <3>2. empty \in Seq(Bytes) /\ FlattenSeq(empty) = SubSeq(w, 1, TakenBy(b, i, lo))
      <4>1. empty \in Seq(Bytes)
        OBVIOUS
      <4>2. FlattenSeq(empty) = <<>>
        BY FlattenEmpty
      <4>3. SubSeq(w, 1, TakenBy(b, i, lo)) = <<>>
        <5>. HIDE DEF lo
        <5>. QED  BY <2>2, <3>1
      <4>. QED  BY <4>1, <4>2, <4>3
    <3>3. empty \in Spelling(SubSeq(w, 1, TakenBy(b, i, lo)))
      BY <3>2 DEF Spelling
    <3>. HIDE DEF G, lo, hi, empty
    <3>. QED  BY <2>7, <2>9, <3>3
  <2>11. \A s, v : v \in Spelling(s) => v \in Seq(Bytes)
    BY DEF Spelling
  <2>. HIDE DEF G, g, empty, lo, hi, Step
  <2>12. \A j \in (lo+1)..hi : \A v \in G[j - 1] : g[<<j, v>>] \in G[j]
    <3>. SUFFICES ASSUME NEW j \in (lo+1)..hi, NEW v \in G[j - 1] PROVE g[<<j, v>>] \in G[j]
      OBVIOUS
    <3>1. j \in lo..hi /\ j - 1 \in lo..hi
      BY <2>9
    <3>2. v \in Spelling(SubSeq(w, 1, TakenBy(b, i, j - 1))) /\ v \in Seq(Bytes)
      BY <2>7, <2>11, <3>1
    <3>3. Step(j, v) \in Spelling(SubSeq(w, 1, TakenBy(b, i, j)))
      BY <2>6, <3>2
    <3>4. g[<<j, v>>] = Step(j, v)
      BY <2>8, <3>1, <3>2
    <3>. QED  BY <2>7, <3>1, <3>3, <3>4
  <2>13. \E f : SlicesOf(f, b, i)
    <3>1. PICK f : RunsWithin(f, lo, hi, G, empty, g)
      BY <2>3, <2>10, <2>12, RecursionWithin
    <3>2. /\ f = [j \in lo..hi |-> f[j]] /\ f[lo] = empty
          /\ \A j \in (lo+1)..hi : f[j] = g[<<j, f[j - 1]>>]
          /\ \A j \in lo..hi : f[j] \in G[j]
      BY <3>1 DEF RunsWithin
    <3>3. ASSUME NEW j \in (lo+1)..hi PROVE f[j] = Step(j, f[j - 1])
      <4>1. j \in lo..hi /\ j - 1 \in lo..hi /\ f[j - 1] \in G[j - 1]
        BY <2>9, <3>2
      <4>2. f[j - 1] \in Seq(Bytes)
        BY <2>7, <2>11, <4>1
      <4>3. g[<<j, f[j - 1]>>] = Step(j, f[j - 1])
        BY <2>8, <4>1, <4>2
      <4>. QED  BY <3>2, <4>3
    <3>4. \A j \in lo..hi : f[j] = IF j = lo THEN empty ELSE Step(j, f[j - 1])
      <4>1. \A j \in lo..hi : j # lo => j \in (lo+1)..hi
        BY <2>3
      <4>. QED  BY <3>2, <3>3, <4>1
    <3>5. f = [j \in lo..hi |-> IF j = lo THEN empty ELSE Step(j, f[j - 1])]
      BY <3>2, <3>4
    <3>6. SlicesOf(f, b, i)
      BY <3>5 DEF SlicesOf, lo, hi, empty, Step
    <3>. QED  BY <3>6
  <2>. DEFINE f == CHOOSE f : SlicesOf(f, b, i)
  <2>14. SlicesOf(f, b, i)
    BY <2>13
  <2>15. EntrySlices(b, i) = Append(f[i - 1], SuffixOf(b, i))
    BY <1>3 DEF EntrySlices, SlicesOf, SliceBy, TakenBy
  <2>. HIDE DEF f
  <2>16. f[lo] = empty /\ \A j \in (lo+1)..hi : f[j] = Step(j, f[j - 1])
    <3>1. f = [j \in lo..hi |-> IF j = lo THEN empty ELSE Step(j, f[j - 1])]
      BY <2>14 DEF SlicesOf, lo, hi, empty, Step
    <3>. QED  BY <2>9, <3>1
  <2>. DEFINE P == {j \in lo..hi : f[j] \in Spelling(SubSeq(w, 1, TakenBy(b, i, j)))}
  <2>17. lo \in P
    BY <2>7, <2>9, <2>10, <2>16
  <2>18. \A j \in (lo+1)..hi : j - 1 \in P => j \in P
    BY <2>6, <2>9, <2>16
  <2>. HIDE DEF P
  <2>19. \A j \in lo..hi : j \in P
    BY <2>3, <2>17, <2>18, InductOn
  <2>20. hi \in lo..hi
    BY <2>3
  <2>. DEFINE q == f[i - 1]
              k == Shared(es, i)
  <2>21. q \in Spelling(SubSeq(w, 1, TakenBy(b, i, i - 1)))
    BY <2>19, <2>20 DEF P, hi
  <2>22. TakenBy(b, i, i - 1) = k
    <3>1. CASE i - 1 >= Start(b, i)
      <4>1. i - 1 \in 0..(i - 1)
        BY <2>1
      <4>2. TakenBy(b, i, i - 1) = SharedFrom(es, i, i - 1)
        BY <2>2, <3>1, <4>1
      <4>3. \A m \in ((i-1)+1)..i : m = i
        BY <2>1
      <4>4. SharedFrom(es, i, i - 1) = k
        BY <1>1, <2>1, <4>1, <4>3, SharedFromIs
      <4>. QED  BY <4>2, <4>4
    <3>2. CASE ~(i - 1 >= Start(b, i))
      <4>1. Start(b, i) = i /\ lo = i - 1
        BY <2>1, <2>2, <3>2 DEF lo
      <4>. QED  BY <1>3, <2>2, <4>1
    <3>. QED  BY <3>1, <3>2
  <2>23. SuffixOf(b, i) = After(w, k)
    BY <2>1, SuffixIs DEF b, w
  <2>24. k \in Nat /\ k <= Len(w) /\ w \in Seq(Nat) /\ k \in 0..Len(w)
    <3>1. k \in 0..Len(w)
      BY <1>1, <2>1, SharedIs DEF w
    <3>. QED  BY <2>5, <3>1 DEF Bytes
  <2>. HIDE DEF q, k
  <2>25. After(w, k) \in Seq(Nat)
    BY <2>24, AfterIs
  <2>26. q \in Seq(Seq(Nat)) /\ FlattenSeq(q) = SubSeq(w, 1, k)
    BY <2>21, <2>22 DEF Spelling, Bytes
  <2>27. FlattenSeq(Append(q, After(w, k))) = SubSeq(w, 1, k) \o After(w, k)
    BY <2>25, <2>26, FlattenAppend
  <2>28. SubSeq(w, 1, k) \o After(w, k) = w
    BY <2>5, <2>24, JoinIs
  <2>. QED  BY <2>15, <2>23, <2>27, <2>28 DEF Entry, q, w, b
<1>. QED  BY <1>2, <1>3

-----------------------------------------------------------------------------
(* The invariant. Building(tp, to, b, ct, ad, open) is said of values, for *)
(* a builder b that is not the variable is met within a step; open while a *)
(* block may still be added to for the last type.                          *)

BlockType == [recordSize : Nat, num : 1..BlockSize, head : Seq(Nat), shareds : Seq(Nat),
              stored : Seq(Nat), data : Seq(Nat)]
Placed == [at : Nat, block : BlockType]
EntryType == [datatype : Types, entry : Seq(Nat)]

\* Blocks d written of the entries ad: how many entries the first n have, and
\* where the n-th ends.
UpTo(d, n) == SumOf([m \in 1..n |-> d[m].block.num])
EndAt(d, n) == IF n = 0 THEN 0 ELSE d[n].at + SizeOf(d[n].block)
EntriesIn(d, ad, n) == [k \in 1..d[n].block.num |-> ad[UpTo(d, n - 1) + k].entry]

Holds(d, ad, n, t) ==
  /\ d[n].block = BuildBlock(RecordSize[t], EntriesIn(d, ad, n))
  /\ \A k \in 1..d[n].block.num : ad[UpTo(d, n - 1) + k].datatype = t

\* How many blocks the first i types have.
Bound(to, d, i) == IF i = 0 THEN 0 ELSE IF i <= Len(to) THEN to[i] + 1 ELSE Len(d)

BuilderType == [recordSize : Nat, blockOffset : Nat, idOffset : Nat, offsets : Seq(Nat),
                data : Seq(Placed), current : Seq(Seq(Nat))]

Written(b) ==
  /\ b \in BuilderType
  /\ b.blockOffset = EndAt(b.data, Len(b.data))
  /\ \A n \in 1..Len(b.data) : b.data[n].at = EndAt(b.data, n - 1)

OffsetsAre(offsets, d, count) ==
  /\ offsets \in Seq(Nat) /\ Len(offsets) = count
  /\ \A n \in 1..count : offsets[n] = EndAt(d, n)

\* What is not in a block yet.
Rest(b, ct, ad) ==
  /\ ad \in Seq(EntryType)
  /\ \A k \in 1..Len(ad) : RecordSize[ad[k].datatype] # 0 =>
       Len(ad[k].entry) = RecordSize[ad[k].datatype]
  /\ Len(b.current) <= BlockSize
  /\ Len(ad) = UpTo(b.data, Len(b.data)) + Len(b.current)
  /\ b.idOffset = Len(ad)
  /\ \A k \in 1..Len(b.current) :
       /\ b.current[k] = ad[UpTo(b.data, Len(b.data)) + k].entry
       /\ ad[UpTo(b.data, Len(b.data)) + k].datatype = ct

\* The blocks of each type; those before its last one are full, and the last
\* one of the last type too if it may go on.
Sections(tp, to, d, ad, open) ==
  /\ \A i \in 1..Len(tp) : Bound(to, d, i - 1) <= Bound(to, d, i) /\ Bound(to, d, i) <= Len(d)
  /\ \A i \in 1..(Len(tp) - 1) : Bound(to, d, i - 1) < Bound(to, d, i)
  /\ \A i \in 1..Len(tp) : \A n \in (Bound(to, d, i - 1) + 1)..Bound(to, d, i) :
       /\ Holds(d, ad, n, tp[i])
       /\ (n # Bound(to, d, i) \/ (open /\ i = Len(tp))) => d[n].block.num = BlockSize

TypesMet(tp, to, ct) ==
  /\ tp \in Seq(Types)
  /\ \A i, j \in DOMAIN tp : i < j => tp[i] < tp[j]
  /\ to \in Seq(Nat)
  /\ Len(to) = (IF tp = <<>> THEN 0 ELSE Len(tp) - 1)
  /\ ct = IF tp = <<>> THEN 0 ELSE tp[Len(tp)]

Building(tp, to, b, ct, ad, open) ==
  /\ TypesMet(tp, to, ct)
  /\ Written(b)
  /\ Rest(b, ct, ad)
  /\ Sections(tp, to, b.data, ad, open)
  /\ tp = <<>> => b.data = <<>> /\ b.current = <<>>
  /\ b.recordSize = IF ct = 0 THEN 0 ELSE RecordSize[ct]

Inv ==
  /\ phase \in {"building", "finished", "streaming"}
  /\ phase = "building" => Building(typesPresent, typeOffsets, builder, currentType, added, TRUE)
  /\ phase # "building" => Building(typesPresent, typeOffsets, builder, currentType, added, FALSE)
  /\ Len(builder.current) < BlockSize
  /\ phase # "building" => builder.current = <<>>
  /\ OffsetsAre(builder.offsets, builder.data,
                IF phase = "building" \/ builder.data = <<>> THEN Len(builder.data)
                ELSE Len(builder.data) - 1)
  /\ typesPresent # <<>> =>
       /\ Bound(typeOffsets, builder.data, Len(typesPresent) - 1) < Len(builder.data)
            \/ builder.current # <<>>
       /\ added # <<>> /\ added[Len(added)].datatype = currentType

-----------------------------------------------------------------------------
(* Blocks one after another.                                               *)

\* A block holds more than one entry.
LEMMA BlockSizes == BlockSize \in Nat \ {0, 1}
BY BlockSizeAssumption

\* A block takes up space.
LEMMA SizeType == \A b \in BlockType : SizeOf(b) \in Nat \ {0, 1}
<1>. SUFFICES ASSUME NEW b \in BlockType PROVE SizeOf(b) \in Nat \ {0, 1}
  OBVIOUS
<1>1. /\ b.head \in Seq(Nat) /\ b.shareds \in Seq(Nat) /\ b.stored \in Seq(Nat)
      /\ b.data \in Seq(Nat)
  BY DEF BlockType
<1>2. /\ Len(b.head) \in Nat /\ Len(b.shareds) \in Nat /\ Len(b.stored) \in Nat
      /\ Len(b.data) \in Nat
  BY <1>1
<1>. DEFINE w == Len(b.head)
            x == Len(b.shareds)
            y == Len(b.stored)
            z == Len(b.data)
<1>3. SizeOf(b) = 2 + w + x + y + z
  BY DEF SizeOf
<1>. HIDE DEF w, x, y, z
<1>4. w \in Nat /\ x \in Nat /\ y \in Nat /\ z \in Nat
  BY <1>2 DEF w, x, y, z
<1>. QED  BY <1>3, <1>4

\* A block built is one.
LEMMA BuildType ==
  ASSUME NEW recordSize, NEW es, Fits(recordSize, es)
  PROVE  BuildBlock(recordSize, es) \in BlockType
<1>. DEFINE later == Later(es)
            n == Len(es) - 1
            shareds == [i \in 1..n |-> Shared(es, i)]
            stored == IF recordSize = 0 THEN [i \in 1..n |-> Len(later[i])] ELSE <<>>
            b == [recordSize |-> recordSize, num |-> Len(es), head |-> es[1],
                  shareds |-> shareds, stored |-> stored, data |-> FlattenSeq(later)]
<1>1. BuildBlock(recordSize, es) = b
  BY DEF BuildBlock, Later
<1>2. es \in Seq(Bytes) /\ Len(es) \in 1..BlockSize /\ recordSize \in Nat /\ n \in Nat
      /\ Len(es) >= 1
  BY BlockSizes DEF Fits
<1>3. es[1] \in Seq(Nat)
  BY <1>2 DEF Bytes
<1>4. later \in Seq(Bytes) /\ later \in Seq(Seq(Nat)) /\ Len(later) = n
  BY <1>2, LaterIs DEF Bytes
<1>5. FlattenSeq(later) \in Seq(Nat)
  BY <1>4, FlattenType
<1>6. \A i \in 1..n : Len(later[i]) \in Nat
  BY <1>2, <1>4
<1>7. ASSUME NEW i \in 1..n PROVE Shared(es, i) \in Nat
  <2>1. SharesTo(es[i], es[i + 1], Shared(es, i))
    BY <1>2, SharedIs
  <2>. QED  BY <2>1 DEF SharesTo
<1>. HIDE DEF later, n
<1>8. shareds \in Seq(Nat) /\ stored \in Seq(Nat)
  <2>1. shareds \in [1..n -> Nat]
    BY <1>7
  <2>2. [i \in 1..n |-> Len(later[i])] \in [1..n -> Nat]
    BY <1>6
  <2>. QED  BY <1>2, <2>1, <2>2
<1>. HIDE DEF shareds, stored
<1>9. b \in BlockType
  BY <1>2, <1>3, <1>5, <1>8 DEF BlockType
<1>. QED  BY <1>1, <1>9

\* Entries counted block by block.
LEMMA UpToIs ==
  ASSUME NEW d \in Seq(Placed)
  PROVE  /\ UpTo(d, 0) = 0
         /\ \A n \in 0..Len(d) : UpTo(d, n) \in Nat
         /\ \A n \in 1..Len(d) : /\ d[n].block \in BlockType /\ d[n].at \in Nat
                                 /\ d[n].block.num \in 1..BlockSize
                                 /\ UpTo(d, n) = UpTo(d, n - 1) + d[n].block.num
<1>. DEFINE nums == [m \in 1..Len(d) |-> d[m].block.num]
<1>1. Len(d) \in Nat /\ \A n \in 1..Len(d) : d[n] \in Placed
  OBVIOUS
<1>2. \A n \in 1..Len(d) : /\ d[n].block \in BlockType /\ d[n].at \in Nat
                           /\ d[n].block.num \in 1..BlockSize
  BY <1>1 DEF Placed, BlockType
<1>3. nums \in Seq(Nat) /\ Len(nums) = Len(d) /\ \A n \in 1..Len(d) : nums[n] = d[n].block.num
  BY <1>1, <1>2, BlockSizes
<1>4. ASSUME NEW n \in 0..Len(d) PROVE UpTo(d, n) = SumOf(SubSeq(nums, 1, n)) /\ UpTo(d, n) \in Nat
  <2>. DEFINE p == [m \in 1..n |-> d[m].block.num]
              q == SubSeq(nums, 1, n)
  <2>1. n \in 0..Len(nums) /\ n \in Nat /\ \A m \in 1..n : m \in 1..Len(d)
    BY <1>1, <1>3
  <2>2. p \in Seq(Nat) /\ Len(p) = n /\ \A m \in 1..n : p[m] = nums[m]
    BY <1>2, <1>3, <2>1, BlockSizes
  <2>. HIDE DEF nums
  <2>3. q \in Seq(Nat) /\ Len(q) = n /\ \A m \in 1..n : q[m] = nums[m]
    BY <1>3, <2>1, FirstIs
  <2>. HIDE DEF p, q
  <2>4. p = q
    BY <2>2, <2>3, SeqEqual
  <2>5. SumOf(q) \in Nat
    BY <2>3, SumType
  <2>. QED  BY <2>4, <2>5 DEF UpTo, p, q
<1>. HIDE DEF nums
<1>5. UpTo(d, 0) = 0
  <2>1. SubSeq(nums, 1, 0) = <<>> /\ 0 \in 0..Len(d)
    BY <1>1, <1>3
  <2>. QED  BY <1>4, <2>1, SumEmpty
<1>6. ASSUME NEW n \in 1..Len(d) PROVE UpTo(d, n) = UpTo(d, n - 1) + d[n].block.num
  <2>1. n \in 1..Len(nums) /\ n \in 0..Len(d) /\ n - 1 \in 0..Len(d)
    BY <1>1, <1>3
  <2>2. SumOf(SubSeq(nums, 1, n)) = SumOf(SubSeq(nums, 1, n - 1)) + nums[n]
    BY <1>3, <2>1, SumFirst
  <2>. QED  BY <1>3, <1>4, <2>1, <2>2
<1>. QED  BY <1>2, <1>4, <1>5, <1>6

\* More blocks, more entries.
LEMMA UpToGrows ==
  ASSUME NEW d \in Seq(Placed), NEW m \in 0..Len(d), NEW n \in m..Len(d)
  PROVE  UpTo(d, m) <= UpTo(d, n)
<1>1. Len(d) \in Nat /\ m \in Int /\ Len(d) \in Int /\ m \in 0..Len(d)
  OBVIOUS
<1>2. \A k \in m..Len(d) : k \in 0..Len(d)
  BY <1>1
<1>. DEFINE P == {k \in m..Len(d) : UpTo(d, m) <= UpTo(d, k)}
<1>3. m \in P
  BY <1>1, UpToIs
<1>4. \A k \in (m+1)..Len(d) : k - 1 \in P => k \in P
  <2>. SUFFICES ASSUME NEW k \in (m+1)..Len(d), k - 1 \in P PROVE k \in P
    OBVIOUS
  <2>1. k \in 1..Len(d) /\ k \in m..Len(d) /\ k - 1 \in 0..Len(d)
    BY <1>1
  <2>2. /\ UpTo(d, k) = UpTo(d, k - 1) + d[k].block.num /\ d[k].block.num \in 1..BlockSize
        /\ UpTo(d, k - 1) \in Nat /\ UpTo(d, m) \in Nat
    BY <1>1, <2>1, UpToIs
  <2>3. UpTo(d, m) <= UpTo(d, k - 1)
    OBVIOUS
  <2>4. UpTo(d, m) <= UpTo(d, k)
    BY <2>2, <2>3, BlockSizes
  <2>. QED  BY <2>1, <2>4
<1>. HIDE DEF P
<1>5. \A k \in m..Len(d) : k \in P
  BY <1>1, <1>3, <1>4, InductOn
<1>. QED  BY <1>5 DEF P

\* More blocks behind these change nothing about them.
LEMMA UpToSame ==
  ASSUME NEW c, NEW d, NEW n \in Nat, \A m \in 1..n : c[m] = d[m]
  PROVE  UpTo(c, n) = UpTo(d, n)
<1>1. [m \in 1..n |-> c[m].block.num] = [m \in 1..n |-> d[m].block.num]
  OBVIOUS
<1>. QED  BY <1>1 DEF UpTo

\* Where blocks begin and end.
LEMMA EndIs ==
  ASSUME NEW d \in Seq(Placed), \A n \in 1..Len(d) : d[n].at = EndAt(d, n - 1)
  PROVE  /\ \A n \in 0..Len(d) : EndAt(d, n) \in Nat
         /\ \A n \in 1..Len(d) : EndAt(d, n - 1) < EndAt(d, n)
         /\ \A m, n \in 0..Len(d) : m < n => EndAt(d, m) < EndAt(d, n)
<1>1. Len(d) \in Nat /\ \A n \in 1..Len(d) : d[n].at \in Nat /\ d[n].block \in BlockType
  BY UpToIs
<1>2. \A n \in 1..Len(d) : SizeOf(d[n].block) \in Nat \ {0, 1}
  BY <1>1, SizeType
<1>3. \A n \in 0..Len(d) : EndAt(d, n) \in Nat
  <2>. SUFFICES ASSUME NEW n \in 0..Len(d) PROVE EndAt(d, n) \in Nat
    OBVIOUS
  <2>1. n # 0 => n \in 1..Len(d)
    BY <1>1
  <2>. QED  BY <1>1, <1>2, <2>1 DEF EndAt
<1>4. \A n \in 1..Len(d) : EndAt(d, n - 1) < EndAt(d, n)
  <2>. SUFFICES ASSUME NEW n \in 1..Len(d) PROVE EndAt(d, n - 1) < EndAt(d, n)
    OBVIOUS
  <2>1. EndAt(d, n) = d[n].at + SizeOf(d[n].block) /\ d[n].at = EndAt(d, n - 1)
    BY <1>1 DEF EndAt
  <2>. QED  BY <1>1, <1>2, <2>1
<1>5. ASSUME NEW m \in 0..Len(d) PROVE \A n \in m..Len(d) : m < n => EndAt(d, m) < EndAt(d, n)
  <2>. DEFINE P == {n \in m..Len(d) : m < n => EndAt(d, m) < EndAt(d, n)}
  <2>1. m \in P
    BY <1>1
  <2>2. \A n \in (m+1)..Len(d) : n - 1 \in P => n \in P
    <3>. SUFFICES ASSUME NEW n \in (m+1)..Len(d), n - 1 \in P PROVE n \in P
      OBVIOUS
    <3>1. n \in 1..Len(d) /\ n - 1 \in 0..Len(d) /\ n \in m..Len(d) /\ n \in 0..Len(d)
      BY <1>1
    <3>2. (n - 1 = m) \/ (EndAt(d, m) < EndAt(d, n - 1))
      BY <1>1
    <3>3. EndAt(d, m) < EndAt(d, n)
      BY SMTT(30), <1>3, <1>4, <3>1, <3>2
    <3>. QED  BY <3>1, <3>3
  <2>. HIDE DEF P
  <2>3. m \in Int /\ Len(d) \in Int
    BY <1>1
  <2>4. \A n \in m..Len(d) : n \in P
    BY <2>1, <2>2, <2>3, InductOn
  <2>. QED  BY <2>4 DEF P
<1>6. \A m, n \in 0..Len(d) : m < n => EndAt(d, m) < EndAt(d, n)
  <2>. SUFFICES ASSUME NEW m \in 0..Len(d), NEW n \in 0..Len(d), m < n
                PROVE  EndAt(d, m) < EndAt(d, n)
    OBVIOUS
  <2>1. n \in m..Len(d)
    BY <1>1
  <2>. QED  BY <1>5, <2>1
<1>. QED  BY <1>3, <1>4, <1>6

-----------------------------------------------------------------------------
(* Building.                                                               *)

\* What a type's entries, one after another, let a block be built from.
LEMMA EntriesFit ==
  ASSUME NEW b, NEW ct, NEW ad, Rest(b, ct, ad), NEW t \in Types, NEW es \in Seq(Bytes),
         Len(es) \in 1..BlockSize, NEW from \in Nat, from + Len(es) <= Len(ad),
         \A k \in 1..Len(es) : es[k] = ad[from + k].entry /\ ad[from + k].datatype = t
  PROVE  Fits(RecordSize[t], es)
<1>1. RecordSize[t] \in Nat
  BY TypesAssumption
<1>2. ad \in Seq(EntryType) /\ Len(ad) \in Nat /\ Len(es) \in Nat
  BY DEF Rest
<1>3. ASSUME RecordSize[t] # 0, NEW k \in 1..Len(es) PROVE Len(es[k]) = RecordSize[t]
  <2>1. from + k \in 1..Len(ad)
    BY <1>2
  <2>. QED  BY <1>3, <2>1 DEF Rest
<1>. QED  BY <1>1, <1>3 DEF Fits

\* Whatever is added behind the entries, and blocks behind the blocks.
LEMMA HoldsStill ==
  ASSUME NEW c, NEW d \in Seq(Placed), NEW ad, NEW ae, NEW n \in 1..Len(d),
         \A m \in 1..n : c[m] = d[m],
         UpTo(d, Len(d)) <= Len(ad), Len(ad) \in Nat, \A k \in 1..Len(ad) : ae[k] = ad[k],
         NEW t, Holds(d, ad, n, t)
  PROVE  Holds(c, ae, n, t)
<1>1. Len(d) \in Nat /\ n - 1 \in Nat /\ n \in Nat /\ n - 1 \in 0..Len(d) /\ n \in 0..Len(d)
      /\ n \in n..Len(d) /\ Len(d) \in n..Len(d) /\ n \in 1..n
  OBVIOUS
<1>2. c[n] = d[n] /\ \A m \in 1..(n-1) : c[m] = d[m]
  BY <1>1
<1>3. UpTo(c, n - 1) = UpTo(d, n - 1)
  BY <1>1, <1>2, UpToSame
<1>4. /\ UpTo(d, n) = UpTo(d, n - 1) + d[n].block.num /\ UpTo(d, n - 1) \in Nat
      /\ d[n].block.num \in 1..BlockSize
  BY <1>1, UpToIs
<1>5. UpTo(d, n) <= UpTo(d, Len(d)) /\ UpTo(d, Len(d)) \in Nat
  BY <1>1, UpToGrows, UpToIs
<1>. DEFINE num == d[n].block.num
            f == UpTo(d, n - 1)
<1>6. \A k \in 1..num : f + k \in 1..Len(ad)
  BY <1>4, <1>5, BlockSizes
<1>7. \A k \in 1..num : ae[f + k] = ad[f + k]
  BY <1>6
<1>8. EntriesIn(c, ae, n) = EntriesIn(d, ad, n)
  BY <1>2, <1>3, <1>7 DEF EntriesIn
<1>. QED  BY <1>2, <1>3, <1>7, <1>8 DEF Holds

\* Where the sections end when blocks are added to the last one.
LEMMA BoundIs ==
  ASSUME NEW tp, NEW to, NEW ct, TypesMet(tp, to, ct), NEW d, NEW i \in 0..Len(tp)
  PROVE  /\ Len(tp) \in Nat
         /\ i # 0 /\ i = Len(tp) => Bound(to, d, i) = Len(d)
         /\ i # 0 /\ i < Len(tp) => Bound(to, d, i) = to[i] + 1 /\ i \in 1..Len(to)
<1>1. Len(tp) \in Nat /\ (tp = <<>> => Len(tp) = 0)
      /\ Len(to) = (IF tp = <<>> THEN 0 ELSE Len(tp) - 1)
  BY DEF TypesMet
<1>. QED  BY <1>1 DEF Bound

\* The blocks of a type end within those written.
LEMMA BoundType ==
  ASSUME NEW tp, NEW to, NEW ct, TypesMet(tp, to, ct), NEW d, Len(d) \in Nat,
         NEW i \in 0..Len(tp)
  PROVE  Bound(to, d, i) \in Nat
<1>1. to \in Seq(Nat) /\ Len(tp) \in Nat
  BY DEF TypesMet
<1>2. i = 0 \/ i = Len(tp) \/ i < Len(tp)
  BY <1>1
<1>3. i \in 1..Len(to) => to[i] + 1 \in Nat
  BY <1>1
<1>4. i # 0 /\ i < Len(tp) => Bound(to, d, i) = to[i] + 1 /\ i \in 1..Len(to)
  BY BoundIs
<1>5. i # 0 /\ i = Len(tp) => Bound(to, d, i) = Len(d)
  BY BoundIs
<1>6. i = 0 => Bound(to, d, i) = 0
  BY DEF Bound
<1>. QED  BY <1>2, <1>3, <1>4, <1>5, <1>6

\* A block of a section is a block.
LEMMA SectionIn ==
  ASSUME NEW tp, NEW to, NEW ct, TypesMet(tp, to, ct), NEW d, Len(d) \in Nat,
         NEW i \in 1..Len(tp), Bound(to, d, i) <= Len(d),
         NEW n \in (Bound(to, d, i - 1) + 1)..Bound(to, d, i)
  PROVE  n \in 1..Len(d)
<1>1. Len(tp) \in Nat
  BY DEF TypesMet
<1>2. i - 1 \in 0..Len(tp) /\ i \in 0..Len(tp)
  BY <1>1
<1>3. Bound(to, d, i - 1) \in Nat /\ Bound(to, d, i) \in Nat
  BY <1>2, BoundType
<1>. QED  BY <1>3

\* What writing a block leaves, field by field.
LEMMA WriteBlockIs ==
  ASSUME NEW b \in BuilderType
  PROVE  LET w == WriteBlock(b)
             block == BuildBlock(b.recordSize, b.current)
         IN  /\ w.recordSize = b.recordSize /\ w.idOffset = b.idOffset
             /\ w.data = Append(b.data, [at |-> b.blockOffset, block |-> block])
             /\ w.blockOffset = b.blockOffset + SizeOf(block)
             /\ w.offsets = Append(b.offsets, b.blockOffset + SizeOf(block))
             /\ w.current = <<>>
             /\ w = [recordSize |-> w.recordSize, blockOffset |-> w.blockOffset,
                     idOffset |-> w.idOffset, offsets |-> w.offsets, data |-> w.data,
                     current |-> w.current]
<1>. DEFINE block == BuildBlock(b.recordSize, b.current)
            end == b.blockOffset + SizeOf(block)
            data2 == Append(b.data, [at |-> b.blockOffset, block |-> block])
            offsets2 == Append(b.offsets, end)
            r == [recordSize |-> b.recordSize, blockOffset |-> end, idOffset |-> b.idOffset,
                  offsets |-> offsets2, data |-> data2, current |-> <<>>]
<1>1. WriteBlock(b) = [b EXCEPT !.data = data2, !.blockOffset = end, !.offsets = offsets2,
                                !.current = <<>>]
  BY DEF WriteBlock
<1>. HIDE DEF block, end, data2, offsets2
<1>2. WriteBlock(b) = r
  BY <1>1 DEF BuilderType
<1>. QED  BY <1>2 DEF block, end, data2, offsets2

\* The block at hand is written: everything holds with it, and the last type
\* has one more block.
LEMMA FlushKeeps ==
  ASSUME NEW tp, NEW to, NEW b, NEW ct, NEW ad, Building(tp, to, b, ct, ad, TRUE),
         OffsetsAre(b.offsets, b.data, Len(b.data)), b.current # <<>>,
         NEW open \in BOOLEAN, open => Len(b.current) = BlockSize
  PROVE  LET w == WriteBlock(b)
         IN  /\ Building(tp, to, w, ct, ad, open)
             /\ OffsetsAre(w.offsets, w.data, Len(w.data))
             /\ w.current = <<>> /\ Len(w.data) = Len(b.data) + 1
             /\ Bound(to, w.data, Len(tp) - 1) < Len(w.data)
<1>. DEFINE w == WriteBlock(b)
            block == BuildBlock(b.recordSize, b.current)
            d == b.data
            c == w.data
            n == Len(d) + 1
<1>1. TypesMet(tp, to, ct) /\ Written(b) /\ Rest(b, ct, ad) /\ Sections(tp, to, d, ad, TRUE)
  BY DEF Building
<1>2. /\ b \in BuilderType /\ d \in Seq(Placed) /\ Len(d) \in Nat /\ b.current \in Seq(Bytes)
      /\ b.blockOffset \in Nat /\ b.offsets \in Seq(Nat)
      /\ b.idOffset \in Nat /\ b.recordSize \in Nat
  BY <1>1 DEF Written, BuilderType, Bytes
<1>3. /\ w.recordSize = b.recordSize /\ w.idOffset = b.idOffset
      /\ c = Append(d, [at |-> b.blockOffset, block |-> block])
      /\ w.blockOffset = b.blockOffset + SizeOf(block)
      /\ w.offsets = Append(b.offsets, b.blockOffset + SizeOf(block))
      /\ w.current = <<>>
      /\ w = [recordSize |-> w.recordSize, blockOffset |-> w.blockOffset,
              idOffset |-> w.idOffset, offsets |-> w.offsets, data |-> w.data,
              current |-> w.current]
  BY <1>2, WriteBlockIs
<1>4. /\ tp # <<>> /\ ct = tp[Len(tp)] /\ ct \in Types /\ Len(tp) \in Nat \ {0}
      /\ b.recordSize = RecordSize[ct]
  <2>1. tp # <<>>
    BY DEF Building
  <2>2. Len(tp) \in Nat \ {0} /\ tp[Len(tp)] \in Types /\ ct = tp[Len(tp)]
    BY <1>1, <2>1 DEF TypesMet
  <2>3. ct # 0
    BY <2>2, TypesAssumption
  <2>. QED  BY <2>1, <2>2, <2>3 DEF Building
<1>. DEFINE f == UpTo(d, Len(d))
            num == Len(b.current)
<1>5. num \in 1..BlockSize /\ num \in Nat /\ f \in Nat /\ Len(ad) = f + num
  <2>1. num \in Nat \ {0} /\ num <= BlockSize /\ Len(ad) = f + num
    BY <1>1, <1>2 DEF Rest
  <2>2. Len(d) \in 0..Len(d)
    BY <1>2
  <2>3. f \in Nat
    BY <1>2, <2>2, UpToIs
  <2>. QED  BY <2>1, <2>3, BlockSizes
<1>6. \A k \in 1..num : b.current[k] = ad[f + k].entry /\ ad[f + k].datatype = ct
  BY <1>1 DEF Rest
<1>7. Fits(b.recordSize, b.current)
  <2>1. f + Len(b.current) <= Len(ad) /\ Len(b.current) \in 1..BlockSize
    BY <1>5
  <2>. HIDE DEF f
  <2>2. Fits(RecordSize[ct], b.current)
    BY <1>1, <1>2, <1>4, <1>5, <1>6, <2>1, EntriesFit
  <2>. QED  BY <1>4, <2>2
<1>8. block \in BlockType /\ block.num = num /\ SizeOf(block) \in Nat
  <2>1. block \in BlockType
    BY <1>7, BuildType
  <2>. QED  BY <1>7, <2>1, BlockHeader, SizeType
<1>. HIDE DEF w, block
<1>9. /\ c \in Seq(Placed) /\ Len(c) = n /\ c[n] = [at |-> b.blockOffset, block |-> block]
      /\ \A m \in 1..Len(d) : c[m] = d[m]
  <2>1. [at |-> b.blockOffset, block |-> block] \in Placed
    BY <1>2, <1>8 DEF Placed
  <2>. QED  BY <1>2, <1>3, <2>1, AppendProperties
<1>10. \A m \in 0..Len(d) : EndAt(c, m) = EndAt(d, m) /\ UpTo(c, m) = UpTo(d, m)
  <2>. SUFFICES ASSUME NEW m \in 0..Len(d)
                PROVE  EndAt(c, m) = EndAt(d, m) /\ UpTo(c, m) = UpTo(d, m)
    OBVIOUS
  <2>1. \A k \in 1..m : k \in 1..Len(d)
    BY <1>2
  <2>2. UpTo(c, m) = UpTo(d, m)
    BY <1>9, <2>1, UpToSame
  <2>3. m # 0 => m \in 1..Len(d)
    BY <1>2
  <2>. QED  BY <1>9, <2>2, <2>3 DEF EndAt
<1>11. /\ EndAt(c, n) = w.blockOffset /\ c[n].at = EndAt(c, n - 1) /\ n - 1 = Len(d) /\ n # 0
       /\ Len(d) \in 0..Len(d) /\ n \in 1..n
  <2>1. n - 1 = Len(d) /\ n # 0 /\ Len(d) \in 0..Len(d) /\ n \in 1..n
    BY <1>2
  <2>2. b.blockOffset = EndAt(d, Len(d))
    BY <1>1 DEF Written
  <2>3. c[n].at = EndAt(c, n - 1)
    BY <1>9, <1>10, <2>1, <2>2
  <2>4. EndAt(c, n) = w.blockOffset
    BY <1>3, <1>9, <2>1 DEF EndAt
  <2>. QED  BY <2>1, <2>3, <2>4
<1>12. \A m \in 1..n : m = n \/ (m \in 1..Len(d) /\ m - 1 \in 0..Len(d))
  BY <1>2
<1>13. Written(w)
  <2>1. \A m \in 1..n : c[m].at = EndAt(c, m - 1)
    <3>1. \A m \in 1..Len(d) : d[m].at = EndAt(d, m - 1)
      BY <1>1 DEF Written
    <3>. QED  BY <1>9, <1>10, <1>11, <1>12, <3>1
  <2>2. w \in BuilderType
    <3>1. w.blockOffset \in Nat /\ w.offsets \in Seq(Nat) /\ w.current \in Seq(Seq(Nat))
      <4>1. b.blockOffset + SizeOf(block) \in Nat
        BY <1>2, <1>8
      <4>2. Append(b.offsets, b.blockOffset + SizeOf(block)) \in Seq(Nat)
        BY <1>2, <4>1
      <4>. QED  BY <1>3, <4>1, <4>2
    <3>. QED  BY <1>2, <1>3, <1>9, <3>1 DEF BuilderType
  <2>. QED  BY <1>9, <1>11, <2>1, <2>2 DEF Written
<1>14. UpTo(c, n) = Len(ad)
  <2>1. UpTo(c, n) = UpTo(c, n - 1) + c[n].block.num
    BY <1>9, <1>11, UpToIs
  <2>. QED  BY <1>5, <1>8, <1>9, <1>10, <1>11, <2>1
<1>15. Rest(w, ct, ad)
  <2>1. Len(w.current) = 0 /\ 0 <= BlockSize
    BY <1>3, BlockSizes
  <2>2. w.idOffset = Len(ad) /\ ad \in Seq(EntryType) /\ Len(ad) \in Nat
    BY <1>1, <1>3 DEF Rest
  <2>3. Len(ad) = UpTo(c, Len(c)) + Len(w.current)
    BY <1>9, <1>14, <2>1, <2>2
  <2>4. \A k \in 1..Len(w.current) : FALSE
    BY <2>1
  <2>5. \A k \in 1..Len(ad) : RecordSize[ad[k].datatype] # 0 =>
          Len(ad[k].entry) = RecordSize[ad[k].datatype]
    BY <1>1 DEF Rest
  <2>. QED  BY <2>1, <2>2, <2>3, <2>4, <2>5 DEF Rest
<1>16. Holds(c, ad, n, ct)
  <2>1. EntriesIn(c, ad, n) = b.current
    <3>1. EntriesIn(c, ad, n) = [k \in 1..num |-> ad[f + k].entry]
      BY <1>8, <1>9, <1>10, <1>11 DEF EntriesIn
    <3>2. EntriesIn(c, ad, n) = [k \in 1..num |-> b.current[k]]
      BY <1>6, <3>1
    <3>3. b.current = [k \in 1..num |-> b.current[k]]
      BY <1>2
    <3>. QED  BY <3>2, <3>3
  <2>2. c[n].block = block /\ block = BuildBlock(RecordSize[ct], b.current)
    BY <1>4, <1>9 DEF block
  <2>3. \A k \in 1..num : ad[UpTo(c, n - 1) + k].datatype = ct
    BY <1>6, <1>10, <1>11
  <2>. QED  BY <1>8, <2>1, <2>2, <2>3 DEF Holds
<1>17. Sections(tp, to, c, ad, open)
  <2>1. \A i \in 0..(Len(tp) - 1) : Bound(to, c, i) = Bound(to, d, i)
    <3>. SUFFICES ASSUME NEW i \in 0..(Len(tp) - 1) PROVE Bound(to, c, i) = Bound(to, d, i)
      OBVIOUS
    <3>1. i \in 0..Len(tp) /\ i < Len(tp)
      BY <1>4
    <3>2. i # 0 => Bound(to, c, i) = to[i] + 1 /\ Bound(to, d, i) = to[i] + 1
      BY <1>1, <3>1, BoundIs
    <3>. QED  BY <3>2 DEF Bound
  <2>2. Bound(to, c, Len(tp)) = n /\ Bound(to, d, Len(tp)) = Len(d)
    <3>1. Len(tp) \in 0..Len(tp) /\ Len(tp) # 0
      BY <1>4
    <3>. QED  BY <1>1, <1>9, <3>1, BoundIs
  <2>. HIDE DEF n
  <2>3. n = Len(d) + 1
    BY DEF n
  <2>4. /\ \A i \in 1..Len(tp) : Bound(to, d, i - 1) <= Bound(to, d, i) /\ Bound(to, d, i) <= Len(d)
        /\ \A i \in 1..(Len(tp) - 1) : Bound(to, d, i - 1) < Bound(to, d, i)
        /\ \A i \in 1..Len(tp) : \A m \in (Bound(to, d, i - 1) + 1)..Bound(to, d, i) :
             /\ Holds(d, ad, m, tp[i])
             /\ (m # Bound(to, d, i) \/ i = Len(tp)) => d[m].block.num = BlockSize
    BY <1>1 DEF Sections
  <2>5. \A i \in 1..Len(tp) : i - 1 \in 0..(Len(tp) - 1) /\ (i = Len(tp) \/ i \in 1..(Len(tp) - 1))
        /\ (i \in 1..(Len(tp) - 1) => i \in 0..(Len(tp) - 1))
    BY <1>4
  <2>6. \A i \in 0..Len(tp) : Bound(to, d, i) \in Nat
    <3>. SUFFICES ASSUME NEW i \in 0..Len(tp) PROVE Bound(to, d, i) \in Nat
      OBVIOUS
    <3>1. i = 0 \/ i = Len(tp) \/ i \in 1..(Len(tp) - 1)
      BY <1>4
    <3>2. to \in Seq(Nat)
      BY <1>1 DEF TypesMet
    <3>3. i \in 1..(Len(tp) - 1) => Bound(to, d, i) = to[i] + 1 /\ i \in 1..Len(to)
      <4>1. i \in 1..(Len(tp) - 1) => i # 0 /\ i < Len(tp)
        BY <1>4
      <4>. QED  BY <1>1, <4>1, BoundIs
    <3>. QED  BY <1>2, <2>2, <3>1, <3>2, <3>3 DEF Bound
  <2>7. \A i \in 1..Len(tp) : Bound(to, c, i - 1) <= Bound(to, c, i) /\ Bound(to, c, i) <= Len(c)
    <3>. SUFFICES ASSUME NEW i \in 1..Len(tp)
                  PROVE  Bound(to, c, i - 1) <= Bound(to, c, i) /\ Bound(to, c, i) <= Len(c)
      OBVIOUS
    <3>1. i - 1 \in 0..Len(tp) /\ i \in 0..Len(tp)
      BY <1>4
    <3>2. Bound(to, d, i - 1) \in Nat /\ Bound(to, d, i) \in Nat
      BY <2>6, <3>1
    <3>3. Bound(to, d, i - 1) <= Bound(to, d, i) /\ Bound(to, d, i) <= Len(d)
      BY <2>4
    <3>4. Bound(to, c, i - 1) = Bound(to, d, i - 1)
      BY <2>1, <2>5
    <3>5. (i = Len(tp) /\ Bound(to, c, i) = n) \/ (Bound(to, c, i) = Bound(to, d, i))
      BY <2>1, <2>2, <2>5
    <3>. QED  BY <1>2, <1>9, <2>3, <3>2, <3>3, <3>4, <3>5
  <2>8. \A i \in 1..(Len(tp) - 1) : Bound(to, c, i - 1) < Bound(to, c, i)
    <3>1. \A i \in 1..(Len(tp) - 1) : i - 1 \in 0..(Len(tp) - 1) /\ i \in 0..(Len(tp) - 1)
      BY <1>4
    <3>. QED  BY <2>1, <2>4, <3>1
  <2>9. ASSUME NEW i \in 1..Len(tp), NEW m \in (Bound(to, c, i - 1) + 1)..Bound(to, c, i)
        PROVE  /\ Holds(c, ad, m, tp[i])
               /\ (m # Bound(to, c, i) \/ (open /\ i = Len(tp))) => c[m].block.num = BlockSize
    <3>1. i - 1 \in 0..Len(tp) /\ i \in 0..Len(tp)
      BY <1>4
    <3>2. Bound(to, d, i - 1) \in Nat /\ Bound(to, d, i) \in Nat /\ Bound(to, d, i) <= Len(d)
      BY <2>4, <2>6, <3>1
    <3>3. Bound(to, c, i - 1) = Bound(to, d, i - 1)
      BY <2>1, <2>5
    <3>4. CASE i = Len(tp) /\ m = n
      <4>1. tp[i] = ct
        BY <1>4, <3>4
      <4>2. open => c[n].block.num = BlockSize
        BY <1>8, <1>9
      <4>3. m = Bound(to, c, i)
        BY <2>2, <3>4
      <4>. QED  BY <1>16, <3>4, <4>1, <4>2, <4>3
    <3>5. CASE ~(i = Len(tp) /\ m = n)
      <4>1. m \in (Bound(to, d, i - 1) + 1)..Bound(to, d, i)
        <5>1. CASE i = Len(tp)
          <6>1. Bound(to, c, i) = n /\ Bound(to, d, i) = Len(d) /\ m # n
            BY <2>2, <3>5, <5>1
          <6>. QED  BY <1>2, <2>3, <3>2, <3>3, <6>1
        <5>2. CASE i # Len(tp)
          <6>1. Bound(to, c, i) = Bound(to, d, i)
            BY <2>1, <2>5, <5>2
          <6>. QED  BY <3>3, <6>1
        <5>. QED  BY <5>1, <5>2
      <4>2. m \in 1..Len(d)
        BY <1>2, <3>2, <4>1
      <4>3. Holds(d, ad, m, tp[i]) /\ ((m # Bound(to, d, i) \/ i = Len(tp)) => d[m].block.num = BlockSize)
        BY <2>4, <4>1
      <4>4. \A k \in 1..m : c[k] = d[k]
        BY <1>2, <1>9, <4>2
      <4>5. Holds(c, ad, m, tp[i])
        <5>1. f <= Len(ad) /\ Len(ad) \in Nat
          BY <1>5
        <5>. QED  BY <1>2, <4>2, <4>3, <4>4, <5>1, HoldsStill
      <4>6. c[m] = d[m]
        BY <1>9, <4>2
      <4>7. i # Len(tp) => Bound(to, c, i) = Bound(to, d, i)
        BY <2>1, <2>5
      <4>. QED  BY <4>3, <4>5, <4>6, <4>7
    <3>. QED  BY <3>4, <3>5
  <2>. QED  BY <2>7, <2>8, <2>9 DEF Sections
<1>21. Bound(to, c, Len(tp) - 1) < n
  <2>1. Len(tp) \in 1..Len(tp) /\ Len(tp) - 1 \in 0..Len(tp) /\ Len(tp) \in 0..Len(tp)
        /\ Len(tp) - 1 # Len(tp) /\ Len(tp) # 0 /\ Len(tp) - 1 < Len(tp)
    BY <1>4
  <2>2. Bound(to, d, Len(tp) - 1) <= Bound(to, d, Len(tp)) /\ Bound(to, d, Len(tp)) = Len(d)
    BY <1>1, <2>1, BoundIs DEF Sections
  <2>3. Bound(to, d, Len(tp) - 1) \in Nat
    BY <1>1, <1>2, <2>1, BoundType
  <2>4. Bound(to, c, Len(tp) - 1) = Bound(to, d, Len(tp) - 1)
    <3>. DEFINE j == Len(tp) - 1
    <3>1. j \in 0..Len(tp) /\ j < Len(tp)
      BY <2>1
    <3>. HIDE DEF j
    <3>2. j # 0 => Bound(to, c, j) = to[j] + 1 /\ Bound(to, d, j) = to[j] + 1
      BY <1>1, <3>1, BoundIs
    <3>3. Bound(to, c, j) = Bound(to, d, j)
      BY <3>2 DEF Bound
    <3>. QED  BY <3>3 DEF j
  <2>. QED  BY <1>2, <2>2, <2>3, <2>4
<1>18. OffsetsAre(w.offsets, c, n)
  <2>1. b.offsets \in Seq(Nat) /\ Len(b.offsets) = Len(d) /\ \A m \in 1..Len(d) : b.offsets[m] = EndAt(d, m)
    BY DEF OffsetsAre
  <2>2. w.blockOffset \in Nat /\ w.offsets = Append(b.offsets, w.blockOffset)
    BY <1>2, <1>3, <1>8
  <2>3. /\ w.offsets \in Seq(Nat) /\ Len(w.offsets) = n /\ w.offsets[n] = w.blockOffset
        /\ \A m \in 1..Len(d) : w.offsets[m] = b.offsets[m]
    BY <1>2, <2>1, <2>2, AppendProperties
  <2>4. \A m \in 1..Len(d) : m \in 0..Len(d)
    OBVIOUS
  <2>5. \A m \in 1..n : w.offsets[m] = EndAt(c, m)
    BY <1>10, <1>11, <1>12, <2>1, <2>3, <2>4
  <2>. QED  BY <2>3, <2>5 DEF OffsetsAre
<1>19. w.recordSize = IF ct = 0 THEN 0 ELSE RecordSize[ct]
  BY <1>3 DEF Building
<1>20. Building(tp, to, w, ct, ad, open)
  BY <1>1, <1>4, <1>13, <1>15, <1>17, <1>19 DEF Building
<1>. QED  BY <1>3, <1>9, <1>18, <1>20, <1>21 DEF w, n

\* An entry of the current type joins the block at hand.
LEMMA AppendKeeps ==
  ASSUME NEW tp, NEW to, NEW b, NEW ct, NEW ad, Building(tp, to, b, ct, ad, TRUE), tp # <<>>,
         Len(b.current) < BlockSize,
         NEW v \in Seq(Nat), RecordSize[ct] # 0 => Len(v) = RecordSize[ct],
         NEW b2 \in BuilderType, b2.recordSize = b.recordSize, b2.data = b.data,
         b2.blockOffset = b.blockOffset, b2.idOffset = b.idOffset + 1,
         b2.current = Append(b.current, v)
  PROVE  Building(tp, to, b2, ct, Append(ad, Typed(ct, v)), TRUE)
<1>. DEFINE e == Typed(ct, v)
            ae == Append(ad, e)
            d == b.data
            f == UpTo(d, Len(d))
            num == Len(b.current)
<1>1. TypesMet(tp, to, ct) /\ Written(b) /\ Rest(b, ct, ad) /\ Sections(tp, to, d, ad, TRUE)
  BY DEF Building
<1>2. /\ d \in Seq(Placed) /\ Len(d) \in Nat /\ b.current \in Seq(Seq(Nat)) /\ num \in Nat
      /\ Len(d) \in 0..Len(d)
  BY <1>1 DEF Written, BuilderType
<1>3. ct \in Types /\ Len(tp) \in Nat \ {0}
  <2>1. Len(tp) \in Nat \ {0} /\ tp[Len(tp)] \in Types /\ ct = tp[Len(tp)]
    BY <1>1 DEF TypesMet
  <2>. QED  BY <2>1
<1>4. e \in EntryType /\ e.datatype = ct /\ e.entry = v
  BY <1>3 DEF Typed, EntryType
<1>5. ad \in Seq(EntryType) /\ Len(ad) = f + num /\ b.idOffset = Len(ad) /\ f \in Nat
      /\ Len(ad) \in Nat
  BY <1>1, <1>2, UpToIs DEF Rest
<1>6. /\ ae \in Seq(EntryType) /\ Len(ae) = Len(ad) + 1 /\ ae[Len(ad) + 1] = e
      /\ \A k \in 1..Len(ad) : ae[k] = ad[k]
  <2>. HIDE DEF e
  <2>. QED  BY <1>4, <1>5, AppendProperties
<1>7. /\ b2.current \in Seq(Seq(Nat)) /\ Len(b2.current) = num + 1 /\ b2.current[num + 1] = v
      /\ \A k \in 1..num : b2.current[k] = b.current[k]
  BY <1>2, AppendProperties
<1>. HIDE DEF e, ae
<1>8. Written(b2)
  BY <1>1 DEF Written
<1>9. Rest(b2, ct, ae)
  <2>1. \A k \in 1..Len(ae) : RecordSize[ae[k].datatype] # 0 =>
          Len(ae[k].entry) = RecordSize[ae[k].datatype]
    <3>. SUFFICES ASSUME NEW k \in 1..Len(ae)
                  PROVE  RecordSize[ae[k].datatype] # 0 =>
                           Len(ae[k].entry) = RecordSize[ae[k].datatype]
      OBVIOUS
    <3>1. k = Len(ad) + 1 \/ k \in 1..Len(ad)
      BY <1>5, <1>6
    <3>2. \A m \in 1..Len(ad) : RecordSize[ad[m].datatype] # 0 =>
            Len(ad[m].entry) = RecordSize[ad[m].datatype]
      BY <1>1 DEF Rest
    <3>. QED  BY <1>4, <1>6, <3>1, <3>2
  <2>2. Len(b2.current) <= BlockSize
    BY <1>2, <1>7, BlockSizes
  <2>3. Len(ae) = UpTo(b2.data, Len(b2.data)) + Len(b2.current)
    <3>. HIDE DEF f, num
    <3>1. num \in Nat
      BY <1>2
    <3>. QED  BY <1>5, <1>6, <1>7, <3>1 DEF f, num
  <2>4. ASSUME NEW k \in 1..Len(b2.current)
        PROVE  b2.current[k] = ae[f + k].entry /\ ae[f + k].datatype = ct
    <3>1. CASE k = num + 1
      <4>1. f + k = Len(ad) + 1
        BY <1>2, <1>5, <3>1
      <4>. QED  BY <1>4, <1>6, <1>7, <3>1, <4>1
    <3>2. CASE k # num + 1
      <4>1. k \in 1..num /\ f + k \in 1..Len(ad)
        <5>. HIDE DEF f, num
        <5>1. num \in Nat /\ k \in 1..(num + 1)
          BY <1>2, <1>7 DEF num
        <5>2. f \in Nat /\ Len(ad) = f + num
          BY <1>5
        <5>. QED  BY <3>2, <5>1, <5>2
      <4>2. b.current[k] = ad[f + k].entry /\ ad[f + k].datatype = ct
        BY <1>1, <4>1 DEF Rest
      <4>. QED  BY <1>6, <1>7, <4>1, <4>2
    <3>. QED  BY <3>1, <3>2
  <2>5. b2.idOffset = Len(ae)
    BY <1>5, <1>6
  <2>. QED  BY <1>6, <2>1, <2>2, <2>3, <2>4, <2>5 DEF Rest
<1>10. Sections(tp, to, d, ae, TRUE)
  <2>1. /\ \A i \in 1..Len(tp) : Bound(to, d, i - 1) <= Bound(to, d, i) /\ Bound(to, d, i) <= Len(d)
        /\ \A i \in 1..(Len(tp) - 1) : Bound(to, d, i - 1) < Bound(to, d, i)
        /\ \A i \in 1..Len(tp) : \A m \in (Bound(to, d, i - 1) + 1)..Bound(to, d, i) :
             /\ Holds(d, ad, m, tp[i])
             /\ (m # Bound(to, d, i) \/ (TRUE /\ i = Len(tp))) => d[m].block.num = BlockSize
    BY <1>1 DEF Sections
  <2>2. ASSUME NEW i \in 1..Len(tp), NEW m \in (Bound(to, d, i - 1) + 1)..Bound(to, d, i)
        PROVE  Holds(d, ae, m, tp[i])
    <3>1. m \in 1..Len(d)
      BY <1>1, <1>2, <2>1, <2>2, SectionIn
    <3>2. Holds(d, ad, m, tp[i])
      BY <2>1
    <3>3. f <= Len(ad) /\ Len(ad) \in Nat
      BY <1>2, <1>5
    <3>. QED  BY <1>2, <1>6, <3>1, <3>2, <3>3, HoldsStill
  <2>. QED  BY <2>1, <2>2 DEF Sections
<1>11. tp # <<>> /\ b2.recordSize = IF ct = 0 THEN 0 ELSE RecordSize[ct]
  BY DEF Building
<1>12. Sections(tp, to, b2.data, ae, TRUE)
  BY <1>10
<1>. QED  BY <1>1, <1>8, <1>9, <1>11, <1>12 DEF Building, ae, e

\* A type that is not the current one opens: the block of the old one is
\* written, and its last block noted.
LEMMA SwitchKeeps ==
  ASSUME NEW tp, NEW to, NEW b, NEW ct, NEW ad, NEW open \in BOOLEAN,
         Building(tp, to, b, ct, ad, open), b.current = <<>>, NEW t \in Types, ct < t,
         tp # <<>> => Bound(to, b.data, Len(tp) - 1) < Len(b.data),
         NEW b2 \in BuilderType, b2.recordSize = RecordSize[t], b2.data = b.data,
         b2.blockOffset = b.blockOffset, b2.idOffset = b.idOffset, b2.current = <<>>
  PROVE  Building(Append(tp, t), IF tp = <<>> THEN to ELSE Append(to, Len(b.data) - 1),
                  b2, t, ad, TRUE)
<1>. DEFINE up == Append(tp, t)
            uo == IF tp = <<>> THEN to ELSE Append(to, Len(b.data) - 1)
            d == b.data
            last == Len(tp)
<1>1. TypesMet(tp, to, ct) /\ Written(b) /\ Rest(b, ct, ad) /\ Sections(tp, to, d, ad, open)
  BY DEF Building
<1>2. d \in Seq(Placed) /\ Len(d) \in Nat /\ (tp = <<>> => Len(d) = 0)
  BY <1>1 DEF Building, Written, BuilderType
<1>3. /\ tp \in Seq(Types) /\ to \in Seq(Nat) /\ last \in Nat
      /\ Len(to) = (IF tp = <<>> THEN 0 ELSE last - 1) /\ (tp = <<>> <=> last = 0)
      /\ \A i, j \in 1..last : i < j => tp[i] < tp[j]
      /\ tp # <<>> => ct = tp[last]
  BY <1>1 DEF TypesMet
<1>4. /\ up \in Seq(Types) /\ Len(up) = last + 1 /\ up[last + 1] = t /\ up # <<>>
      /\ \A i \in 1..last : up[i] = tp[i]
  BY <1>3, AppendProperties
<1>. DEFINE old == Bound(to, d, last - 1)
<1>5. tp # <<>> => old \in Nat /\ old < Len(d) /\ Len(d) - 1 \in Nat
  <2>1. tp # <<>> => last - 1 \in 0..last
    BY <1>3
  <2>2. tp # <<>> => old \in Nat
    BY <1>1, <1>2, <2>1, BoundType
  <2>. QED  BY <1>2, <2>2
<1>6. /\ uo \in Seq(Nat) /\ Len(uo) = last
      /\ \A i \in 1..Len(to) : uo[i] = to[i]
      /\ tp # <<>> => uo[last] = Len(d) - 1
  <2>1. CASE tp = <<>>
    BY <1>3, <2>1
  <2>2. CASE tp # <<>>
    <3>1. uo = Append(to, Len(d) - 1) /\ Len(d) - 1 \in Nat /\ Len(to) = last - 1
      BY <1>3, <1>5, <2>2
    <3>2. /\ uo \in Seq(Nat) /\ Len(uo) = Len(to) + 1 /\ uo[Len(to) + 1] = Len(d) - 1
          /\ \A i \in 1..Len(to) : uo[i] = to[i]
      BY <1>3, <3>1, AppendProperties
    <3>3. Len(to) + 1 = last
      BY <1>3, <3>1
    <3>. QED  BY <3>2, <3>3
  <2>. QED  BY <2>1, <2>2
<1>. HIDE DEF up, uo, old
<1>7. Written(b2)
  BY <1>1 DEF Written
<1>8. Rest(b2, t, ad)
  BY <1>1 DEF Rest
<1>9. TypesMet(up, uo, t)
  <2>1. \A i \in 1..last : tp[i] < t
    <3>1. tp # <<>> => tp[last] < t
      BY <1>3
    <3>2. ASSUME NEW i \in 1..last
          PROVE  tp[i] \in Nat /\ t \in Nat /\ tp # <<>> /\ last \in 1..last /\ tp[last] \in Nat
      <4>1. last \in 1..last /\ tp # <<>>
        BY <1>3
      <4>2. tp[i] \in Types /\ tp[last] \in Types
        BY <1>3, <4>1
      <4>. QED  BY <4>1, <4>2, TypesAssumption
    <3>3. \A i \in 1..last : i = last \/ tp[i] < tp[last]
      BY <1>3
    <3>. QED  BY <3>1, <3>2, <3>3
  <2>2. \A i, j \in 1..(last + 1) : i < j => up[i] < up[j]
    <3>. SUFFICES ASSUME NEW i \in 1..(last + 1), NEW j \in 1..(last + 1), i < j
                  PROVE  up[i] < up[j]
      OBVIOUS
    <3>1. i \in 1..last /\ (j = last + 1 \/ j \in 1..last)
      BY <1>3
    <3>. QED  BY <1>3, <1>4, <2>1, <3>1
  <2>3. DOMAIN up = 1..(last + 1)
    BY <1>3, <1>4
  <2>. QED  BY <1>4, <1>6, <2>2, <2>3, <1>3 DEF TypesMet
<1>10. /\ \A i \in 0..last : i < last => Bound(uo, d, i) = Bound(to, d, i)
       /\ Bound(uo, d, last) = Len(d) /\ Bound(uo, d, last + 1) = Len(d)
  <2>1. ASSUME NEW i \in 0..last, i < last PROVE Bound(uo, d, i) = Bound(to, d, i)
    <3>1. i # 0 => i \in 1..Len(to) /\ i <= Len(to) /\ i <= Len(uo)
      BY <1>3, <1>6, <2>1
    <3>. QED  BY <1>6, <3>1 DEF Bound
  <2>2. Bound(uo, d, last) = Len(d)
    <3>1. CASE tp = <<>>
      BY <1>2, <1>3, <3>1 DEF Bound
    <3>2. CASE tp # <<>>
      <4>1. last # 0 /\ last <= Len(uo) /\ (Len(d) - 1) + 1 = Len(d)
        BY <1>2, <1>3, <1>6, <3>2
      <4>. QED  BY <1>6, <3>2, <4>1 DEF Bound
    <3>. QED  BY <3>1, <3>2
  <2>3. Bound(uo, d, last + 1) = Len(d)
    <3>1. last + 1 # 0 /\ ~(last + 1 <= Len(uo))
      BY <1>3, <1>6
    <3>. QED  BY <3>1 DEF Bound
  <2>. QED  BY <2>1, <2>2, <2>3
<1>11. Sections(up, uo, d, ad, TRUE)
  <2>1. /\ \A i \in 1..last : Bound(to, d, i - 1) <= Bound(to, d, i) /\ Bound(to, d, i) <= Len(d)
        /\ \A i \in 1..(last - 1) : Bound(to, d, i - 1) < Bound(to, d, i)
        /\ \A i \in 1..last : \A m \in (Bound(to, d, i - 1) + 1)..Bound(to, d, i) :
             /\ Holds(d, ad, m, tp[i])
             /\ (m # Bound(to, d, i) \/ (open /\ i = last)) => d[m].block.num = BlockSize
    BY <1>1 DEF Sections
  <2>2. last # 0 => Bound(to, d, last) = Len(d)
    <3>1. last \in 0..last
      BY <1>3
    <3>. QED  BY <1>1, <3>1, BoundIs
  <2>3. \A i \in 0..last : i # 0 => Bound(uo, d, i) = Bound(to, d, i)
    <3>. SUFFICES ASSUME NEW i \in 0..last, i # 0 PROVE Bound(uo, d, i) = Bound(to, d, i)
      OBVIOUS
    <3>1. i < last \/ i = last
      BY <1>3
    <3>. QED  BY <1>10, <2>2, <3>1
  <2>4. \A i \in 1..last : i - 1 \in 0..last /\ i - 1 < last /\ i \in 0..last /\ i # 0
    BY <1>3
  <2>5. \A i \in 1..last : Bound(uo, d, i) = Bound(to, d, i) /\ Bound(uo, d, i - 1) = Bound(to, d, i - 1)
    BY <1>10, <2>3, <2>4
  <2>6. \A i \in 1..(last + 1) : i \in 1..last \/ (i = last + 1 /\ i - 1 = last)
    BY <1>3
  <2>7. \A i \in 1..(last + 1) : Bound(uo, d, i - 1) <= Bound(uo, d, i) /\ Bound(uo, d, i) <= Len(d)
    <3>1. Len(d) <= Len(d)
      BY <1>2
    <3>. QED  BY <1>10, <2>1, <2>5, <2>6, <3>1
  <2>8. \A i \in 1..((last + 1) - 1) : Bound(uo, d, i - 1) < Bound(uo, d, i)
    <3>. SUFFICES ASSUME NEW i \in 1..last PROVE Bound(uo, d, i - 1) < Bound(uo, d, i)
      BY <1>3
    <3>1. CASE i = last
      <4>1. tp # <<>> /\ Bound(uo, d, i - 1) = old
        BY <1>3, <2>5, <3>1 DEF old
      <4>. QED  BY <1>5, <1>10, <3>1, <4>1
    <3>2. CASE i # last
      <4>1. i \in 1..(last - 1)
        BY <1>3, <3>2
      <4>. QED  BY <2>1, <2>5, <4>1
    <3>. QED  BY <3>1, <3>2
  <2>9. ASSUME NEW i \in 1..(last + 1), NEW m \in (Bound(uo, d, i - 1) + 1)..Bound(uo, d, i)
        PROVE  /\ Holds(d, ad, m, up[i])
               /\ (m # Bound(uo, d, i) \/ (TRUE /\ i = last + 1)) => d[m].block.num = BlockSize
    <3>1. i \in 1..last
      <4>1. i = last + 1 => m \in (Len(d) + 1)..Len(d)
        BY <1>10, <2>6
      <4>2. ~(m \in (Len(d) + 1)..Len(d))
        BY <1>2
      <4>. QED  BY <2>6, <4>1, <4>2
    <3>2. m \in (Bound(to, d, i - 1) + 1)..Bound(to, d, i) /\ i # last + 1
      BY <1>3, <2>5, <3>1
    <3>. QED  BY <1>4, <2>1, <2>5, <3>1, <3>2
  <2>. QED  BY <1>4, <2>7, <2>8, <2>9 DEF Sections
<1>12. t # 0
  BY TypesAssumption
<1>13. Sections(up, uo, b2.data, ad, TRUE)
  BY <1>11
<1>. QED  BY <1>4, <1>7, <1>8, <1>9, <1>12, <1>13 DEF Building, up, uo

\* Nothing has been added.
LEMMA BuildingStarts ==
  Building(<<>>, <<>>, NewBuilder(0, 0, 0, <<>>, <<>>), 0, <<>>, TRUE)
<1>. DEFINE b == NewBuilder(0, 0, 0, <<>>, <<>>)
<1>1. /\ b \in BuilderType /\ b.data = <<>> /\ b.current = <<>> /\ b.blockOffset = 0
      /\ b.idOffset = 0 /\ b.recordSize = 0
  BY DEF NewBuilder, BuilderType
<1>. HIDE DEF b
<1>2. Written(b)
  BY <1>1 DEF Written, EndAt
<1>3. Rest(b, 0, <<>>)
  <2>1. <<>> \in Seq(Placed) /\ UpTo(<<>>, Len(<<>>)) = 0
    <3>1. <<>> \in Seq(Placed) /\ Len(<<>>) = 0
      OBVIOUS
    <3>. QED  BY <3>1, UpToIs
  <2>. QED  BY <1>1, <2>1, BlockSizes DEF Rest
<1>4. TypesMet(<<>>, <<>>, 0)
  BY DEF TypesMet
<1>5. Sections(<<>>, <<>>, b.data, <<>>, TRUE)
  BY DEF Sections
<1>. QED  BY <1>1, <1>2, <1>3, <1>4, <1>5 DEF Building, b

\* A builder at work on these entries.
AtWork(tp, to, b, ct, ad) ==
  /\ Building(tp, to, b, ct, ad, TRUE)
  /\ OffsetsAre(b.offsets, b.data, Len(b.data))
  /\ Len(b.current) < BlockSize
  /\ tp # <<>> =>
       /\ Bound(to, b.data, Len(tp) - 1) < Len(b.data) \/ b.current # <<>>
       /\ ad # <<>> /\ ad[Len(ad)].datatype = ct

\* The types met when one of type t is added, and their last blocks.
TypesWith(tp, ct, t) == IF ct = t THEN tp ELSE Append(tp, t)
OffsetsWith(to, b, ct, t) ==
  IF ct \in {0, t} THEN to ELSE Append(to, LastBlock(Finalized(b).offsets))

\* The builder with which an entry of type t is added.
LEMMA SwitchIs ==
  ASSUME NEW tp, NEW to, NEW b, NEW ct, NEW ad, AtWork(tp, to, b, ct, ad),
         NEW t \in Types, ct <= t
  PROVE  LET s == Switched(b, ct, t)
             up == TypesWith(tp, ct, t)
             uo == OffsetsWith(to, b, ct, t)
         IN  /\ Building(up, uo, s, t, ad, TRUE) /\ up # <<>>
             /\ OffsetsAre(s.offsets, s.data, Len(s.data))
             /\ Len(s.current) < BlockSize /\ s \in BuilderType
<1>. DEFINE s == Switched(b, ct, t)
<1>1. /\ Building(tp, to, b, ct, ad, TRUE) /\ Len(b.current) < BlockSize
      /\ OffsetsAre(b.offsets, b.data, Len(b.data))
      /\ tp # <<>> => Bound(to, b.data, Len(tp) - 1) < Len(b.data) \/ b.current # <<>>
  BY DEF AtWork
<1>2. TypesMet(tp, to, ct) /\ b \in BuilderType
  BY <1>1 DEF Building, Written
<1>3. t \in Nat \ {0} /\ (tp = <<>> <=> ct = 0) /\ (tp # <<>> => ct \in Nat)
  <2>1. t \in Nat \ {0}
    BY TypesAssumption
  <2>2. tp # <<>> => ct \in Nat \ {0}
    <3>1. tp # <<>> => tp[Len(tp)] \in Types /\ ct = tp[Len(tp)]
      BY <1>2 DEF TypesMet
    <3>. QED  BY <3>1, TypesAssumption
  <2>3. tp = <<>> => ct = 0
    BY <1>2 DEF TypesMet
  <2>. QED  BY <2>1, <2>2, <2>3
<1>4. CASE ct = t
  <2>1. s = b /\ tp # <<>>
    BY <1>3, <1>4 DEF Switched
  <2>. QED  BY <1>1, <1>2, <1>4, <2>1 DEF s, TypesWith, OffsetsWith
<1>5. CASE ct = 0
  <2>1. tp = <<>> /\ ct < t /\ ct # t
    BY <1>3, <1>5
  <2>2. s = [b EXCEPT !.recordSize = RecordSize[t]]
    BY <1>5 DEF Switched
  <2>3. RecordSize[t] \in Nat
    BY TypesAssumption
  <2>4. /\ s \in BuilderType /\ s.recordSize = RecordSize[t] /\ s.data = b.data
        /\ s.blockOffset = b.blockOffset /\ s.idOffset = b.idOffset /\ s.current = b.current
        /\ s.offsets = b.offsets
    BY <1>2, <2>2, <2>3 DEF BuilderType
  <2>5. b.current = <<>>
    BY <1>1, <2>1 DEF Building
  <2>. HIDE DEF s
  <2>6. Building(Append(tp, t), IF tp = <<>> THEN to ELSE Append(to, Len(b.data) - 1),
                 s, t, ad, TRUE)
    BY <1>1, <2>1, <2>4, <2>5, SwitchKeeps
  <2>7. Building(Append(tp, t), to, s, t, ad, TRUE)
    BY <2>1, <2>6
  <2>8. Append(tp, t) # <<>>
    BY <2>1
  <2>9. Len(s.current) < BlockSize
    BY <1>1, <2>4
  <2>10. OffsetsAre(s.offsets, s.data, Len(s.data))
    BY <1>1, <2>4
  <2>. QED  BY <1>5, <2>1, <2>4, <2>7, <2>8, <2>9, <2>10 DEF s, TypesWith, OffsetsWith
<1>6. CASE ct # t /\ ct # 0
  <2>1. tp # <<>> /\ ct < t
    BY <1>3, <1>6
  <2>. DEFINE w == Finalized(b)
  <2>2. /\ \E open \in BOOLEAN : Building(tp, to, w, ct, ad, open)
        /\ OffsetsAre(w.offsets, w.data, Len(w.data)) /\ w.current = <<>>
        /\ Bound(to, w.data, Len(tp) - 1) < Len(w.data)
    <3>1. CASE Len(b.current) > 0
      <4>1. w = WriteBlock(b) /\ b.current # <<>>
        BY <3>1 DEF Finalized
      <4>. DEFINE open == FALSE
      <4>2. open \in BOOLEAN /\ (open => Len(b.current) = BlockSize)
        OBVIOUS
      <4>. HIDE DEF open, w
      <4>3. /\ Building(tp, to, w, ct, ad, open)
            /\ OffsetsAre(w.offsets, w.data, Len(w.data)) /\ w.current = <<>>
            /\ Bound(to, w.data, Len(tp) - 1) < Len(w.data)
        BY <1>1, <4>1, <4>2, FlushKeeps
      <4>. QED  BY <4>2, <4>3
    <3>2. CASE ~(Len(b.current) > 0)
      <4>1. b.current = <<>>
        BY <1>2, <3>2 DEF BuilderType
      <4>2. w = b
        BY <3>2 DEF Finalized
      <4>. QED  BY <1>1, <2>1, <4>1, <4>2
    <3>. QED  BY <3>1, <3>2
  <2>. HIDE DEF w
  <2>3. PICK open \in BOOLEAN : Building(tp, to, w, ct, ad, open)
    BY <2>2
  <2>4. s = NewBuilder(RecordSize[t], w.blockOffset, w.idOffset, w.offsets, w.data)
    BY <1>6 DEF Switched, w
  <2>5. w \in BuilderType /\ RecordSize[t] \in Nat
    BY <2>3, TypesAssumption DEF Building, Written
  <2>6. /\ s \in BuilderType /\ s.recordSize = RecordSize[t] /\ s.data = w.data
        /\ s.blockOffset = w.blockOffset /\ s.idOffset = w.idOffset /\ s.current = <<>>
        /\ s.offsets = w.offsets
    BY <2>4, <2>5 DEF BuilderType, NewBuilder
  <2>. HIDE DEF s
  <2>7. Building(Append(tp, t), IF tp = <<>> THEN to ELSE Append(to, Len(w.data) - 1),
                 s, t, ad, TRUE)
    BY <2>1, <2>2, <2>3, <2>6, SwitchKeeps
  <2>8. LastBlock(w.offsets) = Len(w.data) - 1
    BY <2>2 DEF LastBlock, OffsetsAre
  <2>9. Building(Append(tp, t), Append(to, LastBlock(w.offsets)), s, t, ad, TRUE)
    BY <2>1, <2>7, <2>8
  <2>10. Append(tp, t) # <<>>
    <3>1. tp \in Seq(Types)
      BY <1>2 DEF TypesMet
    <3>. QED  BY <3>1
  <2>11. Len(s.current) < BlockSize
    <3>1. Len(<<>>) = 0
      OBVIOUS
    <3>. QED  BY <2>6, <3>1, BlockSizes
  <2>12. OffsetsAre(s.offsets, s.data, Len(s.data))
    BY <2>2, <2>6
  <2>. QED  BY <1>6, <2>6, <2>9, <2>10, <2>11, <2>12 DEF s, w, TypesWith, OffsetsWith
<1>. QED  BY <1>4, <1>5, <1>6

\* An entry is added, and a block that is full by that is written.
LEMMA AddIs ==
  ASSUME NEW tp, NEW to, NEW b, NEW ct, NEW ad, AtWork(tp, to, b, ct, ad),
         NEW t \in Types, NEW v \in ValuesOf(t), ct <= t
  PROVE  AtWork(TypesWith(tp, ct, t), OffsetsWith(to, b, ct, t),
                AddTo(Switched(b, ct, t), v), t, Append(ad, Typed(t, v)))
<1>. DEFINE e == Typed(t, v)
            s == Switched(b, ct, t)
            up == TypesWith(tp, ct, t)
            uo == OffsetsWith(to, b, ct, t)
            a == [s EXCEPT !.current = Append(@, v), !.idOffset = @ + 1]
            nb == AddTo(s, v)
            ae == Append(ad, e)
<1>1. ae = Append(ad, e) /\ e.datatype = t /\ e.entry = v
  BY DEF Typed
<1>2. v \in Seq(Nat) /\ (RecordSize[t] # 0 => Len(v) = RecordSize[t]) /\ t \in Nat \ {0}
  BY TypesAssumption
<1>4. /\ Building(up, uo, s, t, ad, TRUE) /\ up # <<>>
      /\ OffsetsAre(s.offsets, s.data, Len(s.data))
      /\ Len(s.current) < BlockSize /\ s \in BuilderType
  BY SwitchIs
<1>. HIDE DEF s, up, uo, ae
<1>5. /\ s.recordSize \in Nat /\ s.blockOffset \in Nat /\ s.idOffset \in Nat
      /\ s.offsets \in Seq(Nat) /\ s.data \in Seq(Placed) /\ s.current \in Seq(Seq(Nat))
  BY <1>4 DEF BuilderType
<1>6. /\ a \in BuilderType /\ a.recordSize = s.recordSize /\ a.data = s.data
      /\ a.blockOffset = s.blockOffset /\ a.idOffset = s.idOffset + 1
      /\ a.current = Append(s.current, v) /\ a.offsets = s.offsets
  <2>. DEFINE c == Append(s.current, v)
  <2>1. c \in Seq(Seq(Nat)) /\ s.idOffset + 1 \in Nat
    BY <1>2, <1>5
  <2>2. a = [s EXCEPT !.current = c, !.idOffset = s.idOffset + 1]
    BY <1>4 DEF BuilderType
  <2>. HIDE DEF c, a
  <2>3. /\ a \in BuilderType /\ a.recordSize = s.recordSize /\ a.data = s.data
        /\ a.blockOffset = s.blockOffset /\ a.idOffset = s.idOffset + 1
        /\ a.current = c /\ a.offsets = s.offsets
    BY <1>4, <2>1, <2>2 DEF BuilderType
  <2>. QED  BY <2>3 DEF c
<1>7. nb = IF Len(a.current) = BlockSize THEN WriteBlock(a) ELSE a
  BY DEF AddTo, IsFull, nb, a
<1>. HIDE DEF a, nb
<1>8. Building(up, uo, a, t, ae, TRUE)
  BY <1>1, <1>2, <1>4, <1>6, AppendKeeps
<1>9. /\ Len(a.current) = Len(s.current) + 1 /\ Len(a.current) \in Nat \ {0}
      /\ Len(a.current) <= BlockSize /\ a.current # <<>>
  <2>1. Len(s.current) \in Nat
    BY <1>5
  <2>2. Len(Append(s.current, v)) = Len(s.current) + 1 /\ Append(s.current, v) # <<>>
    <3>. DEFINE c == s.current
    <3>. HIDE DEF c
    <3>1. c \in Seq(Seq(Nat)) /\ v \in Seq(Nat)
      BY <1>2, <1>5 DEF c
    <3>2. Len(Append(c, v)) = Len(c) + 1 /\ Append(c, v) # <<>>
      <4>. DEFINE V == Seq(Nat)
      <4>1. c \in Seq(V) /\ v \in V
        BY <3>1
      <4>. HIDE DEF V
      <4>. QED  BY <4>1, AppendProperties
    <3>. QED  BY <3>2 DEF c
  <2>. QED  BY <1>4, <1>6, <2>1, <2>2, BlockSizes
<1>10. ae # <<>> /\ ae[Len(ae)].datatype = t
  <2>1. ad \in Seq(EntryType)
    BY <1>4 DEF Building, Rest
  <2>2. ae # <<>> /\ ae[Len(ae)] = e
    <3>1. e \in EntryType
      BY <1>2 DEF EntryType, Typed
    <3>. HIDE DEF e
    <3>. QED  BY <1>1, <2>1, <3>1, AppendProperties
  <2>. QED  BY <1>1, <2>2
<1>11. OffsetsAre(a.offsets, a.data, Len(a.data))
  BY <1>4, <1>6
<1>12. /\ Building(up, uo, nb, t, ae, TRUE)
       /\ OffsetsAre(nb.offsets, nb.data, Len(nb.data))
       /\ Len(nb.current) < BlockSize
       /\ Bound(uo, nb.data, Len(up) - 1) < Len(nb.data) \/ nb.current # <<>>
  <2>1. CASE Len(a.current) = BlockSize
    <3>. DEFINE open == TRUE
    <3>1. open \in BOOLEAN /\ (open => Len(a.current) = BlockSize)
      BY <2>1
    <3>. HIDE DEF open
    <3>. DEFINE w == WriteBlock(a)
    <3>. HIDE DEF w
    <3>2. /\ Building(up, uo, w, t, ae, open)
          /\ OffsetsAre(w.offsets, w.data, Len(w.data)) /\ w.current = <<>>
          /\ Bound(uo, w.data, Len(up) - 1) < Len(w.data)
      BY <1>8, <1>9, <1>11, <3>1, FlushKeeps DEF w
    <3>3. nb = w
      BY <1>7, <2>1 DEF w
    <3>4. Len(<<>>) = 0
      OBVIOUS
    <3>5. Building(up, uo, w, t, ae, TRUE)
      BY <3>2 DEF open
    <3>6. Building(up, uo, nb, t, ae, TRUE)
      BY <3>3, <3>5
    <3>7. Len(nb.current) < BlockSize
      BY <3>2, <3>3, <3>4, BlockSizes
    <3>. QED  BY <3>2, <3>3, <3>6, <3>7
  <2>2. CASE Len(a.current) # BlockSize
    <3>1. nb = a
      BY <1>7, <2>2
    <3>2. Len(a.current) < BlockSize
      BY <1>9, <2>2, BlockSizes
    <3>. QED  BY <1>8, <1>9, <1>11, <3>1, <3>2
  <2>. QED  BY <2>1, <2>2
<1>13. AtWork(up, uo, nb, t, ae)
  BY <1>10, <1>12 DEF AtWork
<1>. QED  BY <1>13 DEF nb, up, uo, ae, s

\* What a builder at work has is the invariant of building.
LEMMA AtWorkIs ==
  Inv /\ phase = "building" <=>
    AtWork(typesPresent, typeOffsets, builder, currentType, added) /\ phase = "building"
BY DEF Inv, AtWork

\* Types come in order.
LEMMA TypeFollows ==
  ASSUME Inv, phase = "building", NEW t \in Types, NEW v, MayFollow(Typed(t, v))
  PROVE  currentType <= t
<1>1. t \in Nat \ {0}
  BY TypesAssumption
<1>2. TypesMet(typesPresent, typeOffsets, currentType) /\ Rest(builder, currentType, added)
  BY DEF Inv, Building
<1>3. CASE typesPresent = <<>>
  BY <1>2, <1>3, <1>1 DEF TypesMet
<1>4. CASE typesPresent # <<>>
  <2>1. added # <<>> /\ added[Len(added)].datatype = currentType
    BY <1>4 DEF Inv
  <2>2. Last(added) = added[Len(added)]
    BY DEF Last
  <2>3. currentType < t \/ currentType = t
    BY <2>1, <2>2 DEF MayFollow, Typed
  <2>4. currentType \in Nat
    <3>1. typesPresent[Len(typesPresent)] \in Types
      BY <1>2, <1>4 DEF TypesMet
    <3>. QED  BY <1>2, <1>4, <3>1, TypesAssumption DEF TypesMet
  <2>. QED  BY <1>1, <2>3, <2>4
<1>. QED  BY <1>3, <1>4

\* An entry is added to the dictionary.
LEMMA AddKeeps ==
  ASSUME Inv, phase = "building", NEW t \in Types, NEW v \in ValuesOf(t),
         MayFollow(Typed(t, v)), AddEntry(Typed(t, v))
  PROVE  Inv'
<1>1. AtWork(typesPresent, typeOffsets, builder, currentType, added) /\ currentType <= t
  BY AtWorkIs, TypeFollows
<1>2. AtWork(TypesWith(typesPresent, currentType, t),
             OffsetsWith(typeOffsets, builder, currentType, t),
             AddTo(Switched(builder, currentType, t), v), t, Append(added, Typed(t, v)))
  BY <1>1, AddIs
<1>3. /\ phase' = "building" /\ currentType' = t /\ added' = Append(added, Typed(t, v))
      /\ typesPresent' = TypesWith(typesPresent, currentType, t)
      /\ typeOffsets' = OffsetsWith(typeOffsets, builder, currentType, t)
      /\ builder' = AddTo(Switched(builder, currentType, t), v)
  BY DEF AddEntry, Typed, TypesWith, OffsetsWith
<1>4. AtWork(typesPresent', typeOffsets', builder', currentType', added') /\ phase' = "building"
  BY <1>2, <1>3
<1>. QED  BY <1>4 DEF AtWork, Inv

\* A builder with the same blocks at work.
LEMMA BuildingSame ==
  ASSUME NEW tp, NEW to, NEW b, NEW ct, NEW ad, NEW open, Building(tp, to, b, ct, ad, open),
         NEW b2 \in BuilderType, b2.recordSize = b.recordSize, b2.data = b.data,
         b2.blockOffset = b.blockOffset, b2.idOffset = b.idOffset, b2.current = b.current
  PROVE  Building(tp, to, b2, ct, ad, open)
BY DEF Building, Written, Rest

\* No block is added to any more.
LEMMA BuildingEnds ==
  ASSUME NEW tp, NEW to, NEW b, NEW ct, NEW ad, Building(tp, to, b, ct, ad, TRUE)
  PROVE  Building(tp, to, b, ct, ad, FALSE)
<1>1. Sections(tp, to, b.data, ad, TRUE)
  BY DEF Building
<1>2. Sections(tp, to, b.data, ad, FALSE)
  BY <1>1 DEF Sections
<1>. QED  BY <1>2 DEF Building

\* Finalizing writes what is left; no block is added to after that.
LEMMA BuilderEnds ==
  ASSUME NEW tp, NEW to, NEW b, NEW ct, NEW ad, AtWork(tp, to, b, ct, ad)
  PROVE  LET w == Finalized(b)
         IN  /\ Building(tp, to, w, ct, ad, FALSE)
             /\ OffsetsAre(w.offsets, w.data, Len(w.data)) /\ w.current = <<>>
             /\ tp # <<>> => Bound(to, w.data, Len(tp) - 1) < Len(w.data)
<1>. DEFINE w == Finalized(b)
<1>1. /\ Building(tp, to, b, ct, ad, TRUE)
      /\ OffsetsAre(b.offsets, b.data, Len(b.data))
      /\ tp # <<>> => Bound(to, b.data, Len(tp) - 1) < Len(b.data) \/ b.current # <<>>
  BY DEF AtWork
<1>2. CASE Len(b.current) > 0
  <2>1. w = WriteBlock(b) /\ b.current # <<>>
    BY <1>2 DEF Finalized
  <2>. DEFINE open == FALSE
  <2>2. open \in BOOLEAN /\ (open => Len(b.current) = BlockSize)
    OBVIOUS
  <2>. HIDE DEF open, w
  <2>3. /\ Building(tp, to, w, ct, ad, open)
        /\ OffsetsAre(w.offsets, w.data, Len(w.data)) /\ w.current = <<>>
        /\ Bound(to, w.data, Len(tp) - 1) < Len(w.data)
    BY <1>1, <2>1, <2>2, FlushKeeps
  <2>4. Building(tp, to, w, ct, ad, FALSE)
    BY <2>3 DEF open
  <2>. QED  BY <2>3, <2>4 DEF w
<1>3. CASE ~(Len(b.current) > 0)
  <2>1. b \in BuilderType
    BY <1>1 DEF Building, Written
  <2>2. b.current = <<>>
    BY <1>3, <2>1 DEF BuilderType
  <2>3. w = b
    BY <1>3 DEF Finalized
  <2>4. Building(tp, to, b, ct, ad, FALSE)
    BY <1>1, BuildingEnds
  <2>5. Building(tp, to, w, ct, ad, FALSE)
    BY <2>3, <2>4
  <2>. HIDE DEF w
  <2>6. /\ Building(tp, to, w, ct, ad, FALSE)
        /\ OffsetsAre(w.offsets, w.data, Len(w.data)) /\ w.current = <<>>
        /\ tp # <<>> => Bound(to, w.data, Len(tp) - 1) < Len(w.data)
    BY <1>1, <2>2, <2>3, <2>5
  <2>. QED  BY <2>6 DEF w
<1>. QED  BY <1>2, <1>3

\* finalize writes the last block; the offset of its end is popped.
LEMMA FinalizeKeeps ==
  ASSUME Inv, Finalize
  PROVE  Inv'
<1>. DEFINE tp == typesPresent
            to == typeOffsets
            b == builder
            ct == currentType
            w == Finalized(b)
            d == w.data
            offsets2 == Popped(w.offsets)
<1>1. /\ Building(tp, to, b, ct, added, TRUE)
      /\ OffsetsAre(b.offsets, b.data, Len(b.data))
      /\ tp # <<>> => Bound(to, b.data, Len(tp) - 1) < Len(b.data) \/ b.current # <<>>
      /\ tp # <<>> => added # <<>> /\ added[Len(added)].datatype = ct
  BY DEF Inv, Finalize
<1>2. /\ phase' = "finished" /\ builder' = [w EXCEPT !.offsets = offsets2]
      /\ UNCHANGED <<typesPresent, typeOffsets, currentType, added>>
  <2>1. builder' = [w EXCEPT !.offsets = Popped(@)]
    BY DEF Finalize
  <2>2. [w EXCEPT !.offsets = Popped(@)] = [w EXCEPT !.offsets = offsets2]
    OBVIOUS
  <2>. QED  BY <2>1, <2>2 DEF Finalize
<1>. HIDE DEF tp, to, b, ct
<1>3. /\ Building(tp, to, w, ct, added, FALSE)
      /\ OffsetsAre(w.offsets, w.data, Len(w.data)) /\ w.current = <<>>
      /\ tp # <<>> => Bound(to, w.data, Len(tp) - 1) < Len(w.data)
  <2>1. AtWork(tp, to, b, ct, added)
    BY AtWorkIs DEF Finalize, tp, to, b, ct
  <2>. HIDE DEF w
  <2>. QED  BY <2>1, BuilderEnds DEF w
<1>4. w \in BuilderType /\ d \in Seq(Placed) /\ Len(d) \in Nat /\ w.offsets \in Seq(Nat)
  <2>1. w \in BuilderType
    BY <1>3 DEF Building, Written
  <2>. HIDE DEF w
  <2>. QED  BY <2>1 DEF BuilderType
<1>. HIDE DEF w
<1>5. Len(w.offsets) = Len(d) /\ \A n \in 1..Len(d) : w.offsets[n] = EndAt(d, n)
  BY <1>3 DEF OffsetsAre
<1>6. OffsetsAre(offsets2, d, IF d = <<>> THEN Len(d) ELSE Len(d) - 1)
  <2>1. CASE d = <<>>
    <3>1. w.offsets = <<>>
      <4>1. Len(d) = 0
        BY <2>1
      <4>. QED  BY <1>4, <1>5, <4>1
    <3>. QED  BY <1>5, <2>1, <3>1 DEF Popped, OffsetsAre
  <2>2. CASE d # <<>>
    <3>1. Len(d) - 1 \in 0..Len(w.offsets) /\ w.offsets # <<>>
      BY <1>4, <1>5, <2>2
    <3>2. offsets2 = SubSeq(w.offsets, 1, Len(d) - 1)
      BY <1>5, <3>1 DEF Popped, Front
    <3>. DEFINE k == Len(d) - 1
    <3>. HIDE DEF k, offsets2
    <3>3. /\ SubSeq(w.offsets, 1, k) \in Seq(Nat) /\ Len(SubSeq(w.offsets, 1, k)) = k
          /\ \A i \in 1..k : SubSeq(w.offsets, 1, k)[i] = w.offsets[i]
      BY <1>4, <3>1, FirstIs DEF k
    <3>4. \A i \in 1..k : i \in 1..Len(d)
      BY <1>4 DEF k
    <3>5. offsets2 = SubSeq(w.offsets, 1, k)
      BY <3>2 DEF k
    <3>6. OffsetsAre(offsets2, d, k)
      BY <1>5, <3>3, <3>4, <3>5 DEF OffsetsAre
    <3>. QED  BY <2>2, <3>6 DEF k
  <2>. QED  BY <2>1, <2>2
<1>7. offsets2 \in Seq(Nat)
  BY <1>6 DEF OffsetsAre
<1>. HIDE DEF offsets2
<1>8. /\ builder' \in BuilderType /\ builder'.recordSize = w.recordSize /\ builder'.data = d
      /\ builder'.blockOffset = w.blockOffset /\ builder'.idOffset = w.idOffset
      /\ builder'.current = w.current /\ builder'.offsets = offsets2
  BY <1>2, <1>4, <1>7 DEF BuilderType
<1>9. Building(tp, to, builder', ct, added, FALSE)
  BY <1>3, <1>8, BuildingSame
<1>10. Len(<<>>) < BlockSize
  BY BlockSizes
<1>11. /\ Building(typesPresent', typeOffsets', builder', currentType', added', FALSE)
       /\ builder'.current = <<>> /\ Len(builder'.current) < BlockSize
       /\ OffsetsAre(builder'.offsets, builder'.data,
                     IF builder'.data = <<>> THEN Len(builder'.data) ELSE Len(builder'.data) - 1)
       /\ typesPresent' # <<>> =>
            /\ Bound(typeOffsets', builder'.data, Len(typesPresent') - 1) < Len(builder'.data)
            /\ added' # <<>> /\ added'[Len(added')].datatype = currentType'
  <2>1. typesPresent' = tp /\ typeOffsets' = to /\ currentType' = ct /\ added' = added
    BY <1>2 DEF tp, to, ct
  <2>2. Building(typesPresent', typeOffsets', builder', currentType', added', FALSE)
    BY <1>9, <2>1
  <2>3. builder'.current = <<>> /\ Len(builder'.current) < BlockSize
    BY <1>3, <1>8, <1>10
  <2>4. OffsetsAre(builder'.offsets, builder'.data,
                   IF builder'.data = <<>> THEN Len(builder'.data) ELSE Len(builder'.data) - 1)
    BY <1>6, <1>8
  <2>5. typesPresent' # <<>> =>
          /\ Bound(typeOffsets', builder'.data, Len(typesPresent') - 1) < Len(builder'.data)
          /\ added' # <<>> /\ added'[Len(added')].datatype = currentType'
    BY <1>1, <1>3, <1>8, <2>1
  <2>. QED  BY <2>2, <2>3, <2>4, <2>5
<1>12. phase' = "finished" /\ phase' # "building" /\ phase' \in {"building", "finished", "streaming"}
  BY <1>2
<1>13. OffsetsAre(builder'.offsets, builder'.data,
                  IF phase' = "building" \/ builder'.data = <<>> THEN Len(builder'.data)
                  ELSE Len(builder'.data) - 1)
  BY <1>11, <1>12
<1>14. phase' # "building" => builder'.current = <<>>
  BY <1>11
<1>. QED  BY <1>11, <1>12, <1>13, <1>14 DEF Inv

\* It holds when building starts.
LEMMA InvStarts == Init => Inv
<1>. SUFFICES ASSUME Init PROVE Inv
  OBVIOUS
<1>1. Building(typesPresent, typeOffsets, builder, currentType, added, TRUE)
  BY BuildingStarts DEF Init
<1>2. builder.current = <<>> /\ builder.offsets = <<>> /\ builder.data = <<>>
  BY DEF Init, NewBuilder
<1>3. OffsetsAre(<<>>, <<>>, Len(<<>>)) /\ Len(<<>>) < BlockSize
  BY BlockSizes DEF OffsetsAre
<1>. QED  BY <1>1, <1>2, <1>3 DEF Inv, Init

\* Inv is an invariant of the dictionary's life.
LEMMA InvAlways == Spec => []Inv
<1>1. Init => Inv
  BY InvStarts
<1>2. Inv /\ [Next]_vars => Inv'
  <2>. SUFFICES ASSUME Inv, [Next]_vars PROVE Inv'
    OBVIOUS
  <2>1. ASSUME NEW t \in Types, NEW v \in ValuesOf(t), Add(Typed(t, v)) PROVE Inv'
    BY <2>1, AddKeeps DEF Add, Inv
  <2>2. CASE Finalize
    BY <2>2, FinalizeKeeps
  <2>3. CASE /\ UNCHANGED <<typesPresent, typeOffsets, builder, currentType, added>>
             /\ phase # "building" /\ phase' \in {"finished", "streaming"}
    BY <2>3 DEF Inv
  <2>4. ASSUME NEW bytes \in Cuts, OpenStream(bytes) PROVE Inv'
    BY <2>3, <2>4 DEF OpenStream
  <2>5. CASE StreamNext
    BY <2>3, <2>5 DEF StreamNext
  <2>6. CASE StreamEnd
    BY <2>3, <2>6 DEF StreamEnd
  <2>7. CASE UNCHANGED vars
    BY <2>7 DEF vars, Inv
  <2>. QED  BY <2>1, <2>2, <2>4, <2>5, <2>6, <2>7 DEF Next
<1>. QED  BY <1>1, <1>2, PTL DEF Spec

-----------------------------------------------------------------------------
(* A sequence cut into slices and put together again.                      *)

Cut(w, u, t) == [m \in 1..(t - u) |-> w[u + m]]

\* A slice.
LEMMA CutIs ==
  ASSUME NEW D, NEW w \in Seq(D), NEW t \in 0..Len(w), NEW u \in 0..t
  PROVE  /\ Cut(w, u, t) \in Seq(D) /\ Len(Cut(w, u, t)) = t - u
         /\ \A m \in 1..(t - u) : Cut(w, u, t)[m] = w[u + m]
<1>1. Len(w) \in Nat /\ t \in Nat /\ u \in Nat /\ u <= t /\ t <= Len(w) /\ t - u \in Nat
  OBVIOUS
<1>2. \A m \in 1..(t - u) : w[u + m] \in D
  BY <1>1
<1>. QED  BY <1>1, <1>2 DEF Cut

\* All of it is a slice.
LEMMA CutAll ==
  ASSUME NEW D, NEW w \in Seq(D)
  PROVE  Cut(w, 0, Len(w)) = w
<1>. DEFINE n == Len(w)
            zero == 0
<1>1. n \in 0..Len(w) /\ zero \in 0..n /\ n - zero = n /\ \A m \in 1..n : zero + m = m
  OBVIOUS
<1>. HIDE DEF zero, n
<1>5. /\ Cut(w, zero, n) \in Seq(D) /\ Len(Cut(w, zero, n)) = n - zero
      /\ \A m \in 1..(n - zero) : Cut(w, zero, n)[m] = w[zero + m]
  BY <1>1, CutIs
<1>2. /\ Cut(w, zero, n) \in Seq(D) /\ Len(Cut(w, zero, n)) = n
      /\ \A m \in 1..n : Cut(w, zero, n)[m] = w[m]
  BY <1>1, <1>5
<1>3. Len(w) = n
  BY DEF n
<1>4. Cut(w, zero, n) = w
  BY <1>2, <1>3, SeqEqual
<1>. QED  BY <1>4 DEF zero, n

\* Slices that follow one another are one slice.
LEMMA CutJoins ==
  ASSUME NEW D, NEW w \in Seq(D), NEW t \in 0..Len(w), NEW u \in 0..t, NEW q \in 0..u
  PROVE  Cut(w, q, u) \o Cut(w, u, t) = Cut(w, q, t)
<1>1. Len(w) \in Nat /\ t \in Nat /\ u \in Nat /\ q \in Nat /\ q <= u /\ u <= t /\ t <= Len(w)
      /\ u \in 0..Len(w) /\ q \in 0..t /\ t - q \in Nat /\ (u - q) + (t - u) = t - q
  OBVIOUS
<1>. DEFINE c == Cut(w, u, t)
            p == Cut(w, q, u)
            r == Cut(w, q, t)
<1>2. c \in Seq(D) /\ Len(c) = t - u /\ \A m \in 1..(t - u) : c[m] = w[u + m]
  BY <1>1, CutIs
<1>3. p \in Seq(D) /\ Len(p) = u - q /\ \A m \in 1..(u - q) : p[m] = w[q + m]
  BY <1>1, CutIs
<1>4. r \in Seq(D) /\ Len(r) = t - q /\ \A m \in 1..(t - q) : r[m] = w[q + m]
  BY <1>1, CutIs
<1>. HIDE DEF c, p, r
<1>5. /\ p \o c \in Seq(D) /\ Len(p \o c) = t - q
      /\ \A m \in 1..(t - q) : (p \o c)[m] = IF m <= u - q THEN p[m] ELSE c[m - (u - q)]
  <2>1. Len(p) + Len(c) = t - q
    BY <1>1, <1>2, <1>3
  <2>2. /\ p \o c \in Seq(D) /\ Len(p \o c) = Len(p) + Len(c)
        /\ \A m \in 1..(Len(p) + Len(c)) :
             (p \o c)[m] = IF m <= Len(p) THEN p[m] ELSE c[m - Len(p)]
    BY <1>2, <1>3, ConcatProperties
  <2>. QED  BY <1>3, <2>1, <2>2
<1>6. ASSUME NEW m \in 1..(t - q) PROVE (p \o c)[m] = r[m]
  <2>1. CASE m <= u - q
    <3>1. m \in 1..(u - q)
      BY <1>1, <2>1
    <3>. QED  BY <1>3, <1>4, <1>5, <2>1, <3>1
  <2>2. CASE ~(m <= u - q)
    <3>1. m - (u - q) \in 1..(t - u) /\ u + (m - (u - q)) = q + m
      BY <1>1, <2>2
    <3>. QED  BY <1>2, <1>4, <1>5, <2>2, <3>1
  <2>. QED  BY <2>1, <2>2
<1>7. p \o c = r
  BY <1>1, <1>4, <1>5, <1>6, SeqEqual
<1>. QED  BY <1>7 DEF c, p, r

\* Slices that go on where the one before ended.
LEMMA FlattenCuts ==
  ASSUME NEW D, NEW w \in Seq(D), NEW n \in Nat, NEW o \in [0..n -> 0..Len(w)],
         \A k \in 1..n : o[k - 1] <= o[k],
         NEW s, s = [k \in 1..n |-> Cut(w, o[k - 1], o[k])]
  PROVE  FlattenSeq(s) = Cut(w, o[0], o[n])
<1>. DEFINE q == o[0]
<1>0. 0 \in 0..n /\ n \in 0..n /\ Len(w) \in Nat /\ \A k \in 0..n : o[k] \in 0..Len(w)
  OBVIOUS
<1>1. ASSUME NEW k \in 1..n
      PROVE  /\ k - 1 \in 0..n /\ k \in 0..n /\ o[k] \in 0..Len(w) /\ o[k - 1] \in 0..o[k]
             /\ s[k] = Cut(w, o[k - 1], o[k]) /\ s[k] \in Seq(D)
  <2>1. k - 1 \in 0..n /\ k \in 0..n
    OBVIOUS
  <2>2. o[k] \in 0..Len(w) /\ o[k - 1] \in 0..Len(w) /\ o[k - 1] <= o[k]
    BY <2>1
  <2>3. o[k - 1] \in 0..o[k]
    BY <2>2
  <2>4. s[k] = Cut(w, o[k - 1], o[k])
    OBVIOUS
  <2>. QED  BY <2>1, <2>2, <2>3, <2>4, CutIs
<1>2. s \in [1..n -> Seq(D)]
  <2>1. s = [k \in 1..n |-> s[k]]
    OBVIOUS
  <2>. QED  BY <1>1, <2>1
<1>3. s \in Seq(Seq(D)) /\ Len(s) = n
  BY <1>2
<1>. DEFINE P == {k \in 0..n : q <= o[k] /\ FlattenSeq(SubSeq(s, 1, k)) = Cut(w, q, o[k])}
<1>4. 0 \in P
  <2>1. SubSeq(s, 1, 0) = <<>>
    BY <1>3
  <2>2. Cut(w, q, q) = <<>>
    <3>1. q \in 0..Len(w) /\ q \in 0..q /\ q - q = 0
      BY <1>0
    <3>. HIDE DEF q
    <3>2. Cut(w, q, q) \in Seq(D) /\ Len(Cut(w, q, q)) = 0
      BY <3>1, CutIs
    <3>. QED  BY <3>2
  <2>3. q = o[0] /\ q <= o[0] /\ 0 \in 0..n
    BY <1>0
  <2>. HIDE DEF q
  <2>4. FlattenSeq(SubSeq(s, 1, 0)) = Cut(w, q, o[0])
    BY <2>1, <2>2, <2>3, FlattenEmpty
  <2>. QED  BY <2>3, <2>4
<1>5. \A k \in 1..n : k - 1 \in P => k \in P
  <2>. SUFFICES ASSUME NEW k \in 1..n, k - 1 \in P PROVE k \in P
    OBVIOUS
  <2>1. k \in 1..Len(s)
    BY <1>3
  <2>2. FlattenSeq(SubSeq(s, 1, k)) = FlattenSeq(SubSeq(s, 1, k - 1)) \o s[k]
    BY <1>3, <2>1, FlattenFirst
  <2>3. FlattenSeq(SubSeq(s, 1, k - 1)) = Cut(w, q, o[k - 1]) /\ q <= o[k - 1]
    OBVIOUS
  <2>4. q \in 0..o[k - 1] /\ q <= o[k]
    BY <1>0, <1>1, <2>3
  <2>5. Cut(w, q, o[k - 1]) \o Cut(w, o[k - 1], o[k]) = Cut(w, q, o[k])
    <3>. HIDE DEF q
    <3>. QED  BY <1>1, <2>4, CutJoins
  <2>. QED  BY <1>1, <2>2, <2>3, <2>4, <2>5
<1>. HIDE DEF P
<1>6. \A k \in 0..n : k \in P
  BY <1>4, <1>5, InductUpTo
<1>7. n \in P /\ n \in 0..n
  BY <1>6
<1>8. SubSeq(s, 1, n) = s
  BY <1>3
<1>. QED  BY <1>7, <1>8 DEF P

-----------------------------------------------------------------------------
(* Reading a finished dictionary.                                          *)

\* How many blocks and how many entries the first i types have.
BlocksTo(i) == Bound(typeOffsets, data, i)
EntriesTo(n) == UpTo(data, n)

Ready ==
  /\ typesPresent \in Seq(Types)
  /\ \A i, j \in 1..TypeCount : i < j => typesPresent[i] < typesPresent[j]
  /\ added \in Seq(EntryType)
  /\ data \in Seq(Placed) /\ EntriesTo(Len(data)) = Len(added)
  /\ \A n \in 1..Len(data) : data[n].at = EndAt(data, n - 1)
  /\ builder.blockOffset = EndAt(data, Len(data))
  /\ data = <<>> => blockOffsets = <<>>
  /\ data # <<>> => OffsetsAre(blockOffsets, data, Len(data) - 1)
  /\ Len(typeOffsets) = (IF TypeCount = 0 THEN 0 ELSE TypeCount - 1)
  /\ typeOffsets \in Seq(Nat)
  /\ \A i \in 0..TypeCount : BlocksTo(i) \in 0..Len(data)
  /\ BlocksTo(0) = 0 /\ BlocksTo(TypeCount) = Len(data)
  /\ \A i \in 1..TypeCount : BlocksTo(i - 1) < BlocksTo(i)
  /\ \A i \in 1..TypeCount : i < TypeCount => typeOffsets[i] = BlocksTo(i) - 1
  /\ \A i \in 1..TypeCount : \A n \in (BlocksTo(i - 1) + 1)..BlocksTo(i) :
       /\ Holds(data, added, n, typesPresent[i])
       /\ Fits(RecordSize[typesPresent[i]], EntriesIn(data, added, n))
       /\ n # BlocksTo(i) => data[n].block.num = BlockSize

\* What a reader may rely on, once building has ended.
LEMMA FinishedIsReady ==
  ASSUME Inv, phase # "building"
  PROVE  Ready
<1>. DEFINE tp == typesPresent
            to == typeOffsets
            d == data
<1>1. /\ Building(tp, to, builder, currentType, added, FALSE) /\ builder.current = <<>>
      /\ OffsetsAre(blockOffsets, d, IF d = <<>> THEN Len(d) ELSE Len(d) - 1)
      /\ tp # <<>> => Bound(to, d, Len(tp) - 1) < Len(d)
  BY DEF Inv, data, blockOffsets
<1>2. TypesMet(tp, to, currentType) /\ Written(builder) /\ Rest(builder, currentType, added)
      /\ Sections(tp, to, d, added, FALSE) /\ (tp = <<>> => d = <<>>)
  BY <1>1 DEF Building, data
<1>3. d \in Seq(Placed) /\ Len(d) \in Nat /\ Len(d) \in 0..Len(d)
  <2>1. d \in Seq(Placed)
    BY <1>2 DEF Written, BuilderType, data
  <2>. QED  BY <2>1
<1>4. /\ tp \in Seq(Types) /\ Len(tp) = TypeCount /\ TypeCount \in Nat
      /\ (tp = <<>> <=> TypeCount = 0) /\ to \in Seq(Nat)
      /\ Len(to) = (IF TypeCount = 0 THEN 0 ELSE TypeCount - 1)
      /\ \A i, j \in 1..TypeCount : i < j => tp[i] < tp[j]
  <2>1. /\ tp \in Seq(Types) /\ to \in Seq(Nat) /\ Len(to) = (IF tp = <<>> THEN 0 ELSE Len(tp) - 1)
        /\ \A i, j \in DOMAIN tp : i < j => tp[i] < tp[j]
    BY <1>2 DEF TypesMet
  <2>. QED  BY <2>1 DEF TypeCount
<1>5. /\ added \in Seq(EntryType) /\ Len(added) \in Nat /\ EntriesTo(Len(d)) = Len(added)
  <2>1. Len(builder.current) = 0
    BY <1>1
  <2>2. EntriesTo(Len(d)) \in Nat
    BY <1>3, UpToIs DEF EntriesTo
  <2>3. added \in Seq(EntryType) /\ Len(added) = EntriesTo(Len(d)) + Len(builder.current)
    BY <1>2 DEF Rest, data, EntriesTo
  <2>. QED  BY <2>1, <2>2, <2>3
<1>6. /\ \A n \in 1..Len(d) : d[n].at = EndAt(d, n - 1)
      /\ builder.blockOffset = EndAt(d, Len(d))
  BY <1>2 DEF Written, data
<1>7. /\ d = <<>> => blockOffsets = <<>>
      /\ d # <<>> => OffsetsAre(blockOffsets, d, Len(d) - 1)
  <2>1. d = <<>> => Len(d) = 0
    BY <1>3
  <2>2. d = <<>> => blockOffsets \in Seq(Nat) /\ Len(blockOffsets) = 0
    BY <1>1, <2>1 DEF OffsetsAre
  <2>. QED  BY <1>1, <2>2
<1>. HIDE DEF tp, to, d
<1>8. /\ \A i \in 0..TypeCount : Bound(to, d, i) \in Nat
      /\ \A i \in 1..TypeCount : Bound(to, d, i) <= Len(d)
  <2>1. \A i \in 0..TypeCount : Bound(to, d, i) \in Nat
    <3>. SUFFICES ASSUME NEW i \in 0..TypeCount PROVE Bound(to, d, i) \in Nat
      OBVIOUS
    <3>. QED  BY <1>2, <1>3, <1>4, BoundType
  <2>. QED  BY <1>2, <1>4, <2>1 DEF Sections
<1>9. Bound(to, d, 0) = 0
  BY DEF Bound
<1>10. Bound(to, d, TypeCount) = Len(d)
  <2>1. CASE TypeCount = 0
    <3>1. d = <<>>
      BY <1>2, <1>4, <2>1
    <3>. QED  BY <1>3, <1>9, <2>1, <3>1
  <2>2. CASE TypeCount # 0
    <3>1. TypeCount \in 0..Len(tp)
      BY <1>4
    <3>. QED  BY <1>2, <1>4, <2>2, <3>1, BoundIs
  <2>. QED  BY <2>1, <2>2
<1>11. \A i \in 0..TypeCount : Bound(to, d, i) \in 0..Len(d)
  <2>1. \A i \in 0..TypeCount : i = 0 \/ i \in 1..TypeCount
    BY <1>4
  <2>. QED  BY <1>3, <1>8, <1>9, <2>1
<1>12. \A i \in 1..TypeCount : Bound(to, d, i - 1) < Bound(to, d, i)
  <2>. SUFFICES ASSUME NEW i \in 1..TypeCount PROVE Bound(to, d, i - 1) < Bound(to, d, i)
    OBVIOUS
  <2>1. CASE i = TypeCount
    <3>1. tp # <<>>
      BY <1>4
    <3>. QED  BY <1>1, <1>4, <1>10, <2>1, <3>1 DEF tp, to, d
  <2>2. CASE i # TypeCount
    <3>1. i \in 1..(Len(tp) - 1)
      BY <1>4, <2>2
    <3>. QED  BY <1>2, <3>1 DEF Sections
  <2>. QED  BY <2>1, <2>2
<1>13. \A i \in 1..TypeCount : i < TypeCount => to[i] = Bound(to, d, i) - 1
  <2>. SUFFICES ASSUME NEW i \in 1..TypeCount, i < TypeCount PROVE to[i] = Bound(to, d, i) - 1
    OBVIOUS
  <2>1. i \in 0..Len(tp) /\ i # 0 /\ i < Len(tp)
    BY <1>4
  <2>2. Bound(to, d, i) = to[i] + 1 /\ i \in 1..Len(to)
    <3>1. TypesMet(tp, to, currentType)
      BY <1>2
    <3>2. i \in 0..Len(tp)
      BY <2>1
    <3>3. i # 0 /\ i < Len(tp) => Bound(to, d, i) = to[i] + 1 /\ i \in 1..Len(to)
      BY <3>1, <3>2, BoundIs
    <3>. QED  BY <2>1, <3>3
  <2>3. to[i] \in Nat
    BY <1>4, <2>1, <2>2
  <2>. QED  BY <2>1, <2>2, <2>3
<1>14. ASSUME NEW i \in 1..TypeCount, NEW n \in (Bound(to, d, i - 1) + 1)..Bound(to, d, i)
       PROVE  /\ Holds(d, added, n, tp[i])
              /\ Fits(RecordSize[tp[i]], EntriesIn(d, added, n))
              /\ n # Bound(to, d, i) => d[n].block.num = BlockSize
  <2>1. i \in 1..Len(tp)
    BY <1>4
  <2>2. Holds(d, added, n, tp[i]) /\ (n # Bound(to, d, i) => d[n].block.num = BlockSize)
    BY <1>2, <2>1 DEF Sections
  <2>3. n \in 1..Len(d)
    BY <1>2, <1>3, <1>8, <2>1, SectionIn
  <2>. DEFINE num == d[n].block.num
              from == UpTo(d, n - 1)
              es == EntriesIn(d, added, n)
  <2>4. n - 1 \in 0..Len(d) /\ n \in 0..Len(d) /\ Len(d) \in n..Len(d)
    BY <1>3, <2>3
  <2>5. num \in 1..BlockSize /\ from \in Nat /\ UpTo(d, n) = from + num
    BY <1>3, <2>3, <2>4, UpToIs
  <2>6. from + num <= Len(added)
    <3>1. UpTo(d, n) <= UpTo(d, Len(d))
      BY <1>3, <2>4, UpToGrows
    <3>. QED  BY <1>5, <2>5, <3>1 DEF EntriesTo, d
  <2>7. es = [k \in 1..num |-> added[from + k].entry]
    BY DEF EntriesIn
  <2>. HIDE DEF es, num, from
  <2>8. \A k \in 1..num : added[from + k].entry \in Bytes
    <3>. SUFFICES ASSUME NEW k \in 1..num PROVE added[from + k].entry \in Bytes
      OBVIOUS
    <3>1. from + k \in 1..Len(added)
      BY <1>5, <2>5, <2>6, BlockSizes
    <3>2. added[from + k] \in EntryType
      BY <1>5, <3>1
    <3>. QED  BY <3>2 DEF EntryType, Bytes
  <2>9. es \in Seq(Bytes) /\ Len(es) = num /\ \A k \in 1..num : es[k] = added[from + k].entry
    <3>1. num \in Nat
      BY <2>5, BlockSizes
    <3>2. es \in [1..num -> Bytes]
      BY <2>7, <2>8
    <3>. QED  BY <2>7, <3>1, <3>2
  <2>10. \A k \in 1..num : added[from + k].datatype = tp[i]
    BY <2>2 DEF Holds, num, from
  <2>11. tp[i] \in Types
    BY <1>4, <2>1
  <2>12. Fits(RecordSize[tp[i]], es)
    BY <1>2, <2>5, <2>6, <2>9, <2>10, <2>11, EntriesFit
  <2>. QED  BY <2>2, <2>12 DEF es
<1>. QED  BY <1>3, <1>4, <1>5, <1>6, <1>7, <1>9, <1>10, <1>11, <1>12, <1>13, <1>14
          DEF Ready, BlocksTo, tp, to, d

\* Two blocks never start at the same place.
LEMMA BlockAt ==
  ASSUME NEW e, Len(e) \in Nat, DOMAIN e = 1..Len(e), NEW n \in 1..Len(e),
         \A m \in 1..Len(e) : e[m].at = e[n].at => m = n
  PROVE  BlockStartingAt(e, e[n].at) = e[n].block
<1>. DEFINE c == CHOOSE c \in ToSet(e) : c.at = e[n].at
<1>1. e[n] \in ToSet(e) /\ \A x \in ToSet(e) : \E m \in 1..Len(e) : x = e[m]
  BY DEF ToSet
<1>2. c \in ToSet(e) /\ c.at = e[n].at
  BY <1>1
<1>. HIDE DEF c
<1>3. PICK m \in 1..Len(e) : c = e[m]
  BY <1>1, <1>2
<1>4. c = e[n]
  BY <1>2, <1>3
<1>. QED  BY <1>4 DEF BlockStartingAt, c

Moved(c, start) == [c EXCEPT !.at = @ - start]

\* A block as the buffer of a segment has it.
LEMMA MovedIs ==
  ASSUME NEW c \in Placed, NEW start
  PROVE  Moved(c, start).at = c.at - start /\ Moved(c, start).block = c.block
BY DEF Moved, Placed

\* What a slice of the buffer has.
LEMMA DataFromIs ==
  ASSUME NEW d \in Seq(Placed), \A n \in 1..Len(d) : d[n].at = EndAt(d, n - 1),
         NEW m \in 0..(Len(d) - 1)
  PROVE  LET e == DataFrom(d, EndAt(d, m))
         IN  /\ Len(e) = Len(d) - m /\ DOMAIN e = 1..(Len(d) - m)
             /\ \A n \in 1..(Len(d) - m) : /\ e[n].at = EndAt(d, m + n - 1) - EndAt(d, m)
                                           /\ e[n].block = d[m + n].block
             /\ \A n \in 1..(Len(d) - m) :
                  BlockStartingAt(e, EndAt(d, m + n - 1) - EndAt(d, m)) = d[m + n].block
<1>0. DOMAIN d = 1..Len(d) /\ Len(d) \in Nat
  OBVIOUS
<1>1. Len(d) \in Nat /\ m \in Nat /\ m < Len(d) /\ Len(d) - m \in Nat \ {0} /\ m \in 0..Len(d)
  OBVIOUS
<1>2. /\ \A n \in 0..Len(d) : EndAt(d, n) \in Nat
      /\ \A k, n \in 0..Len(d) : k < n => EndAt(d, k) < EndAt(d, n)
  BY EndIs
<1>. DEFINE start == EndAt(d, m)
            before == {n \in DOMAIN d : d[n].at < start}
            tail == After(d, m)
            e == DataFrom(d, start)
            count == Len(d) - m
<1>3. before = 1..m
  <2>1. \A n \in 1..Len(d) : n - 1 \in 0..Len(d) /\ d[n].at = EndAt(d, n - 1)
    BY <1>1
  <2>2. ASSUME NEW n \in 1..Len(d) PROVE d[n].at < start <=> n <= m
    <3>1. n - 1 \in 0..Len(d) /\ d[n].at = EndAt(d, n - 1)
      BY <2>1
    <3>2. CASE n <= m
      <4>1. n - 1 < m
        BY <1>1, <3>2
      <4>. QED  BY <1>1, <1>2, <3>1, <3>2, <4>1
    <3>3. CASE n - 1 = m
      <4>1. ~(n <= m)
        BY <1>1, <3>3
      <4>. QED  BY <1>1, <1>2, <3>1, <3>3, <4>1
    <3>4. CASE m < n - 1
      <4>1. m \in 0..Len(d) /\ ~(n <= m)
        BY <1>1, <3>4
      <4>2. start < d[n].at
        BY <1>2, <3>1, <3>4, <4>1
      <4>3. start \in Nat /\ d[n].at \in Nat
        BY <1>2, <3>1, <4>1
      <4>4. ~(d[n].at < start)
        <5>. HIDE DEF start
        <5>. QED  BY <4>2, <4>3
      <4>. QED  BY <4>1, <4>4
    <3>. QED  BY <1>1, <3>2, <3>3, <3>4
  <2>3. \A n \in 1..m : n \in 1..Len(d)
    BY <1>1
  <2>4. \A n \in 1..Len(d) : n <= m => n \in 1..m
    BY <1>1
  <2>5. \A n \in 1..m : n <= m
    BY <1>1
  <2>6. \A n : n \in before <=> n \in 1..m
    BY <1>0, <2>2, <2>3, <2>4, <2>5
  <2>. HIDE DEF before
  <2>. QED  BY <2>6
<1>4. Cardinality(before) = m
  <2>1. Cardinality(1..m) = m
    <3>. DEFINE one == 1
    <3>1. one \in Int /\ m \in Int /\ m - one + 1 = m /\ (one > m <=> m = 0)
      BY <1>1
    <3>. HIDE DEF one
    <3>2. Cardinality(one..m) = IF one > m THEN 0 ELSE m - one + 1
      BY <3>1, FS_Interval
    <3>3. Cardinality(one..m) = m
      BY <3>1, <3>2
    <3>. QED  BY <3>3 DEF one
  <2>. QED  BY <1>3, <2>1
<1>5. e = [n \in DOMAIN tail |-> Moved(tail[n], start)]
  <2>1. e = [n \in DOMAIN After(d, Cardinality(before)) |->
               Moved(After(d, Cardinality(before))[n], start)]
    BY DEF DataFrom, Moved
  <2>. HIDE DEF before
  <2>. QED  BY <1>4, <2>1
<1>6. /\ Len(tail) = count /\ DOMAIN tail = 1..count
      /\ \A n \in 1..count : tail[n] = d[m + n] /\ m + n \in 1..Len(d)
  <2>1. m \in 0..Len(d)
    BY <1>1
  <2>2. tail \in Seq(Placed) /\ Len(tail) = count /\ \A n \in 1..count : tail[n] = d[m + n]
    BY <2>1, AfterIs
  <2>3. \A n \in 1..count : m + n \in 1..Len(d)
    BY <1>1
  <2>. QED  BY <2>2, <2>3
<1>. HIDE DEF tail, before, e
<1>7. DOMAIN e = 1..count /\ Len(e) = count
  <2>1. DOMAIN e = 1..count
    BY <1>5, <1>6
  <2>2. count \in Nat
    BY <1>1
  <2>. QED  BY <1>5, <1>6, <2>1, <2>2
<1>8. ASSUME NEW n \in 1..count
      PROVE  /\ e[n].at = EndAt(d, m + n - 1) - start /\ e[n].block = d[m + n].block
             /\ m + n - 1 \in 0..Len(d)
  <2>1. d[m + n] \in Placed /\ tail[n] = d[m + n] /\ d[m + n].at = EndAt(d, m + n - 1)
    BY <1>6
  <2>2. e[n] = Moved(d[m + n], start)
    BY <1>5, <1>6, <2>1
  <2>3. e[n].at = d[m + n].at - start /\ e[n].block = d[m + n].block
    BY <2>1, <2>2, MovedIs
  <2>. QED  BY <1>1, <2>1, <2>3
<1>9. ASSUME NEW n \in 1..count
      PROVE  BlockStartingAt(e, EndAt(d, m + n - 1) - start) = d[m + n].block
  <2>1. ASSUME NEW k \in 1..count, e[k].at = e[n].at PROVE k = n
    <3>1. EndAt(d, m + k - 1) - start = EndAt(d, m + n - 1) - start
      BY <1>8, <2>1
    <3>2. m + k - 1 \in 0..Len(d) /\ m + n - 1 \in 0..Len(d)
      BY <1>8
    <3>. DEFINE x == EndAt(d, m + k - 1)
                y == EndAt(d, m + n - 1)
    <3>5. x \in Nat /\ y \in Nat /\ start \in Nat /\ x - start = y - start
      BY <1>1, <1>2, <3>1, <3>2
    <3>. HIDE DEF x, y, start
    <3>6. x = y
      BY <3>5
    <3>. USE DEF x, y
    <3>4. ~(m + k - 1 < m + n - 1) /\ ~(m + n - 1 < m + k - 1)
      <4>1. m + k - 1 < m + n - 1 => x < y
        BY <1>2, <3>2
      <4>2. m + n - 1 < m + k - 1 => y < x
        BY <1>2, <3>2
      <4>. HIDE DEF x, y
      <4>. QED  BY <3>5, <3>6, <4>1, <4>2
    <3>. QED  BY <1>1, <3>4
  <2>2. BlockStartingAt(e, e[n].at) = e[n].block
    <3>1. Len(e) \in Nat /\ DOMAIN e = 1..Len(e) /\ n \in 1..Len(e)
      BY <1>1, <1>7
    <3>2. \A k \in 1..Len(e) : e[k].at = e[n].at => k = n
      BY <1>7, <2>1
    <3>. HIDE DEF count
    <3>. QED  BY <3>1, <3>2, BlockAt
  <2>. QED  BY <1>8, <2>2
<1>. QED  BY <1>7, <1>8, <1>9 DEF e

\* A segment has the blocks of its type, though its data goes on.
LEMMA SegmentIs ==
  ASSUME Ready, NEW i \in 0..(TypeCount - 1)
  PROVE  LET s == Segment(i)
             count == BlocksTo(i + 1) - BlocksTo(i)
         IN  /\ SegmentStart(i) = EndAt(data, BlocksTo(i))
             /\ s.data # <<>> /\ count \in Nat \ {0} /\ BlocksTo(i) \in Nat
             /\ BlocksTo(i) + count \in 1..Len(data)
             /\ Len(s.offsets) = count - 1 /\ NumBlocks(s) = count
             /\ \A k \in 0..(count - 1) : Block(s, k) = data[BlocksTo(i) + k + 1].block
<1>. DEFINE s == Segment(i)
            m == BlocksTo(i)
            n == BlocksTo(i + 1)
            count == n - m
            start == EndAt(data, m)
<1>1. /\ typesPresent \in Seq(Types) /\ TypeCount \in Nat /\ i \in Nat /\ i + 1 \in 1..TypeCount
      /\ i \in 0..TypeCount /\ i + 1 \in 0..TypeCount /\ TypeCount # 0 /\ (i + 1) - 1 = i
      /\ i # 0 => i \in 1..TypeCount /\ i < TypeCount
      /\ i # TypeCount - 1 => i + 1 < TypeCount
  <2>1. typesPresent \in Seq(Types)
    BY DEF Ready
  <2>2. TypeCount \in Nat
    BY <2>1 DEF TypeCount
  <2>. QED  BY <2>1, <2>2
<1>2. m \in 0..Len(data) /\ n \in 0..Len(data)
  BY <1>1 DEF Ready
<1>3. data \in Seq(Placed) /\ \A k \in 1..Len(data) : data[k].at = EndAt(data, k - 1)
  BY DEF Ready
<1>4. m < n
  <2>1. BlocksTo((i + 1) - 1) < BlocksTo(i + 1)
    BY <1>1 DEF Ready
  <2>. QED  BY <1>1, <2>1
<1>5. i # 0 => typeOffsets[i] = m - 1
  BY <1>1 DEF Ready
<1>6. i # TypeCount - 1 => typeOffsets[i + 1] = n - 1
  BY <1>1 DEF Ready
<1>7. i = TypeCount - 1 => n = Len(data)
  <2>1. i = TypeCount - 1 => i + 1 = TypeCount
    BY <1>1
  <2>. QED  BY <2>1 DEF Ready
<1>8. i = 0 => m = 0
  BY DEF Ready
<1>. HIDE DEF m, n
<1>9. Len(data) \in Nat /\ m \in Nat /\ n \in Nat /\ count \in Nat \ {0} /\ m + count \in 1..Len(data)
      /\ m \in 0..(Len(data) - 1) /\ m + count = n /\ data # <<>>
  BY <1>2, <1>3, <1>4
<1>10. /\ blockOffsets \in Seq(Nat) /\ Len(blockOffsets) = Len(data) - 1
       /\ \A k \in 1..(Len(data) - 1) : blockOffsets[k] = EndAt(data, k)
  <2>1. OffsetsAre(blockOffsets, data, Len(data) - 1)
    BY <1>9 DEF Ready
  <2>. DEFINE last == Len(data) - 1
  <2>. HIDE DEF last
  <2>2. OffsetsAre(blockOffsets, data, last)
    BY <2>1 DEF last
  <2>3. blockOffsets \in Seq(Nat) /\ Len(blockOffsets) = last /\ \A k \in 1..last : blockOffsets[k] = EndAt(data, k)
    BY <2>2 DEF OffsetsAre
  <2>. QED  BY <2>3 DEF last
<1>11. SegmentStart(i) = start
  <2>1. CASE i = 0
    BY <1>8, <2>1 DEF SegmentStart, EndAt
  <2>2. CASE i # 0
    <3>1. typeOffsets[i] + 1 = m
      BY <1>5, <1>9, <2>2
    <3>2. m # 0
      <4>1. BlocksTo(i - 1) < BlocksTo(i) /\ BlocksTo(i - 1) \in 0..Len(data)
        <5>1. i - 1 \in 0..TypeCount
          BY <1>1, <2>2
        <5>. QED  BY <1>1, <2>2, <5>1 DEF Ready
      <4>. QED  BY <1>9, <4>1 DEF m
    <3>3. m \in 1..(Len(data) - 1)
      BY <1>9, <3>2
    <3>. QED  BY <1>10, <2>2, <3>1, <3>3 DEF SegmentStart
  <2>. QED  BY <2>1, <2>2
<1>12. s.offsets = SubSeq(blockOffsets, m + 1, n - 1) /\ s.data = DataFrom(data, start)
       /\ s.dictOffset = start
  <2>. DEFINE first == IF i = 0 THEN 0 ELSE typeOffsets[i] + 1
              end == IF i = TypeCount - 1 THEN Len(blockOffsets) ELSE typeOffsets[i + 1]
  <2>1. first = m
    BY <1>5, <1>8, <1>9
  <2>2. end = n - 1
    BY <1>6, <1>7, <1>10
  <2>3. s = [offsets |-> SubSeq(blockOffsets, first + 1, end),
             data |-> DataFrom(data, SegmentStart(i)), dictOffset |-> SegmentStart(i)]
    BY DEF Segment
  <2>. HIDE DEF first, end, s
  <2>. QED  BY <1>11, <2>1, <2>2, <2>3
<1>13. /\ Len(s.data) = Len(data) - m
       /\ \A k \in 1..(Len(data) - m) :
            BlockStartingAt(s.data, EndAt(data, m + k - 1) - start) = data[m + k].block
  <2>1. LET e == DataFrom(data, EndAt(data, m))
        IN  /\ Len(e) = Len(data) - m
            /\ \A k \in 1..(Len(data) - m) :
                 BlockStartingAt(e, EndAt(data, m + k - 1) - EndAt(data, m)) = data[m + k].block
    BY <1>3, <1>9, DataFromIs
  <2>. HIDE DEF s, count
  <2>. QED  BY <1>12, <2>1
<1>14. /\ Len(s.offsets) = count - 1
       /\ \A k \in 1..(count - 1) : s.offsets[k] = EndAt(data, m + k)
  <2>. DEFINE o == SubSeq(blockOffsets, m + 1, n - 1)
  <2>1. Len(blockOffsets) \in Nat /\ m + 1 \in 1..n /\ n - 1 <= Len(blockOffsets)
    BY <1>9, <1>10
  <2>2. Len(o) = count - 1 /\ \A k \in 1..(count - 1) : o[k] = blockOffsets[m + k]
    <3>1. \A k \in (m+1)..(n-1) : k \in 1..Len(blockOffsets)
      BY <1>9, <2>1
    <3>2. /\ Len(o) = IF m + 1 <= n - 1 THEN (n - 1) - (m + 1) + 1 ELSE 0
          /\ \A k \in 1..Len(o) : o[k] = blockOffsets[(m + 1) + k - 1]
      BY <1>9, <1>10, <3>1, SubSeqProperties
    <3>3. Len(o) = count - 1
      BY <1>9, <3>2
    <3>4. \A k \in 1..(count - 1) : (m + 1) + k - 1 = m + k
      BY <1>9
    <3>. HIDE DEF o
    <3>. QED  BY <3>2, <3>3, <3>4
  <2>3. \A k \in 1..(count - 1) : m + k \in 1..(Len(data) - 1)
    BY <1>9
  <2>. QED  BY <1>10, <1>12, <2>2, <2>3
<1>. HIDE DEF s
<1>15. s.data # <<>>
  BY <1>9, <1>13
<1>16. NumBlocks(s) = count
  BY <1>9, <1>14, <1>15 DEF NumBlocks
<1>17. ASSUME NEW k \in 0..(count - 1) PROVE Block(s, k) = data[m + k + 1].block
  <2>. DEFINE j == k + 1
  <2>1. j \in 1..(Len(data) - m) /\ m + j - 1 = m + k /\ m + j = m + k + 1
    BY <1>9
  <2>. HIDE DEF j
  <2>2. BlockOffset(s, k) = EndAt(data, m + k) - start
    <3>1. CASE k = 0
      <4>1. start \in Nat /\ m + k = m
        <5>1. m \in 0..Len(data)
          BY <1>9
        <5>2. EndAt(data, m) \in Nat
          BY <1>3, <5>1, EndIs
        <5>. QED  BY <1>9, <3>1, <5>2
      <4>. QED  BY <3>1, <4>1 DEF BlockOffset
    <3>2. CASE k # 0
      <4>1. k \in 1..(count - 1)
        BY <1>9, <3>2
      <4>. QED  BY <1>12, <1>14, <3>2, <4>1 DEF BlockOffset
    <3>. QED  BY <3>1, <3>2
  <2>3. BlockStartingAt(s.data, EndAt(data, m + j - 1) - start) = data[m + j].block
    BY <1>13, <2>1
  <2>. QED  BY <2>1, <2>2, <2>3 DEF Block
<1>. QED  BY <1>9, <1>11, <1>14, <1>15, <1>16, <1>17 DEF s, m, n

Values == [k \in 1..Len(added) |-> added[k].entry]

\* Types of what a reader has.
LEMMA ReadyIs ==
  ASSUME Ready
  PROVE  /\ typesPresent \in Seq(Types) /\ TypeCount \in Nat /\ TypeCount = Len(typesPresent)
         /\ data \in Seq(Placed) /\ Len(data) \in Nat
         /\ added \in Seq(EntryType) /\ Len(added) \in Nat /\ EntriesTo(Len(data)) = Len(added)
         /\ Values \in Seq(Bytes) /\ Len(Values) = Len(added)
         /\ \A k \in 1..Len(added) : Values[k] = added[k].entry
<1>1. /\ typesPresent \in Seq(Types) /\ data \in Seq(Placed) /\ added \in Seq(EntryType)
      /\ EntriesTo(Len(data)) = Len(added)
  BY DEF Ready
<1>2. TypeCount \in Nat /\ TypeCount = Len(typesPresent)
  BY <1>1 DEF TypeCount
<1>3. Len(data) \in Nat /\ Len(added) \in Nat
  BY <1>1
<1>4. \A k \in 1..Len(added) : added[k].entry \in Bytes
  <2>. SUFFICES ASSUME NEW k \in 1..Len(added) PROVE added[k].entry \in Bytes
    OBVIOUS
  <2>1. added[k] \in EntryType
    BY <1>1
  <2>. QED  BY <2>1 DEF EntryType, Bytes
<1>5. Values \in [1..Len(added) -> Bytes]
  BY <1>4 DEF Values
<1>6. Values \in Seq(Bytes) /\ Len(Values) = Len(added)
  BY <1>3, <1>5
<1>. QED  BY <1>1, <1>2, <1>3, <1>6 DEF Values

\* The n-th block, one of the i-th type.
LEMMA BlockFacts ==
  ASSUME Ready, NEW i \in 1..TypeCount, NEW n \in (BlocksTo(i - 1) + 1)..BlocksTo(i)
  PROVE  LET es == EntriesIn(data, added, n)
             num == data[n].block.num
             from == EntriesTo(n - 1)
             t == typesPresent[i]
         IN  /\ n \in 1..Len(data) /\ n \in 0..Len(data) /\ n - 1 \in 0..Len(data)
             /\ num \in 1..BlockSize /\ from \in Nat /\ EntriesTo(n) = from + num
             /\ EntriesTo(n) <= Len(added)
             /\ data[n].block = BuildBlock(RecordSize[t], es) /\ Fits(RecordSize[t], es)
             /\ Len(es) = num /\ es = Cut(Values, from, EntriesTo(n))
             /\ \A k \in 1..num : es[k] = added[from + k].entry /\ added[from + k].datatype = t
             /\ n # BlocksTo(i) => num = BlockSize
<1>. DEFINE es == EntriesIn(data, added, n)
            num == data[n].block.num
            from == EntriesTo(n - 1)
            t == typesPresent[i]
<1>1. /\ TypeCount \in Nat /\ data \in Seq(Placed) /\ Len(data) \in Nat
      /\ Len(added) \in Nat /\ EntriesTo(Len(data)) = Len(added)
      /\ Len(Values) = Len(added) /\ \A k \in 1..Len(added) : Values[k] = added[k].entry
  BY ReadyIs
<1>2. BlocksTo(i - 1) \in 0..Len(data) /\ BlocksTo(i) \in 0..Len(data)
  <2>1. i - 1 \in 0..TypeCount /\ i \in 0..TypeCount
    BY <1>1
  <2>. QED  BY <2>1 DEF Ready
<1>3. n \in 1..Len(data) /\ n \in 0..Len(data) /\ n - 1 \in 0..Len(data) /\ Len(data) \in n..Len(data)
  BY <1>1, <1>2
<1>4. /\ num \in 1..BlockSize /\ from \in Nat /\ EntriesTo(n) = from + num /\ EntriesTo(n) \in Nat
  BY <1>1, <1>3, UpToIs DEF EntriesTo
<1>5. EntriesTo(n) <= Len(added)
  <2>1. UpTo(data, n) <= UpTo(data, Len(data))
    BY <1>1, <1>3, UpToGrows
  <2>. QED  BY <1>1, <2>1 DEF EntriesTo
<1>6. Holds(data, added, n, t) /\ Fits(RecordSize[t], es) /\ (n # BlocksTo(i) => num = BlockSize)
  BY DEF Ready
<1>7. /\ data[n].block = BuildBlock(RecordSize[t], es)
      /\ \A k \in 1..num : added[from + k].datatype = t
  BY <1>6 DEF Holds, EntriesTo
<1>8. es = [k \in 1..num |-> added[from + k].entry]
  BY DEF EntriesIn, EntriesTo
<1>. HIDE DEF es, num, from, t
<1>9. num \in Nat /\ num = EntriesTo(n) - from /\ \A k \in 1..num : from + k \in 1..Len(added)
  BY <1>1, <1>4, <1>5, BlockSizes
<1>10. Len(es) = num
  BY <1>8, <1>9
<1>11. es = Cut(Values, from, EntriesTo(n))
  <2>1. \A k \in 1..num : Values[from + k] = added[from + k].entry
    BY <1>1, <1>9
  <2>2. Cut(Values, from, EntriesTo(n)) = [k \in 1..num |-> Values[from + k]]
    BY <1>9 DEF Cut
  <2>. QED  BY <1>8, <2>1, <2>2
<1>. QED  BY <1>3, <1>4, <1>5, <1>6, <1>7, <1>8, <1>10, <1>11 DEF es, num, from, t

\* The entries of a type.
LEMMA EntriesOfType ==
  ASSUME Ready, NEW i \in 1..TypeCount
  PROVE  /\ EntriesTo(BlocksTo(i)) \in 0..Len(added)
         /\ EntriesTo(BlocksTo(i - 1)) \in 0..EntriesTo(BlocksTo(i))
         /\ EntriesTo(BlocksTo(i - 1)) < EntriesTo(BlocksTo(i))
         /\ \A k \in (EntriesTo(BlocksTo(i - 1)) + 1)..EntriesTo(BlocksTo(i)) :
              added[k].datatype = typesPresent[i]
<1>. DEFINE m == BlocksTo(i - 1)
            n == BlocksTo(i)
            t == typesPresent[i]
<1>1. /\ TypeCount \in Nat /\ data \in Seq(Placed) /\ Len(data) \in Nat
      /\ Len(added) \in Nat /\ EntriesTo(Len(data)) = Len(added)
  BY ReadyIs
<1>2. m \in 0..Len(data) /\ n \in 0..Len(data) /\ m < n
  <2>1. i - 1 \in 0..TypeCount /\ i \in 0..TypeCount
    BY <1>1
  <2>. QED  BY <2>1 DEF Ready
<1>3. \A b \in (m+1)..n : /\ data[b].block.num \in 1..BlockSize /\ EntriesTo(b - 1) \in Nat
                          /\ EntriesTo(b) = EntriesTo(b - 1) + data[b].block.num
                          /\ EntriesTo(b) <= Len(added)
                          /\ \A k \in 1..data[b].block.num : added[EntriesTo(b - 1) + k].datatype = t
  <2>. SUFFICES ASSUME NEW b \in (m+1)..n
                PROVE  /\ data[b].block.num \in 1..BlockSize /\ EntriesTo(b - 1) \in Nat
                       /\ EntriesTo(b) = EntriesTo(b - 1) + data[b].block.num
                       /\ EntriesTo(b) <= Len(added)
                       /\ \A k \in 1..data[b].block.num : added[EntriesTo(b - 1) + k].datatype = t
    OBVIOUS
  <2>. QED  BY BlockFacts
<1>. HIDE DEF m, n, t
<1>4. m \in Int /\ n \in Int /\ m \in Nat /\ n \in Nat /\ m <= n /\ n \in m..n
  BY <1>1, <1>2
<1>5. EntriesTo(m) \in Nat
  BY <1>1, <1>2, UpToIs DEF EntriesTo
<1>. DEFINE P == {b \in m..n : /\ EntriesTo(b) \in Nat /\ EntriesTo(m) <= EntriesTo(b)
                               /\ m # b => EntriesTo(m) < EntriesTo(b) /\ EntriesTo(b) <= Len(added)
                               /\ \A k \in (EntriesTo(m) + 1)..EntriesTo(b) : added[k].datatype = t}
<1>6. m \in P
  BY <1>4, <1>5
<1>7. \A b \in (m+1)..n : b - 1 \in P => b \in P
  <2>. SUFFICES ASSUME NEW b \in (m+1)..n, b - 1 \in P PROVE b \in P
    OBVIOUS
  <2>1. b \in m..n
    BY <1>4
  <2>. DEFINE x == EntriesTo(m)
              y == EntriesTo(b - 1)
              z == EntriesTo(b)
              num == data[b].block.num
  <2>2. y \in Nat /\ x <= y /\ \A k \in (x+1)..y : added[k].datatype = t
    OBVIOUS
  <2>3. /\ num \in 1..BlockSize /\ z = y + num /\ z <= Len(added)
        /\ \A k \in 1..num : added[y + k].datatype = t
    BY <1>3
  <2>4. x \in Nat
    BY <1>5
  <2>. HIDE DEF x, y, z, num
  <2>5. z \in Nat /\ x < z
    BY <2>2, <2>3, <2>4, BlockSizes
  <2>6. ASSUME NEW k \in (x+1)..z PROVE added[k].datatype = t
    <3>1. CASE k <= y
      <4>1. k \in (x+1)..y
        BY <2>2, <2>4, <2>5, <3>1
      <4>. QED  BY <2>2, <4>1
    <3>2. CASE ~(k <= y)
      <4>1. k - y \in 1..num /\ y + (k - y) = k
        BY <2>2, <2>3, <2>4, <2>5, <3>2, BlockSizes
      <4>. QED  BY <2>3, <4>1
    <3>. QED  BY <3>1, <3>2
  <2>. QED  BY <2>1, <2>3, <2>4, <2>5, <2>6 DEF x, z
<1>. HIDE DEF P
<1>8. \A b \in m..n : b \in P
  BY <1>4, <1>6, <1>7, InductOn
<1>9. n \in P
  BY <1>4, <1>8
<1>. DEFINE x == EntriesTo(m)
            z == EntriesTo(n)
<1>10. z \in Nat /\ x < z /\ z <= Len(added) /\ \A k \in (x+1)..z : added[k].datatype = t
  BY <1>2, <1>4, <1>9 DEF P
<1>11. x \in Nat
  BY <1>5
<1>. HIDE DEF x, z
<1>12. z \in 0..Len(added) /\ x \in 0..z
  BY <1>1, <1>10, <1>11
<1>. QED  BY <1>10, <1>12 DEF m, n, t, x, z

-----------------------------------------------------------------------------
(* Iterating.                                                              *)

\* The entries of a block, by its ropes.
BlockEntries(b) == [k \in 1..b.num |-> FlattenSeq(Ropes(b)[k - 1])]

\* They are the entries it was built from.
LEMMA BlockEntriesAre ==
  ASSUME NEW recordSize, NEW es, Fits(recordSize, es)
  PROVE  BlockEntries(BuildBlock(recordSize, es)) = es
<1>. DEFINE b == BuildBlock(recordSize, es)
<1>1. b.num = Len(es)
  BY BlockHeader
<1>2. es \in Seq(Bytes) /\ Len(es) \in Nat
  BY DEF Fits
<1>3. ASSUME NEW k \in 1..Len(es) PROVE FlattenSeq(Ropes(b)[k - 1]) = es[k]
  <2>1. k - 1 \in 0..(Len(es) - 1) /\ (k - 1) + 1 = k
    BY <1>2
  <2>2. FlattenSeq(Ropes(b)[k - 1]) = es[(k - 1) + 1]
    BY <2>1, RopesAre
  <2>. QED  BY <2>1, <2>2
<1>. HIDE DEF b
<1>4. BlockEntries(b) = [k \in 1..Len(es) |-> es[k]]
  BY <1>1, <1>3 DEF BlockEntries
<1>5. es = [k \in 1..Len(es) |-> es[k]]
  BY <1>2
<1>. QED  BY <1>4, <1>5 DEF b

\* Iterating over a segment gives the entries of its type.
LEMMA SegmentEntries ==
  ASSUME Ready, NEW i \in 0..(TypeCount - 1)
  PROVE  EntriesOf(Segment(i))
           = Cut(Values, EntriesTo(BlocksTo(i)), EntriesTo(BlocksTo(i + 1)))
<1>. DEFINE s == Segment(i)
            m == BlocksTo(i)
            count == BlocksTo(i + 1) - m
            j == i + 1
            sl == [n \in 1..count |-> BlockEntries(Block(s, n - 1))]
            o == [n \in 0..count |-> EntriesTo(m + n)]
<1>1. /\ data \in Seq(Placed) /\ Len(data) \in Nat /\ TypeCount \in Nat
      /\ Len(added) \in Nat /\ EntriesTo(Len(data)) = Len(added)
      /\ Values \in Seq(Bytes) /\ Len(Values) = Len(added)
  BY ReadyIs
<1>2. /\ count \in Nat \ {0} /\ m \in Nat /\ m + count \in 1..Len(data)
      /\ NumBlocks(s) = count
      /\ \A k \in 0..(count - 1) : Block(s, k) = data[m + k + 1].block
  BY SegmentIs
<1>3. j \in 1..TypeCount /\ j - 1 = i /\ j = i + 1
  BY <1>1
<1>. HIDE DEF j
<1>4. BlocksTo(j - 1) = m /\ BlocksTo(j) = BlocksTo(i + 1) /\ BlocksTo(j) \in 0..Len(data)
  <2>1. j \in 0..TypeCount
    BY <1>1, <1>3
  <2>. QED  BY <1>3, <2>1 DEF Ready
<1>5. BlocksTo(j) = m + count
  BY <1>1, <1>2, <1>4
<1>6. EntriesOf(s) = FlattenSeq(sl)
  <2>1. EntriesOf(s) = FlattenSeq([n \in 1..NumBlocks(s) |-> BlockEntries(Block(s, n - 1))])
    BY DEF EntriesOf, BlockEntries
  <2>. HIDE DEF s, count
  <2>. QED  BY <1>2, <2>1
<1>. HIDE DEF s, m, count
<1>7. \A n \in 0..count : EntriesTo(m + n) \in 0..Len(added)
  <2>. SUFFICES ASSUME NEW n \in 0..count PROVE EntriesTo(m + n) \in 0..Len(added)
    OBVIOUS
  <2>1. m + n \in 0..Len(data) /\ Len(data) \in (m + n)..Len(data) /\ Len(data) \in 0..Len(data)
    BY <1>1, <1>2
  <2>2. UpTo(data, m + n) <= UpTo(data, Len(data)) /\ UpTo(data, m + n) \in Nat
    BY <1>1, <2>1, UpToGrows, UpToIs
  <2>. QED  BY <1>1, <2>2 DEF EntriesTo
<1>8. o \in [0..count -> 0..Len(Values)] /\ count \in Nat /\ 0 \in 0..count /\ count \in 0..count
  <2>1. count \in Nat /\ 0 \in 0..count /\ count \in 0..count
    BY <1>2
  <2>2. \A n \in 0..count : EntriesTo(m + n) \in 0..Len(Values)
    BY <1>1, <1>7
  <2>3. o \in [0..count -> 0..Len(Values)]
    BY <2>2
  <2>. QED  BY <2>1, <2>3
<1>9. ASSUME NEW n \in 1..count
      PROVE  o[n - 1] <= o[n] /\ BlockEntries(Block(s, n - 1)) = Cut(Values, o[n - 1], o[n])
  <2>. DEFINE b == m + n
  <2>1. /\ n - 1 \in 0..(count - 1) /\ m + (n - 1) + 1 = b /\ n \in 0..count /\ n - 1 \in 0..count
        /\ m + (n - 1) = b - 1 /\ b \in (m + 1)..(m + count)
    BY <1>2
  <2>. HIDE DEF b
  <2>2. Block(s, n - 1) = data[b].block
    BY <1>2, <2>1
  <2>3. o[n] = EntriesTo(b) /\ o[n - 1] = EntriesTo(b - 1)
    BY <2>1 DEF b
  <2>4. b \in (BlocksTo(j - 1) + 1)..BlocksTo(j)
    BY <1>4, <1>5, <2>1
  <2>. DEFINE es == EntriesIn(data, added, b)
              t == typesPresent[j]
  <2>5. /\ data[b].block = BuildBlock(RecordSize[t], es) /\ Fits(RecordSize[t], es)
        /\ es = Cut(Values, EntriesTo(b - 1), EntriesTo(b))
        /\ data[b].block.num \in 1..BlockSize /\ EntriesTo(b - 1) \in Nat
        /\ EntriesTo(b) = EntriesTo(b - 1) + data[b].block.num
    BY <1>3, <2>4, BlockFacts
  <2>6. BlockEntries(data[b].block) = es
    <3>. HIDE DEF es, t
    <3>. QED  BY <2>5, BlockEntriesAre
  <2>7. o[n - 1] <= o[n]
    BY <2>3, <2>5, BlockSizes
  <2>. QED  BY <2>2, <2>3, <2>5, <2>6, <2>7
<1>10. sl = [n \in 1..count |-> Cut(Values, o[n - 1], o[n])]
  BY <1>9
<1>11. o[0] = EntriesTo(m) /\ o[count] = EntriesTo(BlocksTo(i + 1))
  <2>1. m + 0 = m
    BY <1>2
  <2>. QED  BY <1>3, <1>5, <1>8, <2>1
<1>. HIDE DEF sl, o
<1>12. FlattenSeq(sl) = Cut(Values, o[0], o[count])
  <2>1. \A n \in 1..count : o[n - 1] <= o[n]
    BY <1>9
  <2>. QED  BY <1>1, <1>8, <1>10, <2>1, FlattenCuts
<1>. QED  BY <1>6, <1>11, <1>12 DEF s, m

\* Iterating over the segments gives the entries added.
LEMMA IterationIs ==
  ASSUME Ready
  PROVE  TypedEntries = added
<1>. DEFINE Slice(n) == LET entries == EntriesOf(Segment(n - 1))
                        IN  [k \in DOMAIN entries |-> Typed(typesPresent[n], entries[k])]
            sl == [n \in 1..TypeCount |-> Slice(n)]
            o == [n \in 0..TypeCount |-> EntriesTo(BlocksTo(n))]
<1>1. /\ data \in Seq(Placed) /\ Len(data) \in Nat /\ TypeCount \in Nat
      /\ added \in Seq(EntryType) /\ Len(added) \in Nat /\ EntriesTo(Len(data)) = Len(added)
      /\ Values \in Seq(Bytes) /\ Len(Values) = Len(added)
      /\ \A k \in 1..Len(added) : Values[k] = added[k].entry
  BY ReadyIs
<1>2. EntriesTo(0) = 0 /\ BlocksTo(0) = 0 /\ BlocksTo(TypeCount) = Len(data)
  BY <1>1, UpToIs DEF Ready, EntriesTo
<1>3. \A n \in 0..TypeCount : EntriesTo(BlocksTo(n)) \in 0..Len(added)
  <2>. SUFFICES ASSUME NEW n \in 0..TypeCount PROVE EntriesTo(BlocksTo(n)) \in 0..Len(added)
    OBVIOUS
  <2>1. n = 0 \/ n \in 1..TypeCount
    BY <1>1
  <2>2. n \in 1..TypeCount => EntriesTo(BlocksTo(n)) \in 0..Len(added)
    BY EntriesOfType
  <2>. QED  BY <1>1, <1>2, <2>1, <2>2
<1>4. /\ o \in [0..TypeCount -> 0..Len(added)] /\ 0 \in 0..TypeCount /\ TypeCount \in 0..TypeCount
      /\ o[0] = 0 /\ o[TypeCount] = Len(added)
  BY <1>1, <1>2, <1>3
<1>5. ASSUME NEW n \in 1..TypeCount
      PROVE  o[n - 1] <= o[n] /\ Slice(n) = Cut(added, o[n - 1], o[n])
  <2>. DEFINE x == EntriesTo(BlocksTo(n - 1))
              z == EntriesTo(BlocksTo(n))
              es == EntriesOf(Segment(n - 1))
  <2>1. n - 1 \in 0..(TypeCount - 1) /\ n - 1 \in 0..TypeCount /\ n \in 0..TypeCount /\ (n - 1) + 1 = n
    BY <1>1
  <2>2. z \in 0..Len(added) /\ x \in 0..z /\ x < z
        /\ \A k \in (x+1)..z : added[k].datatype = typesPresent[n]
    BY EntriesOfType
  <2>3. es = Cut(Values, x, z)
    <3>. DEFINE i == n - 1
    <3>1. i \in 0..(TypeCount - 1) /\ i + 1 = n
      BY <2>1
    <3>. HIDE DEF i
    <3>2. EntriesOf(Segment(i)) = Cut(Values, EntriesTo(BlocksTo(i)), EntriesTo(BlocksTo(i + 1)))
      BY <3>1, SegmentEntries
    <3>. QED  BY <3>1, <3>2 DEF i
  <2>4. o[n - 1] = x /\ o[n] = z
    BY <2>1
  <2>. HIDE DEF x, z, es, o
  <2>5. x \in Nat /\ z \in Nat /\ x <= z /\ z - x \in Nat /\ z <= Len(added)
    BY <1>1, <2>2
  <2>6. DOMAIN es = 1..(z - x) /\ \A k \in 1..(z - x) : es[k] = Values[x + k]
    BY <2>3 DEF Cut
  <2>7. ASSUME NEW k \in 1..(z - x) PROVE Typed(typesPresent[n], es[k]) = added[x + k]
    <3>1. x + k \in 1..Len(added) /\ x + k \in (x+1)..z
      BY <1>1, <2>5
    <3>2. added[x + k] \in EntryType
      BY <1>1, <3>1
    <3>3. added[x + k].datatype = typesPresent[n] /\ es[k] = added[x + k].entry
      BY <1>1, <2>2, <2>6, <3>1
    <3>. QED  BY <3>2, <3>3 DEF Typed, EntryType
  <2>8. Slice(n) = [k \in 1..(z - x) |-> Typed(typesPresent[n], es[k])]
    BY <2>6 DEF es
  <2>9. Slice(n) = Cut(added, x, z)
    <3>. HIDE DEF Slice
    <3>. QED  BY <2>7, <2>8 DEF Cut
  <2>. QED  BY <2>4, <2>5, <2>9
<1>6. TypedEntries = FlattenSeq(sl)
  BY DEF TypedEntries
<1>7. sl = [n \in 1..TypeCount |-> Cut(added, o[n - 1], o[n])]
  BY <1>5
<1>8. \A n \in 1..TypeCount : o[n - 1] <= o[n]
  BY <1>5
<1>. HIDE DEF sl, o
<1>9. FlattenSeq(sl) = Cut(added, o[0], o[TypeCount])
  BY <1>1, <1>4, <1>7, <1>8, FlattenCuts
<1>10. Cut(added, 0, Len(added)) = added
  BY <1>1, CutAll
<1>. QED  BY <1>4, <1>6, <1>9, <1>10

\* Iterating over segments, blocks and ropes (DictSegmentIterator,
\* SizedBlockIterator) gives the entries added, each once and with its type.
THEOREM IterationAlways == Spec => []IterationGivesEntries
<1>1. Inv => IterationGivesEntries
  <2>. SUFFICES ASSUME Inv, phase = "finished" PROVE TypedEntries = added
    BY DEF IterationGivesEntries
  <2>1. Ready
    BY FinishedIsReady
  <2>. QED  BY <2>1, IterationIs
<1>. QED  BY <1>1, InvAlways, PTL

-----------------------------------------------------------------------------
(* Ids. Before the last block of a type all are full, so that an id is a   *)
(* number of full blocks, less the gaps of the types before.               *)

\* A block where it starts.
LEMMA BlockOfBuffer ==
  ASSUME Ready, NEW n \in 1..Len(data)
  PROVE  BlockStartingAt(data, EndAt(data, n - 1)) = data[n].block
<1>1. /\ data \in Seq(Placed) /\ Len(data) \in Nat
      /\ \A k \in 1..Len(data) : data[k].at = EndAt(data, k - 1)
  BY ReadyIs DEF Ready
<1>2. DOMAIN data = 1..Len(data)
  BY <1>1
<1>3. \A k, m \in 0..Len(data) : k < m => EndAt(data, k) < EndAt(data, m)
  BY <1>1, EndIs
<1>4. \A k \in 0..Len(data) : EndAt(data, k) \in Nat
  BY <1>1, EndIs
<1>5. ASSUME NEW k \in 1..Len(data), data[k].at = data[n].at PROVE k = n
  <2>1. k - 1 \in 0..Len(data) /\ n - 1 \in 0..Len(data)
    BY <1>1
  <2>. DEFINE x == EndAt(data, k - 1)
              y == EndAt(data, n - 1)
  <2>2. x = y /\ x \in Nat /\ y \in Nat
    BY <1>1, <1>4, <1>5, <2>1
  <2>3. (k - 1 < n - 1 => x < y) /\ (n - 1 < k - 1 => y < x)
    BY <1>3, <2>1
  <2>. HIDE DEF x, y
  <2>. QED  BY <2>2, <2>3
<1>6. data[n].at = EndAt(data, n - 1)
  BY <1>1
<1>7. BlockStartingAt(data, data[n].at) = data[n].block
  BY <1>1, <1>2, <1>5, BlockAt
<1>. QED  BY <1>6, <1>7

\* Only the last block of a type may be short.
LEMMA FullBlocks ==
  ASSUME Ready, NEW i \in 1..TypeCount
  PROVE  /\ BlocksTo(i - 1) \in Nat /\ BlocksTo(i) \in 1..Len(data) /\ BlocksTo(i - 1) < BlocksTo(i)
         /\ \A b \in BlocksTo(i - 1)..(BlocksTo(i) - 1) :
              /\ EntriesTo(b) \in Nat
              /\ EntriesTo(b) = EntriesTo(BlocksTo(i - 1)) + (b - BlocksTo(i - 1)) * BlockSize
         /\ data[BlocksTo(i)].block.num \in 1..BlockSize
         /\ EntriesTo(BlocksTo(i)) = EntriesTo(BlocksTo(i) - 1) + data[BlocksTo(i)].block.num
<1>. DEFINE m == BlocksTo(i - 1)
            n == BlocksTo(i)
            last == n - 1
<1>1. /\ TypeCount \in Nat /\ data \in Seq(Placed) /\ Len(data) \in Nat
  BY ReadyIs
<1>2. m \in 0..Len(data) /\ n \in 0..Len(data) /\ m < n
  <2>1. i - 1 \in 0..TypeCount /\ i \in 0..TypeCount
    BY <1>1
  <2>. QED  BY <2>1 DEF Ready
<1>3. \A b \in (m+1)..n : /\ data[b].block.num \in 1..BlockSize /\ EntriesTo(b - 1) \in Nat
                          /\ EntriesTo(b) = EntriesTo(b - 1) + data[b].block.num
                          /\ b # n => data[b].block.num = BlockSize
  <2>. SUFFICES ASSUME NEW b \in (m+1)..n
                PROVE  /\ data[b].block.num \in 1..BlockSize /\ EntriesTo(b - 1) \in Nat
                       /\ EntriesTo(b) = EntriesTo(b - 1) + data[b].block.num
                       /\ b # n => data[b].block.num = BlockSize
    OBVIOUS
  <2>. QED  BY BlockFacts
<1>. HIDE DEF m, n
<1>4. m \in Nat /\ n \in Nat /\ n \in 1..Len(data) /\ n \in (m+1)..n /\ last \in Int /\ m \in Int
      /\ m <= last /\ m \in m..last
  BY <1>1, <1>2
<1>. DEFINE P == {b \in m..last : EntriesTo(b) = EntriesTo(m) + (b - m) * BlockSize}
<1>5. EntriesTo(m) \in Nat
  BY <1>1, <1>2, UpToIs DEF EntriesTo
<1>6. m \in P
  <2>1. (m - m) * BlockSize = 0
    BY <1>4, BlockSizes
  <2>. QED  BY <1>4, <1>5, <2>1
<1>7. \A b \in (m+1)..last : b - 1 \in P => b \in P
  <2>. SUFFICES ASSUME NEW b \in (m+1)..last, b - 1 \in P PROVE b \in P
    OBVIOUS
  <2>1. b \in (m+1)..n /\ b # n /\ b \in m..last
    BY <1>4
  <2>2. EntriesTo(b) = EntriesTo(b - 1) + BlockSize
    BY <1>3, <2>1
  <2>3. EntriesTo(b - 1) = EntriesTo(m) + ((b - 1) - m) * BlockSize
    OBVIOUS
  <2>4. (b - m) * BlockSize = ((b - 1) - m) * BlockSize + BlockSize
        /\ ((b - 1) - m) * BlockSize \in Int
    BY <1>4, <2>1, BlockSizes
  <2>. DEFINE x == ((b - 1) - m) * BlockSize
              y == (b - m) * BlockSize
  <2>5. x \in Int /\ y = x + BlockSize /\ EntriesTo(b - 1) = EntriesTo(m) + x
    BY <2>3, <2>4
  <2>. HIDE DEF x, y
  <2>6. EntriesTo(b) = EntriesTo(m) + y
    BY <1>5, <2>2, <2>5, BlockSizes
  <2>. QED  BY <2>1, <2>6 DEF y
<1>. HIDE DEF P, last
<1>8. \A b \in m..last : b \in P
  BY <1>4, <1>6, <1>7, InductOn
<1>9. \A b \in m..last : EntriesTo(b) \in Nat /\ EntriesTo(b) = EntriesTo(m) + (b - m) * BlockSize
  <2>1. \A b \in m..last : b \in 0..Len(data)
    BY <1>1, <1>4 DEF last
  <2>2. \A b \in 0..Len(data) : EntriesTo(b) \in Nat
    BY <1>1, UpToIs DEF EntriesTo
  <2>. QED  BY <1>8, <2>1, <2>2 DEF P
<1>10. data[n].block.num \in 1..BlockSize /\ EntriesTo(n) = EntriesTo(n - 1) + data[n].block.num
  BY <1>3, <1>4
<1>. QED  BY <1>2, <1>4, <1>9, <1>10 DEF m, n, last

\* The places left free in the last block of a type.
GapAt(i) == BlockSize - data[BlocksTo(i)].block.num

\* What the tally of from_parts adds for a type is the gap in its last block.
LEMMA GapIs ==
  ASSUME Ready, NEW i \in 1..Len(typeOffsets)
  PROVE  /\ i \in 1..TypeCount /\ i < TypeCount /\ typeOffsets[i] + 1 = BlocksTo(i)
         /\ GapAt(i) \in Nat /\ BlockSize - ControlRecords(typeOffsets[i]) = GapAt(i)
<1>. DEFINE t == typeOffsets[i]
            n == BlocksTo(i)
<1>1. TypeCount \in Nat /\ data \in Seq(Placed) /\ Len(data) \in Nat
  BY ReadyIs
<1>2. Len(typeOffsets) = (IF TypeCount = 0 THEN 0 ELSE TypeCount - 1)
  BY DEF Ready
<1>3. i \in 1..TypeCount /\ i < TypeCount
  BY <1>1, <1>2
<1>4. t = n - 1 /\ n \in 1..Len(data) /\ data[n].block.num \in 1..BlockSize
  BY <1>3, FullBlocks DEF Ready
<1>5. t \in 0..(Len(data) - 1) /\ t + 1 = n
  BY <1>1, <1>4
<1>6. (IF t = 0 THEN 0 ELSE blockOffsets[t]) = EndAt(data, n - 1)
  <2>1. CASE t = 0
    BY <1>4, <2>1 DEF EndAt
  <2>2. CASE t # 0
    <3>1. data # <<>>
      BY <1>1, <1>4
    <3>. DEFINE last == Len(data) - 1
    <3>2. t \in 1..last
      BY <1>1, <1>5, <2>2
    <3>. HIDE DEF last, t, n
    <3>3. OffsetsAre(blockOffsets, data, last)
      BY <3>1 DEF Ready, last
    <3>4. blockOffsets[t] = EndAt(data, t)
      BY <3>2, <3>3 DEF OffsetsAre
    <3>. QED  BY <1>4, <2>2, <3>4
  <2>. QED  BY <2>1, <2>2
<1>7. BlockStartingAt(data, EndAt(data, n - 1)) = data[n].block
  <2>. HIDE DEF n
  <2>. QED  BY <1>4, BlockOfBuffer
<1>8. ControlRecords(t) = data[n].block.num
  BY <1>6, <1>7 DEF ControlRecords
<1>9. GapAt(i) \in Nat
  BY <1>4, BlockSizes DEF GapAt
<1>. QED  BY <1>3, <1>5, <1>8, <1>9 DEF GapAt

\* The gaps make up for what the blocks of the first types do not have.
LEMMA GapsAre ==
  ASSUME Ready
  PROVE  \A n \in 0..Len(typeOffsets) :
           /\ Gaps(n) \in Nat /\ BlocksTo(n) \in Nat /\ EntriesTo(BlocksTo(n)) \in Nat
           /\ EntriesTo(BlocksTo(n)) + Gaps(n) = BlocksTo(n) * BlockSize
<1>. DEFINE count == Len(typeOffsets)
            gaps == [i \in 1..count |-> GapAt(i)]
            Part(n) == SubSeq(gaps, 1, n)
<1>1. /\ TypeCount \in Nat /\ data \in Seq(Placed) /\ Len(data) \in Nat /\ count \in Nat
  BY ReadyIs DEF Ready
<1>2. \A i \in 1..count : /\ i \in 1..TypeCount /\ i < TypeCount /\ GapAt(i) \in Nat
                          /\ BlockSize - ControlRecords(typeOffsets[i]) = GapAt(i)
  BY GapIs
<1>. HIDE DEF count
<1>3. gaps \in Seq(Nat) /\ Len(gaps) = count /\ \A i \in 1..count : gaps[i] = GapAt(i)
  BY <1>1, <1>2
<1>4. ASSUME NEW n \in 0..count PROVE Gaps(n) = SumOf(Part(n)) /\ Gaps(n) \in Nat
  <2>. DEFINE p == [i \in 1..n |-> BlockSize - ControlRecords(typeOffsets[i])]
              q == Part(n)
  <2>1. n \in 0..Len(gaps) /\ n \in Nat /\ \A i \in 1..n : i \in 1..count
    BY <1>1, <1>3
  <2>2. \A i \in 1..n : p[i] = gaps[i] /\ p[i] \in Nat
    BY <1>2, <1>3, <2>1
  <2>8. \A i \in 1..n : BlockSize - ControlRecords(typeOffsets[i]) \in Nat
    BY <1>2, <2>1
  <2>9. p \in [1..n -> Nat]
    BY <2>8
  <2>3. p \in Seq(Nat) /\ Len(p) = n
    <3>. HIDE DEF p
    <3>. QED  BY <2>1, <2>9
  <2>. HIDE DEF gaps
  <2>4. q \in Seq(Nat) /\ Len(q) = n /\ \A i \in 1..n : q[i] = gaps[i]
    BY <1>3, <2>1, FirstIs
  <2>5. Gaps(n) = SumOf(p)
    BY DEF Gaps
  <2>. HIDE DEF p, q
  <2>6. p = q
    BY <2>2, <2>3, <2>4, SeqEqual
  <2>7. SumOf(q) \in Nat
    BY <2>4, SumType
  <2>. QED  BY <2>5, <2>6, <2>7 DEF q
<1>. DEFINE E(n) == EntriesTo(BlocksTo(n))
            P == {n \in 0..count : E(n) + Gaps(n) = BlocksTo(n) * BlockSize}
<1>5. \A n \in 0..count : BlocksTo(n) \in Nat /\ E(n) \in Nat
  <2>. SUFFICES ASSUME NEW n \in 0..count PROVE BlocksTo(n) \in Nat /\ E(n) \in Nat
    OBVIOUS
  <2>1. n \in 0..TypeCount
    <3>1. n = 0 \/ n \in 1..count
      BY <1>1
    <3>. QED  BY <1>1, <1>2, <3>1
  <2>2. BlocksTo(n) \in 0..Len(data)
    BY <2>1 DEF Ready
  <2>. QED  BY <1>1, <2>2, UpToIs DEF EntriesTo
<1>. HIDE DEF gaps
<1>6. 0 \in P
  <2>1. BlocksTo(0) = 0 /\ EntriesTo(0) = 0
    BY <1>1, UpToIs DEF Ready, EntriesTo
  <2>2. 0 \in 0..count
    BY <1>1
  <2>3. Part(0) = <<>>
    BY <1>3
  <2>4. Gaps(0) = 0
    BY <1>4, <2>2, <2>3, SumEmpty
  <2>5. 0 * BlockSize = 0
    BY BlockSizes
  <2>. QED  BY <2>1, <2>2, <2>4, <2>5
<1>7. \A n \in 1..count : n - 1 \in P => n \in P
  <2>. SUFFICES ASSUME NEW n \in 1..count, n - 1 \in P PROVE n \in P
    OBVIOUS
  <2>1. n \in 0..count /\ n - 1 \in 0..count /\ n \in 1..Len(gaps) /\ n \in 1..TypeCount
    BY <1>1, <1>2, <1>3
  <2>2. SumOf(SubSeq(gaps, 1, n)) = SumOf(SubSeq(gaps, 1, n - 1)) + gaps[n]
    BY <1>3, <2>1, SumFirst
  <2>3. Gaps(n) = Gaps(n - 1) + GapAt(n)
    BY <1>3, <1>4, <2>1, <2>2
  <2>4. /\ BlocksTo(n - 1) \in Nat /\ BlocksTo(n) \in 1..Len(data) /\ BlocksTo(n - 1) < BlocksTo(n)
        /\ \A b \in BlocksTo(n - 1)..(BlocksTo(n) - 1) :
              EntriesTo(b) = E(n - 1) + (b - BlocksTo(n - 1)) * BlockSize
        /\ data[BlocksTo(n)].block.num \in 1..BlockSize
        /\ E(n) = EntriesTo(BlocksTo(n) - 1) + data[BlocksTo(n)].block.num
    BY <2>1, FullBlocks
  <2>. DEFINE u == BlocksTo(n - 1)
              v == BlocksTo(n)
              num == data[v].block.num
  <2>5. E(n - 1) + Gaps(n - 1) = u * BlockSize
    OBVIOUS
  <2>6. v - 1 \in u..(v - 1) /\ u \in Nat /\ v \in Nat
    BY <1>1, <2>4
  <2>7. E(n) = E(n - 1) + ((v - 1) - u) * BlockSize + num
    BY <2>4, <2>6
  <2>8. GapAt(n) = BlockSize - num
    BY DEF GapAt
  <2>9. /\ v * BlockSize = u * BlockSize + ((v - 1) - u) * BlockSize + BlockSize
        /\ u * BlockSize \in Int /\ ((v - 1) - u) * BlockSize \in Int /\ v * BlockSize \in Int
    <3>. HIDE DEF u, v
    <3>. QED  BY <2>6, BlockSizes
  <2>10. num \in Int /\ BlockSize \in Int /\ E(n - 1) \in Int /\ Gaps(n - 1) \in Int
    BY <1>4, <1>5, <2>1, <2>4, BlockSizes
  <2>. DEFINE x == u * BlockSize
              y == ((v - 1) - u) * BlockSize
              z == v * BlockSize
              e == E(n - 1)
              g == Gaps(n - 1)
  <2>11. /\ z = x + y + BlockSize /\ e + g = x /\ E(n) = e + y + num
         /\ Gaps(n) = g + (BlockSize - num)
         /\ x \in Int /\ y \in Int /\ z \in Int /\ e \in Int /\ g \in Int
    BY <2>3, <2>5, <2>7, <2>8, <2>9, <2>10
  <2>. HIDE DEF x, y, z, e, g, num, E
  <2>12. E(n) + Gaps(n) = z
    BY <2>10, <2>11
  <2>. QED  BY <2>1, <2>12 DEF z
<1>. HIDE DEF P
<1>8. \A n \in 0..count : n \in P
  BY <1>1, <1>6, <1>7, InductUpTo
<1>. QED  BY <1>4, <1>5, <1>8 DEF P, count

\* Where the ids of the types start.
LEMMA IdOffsetIs ==
  ASSUME Ready, NEW i \in 0..(TypeCount - 1)
  PROVE  /\ SegmentIdOffset(i) = EntriesTo(BlocksTo(i))
         /\ i # 0 => i \in 1..Len(typeOffsets) /\ TypeIdOffsets[i] = EntriesTo(BlocksTo(i))
<1>1. /\ TypeCount \in Nat /\ data \in Seq(Placed) /\ i \in Nat /\ i < TypeCount
  BY ReadyIs
<1>2. Len(typeOffsets) = TypeCount - 1 /\ DOMAIN typeOffsets = 1..Len(typeOffsets)
  <2>1. typeOffsets \in Seq(Nat) /\ Len(typeOffsets) = (IF TypeCount = 0 THEN 0 ELSE TypeCount - 1)
    BY DEF Ready
  <2>2. TypeCount # 0
    BY <1>1
  <2>. QED  BY <2>1, <2>2
<1>3. CASE i = 0
  <2>1. BlocksTo(0) = 0 /\ EntriesTo(0) = 0
    BY <1>1, UpToIs DEF Ready, EntriesTo
  <2>. QED  BY <1>3, <2>1 DEF SegmentIdOffset
<1>4. CASE i # 0
  <2>. DEFINE n == BlocksTo(i)
              e == EntriesTo(n)
              g == Gaps(i)
  <2>1. i \in 1..Len(typeOffsets) /\ i \in 0..Len(typeOffsets)
    BY <1>1, <1>2, <1>4
  <2>2. typeOffsets[i] + 1 = n
    BY <2>1, GapIs
  <2>3. g \in Nat /\ n \in Nat /\ e \in Nat /\ e + g = n * BlockSize
    BY <2>1, GapsAre
  <2>4. TypeIdOffsets[i] = (typeOffsets[i] + 1) * BlockSize - g
    BY <1>2, <2>1 DEF TypeIdOffsets
  <2>. HIDE DEF e, g, n
  <2>5. TypeIdOffsets[i] = n * BlockSize - g
    BY <2>2, <2>4
  <2>. DEFINE p == n * BlockSize
  <2>6. p \in Int
    BY <2>3, BlockSizes
  <2>7. TypeIdOffsets[i] = p - g /\ e + g = p
    BY <2>3, <2>5
  <2>. HIDE DEF p
  <2>8. TypeIdOffsets[i] = e
    BY <2>3, <2>6, <2>7
  <2>. QED  BY <1>4, <2>1, <2>8 DEF SegmentIdOffset, e, n
<1>. QED  BY <1>3, <1>4

\* How many entries the types have.
LEMMA NumEntriesIs ==
  ASSUME Ready
  PROVE  NumTypedEntries = Len(added)
<1>1. /\ typesPresent \in Seq(Types) /\ TypeCount \in Nat /\ TypeCount = Len(typesPresent)
      /\ data \in Seq(Placed) /\ Len(data) \in Nat
      /\ Len(added) \in Nat /\ EntriesTo(Len(data)) = Len(added)
  BY ReadyIs
<1>2. BlocksTo(0) = 0 /\ EntriesTo(0) = 0 /\ BlocksTo(TypeCount) = Len(data)
  BY <1>1, UpToIs DEF Ready, EntriesTo
<1>3. CASE typesPresent = <<>>
  <2>1. TypeCount = 0
    BY <1>1, <1>3
  <2>. QED  BY <1>1, <1>2, <1>3, <2>1 DEF NumTypedEntries
<1>4. CASE typesPresent # <<>>
  <2>. DEFINE m == BlocksTo(TypeCount - 1)
              n == Len(data)
              num == data[n].block.num
              count == Len(typeOffsets)
  <2>1. TypeCount \in 1..TypeCount /\ TypeCount # 0 /\ TypeCount - 1 \in 0..(TypeCount - 1)
    BY <1>1, <1>4
  <2>2. count = TypeCount - 1 /\ count \in 0..count /\ count \in Nat
    <3>1. count = (IF TypeCount = 0 THEN 0 ELSE TypeCount - 1)
      BY DEF Ready
    <3>. QED  BY <1>1, <2>1, <3>1
  <2>3. /\ m \in Nat /\ n \in 1..Len(data) /\ m < n
        /\ \A b \in m..(n - 1) : /\ EntriesTo(b) \in Nat
                                 /\ EntriesTo(b) = EntriesTo(m) + (b - m) * BlockSize
        /\ num \in 1..BlockSize
        /\ EntriesTo(n) = EntriesTo(n - 1) + num
    <3>1. /\ BlocksTo(TypeCount - 1) \in Nat /\ BlocksTo(TypeCount) \in 1..Len(data)
          /\ BlocksTo(TypeCount - 1) < BlocksTo(TypeCount)
          /\ \A b \in BlocksTo(TypeCount - 1)..(BlocksTo(TypeCount) - 1) :
              /\ EntriesTo(b) \in Nat
              /\ EntriesTo(b) = EntriesTo(BlocksTo(TypeCount - 1)) + (b - BlocksTo(TypeCount - 1)) * BlockSize
         /\ data[BlocksTo(TypeCount)].block.num \in 1..BlockSize
         /\ EntriesTo(BlocksTo(TypeCount)) = EntriesTo(BlocksTo(TypeCount) - 1) + data[BlocksTo(TypeCount)].block.num
      BY <2>1, FullBlocks
    <3>. QED  BY <1>2, <3>1
  <2>4. BlockStartingAt(data, EndAt(data, n - 1)) = data[n].block
    BY <2>3, BlockOfBuffer
  <2>5. blockOffsets \in Seq(Nat) /\ Len(blockOffsets) = n - 1
        /\ \A k \in 1..(n - 1) : blockOffsets[k] = EndAt(data, k)
    <3>. DEFINE last == n - 1
    <3>. HIDE DEF last
    <3>1. OffsetsAre(blockOffsets, data, last)
      <4>1. data # <<>>
        BY <2>3
      <4>. QED  BY <4>1 DEF Ready, last
    <3>. QED  BY <3>1 DEF OffsetsAre, last
  <2>. HIDE DEF n, m, count
  <2>6. n \in Nat /\ n >= 1 /\ EntriesTo(n) = Len(added)
    BY <1>1, <2>3 DEF n
  <2>7. CASE blockOffsets = <<>>
    <3>1. n = 1
      BY <2>5, <2>6, <2>7
    <3>2. EndAt(data, n - 1) = 0 /\ n - 1 = 0
      BY <3>1 DEF EndAt
    <3>3. NumTypedEntries = num
      BY <1>4, <2>4, <2>7, <3>2 DEF NumTypedEntries
    <3>4. num = EntriesTo(n)
      BY <1>2, <2>3, <3>2, BlockSizes
    <3>. QED  BY <2>6, <3>3, <3>4
  <2>8. CASE blockOffsets # <<>>
    <3>1. n - 1 \in 1..(n - 1) /\ Len(blockOffsets) \in Nat
      BY <2>5, <2>6, <2>8
    <3>2. Last(blockOffsets) = EndAt(data, n - 1)
      BY <2>5, <3>1 DEF Last
    <3>3. NumTypedEntries = (Len(blockOffsets) + 1) * BlockSize - Gaps(count) - (BlockSize - num)
      <4>1. BlockStartingAt(data, Last(blockOffsets)).num = num
        BY <2>4, <3>2
      <4>2. NumTypedEntries = (Len(blockOffsets) + 1) * BlockSize - Gaps(count)
              - (BlockSize - BlockStartingAt(data, Last(blockOffsets)).num)
        BY <1>4, <2>8 DEF NumTypedEntries, count
      <4>. QED  BY <4>1, <4>2
    <3>4. Len(blockOffsets) + 1 = n
      BY <2>5, <2>6
    <3>. DEFINE e == EntriesTo(m)
                g == Gaps(count)
    <3>5. g \in Nat /\ e \in Nat /\ e + g = m * BlockSize
      <4>1. \A k \in 0..count : /\ Gaps(k) \in Nat /\ EntriesTo(BlocksTo(k)) \in Nat
                                /\ EntriesTo(BlocksTo(k)) + Gaps(k) = BlocksTo(k) * BlockSize
        BY GapsAre DEF count
      <4>2. BlocksTo(count) = m
        BY <2>2 DEF m
      <4>. QED  BY <2>2, <4>1, <4>2
    <3>6. EntriesTo(n) = e + ((n - 1) - m) * BlockSize + num
      <4>1. n - 1 \in m..(n - 1)
        BY <2>3, <2>6
      <4>. QED  BY <2>3, <4>1
    <3>7. /\ n * BlockSize = m * BlockSize + ((n - 1) - m) * BlockSize + BlockSize
          /\ m * BlockSize \in Int /\ ((n - 1) - m) * BlockSize \in Int /\ n * BlockSize \in Int
      BY <2>3, <2>6, BlockSizes
    <3>. DEFINE x == m * BlockSize
                y == ((n - 1) - m) * BlockSize
                z == n * BlockSize
    <3>8. /\ z = x + y + BlockSize /\ e + g = x /\ EntriesTo(n) = e + y + num
          /\ NumTypedEntries = z - g - (BlockSize - num)
          /\ x \in Int /\ y \in Int /\ z \in Int /\ num \in Int /\ BlockSize \in Int
      <4>1. z = x + y + BlockSize /\ x \in Int /\ y \in Int /\ z \in Int
        BY <3>7
      <4>2. e + g = x /\ EntriesTo(n) = e + y + num
        BY <3>5, <3>6
      <4>3. NumTypedEntries = z - g - (BlockSize - num)
        BY <3>3, <3>4
      <4>4. num \in Int /\ BlockSize \in Int
        BY <2>3, BlockSizes
      <4>. QED  BY <4>1, <4>2, <4>3, <4>4
    <3>. HIDE DEF x, y, z, e, g, num
    <3>9. NumTypedEntries = EntriesTo(n)
      BY <3>5, <3>8
    <3>. QED  BY <2>6, <3>9
  <2>. QED  BY <2>7, <2>8
<1>. QED  BY <1>3, <1>4

\* The type of an id.
LEMMA TypeIndexIs ==
  ASSUME Ready, NEW id \in 1..Len(added)
  PROVE  LET i == TypeIndexForId(id)
         IN  /\ i \in 0..(TypeCount - 1)
             /\ EntriesTo(BlocksTo(i)) < id /\ id <= EntriesTo(BlocksTo(i + 1))
<1>. DEFINE count == Len(typeOffsets)
            T == {i \in 0..(count-1) : TypeIdOffsets[i + 1] > id - 1} \union {count}
            i == Min(T)
            E(n) == EntriesTo(BlocksTo(n))
<1>1. /\ TypeCount \in Nat /\ data \in Seq(Placed) /\ Len(data) \in Nat
      /\ Len(added) \in Nat /\ EntriesTo(Len(data)) = Len(added)
  BY ReadyIs
<1>2. BlocksTo(0) = 0 /\ EntriesTo(0) = 0 /\ BlocksTo(TypeCount) = Len(data)
  BY <1>1, UpToIs DEF Ready, EntriesTo
<1>3. TypeCount # 0
  BY <1>1, <1>2
<1>4. count = TypeCount - 1 /\ count \in Nat
  <2>1. count = (IF TypeCount = 0 THEN 0 ELSE TypeCount - 1)
    BY DEF Ready
  <2>. QED  BY <1>1, <1>3, <2>1
<1>. HIDE DEF count
<1>5. i \in T /\ \A n \in T : i <= n
  <2>1. T \in SUBSET Nat /\ T # {}
    BY <1>4
  <2>. HIDE DEF T
  <2>. QED  BY <2>1, MinIs
<1>6. i \in 0..count /\ (i # count => i + 1 \in 1..count /\ TypeIdOffsets[i + 1] > id - 1)
  <2>1. count \in 0..count /\ \A n \in 0..(count - 1) : n \in 0..count /\ n + 1 \in 1..count
    BY <1>4
  <2>. HIDE DEF i
  <2>. QED  BY <1>5, <2>1
<1>7. i = TypeIndexForId(id)
  BY DEF TypeIndexForId, count
<1>8. \A n \in 0..(TypeCount - 1) : E(n) \in Nat /\ (n # 0 => TypeIdOffsets[n] = E(n))
  <2>. SUFFICES ASSUME NEW n \in 0..(TypeCount - 1)
                PROVE  E(n) \in Nat /\ (n # 0 => TypeIdOffsets[n] = E(n))
    OBVIOUS
  <2>1. n \in 0..count
    BY <1>4
  <2>2. E(n) \in Nat
    BY <2>1, GapsAre DEF count
  <2>. QED  BY <2>2, IdOffsetIs
<1>9. E(i) < id
  <2>1. CASE i = 0
    BY <1>2, <2>1
  <2>2. CASE i # 0
    <3>1. i - 1 \in 0..(count - 1) /\ ~(i <= i - 1) /\ (i - 1) + 1 = i
      BY <1>4, <1>6, <2>2
    <3>2. i - 1 \notin T
      BY <1>5, <3>1
    <3>3. ~(TypeIdOffsets[i] > id - 1)
      <4>. HIDE DEF i
      <4>. QED  BY <3>1, <3>2
    <3>4. TypeIdOffsets[i] = E(i) /\ E(i) \in Nat
      BY <1>4, <1>6, <1>8, <2>2
    <3>. HIDE DEF i, E, T
    <3>. QED  BY <3>3, <3>4
  <2>. QED  BY <2>1, <2>2
<1>10. id <= E(i + 1)
  <2>1. CASE i = count
    <3>1. i + 1 = TypeCount
      BY <1>1, <1>4, <2>1
    <3>2. E(i + 1) = Len(added)
      BY <1>1, <1>2, <3>1
    <3>. HIDE DEF E, i
    <3>. QED  BY <1>1, <3>2
  <2>2. CASE i # count
    <3>. DEFINE n == i + 1
    <3>1. n \in 1..count /\ TypeIdOffsets[n] > id - 1
      BY <1>6, <2>2
    <3>. HIDE DEF n
    <3>2. n \in 0..(TypeCount - 1) /\ n # 0
      BY <1>4, <3>1
    <3>3. TypeIdOffsets[n] = E(n) /\ E(n) \in Nat
      BY <1>8, <3>2
    <3>. HIDE DEF E
    <3>4. id <= E(n)
      BY <3>1, <3>3
    <3>. QED  BY <3>4 DEF n
  <2>. QED  BY <2>1, <2>2
<1>11. i \in 0..(TypeCount - 1)
  BY <1>4, <1>6
<1>. HIDE DEF i
<1>. QED  BY <1>7, <1>9, <1>10, <1>11

\* A segment counts the entries of its type.
LEMMA NumEntriesOfSegment ==
  ASSUME Ready, NEW i \in 0..(TypeCount - 1)
  PROVE  NumEntries(Segment(i)) = EntriesTo(BlocksTo(i + 1)) - EntriesTo(BlocksTo(i))
<1>. DEFINE s == Segment(i)
            m == BlocksTo(i)
            n == BlocksTo(i + 1)
            num == data[n].block.num
            count == n - m
            e == EntriesTo(m)
            y == (count - 1) * BlockSize
<1>1. /\ TypeCount \in Nat /\ i + 1 \in 1..TypeCount /\ (i + 1) - 1 = i
  <2>1. TypeCount \in Nat
    BY ReadyIs
  <2>. QED  BY <2>1
<1>2. /\ m \in Nat /\ n \in 1..Len(data) /\ m < n
      /\ \A b \in m..(n - 1) : EntriesTo(b) \in Nat /\ EntriesTo(b) = e + (b - m) * BlockSize
      /\ num \in 1..BlockSize /\ EntriesTo(n) = EntriesTo(n - 1) + num
  <2>. DEFINE j == i + 1
  <2>1. j \in 1..TypeCount /\ j - 1 = i
    BY <1>1
  <2>. HIDE DEF j
  <2>2. /\ BlocksTo(j - 1) \in Nat /\ BlocksTo(j) \in 1..Len(data) /\ BlocksTo(j - 1) < BlocksTo(j)
        /\ \A b \in BlocksTo(j - 1)..(BlocksTo(j) - 1) :
             /\ EntriesTo(b) \in Nat
             /\ EntriesTo(b) = EntriesTo(BlocksTo(j - 1)) + (b - BlocksTo(j - 1)) * BlockSize
        /\ data[BlocksTo(j)].block.num \in 1..BlockSize
        /\ EntriesTo(BlocksTo(j)) = EntriesTo(BlocksTo(j) - 1) + data[BlocksTo(j)].block.num
    BY <2>1, FullBlocks
  <2>. QED  BY <2>1, <2>2 DEF j
<1>3. /\ NumBlocks(s) = count /\ count \in Nat \ {0}
      /\ \A k \in 0..(count - 1) : Block(s, k) = data[m + k + 1].block
  BY SegmentIs
<1>. HIDE DEF m, n, s
<1>4. n \in Nat /\ n - 1 \in m..(n - 1) /\ (n - 1) - m = count - 1 /\ m + (count - 1) + 1 = n
      /\ count - 1 \in 0..(count - 1)
  BY <1>2, <1>3
<1>5. Block(s, count - 1).num = num
  BY <1>3, <1>4
<1>6. NumEntries(s) = y + num
  BY <1>3, <1>5 DEF NumEntries
<1>7. EntriesTo(n - 1) = e + y /\ e \in Nat
  <2>1. m \in m..(n - 1)
    BY <1>2, <1>4
  <2>. QED  BY <1>2, <1>4, <2>1
<1>8. y \in Int /\ num \in Int
  BY SMTT(30), <1>2, <1>3, BlockSizes
<1>. HIDE DEF y, e, num
<1>9. NumEntries(s) = EntriesTo(n) - e
  BY <1>2, <1>6, <1>7, <1>8
<1>. QED  BY <1>9 DEF s, n, e, m

\* An entry of a type, by its number among those of the type.
LEMMA EntryOfSegment ==
  ASSUME Ready, NEW i \in 0..(TypeCount - 1),
         NEW x \in 1..(EntriesTo(BlocksTo(i + 1)) - EntriesTo(BlocksTo(i)))
  PROVE  EntryAt(Segment(i), x) = Some(added[EntriesTo(BlocksTo(i)) + x].entry)
<1>. DEFINE s == Segment(i)
            j == i + 1
            m == BlocksTo(i)
            n == BlocksTo(j)
            num == data[n].block.num
            count == n - m
            e == EntriesTo(m)
            q == (x - 1) \div BlockSize
            r == (x - 1) % BlockSize
            b == m + q + 1
<1>0. TypeCount \in Nat
  BY ReadyIs
<1>1. j \in 1..TypeCount /\ j - 1 = i /\ j = i + 1
  BY <1>0
<1>. HIDE DEF j
<1>2. /\ m \in Nat /\ n \in 1..Len(data) /\ m < n
      /\ \A c \in m..(n - 1) : EntriesTo(c) \in Nat /\ EntriesTo(c) = e + (c - m) * BlockSize
      /\ num \in 1..BlockSize /\ EntriesTo(n) = EntriesTo(n - 1) + num
  <2>1. /\ BlocksTo(j - 1) \in Nat /\ BlocksTo(j) \in 1..Len(data) /\ BlocksTo(j - 1) < BlocksTo(j)
        /\ \A c \in BlocksTo(j - 1)..(BlocksTo(j) - 1) :
             /\ EntriesTo(c) \in Nat
             /\ EntriesTo(c) = EntriesTo(BlocksTo(j - 1)) + (c - BlocksTo(j - 1)) * BlockSize
        /\ data[BlocksTo(j)].block.num \in 1..BlockSize
        /\ EntriesTo(BlocksTo(j)) = EntriesTo(BlocksTo(j) - 1) + data[BlocksTo(j)].block.num
    BY <1>1, FullBlocks
  <2>. QED  BY <1>1, <2>1
<1>3. /\ count \in Nat \ {0} /\ \A k \in 0..(count - 1) : Block(s, k) = data[m + k + 1].block
  BY <1>1, SegmentIs
<1>4. NumEntries(s) = EntriesTo(n) - e /\ x \in 1..(EntriesTo(n) - e)
  BY <1>1, NumEntriesOfSegment
<1>5. BlocksTo(j - 1) = m
  BY <1>1
<1>. HIDE DEF m, n, s
<1>6. n \in Nat /\ n - 1 \in m..(n - 1) /\ (n - 1) - m = count - 1 /\ m \in m..(n - 1)
  BY <1>2, <1>3
<1>7. e \in Nat /\ EntriesTo(n - 1) = e + (count - 1) * BlockSize
  BY <1>2, <1>6
<1>8. x \in Nat /\ x - 1 \in Nat /\ EntriesTo(n) \in Int
  BY <1>2, <1>4, <1>6, <1>7, BlockSizes
<1>9. q \in Nat /\ r \in 0..(BlockSize - 1) /\ x - 1 = q * BlockSize + r
  BY <1>8, BlockSizes, Quotient
<1>10. x - 1 < (count - 1) * BlockSize + num
  <2>. DEFINE y == (count - 1) * BlockSize
  <2>1. y \in Int
    BY <1>3, BlockSizes
  <2>2. EntriesTo(n) = e + y + num /\ EntriesTo(n - 1) = e + y
    BY <1>2, <1>7
  <2>. HIDE DEF y, e, num
  <2>3. x - 1 < y + num
    BY <1>2, <1>4, <1>7, <1>8, <2>1, <2>2
  <2>. QED  BY <2>3 DEF y
<1>11. q < count
  <2>1. count * BlockSize = (count - 1) * BlockSize + BlockSize /\ (count - 1) * BlockSize \in Int
        /\ count * BlockSize \in Int
    BY <1>3, BlockSizes
  <2>. DEFINE y == (count - 1) * BlockSize
              z == count * BlockSize
  <2>2. z = y + BlockSize /\ y \in Int /\ z \in Int /\ x - 1 < y + num
    BY <1>10, <2>1
  <2>. HIDE DEF y, z, num, q
  <2>3. x - 1 < z
    BY <1>2, <1>8, <2>2, BlockSizes
  <2>4. (x - 1) \div BlockSize < count
    <3>. DEFINE w == x - 1
                d == BlockSize
    <3>1. w \in Nat /\ d \in Nat \ {0} /\ count \in Int /\ w < count * d
      BY <1>3, <1>8, <2>3, BlockSizes DEF z
    <3>. HIDE DEF w, d, count
    <3>2. w \div d < count
      BY <3>1, QuotientBelow
    <3>. QED  BY <3>2 DEF w, d
  <2>. QED  BY <2>4 DEF q
<1>. HIDE DEF q, r
<1>12. /\ q \in 0..(count - 1) /\ b \in (m+1)..n /\ b - 1 \in m..(n-1) /\ (b - 1) - m = q
       /\ m + q + 1 = b
  BY <1>2, <1>3, <1>6, <1>9, <1>11
<1>. HIDE DEF b
<1>13. Block(s, q) = data[b].block
  BY <1>3, <1>12
<1>. DEFINE es == EntriesIn(data, added, b)
            t == typesPresent[j]
            bnum == data[b].block.num
<1>14. /\ data[b].block = BuildBlock(RecordSize[t], es) /\ Fits(RecordSize[t], es)
       /\ bnum \in 1..BlockSize /\ Len(es) = bnum
       /\ \A k \in 1..bnum : es[k] = added[EntriesTo(b - 1) + k].entry
       /\ b # n => bnum = BlockSize
  <2>1. b \in (BlocksTo(j - 1) + 1)..BlocksTo(j)
    BY <1>5, <1>12 DEF n
  <2>. QED  BY <1>1, <2>1, BlockFacts DEF n
<1>15. EntriesTo(b - 1) = e + q * BlockSize
  BY <1>2, <1>12
<1>16. r < bnum
  <2>1. CASE b # n
    BY <1>9, <1>14, <2>1, BlockSizes
  <2>2. CASE b = n
    <3>1. q = count - 1
      BY <1>2, <1>3, <1>6, <1>9, <1>12, <2>2
    <3>. DEFINE y == q * BlockSize
    <3>2. y \in Int /\ x - 1 = y + r /\ x - 1 < y + num
      BY <1>9, <1>10, <3>1, BlockSizes
    <3>. HIDE DEF y, num, bnum
    <3>3. r < num
      BY <1>2, <1>8, <1>9, <3>2, BlockSizes
    <3>. QED  BY <2>2, <3>3 DEF num, bnum
  <2>. QED  BY <2>1, <2>2
<1>. HIDE DEF bnum
<1>17. r \in 0..(Len(es) - 1) /\ r + 1 \in 1..bnum
  BY <1>9, <1>14, <1>16, BlockSizes
<1>18. Entry(data[b].block, r) = es[r + 1]
  <2>. HIDE DEF es, t
  <2>1. \A k \in 0..(Len(es) - 1) : Entry(BuildBlock(RecordSize[t], es), k) = es[k + 1]
    BY <1>14, EntriesAre
  <2>. QED  BY <1>14, <1>17, <2>1
<1>19. es[r + 1] = added[EntriesTo(b - 1) + (r + 1)].entry
  BY <1>14, <1>17
<1>20. EntriesTo(b - 1) + (r + 1) = e + x
  <2>. DEFINE y == q * BlockSize
  <2>1. y \in Int /\ x - 1 = y + r /\ EntriesTo(b - 1) = e + y
    BY <1>9, <1>15, BlockSizes
  <2>. HIDE DEF y, e
  <2>2. r \in Int
    BY <1>9, BlockSizes
  <2>. QED  BY <1>7, <1>8, <2>1, <2>2
<1>21. Entry(Block(s, q), r) = added[e + x].entry
  BY <1>13, <1>18, <1>19, <1>20
<1>22. ~(x > NumEntries(s))
  <2>. HIDE DEF e
  <2>. QED  BY <1>4, <1>7, <1>8
<1>23. EntryAt(s, x) = Some(Entry(Block(s, q), r))
  BY <1>22 DEF EntryAt, q, r
<1>. QED  BY <1>21, <1>23 DEF s, e, m

(* Ids go through all entries in order. *)
\* Entry id of a finished dictionary is the id-th one added, however short the
\* last blocks of the types are, and there are as many as were added
\* (TypedDict::entry, num_entries, the tally of from_parts).
THEOREM IdsAlways == Spec => []EntriesKeepTheirIds
<1>1. ASSUME Inv, phase = "finished" PROVE NumTypedEntries = Len(added)
  BY <1>1, FinishedIsReady, NumEntriesIs
<1>2. ASSUME Inv, phase = "finished", NEW id \in 1..(Len(added) + 1)
      PROVE  TypedEntry(id) = IF id <= Len(added) THEN Some(added[id]) ELSE None
  <2>. DEFINE i == TypeIndexForId(id)
              e == EntryAt(Segment(i), id - SegmentIdOffset(i))
  <2>1. Ready
    BY <1>2, FinishedIsReady
  <2>2. NumTypedEntries = Len(added) /\ Len(added) \in Nat /\ added \in Seq(EntryType)
        /\ TypeCount \in Nat
    BY <2>1, NumEntriesIs, ReadyIs
  <2>3. TypedEntry(id) = IF id > NumTypedEntries \/ e = None THEN None
                         ELSE Some(Typed(typesPresent[i + 1], Head(e)))
    BY DEF TypedEntry
  <2>4. CASE ~(id <= Len(added))
    <3>1. id > NumTypedEntries
      BY <2>2, <2>4
    <3>. HIDE DEF e, i
    <3>. QED  BY <2>3, <2>4, <3>1
  <2>5. CASE id <= Len(added)
    <3>1. id \in 1..Len(added) /\ ~(id > NumTypedEntries)
      BY <2>2, <2>5
    <3>2. /\ i \in 0..(TypeCount - 1)
          /\ EntriesTo(BlocksTo(i)) < id /\ id <= EntriesTo(BlocksTo(i + 1))
      BY <2>1, <3>1, TypeIndexIs
    <3>. DEFINE from == EntriesTo(BlocksTo(i))
                to == EntriesTo(BlocksTo(i + 1))
                x == id - from
                j == i + 1
    <3>. HIDE DEF i
    <3>3. SegmentIdOffset(i) = from
      BY <2>1, <3>2, IdOffsetIs
    <3>4. j \in 1..TypeCount /\ j - 1 = i
      BY <2>2, <3>2
    <3>5. from \in 0..to /\ to \in 0..Len(added)
          /\ \A k \in (from+1)..to : added[k].datatype = typesPresent[j]
      <4>. HIDE DEF j
      <4>1. /\ EntriesTo(BlocksTo(j)) \in 0..Len(added)
            /\ EntriesTo(BlocksTo(j - 1)) \in 0..EntriesTo(BlocksTo(j))
            /\ \A k \in (EntriesTo(BlocksTo(j - 1)) + 1)..EntriesTo(BlocksTo(j)) :
                 added[k].datatype = typesPresent[j]
        BY <2>1, <3>4, EntriesOfType
      <4>. QED  BY <3>4, <4>1 DEF j
    <3>6. x \in 1..(to - from) /\ from + x = id /\ id \in (from+1)..to
      <4>. HIDE DEF from, to
      <4>. QED  BY <2>2, <3>1, <3>2, <3>5 DEF from, to
    <3>7. e = Some(added[id].entry)
      <4>1. EntryAt(Segment(i), x) = Some(added[from + x].entry)
        <5>. HIDE DEF x
        <5>. QED  BY <2>1, <3>2, <3>6, EntryOfSegment
      <4>. QED  BY <3>3, <3>6, <4>1
    <3>8. e # None /\ Head(e) = added[id].entry
      <4>. HIDE DEF e
      <4>. QED  BY <3>7 DEF Some, None
    <3>9. Typed(typesPresent[i + 1], added[id].entry) = added[id]
      <4>1. added[id].datatype = typesPresent[i + 1]
        BY <3>5, <3>6
      <4>2. added[id] \in EntryType
        BY <2>2, <3>1
      <4>. QED  BY <4>1, <4>2 DEF Typed, EntryType
    <3>. HIDE DEF e
    <3>. QED  BY <2>3, <2>5, <3>1, <3>8, <3>9
  <2>. QED  BY <2>4, <2>5
<1>3. Inv => EntriesKeepTheirIds
  BY <1>1, <1>2 DEF EntriesKeepTheirIds
<1>. QED  BY <1>3, InvAlways, PTL

\* One more from a slice, one more to a slice.
LEMMA CutHead ==
  ASSUME NEW D, NEW w \in Seq(D), NEW t \in 0..Len(w), NEW u \in 0..(t - 1)
  PROVE  /\ Cut(w, u, t) # <<>> /\ Head(Cut(w, u, t)) = w[u + 1]
         /\ Tail(Cut(w, u, t)) = Cut(w, u + 1, t)
<1>. DEFINE v == u + 1
            c == Cut(w, u, t)
            e == Cut(w, v, t)
<1>1. /\ Len(w) \in Nat /\ t \in Nat /\ u \in 0..t /\ v \in 0..t /\ t - v \in Nat
      /\ t - u = (t - v) + 1 /\ t - v = (t - u) - 1 /\ 1 \in 1..(t - u)
  OBVIOUS
<1>2. c \in Seq(D) /\ Len(c) = t - u /\ \A m \in 1..(t - u) : c[m] = w[u + m]
  BY ZenonT(40), <1>1, CutIs
<1>. HIDE DEF v, c
<1>3. e \in Seq(D) /\ Len(e) = t - v /\ \A m \in 1..(t - v) : e[m] = w[v + m]
  BY ZenonT(40), <1>1, CutIs
<1>. HIDE DEF e
<1>4. c # <<>> /\ Head(c) = w[u + 1]
  BY <1>1, <1>2
<1>5. /\ Tail(c) \in Seq(D) /\ Len(Tail(c)) = t - v
      /\ \A m \in 1..(t - v) : Tail(c)[m] = c[m + 1]
  <2>1. /\ Tail(c) \in Seq(D) /\ Len(Tail(c)) = Len(c) - 1
        /\ \A m \in 1..Len(Tail(c)) : Tail(c)[m] = c[m + 1]
    BY <1>2, <1>4, HeadTailProperties
  <2>. QED  BY <1>1, <1>2, <2>1
<1>6. \A m \in 1..(t - v) : m + 1 \in 1..(t - u) /\ u + (m + 1) = v + m
  BY <1>1 DEF v
<1>7. \A m \in 1..(t - v) : Tail(c)[m] = e[m]
  BY <1>2, <1>3, <1>5, <1>6
<1>8. Tail(c) = e
  BY <1>3, <1>5, <1>7, SeqEqual
<1>. QED  BY <1>4, <1>8 DEF c, e, v

\* One more at the end of what is cut off the front.
LEMMA CutAppend ==
  ASSUME NEW D, NEW w \in Seq(D), NEW u \in Nat, u + 1 <= Len(w)
  PROVE  /\ Cut(w, 0, u) \in Seq(D) /\ Len(Cut(w, 0, u)) = u
         /\ Append(Cut(w, 0, u), w[u + 1]) = Cut(w, 0, u + 1)
<1>. DEFINE v == u + 1
            zero == 0
            c == Cut(w, zero, u)
            e == Cut(w, zero, v)
            a == Append(c, w[v])
<1>1. /\ Len(w) \in Nat /\ u \in 0..Len(w) /\ v \in 0..Len(w) /\ zero \in 0..u /\ zero \in 0..v
      /\ u - zero = u /\ v - zero = v /\ v \in Nat /\ w[v] \in D
      /\ \A m \in 1..v : zero + m = m
  OBVIOUS
<1>. HIDE DEF v, zero
<1>2. c \in Seq(D) /\ Len(c) = u /\ \A m \in 1..u : c[m] = w[m]
  <2>1. c \in Seq(D) /\ Len(c) = u - zero /\ \A m \in 1..(u - zero) : c[m] = w[zero + m]
    BY <1>1, CutIs
  <2>2. \A m \in 1..u : m \in 1..v
    BY <1>1 DEF v
  <2>. QED  BY <1>1, <2>1, <2>2
<1>3. e \in Seq(D) /\ Len(e) = v /\ \A m \in 1..v : e[m] = w[m]
  <2>1. e \in Seq(D) /\ Len(e) = v - zero /\ \A m \in 1..(v - zero) : e[m] = w[zero + m]
    BY <1>1, CutIs
  <2>. QED  BY <1>1, <2>1
<1>. HIDE DEF c, e
<1>4. a \in Seq(D) /\ Len(a) = v /\ a[v] = w[v] /\ \A m \in 1..u : a[m] = w[m]
  <2>1. Len(c) + 1 = v
    BY <1>2 DEF v
  <2>. QED  BY <1>1, <1>2, <2>1, AppendProperties
<1>5. \A m \in 1..v : m = v \/ m \in 1..u
  BY <1>1 DEF v
<1>6. a = e
  BY <1>3, <1>4, <1>5, SeqEqual
<1>. QED  BY <1>2, <1>6 DEF c, e, v, zero

-----------------------------------------------------------------------------
(* Streaming.                                                              *)

WholeIn(d, bytes) == {n \in DOMAIN d : d[n].at + SizeOf(d[n].block) <= bytes}
ValuesIn(ad) == [k \in 1..Len(ad) |-> ad[k].entry]

StreamType == [bytes : Nat, blocks : Seq(Placed), entries : Seq(Seq(Nat)), start : BOOLEAN,
               blockIndex : Nat, offset : Nat, done : BOOLEAN]

\* st has read the blocks up to blockIndex of the w whole ones, and given sd.
StreamIs(st, sd, tp, to, d, ad, w) ==
  /\ WholeIn(d, st.bytes) = 1..w
  /\ st.blockIndex \in 0..w
  /\ st.blocks = Cut(d, st.blockIndex, w)
  /\ Len(sd) \in 0..UpTo(d, st.blockIndex)
  /\ sd = Cut(ad, 0, Len(sd))
  /\ st.entries = Cut(ValuesIn(ad), Len(sd), UpTo(d, st.blockIndex))
  /\ st.start = FALSE
  /\ st.blockIndex = 0 => st.offset = 0
  /\ st.blockIndex # 0 =>
       /\ UpTo(d, st.blockIndex - 1) <= Len(sd)
       /\ st.offset \in 0..(Len(tp) - 1)
       /\ st.blockIndex \in (Bound(to, d, st.offset) + 1)..Bound(to, d, st.offset + 1)
  /\ st.done => st.blockIndex = w /\ st.entries = <<>>

StreamInv ==
  /\ stream \in StreamType
  /\ phase # "streaming" => stream = NoStream /\ streamed = <<>>
  /\ phase = "streaming" =>
       \E w \in 0..Len(data) : StreamIs(stream, streamed, typesPresent, typeOffsets, data, added, w)

\* What reading a block leaves, field by field.
LEMMA ReadFields ==
  ASSUME stream \in StreamType
  PROVE  /\ stream.entries # <<>> \/ stream.blocks = <<>> => ReadBlock = stream
         /\ ~(stream.entries # <<>> \/ stream.blocks = <<>>) =>
              ReadBlock = [bytes |-> stream.bytes, blocks |-> Tail(stream.blocks),
                           entries |-> BlockEntries(Head(stream.blocks).block), start |-> TRUE,
                           blockIndex |-> stream.blockIndex, offset |-> stream.offset,
                           done |-> stream.done]
<1>. DEFINE x == Tail(stream.blocks)
            y == TRUE
            z == BlockEntries(Head(stream.blocks).block)
<1>1. /\ stream.entries # <<>> \/ stream.blocks = <<>> => ReadBlock = stream
      /\ ~(stream.entries # <<>> \/ stream.blocks = <<>>) =>
            ReadBlock = [stream EXCEPT !.blocks = x, !.start = y, !.entries = z]
  BY DEF ReadBlock, BlockEntries
<1>. HIDE DEF x, y, z
<1>. DEFINE r == ReadBlock
<1>. HIDE DEF r
<1>2. r = [stream EXCEPT !.blocks = x, !.start = y, !.entries = z] =>
      r = [bytes |-> stream.bytes, blocks |-> x, entries |-> z, start |-> y,
           blockIndex |-> stream.blockIndex, offset |-> stream.offset, done |-> stream.done]
  <2>1. SUFFICES ASSUME r = [stream EXCEPT !.blocks = x, !.start = y, !.entries = z]
        PROVE  r = [bytes |-> stream.bytes, blocks |-> x, entries |-> z, start |-> y,
                    blockIndex |-> stream.blockIndex, offset |-> stream.offset, done |-> stream.done]
    OBVIOUS
  <2>. QED  BY <2>1 DEF StreamType
<1>. QED  BY <1>1, <1>2 DEF x, y, z, r

\* The type of the entry that comes next.
NextOffset(s) ==
  IF s.start /\ s.blockIndex # 0 /\ s.offset < Len(typeOffsets) /\ BeginsType(s.blockIndex, s.offset)
  THEN s.offset + 1 ELSE s.offset

\* s has something left of block r, which is of the type of NextOffset(s).
AtEntry(s, r, w) ==
  /\ r \in 1..w /\ r = (IF s.start THEN s.blockIndex + 1 ELSE s.blockIndex)
  /\ s.blocks = Cut(data, r, w)
  /\ Len(streamed) \in Nat /\ Len(streamed) < EntriesTo(r) /\ EntriesTo(r - 1) <= Len(streamed)
  /\ s.entries = Cut(Values, Len(streamed), EntriesTo(r))
  /\ NextOffset(s) \in 0..(TypeCount - 1)
  /\ r \in (BlocksTo(NextOffset(s)) + 1)..BlocksTo(NextOffset(s) + 1)
  /\ s \in StreamType /\ s.bytes = stream.bytes /\ s.done = stream.done

\* There is nothing left, or the next entry is one of block r.
LEMMA ReadIs ==
  ASSUME Ready, stream \in StreamType, NEW w \in 0..Len(data),
         StreamIs(stream, streamed, typesPresent, typeOffsets, data, added, w)
  PROVE  \/ ReadBlock.entries = <<>> /\ stream.entries = <<>> /\ stream.blockIndex = w
         \/ ReadBlock.entries # <<>> /\ \E r \in 1..w : AtEntry(ReadBlock, r, w)
<1>. DEFINE r == stream.blockIndex
            c == Len(streamed)
            u == EntriesTo(r)
<1>1. /\ data \in Seq(Placed) /\ Len(data) \in Nat /\ TypeCount \in Nat
      /\ added \in Seq(EntryType) /\ Len(added) \in Nat /\ EntriesTo(Len(data)) = Len(added)
      /\ Values \in Seq(Bytes) /\ Len(Values) = Len(added)
  BY ReadyIs
<1>2. /\ r \in 0..w /\ stream.blocks = Cut(data, r, w) /\ c \in 0..u
      /\ stream.entries = Cut(Values, c, u) /\ stream.start = FALSE
      /\ r = 0 => stream.offset = 0
      /\ r # 0 => /\ EntriesTo(r - 1) <= c /\ stream.offset \in 0..(TypeCount - 1)
                  /\ r \in (BlocksTo(stream.offset) + 1)..BlocksTo(stream.offset + 1)
  <2>1. Values = ValuesIn(added)
    BY DEF Values, ValuesIn
  <2>. QED  BY <2>1 DEF StreamIs, EntriesTo, BlocksTo, TypeCount
<1>3. /\ w \in Nat /\ r \in Nat /\ r <= w /\ w <= Len(data) /\ r \in 0..Len(data) /\ w \in 0..Len(data)
      /\ Len(data) \in r..Len(data)
  BY <1>1, <1>2
<1>4. u \in 0..Len(Values) /\ u \in Nat /\ c \in Nat
  <2>1. UpTo(data, r) <= UpTo(data, Len(data)) /\ UpTo(data, r) \in Nat
    BY <1>1, <1>3, UpToGrows, UpToIs
  <2>. QED  BY <1>1, <1>2, <2>1 DEF EntriesTo
<1>5. CASE stream.entries # <<>>
  <2>1. ReadBlock = stream
    BY <1>5, ReadFields
  <2>2. c < u
    <3>. HIDE DEF c, u
    <3>1. Len(Cut(Values, c, u)) = u - c /\ Cut(Values, c, u) \in Seq(Bytes)
      BY <1>1, <1>2, <1>4, CutIs
    <3>2. u - c # 0
      BY <1>2, <1>5, <3>1
    <3>. QED  BY <1>2, <1>4, <3>2
  <2>3. r # 0
    <3>1. r = 0 => u = 0
      BY <1>1, UpToIs DEF EntriesTo
    <3>. HIDE DEF c, u
    <3>. QED  BY <1>4, <2>2, <3>1
  <2>4. NextOffset(stream) = stream.offset
    BY <1>2 DEF NextOffset
  <2>5. r \in 1..w
    BY <1>2, <1>3, <2>3
  <2>6. AtEntry(stream, r, w)
    BY <1>2, <1>4, <2>2, <2>3, <2>4, <2>5 DEF AtEntry
  <2>. QED  BY <1>5, <2>1, <2>5, <2>6
<1>6. CASE stream.entries = <<>> /\ stream.blocks = <<>>
  <2>1. ReadBlock = stream
    BY <1>6, ReadFields
  <2>2. r = w
    <3>. HIDE DEF r
    <3>1. r \in 0..w
      BY <1>2
    <3>2. Len(Cut(data, r, w)) = w - r
      BY <1>1, <1>3, <3>1, CutIs
    <3>3. Len(<<>>) = 0
      OBVIOUS
    <3>. QED  BY <1>2, <1>3, <1>6, <3>2, <3>3
  <2>. QED  BY <1>6, <2>1, <2>2
<1>7. CASE stream.entries = <<>> /\ stream.blocks # <<>>
  <2>. DEFINE n == r + 1
              s == ReadBlock
              v == EntriesTo(n)
  <2>1. r < w
    <3>1. r # w
      <4>. HIDE DEF r
      <4>1. r = w => Len(Cut(data, r, w)) = 0 /\ Cut(data, r, w) \in Seq(Placed)
        <5>1. r \in 0..w
          BY <1>2
        <5>2. Len(Cut(data, r, w)) = w - r /\ Cut(data, r, w) \in Seq(Placed)
          BY <1>1, <1>3, <5>1, CutIs
        <5>. QED  BY <1>3, <5>2
      <4>. QED  BY <1>2, <1>7, <4>1
    <3>. QED  BY <1>3, <3>1
  <2>2. n \in 1..w /\ n \in 1..Len(data) /\ n - 1 = r /\ n \in 0..w
    BY <1>3, <2>1
  <2>3. Head(stream.blocks) = data[n] /\ Tail(stream.blocks) = Cut(data, n, w)
    <3>1. r \in 0..(w - 1)
      BY <1>3, <2>1
    <3>. HIDE DEF r
    <3>2. Head(Cut(data, r, w)) = data[r + 1] /\ Tail(Cut(data, r, w)) = Cut(data, r + 1, w)
      BY <1>1, <1>3, <3>1, CutHead
    <3>. QED  BY <1>2, <3>2
  <2>4. s = [bytes |-> stream.bytes, blocks |-> Cut(data, n, w),
             entries |-> BlockEntries(data[n].block), start |-> TRUE,
             blockIndex |-> r, offset |-> stream.offset, done |-> stream.done]
    BY <1>7, <2>3, ReadFields
  <2>. HIDE DEF s
  <2>5. s.start = TRUE /\ s.blockIndex = r /\ s.offset = stream.offset
        /\ s.blocks = Cut(data, n, w) /\ s.entries = BlockEntries(data[n].block)
        /\ s.bytes = stream.bytes /\ s.done = stream.done
    BY <2>4
  <2>6. c = u
    <3>. HIDE DEF c, u
    <3>1. Len(Cut(Values, c, u)) = u - c
      BY <1>1, <1>2, <1>4, CutIs
    <3>2. Len(<<>>) = 0
      OBVIOUS
    <3>. QED  BY <1>2, <1>4, <1>7, <3>1, <3>2
  <2>. DEFINE o == NextOffset(s)
  <2>7. o \in 0..(TypeCount - 1) /\ n \in (BlocksTo(o) + 1)..BlocksTo(o + 1)
    <3>1. TypeCount # 0
      <4>1. BlocksTo(0) = 0 /\ BlocksTo(TypeCount) = Len(data)
        BY DEF Ready
      <4>. QED  BY <1>1, <2>2, <4>1
    <3>2. Len(typeOffsets) = TypeCount - 1
      <4>1. Len(typeOffsets) = (IF TypeCount = 0 THEN 0 ELSE TypeCount - 1)
        BY DEF Ready
      <4>. QED  BY <3>1, <4>1
    <3>3. \A i \in 0..TypeCount : BlocksTo(i) \in 0..Len(data)
      BY DEF Ready
    <3>4. \A i \in 1..TypeCount : BlocksTo(i - 1) < BlocksTo(i)
      BY DEF Ready
    <3>5. CASE r = 0
      <4>1. o = 0 /\ BlocksTo(0) = 0
        BY <1>2, <2>5, <3>5 DEF NextOffset, Ready
      <4>2. 1 \in 1..TypeCount /\ 1 \in 0..TypeCount /\ 0 \in 0..(TypeCount - 1)
        BY <1>1, <3>1
      <4>3. BlocksTo(1) \in Nat /\ BlocksTo(1) > 0
        <5>1. BlocksTo(1 - 1) < BlocksTo(1) /\ 1 - 1 = 0
          BY <3>4, <4>2
        <5>. QED  BY <3>3, <4>1, <4>2, <5>1
      <4>4. n = 1
        BY <3>5
      <4>5. n \in (BlocksTo(0) + 1)..BlocksTo(0 + 1)
        BY <4>1, <4>3, <4>4
      <4>. QED  BY <4>1, <4>2, <4>5
    <3>6. CASE r # 0
      <4>. DEFINE i == stream.offset
      <4>1. i \in 0..(TypeCount - 1) /\ r \in (BlocksTo(i) + 1)..BlocksTo(i + 1)
        BY <1>2, <3>6
      <4>2. i \in 0..TypeCount /\ i + 1 \in 0..TypeCount /\ i + 1 \in 1..TypeCount
        BY <1>1, <4>1
      <4>3. BlocksTo(i) \in Nat /\ BlocksTo(i + 1) \in Nat
        BY <3>3, <4>2
      <4>4. i + 1 < TypeCount => typeOffsets[i + 1] = BlocksTo(i + 1) - 1
        BY <4>2 DEF Ready
      <4>5. CASE i < Len(typeOffsets) /\ r = typeOffsets[i + 1] + 1
        <5>1. o = i + 1
          BY <2>5, <3>6, <4>5 DEF NextOffset, BeginsType
        <5>2. i + 1 < TypeCount
          BY <1>1, <3>2, <4>1, <4>5
        <5>3. r = BlocksTo(i + 1)
          BY <4>3, <4>4, <4>5, <5>2
        <5>. DEFINE j == i + 1
        <5>4. j \in 0..(TypeCount - 1) /\ j + 1 \in 1..TypeCount /\ (j + 1) - 1 = j
              /\ j + 1 \in 0..TypeCount
          BY <1>1, <4>1, <5>2
        <5>. HIDE DEF j
        <5>5. BlocksTo((j + 1) - 1) < BlocksTo(j + 1) /\ BlocksTo(j + 1) \in Nat
          BY <3>3, <3>4, <5>4
        <5>6. BlocksTo(j) < BlocksTo(j + 1)
          BY <5>4, <5>5
        <5>7. r = BlocksTo(j)
          BY <5>3 DEF j
        <5>8. n \in (BlocksTo(j) + 1)..BlocksTo(j + 1)
          BY <1>3, <5>5, <5>6, <5>7
        <5>9. o = j
          BY <5>1 DEF j
        <5>. HIDE DEF o, n
        <5>. QED  BY <5>4, <5>8, <5>9
      <4>6. CASE ~(i < Len(typeOffsets) /\ r = typeOffsets[i + 1] + 1)
        <5>1. o = i
          BY <2>5, <4>6 DEF NextOffset, BeginsType
        <5>2. n <= BlocksTo(i + 1)
          <6>1. CASE i < Len(typeOffsets)
            <7>1. i + 1 < TypeCount
              BY <1>1, <3>2, <4>1, <6>1
            <7>2. r # BlocksTo(i + 1)
              BY <4>3, <4>4, <4>6, <6>1, <7>1
            <7>. QED  BY <4>1, <4>3, <7>2
          <6>2. CASE ~(i < Len(typeOffsets))
            <7>1. i + 1 = TypeCount
              BY <1>1, <3>2, <4>1, <6>2
            <7>2. BlocksTo(i + 1) = Len(data)
              BY <7>1 DEF Ready
            <7>. QED  BY <1>1, <2>2, <7>2
          <6>. QED  BY <6>1, <6>2
        <5>3. n \in (BlocksTo(i) + 1)..BlocksTo(i + 1)
          BY <1>3, <4>1, <4>3, <5>2
        <5>. HIDE DEF o, n, i
        <5>. QED  BY <4>1, <5>1, <5>3
      <4>. QED  BY <4>5, <4>6
    <3>. QED  BY <3>5, <3>6
  <2>. HIDE DEF n, o
  <2>8. /\ BlockEntries(data[n].block) = Cut(Values, u, v) /\ u < v /\ v \in 0..Len(Values)
        /\ u \in 0..(v - 1)
    <3>. DEFINE j == o + 1
    <3>1. j \in 1..TypeCount /\ j - 1 = o
      BY <1>1, <2>7
    <3>. HIDE DEF j
    <3>2. n \in (BlocksTo(j - 1) + 1)..BlocksTo(j)
      BY <2>7, <3>1 DEF j
    <3>. DEFINE es == EntriesIn(data, added, n)
                t == typesPresent[j]
                num == data[n].block.num
    <3>3. /\ data[n].block = BuildBlock(RecordSize[t], es) /\ Fits(RecordSize[t], es)
          /\ es = Cut(Values, EntriesTo(n - 1), v) /\ num \in 1..BlockSize
          /\ v = EntriesTo(n - 1) + num /\ v <= Len(added)
      BY <3>1, <3>2, BlockFacts
    <3>4. EntriesTo(n - 1) = u
      BY <2>2
    <3>. HIDE DEF es, t, num, u, v
    <3>5. BlockEntries(data[n].block) = es
      BY <3>3, BlockEntriesAre
    <3>6. u < v /\ v \in 0..Len(Values) /\ u \in 0..(v - 1)
      BY <1>1, <1>4, <3>3, <3>4, BlockSizes
    <3>. QED  BY <3>3, <3>4, <3>5, <3>6
  <2>9. s.entries # <<>>
    <3>. HIDE DEF u, v
    <3>1. Cut(Values, u, v) # <<>>
      BY <1>1, <2>8, CutHead
    <3>. QED  BY <2>5, <2>8, <3>1
  <2>10. s \in StreamType
    <3>1. Cut(data, n, w) \in Seq(Placed)
      BY <1>1, <1>3, <2>2, CutIs
    <3>2. BlockEntries(data[n].block) \in Seq(Seq(Nat))
      <4>. HIDE DEF u, v
      <4>1. u \in 0..v
        BY <1>4, <2>8
      <4>2. Cut(Values, u, v) \in Seq(Bytes)
        BY <1>1, <2>8, <4>1, CutIs
      <4>. QED  BY <2>8, <4>2 DEF Bytes
    <3>3. /\ stream.bytes \in Nat /\ r \in Nat /\ stream.offset \in Nat /\ stream.done \in BOOLEAN
      BY DEF StreamType
    <3>. QED  BY <2>4, <3>1, <3>2, <3>3 DEF StreamType
  <2>11. AtEntry(s, n, w)
    <3>1. EntriesTo(n - 1) <= c /\ c < v /\ s.entries = Cut(Values, c, v)
      <4>1. EntriesTo(n - 1) = u
        BY <2>2
      <4>. HIDE DEF c, u, v
      <4>. QED  BY <1>4, <2>5, <2>6, <2>8, <4>1
    <3>2. n = (IF s.start THEN s.blockIndex + 1 ELSE s.blockIndex)
      BY <2>5 DEF n
    <3>. QED  BY <1>4, <2>2, <2>5, <2>7, <2>10, <3>1, <3>2 DEF AtEntry, o
  <2>. QED  BY <2>2, <2>9, <2>11 DEF s
<1>. QED  BY <1>5, <1>6, <1>7

\* The entry returned is the next one added, with its type.
LEMMA NextKeepsStream ==
  ASSUME Ready, StreamInv, StreamNext
  PROVE  StreamInv'
<1>1. PICK w \in 0..Len(data) :
        StreamIs(stream, streamed, typesPresent, typeOffsets, data, added, w)
  BY DEF StreamInv, StreamNext
<1>. DEFINE s == ReadBlock
            o == NextOffset(s)
            e == Typed(typesPresent[o + 1], Head(s.entries))
            es == Tail(s.entries)
            i == IF s.start THEN s.blockIndex + 1 ELSE s.blockIndex
<1>2. /\ phase = "streaming" /\ stream.done = FALSE /\ s.entries # <<>>
      /\ streamed' = Append(streamed, e)
      /\ stream' = [s EXCEPT !.entries = es, !.start = FALSE, !.offset = o, !.blockIndex = i]
      /\ UNCHANGED <<phase, typesPresent, typeOffsets, builder, currentType, added>>
  <2>1. stream.done \in BOOLEAN
    BY DEF StreamInv, StreamType
  <2>. HIDE DEF s
  <2>. QED  BY <2>1 DEF StreamNext, NextOffset, s
<1>3. stream \in StreamType
  BY DEF StreamInv
<1>4. PICK n \in 1..w : AtEntry(s, n, w)
  <2>. HIDE DEF s
  <2>. QED  BY <1>1, <1>2, <1>3, ReadIs DEF s
<1>. HIDE DEF s
<1>. DEFINE c == Len(streamed)
            u == EntriesTo(n)
            d == c + 1
<1>5. /\ data \in Seq(Placed) /\ Len(data) \in Nat /\ TypeCount \in Nat
      /\ added \in Seq(EntryType) /\ Len(added) \in Nat
      /\ Values \in Seq(Bytes) /\ Len(Values) = Len(added)
      /\ \A k \in 1..Len(added) : Values[k] = added[k].entry
  BY ReadyIs
<1>6. /\ n \in 1..w /\ n = i /\ s.blocks = Cut(data, n, w)
      /\ c \in Nat /\ c < u /\ EntriesTo(n - 1) <= c
      /\ s.entries = Cut(Values, c, u)
      /\ o \in 0..(TypeCount - 1) /\ n \in (BlocksTo(o) + 1)..BlocksTo(o + 1)
      /\ s \in StreamType /\ s.bytes = stream.bytes /\ s.done = stream.done
  BY <1>4 DEF AtEntry
<1>. HIDE DEF i, o
<1>7. /\ u \in 0..Len(added) /\ added[d].datatype = typesPresent[o + 1]
      /\ d \in 1..Len(added) /\ n \in Nat \ {0} /\ o \in Nat
  <2>. DEFINE j == o + 1
              num == data[n].block.num
              from == EntriesTo(n - 1)
  <2>1. j \in 1..TypeCount /\ j - 1 = o /\ o \in Nat
    BY <1>5, <1>6
  <2>. HIDE DEF j
  <2>2. n \in (BlocksTo(j - 1) + 1)..BlocksTo(j)
    BY <1>6, <2>1 DEF j
  <2>3. /\ num \in 1..BlockSize /\ from \in Nat /\ u = from + num /\ u <= Len(added)
        /\ n \in 1..Len(data)
        /\ \A k \in 1..num : added[from + k].datatype = typesPresent[j]
    BY <2>1, <2>2, BlockFacts
  <2>. DEFINE k == d - from
  <2>. HIDE DEF from, num, u
  <2>4. k \in 1..num /\ from + k = d /\ u \in 0..Len(added) /\ d \in 1..Len(added)
    <3>. HIDE DEF c
    <3>1. from <= c /\ c < u /\ c \in Nat
      BY <1>6 DEF from
    <3>. QED  BY <1>5, <2>3, <3>1, BlockSizes
  <2>5. added[d].datatype = typesPresent[j]
    <3>. HIDE DEF k, d
    <3>. QED  BY <2>3, <2>4
  <2>6. n \in Nat \ {0}
    BY <1>5, <2>3
  <2>. QED  BY <2>1, <2>4, <2>5, <2>6 DEF j
<1>. HIDE DEF u
<1>8. Head(s.entries) = added[d].entry /\ es = Cut(Values, d, u)
  <2>. HIDE DEF c
  <2>1. c \in 0..(u - 1) /\ u \in 0..Len(Values)
    BY <1>5, <1>6, <1>7
  <2>2. Head(Cut(Values, c, u)) = Values[c + 1] /\ Tail(Cut(Values, c, u)) = Cut(Values, c + 1, u)
    BY <1>5, <2>1, CutHead
  <2>. QED  BY <1>5, <1>6, <1>7, <2>2
<1>9. e = added[d]
  <2>. HIDE DEF d
  <2>1. added[d] \in EntryType
    BY <1>5, <1>7
  <2>. QED  BY <1>7, <1>8, <2>1 DEF Typed, EntryType
<1>10. /\ streamed' = Cut(added, 0, d) /\ Len(Cut(added, 0, d)) = d
  <2>1. streamed = Cut(added, 0, c)
    BY <1>1 DEF StreamIs
  <2>. DEFINE z == c
  <2>2. z = c /\ z \in Nat /\ z + 1 <= Len(added) /\ z + 1 = d /\ d \in Nat /\ 0 \in 0..d /\ d \in 0..Len(added)
    BY <1>5, <1>6, <1>7
  <2>. HIDE DEF z
  <2>3. Append(Cut(added, 0, z), added[z + 1]) = Cut(added, 0, z + 1)
    BY <1>5, <2>2, CutAppend
  <2>. HIDE DEF d, c, e
  <2>4. streamed' = Cut(added, 0, d)
    BY <1>2, <1>9, <2>1, <2>2, <2>3
  <2>. DEFINE zero == 0
  <2>. HIDE DEF zero
  <2>5. zero \in 0..d /\ d - zero = d
    BY <2>2 DEF zero
  <2>6. Len(Cut(added, zero, d)) = d - zero
    BY <1>5, <2>2, <2>5, CutIs
  <2>. QED  BY <2>4, <2>5, <2>6 DEF zero
<1>11. es \in Seq(Seq(Nat))
  <2>. HIDE DEF d
  <2>1. d \in 0..u /\ u \in 0..Len(Values)
    <3>. HIDE DEF c
    <3>. QED  BY <1>5, <1>6, <1>7 DEF d
  <2>2. Cut(Values, d, u) \in Seq(Bytes)
    BY <1>5, <2>1, CutIs
  <2>. QED  BY <1>8, <2>2 DEF Bytes
<1>. DEFINE r == stream'
<1>12. r = [bytes |-> s.bytes, blocks |-> s.blocks, entries |-> es, start |-> FALSE,
            blockIndex |-> n, offset |-> o, done |-> s.done]
  <2>1. r = [s EXCEPT !.entries = es, !.start = FALSE, !.offset = o, !.blockIndex = n]
    BY <1>2, <1>6
  <2>. HIDE DEF r, es
  <2>2. s \in StreamType
    BY <1>6
  <2>. QED  BY <2>1, <2>2 DEF StreamType
<1>. HIDE DEF r, es
<1>13. /\ r \in StreamType /\ r.bytes = stream.bytes /\ r.blocks = Cut(data, n, w)
       /\ r.entries = Cut(Values, d, u) /\ r.start = FALSE /\ r.blockIndex = n
       /\ r.offset = o /\ r.done = FALSE
  <2>1. r \in StreamType
    BY <1>6, <1>7, <1>11, <1>12 DEF StreamType
  <2>. QED  BY <1>2, <1>6, <1>8, <1>12, <2>1
<1>14. StreamIs(r, Cut(added, 0, d), typesPresent, typeOffsets, data, added, w)
  <2>1. WholeIn(data, r.bytes) = 1..w
    BY <1>1, <1>13 DEF StreamIs
  <2>2. n \in 0..w
    BY <1>6
  <2>3. d \in 0..UpTo(data, n) /\ UpTo(data, n - 1) <= d /\ u = UpTo(data, n)
    <3>1. u \in Nat /\ c \in Nat /\ c < u
      BY <1>5, <1>6, <1>7
    <3>2. UpTo(data, n - 1) <= c /\ u = UpTo(data, n)
      BY <1>6 DEF EntriesTo, u
    <3>3. UpTo(data, n - 1) \in Nat
      <4>1. n - 1 \in 0..Len(data)
        BY <1>5, <1>6
      <4>. QED  BY <1>5, <4>1, UpToIs
    <3>. HIDE DEF c
    <3>. QED  BY <3>1, <3>2, <3>3 DEF d
  <2>4. Values = ValuesIn(added)
    BY DEF Values, ValuesIn
  <2>. HIDE DEF d
  <2>5. n # 0 /\ o \in 0..(Len(typesPresent) - 1)
        /\ n \in (Bound(typeOffsets, data, o) + 1)..Bound(typeOffsets, data, o + 1)
    BY <1>6, <1>7 DEF TypeCount, BlocksTo
  <2>. QED  BY <1>10, <1>13, <2>1, <2>2, <2>3, <2>4, <2>5 DEF StreamIs
<1>15. /\ phase' = "streaming" /\ data' = data /\ typesPresent' = typesPresent
       /\ typeOffsets' = typeOffsets /\ added' = added
  BY <1>2 DEF data
<1>. HIDE DEF d
<1>16. StreamIs(stream', streamed', typesPresent', typeOffsets', data', added', w)
  BY <1>10, <1>14, <1>15 DEF r
<1>17. stream' \in StreamType
  BY <1>13 DEF r
<1>18. w \in 0..Len(data')
  BY <1>15
<1>. QED  BY <1>15, <1>16, <1>17, <1>18 DEF StreamInv

\* The end is met when the whole blocks have been given.
LEMMA EndKeepsStream ==
  ASSUME Ready, StreamInv, StreamEnd
  PROVE  StreamInv'
<1>1. PICK w \in 0..Len(data) :
        StreamIs(stream, streamed, typesPresent, typeOffsets, data, added, w)
  BY DEF StreamInv, StreamEnd
<1>2. /\ phase = "streaming" /\ ReadBlock.entries = <<>>
      /\ UNCHANGED <<phase, typesPresent, typeOffsets, builder, currentType, added, streamed>>
  BY DEF StreamEnd
<1>3. stream \in StreamType
  BY DEF StreamInv
<1>4. stream.entries = <<>> /\ stream.blockIndex = w
  BY <1>1, <1>2, <1>3, ReadIs
<1>. DEFINE r == stream'
<1>5. r = [stream EXCEPT !.done = TRUE]
  BY DEF StreamEnd
<1>. HIDE DEF r
<1>6. r = [bytes |-> stream.bytes, blocks |-> stream.blocks, entries |-> stream.entries,
           start |-> stream.start, blockIndex |-> stream.blockIndex, offset |-> stream.offset,
           done |-> TRUE]
  BY <1>3, <1>5 DEF StreamType
<1>7. r \in StreamType
  BY <1>3, <1>6 DEF StreamType
<1>8. StreamIs(r, streamed, typesPresent, typeOffsets, data, added, w)
  BY <1>1, <1>4, <1>6 DEF StreamIs
<1>9. /\ phase' = "streaming" /\ data' = data /\ typesPresent' = typesPresent
      /\ typeOffsets' = typeOffsets /\ added' = added /\ streamed' = streamed
  BY <1>2 DEF data
<1>10. StreamIs(stream', streamed', typesPresent', typeOffsets', data', added', w)
  BY <1>8, <1>9 DEF r
<1>11. stream' \in StreamType
  BY <1>7 DEF r
<1>. QED  BY <1>9, <1>10, <1>11 DEF StreamInv

\* The blocks that are whole in what is left of a file are the first ones.
LEMMA WholeFirst ==
  ASSUME Ready, NEW bytes \in Nat
  PROVE  /\ \E w \in 0..Len(data) : WholeIn(data, bytes) = 1..w
         /\ bytes = builder.blockOffset => WholeIn(data, bytes) = 1..Len(data)
<1>1. data \in Seq(Placed) /\ Len(data) \in Nat /\ DOMAIN data = 1..Len(data)
  BY ReadyIs
<1>2. /\ \A n \in 0..Len(data) : EndAt(data, n) \in Nat
      /\ \A m, n \in 0..Len(data) : m < n => EndAt(data, m) < EndAt(data, n)
  BY <1>1, EndIs DEF Ready
<1>3. \A n \in 1..Len(data) : EndAt(data, n) = data[n].at + SizeOf(data[n].block)
  BY DEF EndAt
<1>4. \A n : n \in WholeIn(data, bytes) <=> n \in 1..Len(data) /\ EndAt(data, n) <= bytes
  BY <1>1, <1>3 DEF WholeIn
<1>. DEFINE W == WholeIn(data, bytes) \union {0}
            w == Max(W)
<1>5. W \in SUBSET Nat /\ W # {} /\ \A n \in W : n <= Len(data)
  BY <1>1, <1>4
<1>6. w \in W /\ \A n \in W : n <= w
  <2>. HIDE DEF W
  <2>. QED  BY <1>1, <1>5, MaxIs
<1>. HIDE DEF w
<1>7. w \in 0..Len(data) /\ w \in Nat
  BY <1>1, <1>5, <1>6
<1>8. \A n \in 1..w : n \in WholeIn(data, bytes)
  <2>. SUFFICES ASSUME NEW n \in 1..w PROVE n \in WholeIn(data, bytes)
    OBVIOUS
  <2>1. w # 0 /\ w \in WholeIn(data, bytes) /\ n \in 1..Len(data) /\ n <= w
        /\ n \in 0..Len(data) /\ (n = w \/ n < w)
    BY <1>1, <1>6, <1>7
  <2>2. EndAt(data, w) <= bytes
    BY <1>4, <2>1
  <2>3. n < w => EndAt(data, n) < EndAt(data, w)
    BY <1>2, <1>7, <2>1
  <2>4. EndAt(data, n) \in Nat /\ EndAt(data, w) \in Nat
    BY <1>2, <1>7, <2>1
  <2>5. EndAt(data, n) <= bytes
    BY <2>1, <2>2, <2>3, <2>4
  <2>. QED  BY <1>4, <2>1, <2>5
<1>9. \A n \in WholeIn(data, bytes) : n \in 1..w
  BY <1>1, <1>4, <1>6, <1>7
<1>10. WholeIn(data, bytes) = 1..w
  BY <1>8, <1>9
<1>11. ASSUME bytes = builder.blockOffset PROVE WholeIn(data, bytes) = 1..Len(data)
  <2>1. builder.blockOffset = EndAt(data, Len(data))
    BY DEF Ready
  <2>2. Len(data) # 0 => Len(data) \in WholeIn(data, bytes)
    <3>1. Len(data) # 0 => Len(data) \in 1..Len(data) /\ EndAt(data, Len(data)) <= bytes
      BY <1>1, <1>11, <2>1
    <3>. QED  BY <1>4, <3>1
  <2>3. w = Len(data)
    <3>1. Len(data) # 0 => Len(data) <= w
      <4>1. Len(data) # 0 => Len(data) \in W
        BY <2>2
      <4>. HIDE DEF W
      <4>. QED  BY <1>6, <4>1
    <3>2. w \in 0..Len(data) /\ Len(data) \in Nat
      BY <1>1, <1>7
    <3>. DEFINE m == Len(data)
    <3>3. m = Len(data)
      OBVIOUS
    <3>. HIDE DEF m
    <3>4. w \in 0..m /\ m \in Nat /\ (m # 0 => m <= w)
      BY <3>1, <3>2, <3>3
    <3>. QED  BY ONLY <3>3, <3>4
  <2>. QED  BY <1>10, <2>3
<1>. QED  BY <1>7, <1>10, <1>11

\* A stream opened has given nothing.
LEMMA OpenKeepsStream ==
  ASSUME Ready, StreamInv, NEW bytes \in Cuts, OpenStream(bytes)
  PROVE  StreamInv'
<1>1. /\ phase = "finished" /\ phase' = "streaming"
      /\ UNCHANGED <<typesPresent, typeOffsets, builder, currentType, added, streamed>>
      /\ streamed = <<>>
  BY DEF OpenStream, StreamInv
<1>2. data \in Seq(Placed) /\ Len(data) \in Nat /\ Values \in Seq(Bytes) /\ Len(Values) \in Nat
      /\ Len(Values) = Len(added) /\ added \in Seq(EntryType)
  BY ReadyIs
<1>3. bytes \in Nat
  <2>1. builder.blockOffset \in Nat
    <3>1. \A n \in 0..Len(data) : EndAt(data, n) \in Nat
      BY <1>2, EndIs DEF Ready
    <3>. QED  BY <1>2, <3>1 DEF Ready
  <2>2. \A b \in ToSet(data) : b.at + 1 \in Nat
    <3>1. \A n \in 1..Len(data) : data[n] \in Placed
      BY <1>2
    <3>2. \A b \in ToSet(data) : b \in Placed
      BY <1>2, <3>1 DEF ToSet
    <3>. QED  BY <3>2 DEF Placed
  <2>. QED  BY <2>1, <2>2 DEF Cuts
<1>4. PICK w \in 0..Len(data) : WholeIn(data, bytes) = 1..w
  BY <1>3, WholeFirst
<1>. DEFINE blocks == [n \in WholeBlocks(bytes) |-> data[n]]
            r == stream'
<1>5. r = [NoStream EXCEPT !.bytes = bytes, !.blocks = blocks]
  BY DEF OpenStream
<1>6. blocks = Cut(data, 0, w)
  <2>1. WholeBlocks(bytes) = 1..w
    BY <1>4 DEF WholeBlocks, WholeIn
  <2>2. \A n \in 1..w : 0 + n = n
    OBVIOUS
  <2>3. w - 0 = w
    OBVIOUS
  <2>. HIDE DEF data
  <2>. QED  BY <2>1, <2>2, <2>3 DEF Cut
<1>7. blocks \in Seq(Placed)
  <2>. DEFINE zero == 0
  <2>1. zero \in 0..w
    OBVIOUS
  <2>. HIDE DEF zero, blocks
  <2>2. Cut(data, zero, w) \in Seq(Placed)
    BY <1>2, <2>1, CutIs
  <2>. QED  BY <1>6, <2>2 DEF zero
<1>. HIDE DEF blocks, r
<1>8. r = [bytes |-> bytes, blocks |-> blocks, entries |-> <<>>, start |-> FALSE,
           blockIndex |-> 0, offset |-> 0, done |-> FALSE]
  BY <1>5 DEF NoStream
<1>9. r \in StreamType
  BY <1>3, <1>7, <1>8 DEF StreamType
<1>10. UpTo(data, 0) = 0
  BY <1>2, UpToIs
<1>11. Cut(added, 0, 0) = <<>> /\ Cut(ValuesIn(added), 0, 0) = <<>>
  BY DEF Cut
<1>12. StreamIs(r, <<>>, typesPresent, typeOffsets, data, added, w)
  <2>1. Len(<<>>) = 0 /\ 0 \in 0..w /\ 0 \in 0..0
    OBVIOUS
  <2>. HIDE DEF data
  <2>. QED  BY <1>4, <1>6, <1>8, <1>10, <1>11, <2>1 DEF StreamIs
<1>13. /\ data' = data /\ typesPresent' = typesPresent
       /\ typeOffsets' = typeOffsets /\ added' = added /\ streamed' = <<>>
  BY <1>1 DEF data
<1>14. StreamIs(stream', streamed', typesPresent', typeOffsets', data', added', w)
  BY <1>12, <1>13 DEF r
<1>15. stream' \in StreamType
  BY <1>9 DEF r
<1>. QED  BY <1>1, <1>13, <1>14, <1>15 DEF StreamInv

\* StreamInv is an invariant of the stream.
LEMMA StreamInvAlways == Spec => []StreamInv
<1>1. Init => StreamInv
  BY DEF Init, StreamInv, StreamType, NoStream
<1>2. Inv /\ StreamInv /\ [Next]_vars => StreamInv'
  <2>. SUFFICES ASSUME Inv, StreamInv, [Next]_vars PROVE StreamInv'
    OBVIOUS
  <2>1. ASSUME NEW t \in Types, NEW v \in ValuesOf(t), Add(Typed(t, v)) PROVE StreamInv'
    <3>1. phase = "building" /\ phase' = phase /\ stream' = stream /\ streamed' = streamed
      BY <2>1 DEF Add, AddEntry
    <3>. QED  BY <3>1 DEF StreamInv
  <2>2. CASE Finalize
    <3>1. phase = "building" /\ phase' = "finished" /\ stream' = stream /\ streamed' = streamed
      BY <2>2 DEF Finalize
    <3>. QED  BY <3>1 DEF StreamInv
  <2>3. ASSUME NEW bytes \in Cuts, OpenStream(bytes) PROVE StreamInv'
    <3>1. Ready
      BY <2>3, FinishedIsReady DEF OpenStream
    <3>. QED  BY <2>3, <3>1, OpenKeepsStream
  <2>4. CASE StreamNext
    <3>1. Ready
      BY <2>4, FinishedIsReady DEF StreamNext
    <3>. QED  BY <2>4, <3>1, NextKeepsStream
  <2>5. CASE StreamEnd
    <3>1. Ready
      BY <2>5, FinishedIsReady DEF StreamEnd
    <3>. QED  BY <2>5, <3>1, EndKeepsStream
  <2>6. CASE UNCHANGED vars
    <3>1. /\ phase' = phase /\ stream' = stream /\ streamed' = streamed /\ data' = data
          /\ typesPresent' = typesPresent /\ typeOffsets' = typeOffsets /\ added' = added
      BY <2>6 DEF vars, data
    <3>. QED  BY <3>1 DEF StreamInv
  <2>. QED  BY <2>1, <2>2, <2>3, <2>4, <2>5, <2>6 DEF Next
<1>. QED  BY <1>1, <1>2, InvAlways, PTL DEF Spec

\* What a stream has given, as a count of entries.
LEMMA StreamedAre ==
  ASSUME Ready, StreamInv, phase = "streaming"
  PROVE  /\ Len(streamed) \in 0..Len(added) /\ streamed = Cut(added, 0, Len(streamed))
         /\ stream.done =>
              Len(streamed) = SumOf([n \in WholeBlocks(stream.bytes) |-> data[n].block.num])
         /\ stream.done /\ stream.bytes = builder.blockOffset => Len(streamed) = Len(added)
<1>1. PICK w \in 0..Len(data) :
        StreamIs(stream, streamed, typesPresent, typeOffsets, data, added, w)
  BY DEF StreamInv
<1>2. data \in Seq(Placed) /\ Len(data) \in Nat /\ Len(added) \in Nat
      /\ EntriesTo(Len(data)) = Len(added) /\ Values \in Seq(Bytes) /\ Len(Values) = Len(added)
  BY ReadyIs
<1>. DEFINE r == stream.blockIndex
            c == Len(streamed)
            u == EntriesTo(r)
<1>3. /\ WholeIn(data, stream.bytes) = 1..w /\ r \in 0..w /\ c \in 0..u
      /\ streamed = Cut(added, 0, c) /\ stream.entries = Cut(Values, c, u)
      /\ stream.done => r = w /\ stream.entries = <<>>
  <2>1. Values = ValuesIn(added)
    BY DEF Values, ValuesIn
  <2>. QED  BY <1>1, <2>1 DEF StreamIs, EntriesTo
<1>4. r \in 0..Len(data) /\ Len(data) \in r..Len(data)
  <2>. HIDE DEF r
  <2>. QED  BY <1>2, <1>3
<1>5. u \in 0..Len(added) /\ c \in 0..Len(added) /\ u \in Nat /\ c \in Nat
  <2>1. UpTo(data, r) <= UpTo(data, Len(data)) /\ UpTo(data, r) \in Nat
    <3>. HIDE DEF r
    <3>. QED  BY <1>2, <1>4, UpToGrows, UpToIs
  <2>2. u \in 0..Len(added)
    BY <1>2, <2>1 DEF EntriesTo
  <2>. HIDE DEF u, c
  <2>. QED  BY <1>2, <1>3, <2>2
<1>6. ASSUME stream.done = TRUE PROVE c = EntriesTo(w)
  <2>1. u = EntriesTo(w) /\ stream.entries = <<>>
    BY <1>3, <1>6
  <2>. HIDE DEF u, c
  <2>2. Len(Cut(Values, c, u)) = u - c
    BY <1>2, <1>3, <1>5, CutIs
  <2>3. Len(<<>>) = 0
    OBVIOUS
  <2>4. u - c = 0
    BY <1>3, <2>1, <2>2, <2>3
  <2>. QED  BY <1>5, <2>1, <2>4
<1>7. ASSUME stream.done = TRUE
      PROVE  c = SumOf([n \in WholeBlocks(stream.bytes) |-> data[n].block.num])
  <2>1. WholeBlocks(stream.bytes) = 1..w
    BY <1>3 DEF WholeBlocks, WholeIn
  <2>. HIDE DEF data, c
  <2>. QED  BY <1>6, <1>7, <2>1 DEF EntriesTo, UpTo
<1>8. ASSUME stream.done = TRUE, stream.bytes = builder.blockOffset
      PROVE  c = Len(added)
  <2>1. stream.bytes \in Nat
    BY DEF StreamInv, StreamType
  <2>2. 1..w = 1..Len(data)
    BY <1>3, <1>8, <2>1, WholeFirst
  <2>3. w = Len(data)
    BY <1>2, <2>2
  <2>. HIDE DEF c
  <2>. QED  BY <1>2, <1>6, <1>8, <2>3
<1>9. stream.done \in BOOLEAN
  BY DEF StreamInv, StreamType
<1>. HIDE DEF c
<1>. QED  BY <1>3, <1>5, <1>7, <1>8, <1>9 DEF c

\* A stream of the blocks file (TfcTypedDictIterator) gives the entries added, in
\* order and with their types, in whole blocks; all of them if the file is whole.
THEOREM StreamAlways == Spec => []StreamGivesWholeBlocks
<1>1. Inv /\ StreamInv => StreamGivesWholeBlocks
  <2>. SUFFICES ASSUME Inv, StreamInv, phase = "streaming" PROVE StreamGivesWholeBlocks
    BY DEF StreamGivesWholeBlocks
  <2>1. Ready
    BY FinishedIsReady
  <2>2. Len(added) \in Nat /\ added \in Seq(EntryType)
    BY <2>1, ReadyIs
  <2>. DEFINE c == Len(streamed)
              sum == SumOf([n \in WholeBlocks(stream.bytes) |-> data[n].block.num])
  <2>3. /\ c \in 0..Len(added) /\ streamed = Cut(added, 0, c)
        /\ stream.done => c = sum
        /\ stream.done /\ stream.bytes = builder.blockOffset => c = Len(added)
    BY <2>1, StreamedAre
  <2>4. stream.done /\ stream.bytes = builder.blockOffset => streamed = added
    <3>1. Cut(added, 0, Len(added)) = added
      BY <2>2, CutAll
    <3>. HIDE DEF c
    <3>. QED  BY <2>3, <3>1
  <2>5. IsPrefix(streamed, added)
    <3>. DEFINE zero == 0
    <3>1. zero \in 0..c /\ \A m \in 1..(c - zero) : zero + m = m /\ m \in 1..c
      BY <2>3
    <3>2. c - zero = c
      BY <2>3
    <3>. HIDE DEF zero
    <3>3. Cut(added, zero, c) \in Seq(EntryType) /\ Len(Cut(added, zero, c)) = c - zero
          /\ \A m \in 1..(c - zero) : Cut(added, zero, c)[m] = added[zero + m]
      BY <2>2, <2>3, <3>1, CutIs
    <3>4. streamed \in Seq(EntryType) /\ \A m \in 1..c : streamed[m] = added[m]
      <4>1. streamed = Cut(added, zero, c)
        BY <2>3 DEF zero
      <4>. QED  BY <3>1, <3>2, <3>3, <4>1
    <3>5. c <= Len(added) /\ c \in Nat
      BY <2>2, <2>3
    <3>6. SubSeq(streamed, 1, c) = SubSeq(added, 1, c)
      <4>1. /\ SubSeq(streamed, 1, c) = [m \in 1..c |-> streamed[m]]
            /\ SubSeq(added, 1, c) = [m \in 1..c |-> added[m]]
        BY <2>2, <3>4, <3>5
      <4>. QED  BY <3>4, <4>1
    <3>. QED  BY <3>5, <3>6 DEF IsPrefix
  <2>. QED  BY <2>3, <2>4, <2>5 DEF StreamGivesWholeBlocks
<1>. QED  BY <1>1, InvAlways, StreamInvAlways, PTL

\* Type correctness: types are met once and in order, each has a last block, and
\* the entries counted are those added (TypedDictBufBuilder).
THEOREM TypeCorrect == Spec => []TypeOK
<1>1. Inv /\ StreamInv => TypeOK
  <2>. SUFFICES ASSUME Inv, StreamInv PROVE TypeOK
    OBVIOUS
  <2>1. \E open \in BOOLEAN :
          Building(typesPresent, typeOffsets, builder, currentType, added, open)
    BY DEF Inv
  <2>2. /\ TypesMet(typesPresent, typeOffsets, currentType) /\ Written(builder)
        /\ Rest(builder, currentType, added)
    BY <2>1 DEF Building
  <2>3. /\ typesPresent \in Seq(Types)
        /\ \A i, j \in DOMAIN typesPresent : i < j => typesPresent[i] < typesPresent[j]
        /\ Len(typeOffsets) = (IF typesPresent = <<>> THEN 0 ELSE Len(typesPresent) - 1)
        /\ currentType = IF typesPresent = <<>> THEN 0 ELSE Last(typesPresent)
    BY <2>2 DEF TypesMet, Last
  <2>4. builder.idOffset = Len(added) /\ added \in Seq(EntryType)
    BY <2>2 DEF Rest
  <2>5. \A c \in ToSet(builder.data) : c.block.num \in 1..BlockSize
    <3>1. builder.data \in Seq(Placed)
      BY <2>2 DEF Written, BuilderType
    <3>2. \A n \in 1..Len(builder.data) : builder.data[n] \in Placed
      BY <3>1
    <3>3. \A c \in ToSet(builder.data) : c \in Placed
      BY <3>1, <3>2 DEF ToSet
    <3>. QED  BY <3>3 DEF Placed, BlockType
  <2>6. Len(streamed) <= Len(added)
    <3>1. CASE phase = "streaming"
      <4>1. Ready
        BY <3>1, FinishedIsReady
      <4>2. Len(streamed) \in 0..Len(added)
        BY <3>1, <4>1, StreamedAre
      <4>. QED  BY <4>2
    <3>2. CASE phase # "streaming"
      <4>1. Len(streamed) = 0 /\ Len(added) \in Nat
        BY <2>4, <3>2 DEF StreamInv
      <4>. QED  BY <4>1
    <3>. QED  BY <3>1, <3>2
  <2>. QED  BY <2>3, <2>4, <2>5, <2>6 DEF TypeOK, Inv
<1>. QED  BY <1>1, InvAlways, StreamInvAlways, PTL

-----------------------------------------------------------------------------
(* The order of byte strings.                                              *)

Below(a, b) == Ordering(a, b) = "Less"
AtMost(a, b) == a = b \/ Below(a, b)

\* Two byte strings of one length, with the same bytes.
LEMMA BytesEqual ==
  ASSUME NEW a \in Bytes, NEW b \in Bytes, NEW k, SharesTo(a, b, k),
         ~(k < Len(a)), ~(k < Len(b))
  PROVE  a = b
<1>1. Len(a) \in Nat /\ Len(b) \in Nat /\ a \in Seq(Nat) /\ b \in Seq(Nat)
  BY DEF Bytes
<1>2. Len(a) = k /\ Len(b) = k /\ \A i \in 1..k : a[i] = b[i]
  BY <1>1 DEF SharesTo
<1>. QED  BY <1>1, <1>2, SeqEqual

\* The order in terms of the shared prefix, which is one as long as k.
LEMMA OrderingIs ==
  ASSUME NEW a \in Bytes, NEW b \in Bytes, NEW k, SharesTo(a, b, k)
  PROVE  /\ CommonPrefix(a, b) = k
         /\ Ordering(a, b) \in {"Equal", "Less", "Greater"}
         /\ Ordering(a, b) = "Equal" <=> a = b
         /\ Below(a, b) <=> k < Len(b) /\ (Len(a) = k \/ a[k + 1] < b[k + 1])
<1>1. CommonPrefix(a, b) = k
  BY CommonPrefixShares, SharesOne
<1>2. /\ Len(a) \in Nat /\ Len(b) \in Nat /\ k \in Nat /\ k <= Len(a) /\ k <= Len(b)
      /\ k < Len(a) => a[k + 1] \in Nat
      /\ k < Len(b) => b[k + 1] \in Nat
  BY DEF SharesTo, Bytes
<1>3. Ordering(a, b) = IF a = b THEN "Equal"
                       ELSE IF Len(a) = k \/ (Len(b) > k /\ a[k + 1] < b[k + 1]) THEN "Less"
                       ELSE "Greater"
  BY <1>1 DEF Ordering
<1>4. a = b => ~(k < Len(b)) \/ (Len(a) # k /\ ~(a[k + 1] < b[k + 1]))
  BY <1>2
<1>5. a # b /\ Len(a) = k => k < Len(b)
  BY <1>2, BytesEqual
<1>6. Ordering(a, b) = "Less" <=> a # b /\ (Len(a) = k \/ (Len(b) > k /\ a[k + 1] < b[k + 1]))
  BY <1>3
<1>7. Below(a, b) <=> k < Len(b) /\ (Len(a) = k \/ a[k + 1] < b[k + 1])
  BY <1>2, <1>4, <1>5, <1>6 DEF Below
<1>. QED  BY <1>1, <1>3, <1>7

\* Of two byte strings, they are equal, or one of them is below the other.
LEMMA OrderTotal ==
  ASSUME NEW a \in Bytes, NEW b \in Bytes
  PROVE  /\ a = b \/ Below(a, b) \/ Below(b, a)
         /\ Below(a, b) => a # b /\ ~Below(b, a)
         /\ Ordering(a, b) \in {"Equal", "Less", "Greater"}
         /\ Ordering(a, b) = "Equal" <=> a = b
         /\ Ordering(a, b) = "Greater" <=> Below(b, a)
<1>. DEFINE k == CommonPrefix(a, b)
<1>1. SharesTo(a, b, k) /\ SharesTo(b, a, k)
  BY CommonPrefixShares, SharesSymmetric
<1>. HIDE DEF k
<1>2. /\ Ordering(a, b) \in {"Equal", "Less", "Greater"}
      /\ Ordering(a, b) = "Equal" <=> a = b
      /\ Below(a, b) <=> k < Len(b) /\ (Len(a) = k \/ a[k + 1] < b[k + 1])
  BY <1>1, OrderingIs
<1>3. Below(b, a) <=> k < Len(a) /\ (Len(b) = k \/ b[k + 1] < a[k + 1])
  BY <1>1, OrderingIs
<1>4. /\ Len(a) \in Nat /\ Len(b) \in Nat /\ k \in Nat /\ k <= Len(a) /\ k <= Len(b)
      /\ k < Len(a) => a[k + 1] \in Nat
      /\ k < Len(b) => b[k + 1] \in Nat
      /\ k < Len(a) /\ k < Len(b) => a[k + 1] # b[k + 1]
  BY <1>1 DEF SharesTo, Bytes
<1>5. a # b => k < Len(a) \/ k < Len(b)
  BY <1>1, BytesEqual
<1>6. a = b \/ Below(a, b) \/ Below(b, a)
  BY <1>2, <1>3, <1>4, <1>5
<1>7. Below(a, b) => ~Below(b, a)
  BY <1>2, <1>3, <1>4
<1>8. Below(a, b) => a # b
  BY <1>2 DEF Below
<1>9. Ordering(a, b) = "Greater" <=> a # b /\ ~Below(a, b)
  BY <1>2 DEF Below
<1>10. Below(b, a) => a # b
  BY <1>3, <1>4
<1>. QED  BY <1>2, <1>6, <1>7, <1>8, <1>9, <1>10

\* Below what is below another.
LEMMA BelowTrans ==
  ASSUME NEW a \in Bytes, NEW b \in Bytes, NEW c \in Bytes, Below(a, b), Below(b, c)
  PROVE  Below(a, c)
<1>. DEFINE k == CommonPrefix(a, b)
            m == CommonPrefix(b, c)
<1>1. SharesTo(a, b, k) /\ SharesTo(b, c, m)
  BY CommonPrefixShares
<1>. HIDE DEF k, m
<1>2. /\ k \in Nat /\ k <= Len(a) /\ k <= Len(b) /\ m \in Nat /\ m <= Len(b) /\ m <= Len(c)
      /\ \A i \in 1..k : a[i] = b[i]
      /\ \A i \in 1..m : b[i] = c[i]
  BY <1>1 DEF SharesTo
<1>3. Len(a) \in Nat /\ Len(b) \in Nat /\ Len(c) \in Nat
  BY DEF Bytes
<1>4. k < Len(b) /\ (Len(a) = k \/ a[k + 1] < b[k + 1])
  BY <1>1, OrderingIs
<1>5. m < Len(c) /\ (Len(b) = m \/ b[m + 1] < c[m + 1])
  BY <1>1, OrderingIs
<1>6. /\ \A i \in 1..Len(a) : a[i] \in Nat
      /\ \A i \in 1..Len(b) : b[i] \in Nat
      /\ \A i \in 1..Len(c) : c[i] \in Nat
  BY DEF Bytes
<1>7. CASE k < m
  <2>1. k + 1 \in 1..m /\ \A i \in 1..k : i \in 1..m
    BY <1>2, <1>7
  <2>2. k < Len(c) /\ (Len(a) = k \/ a[k + 1] < c[k + 1])
    BY <1>2, <1>3, <1>4, <1>7, <2>1
  <2>3. k < Len(a) => a[k + 1] \in Nat /\ c[k + 1] \in Nat
    <3>1. k < Len(a) => k + 1 \in 1..Len(a)
      BY <1>2, <1>3
    <3>2. k + 1 \in 1..Len(c)
      BY <1>2, <1>3, <2>2
    <3>. QED  BY <1>6, <3>1, <3>2
  <2>4. k < Len(a) /\ k < Len(c) => a[k + 1] # c[k + 1]
    BY <1>2, <1>3, <2>2, <2>3
  <2>5. SharesTo(a, c, k)
    BY <1>2, <1>3, <2>1, <2>2, <2>4 DEF SharesTo
  <2>. QED  BY <2>2, <2>5, OrderingIs
<1>8. CASE m < k
  <2>1. m + 1 \in 1..k /\ \A i \in 1..m : i \in 1..k
    BY <1>2, <1>8
  <2>2. Len(b) # m /\ b[m + 1] < c[m + 1] /\ a[m + 1] = b[m + 1]
    BY <1>2, <1>3, <1>5, <1>8, <2>1
  <2>3. a[m + 1] \in Nat /\ c[m + 1] \in Nat
    <3>1. m + 1 \in 1..Len(a) /\ m + 1 \in 1..Len(c)
      BY <1>2, <1>3, <1>5, <1>8
    <3>. QED  BY <1>6, <3>1
  <2>4. a[m + 1] < c[m + 1] /\ a[m + 1] # c[m + 1]
    BY <2>2, <2>3
  <2>5. SharesTo(a, c, m)
    BY <1>2, <1>3, <1>5, <1>8, <2>1, <2>4 DEF SharesTo
  <2>. QED  BY <1>5, <2>4, <2>5, OrderingIs
<1>9. CASE k = m
  <2>1. b[k + 1] \in Nat /\ c[k + 1] \in Nat /\ (k < Len(a) => a[k + 1] \in Nat)
    <3>1. k + 1 \in 1..Len(b) /\ k + 1 \in 1..Len(c) /\ (k < Len(a) => k + 1 \in 1..Len(a))
      BY <1>2, <1>3, <1>4, <1>5, <1>9
    <3>. QED  BY <1>6, <3>1
  <2>2. b[k + 1] < c[k + 1]
    BY <1>2, <1>3, <1>4, <1>5, <1>9
  <2>3. Len(a) = k \/ a[k + 1] < c[k + 1]
    BY <1>2, <1>3, <1>4, <2>1, <2>2
  <2>4. k < Len(a) => a[k + 1] # c[k + 1]
    BY <1>2, <1>3, <2>1, <2>3
  <2>5. SharesTo(a, c, k)
    BY <1>2, <1>3, <1>5, <1>9, <2>4 DEF SharesTo
  <2>. QED  BY <1>5, <1>9, <2>3, <2>5, OrderingIs
<1>. QED  BY <1>2, <1>7, <1>8, <1>9

\* Below or equal, the same.
LEMMA AtMostTrans ==
  ASSUME NEW a \in Bytes, NEW b \in Bytes, NEW c \in Bytes
  PROVE  /\ AtMost(a, b) /\ AtMost(b, c) => AtMost(a, c)
         /\ Below(a, b) /\ AtMost(b, c) => Below(a, c)
         /\ AtMost(a, b) /\ Below(b, c) => Below(a, c)
BY BelowTrans DEF AtMost

\* Byte strings that begin alike are in the order of what follows.
LEMMA RestOrder ==
  ASSUME NEW a \in Bytes, NEW b \in Bytes, NEW p \in Nat, p <= Len(a), p <= Len(b),
         \A i \in 1..p : a[i] = b[i]
  PROVE  /\ Ordering(After(a, p), After(b, p)) = Ordering(a, b)
         /\ CommonPrefix(a, b) = p + CommonPrefix(After(a, p), After(b, p))
         /\ CommonPrefix(After(a, p), After(b, p)) \in 0..(Len(a) - p)
<1>. DEFINE x == After(a, p)
            y == After(b, p)
            k == CommonPrefix(x, y)
<1>1. Len(a) \in Nat /\ Len(b) \in Nat /\ p \in 0..Len(a) /\ p \in 0..Len(b)
  BY DEF Bytes
<1>2. /\ x \in Bytes /\ Len(x) = Len(a) - p /\ \A i \in 1..(Len(a) - p) : x[i] = a[p + i]
  BY <1>1, AfterIs DEF Bytes
<1>3. /\ y \in Bytes /\ Len(y) = Len(b) - p /\ \A i \in 1..(Len(b) - p) : y[i] = b[p + i]
  BY <1>1, AfterIs DEF Bytes
<1>. HIDE DEF x, y
<1>4. SharesTo(x, y, k)
  BY <1>2, <1>3, CommonPrefixShares
<1>. HIDE DEF k
<1>5. /\ k \in Nat /\ k <= Len(a) - p /\ k <= Len(b) - p /\ \A i \in 1..k : x[i] = y[i]
      /\ k < Len(a) - p /\ k < Len(b) - p => x[k + 1] # y[k + 1]
  BY <1>2, <1>3, <1>4 DEF SharesTo
<1>6. /\ k < Len(a) - p => x[k + 1] = a[(p + k) + 1]
      /\ k < Len(b) - p => y[k + 1] = b[(p + k) + 1]
  <2>1. /\ k < Len(a) - p => k + 1 \in 1..(Len(a) - p)
        /\ k < Len(b) - p => k + 1 \in 1..(Len(b) - p)
        /\ p + (k + 1) = (p + k) + 1
    BY <1>1, <1>5
  <2>. DEFINE m == k + 1
              n == (p + k) + 1
  <2>2. /\ k < Len(a) - p => m \in 1..(Len(a) - p)
        /\ k < Len(b) - p => m \in 1..(Len(b) - p)
        /\ p + m = n
    BY <2>1
  <2>. HIDE DEF m, n
  <2>3. /\ k < Len(a) - p => x[m] = a[n]
        /\ k < Len(b) - p => y[m] = b[n]
    BY <1>2, <1>3, <2>2
  <2>. QED  BY <2>3 DEF m, n
<1>7. SharesTo(a, b, p + k)
  <2>1. ASSUME NEW i \in 1..(p + k) PROVE a[i] = b[i]
    <3>1. CASE i <= p
      BY <3>1
    <3>2. CASE ~(i <= p)
      <4>. DEFINE j == i - p
      <4>1. j \in 1..k /\ p + j = i
        BY <1>5, <3>2
      <4>. HIDE DEF j
      <4>2. j \in 1..(Len(a) - p) /\ j \in 1..(Len(b) - p)
        BY <1>1, <1>5, <4>1
      <4>. QED  BY <1>2, <1>3, <1>5, <4>1, <4>2
    <3>. QED  BY <3>1, <3>2
  <2>2. p + k \in Nat /\ p + k <= Len(a) /\ p + k <= Len(b)
    BY <1>1, <1>5
  <2>3. p + k < Len(a) /\ p + k < Len(b) => a[(p + k) + 1] # b[(p + k) + 1]
    BY <1>1, <1>5, <1>6
  <2>. QED  BY <2>1, <2>2, <2>3 DEF SharesTo
<1>8. /\ CommonPrefix(a, b) = p + k
      /\ Ordering(a, b) \in {"Equal", "Less", "Greater"}
      /\ Ordering(a, b) = "Equal" <=> a = b
      /\ Below(a, b) <=> p + k < Len(b) /\ (Len(a) = p + k \/ a[(p + k) + 1] < b[(p + k) + 1])
  BY <1>7, OrderingIs
<1>9. /\ Ordering(x, y) \in {"Equal", "Less", "Greater"}
      /\ Ordering(x, y) = "Equal" <=> x = y
      /\ Below(x, y) <=> k < Len(y) /\ (Len(x) = k \/ x[k + 1] < y[k + 1])
  BY <1>2, <1>3, <1>4, OrderingIs
<1>10. Below(x, y) <=> Below(a, b)
  <2>1. k < Len(y) <=> p + k < Len(b)
    BY <1>1, <1>3, <1>5
  <2>2. Len(x) = k <=> Len(a) = p + k
    BY <1>1, <1>2, <1>5
  <2>3. Len(x) # k /\ k < Len(y) => x[k + 1] = a[(p + k) + 1] /\ y[k + 1] = b[(p + k) + 1]
    <3>1. Len(x) # k /\ k < Len(y) => k < Len(a) - p /\ k < Len(b) - p
      <4>1. Len(x) = Len(a) - p /\ Len(y) = Len(b) - p /\ k <= Len(a) - p /\ k \in Nat
        BY <1>2, <1>3, <1>5
      <4>. QED  BY <1>1, <4>1
    <3>. QED  BY <1>6, <3>1
  <2>. QED  BY <1>8, <1>9, <2>1, <2>2, <2>3
<1>11. x = y <=> a = b
  <2>1. a = b => x = y
    BY DEF x, y
  <2>2. ASSUME x = y PROVE a = b
    <3>1. ~(k < Len(a) - p) /\ ~(k < Len(b) - p)
      <4>1. Len(a) - p = Len(b) - p
        BY <1>2, <1>3, <2>2
      <4>2. k < Len(a) - p => x[k + 1] # y[k + 1]
        BY <1>5, <4>1
      <4>. QED  BY <2>2, <4>1, <4>2
    <3>2. ~(p + k < Len(a)) /\ ~(p + k < Len(b))
      BY <1>1, <1>5, <3>1
    <3>. QED  BY <1>7, <3>2, BytesEqual
  <2>. QED  BY <2>1, <2>2
<1>12. Ordering(x, y) = Ordering(a, b)
  <2>1. (Ordering(x, y) = "Equal") <=> (Ordering(a, b) = "Equal")
    BY <1>8, <1>9, <1>11
  <2>2. (Ordering(x, y) = "Less") <=> (Ordering(a, b) = "Less")
    BY <1>10 DEF Below
  <2>. QED  BY <1>8, <1>9, <2>1, <2>2
<1>13. k \in 0..(Len(a) - p)
  BY <1>1, <1>5
<1>. QED  BY <1>8, <1>12, <1>13 DEF x, y, k

-----------------------------------------------------------------------------
(* Walking through a block.                                                *)

\* What the prefixes say of the next entry y, once s is known to be above x.
LEMMA NextEntry ==
  ASSUME NEW x \in Bytes, NEW y \in Bytes, NEW s \in Bytes, Below(x, s), AtMost(x, y),
         NEW p, SharesTo(s, x, p), NEW h, SharesTo(x, y, h)
  PROVE  /\ p \in Nat /\ h \in Nat /\ p <= Len(s)
         /\ h < p => Below(s, y)
         /\ h > p => Below(y, s) /\ SharesTo(s, y, p)
         /\ h = p => p <= Len(y) /\ \A i \in 1..p : s[i] = y[i]
<1>1. /\ p \in Nat /\ p <= Len(s) /\ p <= Len(x) /\ \A i \in 1..p : s[i] = x[i]
      /\ h \in Nat /\ h <= Len(x) /\ h <= Len(y) /\ \A i \in 1..h : x[i] = y[i]
  BY DEF SharesTo
<1>2. Len(x) \in Nat /\ Len(y) \in Nat /\ Len(s) \in Nat
  BY DEF Bytes
<1>3. p < Len(s) /\ (Len(x) = p \/ x[p + 1] < s[p + 1])
  <2>1. SharesTo(x, s, p)
    BY SharesSymmetric
  <2>. QED  BY <2>1, OrderingIs
<1>4. /\ \A i \in 1..Len(x) : x[i] \in Nat
      /\ \A i \in 1..Len(y) : y[i] \in Nat
      /\ \A i \in 1..Len(s) : s[i] \in Nat
  BY DEF Bytes
<1>5. ASSUME h < p PROVE Below(s, y)
  <2>1. h < Len(x)
    BY <1>1, <1>2, <1>5
  <2>2. x # y
    <3>1. h < Len(x) /\ h < Len(y) => x[h + 1] # y[h + 1]
      BY DEF SharesTo
    <3>. QED  BY <2>1, <3>1
  <2>3. h < Len(y) /\ (Len(x) = h \/ x[h + 1] < y[h + 1])
    BY <2>2, OrderingIs DEF AtMost
  <2>4. x[h + 1] < y[h + 1]
    BY <1>1, <1>2, <2>1, <2>3
  <2>5. h + 1 \in 1..p /\ \A i \in 1..h : i \in 1..p
    BY <1>1, <1>5
  <2>6. s[h + 1] = x[h + 1] /\ \A i \in 1..h : s[i] = y[i]
    BY <1>1, <2>5
  <2>7. x[h + 1] \in Nat /\ y[h + 1] \in Nat
    <3>1. h + 1 \in 1..Len(x) /\ h + 1 \in 1..Len(y)
      BY <1>1, <1>2, <2>1, <2>3
    <3>. QED  BY <1>4, <3>1
  <2>8. s[h + 1] < y[h + 1] /\ s[h + 1] # y[h + 1] /\ h <= Len(s)
    BY <1>1, <1>2, <1>5, <2>4, <2>6, <2>7
  <2>9. SharesTo(s, y, h)
    BY <1>1, <2>6, <2>8 DEF SharesTo
  <2>. QED  BY <2>3, <2>8, <2>9, OrderingIs
<1>6. ASSUME h > p PROVE Below(y, s) /\ SharesTo(s, y, p)
  <2>1. p + 1 \in 1..h /\ \A i \in 1..p : i \in 1..h
    BY <1>1, <1>6
  <2>2. Len(x) # p /\ x[p + 1] = y[p + 1] /\ \A i \in 1..p : s[i] = y[i]
    BY <1>1, <1>2, <1>6, <2>1
  <2>3. y[p + 1] < s[p + 1]
    BY <1>3, <2>2
  <2>4. y[p + 1] \in Nat /\ s[p + 1] \in Nat
    <3>1. p + 1 \in 1..Len(y) /\ p + 1 \in 1..Len(s)
      BY <1>1, <1>2, <1>3, <1>6
    <3>. QED  BY <1>4, <3>1
  <2>5. s[p + 1] # y[p + 1] /\ p <= Len(y)
    BY <1>1, <1>2, <1>6, <2>3, <2>4
  <2>6. SharesTo(s, y, p)
    BY <1>1, <2>2, <2>5 DEF SharesTo
  <2>7. SharesTo(y, s, p)
    BY <2>6, SharesSymmetric
  <2>. QED  BY <1>3, <2>3, <2>6, <2>7, OrderingIs
<1>7. ASSUME h = p PROVE p <= Len(y) /\ \A i \in 1..p : s[i] = y[i]
  BY <1>1, <1>7
<1>. QED  BY <1>1, <1>5, <1>6, <1>7

\* The walk of IdInBlock.
Walks(f, b, s) ==
  f = [at \in (1..BlockSize) \X (0..Len(s)) |->
        LET i      == at[1]
            prefix == at[2]
            rest   == After(s, prefix)
            suffix == SuffixOf(b, i)
        IN  IF i = BlockSize THEN Closest(b.num - 1)
            ELSE IF Shareds(b)[i] < prefix THEN Closest(i - 1)
            ELSE IF Shareds(b)[i] > prefix THEN f[<<i + 1, prefix>>]
            ELSE IF Ordering(rest, suffix) = "Equal" THEN Found(i)
            ELSE IF Ordering(rest, suffix) = "Less" THEN Closest(i - 1)
            ELSE f[<<i + 1, PrefixAfter(prefix, CommonPrefix(rest, suffix))>>]]

\* There is such a walk in every block that was built.
LEMMA WalkExists ==
  ASSUME NEW recordSize, NEW es, Fits(recordSize, es), NEW s \in Bytes
  PROVE  \E f : Walks(f, BuildBlock(recordSize, es), s)
<1>. DEFINE b == BuildBlock(recordSize, es)
            n == Len(s)
            G == (1..BlockSize) \X (0..n)
            Rest1(r) == After(s, r[2])
            Suffix1(r) == SuffixOf(b, r[1])
            ends == {r \in G : r[1] = BlockSize}
            low == {r \in G : Shareds(b)[r[1]] < r[2]}
            high == {r \in G : Shareds(b)[r[1]] > r[2]}
            same == {r \in G : Ordering(Rest1(r), Suffix1(r)) = "Equal"}
            less == {r \in G : Ordering(Rest1(r), Suffix1(r)) = "Less"}
            stop == ends \union low \union ((same \union less) \ high)
            more == [r \in G |-> CommonPrefix(Rest1(r), Suffix1(r))]
            next == [r \in G |-> IF r \in stop THEN r
                                 ELSE IF r \in high THEN <<r[1] + 1, r[2]>>
                                 ELSE <<r[1] + 1, PrefixAfter(r[2], more[r])>>]
            val == [r \in G |-> IF r \in ends THEN Closest(b.num - 1)
                                ELSE IF r \in low THEN Closest(r[1] - 1)
                                ELSE IF r \in same THEN Found(r[1]) ELSE Closest(r[1] - 1)]
            size == [r \in G |-> BlockSize - r[1]]
<1>1. BlockSize \in Nat \ {0, 1} /\ n \in Nat
  BY BlockSizes DEF Bytes
<1>2. size \in [G -> Nat]
  BY <1>1
<1>3. ASSUME NEW r \in G, r \notin stop PROVE next[r] \in G /\ size[next[r]] < size[r]
  <2>1. r[1] \in 1..BlockSize /\ r[2] \in 0..n /\ r \notin ends /\ r[1] # BlockSize
    BY <1>3
  <2>2. r[1] + 1 \in 1..BlockSize
    BY <1>1, <2>1
  <2>3. more[r] \in 0..(n - r[2])
    <3>. DEFINE x == Rest1(r)
                y == Suffix1(r)
    <3>1. x \in Bytes /\ Len(x) = n - r[2]
      BY <2>1, AfterIs DEF Bytes
    <3>2. y \in Bytes
      <4>. DEFINE i == r[1]
      <4>1. i \in 1..(BlockSize - 1)
        BY <1>1, <2>1
      <4>. HIDE DEF i
      <4>2. SuffixOf(b, i) = IF i < Len(es) THEN After(es[i + 1], Shared(es, i)) ELSE <<>>
        BY <4>1, SuffixIs
      <4>3. es \in Seq(Bytes) /\ Len(es) \in Nat
        BY DEF Fits
      <4>4. CASE i < Len(es)
        <5>1. i \in 1..(Len(es) - 1)
          BY <4>1, <4>3, <4>4, <1>1
        <5>2. es[i + 1] \in Bytes /\ Shared(es, i) \in 0..Len(es[i + 1])
          BY <4>3, <5>1, SharedIs
        <5>3. After(es[i + 1], Shared(es, i)) \in Seq(Nat)
          BY <5>2, AfterIs DEF Bytes
        <5>. QED  BY <4>2, <4>4, <5>3 DEF Bytes, i
      <4>5. CASE ~(i < Len(es))
        <5>1. <<>> \in Bytes
          BY DEF Bytes
        <5>. QED  BY <4>2, <4>5, <5>1 DEF i
      <4>. QED  BY <4>4, <4>5
    <3>. HIDE DEF x, y
    <3>3. SharesTo(x, y, CommonPrefix(x, y))
      BY <3>1, <3>2, CommonPrefixShares
    <3>4. CommonPrefix(x, y) \in Nat /\ CommonPrefix(x, y) <= Len(x)
      BY <3>3 DEF SharesTo
    <3>5. more[r] = CommonPrefix(x, y)
      BY DEF x, y
    <3>. HIDE DEF more
    <3>. QED  BY <1>1, <2>1, <3>1, <3>4, <3>5
  <2>4. r[2] + more[r] \in 0..n
    <3>. HIDE DEF more
    <3>. QED  BY <1>1, <2>1, <2>3
  <2>5. next[r] = <<r[1] + 1, r[2]>> \/ next[r] = <<r[1] + 1, r[2] + more[r]>>
    <3>. HIDE DEF stop, high, more
    <3>. QED  BY <1>3 DEF PrefixAfter
  <2>. HIDE DEF next, more
  <2>6. next[r] \in G /\ next[r][1] = r[1] + 1
    BY <2>1, <2>2, <2>4, <2>5
  <2>7. size[next[r]] = BlockSize - (r[1] + 1) /\ size[r] = BlockSize - r[1]
    BY <2>6
  <2>. HIDE DEF size
  <2>. QED  BY <1>1, <2>1, <2>6, <2>7
<1>4. next \in [G -> G]
  <2>1. \A r \in G : r \in stop => next[r] \in G
    OBVIOUS
  <2>. HIDE DEF stop
  <2>2. \A r \in G : next[r] \in G
    BY <1>3, <2>1
  <2>3. next = [r \in G |-> next[r]]
    OBVIOUS
  <2>. HIDE DEF next
  <2>. QED  BY <2>2, <2>3
<1>. DEFINE R == {val[r] : r \in G}
<1>5. val \in [G -> R]
  OBVIOUS
<1>6. PICK f : IsDescent(f, G, stop, val, next)
  <2>. HIDE DEF G, stop, val, next, size, R
  <2>. QED  BY <1>2, <1>3, <1>4, <1>5, TailRecursion
<1>7. f = [r \in G |-> IF r \in stop THEN val[r] ELSE f[next[r]]]
  <2>. HIDE DEF G, stop, val, next
  <2>. QED  BY <1>6 DEF IsDescent
<1>8. ASSUME NEW r \in G
      PROVE  f[r] = LET i      == r[1]
                        prefix == r[2]
                        rest   == After(s, prefix)
                        suffix == SuffixOf(b, i)
                    IN  IF i = BlockSize THEN Closest(b.num - 1)
                        ELSE IF Shareds(b)[i] < prefix THEN Closest(i - 1)
                        ELSE IF Shareds(b)[i] > prefix THEN f[<<i + 1, prefix>>]
                        ELSE IF Ordering(rest, suffix) = "Equal" THEN Found(i)
                        ELSE IF Ordering(rest, suffix) = "Less" THEN Closest(i - 1)
                        ELSE f[<<i + 1, PrefixAfter(prefix, CommonPrefix(rest, suffix))>>]
  <2>1. f[r] = IF r \in stop THEN val[r] ELSE f[next[r]]
    <3>. HIDE DEF stop, val, next
    <3>. QED  BY <1>7
  <2>2. /\ r \in ends <=> r[1] = BlockSize
        /\ r \in low <=> Shareds(b)[r[1]] < r[2]
        /\ r \in high <=> Shareds(b)[r[1]] > r[2]
        /\ r \in same <=> Ordering(Rest1(r), Suffix1(r)) = "Equal"
        /\ r \in less <=> Ordering(Rest1(r), Suffix1(r)) = "Less"
    OBVIOUS
  <2>3. more[r] = CommonPrefix(Rest1(r), Suffix1(r))
    OBVIOUS
  <2>4. /\ val[r] = IF r \in ends THEN Closest(b.num - 1)
                    ELSE IF r \in low THEN Closest(r[1] - 1)
                    ELSE IF r \in same THEN Found(r[1]) ELSE Closest(r[1] - 1)
        /\ r \notin stop => next[r] = IF r \in high THEN <<r[1] + 1, r[2]>>
                                      ELSE <<r[1] + 1, PrefixAfter(r[2], more[r])>>
        /\ r \in stop <=> r \in ends \/ r \in low \/ (r \in same /\ r \notin high)
                            \/ (r \in less /\ r \notin high)
    <3>. HIDE DEF ends, low, high, same, less, more
    <3>. QED  OBVIOUS
  <2>5. r \in ends \/ ~(r \in low /\ r \in high)
    <3>1. Shareds(b)[r[1]] < r[2] /\ Shareds(b)[r[1]] > r[2] => r[1] = BlockSize
      <4>1. r[1] \in 1..BlockSize /\ r[2] \in Nat
        BY <1>1
      <4>2. r[1] # BlockSize => r[1] \in 1..(BlockSize - 1)
        BY <1>1, <4>1
      <4>3. Shareds(b) \in [1..(BlockSize - 1) -> Nat]
        BY BlockHeader
      <4>4. r[1] # BlockSize => Shareds(b)[r[1]] \in Nat
        BY <4>2, <4>3
      <4>. QED  BY <4>1, <4>4
    <3>. QED  BY <2>2, <3>1
  <2>. HIDE DEF ends, low, high, same, less, stop, val, next, more
  <2>. QED  BY <2>1, <2>2, <2>3, <2>4, <2>5
<1>9. f = [r \in G |-> f[r]]
  <2>. HIDE DEF G, stop, val, next
  <2>. QED  BY <1>7
<1>10. Walks(f, b, s)
  <2>. HIDE DEF stop, val, next
  <2>. QED  BY <1>8, <1>9 DEF Walks
<1>. QED  BY <1>10

\* Entries in order.
Sorted(es) == \A i, j \in 1..Len(es) : i < j => AtMost(es[i], es[j])

\* What looking s up in the entries es may give, the first of them being num 0.
BlockAnswers(es, s, r) ==
  \/ \E k \in 1..Len(es) : r = Found(k - 1) /\ es[k] = s
  \/ \E k \in 1..Len(es) : /\ r = Closest(k - 1) /\ Below(es[k], s)
                           /\ k < Len(es) => Below(s, es[k + 1])

\* The walk is at the entry after the i-th, of which prefix bytes are shared.
WalkAt(es, s, i, prefix) ==
  /\ i \in 1..BlockSize /\ prefix \in 0..Len(s)
  /\ i <= Len(es) => Below(es[i], s) /\ SharesTo(s, es[i], prefix)
  /\ i >= Len(es) => Below(es[Len(es)], s)
  /\ i > Len(es) => prefix = 0

\* From there it finds the entry, or the one before it.
LEMMA WalkAnswers ==
  ASSUME NEW recordSize, NEW es, Fits(recordSize, es), Sorted(es), NEW s \in Bytes,
         NEW f, Walks(f, BuildBlock(recordSize, es), s),
         NEW i, NEW prefix, WalkAt(es, s, i, prefix)
  PROVE  \/ BlockAnswers(es, s, f[<<i, prefix>>])
         \/ \E q : WalkAt(es, s, i + 1, q) /\ f[<<i, prefix>>] = f[<<i + 1, q>>]
<1>. DEFINE b == BuildBlock(recordSize, es)
            n == Len(es)
            rest == After(s, prefix)
            suffix == SuffixOf(b, i)
            r == f[<<i, prefix>>]
<1>1. /\ es \in Seq(Bytes) /\ n \in 1..BlockSize /\ n \in Nat
      /\ BlockSize \in Nat \ {0, 1} /\ i \in 1..BlockSize /\ prefix \in 0..Len(s)
      /\ Len(s) \in Nat
  BY BlockSizes DEF Fits, WalkAt, Bytes
<1>2. b.num = n
  BY BlockHeader
<1>3. r = IF i = BlockSize THEN Closest(b.num - 1)
          ELSE IF Shareds(b)[i] < prefix THEN Closest(i - 1)
          ELSE IF Shareds(b)[i] > prefix THEN f[<<i + 1, prefix>>]
          ELSE IF Ordering(rest, suffix) = "Equal" THEN Found(i)
          ELSE IF Ordering(rest, suffix) = "Less" THEN Closest(i - 1)
          ELSE f[<<i + 1, prefix + CommonPrefix(rest, suffix)>>]
  <2>. DEFINE at == <<i, prefix>>
  <2>1. at \in (1..BlockSize) \X (0..Len(s)) /\ at[1] = i /\ at[2] = prefix
    BY <1>1
  <2>. HIDE DEF at
  <2>2. f[at] = LET j == at[1]
                    p == at[2]
                    x == After(s, p)
                    y == SuffixOf(b, j)
                IN  IF j = BlockSize THEN Closest(b.num - 1)
                    ELSE IF Shareds(b)[j] < p THEN Closest(j - 1)
                    ELSE IF Shareds(b)[j] > p THEN f[<<j + 1, p>>]
                    ELSE IF Ordering(x, y) = "Equal" THEN Found(j)
                    ELSE IF Ordering(x, y) = "Less" THEN Closest(j - 1)
                    ELSE f[<<j + 1, PrefixAfter(p, CommonPrefix(x, y))>>]
    BY <2>1 DEF Walks
  <2>3. f[at] = LET x == After(s, prefix)
                    y == SuffixOf(b, i)
                IN  IF i = BlockSize THEN Closest(b.num - 1)
                    ELSE IF Shareds(b)[i] < prefix THEN Closest(i - 1)
                    ELSE IF Shareds(b)[i] > prefix THEN f[<<i + 1, prefix>>]
                    ELSE IF Ordering(x, y) = "Equal" THEN Found(i)
                    ELSE IF Ordering(x, y) = "Less" THEN Closest(i - 1)
                    ELSE f[<<i + 1, prefix + CommonPrefix(x, y)>>]
    <3>. HIDE DEF b
    <3>. QED  BY <2>1, <2>2, Zenon DEF PrefixAfter
  <2>. QED  BY <2>3 DEF at
<1>. HIDE DEF r
<1>4. CASE i = BlockSize
  <2>1. r = Closest(n - 1)
    BY <1>2, <1>3, <1>4
  <2>2. n \in 1..n /\ ~(n < n) /\ Below(es[n], s)
    BY <1>1, <1>4 DEF WalkAt
  <2>. QED  BY <2>1, <2>2 DEF BlockAnswers, r
<1>5. CASE i # BlockSize /\ i < n
  <2>. DEFINE x == es[i]
              y == es[i + 1]
              h == Shared(es, i)
  <2>1. i \in 1..(n - 1) /\ i \in 1..(BlockSize - 1) /\ i + 1 \in 1..n /\ i \in 1..n
        /\ i + 1 \in 1..BlockSize /\ i < i + 1
    BY <1>1, <1>5
  <2>2. x \in Bytes /\ y \in Bytes /\ SharesTo(x, y, h) /\ h \in 0..Len(y)
    BY <1>1, <2>1, SharedIs
  <2>3. Shareds(b)[i] = h
    BY <1>5, <2>1, BlockIs
  <2>4. suffix = After(y, h)
    BY <1>5, <2>1, SuffixIs
  <2>5. Below(x, s) /\ SharesTo(s, x, prefix) /\ AtMost(x, y)
    BY <2>1, <1>1, <1>5 DEF WalkAt, Sorted
  <2>. HIDE DEF x, y, h, b, suffix, rest
  <2>6. /\ prefix \in Nat /\ h \in Nat /\ prefix <= Len(s)
        /\ h < prefix => Below(s, y)
        /\ h > prefix => Below(y, s) /\ SharesTo(s, y, prefix)
        /\ h = prefix => prefix <= Len(y) /\ \A j \in 1..prefix : s[j] = y[j]
    BY <2>2, <2>5, NextEntry
  <2>7. ASSUME Below(s, y), r = Closest(i - 1) PROVE BlockAnswers(es, s, r)
    <3>1. Below(es[i], s) /\ Below(s, es[i + 1])
      BY <2>5, <2>7 DEF x, y
    <3>. QED  BY <2>1, <2>7, <3>1 DEF BlockAnswers
  <2>8. ASSUME NEW q \in 0..Len(s), Below(y, s), SharesTo(s, y, q)
        PROVE  WalkAt(es, s, i + 1, q)
    <3>1. Below(es[i + 1], s) /\ SharesTo(s, es[i + 1], q)
      BY <2>8 DEF y
    <3>2. i + 1 >= n => i + 1 = n
      BY <1>1, <1>5
    <3>3. ~(i + 1 > n)
      BY <1>1, <1>5
    <3>. QED  BY <2>1, <2>8, <3>1, <3>2, <3>3 DEF WalkAt
  <2>9. CASE h < prefix
    BY <1>3, <1>5, <2>3, <2>6, <2>7, <2>9 DEF r
  <2>10. CASE h > prefix
    <3>1. r = f[<<i + 1, prefix>>]
      BY <1>3, <1>5, <2>3, <2>6, <2>10
    <3>2. WalkAt(es, s, i + 1, prefix)
      BY <1>1, <2>6, <2>8, <2>10
    <3>. QED  BY <3>1, <3>2 DEF r
  <2>11. CASE h = prefix
    <3>. DEFINE c == CommonPrefix(rest, suffix)
    <3>1. /\ Ordering(rest, suffix) = Ordering(s, y)
          /\ CommonPrefix(s, y) = prefix + c /\ c \in 0..(Len(s) - prefix)
      BY <2>2, <2>4, <2>6, <2>11, RestOrder DEF rest
    <3>. HIDE DEF c
    <3>2. r = IF Ordering(s, y) = "Equal" THEN Found(i)
              ELSE IF Ordering(s, y) = "Less" THEN Closest(i - 1)
              ELSE f[<<i + 1, prefix + c>>]
      <4>1. ~(Shareds(b)[i] < prefix) /\ ~(Shareds(b)[i] > prefix)
        BY <2>3, <2>6, <2>11
      <4>. QED  BY <1>3, <1>5, <3>1, <4>1 DEF c
    <3>3. /\ Ordering(s, y) \in {"Equal", "Less", "Greater"}
          /\ Ordering(s, y) = "Equal" <=> s = y
          /\ Ordering(s, y) = "Greater" <=> Below(y, s)
      BY <2>2, OrderTotal
    <3>4. CASE Ordering(s, y) = "Equal"
      <4>1. r = Found((i + 1) - 1) /\ es[i + 1] = s
        <5>1. (i + 1) - 1 = i
          BY <2>1
        <5>. QED  BY <3>2, <3>3, <3>4, <5>1 DEF y
      <4>. QED  BY <2>1, <4>1 DEF BlockAnswers, r
    <3>5. CASE Ordering(s, y) = "Less"
      <4>1. Below(s, y) /\ r = Closest(i - 1)
        BY <3>2, <3>5 DEF Below
      <4>. QED  BY <2>7, <4>1 DEF r
    <3>6. CASE Ordering(s, y) = "Greater"
      <4>1. r = f[<<i + 1, prefix + c>>] /\ Below(y, s)
        BY <3>2, <3>3, <3>6
      <4>2. SharesTo(s, y, prefix + c)
        BY <2>2, <3>1, CommonPrefixShares
      <4>3. prefix + c \in 0..Len(s)
        BY <1>1, <3>1
      <4>4. WalkAt(es, s, i + 1, prefix + c)
        BY <2>8, <4>1, <4>2, <4>3
      <4>. QED  BY <4>1, <4>4 DEF r
    <3>. QED  BY <3>3, <3>4, <3>5, <3>6
  <2>12. h < prefix \/ h > prefix \/ h = prefix
    BY <2>6
  <2>. QED  BY <2>9, <2>10, <2>11, <2>12
<1>6. CASE i # BlockSize /\ ~(i < n)
  <2>1. i \in 1..(BlockSize - 1) /\ i + 1 \in 1..BlockSize /\ n \in 1..n
    BY <1>1, <1>6
  <2>2. Shareds(b)[i] = 0 /\ suffix = <<>>
    BY <1>6, <2>1, BlockIs, SuffixIs
  <2>3. Below(es[n], s) /\ es[n] \in Bytes
    BY <1>1, <1>6, <2>1 DEF WalkAt
  <2>4. CASE 0 < prefix
    <3>1. r = Closest(i - 1)
      BY <1>3, <1>6, <2>2, <2>4
    <3>2. i = n
      BY <1>1, <1>6, <2>4 DEF WalkAt
    <3>. QED  BY <1>1, <2>1, <2>3, <3>1, <3>2 DEF BlockAnswers, r
  <2>5. CASE prefix = 0
    <3>1. rest = s
      <4>. DEFINE zero == 0
      <4>1. zero \in 0..Len(s)
        BY <1>1
      <4>. HIDE DEF zero
      <4>2. /\ After(s, zero) \in Seq(Nat) /\ Len(After(s, zero)) = Len(s) - zero
            /\ \A j \in 1..(Len(s) - zero) : After(s, zero)[j] = s[zero + j]
        BY <4>1, AfterIs DEF Bytes
      <4>3. Len(s) - zero = Len(s) /\ \A j \in 1..Len(s) : zero + j = j
        BY <1>1 DEF zero
      <4>4. s \in Seq(Nat)
        BY DEF Bytes
      <4>5. After(s, zero) = s
        BY <4>2, <4>3, <4>4, SeqEqual
      <4>. QED  BY <2>5, <4>5 DEF zero
    <3>2. <<>> \in Bytes /\ Len(<<>>) = 0
      BY DEF Bytes
    <3>3. s # <<>> /\ SharesTo(s, <<>>, 0)
      <4>1. 0 < Len(s)
        <5>. DEFINE k == CommonPrefix(es[n], s)
        <5>1. SharesTo(es[n], s, k)
          BY <2>3, CommonPrefixShares
        <5>2. k < Len(s)
          BY <2>3, <5>1, OrderingIs
        <5>. QED  BY <1>1, <5>1, <5>2 DEF SharesTo
      <4>2. \A j \in 1..0 : s[j] = <<>>[j]
        OBVIOUS
      <4>. QED  BY <1>1, <3>2, <4>1, <4>2 DEF SharesTo
    <3>4. /\ CommonPrefix(s, <<>>) = 0
          /\ Ordering(s, <<>>) \in {"Equal", "Less", "Greater"}
          /\ Ordering(s, <<>>) = "Equal" <=> s = <<>>
          /\ Below(s, <<>>) <=> 0 < Len(<<>>) /\ (Len(s) = 0 \/ s[0 + 1] < <<>>[0 + 1])
      <4>. DEFINE none == <<>>
                  zero == 0
      <4>1. none \in Bytes /\ SharesTo(s, none, zero)
        BY <3>2, <3>3
      <4>. HIDE DEF none, zero
      <4>2. /\ CommonPrefix(s, none) = zero
            /\ Ordering(s, none) \in {"Equal", "Less", "Greater"}
            /\ Ordering(s, none) = "Equal" <=> s = none
            /\ Below(s, none) <=> zero < Len(none) /\ (Len(s) = zero \/ s[zero + 1] < none[zero + 1])
        BY <4>1, OrderingIs
      <4>. QED  BY <4>2 DEF none, zero
    <3>5. Ordering(s, <<>>) # "Less"
      BY <3>2, <3>4 DEF Below
    <3>6. r = f[<<i + 1, 0>>]
      <4>1. ~(Shareds(b)[i] < prefix) /\ ~(Shareds(b)[i] > prefix)
        BY <2>2, <2>5
      <4>2. Ordering(rest, suffix) = Ordering(s, <<>>) /\ CommonPrefix(rest, suffix) = 0
        BY <2>2, <3>1, <3>4
      <4>3. prefix + CommonPrefix(rest, suffix) = 0
        BY <2>5, <4>2
      <4>. HIDE DEF rest, suffix, b
      <4>. QED  BY <1>3, <1>6, <3>3, <3>4, <3>5, <4>1, <4>2, <4>3
    <3>7. i + 1 > n /\ ~(i + 1 <= n) /\ 0 \in 0..Len(s)
      BY <1>1, <1>6
    <3>8. WalkAt(es, s, i + 1, 0)
      BY <2>1, <2>3, <3>7 DEF WalkAt
    <3>. QED  BY <3>6, <3>8 DEF r
  <2>6. 0 < prefix \/ prefix = 0
    BY <1>1
  <2>. QED  BY <2>4, <2>5, <2>6
<1>. QED  BY <1>4, <1>5, <1>6

\* Looking s up in a block: it is below the head, or found, or closest to one.
LEMMA IdInBlockIs ==
  ASSUME NEW recordSize, NEW es, Fits(recordSize, es), Sorted(es), NEW s \in Bytes
  PROVE  LET r == IdInBlock(BuildBlock(recordSize, es), s)
         IN  \/ BlockAnswers(es, s, r)
             \/ r = NotFound /\ Below(s, es[1])
<1>. DEFINE b == BuildBlock(recordSize, es)
            f == CHOOSE t : Walks(t, b, s)
            p == CommonPrefix(s, es[1])
<1>1. Walks(f, b, s)
  BY WalkExists
<1>2. /\ es \in Seq(Bytes) /\ Len(es) \in 1..BlockSize /\ BlockSize \in Nat \ {0, 1}
      /\ es[1] \in Bytes /\ b.head = es[1] /\ Len(s) \in Nat
  <2>1. es \in Seq(Bytes) /\ Len(es) \in 1..BlockSize
    BY DEF Fits
  <2>2. es[1] \in Bytes
    BY <2>1, BlockSizes
  <2>. QED  BY <2>1, <2>2, BlockSizes, BlockHeader DEF Bytes
<1>3. IdInBlock(b, s) = IF Ordering(s, es[1]) = "Equal" THEN Found(0)
                        ELSE IF Ordering(s, es[1]) = "Less" THEN NotFound
                        ELSE f[<<1, p>>]
  <2>1. IdInBlock(b, s) = IF Ordering(s, b.head) = "Equal" THEN Found(0)
                          ELSE IF Ordering(s, b.head) = "Less" THEN NotFound
                          ELSE f[<<1, CommonPrefix(s, b.head)>>]
    <3>. HIDE DEF b
    <3>. QED  BY DEF IdInBlock, Walks, f
  <2>. QED  BY <1>2, <2>1
<1>. HIDE DEF f, b
<1>4. /\ Ordering(s, es[1]) \in {"Equal", "Less", "Greater"}
      /\ Ordering(s, es[1]) = "Equal" <=> s = es[1]
      /\ Ordering(s, es[1]) = "Greater" <=> Below(es[1], s)
  BY <1>2, OrderTotal
<1>5. CASE Ordering(s, es[1]) = "Equal"
  <2>1. 1 \in 1..Len(es) /\ 1 - 1 = 0
    BY <1>2
  <2>. QED  BY <1>3, <1>4, <1>5, <2>1 DEF BlockAnswers, b
<1>6. CASE Ordering(s, es[1]) = "Less"
  BY <1>3, <1>6 DEF Below, b
<1>7. CASE Ordering(s, es[1]) = "Greater"
  <2>1. SharesTo(s, es[1], p)
    BY <1>2, CommonPrefixShares
  <2>2. p \in 0..Len(s)
    BY <1>2, <2>1 DEF SharesTo
  <2>. HIDE DEF p
  <2>3. WalkAt(es, s, 1, p)
    <3>. DEFINE n == Len(es)
    <3>1. n \in 1..BlockSize /\ BlockSize \in Nat \ {0, 1}
      BY <1>2
    <3>2. /\ 1 >= Len(es) => Len(es) = 1
          /\ ~(1 > Len(es)) /\ 1 \in 1..BlockSize
      <4>. HIDE DEF n
      <4>1. 1 >= n => n = 1
        BY <3>1
      <4>2. ~(1 > n) /\ 1 \in 1..BlockSize
        BY <3>1
      <4>. QED  BY <4>1, <4>2 DEF n
    <3>. QED  BY <1>4, <1>7, <2>1, <2>2, <3>2 DEF WalkAt
  <2>4. ASSUME NEW i, NEW prefix, WalkAt(es, s, i, prefix)
         PROVE  \/ BlockAnswers(es, s, f[<<i, prefix>>])
                \/ \E q : WalkAt(es, s, i + 1, q) /\ f[<<i, prefix>>] = f[<<i + 1, q>>]
    <3>1. Walks(f, BuildBlock(recordSize, es), s)
      BY <1>1 DEF b
    <3>. QED  BY <2>4, <3>1, WalkAnswers
  <2>. DEFINE H == {r \in (1..BlockSize) \X (0..Len(s)) : WalkAt(es, s, r[1], r[2])}
              Good == {r \in H : BlockAnswers(es, s, f[r])}
              size == [r \in H |-> BlockSize - r[1]]
  <2>5. size \in [H -> Nat]
    BY <1>2
  <2>6. ASSUME NEW r \in H
        PROVE  \/ r \in Good
               \/ \E q \in H : size[q] < size[r] /\ (q \in Good => r \in Good)
    <3>. DEFINE i == r[1]
                prefix == r[2]
    <3>1. r = <<i, prefix>> /\ WalkAt(es, s, i, prefix) /\ i \in 1..BlockSize
      OBVIOUS
    <3>. HIDE DEF i, prefix
    <3>2. \/ BlockAnswers(es, s, f[<<i, prefix>>])
          \/ \E q : WalkAt(es, s, i + 1, q) /\ f[<<i, prefix>>] = f[<<i + 1, q>>]
      <4>. HIDE DEF H, Good, size
      <4>. QED  BY <2>4, <3>1
    <3>3. CASE BlockAnswers(es, s, f[<<i, prefix>>])
      BY <3>1, <3>3
    <3>4. ASSUME NEW q, WalkAt(es, s, i + 1, q), f[<<i, prefix>>] = f[<<i + 1, q>>]
          PROVE  \E t \in H : size[t] < size[r] /\ (t \in Good => r \in Good)
      <4>. DEFINE t == <<i + 1, q>>
      <4>1. t \in H /\ f[r] = f[t] /\ t[1] = i + 1
        BY <3>1, <3>4 DEF WalkAt
      <4>2. i + 1 \in 1..BlockSize
        BY <3>4 DEF WalkAt
      <4>3. size[t] = BlockSize - (i + 1) /\ size[r] = BlockSize - i
        BY <4>1 DEF i
      <4>. HIDE DEF t, size, H
      <4>4. size[t] < size[r]
        BY <1>2, <3>1, <4>2, <4>3
      <4>. QED  BY <4>1, <4>4
    <3>. HIDE DEF H, Good, size
    <3>. QED  BY <3>2, <3>3, <3>4
  <2>7. \A r \in H : r \in Good
    <3>. HIDE DEF H, Good, size
    <3>. QED  BY <2>5, <2>6, Descent
  <2>8. <<1, p>> \in H
    BY <1>2, <2>2, <2>3
  <2>9. BlockAnswers(es, s, f[<<1, p>>])
    <3>. HIDE DEF H
    <3>. QED  BY <2>7, <2>8
  <2>10. IdInBlock(b, s) = f[<<1, p>>]
    BY <1>3, <1>7
  <2>. QED  BY <2>9, <2>10 DEF b
<1>. QED  BY <1>4, <1>5, <1>6, <1>7

-----------------------------------------------------------------------------
(* The search for a block.                                                 *)

BlockAnswer(d, s, i) ==
  DefaultTo(OffsetBy(IdInBlock(Block(d, i), s), i * BlockSize + 1), i * BlockSize)

\* The search of IdIn.
Seeks(f, d, s) ==
  f = [range \in (0..(Len(d.offsets)+1)) \X (0..Len(d.offsets)) |->
        LET min   == range[1]
            max   == range[2]
            mid   == (min + max) \div 2
            order == Ordering(s, Block(d, mid).head)
        IN  IF min > max THEN BlockAnswer(d, s, max)
            ELSE IF order = "Equal" THEN Found(mid * BlockSize + 1)
            ELSE IF order = "Greater" THEN f[<<mid + 1, max>>]
            ELSE IF mid = 0 THEN NotFound
            ELSE f[<<min, mid - 1>>]]

\* There is such a search, and IdIn is one of the whole dictionary.
LEMMA SeekExists ==
  ASSUME NEW d, Len(d.offsets) \in Nat, NEW s
  PROVE  \E f : /\ Seeks(f, d, s)
                /\ d.data # <<>> => IdIn(d, s) = f[<<0, Len(d.offsets)>>]
<1>. DEFINE n == Len(d.offsets)
            G == (0..(n+1)) \X (0..n)
            Mid(r) == (r[1] + r[2]) \div 2
            Order(r) == Ordering(s, Block(d, Mid(r)).head)
            ends == {r \in G : r[1] > r[2]}
            same == {r \in G : Order(r) = "Equal"}
            more == {r \in G : Order(r) = "Greater"}
            none == {r \in G : Mid(r) = 0}
            stop == ends \union same \union (none \ more)
            next == [r \in G |-> IF r \in stop THEN r
                                 ELSE IF r \in more THEN <<Mid(r) + 1, r[2]>>
                                 ELSE <<r[1], Mid(r) - 1>>]
            val == [r \in G |-> IF r \in ends THEN BlockAnswer(d, s, r[2])
                                ELSE IF r \in same THEN Found(Mid(r) * BlockSize + 1)
                                ELSE NotFound]
            size == [r \in G |-> IF r[1] > r[2] THEN 0 ELSE r[2] - r[1] + 1]
<1>1. n \in Nat
  OBVIOUS
<1>. HIDE DEF n
<1>2. size \in [G -> Nat]
  BY <1>1
<1>3. ASSUME NEW r \in G, r \notin stop PROVE next[r] \in G /\ size[next[r]] < size[r]
  <2>. DEFINE min == r[1]
              max == r[2]
              mid == Mid(r)
  <2>1. min \in 0..(n+1) /\ max \in 0..n /\ min <= max
    BY <1>1, <1>3
  <2>2. mid \in min..max
    BY <1>1, <2>1
  <2>3. r \notin more => mid # 0
    <3>1. mid = 0 => r \in none
      OBVIOUS
    <3>. HIDE DEF none, more, ends, same, mid
    <3>. QED  BY <1>3, <3>1
  <2>4. next[r] = IF r \in more THEN <<mid + 1, max>> ELSE <<min, mid - 1>>
    <3>. HIDE DEF stop, more
    <3>. QED  BY <1>3
  <2>5. size[r] = max - min + 1
    BY <1>1, <2>1
  <2>. HIDE DEF next, mid, more
  <2>6. CASE r \in more
    <3>1. next[r] = <<mid + 1, max>> /\ mid + 1 \in 0..(n+1)
      BY <1>1, <2>1, <2>2, <2>4, <2>6
    <3>2. next[r] \in G
      BY <2>1, <3>1
    <3>3. size[next[r]] = IF mid + 1 > max THEN 0 ELSE max - (mid + 1) + 1
      BY <3>1, <3>2
    <3>. HIDE DEF size, G, min, max
    <3>. QED  BY <1>1, <2>1, <2>2, <2>5, <3>2, <3>3
  <2>7. CASE r \notin more
    <3>1. next[r] = <<min, mid - 1>> /\ mid - 1 \in 0..n
      BY <1>1, <2>1, <2>2, <2>3, <2>4, <2>7
    <3>2. next[r] \in G
      BY <2>1, <3>1
    <3>3. size[next[r]] = IF min > mid - 1 THEN 0 ELSE (mid - 1) - min + 1
      BY <3>1, <3>2
    <3>. HIDE DEF size, G, min, max
    <3>. QED  BY <1>1, <2>1, <2>2, <2>5, <3>2, <3>3
  <2>. QED  BY <2>6, <2>7
<1>4. next \in [G -> G]
  <2>1. \A r \in G : r \in stop => next[r] \in G
    OBVIOUS
  <2>. HIDE DEF stop
  <2>2. \A r \in G : next[r] \in G
    BY <1>3, <2>1
  <2>3. next = [r \in G |-> next[r]]
    OBVIOUS
  <2>. HIDE DEF next
  <2>. QED  BY <2>2, <2>3
<1>. DEFINE R == {val[r] : r \in G}
<1>5. val \in [G -> R]
  OBVIOUS
<1>6. PICK g : IsDescent(g, G, stop, val, next)
  <2>. HIDE DEF G, stop, val, next, size, R
  <2>. QED  BY <1>2, <1>3, <1>4, <1>5, TailRecursion
<1>7. g = [r \in G |-> IF r \in stop THEN val[r] ELSE g[next[r]]]
  <2>. HIDE DEF G, stop, val, next
  <2>. QED  BY <1>6 DEF IsDescent
<1>8. ASSUME NEW r \in G
      PROVE  g[r] = LET min   == r[1]
                        max   == r[2]
                        mid   == (min + max) \div 2
                        order == Ordering(s, Block(d, mid).head)
                    IN  IF min > max THEN BlockAnswer(d, s, max)
                        ELSE IF order = "Equal" THEN Found(mid * BlockSize + 1)
                        ELSE IF order = "Greater" THEN g[<<mid + 1, max>>]
                        ELSE IF mid = 0 THEN NotFound
                        ELSE g[<<min, mid - 1>>]
  <2>1. g[r] = IF r \in stop THEN val[r] ELSE g[next[r]]
    <3>. HIDE DEF stop, val, next
    <3>. QED  BY <1>7
  <2>2. /\ r \in ends <=> r[1] > r[2]
        /\ r \in same <=> Order(r) = "Equal"
        /\ r \in more <=> Order(r) = "Greater"
        /\ r \in none <=> Mid(r) = 0
    OBVIOUS
  <2>3. /\ val[r] = IF r \in ends THEN BlockAnswer(d, s, r[2])
                    ELSE IF r \in same THEN Found(Mid(r) * BlockSize + 1)
                    ELSE NotFound
        /\ r \notin stop => next[r] = IF r \in more THEN <<Mid(r) + 1, r[2]>>
                                      ELSE <<r[1], Mid(r) - 1>>
        /\ r \in stop <=> r \in ends \/ r \in same \/ (r \in none /\ r \notin more)
    <3>. HIDE DEF ends, same, more, none, Mid
    <3>. QED  OBVIOUS
  <2>. HIDE DEF ends, same, more, none, stop, val, next
  <2>. QED  BY <2>1, <2>2, <2>3
<1>9. g = [r \in G |-> g[r]]
  <2>. HIDE DEF G, stop, val, next
  <2>. QED  BY <1>7
<1>10. Seeks(g, d, s)
  <2>. HIDE DEF stop, val, next
  <2>. QED  BY <1>8, <1>9 DEF Seeks, n
<1>. DEFINE f == CHOOSE t : Seeks(t, d, s)
<1>11. Seeks(f, d, s)
  BY <1>10
<1>12. d.data # <<>> => IdIn(d, s) = f[<<0, Len(d.offsets)>>]
  BY DEF IdIn, Seeks, BlockAnswer, f
<1>. HIDE DEF f
<1>. QED  BY <1>11, <1>12

\* A later place among the blocks is one further on among the entries.
LEMMA PlaceLater ==
  ASSUME NEW k \in Nat, NEW m \in Nat
  PROVE  /\ k * BlockSize \in Nat
         /\ (k + 1) * BlockSize = k * BlockSize + BlockSize
         /\ k < m => k * BlockSize < m * BlockSize
<1>1. BlockSize \in Nat \ {0, 1}
  BY BlockSizes
<1>2. k * BlockSize \in Nat /\ (k + 1) * BlockSize = k * BlockSize + BlockSize
  BY <1>1
<1>3. ASSUME k < m PROVE k * BlockSize < m * BlockSize
  <2>. DEFINE e == (m - k) - 1
  <2>1. e \in Nat /\ m = k + (e + 1)
    BY <1>3
  <2>. HIDE DEF e
  <2>2. m * BlockSize = k * BlockSize + (e * BlockSize + BlockSize)
    BY <1>1, <2>1
  <2>3. e * BlockSize \in Nat /\ m * BlockSize \in Nat
    BY <1>1, <2>1
  <2>. DEFINE x == k * BlockSize
              y == e * BlockSize
              z == m * BlockSize
  <2>4. x \in Nat /\ y \in Nat /\ z = x + (y + BlockSize)
    BY <1>2, <2>2, <2>3
  <2>. HIDE DEF x, y, z
  <2>5. x < z
    BY <1>1, <2>4
  <2>. QED  BY <2>5 DEF x, z
<1>. QED  BY <1>2, <1>3

\* What looking s up in a dictionary of the entries w may give.
DictAnswers(w, s, r) ==
  \/ \E k \in 1..Len(w) : r = Found(k) /\ w[k] = s
  \/ \E k \in 1..Len(w) : /\ r = Closest(k) /\ Below(w[k], s)
                          /\ k < Len(w) => Below(s, w[k + 1])
  \/ r = NotFound /\ Below(s, w[1])

\* d has the entries w in as many blocks, those of block k being es[k].
HasBlocks(d, w, recordSize, es, count) ==
  /\ count \in Nat \ {0} /\ Len(d.offsets) = count - 1 /\ d.data # <<>>
  /\ w \in Seq(Bytes)
  /\ \A k \in 0..(count - 1) :
       /\ Fits(recordSize, es[k]) /\ Block(d, k) = BuildBlock(recordSize, es[k])
       /\ k * BlockSize + Len(es[k]) <= Len(w)
       /\ IF k = count - 1 THEN Len(w) = k * BlockSize + Len(es[k])
                           ELSE Len(es[k]) = BlockSize
       /\ \A j \in 1..Len(es[k]) : es[k][j] = w[k * BlockSize + j]

\* The heads of the blocks.
LEMMA HeadsAre ==
  ASSUME NEW d, NEW w, NEW recordSize, NEW es, NEW count, HasBlocks(d, w, recordSize, es, count),
         Sorted(w), NEW k \in 0..(count - 1)
  PROVE  /\ Block(d, k).head = w[k * BlockSize + 1] /\ w[k * BlockSize + 1] \in Bytes
         /\ k * BlockSize + 1 \in 1..Len(w) /\ es[k][1] = w[k * BlockSize + 1]
         /\ Sorted(es[k]) /\ Len(es[k]) \in 1..BlockSize /\ k * BlockSize \in Nat
         /\ \A m \in 0..(count - 1) :
              k < m => AtMost(w[k * BlockSize + 1], w[m * BlockSize + 1])
<1>. DEFINE x == k * BlockSize
            e == es[k]
            num == Len(e)
<1>1. /\ count \in Nat \ {0} /\ w \in Seq(Bytes) /\ Len(w) \in Nat /\ k \in Nat
      /\ Fits(recordSize, e) /\ Block(d, k) = BuildBlock(recordSize, e)
      /\ x + num <= Len(w) /\ \A j \in 1..num : e[j] = w[x + j]
  BY DEF HasBlocks
<1>2. x \in Nat
  BY <1>1, PlaceLater
<1>3. num \in 1..BlockSize /\ BlockSize \in Nat \ {0, 1}
  BY <1>1, BlockSizes DEF Fits
<1>4. Block(d, k).head = e[1]
  BY <1>1, BlockHeader
<1>. HIDE DEF x, e, num
<1>5. 1 \in 1..num /\ x + 1 \in 1..Len(w)
  BY <1>1, <1>2, <1>3
<1>6. e[1] = w[x + 1] /\ w[x + 1] \in Bytes
  <2>1. \A j \in 1..Len(w) : w[j] \in Bytes
    BY <1>1
  <2>. QED  BY <1>1, <1>5, <2>1
<1>7. Sorted(e)
  <2>. SUFFICES ASSUME NEW i \in 1..num, NEW j \in 1..num, i < j PROVE AtMost(e[i], e[j])
    BY DEF Sorted, num
  <2>1. x + i \in 1..Len(w) /\ x + j \in 1..Len(w) /\ x + i < x + j
    BY <1>1, <1>2, <1>3
  <2>2. AtMost(w[x + i], w[x + j])
    BY <2>1 DEF Sorted
  <2>. QED  BY <1>1, <2>2
<1>8. ASSUME NEW m \in 0..(count - 1), k < m
      PROVE  AtMost(w[x + 1], w[m * BlockSize + 1])
  <2>. DEFINE y == m * BlockSize
              o == Len(es[m])
  <2>1. y + o <= Len(w) /\ Fits(recordSize, es[m])
    BY <1>8 DEF HasBlocks
  <2>2. o \in 1..BlockSize
    BY <2>1 DEF Fits
  <2>3. m \in Nat
    BY <1>1
  <2>4. y \in Nat /\ x < y
    BY <1>1, <1>8, <2>3, PlaceLater DEF x
  <2>. HIDE DEF y, o
  <2>5. y + 1 \in 1..Len(w) /\ x + 1 < y + 1
    BY <1>1, <1>2, <1>3, <2>1, <2>2, <2>4
  <2>6. AtMost(w[x + 1], w[y + 1])
    BY <1>5, <2>5 DEF Sorted
  <2>. QED  BY <2>6 DEF y
<1>. QED  BY <1>2, <1>3, <1>4, <1>5, <1>6, <1>7, <1>8 DEF x, e, num

\* The answer of the last block whose head is below s is that of all of them.
LEMMA BlockDecides ==
  ASSUME NEW d, NEW w, NEW recordSize, NEW es, NEW count, HasBlocks(d, w, recordSize, es, count),
         Sorted(w), NEW s \in Bytes, NEW k \in 0..(count - 1),
         Below(w[k * BlockSize + 1], s),
         k # count - 1 => Below(s, w[(k + 1) * BlockSize + 1])
  PROVE  DictAnswers(w, s, BlockAnswer(d, s, k))
<1>. DEFINE x == k * BlockSize
            e == es[k]
            num == Len(e)
            r == IdInBlock(Block(d, k), s)
            result == BlockAnswer(d, s, k)
<1>1. /\ Fits(recordSize, e) /\ Block(d, k) = BuildBlock(recordSize, e)
      /\ x + num <= Len(w) /\ \A j \in 1..num : e[j] = w[x + j]
      /\ IF k = count - 1 THEN Len(w) = x + num ELSE num = BlockSize
      /\ w \in Seq(Bytes) /\ Len(w) \in Nat /\ k \in Nat
  BY DEF HasBlocks
<1>2. Sorted(e) /\ e[1] = w[x + 1] /\ num \in 1..BlockSize /\ x \in Nat /\ w[x + 1] \in Bytes
  BY HeadsAre
<1>3. BlockSize \in Nat \ {0, 1}
  BY BlockSizes
<1>4. BlockAnswers(e, s, r) \/ (r = NotFound /\ Below(s, e[1]))
  BY <1>1, <1>2, IdInBlockIs
<1>5. ~Below(s, e[1])
  BY <1>2, OrderTotal
<1>6. result = DefaultTo(OffsetBy(r, x + 1), x)
  BY DEF BlockAnswer
<1>7. (k + 1) * BlockSize = x + BlockSize
  BY <1>1, PlaceLater
<1>8. k # count - 1 => Below(s, w[(x + BlockSize) + 1])
  BY <1>7
<1>. HIDE DEF x, e, num, r, result
<1>9. ASSUME NEW j \in 1..num
      PROVE  /\ x + j \in 1..Len(w) /\ e[j] = w[x + j] /\ (j - 1) + (x + 1) = x + j
  BY <1>1, <1>2, <1>3
<1>10. ASSUME NEW j \in 1..num, r = Found(j - 1), e[j] = s
       PROVE  DictAnswers(w, s, result)
  <2>1. result = Found(x + j)
    <3>1. r.kind = "Found" /\ r.id = j - 1 /\ r = [kind |-> "Found", id |-> j - 1]
      BY <1>10 DEF Found
    <3>2. OffsetBy(r, x + 1) = [kind |-> "Found", id |-> (j - 1) + (x + 1)]
      BY <3>1 DEF OffsetBy
    <3>. QED  BY <1>6, <1>9, <3>2 DEF DefaultTo, Found
  <2>. QED  BY <1>9, <1>10, <2>1 DEF DictAnswers
<1>11. ASSUME NEW j \in 1..num, r = Closest(j - 1), Below(e[j], s),
              j < num => Below(s, e[j + 1])
       PROVE  DictAnswers(w, s, result)
  <2>1. result = Closest(x + j)
    <3>1. r.kind = "Closest" /\ r.id = j - 1 /\ r = [kind |-> "Closest", id |-> j - 1]
      BY <1>11 DEF Closest
    <3>2. OffsetBy(r, x + 1) = [kind |-> "Closest", id |-> (j - 1) + (x + 1)]
      BY <3>1 DEF OffsetBy
    <3>. QED  BY <1>6, <1>9, <3>2 DEF DefaultTo, Closest
  <2>2. ASSUME x + j < Len(w) PROVE Below(s, w[(x + j) + 1])
    <3>1. CASE j < num
      <4>1. j + 1 \in 1..num /\ x + (j + 1) = (x + j) + 1
        BY <1>2, <1>3, <3>1
      <4>. DEFINE i == j + 1
                  y == (x + j) + 1
      <4>2. i \in 1..num /\ x + i = y /\ Below(s, e[i])
        BY <1>11, <3>1, <4>1
      <4>. HIDE DEF i, y
      <4>3. Below(s, w[y])
        BY <1>9, <4>2
      <4>. QED  BY <4>3 DEF y
    <3>2. CASE ~(j < num)
      <4>1. j = num /\ k # count - 1 /\ num = BlockSize
        BY <1>1, <1>2, <1>3, <2>2, <3>2
      <4>. QED  BY <1>8, <4>1
    <3>. QED  BY <3>1, <3>2
  <2>3. Below(w[x + j], s) /\ x + j \in 1..Len(w)
    BY <1>9, <1>11
  <2>. QED  BY <2>1, <2>2, <2>3 DEF DictAnswers
<1>12. DictAnswers(w, s, result)
  BY <1>4, <1>5, <1>10, <1>11 DEF BlockAnswers, num
<1>. QED  BY <1>12 DEF result

\* s is above the heads of the blocks before min, and below those after max.
SeekAt(w, s, count, min, max) ==
  /\ min \in 0..count /\ max \in 0..(count - 1) /\ min <= max + 1
  /\ \A k \in 0..(count - 1) : k < min => Below(w[k * BlockSize + 1], s)
  /\ \A k \in 0..(count - 1) : k > max => Below(s, w[k * BlockSize + 1])

\* From there the search finds the entry, or the one before it.
LEMMA SeekAnswers ==
  ASSUME NEW d, NEW w, NEW recordSize, NEW es, NEW count, HasBlocks(d, w, recordSize, es, count),
         Sorted(w), NEW s \in Bytes, NEW f, Seeks(f, d, s),
         NEW min, NEW max, SeekAt(w, s, count, min, max)
  PROVE  \/ DictAnswers(w, s, f[<<min, max>>])
         \/ \E p, q : /\ SeekAt(w, s, count, p, q)
                      /\ p >= min /\ q <= max /\ q - p < max - min /\ min <= max
                      /\ f[<<min, max>>] = f[<<p, q>>]
<1>. DEFINE mid == (min + max) \div 2
            head == w[mid * BlockSize + 1]
            order == Ordering(s, Block(d, mid).head)
            r == f[<<min, max>>]
<1>1. /\ count \in Nat \ {0} /\ Len(d.offsets) = count - 1 /\ w \in Seq(Bytes)
      /\ min \in 0..count /\ max \in 0..(count - 1) /\ min <= max + 1
  BY DEF HasBlocks, SeekAt
<1>2. r = IF min > max THEN BlockAnswer(d, s, max)
          ELSE IF order = "Equal" THEN Found(mid * BlockSize + 1)
          ELSE IF order = "Greater" THEN f[<<mid + 1, max>>]
          ELSE IF mid = 0 THEN NotFound
          ELSE f[<<min, mid - 1>>]
  <2>. DEFINE at == <<min, max>>
  <2>1. at \in (0..(Len(d.offsets)+1)) \X (0..Len(d.offsets)) /\ at[1] = min /\ at[2] = max
    BY <1>1
  <2>. HIDE DEF at
  <2>2. f[at] = LET lo == at[1]
                    hi == at[2]
                    m  == (lo + hi) \div 2
                    o  == Ordering(s, Block(d, m).head)
                IN  IF lo > hi THEN BlockAnswer(d, s, hi)
                    ELSE IF o = "Equal" THEN Found(m * BlockSize + 1)
                    ELSE IF o = "Greater" THEN f[<<m + 1, hi>>]
                    ELSE IF m = 0 THEN NotFound
                    ELSE f[<<lo, m - 1>>]
    BY <2>1, Zenon DEF Seeks
  <2>3. f[at] = IF min > max THEN BlockAnswer(d, s, max)
                ELSE IF order = "Equal" THEN Found(mid * BlockSize + 1)
                ELSE IF order = "Greater" THEN f[<<mid + 1, max>>]
                ELSE IF mid = 0 THEN NotFound
                ELSE f[<<min, mid - 1>>]
    BY <2>1, <2>2, Zenon
  <2>. QED  BY <2>3 DEF at
<1>3. CASE min > max
  <2>1. min = max + 1 /\ max < min
    BY <1>1, <1>3
  <2>2. Below(w[max * BlockSize + 1], s)
    BY <1>1, <2>1 DEF SeekAt
  <2>3. max # count - 1 => Below(s, w[(max + 1) * BlockSize + 1])
    <3>1. max # count - 1 => max + 1 \in 0..(count - 1) /\ max + 1 > max
      BY <1>1
    <3>. QED  BY <3>1 DEF SeekAt
  <2>4. DictAnswers(w, s, BlockAnswer(d, s, max))
    BY <1>1, <2>2, <2>3, BlockDecides
  <2>. QED  BY <1>2, <1>3, <2>4
<1>4. CASE ~(min > max)
  <2>1. mid \in min..max /\ mid \in 0..(count - 1) /\ min <= max
    BY <1>1, <1>4
  <2>. HIDE DEF mid
  <2>2. /\ Block(d, mid).head = head /\ head \in Bytes
        /\ mid * BlockSize + 1 \in 1..Len(w)
    BY <2>1, HeadsAre
  <2>3. /\ order \in {"Equal", "Less", "Greater"}
        /\ order = "Equal" <=> s = head
        /\ order = "Greater" <=> Below(head, s)
        /\ order = "Less" <=> Below(s, head)
    BY <2>2, OrderTotal DEF Below
  <2>4. \A k \in 0..(count - 1) : w[k * BlockSize + 1] \in Bytes
    BY HeadsAre
  <2>. HIDE DEF order
  <2>5. CASE order = "Equal"
    <3>1. r = Found(mid * BlockSize + 1)
      BY <1>2, <1>4, <2>5
    <3>. QED  BY <2>2, <2>3, <2>5, <3>1 DEF DictAnswers
  <2>6. CASE order = "Greater"
    <3>1. r = f[<<mid + 1, max>>]
      BY <1>2, <1>4, <2>6
    <3>2. mid + 1 \in 0..count /\ mid + 1 <= max + 1 /\ mid + 1 >= min /\ max <= max
          /\ max - (mid + 1) < max - min
      BY <1>1, <2>1
    <3>3. ASSUME NEW k \in 0..(count - 1), k < mid + 1
          PROVE  Below(w[k * BlockSize + 1], s)
      <4>1. k = mid \/ k < mid
        BY <1>1, <2>1, <3>3
      <4>2. k < mid => AtMost(w[k * BlockSize + 1], head)
        BY <2>1, HeadsAre
      <4>3. w[k * BlockSize + 1] \in Bytes /\ Below(head, s)
        BY <2>3, <2>4, <2>6
      <4>. HIDE DEF head
      <4>4. CASE k < mid
        BY <2>2, <4>2, <4>3, <4>4, AtMostTrans
      <4>5. CASE k = mid
        BY <4>3, <4>5 DEF head
      <4>. QED  BY <4>1, <4>4, <4>5
    <3>4. SeekAt(w, s, count, mid + 1, max)
      BY <1>1, <3>2, <3>3 DEF SeekAt
    <3>. QED  BY <2>1, <3>1, <3>2, <3>4
  <2>7. CASE order = "Less" /\ mid = 0
    <3>1. r = NotFound
      BY <1>2, <1>4, <2>7
    <3>2. mid * BlockSize + 1 = 1
      BY <2>7, BlockSizes
    <3>. QED  BY <2>3, <2>7, <3>1, <3>2 DEF DictAnswers
  <2>8. CASE order = "Less" /\ mid # 0
    <3>1. r = f[<<min, mid - 1>>]
      BY <1>2, <1>4, <2>8
    <3>2. mid - 1 \in 0..(count - 1) /\ min <= (mid - 1) + 1 /\ min >= min /\ mid - 1 <= max
          /\ (mid - 1) - min < max - min
      BY <1>1, <2>1, <2>8
    <3>3. ASSUME NEW k \in 0..(count - 1), k > mid - 1
          PROVE  Below(s, w[k * BlockSize + 1])
      <4>1. k = mid \/ mid < k
        BY <1>1, <2>1, <3>3
      <4>2. mid < k => AtMost(head, w[k * BlockSize + 1])
        BY <2>1, HeadsAre
      <4>3. w[k * BlockSize + 1] \in Bytes /\ Below(s, head)
        BY <2>3, <2>4, <2>8
      <4>. HIDE DEF head
      <4>4. CASE mid < k
        BY <2>2, <4>2, <4>3, <4>4, AtMostTrans
      <4>5. CASE k = mid
        BY <4>3, <4>5 DEF head
      <4>. QED  BY <4>1, <4>4, <4>5
    <3>4. SeekAt(w, s, count, min, mid - 1)
      BY <1>1, <3>2, <3>3 DEF SeekAt
    <3>. QED  BY <2>1, <3>1, <3>2, <3>4
  <2>. QED  BY <2>3, <2>5, <2>6, <2>7, <2>8
<1>. QED  BY <1>3, <1>4

\* Looking s up in a dictionary finds the entry, or the one before it.
LEMMA IdInIs ==
  ASSUME NEW d, NEW w, NEW recordSize, NEW es, NEW count, HasBlocks(d, w, recordSize, es, count),
         Sorted(w), NEW s \in Bytes
  PROVE  DictAnswers(w, s, IdIn(d, s))
<1>1. count \in Nat \ {0} /\ Len(d.offsets) = count - 1 /\ d.data # <<>>
  BY DEF HasBlocks
<1>2. Len(d.offsets) \in Nat
  BY <1>1
<1>3. PICK f : Seeks(f, d, s) /\ IdIn(d, s) = f[<<0, count - 1>>]
  <2>1. \E f : /\ Seeks(f, d, s)
               /\ d.data # <<>> => IdIn(d, s) = f[<<0, Len(d.offsets)>>]
    BY <1>2, SeekExists
  <2>. QED  BY <1>1, <2>1
<1>4. ASSUME NEW min, NEW max, SeekAt(w, s, count, min, max)
      PROVE  \/ DictAnswers(w, s, f[<<min, max>>])
             \/ \E p, q : /\ SeekAt(w, s, count, p, q)
                          /\ p >= min /\ q <= max /\ q - p < max - min /\ min <= max
                          /\ f[<<min, max>>] = f[<<p, q>>]
  BY <1>3, <1>4, SeekAnswers
<1>. DEFINE H == {r \in (0..count) \X (0..(count-1)) : SeekAt(w, s, count, r[1], r[2])}
            Good == {r \in H : DictAnswers(w, s, f[r])}
            size == [r \in H |-> (r[2] + 1) - r[1]]
<1>5. size \in [H -> Nat]
  BY <1>1 DEF SeekAt
<1>6. ASSUME NEW r \in H
      PROVE  \/ r \in Good
             \/ \E t \in H : size[t] < size[r] /\ (t \in Good => r \in Good)
  <2>. DEFINE min == r[1]
              max == r[2]
  <2>1. r = <<min, max>> /\ SeekAt(w, s, count, min, max) /\ min \in Nat /\ max \in Nat
    BY <1>1
  <2>. HIDE DEF min, max, H, Good, size
  <2>2. \/ DictAnswers(w, s, f[<<min, max>>])
        \/ \E p, q : /\ SeekAt(w, s, count, p, q)
                     /\ p >= min /\ q <= max /\ q - p < max - min /\ min <= max
                     /\ f[<<min, max>>] = f[<<p, q>>]
    BY <1>4, <2>1
  <2>3. CASE DictAnswers(w, s, f[<<min, max>>])
    <3>1. DictAnswers(w, s, f[r])
      BY <2>1, <2>3
    <3>. QED  BY <3>1 DEF Good
  <2>4. ASSUME NEW p, NEW q, SeekAt(w, s, count, p, q), q - p < max - min,
               f[<<min, max>>] = f[<<p, q>>]
        PROVE  \E t \in H : size[t] < size[r] /\ (t \in Good => r \in Good)
    <3>. DEFINE t == <<p, q>>
    <3>1. t[1] = p /\ t[2] = q /\ p \in 0..count /\ q \in 0..(count - 1)
      BY <2>4 DEF SeekAt
    <3>2. t \in H
      BY <2>4, <3>1 DEF H
    <3>. HIDE DEF t
    <3>3. f[r] = f[t]
      BY <2>1, <2>4 DEF t
    <3>4. t \in Good => r \in Good
      BY <3>3 DEF Good
    <3>5. size[t] = (q + 1) - p /\ size[r] = (max + 1) - min
      BY <3>1, <3>2 DEF size, min, max
    <3>6. size[t] < size[r]
      BY <1>1, <2>1, <2>4, <3>1, <3>5
    <3>. QED  BY <3>2, <3>4, <3>6
  <2>. QED  BY <2>2, <2>3, <2>4
<1>7. \A r \in H : r \in Good
  <2>. HIDE DEF H, Good, size
  <2>. QED  BY <1>5, <1>6, Descent
<1>8. <<0, count - 1>> \in H
  <2>1. 0 \in 0..count /\ count - 1 \in 0..(count - 1) /\ 0 <= (count - 1) + 1
    BY <1>1
  <2>2. \A k \in 0..(count - 1) : ~(k < 0) /\ ~(k > count - 1)
    BY <1>1
  <2>. QED  BY <2>1, <2>2 DEF SeekAt
<1>9. DictAnswers(w, s, f[<<0, count - 1>>])
  <2>. HIDE DEF H
  <2>. QED  BY <1>7, <1>8
<1>. QED  BY <1>3, <1>9

-----------------------------------------------------------------------------
(* The order of the entries added.                                         *)

\* Of an earlier type, or of the same and in order.
Before(x, y) ==
  \/ x.datatype < y.datatype
  \/ x.datatype = y.datatype /\ AtMost(x.entry, y.entry)

InOrder == \A i, j \in 1..Len(added) : i < j => Before(added[i], added[j])

\* Before what is before another.
LEMMA BeforeTrans ==
  ASSUME NEW x \in EntryType, NEW y \in EntryType, NEW z \in EntryType,
         Before(x, y), Before(y, z)
  PROVE  Before(x, z)
<1>1. /\ x.entry \in Bytes /\ y.entry \in Bytes /\ z.entry \in Bytes
      /\ x.datatype \in Nat /\ y.datatype \in Nat /\ z.datatype \in Nat
  BY TypesAssumption DEF EntryType, Bytes
<1>2. AtMost(x.entry, y.entry) /\ AtMost(y.entry, z.entry) => AtMost(x.entry, z.entry)
  BY <1>1, AtMostTrans
<1>. QED  BY <1>1, <1>2 DEF Before

\* An entry is added after all that it follows.
LEMMA AddKeepsOrder ==
  ASSUME Inv, InOrder, phase = "building", NEW t \in Types, NEW v \in ValuesOf(t),
         MayFollow(Typed(t, v)), AddEntry(Typed(t, v))
  PROVE  InOrder'
<1>. DEFINE e == Typed(t, v)
            n == Len(added)
<1>1. added \in Seq(EntryType) /\ n \in Nat
  <2>1. Rest(builder, currentType, added)
    BY DEF Inv, Building
  <2>. QED  BY <2>1 DEF Rest
<1>2. e \in EntryType /\ e.datatype = t /\ e.entry = v /\ v \in Bytes
  BY TypesAssumption DEF Typed, EntryType, Bytes
<1>3. added' = Append(added, e)
  BY DEF AddEntry
<1>. HIDE DEF e
<1>4. Len(added') = n + 1 /\ added'[n + 1] = e /\ \A k \in 1..n : added'[k] = added[k]
  BY <1>1, <1>2, <1>3, AppendProperties
<1>5. ASSUME n # 0 PROVE Before(added[n], e)
  <2>1. added # <<>> /\ Last(added) = added[n] /\ n \in 1..n
    BY <1>1, <1>5 DEF Last
  <2>2. \/ added[n].datatype < e.datatype
        \/ added[n].datatype = e.datatype /\ Ordering(added[n].entry, e.entry) # "Greater"
    BY <2>1 DEF MayFollow, e
  <2>3. added[n].entry \in Bytes
    <3>1. added[n] \in EntryType
      BY <1>1, <2>1
    <3>. QED  BY <3>1 DEF EntryType, Bytes
  <2>4. Ordering(added[n].entry, e.entry) # "Greater" => AtMost(added[n].entry, e.entry)
    <3>. DEFINE a == added[n].entry
                c == e.entry
    <3>1. a \in Bytes /\ c \in Bytes
      BY <1>2, <2>3
    <3>. HIDE DEF a, c
    <3>2. (a = c \/ Below(a, c) \/ Below(c, a)) /\ (Ordering(a, c) = "Greater" <=> Below(c, a))
      BY <3>1, OrderTotal
    <3>. QED  BY <3>2 DEF AtMost, a, c
  <2>. QED  BY <2>2, <2>4 DEF Before
<1>6. ASSUME NEW i \in 1..(n + 1), NEW j \in 1..(n + 1), i < j
      PROVE  Before(added'[i], added'[j])
  <2>1. i \in 1..n /\ n # 0 /\ (j \in 1..n \/ j = n + 1)
    BY <1>1, <1>6
  <2>2. CASE j \in 1..n
    BY <1>4, <1>6, <2>1, <2>2 DEF InOrder
  <2>3. CASE j = n + 1
    <3>1. i = n \/ Before(added[i], added[n])
      <4>1. n \in 1..n /\ (i = n \/ i < n)
        BY <1>1, <2>1
      <4>. QED  BY <2>1, <4>1 DEF InOrder
    <3>2. added[i] \in EntryType /\ added[n] \in EntryType
      BY <1>1, <2>1
    <3>3. Before(added[i], e)
      BY <1>2, <1>5, <2>1, <3>1, <3>2, BeforeTrans
    <3>. QED  BY <1>4, <2>1, <2>3, <3>3
  <2>. QED  BY <2>1, <2>2, <2>3
<1>. QED  BY <1>4, <1>6 DEF InOrder

\* The entries are always in order.
LEMMA OrderAlways == Spec => [](Inv /\ InOrder)
<1>1. Spec => []Inv
  BY InvAlways
<1>2. Init => InOrder
  <2>. SUFFICES ASSUME Init PROVE InOrder
    OBVIOUS
  <2>1. Len(added) = 0
    BY DEF Init
  <2>2. \A i \in 1..0 : FALSE
    OBVIOUS
  <2>. QED  BY <2>1, <2>2 DEF InOrder
<1>3. Inv /\ InOrder /\ [Next]_vars => InOrder'
  <2>. SUFFICES ASSUME Inv, InOrder, [Next]_vars PROVE InOrder'
    OBVIOUS
  <2>1. ASSUME NEW t \in Types, NEW v \in ValuesOf(t), Add(Typed(t, v)) PROVE InOrder'
    BY <2>1, AddKeepsOrder DEF Add
  <2>2. CASE UNCHANGED added
    BY <2>2 DEF InOrder
  <2>3. CASE Finalize
    BY <2>2, <2>3 DEF Finalize
  <2>4. ASSUME NEW bytes \in Cuts, OpenStream(bytes) PROVE InOrder'
    BY <2>2, <2>4 DEF OpenStream
  <2>5. CASE StreamNext
    BY <2>2, <2>5 DEF StreamNext
  <2>6. CASE StreamEnd
    BY <2>2, <2>6 DEF StreamEnd
  <2>7. CASE UNCHANGED vars
    BY <2>2, <2>7 DEF vars
  <2>. QED  BY <2>1, <2>3, <2>4, <2>5, <2>6, <2>7 DEF Next
<1>. QED  BY <1>1, <1>2, <1>3, PTL DEF Spec

-----------------------------------------------------------------------------
(* Looking up in a segment.                                                *)

\* The entries of the i-th type (from 0), and those of its blocks.
SegmentValues(i) == Cut(Values, EntriesTo(BlocksTo(i)), EntriesTo(BlocksTo(i + 1)))
SegmentBlocks(i) == [k \in 0..(BlocksTo(i + 1) - BlocksTo(i) - 1) |->
                       EntriesIn(data, added, BlocksTo(i) + k + 1)]

\* A segment's entries are its type's.
LEMMA SegmentValuesAre ==
  ASSUME Ready, NEW i \in 0..(TypeCount - 1)
  PROVE  LET from == EntriesTo(BlocksTo(i))
             to == EntriesTo(BlocksTo(i + 1))
             w == SegmentValues(i)
         IN  /\ from \in Nat /\ to \in 0..Len(added) /\ from < to /\ Len(added) \in Nat
             /\ w \in Seq(Bytes) /\ Len(w) = to - from
             /\ \A k \in 1..(to - from) :
                  /\ from + k \in 1..Len(added) /\ added[from + k] \in EntryType
                  /\ added[from + k].entry = w[k]
                  /\ added[from + k].datatype = typesPresent[i + 1]
<1>. DEFINE j == i + 1
            from == EntriesTo(BlocksTo(i))
            to == EntriesTo(BlocksTo(j))
            w == Cut(Values, from, to)
<1>1. TypeCount \in Nat /\ Values \in Seq(Bytes) /\ Len(Values) = Len(added) /\ Len(added) \in Nat
      /\ added \in Seq(EntryType) /\ \A k \in 1..Len(added) : Values[k] = added[k].entry
  BY ReadyIs
<1>2. j \in 1..TypeCount /\ j - 1 = i
  BY <1>1
<1>3. /\ to \in 0..Len(added) /\ from \in 0..to /\ from < to
      /\ \A k \in (from + 1)..to : added[k].datatype = typesPresent[j]
  <2>. HIDE DEF j
  <2>1. /\ EntriesTo(BlocksTo(j)) \in 0..Len(added)
        /\ EntriesTo(BlocksTo(j - 1)) \in 0..EntriesTo(BlocksTo(j))
        /\ EntriesTo(BlocksTo(j - 1)) < EntriesTo(BlocksTo(j))
        /\ \A k \in (EntriesTo(BlocksTo(j - 1)) + 1)..EntriesTo(BlocksTo(j)) :
             added[k].datatype = typesPresent[j]
    BY <1>2, EntriesOfType
  <2>. QED  BY <1>2, <2>1
<1>. HIDE DEF from, to
<1>4. w \in Seq(Bytes) /\ Len(w) = to - from /\ \A k \in 1..(to - from) : w[k] = Values[from + k]
  <2>1. to \in 0..Len(Values)
    BY <1>1, <1>3
  <2>. QED  BY ZenonT(40), <1>1, <1>3, <2>1, CutIs
<1>. HIDE DEF w
<1>5. ASSUME NEW k \in 1..(to - from)
      PROVE  /\ from + k \in 1..Len(added) /\ added[from + k] \in EntryType
             /\ added[from + k].entry = w[k] /\ added[from + k].datatype = typesPresent[j]
  <2>1. from + k \in 1..Len(added) /\ from + k \in (from + 1)..to
    BY <1>1, <1>3
  <2>2. added[from + k] \in EntryType
    BY <1>1, <2>1
  <2>. QED  BY <1>1, <1>3, <1>4, <2>1, <2>2
<1>6. w = SegmentValues(i) /\ from \in Nat
  BY <1>1, <1>3 DEF w, from, to, SegmentValues
<1>. QED  BY <1>1, <1>3, <1>4, <1>5, <1>6 DEF from, to

\* They are in order.
LEMMA SegmentSorted ==
  ASSUME Ready, InOrder, NEW i \in 0..(TypeCount - 1)
  PROVE  Sorted(SegmentValues(i))
<1>. DEFINE from == EntriesTo(BlocksTo(i))
            to == EntriesTo(BlocksTo(i + 1))
            w == SegmentValues(i)
            t == typesPresent[i + 1]
<1>1. /\ from \in Nat /\ to \in 0..Len(added) /\ from < to /\ Len(added) \in Nat
      /\ w \in Seq(Bytes) /\ Len(w) = to - from
      /\ \A k \in 1..(to - from) :
           /\ from + k \in 1..Len(added) /\ added[from + k] \in EntryType
           /\ added[from + k].entry = w[k] /\ added[from + k].datatype = t
  BY SegmentValuesAre
<1>. HIDE DEF from, to, w, t
<1>2. ASSUME NEW k \in 1..Len(w), NEW m \in 1..Len(w), k < m PROVE AtMost(w[k], w[m])
  <2>. DEFINE x == added[from + k]
              y == added[from + m]
  <2>1. /\ from + k \in 1..Len(added) /\ x \in EntryType /\ x.entry = w[k] /\ x.datatype = t
        /\ from + m \in 1..Len(added) /\ y \in EntryType /\ y.entry = w[m] /\ y.datatype = t
    BY <1>1
  <2>2. from + k < from + m
    BY <1>1, <1>2
  <2>3. Before(x, y)
    BY <2>1, <2>2 DEF InOrder
  <2>. HIDE DEF x, y
  <2>4. x.datatype \in Nat
    BY <2>1, TypesAssumption DEF EntryType
  <2>5. ~(x.datatype < y.datatype)
    BY <2>1, <2>4
  <2>. QED  BY <2>1, <2>3, <2>5 DEF Before
<1>. QED  BY <1>2 DEF Sorted, w

\* A segment has them in its blocks.
LEMMA SegmentHasBlocks ==
  ASSUME Ready, NEW i \in 0..(TypeCount - 1)
  PROVE  HasBlocks(Segment(i), SegmentValues(i), RecordSize[typesPresent[i + 1]],
                   SegmentBlocks(i), BlocksTo(i + 1) - BlocksTo(i))
<1>. DEFINE j == i + 1
            d == Segment(i)
            u == BlocksTo(i)
            v == BlocksTo(j)
            count == v - u
            from == EntriesTo(u)
            to == EntriesTo(v)
            w == SegmentValues(i)
            es == SegmentBlocks(i)
            t == typesPresent[j]
<1>1. TypeCount \in Nat /\ data \in Seq(Placed) /\ Len(data) \in Nat
  BY ReadyIs
<1>2. j \in 1..TypeCount /\ j - 1 = i
  BY <1>1
<1>3. /\ from \in Nat /\ to \in 0..Len(added) /\ from < to /\ Len(added) \in Nat
      /\ w \in Seq(Bytes) /\ Len(w) = to - from
      /\ \A k \in 1..(to - from) : added[from + k].entry = w[k]
  BY SegmentValuesAre
<1>4. /\ d.data # <<>> /\ count \in Nat \ {0} /\ u \in Nat /\ u + count \in 1..Len(data)
      /\ Len(d.offsets) = count - 1
      /\ \A k \in 0..(count - 1) : Block(d, k) = data[u + k + 1].block
  BY SegmentIs
<1>5. v \in 1..Len(data)
      /\ \A b \in u..(v - 1) : EntriesTo(b) \in Nat /\ EntriesTo(b) = from + (b - u) * BlockSize
  <2>. HIDE DEF j
  <2>1. /\ BlocksTo(j) \in 1..Len(data)
        /\ \A b \in BlocksTo(j - 1)..(BlocksTo(j) - 1) :
             /\ EntriesTo(b) \in Nat
             /\ EntriesTo(b) = EntriesTo(BlocksTo(j - 1)) + (b - BlocksTo(j - 1)) * BlockSize
    BY <1>2, FullBlocks
  <2>. QED  BY <1>2, <2>1
<1>6. ASSUME NEW k \in 0..(count - 1)
      PROVE  /\ Fits(RecordSize[t], es[k]) /\ Block(d, k) = BuildBlock(RecordSize[t], es[k])
             /\ k * BlockSize + Len(es[k]) <= Len(w)
             /\ IF k = count - 1 THEN Len(w) = k * BlockSize + Len(es[k])
                                 ELSE Len(es[k]) = BlockSize
             /\ \A m \in 1..Len(es[k]) : es[k][m] = w[k * BlockSize + m]
  <2>. DEFINE n == u + k + 1
              e == EntriesIn(data, added, n)
              num == data[n].block.num
              x == k * BlockSize
  <2>1. es[k] = e
    BY DEF SegmentBlocks
  <2>. HIDE DEF u, v, es, d, j
  <2>2. /\ n \in (u + 1)..v /\ n - 1 \in u..(v - 1) /\ (n - 1) - u = k /\ k \in Nat
        /\ v \in n..Len(data) /\ n \in 0..Len(data) /\ (n = v <=> k = count - 1)
    BY SMTT(30), <1>4, <1>5
  <2>3. EntriesTo(n - 1) \in Nat /\ EntriesTo(n - 1) = from + x
    BY <1>5, <2>2
  <2>4. x \in Nat
    BY <2>2, PlaceLater
  <2>5. /\ num \in 1..BlockSize /\ EntriesTo(n) = EntriesTo(n - 1) + num
        /\ data[n].block = BuildBlock(RecordSize[t], e) /\ Fits(RecordSize[t], e)
        /\ Len(e) = num /\ \A m \in 1..num : e[m] = added[EntriesTo(n - 1) + m].entry
        /\ n # v => num = BlockSize
    <3>1. n \in (BlocksTo(j - 1) + 1)..BlocksTo(j)
      BY <1>2, <2>2 DEF u, v
    <3>. QED  BY <1>2, <3>1, BlockFacts DEF v
  <2>6. EntriesTo(n) <= to
    BY <1>1, <2>2, UpToGrows DEF EntriesTo
  <2>7. n = v => EntriesTo(n) = to
    OBVIOUS
  <2>. HIDE DEF n, e, num, x, from, to, w
  <2>8. x + num <= Len(w) /\ (n = v => Len(w) = x + num)
    BY <1>3, <2>3, <2>4, <2>5, <2>6, <2>7, BlockSizes
  <2>9. ASSUME NEW m \in 1..num PROVE e[m] = w[x + m]
    <3>1. x + m \in 1..(to - from) /\ (from + x) + m = from + (x + m)
      BY <1>3, <2>4, <2>5, <2>8, BlockSizes
    <3>. DEFINE y == x + m
    <3>2. y \in 1..(to - from) /\ EntriesTo(n - 1) + m = from + y
      BY <2>3, <3>1
    <3>. HIDE DEF y
    <3>3. added[from + y].entry = w[y] /\ e[m] = added[from + y].entry
      BY <1>3, <2>5, <3>2
    <3>. QED  BY <3>3 DEF y
  <2>10. Block(d, k) = data[n].block
    BY <1>4 DEF n
  <2>. QED  BY <2>1, <2>2, <2>5, <2>8, <2>9, <2>10 DEF x
<1>. QED  BY <1>3, <1>4, <1>6 DEF HasBlocks

\* The entries of t are those of its segment; others are before or after it.
LEMMA AroundSegment ==
  ASSUME Ready, InOrder, NEW i \in 0..(TypeCount - 1), NEW m \in 1..Len(added)
  PROVE  LET from == EntriesTo(BlocksTo(i))
             to == EntriesTo(BlocksTo(i + 1))
             t == typesPresent[i + 1]
         IN  /\ m <= from => added[m].datatype < t
             /\ m > to => t < added[m].datatype
             /\ added[m] \in EntryType /\ added[m].datatype \in Nat /\ t \in Nat
<1>. DEFINE from == EntriesTo(BlocksTo(i))
            to == EntriesTo(BlocksTo(i + 1))
            t == typesPresent[i + 1]
            x == TypeIndexForId(m)
            mt == added[m].datatype
<1>1. /\ from \in Nat /\ to \in 0..Len(added) /\ from < to /\ Len(added) \in Nat
      /\ \A k \in 1..(to - from) :
           /\ from + k \in 1..Len(added) /\ added[from + k] \in EntryType
           /\ added[from + k].datatype = t
  BY SegmentValuesAre
<1>2. /\ TypeCount \in Nat /\ typesPresent \in Seq(Types) /\ TypeCount = Len(typesPresent)
      /\ added \in Seq(EntryType)
  BY ReadyIs
<1>3. /\ x \in 0..(TypeCount - 1)
      /\ EntriesTo(BlocksTo(x)) < m /\ m <= EntriesTo(BlocksTo(x + 1))
  BY TypeIndexIs
<1>. HIDE DEF x
<1>4. mt = typesPresent[x + 1]
  <2>. DEFINE f == EntriesTo(BlocksTo(x))
              k == m - f
  <2>1. /\ f \in Nat /\ EntriesTo(BlocksTo(x + 1)) \in 0..Len(added)
        /\ \A j \in 1..(EntriesTo(BlocksTo(x + 1)) - f) :
             added[f + j].datatype = typesPresent[x + 1]
    BY <1>3, SegmentValuesAre
  <2>. HIDE DEF f
  <2>2. k \in 1..(EntriesTo(BlocksTo(x + 1)) - f) /\ f + k = m
    BY <1>1, <1>3, <2>1 DEF f
  <2>. HIDE DEF k
  <2>. QED  BY <2>1, <2>2
<1>5. /\ added[m] \in EntryType /\ mt \in Nat /\ t \in Nat /\ x + 1 \in 1..TypeCount
      /\ i + 1 \in 1..TypeCount
  <2>1. x + 1 \in 1..TypeCount /\ i + 1 \in 1..TypeCount
    BY <1>2, <1>3
  <2>2. added[m] \in EntryType /\ t \in Types
    BY <1>2, <2>1
  <2>3. Types \subseteq Nat
    BY TypesAssumption
  <2>. QED  BY <2>1, <2>2, <2>3 DEF EntryType
<1>6. x # i => mt # t
  <2>1. x # i => x + 1 < i + 1 \/ i + 1 < x + 1
    BY <1>2, <1>3
  <2>2. \A j, k \in 1..TypeCount : j < k => typesPresent[j] < typesPresent[k]
    BY DEF Ready
  <2>3. x + 1 < i + 1 => mt < t
    BY <1>4, <1>5, <2>2
  <2>4. i + 1 < x + 1 => t < mt
    BY <1>4, <1>5, <2>2
  <2>. QED  BY <1>5, <2>1, <2>3, <2>4
<1>. HIDE DEF from, to, t
<1>7. ASSUME m <= from PROVE mt < t
  <2>. DEFINE first == from + 1
  <2>1. first \in 1..Len(added) /\ m < first /\ added[first].datatype = t
    <3>1. 1 \in 1..(to - from)
      BY <1>1
    <3>2. from + 1 \in 1..Len(added) /\ added[from + 1].datatype = t
      BY <1>1, <3>1
    <3>. QED  BY <1>1, <1>7, <3>2
  <2>. HIDE DEF first
  <2>2. Before(added[m], added[first])
    BY <2>1 DEF InOrder
  <2>3. mt < t \/ mt = t
    BY <2>1, <2>2 DEF Before
  <2>4. x # i
    BY <1>1, <1>3, <1>7 DEF from
  <2>. QED  BY <1>6, <2>3, <2>4
<1>8. ASSUME m > to PROVE t < mt
  <2>1. to \in 1..Len(added) /\ to < m /\ added[to].datatype = t
    <3>. DEFINE k == to - from
    <3>1. k \in 1..(to - from) /\ from + k = to
      BY <1>1
    <3>. HIDE DEF k
    <3>2. added[from + k].datatype = t /\ from + k \in 1..Len(added)
      BY <1>1, <3>1
    <3>. QED  BY <1>8, <3>1, <3>2
  <2>2. Before(added[to], added[m])
    BY <2>1 DEF InOrder
  <2>3. t < mt \/ mt = t
    BY <2>1, <2>2 DEF Before
  <2>4. x # i
    BY <1>1, <1>3, <1>8 DEF to
  <2>. QED  BY <1>6, <2>3, <2>4
<1>. QED  BY <1>5, <1>7, <1>8 DEF from, to, t

Matching(t, s) == {m \in DOMAIN added : added[m] = Typed(t, s)}
Smaller(t, s) == {m \in DOMAIN added :
                    \/ added[m].datatype < t
                    \/ added[m].datatype = t /\ Ordering(added[m].entry, s) = "Less"}

\* s between the c-th entry of the segment and the next is equal to none.
LEMMA BetweenEntries ==
  ASSUME Ready, InOrder, NEW i \in 0..(TypeCount - 1), NEW s \in Bytes,
         NEW c \in 0..Len(SegmentValues(i)),
         c # 0 => Below(SegmentValues(i)[c], s),
         c < Len(SegmentValues(i)) => Below(s, SegmentValues(i)[c + 1])
  PROVE  /\ Matching(typesPresent[i + 1], s) = {}
         /\ Smaller(typesPresent[i + 1], s) = 1..(EntriesTo(BlocksTo(i)) + c)
<1>. DEFINE from == EntriesTo(BlocksTo(i))
            to == EntriesTo(BlocksTo(i + 1))
            t == typesPresent[i + 1]
            w == SegmentValues(i)
<1>1. /\ from \in Nat /\ to \in 0..Len(added) /\ from < to /\ Len(added) \in Nat
      /\ w \in Seq(Bytes) /\ Len(w) = to - from
      /\ \A k \in 1..(to - from) :
           /\ from + k \in 1..Len(added) /\ added[from + k] \in EntryType
           /\ added[from + k].entry = w[k] /\ added[from + k].datatype = t
  BY SegmentValuesAre
<1>2. Sorted(w)
  BY SegmentSorted
<1>3. DOMAIN added = 1..Len(added)
  BY ReadyIs
<1>4. \A m \in 1..Len(added) : /\ m <= from => added[m].datatype < t
                               /\ m > to => t < added[m].datatype
                               /\ added[m].datatype \in Nat /\ t \in Nat
  <2>. SUFFICES ASSUME NEW m \in 1..Len(added)
                PROVE  /\ m <= from => added[m].datatype < t
                       /\ m > to => t < added[m].datatype
                       /\ added[m].datatype \in Nat /\ t \in Nat
    OBVIOUS
  <2>. QED  BY AroundSegment
<1>. HIDE DEF from, to, t, w
<1>5. ASSUME NEW k \in 1..Len(w)
      PROVE  /\ w[k] # s /\ w[k] \in Bytes
             /\ Below(w[k], s) <=> k <= c
  <2>0. Len(w) \in Nat /\ \A j \in 1..Len(w) : w[j] \in Bytes
    BY <1>1
  <2>1. w[k] \in Bytes
    BY <2>0
  <2>2. CASE k <= c
    <3>1. c \in 1..Len(w) /\ c # 0 /\ (k = c \/ k < c)
      BY <2>0, <2>2 DEF w
    <3>2. AtMost(w[k], w[c]) /\ w[c] \in Bytes /\ Below(w[c], s)
      <4>1. k < c => AtMost(w[k], w[c])
        BY <1>2, <3>1 DEF Sorted
      <4>2. Below(w[c], s)
        BY <3>1 DEF w
      <4>. QED  BY <2>0, <3>1, <4>1, <4>2 DEF AtMost
    <3>3. Below(w[k], s)
      BY <2>1, <3>2, AtMostTrans
    <3>4. w[k] # s
      BY <2>1, <3>3, OrderTotal
    <3>. QED  BY <2>1, <2>2, <3>3, <3>4
  <2>3. CASE ~(k <= c)
    <3>. DEFINE n == c + 1
    <3>1. c < Len(w) /\ n \in 1..Len(w) /\ (k = n \/ n < k)
      BY <2>0, <2>3 DEF w
    <3>2. Below(s, w[n])
      BY <3>1 DEF w
    <3>. HIDE DEF n
    <3>3. AtMost(w[n], w[k]) /\ w[n] \in Bytes
      <4>1. n < k => AtMost(w[n], w[k])
        BY <1>2, <3>1 DEF Sorted
      <4>. QED  BY <2>0, <3>1, <4>1 DEF AtMost
    <3>4. Below(s, w[k])
      BY <2>1, <3>2, <3>3, AtMostTrans
    <3>5. w[k] # s /\ ~Below(w[k], s)
      BY <2>1, <3>4, OrderTotal
    <3>. QED  BY <2>1, <2>3, <3>5
  <2>. QED  BY <2>2, <2>3
<1>6. ASSUME NEW m \in 1..Len(added)
      PROVE  /\ added[m] # Typed(t, s)
             /\ (\/ added[m].datatype < t
                 \/ added[m].datatype = t /\ Ordering(added[m].entry, s) = "Less")
                  <=> m <= from + c
  <2>1. c \in 0..(to - from)
    BY <1>1 DEF w
  <2>2. CASE m <= from
    <3>1. added[m].datatype < t /\ m <= from + c /\ added[m].datatype # t
      BY <1>1, <1>4, <2>1, <2>2
    <3>. QED  BY <3>1 DEF Typed
  <2>3. CASE m > to
    <3>1. t < added[m].datatype /\ ~(m <= from + c)
      BY <1>1, <1>4, <2>1, <2>3
    <3>2. ~(added[m].datatype < t) /\ added[m].datatype # t
      BY <1>4, <3>1
    <3>. QED  BY <3>1, <3>2 DEF Typed
  <2>4. CASE ~(m <= from) /\ ~(m > to)
    <3>. DEFINE k == m - from
    <3>1. k \in 1..(to - from) /\ from + k = m /\ (k <= c <=> m <= from + c)
      BY <1>1, <2>1, <2>4
    <3>. HIDE DEF k
    <3>2. added[m].entry = w[k] /\ added[m].datatype = t
      BY <1>1, <3>1
    <3>3. w[k] # s /\ (Below(w[k], s) <=> k <= c)
      BY <1>1, <1>5, <3>1
    <3>4. ~(added[m].datatype < t)
      BY <1>4, <3>2
    <3>. QED  BY <3>1, <3>2, <3>3, <3>4 DEF Typed, Below
  <2>. QED  BY <2>2, <2>3, <2>4
<1>7. Matching(t, s) = {}
  BY <1>3, <1>6 DEF Matching
<1>8. Smaller(t, s) = 1..(from + c)
  <2>1. \A m \in 1..(from + c) : m \in 1..Len(added)
    <3>1. from + c <= Len(added) /\ from + c \in Nat
      BY <1>1 DEF w
    <3>. QED  BY <1>1, <3>1
  <2>2. \A m \in 1..Len(added) : m <= from + c => m \in 1..(from + c)
    <3>1. from + c \in Nat
      BY <1>1 DEF w
    <3>. QED  BY <1>1, <3>1
  <2>3. \A m \in 1..(from + c) : m <= from + c
    OBVIOUS
  <2>. QED  BY <1>3, <1>6, <2>1, <2>2, <2>3 DEF Smaller
<1>. QED  BY <1>7, <1>8 DEF t, from

\* Looking up finds the entry, or the one before it.
LEMMA LookupIs ==
  ASSUME Ready, InOrder, NEW t \in Types, NEW s \in Bytes
  PROVE  IsLookup(t, s, IdSlice(t, s))
<1>. DEFINE result == IdSlice(t, s)
            met == \E m \in DOMAIN added : added[m].datatype = t
<1>1. /\ TypeCount \in Nat /\ typesPresent \in Seq(Types) /\ TypeCount = Len(typesPresent)
      /\ added \in Seq(EntryType) /\ Len(added) \in Nat /\ DOMAIN added = 1..Len(added)
      /\ DOMAIN typesPresent = 1..TypeCount
  BY ReadyIs
<1>2. /\ ToSet(typesPresent) = {typesPresent[n] : n \in 1..TypeCount}
  BY <1>1 DEF ToSet
<1>3. IsLookup(t, s, result) <=>
        CASE ~met -> result = NotFound
          [] Matching(t, s) # {} -> result.kind = "Found" /\ result.id \in Matching(t, s)
          [] OTHER -> result = IF Smaller(t, s) = {} THEN NotFound
                               ELSE Closest(Max(Smaller(t, s)))
  BY DEF IsLookup, Matching, Smaller
<1>4. CASE t \notin ToSet(typesPresent)
  <2>1. result = NotFound
    BY <1>4 DEF IdSlice
  <2>2. ~met
    <3>. SUFFICES ASSUME NEW m \in 1..Len(added), added[m].datatype = t PROVE FALSE
      BY <1>1
    <3>. DEFINE x == TypeIndexForId(m)
                f == EntriesTo(BlocksTo(x))
                k == m - f
    <3>1. x \in 0..(TypeCount - 1) /\ f < m /\ m <= EntriesTo(BlocksTo(x + 1))
      BY TypeIndexIs
    <3>. HIDE DEF x
    <3>2. /\ f \in Nat /\ EntriesTo(BlocksTo(x + 1)) \in 0..Len(added)
          /\ \A j \in 1..(EntriesTo(BlocksTo(x + 1)) - f) :
               added[f + j].datatype = typesPresent[x + 1]
      BY <3>1, SegmentValuesAre
    <3>. HIDE DEF f
    <3>3. k \in 1..(EntriesTo(BlocksTo(x + 1)) - f) /\ f + k = m
      BY <1>1, <3>1, <3>2
    <3>. HIDE DEF k
    <3>4. t = typesPresent[x + 1] /\ x + 1 \in 1..TypeCount
      <4>1. x + 1 \in 1..TypeCount
        BY <1>1, <3>1
      <4>2. added[f + k].datatype = typesPresent[x + 1]
        BY <3>2, <3>3
      <4>. QED  BY <3>3, <4>1, <4>2
    <3>. QED  BY <1>2, <1>4, <3>4
  <2>3. Matching(t, s) = {}
    BY <2>2 DEF Matching, Typed
  <2>. HIDE DEF result, met
  <2>4. IsLookup(t, s, result)
    BY <1>3, <2>1, <2>2, <2>3
  <2>. QED  BY <2>4 DEF result
<1>5. CASE t \in ToSet(typesPresent)
  <2>. DEFINE n == CHOOSE m \in DOMAIN typesPresent : typesPresent[m] = t
              i == n - 1
              from == EntriesTo(BlocksTo(i))
              to == EntriesTo(BlocksTo(i + 1))
              w == SegmentValues(i)
              r == IdIn(Segment(i), s)
  <2>1. n \in 1..TypeCount /\ typesPresent[n] = t
    <3>1. \E m \in DOMAIN typesPresent : typesPresent[m] = t
      BY <1>1, <1>2, <1>5
    <3>. QED  BY <1>1, <3>1
  <2>2. result = LET offset == SegmentIdOffset(i)
                     x == OffsetBy(r, offset)
                 IN  IF offset # 0 THEN DefaultTo(x, offset) ELSE x
    <3>. HIDE DEF n
    <3>1. t \in ToSet(typesPresent)
      BY <1>5
    <3>. QED  BY <3>1 DEF IdSlice, n
  <2>. HIDE DEF n
  <2>3. i \in 0..(TypeCount - 1) /\ i + 1 = n
    BY <1>1, <2>1
  <2>. HIDE DEF i
  <2>4. typesPresent[i + 1] = t
    BY <2>1, <2>3
  <2>5. SegmentIdOffset(i) = from
    BY <2>3, IdOffsetIs
  <2>6. /\ from \in Nat /\ to \in 0..Len(added) /\ from < to
        /\ w \in Seq(Bytes) /\ Len(w) = to - from
        /\ \A k \in 1..(to - from) :
             /\ from + k \in 1..Len(added) /\ added[from + k] \in EntryType
             /\ added[from + k].entry = w[k] /\ added[from + k].datatype = t
    <3>1. /\ EntriesTo(BlocksTo(i)) \in Nat /\ EntriesTo(BlocksTo(i + 1)) \in 0..Len(added)
          /\ EntriesTo(BlocksTo(i)) < EntriesTo(BlocksTo(i + 1))
          /\ SegmentValues(i) \in Seq(Bytes)
          /\ Len(SegmentValues(i)) = EntriesTo(BlocksTo(i + 1)) - EntriesTo(BlocksTo(i))
          /\ \A k \in 1..(EntriesTo(BlocksTo(i + 1)) - EntriesTo(BlocksTo(i))) :
               /\ EntriesTo(BlocksTo(i)) + k \in 1..Len(added)
               /\ added[EntriesTo(BlocksTo(i)) + k] \in EntryType
               /\ added[EntriesTo(BlocksTo(i)) + k].entry = SegmentValues(i)[k]
               /\ added[EntriesTo(BlocksTo(i)) + k].datatype = typesPresent[i + 1]
      BY <2>3, SegmentValuesAre
    <3>. QED  BY <2>4, <3>1
  <2>7. DictAnswers(w, s, r)
    <3>1. HasBlocks(Segment(i), w, RecordSize[typesPresent[i + 1]], SegmentBlocks(i),
                    BlocksTo(i + 1) - BlocksTo(i))
      BY <2>3, SegmentHasBlocks
    <3>2. Sorted(w)
      BY <2>3, SegmentSorted
    <3>. QED  BY <3>1, <3>2, IdInIs
  <2>8. ASSUME NEW c \in 0..Len(w), c # 0 => Below(w[c], s), c < Len(w) => Below(s, w[c + 1])
        PROVE  Matching(t, s) = {} /\ Smaller(t, s) = 1..(from + c)
    <3>1. /\ Matching(typesPresent[i + 1], s) = {}
          /\ Smaller(typesPresent[i + 1], s) = 1..(EntriesTo(BlocksTo(i)) + c)
      BY <2>3, <2>8, BetweenEntries
    <3>. QED  BY <2>4, <3>1
  <2>. HIDE DEF from, to, w, r, result
  <2>9. result = IF from # 0 THEN DefaultTo(OffsetBy(r, from), from) ELSE OffsetBy(r, from)
    BY <2>2, <2>5
  <2>10. met
    <3>1. 1 \in 1..(to - from)
      BY <1>1, <2>6
    <3>2. from + 1 \in 1..Len(added) /\ added[from + 1].datatype = t
      BY <2>6, <3>1
    <3>. QED  BY <1>1, <3>2
  <2>. HIDE DEF met
  <2>11. ASSUME NEW k \in 1..Len(w), r = Found(k), w[k] = s
         PROVE  IsLookup(t, s, result)
    <3>. DEFINE m == k + from
    <3>1. m = from + k /\ m \in 1..Len(added)
      BY <1>1, <2>6, <2>11
    <3>2. result = Found(m)
      <4>1. r = [kind |-> "Found", id |-> k] /\ r.kind = "Found" /\ r.id = k
        BY <2>11 DEF Found
      <4>2. OffsetBy(r, from) = [kind |-> "Found", id |-> k + from]
        BY <4>1 DEF OffsetBy
      <4>. QED  BY <2>9, <4>2 DEF DefaultTo, Found
    <3>. HIDE DEF m
    <3>3. added[m] = Typed(t, s)
      <4>1. added[m] \in EntryType /\ added[m].entry = s /\ added[m].datatype = t
        BY <2>6, <2>11, <3>1
      <4>. QED  BY <4>1 DEF EntryType, Typed
    <3>4. m \in Matching(t, s)
      BY <1>1, <3>1, <3>3 DEF Matching
    <3>5. result.kind = "Found" /\ result.id = m
      BY <3>2 DEF Found
    <3>. QED  BY <1>3, <2>10, <3>4, <3>5
  <2>12. ASSUME NEW k \in 1..Len(w), r = Closest(k), Below(w[k], s),
                k < Len(w) => Below(s, w[k + 1])
         PROVE  IsLookup(t, s, result)
    <3>. DEFINE m == k + from
    <3>1. m = from + k /\ m \in Nat /\ m # 0 /\ k \in 0..Len(w)
      BY <1>1, <2>6
    <3>2. result = Closest(m)
      <4>1. r = [kind |-> "Closest", id |-> k] /\ r.kind = "Closest" /\ r.id = k
        BY <2>12 DEF Closest
      <4>2. OffsetBy(r, from) = [kind |-> "Closest", id |-> k + from]
        BY <4>1 DEF OffsetBy
      <4>. QED  BY <2>9, <4>2 DEF DefaultTo, Closest
    <3>3. Matching(t, s) = {} /\ Smaller(t, s) = 1..(from + k)
      BY <2>8, <2>12, <3>1
    <3>. HIDE DEF m
    <3>4. Smaller(t, s) # {} /\ Max(Smaller(t, s)) = m
      <4>. DEFINE T == 1..m
      <4>1. T \in SUBSET Nat /\ m \in T /\ \A x \in T : x <= m
        BY <3>1
      <4>. HIDE DEF T
      <4>2. Max(T) \in T /\ \A x \in T : x <= Max(T)
        BY <3>1, <4>1, MaxIs
      <4>3. Max(T) <= m /\ m <= Max(T) /\ Max(T) \in Nat
        BY <4>1, <4>2
      <4>. DEFINE max == Max(T)
      <4>4. max <= m /\ m <= max /\ max \in Nat
        BY <4>3
      <4>. HIDE DEF max
      <4>5. max = m
        BY <3>1, <4>4
      <4>. QED  BY <3>1, <3>3, <4>1, <4>5 DEF T, max
    <3>. QED  BY <1>3, <2>10, <3>2, <3>3, <3>4
  <2>13. ASSUME r = NotFound, Below(s, w[1])
         PROVE  IsLookup(t, s, result)
    <3>. DEFINE zero == 0
    <3>1. zero \in 0..Len(w) /\ ~(zero # 0) /\ w[zero + 1] = w[1] /\ from + zero = from
      BY <1>1, <2>6
    <3>. HIDE DEF zero
    <3>2. Matching(t, s) = {} /\ Smaller(t, s) = 1..(from + zero)
      BY <2>8, <2>13, <3>1
    <3>3. OffsetBy(r, from) = NotFound
      BY <2>13 DEF OffsetBy, NotFound
    <3>4. result = IF from # 0 THEN Closest(from) ELSE NotFound
      BY <2>9, <3>3 DEF DefaultTo, NotFound
    <3>5. CASE from = 0
      <4>1. Smaller(t, s) = {}
        BY <3>1, <3>2, <3>5
      <4>. QED  BY <1>3, <2>10, <3>2, <3>4, <3>5, <4>1
    <3>6. CASE from # 0
      <4>. DEFINE T == 1..from
      <4>1. T \in SUBSET Nat /\ from \in T /\ \A x \in T : x <= from
        BY <2>6, <3>6
      <4>2. T = Smaller(t, s)
        BY <3>1, <3>2
      <4>. HIDE DEF T
      <4>3. Max(T) \in T /\ \A x \in T : x <= Max(T)
        BY <2>6, <4>1, MaxIs
      <4>4. Max(T) <= from /\ from <= Max(T) /\ Max(T) \in Nat /\ T # {}
        BY <4>1, <4>3
      <4>. DEFINE max == Max(T)
      <4>5. max <= from /\ from <= max /\ max \in Nat
        BY <4>4
      <4>. HIDE DEF max
      <4>6. max = from
        BY <2>6, <4>5
      <4>. QED  BY <1>3, <2>10, <3>2, <3>4, <3>6, <4>2, <4>4, <4>6 DEF max
    <3>. QED  BY <3>5, <3>6
  <2>14. IsLookup(t, s, result)
    BY <2>7, <2>11, <2>12, <2>13 DEF DictAnswers
  <2>. QED  BY <2>14 DEF result
<1>. QED  BY <1>4, <1>5

\* Looking a value up in a finished dictionary agrees with the order of the
\* entries, whatever was added in order (TypedDict::id_slice, SizedDict::id,
\* SizedDictBlock::id).
THEOREM LookupAlways == Spec => []LookupsFollowTheOrder
<1>1. Spec => [](Inv /\ InOrder)
  BY OrderAlways
<1>2. Inv /\ InOrder => LookupsFollowTheOrder
  <2>. SUFFICES ASSUME Inv, InOrder, phase = "finished", NEW t \in Types, NEW s \in Queries(t)
                PROVE  IsLookup(t, s, IdSlice(t, s))
    BY DEF LookupsFollowTheOrder
  <2>1. phase # "building"
    OBVIOUS
  <2>2. Ready
    BY <2>1, FinishedIsReady
  <2>3. s \in Bytes
    BY TypesAssumption DEF Bytes
  <2>. QED  BY <2>2, <2>3, LookupIs
<1>. QED  BY <1>1, <1>2, PTL
=============================================================================
