----------------------------- MODULE MergeProofs -----------------------------
(***************************************************************************)
(* Merging any dictionaries implements MergeSpec: what a reader finds has  *)
(* the entries of all sources in order, each as often as they have it.     *)
(*                                                                         *)
(* For any ropes the iterators give: ropes compare as their bytes do, with *)
(* one exception, a heap of heads gives all of them in order, and buffers  *)
(* show their bytes.                                                       *)
(*                                                                         *)
(* The recursive functions over ropes and buffers are shown to exist from  *)
(* a size that shrinks with each call, and what they give by descent.      *)
(***************************************************************************)
EXTENDS Merge, TypedDictProofs

-----------------------------------------------------------------------------
(* The order of ropes.                                                     *)

\* A rope: only its first slice and its last may be empty.
Shaped(x) == /\ x \in Seq(Bytes) /\ x # <<>>
             /\ \A k \in 2..(Len(x) - 1) : x[k] # <<>>

\* What SizedDictEntry::cmp may be at: of two entries without bytes, neither
\* goes on.
Comparable(x, y) ==
  /\ Shaped(x) /\ Shaped(y)
  /\ FlattenSeq(x) = <<>> /\ FlattenSeq(y) = <<>> => Len(x) = 1 /\ Len(y) = 1

ShownOrder(x, y) ==
  IF FlattenSeq(x) # FlattenSeq(y) THEN Ordering(FlattenSeq(x), FlattenSeq(y))
  ELSE IF (x[Len(x)] = <<>>) = (y[Len(y)] = <<>>) THEN "Equal"
  ELSE IF x[Len(x)] = <<>> THEN "Greater" ELSE "Less"

\* How far two parts are compared.
Common(x, y) == Min({Len(x), Len(y)})

Compares(f) ==
  f = [sides \in Parts \X Parts |->
         LET x == sides[1]
             y == sides[2]
             n == Common(Head(x), Head(y))
             order == Ordering(SubSeq(Head(x), 1, n), SubSeq(Head(y), 1, n))
             restX == LeftOf(x, n)
             restY == LeftOf(y, n)
         IN  IF order # "Equal" THEN order
             ELSE IF restX = <<>> \/ restY = <<>> THEN EndOrder(restX, restY)
             ELSE f[<<restX, restY>>]]

\* Concatenation of any three sequences is associative.
Regroups(D) == \A u, v, w \in Seq(D) : (u \o v) \o w = u \o (v \o w)

LEMMA Regroup ==
  ASSUME NEW D
  PROVE  Regroups(D)
<1>. SUFFICES ASSUME NEW u \in Seq(D), NEW v \in Seq(D), NEW w \in Seq(D)
              PROVE  (u \o v) \o w = u \o (v \o w)
  BY DEF Regroups
<1>. QED  BY SMTT(30), ConcatAssociative

\* The first slice of a rope and the others.
LEMMA PartsAre ==
  ASSUME NEW x \in Parts
  PROVE  /\ x \in Seq(Bytes) /\ Len(x) \in Nat \ {0} /\ Head(x) \in Bytes
         /\ Len(Head(x)) \in Nat /\ Head(x) = x[1]
         /\ Tail(x) \in Seq(Bytes) /\ Len(Tail(x)) = Len(x) - 1
         /\ \A k \in 1..(Len(x) - 1) : Tail(x)[k] = x[k + 1]
         /\ Tail(x) # <<>> <=> Len(x) # 1
<1>1. x \in Seq(Seq(Nat)) /\ x # <<>>
  BY DEF Parts
<1>. DEFINE SliceSet == Seq(Nat)
<1>. HIDE DEF SliceSet
<1>2. x \in Seq(SliceSet) /\ x # <<>>
  BY <1>1 DEF SliceSet
<1>3. /\ Len(x) \in Nat \ {0} /\ Head(x) \in SliceSet /\ Head(x) = x[1]
      /\ Tail(x) \in Seq(SliceSet) /\ Len(Tail(x)) = Len(x) - 1
      /\ \A k \in 1..(Len(x) - 1) : Tail(x)[k] = x[k + 1]
  BY <1>2, HeadTailProperties, EmptySeq
<1>4. Tail(x) # <<>> <=> Len(x) # 1
  <2>. DEFINE l == Tail(x)
              Q == Seq(SliceSet)
              m == Len(l)
  <2>. HIDE DEF Q
  <2>1. l \in Q
    BY <1>3 DEF Q
  <2>. HIDE DEF l
  <2>2. m = 0 <=> l = <<>>
    BY <2>1, EmptySeq DEF Q
  <2>3. m = Len(x) - 1 /\ Len(x) \in Nat \ {0}
    BY <1>3 DEF l
  <2>. HIDE DEF m
  <2>4. m = 0 <=> Len(x) = 1
    BY <2>3
  <2>. QED  BY <2>2, <2>4 DEF l
<1>5. Len(Head(x)) \in Nat
  BY <1>3 DEF SliceSet
<1>. QED  BY <1>2, <1>3, <1>4, <1>5 DEF SliceSet, Bytes

\* The shorter of two parts.
LEMMA CommonIs ==
  ASSUME NEW x \in Bytes, NEW y \in Bytes
  PROVE  /\ Common(x, y) \in 0..Len(x) /\ Common(x, y) \in 0..Len(y)
         /\ Common(x, y) = Len(x) \/ Common(x, y) = Len(y)
<1>. DEFINE T == {Len(x), Len(y)}
<1>1. Len(x) \in Nat /\ Len(y) \in Nat
  BY DEF Bytes
<1>2. T \in SUBSET Nat /\ Len(x) \in T /\ Len(y) \in T
  BY <1>1
<1>3. (\A t \in T : t = Len(x) \/ t = Len(y)) /\ Common(x, y) = Min(T)
  BY DEF Common
<1>. HIDE DEF T
<1>4. Min(T) \in T /\ \A t \in T : Min(T) <= t
  BY <1>2, MinIs
<1>. DEFINE n == Min(T)
<1>5. n \in Nat /\ (n = Len(x) \/ n = Len(y)) /\ n <= Len(x) /\ n <= Len(y)
  BY <1>2, <1>3, <1>4
<1>6. Common(x, y) = n
  BY <1>3
<1>. HIDE DEF n
<1>. QED  BY <1>1, <1>5, <1>6

\* What is left of a rope after n bytes of its first slice.
LEMMA LeftIs ==
  ASSUME NEW x \in Parts, NEW n \in 0..Len(Head(x))
  PROVE  /\ LeftOf(x, n) \in Seq(Bytes) /\ Len(LeftOf(x, n)) <= Len(x)
         /\ n = Len(Head(x)) => LeftOf(x, n) = Tail(x) /\ Len(LeftOf(x, n)) = Len(x) - 1
         /\ n # Len(Head(x)) =>
              /\ Len(LeftOf(x, n)) = Len(x) /\ LeftOf(x, n)[1] = After(Head(x), n)
              /\ \A k \in 2..Len(x) : LeftOf(x, n)[k] = x[k]
         /\ LeftOf(x, n) # <<>> => LeftOf(x, n) \in Parts
<1>1. /\ x \in Seq(Bytes) /\ Len(x) \in Nat \ {0} /\ Head(x) \in Bytes
      /\ Len(Head(x)) \in Nat
      /\ Tail(x) \in Seq(Bytes) /\ Len(Tail(x)) = Len(x) - 1
      /\ \A k \in 1..(Len(x) - 1) : Tail(x)[k] = x[k + 1]
  BY PartsAre
<1>. DEFINE h == Head(x)
            s == Tail(x)
            a == After(h, n)
            l == LeftOf(x, n)
<1>2. l = IF Len(h) = n THEN s ELSE <<a>> \o s
  BY DEF LeftOf
<1>3. a \in Bytes
  <2>1. n \in 0..Len(h) /\ h \in Seq(Nat)
    BY <1>1 DEF Bytes
  <2>. HIDE DEF h
  <2>. QED  BY <2>1, AfterIs DEF Bytes
<1>. HIDE DEF a, l, s
<1>4. /\ <<a>> \o s \in Seq(Bytes) /\ Len(<<a>> \o s) = Len(x)
      /\ (<<a>> \o s)[1] = a /\ \A k \in 2..Len(x) : (<<a>> \o s)[k] = x[k]
  <2>1. s \in Seq(Bytes) /\ Len(s) = Len(x) - 1 /\ \A k \in 1..(Len(x) - 1) : s[k] = x[k + 1]
    BY <1>1 DEF s
  <2>2. <<a>> \in Seq(Bytes) /\ Len(<<a>>) = 1 /\ <<a>>[1] = a
    BY <1>3
  <2>. DEFINE o == <<a>>
  <2>. HIDE DEF o
  <2>3. /\ o \o s \in Seq(Bytes) /\ Len(o \o s) = Len(o) + Len(s)
        /\ \A k \in 1..(Len(o) + Len(s)) : (o \o s)[k] = IF k <= Len(o) THEN o[k] ELSE s[k - Len(o)]
    BY <2>1, <2>2, ConcatProperties DEF o
  <2>4. o \in Seq(Bytes) /\ Len(o) = 1 /\ o[1] = a
    BY <2>2 DEF o
  <2>5. Len(o \o s) = Len(x) /\ (o \o s)[1] = a
    BY <1>1, <2>1, <2>3, <2>4
  <2>6. ASSUME NEW k \in 2..Len(x) PROVE (o \o s)[k] = x[k]
    <3>1. k \in 1..(Len(o) + Len(s)) /\ ~(k <= Len(o)) /\ k - Len(o) = k - 1
          /\ k - 1 \in 1..(Len(x) - 1) /\ (k - 1) + 1 = k
      BY <1>1, <2>1, <2>4
    <3>2. (o \o s)[k] = s[k - 1] /\ s[k - 1] = x[(k - 1) + 1]
      BY <2>1, <2>3, <3>1
    <3>. QED  BY <3>1, <3>2
  <2>. QED  BY <2>3, <2>5, <2>6 DEF o
<1>5. l \in Seq(Bytes)
  BY <1>1, <1>2, <1>4 DEF s
<1>6. l # <<>> => l \in Parts
  BY <1>5 DEF Parts, Bytes
<1>7. n = Len(h) => l = s /\ Len(l) = Len(x) - 1 /\ Len(l) <= Len(x)
  <2>1. n = Len(h) => l = s
    BY <1>2
  <2>2. Len(s) = Len(x) - 1 /\ Len(x) \in Nat
    BY <1>1 DEF s
  <2>. HIDE DEF h
  <2>. QED  BY <2>1, <2>2
<1>8. n # Len(h) => /\ Len(l) = Len(x) /\ l[1] = a /\ Len(l) <= Len(x)
                    /\ \A k \in 2..Len(x) : l[k] = x[k]
  <2>1. n # Len(h) => l = <<a>> \o s
    BY <1>2
  <2>2. Len(x) \in Nat
    BY <1>1
  <2>. HIDE DEF h
  <2>. QED  BY <1>4, <2>1, <2>2
<1>9. /\ l \in Seq(Bytes) /\ Len(l) <= Len(x)
      /\ n = Len(h) => l = s /\ Len(l) = Len(x) - 1
      /\ n # Len(h) => /\ Len(l) = Len(x) /\ l[1] = a
                       /\ \A k \in 2..Len(x) : l[k] = x[k]
      /\ l # <<>> => l \in Parts
  BY <1>5, <1>6, <1>7, <1>8
<1>. QED  BY <1>9 DEF l, a, s

\* Each step of a comparison leaves fewer parts.
LEMMA CompareShrinks ==
  ASSUME NEW x \in Parts, NEW y \in Parts
  PROVE  LET n == Common(Head(x), Head(y))
         IN  /\ n \in 0..Len(Head(x)) /\ n \in 0..Len(Head(y))
             /\ Len(LeftOf(x, n)) \in Nat /\ Len(LeftOf(y, n)) \in Nat
             /\ Len(LeftOf(x, n)) + Len(LeftOf(y, n)) < Len(x) + Len(y)
             /\ LeftOf(x, n) # <<>> => LeftOf(x, n) \in Parts
             /\ LeftOf(y, n) # <<>> => LeftOf(y, n) \in Parts
<1>. DEFINE n == Common(Head(x), Head(y))
<1>1. n \in 0..Len(Head(x)) /\ n \in 0..Len(Head(y)) /\ (n = Len(Head(x)) \/ n = Len(Head(y)))
  BY PartsAre, CommonIs
<1>. HIDE DEF n
<1>2. /\ LeftOf(x, n) \in Seq(Bytes) /\ Len(LeftOf(x, n)) <= Len(x)
      /\ n = Len(Head(x)) => Len(LeftOf(x, n)) = Len(x) - 1
      /\ LeftOf(x, n) # <<>> => LeftOf(x, n) \in Parts
  BY <1>1, LeftIs
<1>3. /\ LeftOf(y, n) \in Seq(Bytes) /\ Len(LeftOf(y, n)) <= Len(y)
      /\ n = Len(Head(y)) => Len(LeftOf(y, n)) = Len(y) - 1
      /\ LeftOf(y, n) # <<>> => LeftOf(y, n) \in Parts
  BY <1>1, LeftIs
<1>4. /\ Len(x) \in Nat /\ Len(y) \in Nat
      /\ Len(LeftOf(x, n)) \in Nat /\ Len(LeftOf(y, n)) \in Nat
  BY <1>2, <1>3, PartsAre
<1>. QED  BY <1>1, <1>2, <1>3, <1>4 DEF n

\* The comparison by parts is well defined.
LEMMA ComparesExists == Compares(CompareParts)
<1>. DEFINE G == Parts \X Parts
            N(r) == Common(Head(r[1]), Head(r[2]))
            Order(r) == Ordering(SubSeq(Head(r[1]), 1, N(r)), SubSeq(Head(r[2]), 1, N(r)))
            Left(r) == LeftOf(r[1], N(r))
            Right(r) == LeftOf(r[2], N(r))
            apart == {r \in G : Order(r) # "Equal"}
            ends == {r \in G : Left(r) = <<>> \/ Right(r) = <<>>}
            stop == apart \union ends
            next == [r \in G |-> IF r \in stop THEN r ELSE <<Left(r), Right(r)>>]
            val == [r \in G |-> IF r \in apart THEN Order(r) ELSE EndOrder(Left(r), Right(r))]
            size == [r \in G |-> Len(r[1]) + Len(r[2])]
            R == {val[r] : r \in G}
<1>1. size \in [G -> Nat]
  <2>1. \A r \in G : Len(r[1]) \in Nat /\ Len(r[2]) \in Nat
    BY PartsAre
  <2>2. \A r \in G : size[r] \in Nat
    BY <2>1
  <2>. HIDE DEF G
  <2>. QED  BY <2>2
<1>2. ASSUME NEW r \in G, r \notin stop PROVE next[r] \in G /\ size[next[r]] < size[r]
  <2>1. /\ Len(Left(r)) \in Nat /\ Len(Right(r)) \in Nat
        /\ Len(Left(r)) + Len(Right(r)) < Len(r[1]) + Len(r[2])
        /\ Left(r) # <<>> => Left(r) \in Parts
        /\ Right(r) # <<>> => Right(r) \in Parts
    <3>1. r[1] \in Parts /\ r[2] \in Parts
      OBVIOUS
    <3>. QED  BY <3>1, CompareShrinks
  <2>2. next[r] = <<Left(r), Right(r)>>
    <3>. HIDE DEF stop, Left, Right
    <3>. QED  BY <1>2
  <2>3. Left(r) # <<>> /\ Right(r) # <<>>
    <3>1. r \notin ends
      BY <1>2
    <3>. HIDE DEF Left, Right, G
    <3>. QED  BY <3>1
  <2>. HIDE DEF next, Left, Right
  <2>4. next[r] \in G
    BY <2>1, <2>2, <2>3
  <2>5. size[next[r]] = Len(Left(r)) + Len(Right(r)) /\ size[r] = Len(r[1]) + Len(r[2])
    BY <2>2, <2>4
  <2>. QED  BY <2>1, <2>4, <2>5
<1>3. next \in [G -> G]
  <2>1. \A r \in G : r \in stop => next[r] \in G
    <3>. HIDE DEF stop, G, Left, Right
    <3>. QED  OBVIOUS
  <2>. HIDE DEF stop
  <2>2. \A r \in G : next[r] \in G
    BY <1>2, <2>1
  <2>3. next = [r \in G |-> next[r]]
    <3>. HIDE DEF G, Left, Right
    <3>. QED  OBVIOUS
  <2>. HIDE DEF next, G
  <2>. QED  BY <2>2, <2>3
<1>4. val \in [G -> R]
  <2>. HIDE DEF G, Order, Left, Right, apart
  <2>. QED  OBVIOUS
<1>5. PICK g : IsDescent(g, G, stop, val, next)
  <2>. HIDE DEF G, stop, val, next, size, R
  <2>. QED  BY <1>1, <1>2, <1>3, <1>4, TailRecursion
<1>6. g = [r \in G |-> IF r \in stop THEN val[r] ELSE g[next[r]]]
  <2>. HIDE DEF G, stop, val, next
  <2>. QED  BY <1>5 DEF IsDescent
<1>7. ASSUME NEW r \in G
      PROVE  g[r] = IF Order(r) # "Equal" THEN Order(r)
                    ELSE IF Left(r) = <<>> \/ Right(r) = <<>> THEN EndOrder(Left(r), Right(r))
                    ELSE g[<<Left(r), Right(r)>>]
  <2>1. g[r] = IF r \in stop THEN val[r] ELSE g[next[r]]
    <3>. HIDE DEF stop, val, next, G
    <3>. QED  BY <1>6
  <2>2. /\ r \in apart <=> Order(r) # "Equal"
        /\ r \in ends <=> Left(r) = <<>> \/ Right(r) = <<>>
        /\ r \in stop <=> r \in apart \/ r \in ends
    <3>. HIDE DEF G, Order, Left, Right
    <3>. QED  OBVIOUS
  <2>3. /\ val[r] = IF r \in apart THEN Order(r) ELSE EndOrder(Left(r), Right(r))
        /\ r \notin stop => next[r] = <<Left(r), Right(r)>>
    <3>. HIDE DEF G, Order, Left, Right, apart, stop
    <3>. QED  OBVIOUS
  <2>. HIDE DEF apart, ends, stop, val, next, Order, Left, Right, G
  <2>. QED  BY <2>1, <2>2, <2>3
<1>8. Compares(g)
  <2>1. g = [r \in G |-> g[r]]
    <3>. HIDE DEF G, stop, val, next
    <3>. QED  BY <1>6
  <2>2. g = [r \in G |-> IF Order(r) # "Equal" THEN Order(r)
                         ELSE IF Left(r) = <<>> \/ Right(r) = <<>>
                              THEN EndOrder(Left(r), Right(r))
                         ELSE g[<<Left(r), Right(r)>>]]
    <3>. HIDE DEF G, Order, Left, Right
    <3>. QED  BY <1>7, <2>1
  <2>. QED  BY <2>2 DEF Compares
<1>. DEFINE f == CHOOSE t : Compares(t)
<1>9. Compares(f)
  BY <1>8
<1>10. CompareParts = f
  BY DEF CompareParts, Compares, Common
<1>. QED  BY <1>9, <1>10

\* Appending behind what is put behind something.
LEMMA ConcatAppend ==
  ASSUME NEW D, NEW p \in Seq(D), NEW s \in Seq(D), NEW x \in D
  PROVE  p \o Append(s, x) = Append(p \o s, x) /\ p \o s \in Seq(D)
<1>. DEFINE o == <<x>>
            u == p \o s
<1>1. o \in Seq(D) /\ u \in Seq(D)
  BY ConcatProperties
<1>2. (p \o s) \o o = p \o (s \o o)
  <2>. HIDE DEF o
  <2>. QED  BY <1>1, ConcatAssociative
<1>. HIDE DEF u
<1>3. Append(s, x) = s \o o /\ Append(u, x) = u \o o
  BY <1>1, AppendIsConcat
<1>. QED  BY <1>1, <1>2, <1>3 DEF u

\* Flattening one sequence after another.
LEMMA FlattenConcat ==
  ASSUME NEW D, NEW p \in Seq(Seq(D)), NEW q \in Seq(Seq(D))
  PROVE  FlattenSeq(p \o q) = FlattenSeq(p) \o FlattenSeq(q)
<1>. DEFINE E == Seq(D)
            r(k) == SubSeq(q, 1, k)
            P == {k \in 0..Len(q) : FlattenSeq(p \o r(k)) = FlattenSeq(p) \o FlattenSeq(r(k))}
<1>1. Len(q) \in Nat /\ FlattenSeq(p) \in Seq(D) /\ p \in Seq(E) /\ q \in Seq(E)
  BY FlattenType
<1>2. 0 \in P
  <2>1. r(0) = <<>>
    BY <1>1
  <2>2. p \o <<>> = p
    BY ConcatEmptySeq
  <2>3. FlattenSeq(p) \o <<>> = FlattenSeq(p)
    <3>. DEFINE w == FlattenSeq(p)
    <3>1. w \in Seq(D)
      BY <1>1
    <3>. HIDE DEF w
    <3>2. w \o <<>> = w
      BY <3>1, ConcatEmptySeq
    <3>. QED  BY <3>2 DEF w
  <2>4. 0 \in 0..Len(q)
    BY <1>1
  <2>. HIDE DEF r
  <2>5. FlattenSeq(p \o r(0)) = FlattenSeq(p) \o FlattenSeq(r(0))
    BY <2>1, <2>2, <2>3, FlattenEmpty
  <2>. QED  BY <2>4, <2>5
<1>3. ASSUME NEW k \in 1..Len(q), k - 1 \in P PROVE k \in P
  <2>. DEFINE s == r(k - 1)
              x == q[k]
  <2>1. k - 1 \in 0..Len(q) /\ k \in 0..Len(q) /\ x \in E
    BY <1>1
  <2>2. s \in Seq(E) /\ r(k) \in Seq(E)
    BY <1>1, <2>1, FirstIs
  <2>3. r(k) = Append(s, x)
    <3>1. /\ Len(r(k)) = k /\ \A i \in 1..k : r(k)[i] = q[i]
          /\ Len(s) = k - 1 /\ \A i \in 1..(k - 1) : s[i] = q[i]
      BY <1>1, <2>1, FirstIs
    <3>. DEFINE u == r(k)
    <3>. HIDE DEF s, x, r
    <3>2. Append(s, x) \in Seq(E) /\ Len(Append(s, x)) = k /\ Append(s, x)[k] = x
          /\ \A i \in 1..(k - 1) : Append(s, x)[i] = s[i]
      BY <1>1, <2>1, <2>2, <3>1, AppendProperties
    <3>3. \A i \in 1..k : u[i] = Append(s, x)[i]
      <4>. SUFFICES ASSUME NEW i \in 1..k PROVE u[i] = Append(s, x)[i]
        OBVIOUS
      <4>1. i = k \/ i \in 1..(k - 1)
        BY <1>1
      <4>. QED  BY <3>1, <3>2, <4>1 DEF x
    <3>. QED  BY <2>2, <3>1, <3>2, <3>3, SeqEqual
  <2>4. FlattenSeq(p \o s) = FlattenSeq(p) \o FlattenSeq(s)
    <3>. HIDE DEF r
    <3>1. FlattenSeq(p \o r(k - 1)) = FlattenSeq(p) \o FlattenSeq(r(k - 1))
      BY <1>3
    <3>. QED  BY <3>1
  <2>. HIDE DEF r, s, x
  <2>5. p \o Append(s, x) = Append(p \o s, x) /\ p \o s \in Seq(E)
    <3>. HIDE DEF E
    <3>. QED  BY <1>1, <2>1, <2>2, ConcatAppend
  <2>6. FlattenSeq(Append(p \o s, x)) = FlattenSeq(p \o s) \o x
    BY <2>1, <2>5, FlattenAppend
  <2>7. FlattenSeq(Append(s, x)) = FlattenSeq(s) \o x /\ FlattenSeq(s) \in Seq(D)
    BY <2>1, <2>2, FlattenAppend, FlattenType
  <2>8. (FlattenSeq(p) \o FlattenSeq(s)) \o x = FlattenSeq(p) \o (FlattenSeq(s) \o x)
    <3>. DEFINE u == FlattenSeq(p)
                v == FlattenSeq(s)
    <3>1. u \in Seq(D) /\ v \in Seq(D) /\ x \in Seq(D)
      BY <1>1, <2>1, <2>7
    <3>2. Regroups(D)
      BY Regroup
    <3>. HIDE DEF u, v
    <3>3. (u \o v) \o x = u \o (v \o x)
      BY <3>1, <3>2, Zenon DEF Regroups
    <3>. QED  BY <3>3 DEF u, v
  <2>9. FlattenSeq(p \o r(k)) = FlattenSeq(p) \o FlattenSeq(r(k))
    BY <2>3, <2>4, <2>5, <2>6, <2>7, <2>8
  <2>. QED  BY <2>1, <2>9
<1>4. r(Len(q)) = q
  BY <1>1
<1>5. Len(q) \in 0..Len(q)
  BY <1>1
<1>. HIDE DEF P, r
<1>6. \A k \in 0..Len(q) : k \in P
  BY <1>1, <1>2, <1>3, InductUpTo
<1>. QED  BY <1>4, <1>5, <1>6 DEF P

\* The bytes of a rope, those of the first slice first.
LEMMA FlattenHead ==
  ASSUME NEW D, NEW x \in Seq(Seq(D)), x # <<>>
  PROVE  FlattenSeq(x) = Head(x) \o FlattenSeq(Tail(x))
<1>. DEFINE E == Seq(D)
            o == <<Head(x)>>
<1>1. x \in Seq(E) /\ Head(x) \in E /\ Tail(x) \in Seq(E) /\ o \in Seq(E)
  BY HeadTailProperties
<1>2. x = o \o Tail(x)
  <2>. HIDE DEF E
  <2>. QED  BY <1>1
<1>3. FlattenSeq(o \o Tail(x)) = FlattenSeq(o) \o FlattenSeq(Tail(x))
  <2>. HIDE DEF o
  <2>. QED  BY <1>1, FlattenConcat
<1>4. FlattenSeq(o) = Head(x)
  BY <1>1, FlattenOne
<1>. HIDE DEF o
<1>. QED  BY <1>2, <1>3, <1>4

\* Byte strings that differ in their first n bytes are in the order of these.
LEMMA BeginsOrder ==
  ASSUME NEW a \in Bytes, NEW b \in Bytes, NEW n \in 0..Len(a), n \in 0..Len(b)
  PROVE  LET order == Ordering(SubSeq(a, 1, n), SubSeq(b, 1, n))
         IN  /\ order # "Equal" => Ordering(a, b) = order
             /\ order = "Equal" => \A i \in 1..n : a[i] = b[i]
<1>. DEFINE p == SubSeq(a, 1, n)
            q == SubSeq(b, 1, n)
            k == CommonPrefix(p, q)
<1>1. /\ Len(a) \in Nat /\ Len(b) \in Nat /\ n \in Nat /\ n <= Len(a) /\ n <= Len(b)
      /\ \A i \in 1..Len(a) : a[i] \in Nat
      /\ \A i \in 1..Len(b) : b[i] \in Nat
  BY DEF Bytes
<1>2. p \in Bytes /\ Len(p) = n /\ \A i \in 1..n : p[i] = a[i]
  BY FirstIs DEF Bytes
<1>3. q \in Bytes /\ Len(q) = n /\ \A i \in 1..n : q[i] = b[i]
  BY FirstIs DEF Bytes
<1>. HIDE DEF p, q
<1>4. SharesTo(p, q, k)
  BY <1>2, <1>3, CommonPrefixShares
<1>. HIDE DEF k
<1>5. /\ Ordering(p, q) \in {"Equal", "Less", "Greater"}
      /\ Ordering(p, q) = "Equal" <=> p = q
      /\ Below(p, q) <=> k < Len(q) /\ (Len(p) = k \/ p[k + 1] < q[k + 1])
  BY <1>2, <1>3, <1>4, OrderingIs
<1>6. Ordering(p, q) = "Equal" => \A i \in 1..n : a[i] = b[i]
  BY <1>2, <1>3, <1>5
<1>7. ASSUME Ordering(p, q) # "Equal" PROVE Ordering(a, b) = Ordering(p, q)
  <2>1. k \in Nat /\ k < n
    <3>1. k \in Nat /\ k <= n
      BY <1>1, <1>2, <1>4 DEF SharesTo
    <3>2. ~(~(k < Len(p)) /\ ~(k < Len(q)))
      BY <1>2, <1>3, <1>4, <1>5, <1>7, BytesEqual
    <3>. QED  BY <1>1, <1>2, <1>3, <3>1, <3>2
  <2>2. k + 1 \in 1..n /\ k < Len(a) /\ k < Len(b) /\ Len(a) # k /\ Len(p) # k
    BY <1>1, <1>2, <2>1
  <2>3. p[k + 1] = a[k + 1] /\ q[k + 1] = b[k + 1] /\ p[k + 1] # q[k + 1]
    BY <1>2, <1>3, <1>4, <2>1, <2>2 DEF SharesTo
  <2>4. \A i \in 1..k : a[i] = b[i]
    <3>1. \A i \in 1..k : i \in 1..n /\ p[i] = q[i]
      BY <1>1, <1>4, <2>1 DEF SharesTo
    <3>. QED  BY <1>2, <1>3, <3>1
  <2>5. SharesTo(a, b, k)
    BY <1>1, <2>1, <2>2, <2>3, <2>4 DEF SharesTo
  <2>6. /\ Ordering(a, b) \in {"Equal", "Less", "Greater"}
        /\ Ordering(a, b) = "Equal" <=> a = b
        /\ Below(a, b) <=> k < Len(b) /\ (Len(a) = k \/ a[k + 1] < b[k + 1])
    BY <2>5, OrderingIs
  <2>7. a # b
    BY <2>3
  <2>8. Below(a, b) <=> Below(p, q)
    BY <1>2, <1>3, <1>5, <2>1, <2>2, <2>3, <2>6
  <2>. QED  BY <1>5, <1>7, <2>6, <2>7, <2>8 DEF Below
<1>. QED  BY <1>6, <1>7 DEF p, q

\* What is left of a rope, as bytes, and that it is one.
LEMMA LeftShows ==
  ASSUME NEW x \in Parts, NEW n \in 0..Len(Head(x))
  PROVE  LET l == LeftOf(x, n)
             w == FlattenSeq(x)
         IN  /\ w \in Bytes /\ FlattenSeq(l) \in Bytes
             /\ n \in 0..Len(w) /\ SubSeq(w, 1, n) = SubSeq(Head(x), 1, n)
             /\ After(w, n) = FlattenSeq(l)
<1>. DEFINE l == LeftOf(x, n)
            w == FlattenSeq(x)
            h == Head(x)
            t == FlattenSeq(Tail(x))
            a == After(h, n)
<1>1. /\ x \in Seq(Seq(Nat)) /\ x # <<>> /\ h \in Seq(Nat) /\ Len(h) \in Nat
      /\ Tail(x) \in Seq(Seq(Nat))
  BY PartsAre DEF Parts, Bytes
<1>2. w = h \o t
  BY <1>1, FlattenHead
<1>3. t \in Seq(Nat)
  BY <1>1, FlattenType
<1>4. a \in Seq(Nat) /\ Len(a) = Len(h) - n /\ \A i \in 1..(Len(h) - n) : a[i] = h[n + i]
  BY <1>1, AfterIs
<1>5. FlattenSeq(l) = a \o t
  <2>1. CASE n = Len(h)
    <3>1. l = Tail(x)
      BY <2>1, LeftIs
    <3>2. a = <<>>
      BY <1>1, <1>4, <2>1, EmptySeq
    <3>3. <<>> \o t = t
      BY <1>3, ConcatEmptySeq
    <3>. QED  BY <3>1, <3>2, <3>3
  <2>2. CASE n # Len(h)
    <3>. DEFINE o == <<a>>
                q == Tail(x)
    <3>1. l = o \o q
      BY <2>2 DEF LeftOf
    <3>2. o \in Seq(Seq(Nat)) /\ FlattenSeq(o) = a
      BY <1>4, FlattenOne
    <3>. HIDE DEF o, l, a
    <3>3. FlattenSeq(o \o q) = FlattenSeq(o) \o FlattenSeq(q)
      BY <1>1, <3>2, FlattenConcat
    <3>. QED  BY <3>1, <3>2, <3>3
  <2>. QED  BY <2>1, <2>2
<1>. HIDE DEF l, w, h, t, a
<1>6. /\ w \in Seq(Nat) /\ Len(w) = Len(h) + Len(t) /\ Len(t) \in Nat
      /\ \A i \in 1..Len(h) : w[i] = h[i]
      /\ \A i \in 1..Len(t) : w[Len(h) + i] = t[i]
  <2>1. /\ h \o t \in Seq(Nat) /\ Len(h \o t) = Len(h) + Len(t)
        /\ \A i \in 1..(Len(h) + Len(t)) : (h \o t)[i] = IF i <= Len(h) THEN h[i] ELSE t[i - Len(h)]
    BY <1>1, <1>3, ConcatProperties
  <2>2. Len(t) \in Nat
    BY <1>3
  <2>3. ASSUME NEW i \in 1..Len(h) PROVE w[i] = h[i]
    BY <1>1, <1>2, <2>1, <2>2
  <2>4. ASSUME NEW i \in 1..Len(t) PROVE w[Len(h) + i] = t[i]
    <3>. DEFINE j == Len(h) + i
    <3>1. j \in 1..(Len(h) + Len(t)) /\ ~(j <= Len(h)) /\ j - Len(h) = i
      BY <1>1, <2>2
    <3>. HIDE DEF j
    <3>2. w[j] = t[i]
      BY <1>2, <2>1, <3>1
    <3>. QED  BY <3>2 DEF j
  <2>. QED  BY <1>2, <2>1, <2>2, <2>3, <2>4
<1>7. n \in 0..Len(w) /\ n \in 0..Len(h) /\ n \in Nat
  BY <1>1, <1>6 DEF h
<1>8. SubSeq(w, 1, n) = SubSeq(h, 1, n)
  <2>. DEFINE p == SubSeq(w, 1, n)
              q == SubSeq(h, 1, n)
  <2>1. p \in Seq(Nat) /\ Len(p) = n /\ \A i \in 1..n : p[i] = w[i]
    BY <1>6, <1>7, FirstIs
  <2>2. q \in Seq(Nat) /\ Len(q) = n /\ \A i \in 1..n : q[i] = h[i]
    BY <1>1, <1>7, FirstIs
  <2>. HIDE DEF p, q
  <2>3. \A i \in 1..n : p[i] = q[i]
    <3>1. \A i \in 1..n : i \in 1..Len(h)
      BY <1>1, <1>7
    <3>. QED  BY <1>6, <2>1, <2>2, <3>1
  <2>4. p = q
    BY <2>1, <2>2, <2>3, SeqEqual
  <2>. QED  BY <2>4 DEF p, q
<1>9. After(w, n) = a \o t
  <2>. DEFINE u == After(w, n)
  <2>1. u \in Seq(Nat) /\ Len(u) = Len(w) - n /\ \A i \in 1..(Len(w) - n) : u[i] = w[n + i]
    BY ZenonT(40), <1>6, <1>7, AfterIs
  <2>2. /\ a \o t \in Seq(Nat) /\ Len(a \o t) = Len(a) + Len(t)
        /\ \A i \in 1..(Len(a) + Len(t)) : (a \o t)[i] = IF i <= Len(a) THEN a[i] ELSE t[i - Len(a)]
    BY <1>3, <1>4, ConcatProperties
  <2>. HIDE DEF u
  <2>3. Len(u) = Len(a \o t) /\ Len(w) - n = Len(a) + Len(t)
    BY <1>1, <1>4, <1>6, <1>7, <2>1, <2>2
  <2>4. ASSUME NEW i \in 1..Len(u) PROVE u[i] = (a \o t)[i]
    <3>1. i \in 1..(Len(w) - n) /\ i \in 1..(Len(a) + Len(t)) /\ u[i] = w[n + i]
      BY <2>1, <2>3
    <3>2. CASE i <= Len(a)
      <4>. DEFINE j == n + i
      <4>1. i \in 1..(Len(h) - n) /\ j \in 1..Len(h)
        BY <1>1, <1>4, <1>7, <3>2
      <4>2. w[j] = h[j] /\ a[i] = h[j]
        BY <1>4, <1>6, <4>1
      <4>. QED  BY <2>2, <3>1, <3>2, <4>2
    <3>3. CASE ~(i <= Len(a))
      <4>. DEFINE j == i - Len(a)
      <4>1. j \in 1..Len(t) /\ Len(h) + j = n + i
        BY <1>1, <1>4, <1>6, <1>7, <3>1, <3>3
      <4>. HIDE DEF j
      <4>2. w[n + i] = t[j]
        BY <1>6, <4>1
      <4>3. (a \o t)[i] = t[j]
        BY <2>2, <3>1, <3>3 DEF j
      <4>. QED  BY <3>1, <4>2, <4>3
    <3>. QED  BY <3>2, <3>3
  <2>5. u = a \o t
    BY <2>1, <2>2, <2>3, <2>4, SeqEqual
  <2>. QED  BY <2>5 DEF u
<1>10. a \o t \in Seq(Nat)
  BY <1>3, <1>4, ConcatProperties
<1>. QED  BY <1>5, <1>6, <1>7, <1>8, <1>9, <1>10 DEF Bytes, w, l, h

\* What is left of a rope is one, which ends as the rope does.
LEMMA LeftShaped ==
  ASSUME NEW x, Shaped(x), NEW n \in 0..Len(Head(x))
  PROVE  LET l == LeftOf(x, n)
         IN  /\ x \in Parts
             /\ l # <<>> => /\ Shaped(l)
                            /\ (l[Len(l)] = <<>>) = (x[Len(x)] = <<>>)
                            /\ FlattenSeq(l) = <<>> => Len(l) = 1
             /\ l = <<>> => Len(x) = 1 /\ n = Len(Head(x)) /\ FlattenSeq(x) = Head(x)
<1>. DEFINE l == LeftOf(x, n)
            m == Len(x)
<1>1. x \in Parts /\ x \in Seq(Bytes) /\ \A k \in 2..(m - 1) : x[k] # <<>>
  BY DEF Shaped, Parts, Bytes
<1>2. /\ m \in Nat \ {0} /\ Head(x) \in Bytes /\ Len(Head(x)) \in Nat /\ Head(x) = x[1]
      /\ Tail(x) \in Seq(Bytes) /\ Len(Tail(x)) = m - 1
      /\ \A k \in 1..(m - 1) : Tail(x)[k] = x[k + 1]
      /\ Tail(x) # <<>> <=> m # 1
  BY <1>1, PartsAre
<1>3. /\ l \in Seq(Bytes) /\ Len(l) <= m
      /\ n = Len(Head(x)) => l = Tail(x) /\ Len(l) = m - 1
      /\ n # Len(Head(x)) => /\ Len(l) = m /\ l[1] = After(Head(x), n)
                             /\ \A k \in 2..m : l[k] = x[k]
  BY <1>1, LeftIs
<1>. HIDE DEF l
<1>4. ASSUME l = <<>> PROVE m = 1 /\ n = Len(Head(x)) /\ FlattenSeq(x) = Head(x)
  <2>1. Len(l) = 0
    BY <1>4
  <2>2. n = Len(Head(x)) /\ m = 1
    BY <1>2, <1>3, <2>1
  <2>3. x = <<Head(x)>>
    BY <1>1, <1>2, <2>2
  <2>4. FlattenSeq(<<Head(x)>>) = Head(x)
    BY <1>2, FlattenOne DEF Bytes
  <2>. QED  BY <2>2, <2>3, <2>4
\* Its first slice is not empty unless it is the last.
<1>5. l # <<>> => Len(l) \in Nat \ {0} /\ (Len(l) # 1 => l[1] # <<>>)
  <2>. SUFFICES ASSUME l # <<>> PROVE Len(l) \in Nat \ {0} /\ (Len(l) # 1 => l[1] # <<>>)
    OBVIOUS
  <2>1. Len(l) \in Nat \ {0}
    BY <1>3, EmptySeq
  <2>2. CASE n = Len(Head(x))
    <3>1. Len(l) # 1 => 1 \in 1..(m - 1) /\ 2 \in 2..(m - 1)
      BY <1>2, <1>3, <2>1, <2>2
    <3>2. Len(l) # 1 => l[1] = x[1 + 1]
      BY <1>2, <1>3, <2>2, <3>1
    <3>3. Len(l) # 1 => l[1] = x[2] /\ x[2] # <<>>
      BY <1>1, <3>1, <3>2
    <3>. QED  BY <2>1, <3>3
  <2>3. CASE n # Len(Head(x))
    <3>1. l[1] = After(Head(x), n) /\ Len(After(Head(x), n)) = Len(Head(x)) - n
      BY ZenonT(40), <1>2, <1>3, <2>3, AfterIs DEF Bytes
    <3>2. Len(Head(x)) - n # 0 /\ Len(<<>>) = 0
      BY <1>2, <2>3
    <3>. QED  BY <2>1, <3>1, <3>2
  <2>. QED  BY <2>2, <2>3
<1>. HIDE DEF m
<1>6. ASSUME l # <<>> PROVE Shaped(l)
  <2>0. Len(l) \in Nat \ {0}
    BY <1>5, <1>6
  <2>1. ASSUME NEW k \in 2..(Len(l) - 1) PROVE l[k] # <<>>
    <3>1. CASE n = Len(Head(x))
      <4>1. Len(l) = m - 1 /\ m \in Nat /\ l = Tail(x)
        BY <1>2, <1>3, <3>1
      <4>. DEFINE j == k + 1
      <4>2. k \in 1..(m - 1) /\ j \in 2..(m - 1)
        BY <2>0, <4>1
      <4>3. l[k] = x[j]
        BY <1>2, <4>1, <4>2
      <4>. HIDE DEF j
      <4>. QED  BY <1>1, <4>2, <4>3
    <3>2. CASE n # Len(Head(x))
      <4>1. k \in 2..m /\ k \in 2..(m - 1)
        BY <1>2, <1>3, <2>0, <3>2
      <4>. QED  BY <1>1, <1>3, <3>2, <4>1
    <3>. QED  BY <3>1, <3>2
  <2>. QED  BY <1>3, <1>6, <2>1 DEF Shaped
<1>7. ASSUME l # <<>> PROVE (l[Len(l)] = <<>>) = (x[m] = <<>>)
  <2>0. Len(l) \in Nat \ {0}
    BY <1>5, <1>7
  <2>1. CASE n = Len(Head(x))
    <3>1. Len(l) = m - 1 /\ m - 1 \in 1..(m - 1) /\ (m - 1) + 1 = m
      BY <1>2, <1>3, <2>0, <2>1
    <3>2. l[m - 1] = x[(m - 1) + 1]
      BY <1>2, <1>3, <2>1, <3>1
    <3>. QED  BY <3>1, <3>2
  <2>2. CASE n # Len(Head(x)) /\ m # 1
    <3>1. m \in 2..m /\ Len(l) = m
      BY <1>2, <1>3, <2>2
    <3>. QED  BY <1>3, <2>2, <3>1
  <2>3. CASE n # Len(Head(x)) /\ m = 1
    <3>1. l[1] = After(Head(x), n) /\ Len(After(Head(x), n)) = Len(Head(x)) - n
      BY ZenonT(40), <1>2, <1>3, <2>3, AfterIs DEF Bytes
    <3>2. Len(Head(x)) - n # 0 /\ Len(<<>>) = 0 /\ Len(Head(x)) # 0
      BY <1>2, <2>3
    <3>3. x[1] # <<>> /\ l[1] # <<>> /\ Len(l) = 1
      BY <1>2, <1>3, <2>3, <3>1, <3>2
    <3>. QED  BY <2>3, <3>3
  <2>. QED  BY <2>1, <2>2, <2>3
<1>8. ASSUME l # <<>>, FlattenSeq(l) = <<>> PROVE Len(l) = 1
  <2>1. l \in Seq(Seq(Nat)) /\ Head(l) = l[1]
    BY <1>3 DEF Bytes
  <2>2. FlattenSeq(l) = Head(l) \o FlattenSeq(Tail(l))
    BY <1>8, <2>1, FlattenHead
  <2>3. Head(l) \in Seq(Nat) /\ FlattenSeq(Tail(l)) \in Seq(Nat)
    <3>1. l \in Parts
      BY <1>8, <2>1 DEF Parts
    <3>2. Head(l) \in Seq(Nat) /\ Tail(l) \in Seq(Seq(Nat))
      BY <3>1, PartsAre DEF Bytes
    <3>. QED  BY <3>2, FlattenType
  <2>4. Head(l) = <<>>
    <3>. DEFINE u == Head(l)
                v == FlattenSeq(Tail(l))
    <3>1. u \in Seq(Nat) /\ v \in Seq(Nat) /\ u \o v = <<>>
      BY <1>8, <2>2, <2>3
    <3>. HIDE DEF u, v
    <3>2. Len(u \o v) = Len(u) + Len(v) /\ Len(u) \in Nat /\ Len(v) \in Nat /\ Len(<<>>) = 0
      BY <3>1, ConcatProperties
    <3>3. Len(u) = 0
      BY <3>1, <3>2
    <3>4. u = <<>>
      BY <3>1, <3>3, EmptySeq
    <3>. QED  BY <3>4 DEF u
  <2>. QED  BY <1>5, <1>8, <2>1, <2>4
<1>. QED  BY <1>1, <1>4, <1>6, <1>7, <1>8 DEF l, m

\* Comparing parts, one step.
LEMMA CompareStep ==
  ASSUME NEW x \in Parts, NEW y \in Parts
  PROVE  CompareParts[<<x, y>>] =
           LET n == Common(Head(x), Head(y))
               order == Ordering(SubSeq(Head(x), 1, n), SubSeq(Head(y), 1, n))
               restX == LeftOf(x, n)
               restY == LeftOf(y, n)
           IN  IF order # "Equal" THEN order
               ELSE IF restX = <<>> \/ restY = <<>> THEN EndOrder(restX, restY)
               ELSE CompareParts[<<restX, restY>>]
<1>. DEFINE r == <<x, y>>
<1>1. r \in Parts \X Parts /\ r[1] = x /\ r[2] = y
  OBVIOUS
<1>. HIDE DEF r
<1>2. CompareParts[r] =
           LET n == Common(Head(r[1]), Head(r[2]))
               order == Ordering(SubSeq(Head(r[1]), 1, n), SubSeq(Head(r[2]), 1, n))
               restX == LeftOf(r[1], n)
               restY == LeftOf(r[2], n)
           IN  IF order # "Equal" THEN order
               ELSE IF restX = <<>> \/ restY = <<>> THEN EndOrder(restX, restY)
               ELSE CompareParts[<<restX, restY>>]
  BY <1>1, ComparesExists DEF Compares
<1>. QED  BY <1>1, <1>2 DEF r

\* A sequence of one element.
LEMMA OneIs ==
  ASSUME NEW D, NEW s \in Seq(D), Len(s) = 1
  PROVE  s = <<s[1]>> /\ s[1] \in D
OBVIOUS

\* Comparing parts gives the order of the bytes and, of equal entries, puts
\* the one that ends in an empty slice behind one that does not.
LEMMA ComparesShown ==
  ASSUME NEW x, NEW y, Comparable(x, y)
  PROVE  x \in Parts /\ y \in Parts /\ CompareParts[<<x, y>>] = ShownOrder(x, y)
<1>. DEFINE G == Parts \X Parts
            size == [r \in G |-> Len(r[1]) + Len(r[2])]
            Good == {r \in G : Comparable(r[1], r[2]) =>
                                 CompareParts[<<r[1], r[2]>>] = ShownOrder(r[1], r[2])}
<1>1. x \in Parts /\ y \in Parts
  BY DEF Comparable, Shaped, Parts, Bytes
<1>2. size \in [G -> Nat]
  <2>1. \A r \in G : Len(r[1]) \in Nat /\ Len(r[2]) \in Nat
    BY PartsAre
  <2>2. \A r \in G : size[r] \in Nat
    BY <2>1
  <2>. HIDE DEF G
  <2>. QED  BY <2>2
<1>3. ASSUME NEW u \in Parts, NEW v \in Parts, Comparable(u, v),
             \A a \in Parts : \A b \in Parts :
               Len(a) + Len(b) < Len(u) + Len(v) /\ Comparable(a, b) =>
                 CompareParts[<<a, b>>] = ShownOrder(a, b)
      PROVE  CompareParts[<<u, v>>] = ShownOrder(u, v)
  <2>. DEFINE n == Common(Head(u), Head(v))
              p == LeftOf(u, n)
              q == LeftOf(v, n)
              order == Ordering(SubSeq(Head(u), 1, n), SubSeq(Head(v), 1, n))
              e == u[Len(u)] = <<>>
              d == v[Len(v)] = <<>>
              bu == FlattenSeq(u)
              bv == FlattenSeq(v)
              bp == FlattenSeq(p)
              bq == FlattenSeq(q)
  <2>1. /\ n \in 0..Len(Head(u)) /\ n \in 0..Len(Head(v))
        /\ Len(p) \in Nat /\ Len(q) \in Nat /\ Len(p) + Len(q) < Len(u) + Len(v)
        /\ p # <<>> => p \in Parts
        /\ q # <<>> => q \in Parts
    BY CompareShrinks
  <2>2. CompareParts[<<u, v>>] = IF order # "Equal" THEN order
                                ELSE IF p = <<>> \/ q = <<>> THEN EndOrder(p, q)
                                ELSE CompareParts[<<p, q>>]
    BY CompareStep
  <2>. HIDE DEF n
  <2>3. /\ bu \in Bytes /\ bp \in Bytes /\ n \in 0..Len(bu)
        /\ SubSeq(bu, 1, n) = SubSeq(Head(u), 1, n) /\ After(bu, n) = bp
    BY <2>1, LeftShows
  <2>4. /\ bv \in Bytes /\ bq \in Bytes /\ n \in 0..Len(bv)
        /\ SubSeq(bv, 1, n) = SubSeq(Head(v), 1, n) /\ After(bv, n) = bq
    BY <2>1, LeftShows
  <2>5. /\ p # <<>> => Shaped(p) /\ (p[Len(p)] = <<>>) = e /\ (bp = <<>> => Len(p) = 1)
        /\ p = <<>> => Len(u) = 1 /\ n = Len(Head(u)) /\ bu = Head(u)
    BY <1>3, <2>1, LeftShaped DEF Comparable
  <2>6. /\ q # <<>> => Shaped(q) /\ (q[Len(q)] = <<>>) = d /\ (bq = <<>> => Len(q) = 1)
        /\ q = <<>> => Len(v) = 1 /\ n = Len(Head(v)) /\ bv = Head(v)
    BY <1>3, <2>1, LeftShaped DEF Comparable
  <2>7. ShownOrder(u, v) = IF bu # bv THEN Ordering(bu, bv)
                           ELSE IF e = d THEN "Equal" ELSE IF e THEN "Greater" ELSE "Less"
    BY DEF ShownOrder
  <2>8. /\ order # "Equal" => Ordering(bu, bv) = order
        /\ order = "Equal" => \A i \in 1..n : bu[i] = bv[i]
    <3>. DEFINE o == Ordering(SubSeq(bu, 1, n), SubSeq(bv, 1, n))
    <3>1. o = order
      BY <2>3, <2>4
    <3>2. /\ o # "Equal" => Ordering(bu, bv) = o
          /\ o = "Equal" => \A i \in 1..n : bu[i] = bv[i]
      <4>. HIDE DEF bu, bv
      <4>. QED  BY <2>3, <2>4, BeginsOrder
    <3>. HIDE DEF o, order, bu, bv
    <3>. QED  BY <3>1, <3>2
  <2>9. Ordering(bu, bv) = "Equal" <=> bu = bv
    BY <2>3, <2>4, OrderTotal
  <2>10. e \in BOOLEAN /\ d \in BOOLEAN
    OBVIOUS
  <2>11. FlattenSeq(u) = <<>> /\ FlattenSeq(v) = <<>> => Len(u) = 1 /\ Len(v) = 1
    BY <1>3 DEF Comparable
  <2>12. /\ Len(u) = 1 => (e <=> Head(u) = <<>>)
         /\ Len(v) = 1 => (d <=> Head(v) = <<>>)
    BY PartsAre
  <2>13. /\ Len(<<>>) = 0 /\ \A w \in Bytes : Len(w) \in Nat /\ (Len(w) = 0 => w = <<>>)
    BY EmptySeq DEF Bytes
  <2>14. order # "Equal" => CompareParts[<<u, v>>] = ShownOrder(u, v)
    <3>. HIDE DEF order, bu, bv, e, d, p, q
    <3>. QED  BY <2>2, <2>7, <2>8, <2>9
  <2>. SUFFICES ASSUME order = "Equal" PROVE CompareParts[<<u, v>>] = ShownOrder(u, v)
    BY <2>14
  <2>15. Ordering(bp, bq) = Ordering(bu, bv) /\ (bp = bq <=> bu = bv)
    <3>1. n \in Nat /\ n <= Len(bu) /\ n <= Len(bv) /\ \A i \in 1..n : bu[i] = bv[i]
      <4>. HIDE DEF bu, bv, order
      <4>. QED  BY <2>3, <2>4, <2>8
    <3>2. Ordering(After(bu, n), After(bv, n)) = Ordering(bu, bv)
      <4>. HIDE DEF bu, bv
      <4>. QED  BY <2>3, <2>4, <3>1, RestOrder
    <3>3. Ordering(bp, bq) = "Equal" <=> bp = bq
      BY <2>3, <2>4, OrderTotal
    <3>. HIDE DEF bu, bv, bp, bq
    <3>. QED  BY <2>3, <2>4, <2>9, <3>2, <3>3
  \* One side has ended: its entry, a prefix of the other.
  <2>16. ASSUME p = <<>> PROVE /\ bp = <<>> /\ (e <=> bu = <<>>)
                               /\ bq # <<>> => Ordering(bu, bv) = "Less" /\ bu # bv
    <3>1. bp = <<>> /\ (e <=> bu = <<>>)
      BY <2>5, <2>12, <2>16, FlattenEmpty
    <3>2. ASSUME bq # <<>> PROVE Ordering(bp, bq) = "Less"
      <4>. DEFINE zero == 0
      <4>1. Len(bq) \in Nat \ {0}
        BY <2>4, <2>13, <3>2
      <4>2. SharesTo(bp, bq, zero) /\ zero < Len(bq) /\ Len(bp) = zero
        BY <2>13, <3>1, <4>1 DEF SharesTo
      <4>. HIDE DEF bp, bq, zero
      <4>3. Below(bp, bq)
        BY <2>3, <2>4, <4>2, OrderingIs
      <4>. QED  BY <4>3 DEF Below
    <3>. HIDE DEF bp, bq, bu, bv, p, e
    <3>. QED  BY <2>15, <3>1, <3>2
  <2>17. ASSUME q = <<>> PROVE /\ bq = <<>> /\ (d <=> bv = <<>>)
                               /\ bp # <<>> => Ordering(bu, bv) = "Greater" /\ bu # bv
    <3>1. bq = <<>> /\ (d <=> bv = <<>>)
      BY <2>6, <2>12, <2>17, FlattenEmpty
    <3>2. ASSUME bp # <<>> PROVE Ordering(bp, bq) = "Greater"
      <4>. DEFINE zero == 0
      <4>1. Len(bp) \in Nat \ {0}
        BY <2>3, <2>13, <3>2
      <4>2. SharesTo(bq, bp, zero) /\ zero < Len(bp) /\ Len(bq) = zero
        BY <2>13, <3>1, <4>1 DEF SharesTo
      <4>. HIDE DEF bp, bq, zero
      <4>3. Below(bq, bp)
        BY <2>3, <2>4, <4>2, OrderingIs
      <4>. QED  BY <2>3, <2>4, <4>3, OrderTotal
    <3>. HIDE DEF bp, bq, bu, bv, q, d
    <3>. QED  BY <2>15, <3>1, <3>2
  <2>18. CASE p = <<>> /\ q = <<>>
    <3>1. CompareParts[<<u, v>>] = "Equal"
      <4>. HIDE DEF p, q, order
      <4>. QED  BY <2>2, <2>18 DEF EndOrder
    <3>. HIDE DEF p, q, order, bu, bv, bp, bq, e, d
    <3>2. bp = bq /\ bu = bv /\ e = d
      BY <2>10, <2>15, <2>16, <2>17, <2>18
    <3>. QED  BY <2>7, <3>1, <3>2
  <2>19. CASE p = <<>> /\ q # <<>>
    <3>1. CompareParts[<<u, v>>] = "Less"
      <4>. HIDE DEF p, q, order
      <4>. QED  BY <2>2, <2>19 DEF EndOrder
    <3>2. bq = <<>> => bu = bv /\ d /\ ~e
      <4>. SUFFICES ASSUME bq = <<>> PROVE bu = bv /\ d /\ ~e
        OBVIOUS
      <4>1. bu = bv
        <5>. HIDE DEF bu, bv, bp, bq, p
        <5>. QED  BY <2>15, <2>16, <2>19
      <4>2. q[Len(q)] = <<>>
        <5>1. Len(q) = 1 /\ q \in Seq(Bytes)
          BY <2>6, <2>19 DEF Shaped
        <5>. HIDE DEF q
        <5>2. q = <<q[1]>> /\ q[1] \in Seq(Nat)
          BY <5>1, OneIs DEF Bytes
        <5>3. FlattenSeq(<<q[1]>>) = q[1]
          BY <5>2, FlattenOne
        <5>4. bq = q[1]
          BY <5>2, <5>3
        <5>. QED  BY <5>1, <5>4
      <4>3. d
        BY <2>6, <2>19, <4>2
      <4>4. Len(v) # 1
        <5>1. v \in Parts /\ Len(v) = 1 => Head(v) = <<>>
          BY <2>12, <4>3
        <5>2. Len(v) = 1 => n = 0
          BY <2>1, <2>13, <5>1
        <5>3. Len(v) = 1 => q = Tail(v) /\ Tail(v) = <<>>
          BY <2>1, <2>13, <5>1, <5>2, LeftIs, PartsAre
        <5>. QED  BY <2>19, <5>3
      <4>5. bu # <<>>
        BY <2>11, <4>1, <4>4
      <4>. HIDE DEF bu, bv, bp, bq, p, e
      <4>. QED  BY <2>16, <2>19, <4>1, <4>3, <4>5
    <3>. HIDE DEF p, q, order, bu, bv, bp, bq, e, d
    <3>. QED  BY <2>7, <2>16, <2>19, <3>1, <3>2
  <2>20. CASE p # <<>> /\ q = <<>>
    <3>1. CompareParts[<<u, v>>] = "Greater"
      <4>. HIDE DEF p, q, order
      <4>. QED  BY <2>2, <2>20 DEF EndOrder
    <3>2. bp = <<>> => bu = bv /\ e /\ ~d
      <4>. SUFFICES ASSUME bp = <<>> PROVE bu = bv /\ e /\ ~d
        OBVIOUS
      <4>1. bu = bv
        <5>. HIDE DEF bu, bv, bp, bq, q
        <5>. QED  BY <2>15, <2>17, <2>20
      <4>2. p[Len(p)] = <<>>
        <5>1. Len(p) = 1 /\ p \in Seq(Bytes)
          BY <2>5, <2>20 DEF Shaped
        <5>. HIDE DEF p
        <5>2. p = <<p[1]>> /\ p[1] \in Seq(Nat)
          BY <5>1, OneIs DEF Bytes
        <5>3. FlattenSeq(<<p[1]>>) = p[1]
          BY <5>2, FlattenOne
        <5>4. bp = p[1]
          BY <5>2, <5>3
        <5>. QED  BY <5>1, <5>4
      <4>3. e
        BY <2>5, <2>20, <4>2
      <4>4. Len(u) # 1
        <5>1. u \in Parts /\ Len(u) = 1 => Head(u) = <<>>
          BY <2>12, <4>3
        <5>2. Len(u) = 1 => n = 0
          BY <2>1, <2>13, <5>1
        <5>3. Len(u) = 1 => p = Tail(u) /\ Tail(u) = <<>>
          BY <2>1, <2>13, <5>1, <5>2, LeftIs, PartsAre
        <5>. QED  BY <2>20, <5>3
      <4>5. bu # <<>>
        BY <2>11, <4>1, <4>4
      <4>. HIDE DEF bu, bv, bp, bq, q, d
      <4>. QED  BY <2>17, <2>20, <4>1, <4>3, <4>5
    <3>. HIDE DEF p, q, order, bu, bv, bp, bq, e, d
    <3>. QED  BY <2>7, <2>17, <2>20, <3>1, <3>2
  <2>21. CASE p # <<>> /\ q # <<>>
    <3>1. CompareParts[<<u, v>>] = CompareParts[<<p, q>>]
      <4>. HIDE DEF p, q, order
      <4>. QED  BY <2>2, <2>21
    <3>2. Comparable(p, q)
      BY <2>5, <2>6, <2>21 DEF Comparable
    <3>3. CompareParts[<<p, q>>] = ShownOrder(p, q)
      <4>. HIDE DEF p, q
      <4>. QED  BY <1>3, <2>1, <2>21, <3>2
    <3>4. ShownOrder(p, q) = IF bp # bq THEN Ordering(bp, bq)
                             ELSE IF e = d THEN "Equal" ELSE IF e THEN "Greater" ELSE "Less"
      <4>1. (p[Len(p)] = <<>>) = e /\ (q[Len(q)] = <<>>) = d
        BY <2>5, <2>6, <2>21
      <4>. HIDE DEF p, q, e, d
      <4>. QED  BY <4>1 DEF ShownOrder
    <3>. HIDE DEF p, q, order, bu, bv, bp, bq, e, d
    <3>. QED  BY <2>7, <2>15, <3>1, <3>3, <3>4
  <2>. QED  BY <2>18, <2>19, <2>20, <2>21
<1>4. \A r \in G : r \in Good \/ \E s \in G : size[s] < size[r] /\ (s \in Good => r \in Good)
  <2>. SUFFICES ASSUME NEW r \in G, \A s \in G : size[s] < size[r] => s \in Good,
                       Comparable(r[1], r[2])
                PROVE  CompareParts[<<r[1], r[2]>>] = ShownOrder(r[1], r[2])
    <3>. HIDE DEF size, G
    <3>. QED  OBVIOUS
  <2>1. r[1] \in Parts /\ r[2] \in Parts
    OBVIOUS
  <2>2. ASSUME NEW a \in Parts, NEW b \in Parts, Len(a) + Len(b) < Len(r[1]) + Len(r[2]),
               Comparable(a, b)
        PROVE  CompareParts[<<a, b>>] = ShownOrder(a, b)
    <3>. DEFINE s == <<a, b>>
    <3>1. s \in G /\ s[1] = a /\ s[2] = b /\ size[s] < size[r]
      BY <2>2
    <3>2. s \in Good
      <4>. HIDE DEF s, Good, size, G
      <4>. QED  BY <3>1
    <3>. HIDE DEF s, size, G
    <3>3. CompareParts[<<s[1], s[2]>>] = ShownOrder(s[1], s[2])
      BY <2>2, <3>1, <3>2
    <3>. QED  BY <3>1, <3>3
  <2>. QED  BY <1>3, <2>1, <2>2
<1>5. <<x, y>> \in Good
  <2>1. <<x, y>> \in G
    BY <1>1
  <2>. HIDE DEF G, size, Good
  <2>. QED  BY <1>2, <1>4, <2>1, Descent
<1>. QED  BY <1>1, <1>5

\* Ropes compare as RopeOrder says.
LEMMA CompareIs ==
  ASSUME NEW x, NEW y, Shaped(x), Shaped(y)
  PROVE  /\ BytesOf(x) \in Bytes /\ BytesOf(y) \in Bytes
         /\ Compare(x, y) = RopeOrder(x, y)
<1>. DEFINE bx == BytesOf(x)
            by == BytesOf(y)
<1>1. x \in Seq(Seq(Nat)) /\ y \in Seq(Seq(Nat)) /\ x # <<>> /\ y # <<>>
  BY DEF Shaped, Bytes
<1>2. bx \in Bytes /\ by \in Bytes
  BY <1>1, FlattenType DEF BytesOf, Bytes
<1>3. Ordering(bx, by) = "Equal" <=> bx = by
  BY <1>2, OrderTotal
<1>4. ASSUME NEW z \in {x, y}, BytesOf(z) # <<>>
      PROVE  EndsEmpty(z) = (z[Len(z)] = <<>>)
  <2>1. z \in Seq(Seq(Nat)) /\ z # <<>> /\ Len(z) \in Nat \ {0}
    BY <1>1, EmptySeq
  <2>2. Last(z) = z[Len(z)]
    BY DEF Last
  <2>3. Len(z) = 1 => z[Len(z)] # <<>>
    <3>. SUFFICES ASSUME Len(z) = 1 PROVE z[1] # <<>>
      OBVIOUS
    <3>1. z = <<z[1]>> /\ z[1] \in Seq(Nat)
      BY <2>1, OneIs
    <3>2. FlattenSeq(<<z[1]>>) = z[1]
      BY <3>1, FlattenOne
    <3>. QED  BY <1>4, <3>1, <3>2 DEF BytesOf
  <2>4. Len(z) > 1 <=> Len(z) # 1
    <3>. DEFINE m == Len(z)
    <3>1. m \in Nat \ {0}
      BY <2>1
    <3>. HIDE DEF m
    <3>2. m > 1 <=> m # 1
      BY <3>1
    <3>. QED  BY <3>2 DEF m
  <2>5. EndsEmpty(z) <=> z[Len(z)] = <<>>
    BY <2>2, <2>3, <2>4 DEF EndsEmpty
  <2>6. EndsEmpty(z) \in BOOLEAN /\ (z[Len(z)] = <<>>) \in BOOLEAN
    BY DEF EndsEmpty
  <2>. HIDE DEF EndsEmpty
  <2>. QED  BY <2>5, <2>6
<1>5. CASE bx = <<>> /\ by = <<>>
  <2>1. Compare(x, y) = "Equal"
    BY <1>5 DEF Compare
  <2>. QED  BY <1>2, <1>3, <1>5, <2>1 DEF RopeOrder
<1>6. CASE ~(bx = <<>> /\ by = <<>>)
  <2>1. Compare(x, y) = CompareParts[<<x, y>>]
    BY <1>6 DEF Compare
  <2>2. Comparable(x, y)
    BY <1>6 DEF Comparable, BytesOf
  <2>3. CompareParts[<<x, y>>] = ShownOrder(x, y)
    BY <2>2, ComparesShown
  <2>4. ShownOrder(x, y) = IF bx # by THEN Ordering(bx, by)
                           ELSE IF (x[Len(x)] = <<>>) = (y[Len(y)] = <<>>) THEN "Equal"
                           ELSE IF x[Len(x)] = <<>> THEN "Greater" ELSE "Less"
    BY DEF ShownOrder, BytesOf
  <2>5. bx = by => /\ bx # <<>> /\ EndsEmpty(x) = (x[Len(x)] = <<>>)
                   /\ EndsEmpty(y) = (y[Len(y)] = <<>>)
    BY <1>4, <1>6
  <2>6. RopeOrder(x, y) = IF bx # by \/ bx = <<>> \/ EndsEmpty(x) = EndsEmpty(y)
                          THEN Ordering(bx, by)
                          ELSE IF EndsEmpty(x) THEN "Greater" ELSE "Less"
    BY DEF RopeOrder
  <2>7. ASSUME bx # by PROVE Compare(x, y) = RopeOrder(x, y)
    <3>. HIDE DEF bx, by
    <3>. QED  BY <2>1, <2>3, <2>4, <2>6, <2>7
  <2>8. ASSUME bx = by PROVE Compare(x, y) = RopeOrder(x, y)
    <3>1. EndsEmpty(x) \in BOOLEAN /\ EndsEmpty(y) \in BOOLEAN
      BY DEF EndsEmpty
    <3>. HIDE DEF EndsEmpty, bx, by
    <3>3. ShownOrder(x, y) = IF EndsEmpty(x) = EndsEmpty(y) THEN "Equal"
                             ELSE IF EndsEmpty(x) THEN "Greater" ELSE "Less"
      BY <2>4, <2>5, <2>8
    <3>. QED  BY <1>3, <2>1, <2>3, <2>5, <2>6, <2>8, <3>3
  <2>. QED  BY <1>2, <2>7, <2>8
<1>. QED  BY <1>2, <1>5, <1>6

\* What an iterator gives.
Roped(e) == e.datatype \in Nat /\ Shaped(e.entry)
Ended(e) == BytesOf(e.entry) # <<>> /\ EndsEmpty(e.entry)
NotAfter(x, y) == CompareTyped(x, y) # "Greater"

\* The order in which entries are picked.
LEMMA NotAfterIs ==
  ASSUME NEW x, NEW y, Roped(x), Roped(y)
  PROVE  LET a == BytesOf(x.entry)
             b == BytesOf(y.entry)
         IN  /\ a \in Bytes /\ b \in Bytes
             /\ NotAfter(x, y) <=>
                  \/ x.datatype < y.datatype
                  \/ /\ x.datatype = y.datatype
                     /\ Below(a, b) \/ (a = b /\ (Ended(x) => Ended(y)))
<1>. DEFINE a == BytesOf(x.entry)
            b == BytesOf(y.entry)
            r == x.entry
            s == y.entry
<1>1. a \in Bytes /\ b \in Bytes /\ Compare(r, s) = RopeOrder(r, s)
  BY CompareIs DEF Roped
<1>2. /\ a = b \/ Below(a, b) \/ Below(b, a)
      /\ Below(a, b) => a # b /\ ~Below(b, a)
      /\ Ordering(a, b) = "Equal" <=> a = b
      /\ Ordering(a, b) = "Greater" <=> Below(b, a)
  BY <1>1, OrderTotal
<1>3. RopeOrder(r, s) = IF a # b \/ a = <<>> \/ EndsEmpty(r) = EndsEmpty(s)
                        THEN Ordering(a, b)
                        ELSE IF EndsEmpty(r) THEN "Greater" ELSE "Less"
  BY DEF RopeOrder
<1>4. CompareTyped(x, y) = IF x.datatype # y.datatype
                           THEN IF x.datatype < y.datatype THEN "Less" ELSE "Greater"
                           ELSE Compare(r, s)
  BY DEF CompareTyped
<1>5. /\ Ended(x) <=> a # <<>> /\ EndsEmpty(r)
      /\ Ended(y) <=> b # <<>> /\ EndsEmpty(s)
      /\ EndsEmpty(r) \in BOOLEAN /\ EndsEmpty(s) \in BOOLEAN
  BY DEF Ended, EndsEmpty
<1>6. x.datatype \in Nat /\ y.datatype \in Nat
  BY DEF Roped
<1>. HIDE DEF a, b, r, s
<1>7. x.datatype # y.datatype => (NotAfter(x, y) <=> x.datatype < y.datatype)
  BY <1>4 DEF NotAfter
<1>8. x.datatype = y.datatype =>
        (NotAfter(x, y) <=> Below(a, b) \/ (a = b /\ (Ended(x) => Ended(y))))
  <2>1. RopeOrder(r, s) # "Greater" <=> Below(a, b) \/ (a = b /\ (Ended(x) => Ended(y)))
    <3>1. CASE a # b
      BY <1>2, <1>3, <3>1
    <3>2. CASE a = b
      BY <1>2, <1>3, <1>5, <3>2
    <3>. QED  BY <3>1, <3>2
  <2>. QED  BY <1>1, <1>4, <2>1 DEF NotAfter
<1>. QED  BY <1>1, <1>6, <1>7, <1>8 DEF a, b

\* Of two entries one is not after the other, which carries over.
LEMMA NotAfterOrders ==
  ASSUME NEW x, NEW y, NEW z, Roped(x), Roped(y), Roped(z)
  PROVE  /\ NotAfter(x, y) \/ NotAfter(y, x)
         /\ NotAfter(x, y) /\ NotAfter(y, z) => NotAfter(x, z)
         /\ NotAfter(x, y) => AtMostTyped(Bytewise(x), Bytewise(y))
<1>. DEFINE a == BytesOf(x.entry)
            b == BytesOf(y.entry)
            c == BytesOf(z.entry)
            i == x.datatype
            j == y.datatype
            k == z.datatype
<1>1. /\ a \in Bytes /\ b \in Bytes
      /\ NotAfter(x, y) <=> i < j \/ (i = j /\ (Below(a, b) \/ (a = b /\ (Ended(x) => Ended(y)))))
  BY NotAfterIs
<1>2. /\ c \in Bytes
      /\ NotAfter(y, z) <=> j < k \/ (j = k /\ (Below(b, c) \/ (b = c /\ (Ended(y) => Ended(z)))))
  BY NotAfterIs
<1>3. NotAfter(x, z) <=> i < k \/ (i = k /\ (Below(a, c) \/ (a = c /\ (Ended(x) => Ended(z)))))
  BY NotAfterIs
<1>4. NotAfter(y, x) <=> j < i \/ (j = i /\ (Below(b, a) \/ (b = a /\ (Ended(y) => Ended(x)))))
  BY NotAfterIs
<1>5. i \in Nat /\ j \in Nat /\ k \in Nat
  BY DEF Roped
<1>6. Bytewise(x).datatype = i /\ Bytewise(x).entry = a /\ Bytewise(y).datatype = j
      /\ Bytewise(y).entry = b
  BY DEF Bytewise, Typed
<1>. HIDE DEF a, b, c, i, j, k
<1>7. a = b \/ Below(a, b) \/ Below(b, a)
  BY <1>1, OrderTotal
<1>8. Below(a, b) /\ Below(b, c) => Below(a, c)
  BY <1>1, <1>2, BelowTrans
<1>9. NotAfter(x, y) \/ NotAfter(y, x)
  BY <1>1, <1>4, <1>5, <1>7
<1>10. ASSUME NotAfter(x, y), NotAfter(y, z) PROVE NotAfter(x, z)
  <2>1. i < j \/ j < k => i < k
    BY <1>1, <1>2, <1>5, <1>10
  <2>2. i = j /\ j = k => Below(a, c) \/ (a = c /\ (Ended(x) => Ended(z)))
    BY <1>1, <1>2, <1>5, <1>8, <1>10
  <2>. QED  BY <1>1, <1>2, <1>3, <1>10, <2>1, <2>2
<1>11. ASSUME NotAfter(x, y) PROVE AtMostTyped(Bytewise(x), Bytewise(y))
  <2>1. (a = b \/ Below(a, b)) => Ordering(a, b) # "Greater"
    <3>1. /\ Below(a, b) => a # b /\ ~Below(b, a)
          /\ Ordering(a, b) = "Equal" <=> a = b
          /\ Ordering(a, b) = "Greater" <=> Below(b, a)
      BY <1>1, OrderTotal
    <3>. QED  BY <3>1
  <2>. QED  BY <1>1, <1>6, <1>11, <2>1 DEF AtMostTyped
<1>. QED  BY <1>9, <1>10, <1>11

\* While something is left, the iterators have a smallest head.
LEMMA SmallestIs ==
  ASSUME NEW its, NEW n \in Nat, DOMAIN its = 1..n,
         \A d \in Live(its) : Roped(Head(its[d])), Live(its) # {}
  PROVE  /\ Smallest(its) # {} /\ Smallest(its) \in SUBSET Live(its)
         /\ Live(its) \in SUBSET (1..n)
         /\ Picked(its) \in Smallest(its) /\ HeapTop(its) \in Smallest(its)
         /\ \A d \in Smallest(its) : \A c \in Live(its) :
              NotAfter(Head(its[d]), Head(its[c]))
<1>. DEFINE L == Live(its)
            h(d) == Head(its[d])
            First(d, m) == /\ d \in L /\ d <= m
                           /\ \A c \in L : c <= m => NotAfter(h(d), h(c))
            P == {m \in 0..n : (\E d \in L : d <= m) => \E d \in L : First(d, m)}
<1>1. L \in SUBSET (1..n) /\ \A d \in L : Roped(h(d))
  BY DEF Live
<1>. HIDE DEF L, h
<1>2. 0 \in P
  <2>1. \A d \in L : ~(d <= 0)
    BY <1>1
  <2>. QED  BY <2>1
<1>3. ASSUME NEW m \in 1..n, m - 1 \in P PROVE m \in P
  <2>. SUFFICES ASSUME NEW e \in L, e <= m PROVE \E d \in L : First(d, m)
    BY <1>3
  <2>1. \A c \in L : c \in Nat /\ (c <= m <=> c <= m - 1 \/ c = m)
    BY <1>1
  <2>2. CASE m \notin L
    <3>1. \A c \in L : c <= m <=> c <= m - 1
      BY <2>1, <2>2
    <3>2. PICK d \in L : First(d, m - 1)
      BY <1>3, <3>1
    <3>3. First(d, m)
      BY <3>1, <3>2
    <3>. QED  BY <3>3
  <2>3. CASE m \in L /\ ~\E d \in L : d <= m - 1
    <3>1. \A c \in L : c <= m => c = m
      BY <2>1, <2>3
    <3>2. NotAfter(h(m), h(m))
      BY <1>1, <2>3, NotAfterOrders
    <3>3. First(m, m)
      BY <2>3, <3>1, <3>2
    <3>. QED  BY <2>3, <3>3
  <2>4. CASE m \in L /\ \E d \in L : d <= m - 1
    <3>1. PICK d \in L : First(d, m - 1)
      BY <1>3, <2>4
    <3>2. CASE NotAfter(h(d), h(m))
      <4>1. First(d, m)
        BY <2>1, <3>1, <3>2
      <4>. QED  BY <4>1
    <3>3. CASE NotAfter(h(m), h(d))
      <4>1. ASSUME NEW c \in L, c <= m PROVE NotAfter(h(m), h(c))
        <5>1. CASE c = m
          BY <1>1, <5>1, NotAfterOrders
        <5>2. CASE c <= m - 1
          <6>1. NotAfter(h(d), h(c))
            BY <3>1, <5>2
          <6>. QED  BY <1>1, <2>4, <3>3, <6>1, NotAfterOrders
        <5>. QED  BY <2>1, <4>1, <5>1, <5>2
      <4>2. First(m, m)
        BY <2>4, <4>1
      <4>. QED  BY <2>4, <4>2
    <3>4. NotAfter(h(d), h(m)) \/ NotAfter(h(m), h(d))
      BY <1>1, <2>4, NotAfterOrders
    <3>. QED  BY <3>2, <3>3, <3>4
  <2>. QED  BY <2>2, <2>3, <2>4
<1>. HIDE DEF P
<1>4. n \in P
  <2>1. \A m \in 0..n : m \in P
    BY <1>2, <1>3, InductUpTo
  <2>. QED  BY <2>1
<1>5. PICK d \in L : First(d, n)
  <2>1. \E d \in L : d <= n
    BY <1>1 DEF L
  <2>. QED  BY <1>4, <2>1 DEF P
<1>6. /\ Smallest(its) \in SUBSET L
      /\ \A e \in Smallest(its) : \A c \in L : NotAfter(h(e), h(c))
      /\ d \in Smallest(its)
  <2>1. Smallest(its) = {e \in L : \A c \in L : NotAfter(h(e), h(c))}
    BY DEF Smallest, NotAfter, h, L
  <2>2. \A c \in L : c <= n
    BY <1>1
  <2>. QED  BY <1>5, <2>1, <2>2
<1>. DEFINE T == Smallest(its)
<1>7. T \in SUBSET Nat /\ T # {} /\ d \in T /\ \A e \in T : e <= n
  <2>1. T \in SUBSET L /\ d \in T
    BY <1>6
  <2>2. \A e \in L : e \in Nat /\ e <= n
    BY <1>1
  <2>. HIDE DEF T
  <2>. QED  BY <2>1, <2>2
<1>8. Min(T) \in T /\ Max(T) \in T
  <2>. HIDE DEF T
  <2>. QED  BY <1>7, MinIs, MaxIs
<1>. QED  BY <1>1, <1>6, <1>7, <1>8 DEF Picked, HeapTop, L, h

-----------------------------------------------------------------------------
(* What the iterator of a source dictionary gives.                         *)

Dictionary(es) ==
  /\ es \in Seq(Items)
  /\ \A i, j \in DOMAIN es : i < j => AtMostTyped(es[i], es[j])

\* An item has a data type and one of its values.
LEMMA ItemIs ==
  ASSUME NEW e \in Items
  PROVE  /\ e.datatype \in Types /\ e.datatype \in Nat \ {0}
         /\ e.entry \in ValuesOf(e.datatype) /\ e.entry \in Bytes
         /\ e = Typed(e.datatype, e.entry) /\ e \in EntryType
<1>0. PICK t \in Types : e \in {Typed(t, v) : v \in ValuesOf(t)}
  BY DEF Items
<1>1. PICK v \in ValuesOf(t) : e = Typed(t, v)
  BY <1>0
<1>2. e.datatype = t /\ e.entry = v
  BY <1>1 DEF Typed
<1>3. t \in Nat \ {0} /\ v \in Seq(Nat)
  BY TypesAssumption
<1>4. e \in EntryType
  BY <1>1, <1>3 DEF Typed, EntryType
<1>. QED  BY <1>1, <1>2, <1>3, <1>4 DEF Bytes

\* The data type of the last of the first n entries.
TypeAfter(es, n) == IF n = 0 THEN 0 ELSE es[n].datatype

\* The builders at work on the first n entries.
Works(es, n) ==
  {b \in BuilderType : \E tp \in Seq(Types) : \E to \in Seq(Nat) :
     AtWork(tp, to, b, TypeAfter(es, n), SubSeq(es, 1, n))}

NextBuilder(b, es, n) ==
  AddTo(Switched(b, IF n = 1 THEN 0 ELSE es[n - 1].datatype, es[n].datatype), es[n].entry)

Builds(f, es) ==
  f = [n \in 0..Len(es) |->
        IF n = 0 THEN NewBuilder(0, 0, 0, <<>>, <<>>) ELSE NextBuilder(f[n - 1], es, n)]

\* A builder at work is one of these.
LEMMA WorksIs ==
  ASSUME NEW tp, NEW to, NEW b, NEW ct, NEW ad, AtWork(tp, to, b, ct, ad),
         NEW es, NEW n, ct = TypeAfter(es, n), ad = SubSeq(es, 1, n)
  PROVE  b \in Works(es, n)
<1>1. tp \in Seq(Types) /\ to \in Seq(Nat) /\ b \in BuilderType
  BY DEF AtWork, Building, TypesMet, Written
<1>. QED  BY <1>1 DEF Works

\* The next entry goes to the builder.
LEMMA BuilderGoesOn ==
  ASSUME NEW es, Dictionary(es), NEW n \in 1..Len(es), NEW b \in Works(es, n - 1)
  PROVE  NextBuilder(b, es, n) \in Works(es, n)
<1>. DEFINE ct == TypeAfter(es, n - 1)
            ad == SubSeq(es, 1, n - 1)
            t == es[n].datatype
            v == es[n].entry
            s == AddTo(Switched(b, ct, t), v)
<1>1. PICK tp \in Seq(Types), to \in Seq(Nat) : AtWork(tp, to, b, ct, ad)
  BY DEF Works
<1>2. es \in Seq(Items) /\ Len(es) \in Nat /\ es[n] \in Items
  BY DEF Dictionary
<1>3. t \in Types /\ t \in Nat \ {0} /\ v \in ValuesOf(t) /\ es[n] = Typed(t, v)
  BY <1>2, ItemIs
<1>4. ct <= t
  <2>1. CASE n = 1
    BY <1>3, <2>1 DEF TypeAfter
  <2>2. CASE n # 1
    <3>1. n - 1 \in 1..Len(es) /\ n - 1 < n /\ n \in DOMAIN es /\ n - 1 \in DOMAIN es
      BY <1>2, <2>2
    <3>2. AtMostTyped(es[n - 1], es[n])
      BY <3>1 DEF Dictionary
    <3>3. ct = es[n - 1].datatype /\ ct \in Nat
      <4>1. es[n - 1] \in Items
        BY <1>2, <3>1
      <4>2. es[n - 1].datatype \in Nat
        BY <4>1, ItemIs
      <4>. QED  BY <2>2, <4>2 DEF TypeAfter
    <3>. QED  BY <1>3, <3>2, <3>3 DEF AtMostTyped
  <2>. QED  BY <2>1, <2>2
<1>5. Append(ad, Typed(t, v)) = SubSeq(es, 1, n)
  <2>. DEFINE k == n - 1
              I == Items
  <2>1. k \in 0..Len(es) /\ n \in 0..Len(es) /\ k + 1 = n /\ Len(es) \in Nat
    BY <1>2
  <2>. HIDE DEF k, I
  <2>2. es \in Seq(I) /\ es[n] \in I
    BY <1>2 DEF I
  <2>3. /\ SubSeq(es, 1, k) \in Seq(I) /\ Len(SubSeq(es, 1, k)) = k
        /\ \A i \in 1..k : SubSeq(es, 1, k)[i] = es[i]
    BY <2>1, <2>2, FirstIs
  <2>4. /\ SubSeq(es, 1, n) \in Seq(I) /\ Len(SubSeq(es, 1, n)) = n
        /\ \A i \in 1..n : SubSeq(es, 1, n)[i] = es[i]
    BY <2>1, <2>2, FirstIs
  <2>. DEFINE p == SubSeq(es, 1, k)
              q == SubSeq(es, 1, n)
              r == Append(p, es[n])
  <2>. HIDE DEF p, q
  <2>5. r \in Seq(I) /\ Len(r) = n /\ \A i \in 1..n : r[i] = IF i = n THEN es[n] ELSE p[i]
    BY <2>1, <2>2, <2>3, AppendProperties DEF p
  <2>. HIDE DEF r
  <2>6. \A i \in 1..n : r[i] = q[i]
    <3>1. \A i \in 1..n : i = n \/ i \in 1..k
      BY <2>1
    <3>. QED  BY <2>3, <2>4, <2>5, <3>1 DEF p, q
  <2>7. r = q
    BY <2>4, <2>5, <2>6, SeqEqual DEF q
  <2>. QED  BY <1>3, <2>7 DEF p, q, r, k
<1>6. AtWork(TypesWith(tp, ct, t), OffsetsWith(to, b, ct, t), s, t, Append(ad, Typed(t, v)))
  BY <1>1, <1>3, <1>4, AddIs
<1>7. t = TypeAfter(es, n)
  BY DEF TypeAfter
<1>8. s \in Works(es, n)
  <2>. HIDE DEF s, t, ct, ad
  <2>. QED  BY <1>5, <1>6, <1>7, WorksIs
<1>9. s = NextBuilder(b, es, n)
  <2>1. ct = IF n = 1 THEN 0 ELSE es[n - 1].datatype
    BY <1>2 DEF TypeAfter
  <2>. QED  BY <2>1 DEF NextBuilder
<1>. QED  BY <1>8, <1>9

\* The builder is always one at work on the entries it was given.
LEMMA BuilderIs ==
  ASSUME NEW es, Dictionary(es)
  PROVE  LET built == CHOOSE f : Builds(f, es)
         IN  built[Len(es)] \in Works(es, Len(es))
<1>. DEFINE N == Len(es)
            G == [n \in 0..N |-> Works(es, n)]
            a == NewBuilder(0, 0, 0, <<>>, <<>>)
            g == [x \in (0..N) \X BuilderType |-> NextBuilder(x[2], es, x[1])]
            zero == 0
<1>1. N \in Nat /\ es \in Seq(Items)
  BY DEF Dictionary
<1>2. a \in Works(es, 0)
  <2>1. Building(<<>>, <<>>, a, 0, <<>>, TRUE)
    BY BuildingStarts
  <2>2. a.current = <<>> /\ a.offsets = <<>> /\ a.data = <<>>
    BY DEF NewBuilder
  <2>3. OffsetsAre(<<>>, <<>>, Len(<<>>)) /\ Len(<<>>) < BlockSize
    BY BlockSizes DEF OffsetsAre
  <2>4. AtWork(<<>>, <<>>, a, 0, <<>>)
    BY <2>1, <2>2, <2>3 DEF AtWork
  <2>5. SubSeq(es, 1, 0) = <<>>
    BY <1>1
  <2>6. 0 = TypeAfter(es, 0)
    BY DEF TypeAfter
  <2>. HIDE DEF a
  <2>. QED  BY <2>4, <2>5, <2>6, WorksIs
<1>3. \A n \in 1..N : \A b \in Works(es, n - 1) :
        b \in BuilderType /\ NextBuilder(b, es, n) \in Works(es, n)
  BY BuilderGoesOn DEF Works
<1>4. PICK h : RunsWithin(h, zero, N, G, a, g)
  <2>1. zero \in Int /\ N \in Int /\ zero <= N /\ a \in G[zero]
    BY <1>1, <1>2
  <2>2. \A j \in (zero+1)..N : \A b \in G[j - 1] : g[<<j, b>>] \in G[j]
    <3>. SUFFICES ASSUME NEW j \in (zero+1)..N, NEW b \in G[j - 1] PROVE g[<<j, b>>] \in G[j]
      OBVIOUS
    <3>1. j \in 1..N /\ j - 1 \in 0..N /\ j \in 0..N
      BY <1>1
    <3>2. b \in Works(es, j - 1)
      BY <3>1
    <3>3. b \in BuilderType /\ NextBuilder(b, es, j) \in Works(es, j)
      BY <1>3, <3>1, <3>2
    <3>4. <<j, b>> \in (0..N) \X BuilderType /\ <<j, b>>[1] = j /\ <<j, b>>[2] = b
      BY <3>1, <3>3
    <3>. DEFINE x == <<j, b>>
    <3>5. g[x] = NextBuilder(x[2], es, x[1])
      <4>. HIDE DEF x
      <4>. QED  BY <3>4 DEF x
    <3>. QED  BY <3>1, <3>3, <3>4, <3>5
  <2>. HIDE DEF zero, N, G, a, g
  <2>. QED  BY <2>1, <2>2, RecursionWithin
<1>5. Builds(h, es)
  <2>1. /\ h = [j \in 0..N |-> h[j]] /\ h[0] = a
        /\ \A j \in 1..N : h[j] = g[<<j, h[j - 1]>>]
        /\ \A j \in 0..N : h[j] \in G[j]
    <3>1. zero = 0 /\ zero + 1 = 1
      OBVIOUS
    <3>. HIDE DEF zero, N, G, a, g
    <3>. QED  BY <1>4, <3>1 DEF RunsWithin
  <2>2. ASSUME NEW j \in 1..N PROVE h[j] = NextBuilder(h[j - 1], es, j)
    <3>1. j - 1 \in 0..N /\ j \in 0..N
      BY <1>1
    <3>2. h[j - 1] \in BuilderType
      <4>1. h[j - 1] \in Works(es, j - 1)
        BY <2>1, <3>1
      <4>. QED  BY <4>1 DEF Works
    <3>. DEFINE x == <<j, h[j - 1]>>
    <3>3. x \in (0..N) \X BuilderType /\ x[1] = j /\ x[2] = h[j - 1]
      BY <3>1, <3>2
    <3>4. g[x] = NextBuilder(x[2], es, x[1])
      <4>. HIDE DEF x
      <4>. QED  BY <3>3
    <3>. QED  BY <2>1, <3>3, <3>4
  <2>3. \A j \in 0..N : j # 0 => j \in 1..N
    BY <1>1
  <2>4. \A j \in 0..N : h[j] = IF j = 0 THEN a ELSE NextBuilder(h[j - 1], es, j)
    BY <2>1, <2>2, <2>3
  <2>. DEFINE V(j) == IF j = 0 THEN a ELSE NextBuilder(h[j - 1], es, j)
  <2>5. [j \in 0..N |-> h[j]] = [j \in 0..N |-> V(j)]
    <3>. HIDE DEF N, a
    <3>. QED  BY <2>4
  <2>. HIDE DEF V
  <2>6. h = [j \in 0..N |-> V(j)]
    BY <2>1, <2>5
  <2>. QED  BY <2>6 DEF V, Builds
<1>. DEFINE built == CHOOSE f : Builds(f, es)
<1>6. Builds(built, es)
  BY <1>5
<1>. HIDE DEF built
<1>7. built[0] = a /\ \A n \in 1..N : built[n] = NextBuilder(built[n - 1], es, n)
  <2>1. 0 \in 0..N /\ \A n \in 1..N : n \in 0..N /\ n # 0
    BY <1>1
  <2>. QED  BY <1>6, <2>1 DEF Builds
<1>. DEFINE P == {n \in 0..N : built[n] \in Works(es, n)}
<1>8. \A n \in 0..N : n \in P
  <2>1. 0 \in P
    BY <1>1, <1>2, <1>7
  <2>2. \A n \in 1..N : n - 1 \in P => n \in P
    <3>. SUFFICES ASSUME NEW n \in 1..N, built[n - 1] \in Works(es, n - 1)
                  PROVE  built[n] \in Works(es, n)
      <4>1. \A n \in 1..N : n \in 0..N
        BY <1>1
      <4>. QED  BY <4>1
    <3>. QED  BY <1>3, <1>7
  <2>. HIDE DEF P
  <2>. QED  BY <1>1, <2>1, <2>2, InductUpTo
<1>9. N \in P
  BY <1>1, <1>8
<1>. QED  BY <1>9 DEF built, P

\* The slices of the entries of a block, and of all blocks.
RopesIn(b) == [i \in 1..b.num |-> IteratedRope(b, i - 1)]
RopesOfAll(d) == FlattenSeq([n \in 1..Len(d) |-> RopesIn(d[n].block)])

\* A rope of the bytes of an entry.
RopeFor(r, bytes) == Shaped(r) /\ BytesOf(r) = bytes /\ Len(r) \in 1..BlockSize

\* Optimizing a rope makes one of the same bytes.
LEMMA OptimizedIs ==
  ASSUME NEW bytes \in Bytes, NEW r \in Ropey(bytes), Len(r) <= BlockSize
  PROVE  RopeFor(Optimized(r), bytes)
<1>1. /\ r \in Seq(Bytes) /\ r # <<>> /\ FlattenSeq(r) = bytes
      /\ \A k \in 2..(Len(r) - 1) : r[k] # <<>>
  BY DEF Ropey
<1>2. RopeFor(r, bytes)
  <2>1. Len(r) \in Nat /\ Len(r) # 0
    BY <1>1, EmptySeq
  <2>. QED  BY <1>1, <2>1, BlockSizes DEF RopeFor, Shaped, BytesOf
<1>3. RopeFor(<<bytes>>, bytes)
  <2>. DEFINE x == <<bytes>>
  <2>1. x \in Seq(Bytes) /\ Len(x) = 1 /\ x # <<>>
    OBVIOUS
  <2>2. FlattenSeq(x) = bytes
    <3>1. bytes \in Seq(Nat)
      BY DEF Bytes
    <3>. QED  BY <3>1, FlattenOne
  <2>. HIDE DEF x
  <2>3. RopeFor(x, bytes)
    BY <2>1, <2>2, BlockSizes DEF RopeFor, Shaped, BytesOf
  <2>. QED  BY <2>3 DEF x
<1>4. Optimized(r) = <<bytes>> \/ Optimized(r) = r
  BY <1>1 DEF Optimized, BytesOf
<1>. QED  BY <1>2, <1>3, <1>4

\* The ropes of a block are those of the entries it was built from.
LEMMA BlockRopesAre ==
  ASSUME NEW recordSize, NEW es, Fits(recordSize, es)
  PROVE  LET b == BuildBlock(recordSize, es)
         IN  /\ b.num = Len(es)
             /\ \A i \in 1..Len(es) : RopeFor(RopesIn(b)[i], es[i])
<1>. DEFINE b == BuildBlock(recordSize, es)
<1>1. b.num = Len(es)
  BY BlockHeader
<1>2. es \in Seq(Bytes) /\ Len(es) \in 1..BlockSize
  BY DEF Fits
<1>3. ASSUME NEW i \in 1..Len(es) PROVE RopeFor(RopesIn(b)[i], es[i])
  <2>. DEFINE k == i - 1
  <2>1. k \in 0..(Len(es) - 1) /\ k + 1 = i /\ Len(es) \in Nat
    BY <1>2
  <2>. HIDE DEF k
  <2>2. Ropes(b)[k] \in Ropey(es[k + 1]) /\ Len(Ropes(b)[k]) <= k + 1
    BY <2>1, RopesAre
  <2>3. Ropes(b)[k] \in Seq(Bytes)
    BY <2>2 DEF Ropey
  <2>4. es[i] \in Bytes
    BY <1>2
  <2>5. Len(Ropes(b)[k]) <= BlockSize
    <3>1. Len(Ropes(b)[k]) \in Nat
      BY <2>3
    <3>. HIDE DEF b
    <3>. QED  BY <1>2, <2>1, <2>2, <3>1, BlockSizes
  <2>6. RopeFor(Optimized(Ropes(b)[k]), es[i])
    <3>. HIDE DEF b
    <3>. QED  BY <2>1, <2>2, <2>4, <2>5, OptimizedIs
  <2>7. RopesIn(b)[i] = Optimized(Ropes(b)[k])
    <3>. HIDE DEF b
    <3>1. i \in 1..b.num
      BY <1>1
    <3>. QED  BY <3>1 DEF RopesIn, IteratedRope, k
  <2>. QED  BY <2>6, <2>7
<1>. QED  BY <1>1, <1>3

\* What the builder has when the iterator is made.
LEMMA BlocksAre ==
  ASSUME NEW es, Dictionary(es), NEW b \in Works(es, Len(es))
  PROVE  LET d == Finalized(b).data
         IN  /\ d \in Seq(Placed) /\ UpTo(d, Len(d)) = Len(es)
             /\ \A n \in 1..Len(d) : \E t \in Types :
                  /\ d[n].block = BuildBlock(RecordSize[t], EntriesIn(d, es, n))
                  /\ Fits(RecordSize[t], EntriesIn(d, es, n))
<1>. DEFINE ct == TypeAfter(es, Len(es))
            w == Finalized(b)
            d == w.data
<1>1. es \in Seq(Items) /\ Len(es) \in Nat /\ SubSeq(es, 1, Len(es)) = es
  BY DEF Dictionary
<1>2. PICK tp \in Seq(Types), to \in Seq(Nat) : AtWork(tp, to, b, ct, es)
  BY <1>1 DEF Works
<1>3. Building(tp, to, w, ct, es, FALSE) /\ w.current = <<>>
  BY <1>2, BuilderEnds
<1>4. /\ TypesMet(tp, to, ct) /\ Written(w) /\ Rest(w, ct, es)
      /\ Sections(tp, to, d, es, FALSE) /\ (tp = <<>> => d = <<>>)
  BY <1>3 DEF Building
<1>5. d \in Seq(Placed) /\ Len(d) \in Nat
  BY <1>4 DEF Written, BuilderType
<1>6. UpTo(d, Len(d)) = Len(es)
  <2>1. Len(es) = UpTo(d, Len(d)) + Len(w.current) /\ UpTo(d, Len(d)) \in Nat
    BY <1>4, <1>5, UpToIs DEF Rest
  <2>. HIDE DEF d, w
  <2>. QED  BY <1>3, <2>1, EmptySeq
<1>. HIDE DEF w, d
<1>7. ASSUME NEW n \in 1..Len(d)
      PROVE  \E i \in 1..Len(tp) : n \in (Bound(to, d, i - 1) + 1)..Bound(to, d, i)
  <2>. DEFINE Boundary(i) == Bound(to, d, i)
              P == {i \in 0..Len(tp) :
                      n <= Boundary(i) => \E j \in 1..Len(tp) : n \in (Boundary(j - 1) + 1)..Boundary(j)}
  <2>1. /\ Len(tp) \in Nat /\ \A i \in 0..Len(tp) : Boundary(i) \in Nat
        /\ Boundary(0) = 0 /\ (Len(tp) # 0 => Boundary(Len(tp)) = Len(d))
    <3>1. Len(tp) \in Nat
      BY <1>4 DEF TypesMet
    <3>2. \A i \in 0..Len(tp) : Bound(to, d, i) \in Nat
      BY <1>4, <1>5, BoundType
    <3>3. Len(tp) \in 0..Len(tp)
      BY <3>1
    <3>. QED  BY <1>4, <3>1, <3>2, <3>3, BoundIs DEF Bound
  <2>2. tp # <<>> /\ Len(tp) # 0
    <3>1. tp \in Seq(Types)
      OBVIOUS
    <3>2. d # <<>>
      BY <1>5
    <3>. QED  BY <1>4, <3>1, <3>2, EmptySeq
  <2>. HIDE DEF Boundary
  <2>3. 0 \in P
    BY <2>1
  <2>4. ASSUME NEW i \in 1..Len(tp), i - 1 \in P PROVE i \in P
    <3>1. i \in 0..Len(tp) /\ i - 1 \in 0..Len(tp)
      BY <2>1
    <3>2. Boundary(i) \in Nat /\ Boundary(i - 1) \in Nat
      BY <2>1, <3>1
    <3>3. n <= Boundary(i) => n <= Boundary(i - 1) \/ n \in (Boundary(i - 1) + 1)..Boundary(i)
      BY <1>5, <3>2
    <3>. QED  BY <2>4, <3>1, <3>3
  <2>5. Len(tp) \in P
    <3>. HIDE DEF P
    <3>1. \A i \in 0..Len(tp) : i \in P
      BY <2>1, <2>3, <2>4, InductUpTo
    <3>. QED  BY <2>1, <3>1
  <2>6. n <= Boundary(Len(tp))
    BY <2>1, <2>2
  <2>. QED  BY <2>5, <2>6 DEF Boundary
<1>8. ASSUME NEW n \in 1..Len(d)
      PROVE  \E t \in Types :
               /\ d[n].block = BuildBlock(RecordSize[t], EntriesIn(d, es, n))
               /\ Fits(RecordSize[t], EntriesIn(d, es, n))
  <2>1. PICK i \in 1..Len(tp) : n \in (Bound(to, d, i - 1) + 1)..Bound(to, d, i)
    BY <1>7
  <2>. DEFINE t == tp[i]
              from == UpTo(d, n - 1)
              x == EntriesIn(d, es, n)
              num == d[n].block.num
  <2>2. t \in Types
    OBVIOUS
  <2>3. Holds(d, es, n, t)
    BY <1>4, <2>1 DEF Sections
  <2>4. /\ n - 1 \in 0..Len(d) /\ n \in 0..Len(d) /\ from \in Nat /\ num \in 1..BlockSize
        /\ UpTo(d, n) = from + num
    <3>1. n - 1 \in 0..Len(d) /\ n \in 0..Len(d)
      BY <1>5
    <3>2. /\ \A m \in 0..Len(d) : UpTo(d, m) \in Nat
          /\ \A m \in 1..Len(d) : /\ d[m].block.num \in 1..BlockSize
                                  /\ UpTo(d, m) = UpTo(d, m - 1) + d[m].block.num
      BY <1>5, UpToIs
    <3>. QED  BY <3>1, <3>2
  <2>5. UpTo(d, n) <= Len(es)
    <3>1. n \in 0..Len(d) /\ Len(d) \in n..Len(d)
      BY <1>5
    <3>. QED  BY <1>5, <1>6, <3>1, UpToGrows
  <2>6. Len(x) = num /\ x \in Seq(Bytes) /\ \A k \in 1..num : x[k] = es[from + k].entry
    <3>1. num \in Nat
      BY <2>4
    <3>2. \A k \in 1..num : es[from + k].entry \in Bytes
      <4>. SUFFICES ASSUME NEW k \in 1..num PROVE es[from + k].entry \in Bytes
        OBVIOUS
      <4>1. from + k \in 1..Len(es)
        <5>. DEFINE m == Len(es)
        <5>1. m \in Nat /\ from \in Nat /\ from + num <= m
          BY <1>1, <2>4, <2>5
        <5>. HIDE DEF m, from, num
        <5>. QED  BY <3>1, <5>1 DEF m
      <4>2. es[from + k] \in Items
        BY <1>1, <4>1
      <4>. QED  BY <4>2, ItemIs
    <3>3. x = [k \in 1..num |-> es[from + k].entry]
      BY DEF EntriesIn
    <3>. HIDE DEF x, num, from
    <3>. QED  BY <3>1, <3>2, <3>3
  <2>7. Fits(RecordSize[t], x)
    <3>1. \A k \in 1..Len(x) : x[k] = es[from + k].entry /\ es[from + k].datatype = t
      BY <2>3, <2>6 DEF Holds
    <3>2. from + Len(x) <= Len(es) /\ Len(x) \in 1..BlockSize
      BY <2>4, <2>5, <2>6
    <3>. HIDE DEF x, from, t
    <3>. QED  BY <1>4, <2>2, <2>4, <2>6, <3>1, <3>2, EntriesFit
  <2>. QED  BY <2>2, <2>3, <2>7 DEF Holds
<1>. QED  BY <1>5, <1>6, <1>8 DEF d, w

\* All blocks have the ropes of all entries.
LEMMA RopesAreFor ==
  ASSUME NEW es, Dictionary(es), NEW d \in Seq(Placed), UpTo(d, Len(d)) = Len(es),
         \A n \in 1..Len(d) : \E t \in Types :
           /\ d[n].block = BuildBlock(RecordSize[t], EntriesIn(d, es, n))
           /\ Fits(RecordSize[t], EntriesIn(d, es, n))
  PROVE  \A k \in 1..Len(es) : RopeFor(RopesOfAll(d)[k], es[k].entry)
<1>. DEFINE s == [n \in 1..Len(d) |-> RopesIn(d[n].block)]
            R == Seq(Bytes)
            F(n) == FlattenSeq(SubSeq(s, 1, n))
            P == {n \in 0..Len(d) :
                    /\ Len(F(n)) = UpTo(d, n)
                    /\ \A k \in 1..UpTo(d, n) : RopeFor(F(n)[k], es[k].entry)}
<1>1. /\ Len(d) \in Nat /\ UpTo(d, 0) = 0 /\ \A n \in 0..Len(d) : UpTo(d, n) \in Nat
      /\ \A n \in 1..Len(d) : /\ d[n].block.num \in 1..BlockSize
                              /\ UpTo(d, n) = UpTo(d, n - 1) + d[n].block.num
  BY UpToIs
<1>2. ASSUME NEW n \in 1..Len(d)
      PROVE  LET b == d[n].block
             IN  \A i \in 1..b.num : RopeFor(RopesIn(b)[i], es[UpTo(d, n - 1) + i].entry)
  <2>1. PICK t \in Types : /\ d[n].block = BuildBlock(RecordSize[t], EntriesIn(d, es, n))
                           /\ Fits(RecordSize[t], EntriesIn(d, es, n))
    OBVIOUS
  <2>. DEFINE b == d[n].block
              x == EntriesIn(d, es, n)
  <2>2. b.num = Len(x) /\ \A i \in 1..Len(x) : RopeFor(RopesIn(b)[i], x[i])
    <3>. DEFINE c == BuildBlock(RecordSize[t], x)
    <3>0. Fits(RecordSize[t], x)
      BY <2>1
    <3>. HIDE DEF x
    <3>1. c.num = Len(x) /\ \A i \in 1..Len(x) : RopeFor(RopesIn(c)[i], x[i])
      BY <3>0, BlockRopesAre
    <3>2. b = c
      BY <2>1 DEF x
    <3>. HIDE DEF c, b
    <3>. QED  BY <3>1, <3>2
  <2>3. \A i \in 1..b.num : x[i] = es[UpTo(d, n - 1) + i].entry
    BY DEF EntriesIn
  <2>. HIDE DEF x, b
  <2>4. \A i \in 1..b.num : RopeFor(RopesIn(b)[i], es[UpTo(d, n - 1) + i].entry)
    BY <2>2, <2>3
  <2>. QED  BY <2>4 DEF b
<1>3. s \in Seq(Seq(R)) /\ Len(s) = Len(d) /\ \A n \in 1..Len(d) :
        s[n] \in Seq(R) /\ Len(s[n]) = d[n].block.num /\ s[n] = RopesIn(d[n].block)
  <2>1. \A n \in 1..Len(d) : RopesIn(d[n].block) \in Seq(R)
                              /\ Len(RopesIn(d[n].block)) = d[n].block.num
    <3>. SUFFICES ASSUME NEW n \in 1..Len(d)
                  PROVE  RopesIn(d[n].block) \in Seq(R) /\ Len(RopesIn(d[n].block)) = d[n].block.num
      OBVIOUS
    <3>. DEFINE b == d[n].block
                r == RopesIn(b)
    <3>1. b.num \in Nat
      BY <1>1
    <3>2. \A i \in 1..b.num : r[i] \in R
      BY <1>2 DEF RopeFor, Shaped
    <3>3. DOMAIN r = 1..b.num /\ r = [i \in 1..b.num |-> r[i]]
      BY DEF RopesIn
    <3>. DEFINE m == b.num
    <3>. HIDE DEF r, m, R
    <3>4. r \in [1..m -> R] /\ m \in Nat
      BY <3>1, <3>2, <3>3 DEF m
    <3>5. r \in Seq(R) /\ Len(r) = m
      BY <3>4
    <3>. QED  BY <3>5 DEF r, m
  <2>. HIDE DEF R
  <2>. QED  BY <1>1, <2>1
<1>. HIDE DEF s, R
<1>4. 0 \in P
  <2>. DEFINE zero == 0
  <2>1. SubSeq(s, 1, 0) = <<>>
    BY <1>3
  <2>2. F(0) = <<>> /\ Len(F(0)) = 0
    <3>1. F(0) = <<>>
      BY <2>1, FlattenEmpty
    <3>. HIDE DEF F
    <3>. QED  BY <3>1, EmptySeq
  <2>3. \A k \in 1..0 : FALSE
    OBVIOUS
  <2>. HIDE DEF F
  <2>. QED  BY <1>1, <2>2, <2>3
<1>5. ASSUME NEW n \in 1..Len(d), n - 1 \in P PROVE n \in P
  <2>. DEFINE a == F(n - 1)
              c == s[n]
              u == UpTo(d, n - 1)
              m == d[n].block.num
              w == a \o c
  <2>1. n - 1 \in 0..Len(d) /\ n \in 0..Len(d) /\ n \in 1..Len(s) /\ n - 1 \in 0..Len(s)
    BY <1>1, <1>3
  <2>2. F(n) = w
    BY <1>3, <2>1, FlattenFirst
  <2>3. a \in Seq(R) /\ c \in Seq(R)
    <3>1. SubSeq(s, 1, n - 1) \in Seq(Seq(R))
      <4>. DEFINE SR == Seq(R)
                  j == n - 1
      <4>1. s \in Seq(SR) /\ j \in 0..Len(s)
        BY <1>3, <2>1
      <4>. HIDE DEF SR, j
      <4>2. SubSeq(s, 1, j) \in Seq(SR)
        BY <4>1, FirstIs
      <4>. QED  BY <4>2 DEF SR, j
    <3>. QED  BY <1>3, <3>1, FlattenType
  <2>4. u \in Nat /\ m \in Nat /\ UpTo(d, n) = u + m /\ Len(a) = u /\ Len(c) = m
    BY <1>1, <1>3, <1>5, <2>1
  <2>5. \A k \in 1..u : RopeFor(a[k], es[k].entry)
    BY <1>5
  <2>6. \A i \in 1..m : RopeFor(c[i], es[u + i].entry)
    BY <1>2, <1>3
  <2>. HIDE DEF a, c, u, m
  <2>7. Len(w) = u + m /\ \A k \in 1..(u + m) : w[k] = IF k <= u THEN a[k] ELSE c[k - u]
    BY <2>3, <2>4, ConcatProperties
  <2>. HIDE DEF w
  <2>8. ASSUME NEW k \in 1..(u + m) PROVE RopeFor(w[k], es[k].entry)
    <3>1. CASE k <= u
      <4>1. k \in 1..u
        BY <2>4, <3>1
      <4>. QED  BY <2>5, <2>7, <3>1, <4>1
    <3>2. CASE ~(k <= u)
      <4>1. k - u \in 1..m /\ u + (k - u) = k
        BY <2>4, <3>2
      <4>. QED  BY <2>6, <2>7, <3>2, <4>1
    <3>. QED  BY <3>1, <3>2
  <2>. HIDE DEF F
  <2>9. Len(F(n)) = UpTo(d, n) /\ \A k \in 1..UpTo(d, n) : RopeFor(F(n)[k], es[k].entry)
    BY <2>2, <2>4, <2>7, <2>8
  <2>. QED  BY <2>1, <2>9
<1>6. Len(d) \in P
  <2>. HIDE DEF P
  <2>1. \A n \in 0..Len(d) : n \in P
    BY <1>1, <1>4, <1>5, InductUpTo
  <2>. QED  BY <1>1, <2>1
<1>7. F(Len(d)) = RopesOfAll(d)
  <2>1. SubSeq(s, 1, Len(s)) = s
    BY <1>3
  <2>. QED  BY <1>3, <2>1 DEF RopesOfAll, s
<1>. HIDE DEF F
<1>. QED  BY <1>6, <1>7

\* An item as its iterator gives it.
Given(x, e) == /\ x.datatype = e.datatype /\ RopeFor(x.entry, e.entry)
               /\ x = Typed(x.datatype, x.entry)

\* The iterator of a dictionary gives its entries one for one, as ropes.
LEMMA IteratorIs ==
  ASSUME NEW es, Dictionary(es)
  PROVE  /\ DOMAIN Iterator(es) = 1..Len(es)
         /\ \A k \in 1..Len(es) : Given(Iterator(es)[k], es[k])
<1>. DEFINE built == CHOOSE f : Builds(f, es)
            d == Finalized(built[Len(es)]).data
<1>1. built[Len(es)] \in Works(es, Len(es))
  BY BuilderIs
<1>2. Iterator(es) = [k \in DOMAIN es |-> Typed(es[k].datatype, RopesOfAll(d)[k])]
  <2>. DEFINE J(w) == FlattenSeq([n \in DOMAIN w |->
                        LET b == w[n].block IN [i \in 1..b.num |-> IteratedRope(b, i - 1)]])
  <2>1. Iterator(es) = [k \in DOMAIN es |-> Typed(es[k].datatype, J(d)[k])]
    BY DEF Iterator, Builds, NextBuilder
  <2>2. d \in Seq(Placed)
    <3>. HIDE DEF built
    <3>. QED  BY <1>1, BlocksAre
  <2>. HIDE DEF d
  <2>3. DOMAIN d = 1..Len(d)
    BY <2>2
  <2>4. J(d) = RopesOfAll(d)
    BY <2>3 DEF RopesOfAll, RopesIn
  <2>. HIDE DEF J
  <2>. QED  BY <2>1, <2>4
<1>3. \A k \in 1..Len(es) : RopeFor(RopesOfAll(d)[k], es[k].entry)
  <2>1. /\ d \in Seq(Placed) /\ UpTo(d, Len(d)) = Len(es)
        /\ \A n \in 1..Len(d) : \E t \in Types :
             /\ d[n].block = BuildBlock(RecordSize[t], EntriesIn(d, es, n))
             /\ Fits(RecordSize[t], EntriesIn(d, es, n))
    <3>. HIDE DEF built
    <3>. QED  BY <1>1, BlocksAre
  <2>. HIDE DEF d
  <2>. QED  BY <2>1, RopesAreFor
<1>. HIDE DEF d
<1>4. es \in Seq(Items) /\ DOMAIN es = 1..Len(es)
  BY DEF Dictionary
<1>. QED  BY <1>2, <1>3, <1>4 DEF Given, Typed

-----------------------------------------------------------------------------
(* How often the members of a set occur in a sequence.                     *)

TimesIn(s, E) == Cardinality({i \in 1..Len(s) : s[i] \in E})
Once(x, E) == IF x \in E THEN 1 ELSE 0

\* How often a set's members occur is a number of places.
LEMMA TimesIs ==
  ASSUME NEW D, NEW s \in Seq(D), NEW E
  PROVE  /\ TimesIn(s, E) \in Nat
         /\ TimesIn(s, E) > 0 <=> \E i \in 1..Len(s) : s[i] \in E
         /\ (\A i \in 1..Len(s) : s[i] \in E) => TimesIn(s, E) = Len(s)
<1>. DEFINE I == 1..Len(s)
            T == {i \in I : s[i] \in E}
<1>1. Len(s) \in Nat
  OBVIOUS
<1>2. IsFiniteSet(I) /\ Cardinality(I) = Len(s)
  <2>. DEFINE one == 1
              n == Len(s)
  <2>1. one \in Int /\ n \in Int /\ (IF one > n THEN 0 ELSE (n - one) + 1) = n
    BY <1>1
  <2>. HIDE DEF one, n
  <2>2. IsFiniteSet(one..n) /\ Cardinality(one..n) = IF one > n THEN 0 ELSE (n - one) + 1
    BY <2>1, FS_Interval
  <2>. QED  BY <2>1, <2>2 DEF one, n
<1>. HIDE DEF I
<1>3. IsFiniteSet(T)
  BY <1>2, FS_Subset
<1>. HIDE DEF T
<1>4. Cardinality(T) \in Nat /\ (Cardinality(T) = 0 <=> T = {})
  BY <1>3, FS_CardinalityType, FS_EmptySet
<1>5. T # {} <=> \E i \in I : s[i] \in E
  BY DEF T
<1>6. (\A i \in I : s[i] \in E) => T = I
  BY DEF T
<1>7. TimesIn(s, E) = Cardinality(T)
  BY DEF TimesIn, T, I
<1>8. Cardinality(T) > 0 <=> T # {}
  BY <1>4
<1>. QED  BY <1>2, <1>4, <1>5, <1>6, <1>7, <1>8 DEF I

\* Nothing occurs in nothing.
LEMMA TimesEmpty == \A E : TimesIn(<<>>, E) = 0
<1>. SUFFICES ASSUME NEW E PROVE TimesIn(<<>>, E) = 0
  OBVIOUS
<1>1. {i \in 1..Len(<<>>) : <<>>[i] \in E} = {}
  OBVIOUS
<1>. QED  BY <1>1, FS_EmptySet DEF TimesIn

\* With one more at the end.
LEMMA TimesAppend ==
  ASSUME NEW D, NEW s \in Seq(D), NEW x \in D, NEW E
  PROVE  TimesIn(Append(s, x), E) = TimesIn(s, E) + Once(x, E)
<1>. DEFINE t == Append(s, x)
            n == Len(s)
            Hits == {i \in 1..n : s[i] \in E}
            T == {i \in 1..Len(t) : t[i] \in E}
<1>1. n \in Nat /\ Len(t) = n + 1 /\ t[n + 1] = x /\ \A i \in 1..n : t[i] = s[i]
  BY AppendProperties
<1>. HIDE DEF t
<1>2. IsFiniteSet(Hits) /\ Cardinality(Hits) \in Nat
  <2>. DEFINE one == 1
  <2>1. one \in Int /\ n \in Int
    BY <1>1
  <2>. HIDE DEF one
  <2>2. IsFiniteSet(one..n)
    BY <2>1, FS_Interval
  <2>3. Hits \in SUBSET (1..n)
    OBVIOUS
  <2>. HIDE DEF Hits
  <2>. QED  BY <2>2, <2>3, FS_Subset, FS_CardinalityType DEF one
<1>3. n + 1 \notin Hits /\ \A i \in 1..(n + 1) : i \in 1..n \/ i = n + 1
  BY <1>1
<1>4. \A i \in 1..n : i \in 1..(n + 1)
  BY <1>1
<1>5. x \in E => T = Hits \cup {n + 1}
  BY <1>1, <1>3, <1>4
<1>6. x \notin E => T = Hits
  BY <1>1, <1>3, <1>4
<1>7. TimesIn(s, E) = Cardinality(Hits) /\ TimesIn(t, E) = Cardinality(T)
  BY DEF TimesIn
<1>. HIDE DEF Hits, T
<1>8. Cardinality(Hits \cup {n + 1}) = Cardinality(Hits) + 1
  BY <1>2, <1>3, FS_AddElement
<1>9. CASE x \in E
  BY <1>2, <1>5, <1>7, <1>8, <1>9 DEF Once, t
<1>10. CASE x \notin E
  BY <1>2, <1>6, <1>7, <1>10 DEF Once, t
<1>. QED  BY <1>9, <1>10

\* In one sequence behind another.
LEMMA TimesConcat ==
  ASSUME NEW D, NEW s \in Seq(D), NEW t \in Seq(D), NEW E
  PROVE  TimesIn(s \o t, E) = TimesIn(s, E) + TimesIn(t, E)
<1>. DEFINE r(k) == SubSeq(t, 1, k)
            P == {k \in 0..Len(t) : TimesIn(s \o r(k), E) = TimesIn(s, E) + TimesIn(r(k), E)}
<1>1. Len(t) \in Nat
  OBVIOUS
<1>2. 0 \in P
  <2>1. r(0) = <<>> /\ s \o <<>> = s
    BY <1>1, ConcatEmptySeq
  <2>2. TimesIn(s, E) \in Nat /\ TimesIn(<<>>, E) = 0
    BY TimesIs, TimesEmpty
  <2>. HIDE DEF r
  <2>3. TimesIn(s \o r(0), E) = TimesIn(s, E) + TimesIn(r(0), E)
    <3>. DEFINE e == <<>>
    <3>1. r(0) = e /\ s \o e = s /\ TimesIn(e, E) = 0
      BY <2>1, <2>2
    <3>. HIDE DEF e
    <3>2. TimesIn(s \o r(0), E) = TimesIn(s, E)
      BY <3>1
    <3>3. TimesIn(r(0), E) = 0
      BY <3>1
    <3>. QED  BY <2>2, <3>2, <3>3
  <2>. QED  BY <1>1, <2>3
<1>3. ASSUME NEW k \in 1..Len(t), k - 1 \in P PROVE k \in P
  <2>. DEFINE q == r(k - 1)
  <2>1. k - 1 \in 0..Len(t) /\ k \in 0..Len(t) /\ t[k] \in D /\ (k - 1) + 1 = k
    BY <1>1
  <2>2. /\ q \in Seq(D) /\ Len(q) = k - 1 /\ \A i \in 1..(k-1) : q[i] = t[i]
        /\ r(k) \in Seq(D) /\ Len(r(k)) = k /\ \A i \in 1..k : r(k)[i] = t[i]
    <3>. DEFINE j == k - 1
    <3>1. j \in 0..Len(t) /\ k \in 0..Len(t)
      BY <2>1
    <3>. HIDE DEF j
    <3>2. /\ SubSeq(t, 1, j) \in Seq(D) /\ Len(SubSeq(t, 1, j)) = j
          /\ \A i \in 1..j : SubSeq(t, 1, j)[i] = t[i]
      BY <3>1, FirstIs
    <3>3. /\ SubSeq(t, 1, k) \in Seq(D) /\ Len(SubSeq(t, 1, k)) = k
          /\ \A i \in 1..k : SubSeq(t, 1, k)[i] = t[i]
      BY <3>1, FirstIs
    <3>. QED  BY <3>2, <3>3 DEF j
  <2>. DEFINE a == Append(q, t[k])
              z == r(k)
  <2>3. a = z
    <3>. HIDE DEF q, z
    <3>1. a \in Seq(D) /\ Len(a) = k /\ \A i \in 1..k : a[i] = IF i = k THEN t[k] ELSE q[i]
      BY <2>1, <2>2, AppendProperties
    <3>. HIDE DEF a
    <3>2. z \in Seq(D) /\ Len(z) = k /\ \A i \in 1..k : z[i] = t[i]
      BY <2>2 DEF z
    <3>3. \A i \in 1..k : a[i] = z[i]
      <4>1. \A i \in 1..k : i = k \/ i \in 1..(k - 1)
        BY <2>1
      <4>. QED  BY <2>2, <3>1, <3>2, <4>1
    <3>. QED  BY <3>1, <3>2, <3>3, SeqEqual
  <2>4. s \o a = Append(s \o q, t[k]) /\ s \o q \in Seq(D)
    <3>. HIDE DEF q
    <3>. QED  BY <2>1, <2>2, ConcatAppend
  <2>5. TimesIn(s \o q, E) = TimesIn(s, E) + TimesIn(q, E)
    BY <1>3
  <2>6. /\ TimesIn(a, E) = TimesIn(q, E) + Once(t[k], E)
        /\ TimesIn(s \o a, E) = TimesIn(s \o q, E) + Once(t[k], E)
    <3>. HIDE DEF q
    <3>1. TimesIn(a, E) = TimesIn(q, E) + Once(t[k], E)
      BY <2>1, <2>2, TimesAppend
    <3>. DEFINE u == s \o q
    <3>2. u \in Seq(D)
      BY <2>4
    <3>. HIDE DEF u, a
    <3>3. TimesIn(Append(u, t[k]), E) = TimesIn(u, E) + Once(t[k], E)
      BY <2>1, <3>2, TimesAppend
    <3>. QED  BY <2>4, <3>1, <3>3 DEF u
  <2>7. TimesIn(s, E) \in Nat /\ TimesIn(q, E) \in Nat /\ Once(t[k], E) \in Nat
    <3>. HIDE DEF q
    <3>. QED  BY <2>2, TimesIs DEF Once
  <2>8. TimesIn(s \o r(k), E) = TimesIn(s, E) + TimesIn(r(k), E)
    <3>1. TimesIn(s \o a, E) = TimesIn(s, E) + TimesIn(a, E)
      <4>. HIDE DEF a, q
      <4>. QED  BY <2>5, <2>6, <2>7
    <3>. HIDE DEF a
    <3>. QED  BY <2>3, <3>1
  <2>. HIDE DEF r
  <2>. QED  BY <2>1, <2>8
<1>4. Len(t) \in P
  <2>. HIDE DEF P
  <2>1. \A k \in 0..Len(t) : k \in P
    BY <1>1, <1>2, <1>3, InductUpTo
  <2>. QED  BY <1>1, <2>1
<1>5. r(Len(t)) = t
  BY <1>1
<1>. QED  BY <1>4, <1>5

\* In the first and in the others.
LEMMA TimesHead ==
  ASSUME NEW D, NEW s \in Seq(D), s # <<>>, NEW E
  PROVE  TimesIn(s, E) = Once(Head(s), E) + TimesIn(Tail(s), E)
<1>. DEFINE h == Head(s)
            o == <<h>>
            t == Tail(s)
<1>1. h \in D /\ t \in Seq(D) /\ o \in Seq(D) /\ s = o \o t
  BY HeadTailProperties
<1>2. o = Append(<<>>, h) /\ <<>> \in Seq(D)
  OBVIOUS
<1>. HIDE DEF h, t
<1>3. TimesIn(o, E) = Once(h, E)
  <2>1. TimesIn(Append(<<>>, h), E) = TimesIn(<<>>, E) + Once(h, E)
    BY <1>1, <1>2, TimesAppend
  <2>2. Once(h, E) \in Nat
    BY DEF Once
  <2>. QED  BY <1>2, <2>1, <2>2, TimesEmpty
<1>. HIDE DEF o
<1>4. TimesIn(o \o t, E) = TimesIn(o, E) + TimesIn(t, E)
  BY <1>1, TimesConcat
<1>. QED  BY <1>1, <1>3, <1>4 DEF h, t

\* In one item.
LEMMA OnceIs ==
  ASSUME NEW x, NEW E
  PROVE  Once(x, E) \in {0, 1} /\ (Once(x, E) = 1 <=> x \in E)
BY DEF Once

\* Of all sequences together.
LEMMA TimesFlatten ==
  ASSUME NEW D, NEW ss \in Seq(Seq(D)), NEW E
  PROVE  TimesIn(FlattenSeq(ss), E) = SumOf([d \in 1..Len(ss) |-> TimesIn(ss[d], E)])
<1>. DEFINE ns == [d \in 1..Len(ss) |-> TimesIn(ss[d], E)]
            P == {k \in 0..Len(ss) :
                    TimesIn(FlattenSeq(SubSeq(ss, 1, k)), E) = SumOf(SubSeq(ns, 1, k))}
<1>1. Len(ss) \in Nat /\ \A d \in 1..Len(ss) : ss[d] \in Seq(D)
  OBVIOUS
<1>2. ns \in Seq(Nat) /\ Len(ns) = Len(ss) /\ \A d \in 1..Len(ss) : ns[d] = TimesIn(ss[d], E)
  <2>1. \A d \in 1..Len(ss) : TimesIn(ss[d], E) \in Nat
    BY <1>1, TimesIs
  <2>. QED  BY <1>1, <2>1
<1>. HIDE DEF ns
<1>3. 0 \in P
  <2>1. SubSeq(ss, 1, 0) = <<>> /\ SubSeq(ns, 1, 0) = <<>>
    BY <1>1, <1>2
  <2>. DEFINE a == SubSeq(ss, 1, 0)
              b == SubSeq(ns, 1, 0)
  <2>2. TimesIn(FlattenSeq(a), E) = SumOf(b)
    <3>1. a = <<>> /\ b = <<>>
      BY <2>1
    <3>. HIDE DEF a, b
    <3>. QED  BY <3>1, FlattenEmpty, SumEmpty, TimesEmpty
  <2>3. 0 \in 0..Len(ss)
    BY <1>1
  <2>. QED  BY <2>2, <2>3
<1>4. ASSUME NEW k \in 1..Len(ss), k - 1 \in P PROVE k \in P
  <2>. DEFINE f == FlattenSeq(SubSeq(ss, 1, k - 1))
  <2>1. k - 1 \in 0..Len(ss) /\ k \in 0..Len(ss) /\ k \in 1..Len(ns) /\ ss[k] \in Seq(D)
    BY <1>1, <1>2
  <2>2. FlattenSeq(SubSeq(ss, 1, k)) = f \o ss[k]
    BY FlattenFirst
  <2>3. f \in Seq(D)
    <3>. DEFINE SD == Seq(D)
                j == k - 1
    <3>1. ss \in Seq(SD) /\ j \in 0..Len(ss)
      BY <2>1
    <3>. HIDE DEF SD, j
    <3>2. SubSeq(ss, 1, j) \in Seq(SD)
      BY <3>1, FirstIs
    <3>3. SubSeq(ss, 1, k - 1) \in Seq(Seq(D))
      BY <3>2 DEF SD, j
    <3>. QED  BY <3>3, FlattenType
  <2>4. SumOf(SubSeq(ns, 1, k)) = SumOf(SubSeq(ns, 1, k - 1)) + ns[k]
    BY <1>2, <2>1, SumFirst
  <2>5. TimesIn(f, E) = SumOf(SubSeq(ns, 1, k - 1))
    BY <1>4
  <2>. HIDE DEF f
  <2>6. TimesIn(f \o ss[k], E) = TimesIn(f, E) + TimesIn(ss[k], E)
    BY <2>1, <2>3, TimesConcat
  <2>7. TimesIn(FlattenSeq(SubSeq(ss, 1, k)), E) = SumOf(SubSeq(ns, 1, k))
    BY <1>2, <2>2, <2>4, <2>5, <2>6
  <2>. QED  BY <2>1, <2>7
<1>5. Len(ss) \in P
  <2>. HIDE DEF P
  <2>1. \A k \in 0..Len(ss) : k \in P
    BY <1>1, <1>3, <1>4, InductUpTo
  <2>. QED  BY <1>1, <2>1
<1>6. SubSeq(ss, 1, Len(ss)) = ss /\ SubSeq(ns, 1, Len(ss)) = ns
  BY <1>1, <1>2
<1>. QED  BY <1>5, <1>6 DEF ns

\* One number of a sum changes.
LEMMA SumChanges ==
  ASSUME NEW s \in Seq(Nat), NEW t \in Seq(Nat), Len(t) = Len(s), NEW d \in 1..Len(s),
         NEW x \in Nat, s[d] = x + t[d], \A c \in 1..Len(s) : c # d => t[c] = s[c]
  PROVE  SumOf(s) = x + SumOf(t)
<1>. DEFINE n == Len(s)
<1>1. PICK f \in [0..n -> Nat] :
        f[0] = 0 /\ (\A k \in 1..n : f[k] = f[k - 1] + s[k]) /\ SumOf(s) = f[n]
  BY SumIs
<1>2. PICK g \in [0..n -> Nat] :
        g[0] = 0 /\ (\A k \in 1..n : g[k] = g[k - 1] + t[k]) /\ SumOf(t) = g[n]
  BY SumIs
<1>3. n \in Nat /\ n \in 0..n /\ d <= n /\ d \in Nat
  OBVIOUS
<1>. HIDE DEF n
<1>. DEFINE P == {k \in 0..n : f[k] = g[k] + (IF k < d THEN 0 ELSE x)}
<1>4. 0 \in P
  BY <1>1, <1>2, <1>3 DEF n
<1>5. ASSUME NEW k \in 1..n, k - 1 \in P PROVE k \in P
  <2>1. k - 1 \in 0..n /\ k \in 0..n /\ k \in Nat
    BY <1>3
  <2>2. /\ f[k - 1] \in Nat /\ g[k - 1] \in Nat /\ s[k] \in Nat /\ t[k] \in Nat
        /\ f[k] = f[k - 1] + s[k] /\ g[k] = g[k - 1] + t[k]
    <3>1. s[k] \in Nat /\ t[k] \in Nat
      BY DEF n
    <3>. QED  BY <1>1, <1>2, <2>1, <3>1
  <2>3. f[k - 1] = g[k - 1] + (IF k - 1 < d THEN 0 ELSE x)
    BY <1>5
  <2>4. s[k] = IF k = d THEN x + t[k] ELSE t[k]
    BY DEF n
  <2>. DEFINE a == f[k - 1]
              b == g[k - 1]
              u == s[k]
              w == t[k]
  <2>. HIDE DEF a, b, u, w
  <2>5. f[k] = g[k] + (IF k < d THEN 0 ELSE x)
    <3>1. a \in Nat /\ b \in Nat /\ u \in Nat /\ w \in Nat /\ f[k] = a + u /\ g[k] = b + w
      BY <2>2 DEF a, b, u, w
    <3>2. a = b + (IF k - 1 < d THEN 0 ELSE x) /\ u = IF k = d THEN x + w ELSE w
      BY <2>3, <2>4 DEF a, b, u, w
    <3>3. CASE k < d
      <4>1. k - 1 < d /\ k # d
        BY <1>3, <2>1, <3>3
      <4>2. a = b + 0 /\ u = w
        BY <3>2, <4>1
      <4>. QED  BY <3>1, <3>3, <4>2
    <3>4. CASE k = d
      BY <1>3, <2>1, <3>1, <3>2, <3>4
    <3>5. CASE k > d
      <4>1. ~(k - 1 < d) /\ k # d /\ ~(k < d)
        BY <1>3, <2>1, <3>5
      <4>2. a = b + x /\ u = w
        BY <3>2, <4>1
      <4>. QED  BY <3>1, <4>1, <4>2
    <3>. QED  BY <1>3, <2>1, <3>3, <3>4, <3>5
  <2>. QED  BY <2>1, <2>5
<1>6. n \in P
  <2>. HIDE DEF P
  <2>1. \A k \in 0..n : k \in P
    BY <1>3, <1>4, <1>5, InductUpTo
  <2>. QED  BY <1>3, <2>1
<1>7. g[n] \in Nat
  BY <1>3
<1>. QED  BY <1>1, <1>2, <1>3, <1>6, <1>7

\* A sum is positive if one of its numbers is.
LEMMA SumPositive ==
  ASSUME NEW s \in Seq(Nat)
  PROVE  SumOf(s) > 0 <=> \E d \in 1..Len(s) : s[d] > 0
<1>. DEFINE n == Len(s)
<1>1. PICK f \in [0..n -> Nat] :
        f[0] = 0 /\ (\A k \in 1..n : f[k] = f[k - 1] + s[k]) /\ SumOf(s) = f[n]
  BY SumIs
<1>2. n \in Nat /\ n \in 0..n
  OBVIOUS
<1>. HIDE DEF n
<1>. DEFINE P == {k \in 0..n : f[k] > 0 <=> \E d \in 1..k : s[d] > 0}
<1>3. 0 \in P
  BY <1>1, <1>2
<1>4. ASSUME NEW k \in 1..n, k - 1 \in P PROVE k \in P
  <2>1. k - 1 \in 0..n /\ k \in 0..n /\ k \in Nat
    BY <1>2
  <2>2. f[k - 1] \in Nat /\ s[k] \in Nat /\ f[k] = f[k - 1] + s[k]
    BY SMTT(30), <1>1, <2>1 DEF n
  <2>3. f[k] > 0 <=> f[k - 1] > 0 \/ s[k] > 0
    BY <2>2
  <2>4. f[k - 1] > 0 <=> \E d \in 1..(k - 1) : s[d] > 0
    BY <1>4
  <2>5. \A d : d \in 1..k <=> d \in 1..(k - 1) \/ d = k
    BY <2>1
  <2>6. f[k] > 0 <=> \E d \in 1..k : s[d] > 0
    BY <2>3, <2>4, <2>5
  <2>. QED  BY <2>1, <2>6
<1>5. n \in P
  <2>. HIDE DEF P
  <2>1. \A k \in 0..n : k \in P
    BY <1>2, <1>3, <1>4, InductUpTo
  <2>. QED  BY <1>2, <2>1
<1>. QED  BY <1>1, <1>5 DEF n

-----------------------------------------------------------------------------
(* What the iterators have yet to give.                                    *)

GivenItems ==
  {x \in [datatype : Types, entry : Seq(Seq(Nat))] :
     Shaped(x.entry) /\ Len(x.entry) \in 1..BlockSize /\ Bytewise(x) \in Items}

Shown(q) == [k \in 1..Len(q) |-> Bytewise(q[k])]

Queue(q) ==
  /\ q \in Seq(GivenItems)
  /\ \A i, j \in 1..Len(q) : i < j => AtMostTyped(Bytewise(q[i]), Bytewise(q[j]))

Queues(its) ==
  /\ its = [d \in 1..Len(its) |-> its[d]] /\ Len(its) \in Nat
  /\ \A d \in 1..Len(its) : Queue(its[d])

Waiting(its, E) == SumOf([d \in 1..Len(its) |-> TimesIn(Shown(its[d]), E)])

\* Entry e comes no later than what the iterators have left.
ComesFirst(e, its) ==
  \A d \in 1..Len(its) : \A k \in 1..Len(its[d]) : AtMostTyped(e, Bytewise(its[d][k]))

\* Items are ordered.
LEMMA ItemOrder ==
  ASSUME NEW x \in Items, NEW y \in Items, NEW z \in Items
  PROVE  /\ AtMostTyped(x, x)
         /\ AtMostTyped(x, y) /\ AtMostTyped(y, z) => AtMostTyped(x, z)
<1>. DEFINE a == x.entry
            b == y.entry
            c == z.entry
<1>1. /\ a \in Bytes /\ b \in Bytes /\ c \in Bytes
      /\ x.datatype \in Nat /\ y.datatype \in Nat /\ z.datatype \in Nat
  BY ItemIs
<1>. HIDE DEF a, b, c
<1>2. \A u, w \in Bytes : Ordering(u, w) # "Greater" <=> AtMost(u, w)
  <2>. SUFFICES ASSUME NEW u \in Bytes, NEW w \in Bytes
                PROVE  Ordering(u, w) # "Greater" <=> AtMost(u, w)
    OBVIOUS
  <2>1. /\ u = w \/ Below(u, w) \/ Below(w, u)
        /\ Below(u, w) => u # w /\ ~Below(w, u)
        /\ Ordering(u, w) = "Equal" <=> u = w
        /\ Ordering(u, w) = "Greater" <=> Below(w, u)
    BY OrderTotal
  <2>. QED  BY <2>1 DEF AtMost
<1>3. /\ AtMostTyped(x, x) <=> x.datatype < x.datatype \/ (x.datatype = x.datatype /\ AtMost(a, a))
      /\ AtMostTyped(x, y) <=> x.datatype < y.datatype \/ (x.datatype = y.datatype /\ AtMost(a, b))
      /\ AtMostTyped(y, z) <=> y.datatype < z.datatype \/ (y.datatype = z.datatype /\ AtMost(b, c))
      /\ AtMostTyped(x, z) <=> x.datatype < z.datatype \/ (x.datatype = z.datatype /\ AtMost(a, c))
  <2>1. /\ Ordering(a, a) # "Greater" <=> AtMost(a, a)
        /\ Ordering(a, b) # "Greater" <=> AtMost(a, b)
        /\ Ordering(b, c) # "Greater" <=> AtMost(b, c)
        /\ Ordering(a, c) # "Greater" <=> AtMost(a, c)
    BY <1>1, <1>2
  <2>. QED  BY <2>1 DEF AtMostTyped, a, b, c
<1>4. AtMost(a, a) /\ (AtMost(a, b) /\ AtMost(b, c) => AtMost(a, c))
  BY <1>1, AtMostTrans DEF AtMost
<1>. QED  BY <1>1, <1>3, <1>4

\* What an iterator may give.
LEMMA GivenIs ==
  ASSUME NEW x \in GivenItems
  PROVE  /\ Roped(x) /\ Bytewise(x) \in Items /\ Len(x.entry) \in 1..BlockSize
         /\ x \in [datatype : Types, entry : Seq(Seq(Nat))]
         /\ Bytewise(x).datatype = x.datatype /\ Bytewise(x).entry = BytesOf(x.entry)
         /\ x.datatype \in Types /\ BytesOf(x.entry) \in ValuesOf(x.datatype)
<1>1. x.datatype \in Types /\ x.datatype \in Nat
  BY TypesAssumption DEF GivenItems
<1>2. Bytewise(x).datatype = x.datatype /\ Bytewise(x).entry = BytesOf(x.entry)
  BY DEF Bytewise, Typed
<1>3. Bytewise(x) \in Items
  BY DEF GivenItems
<1>4. Bytewise(x).entry \in ValuesOf(Bytewise(x).datatype)
  BY <1>3, ItemIs
<1>. QED  BY <1>1, <1>2, <1>3, <1>4 DEF GivenItems, Roped

\* What is waiting in one iterator, as items.
LEMMA ShownIs ==
  ASSUME NEW q \in Seq(GivenItems)
  PROVE  /\ Shown(q) \in Seq(Items) /\ Len(Shown(q)) = Len(q)
         /\ \A k \in 1..Len(q) : q[k] \in GivenItems /\ Shown(q)[k] = Bytewise(q[k])
<1>1. \A k \in 1..Len(q) : q[k] \in GivenItems
  OBVIOUS
<1>2. \A k \in 1..Len(q) : Bytewise(q[k]) \in Items
  BY <1>1, GivenIs
<1>3. Len(q) \in Nat
  OBVIOUS
<1>4. Shown(q) \in [1..Len(q) -> Items]
  BY <1>2 DEF Shown
<1>5. Shown(q) \in Seq(Items) /\ Len(Shown(q)) = Len(q)
  BY <1>3, <1>4
<1>. QED  BY <1>1, <1>5 DEF Shown

\* An iterator starts with a dictionary's entries.
LEMMA QueueStarts ==
  ASSUME NEW es, Dictionary(es)
  PROVE  Queue(Iterator(es)) /\ Shown(Iterator(es)) = es
<1>. DEFINE q == Iterator(es)
            N == Len(es)
<1>1. es \in Seq(Items) /\ N \in Nat /\ DOMAIN es = 1..N
      /\ \A i, j \in 1..N : i < j => AtMostTyped(es[i], es[j])
  BY DEF Dictionary
<1>2. DOMAIN q = 1..N /\ \A k \in 1..N : Given(q[k], es[k])
  BY IteratorIs
<1>3. q = [k \in 1..N |-> q[k]]
  <2>1. \E f : q = [k \in DOMAIN es |-> f[k]]
    <3>. DEFINE built == CHOOSE f : Builds(f, es)
                J == FlattenSeq([n \in DOMAIN Finalized(built[N]).data |->
                        LET b == Finalized(built[N]).data[n].block
                        IN  [i \in 1..b.num |-> IteratedRope(b, i - 1)]])
                g == [k \in DOMAIN es |-> Typed(es[k].datatype, J[k])]
    <3>1. q = g
      BY DEF Iterator, Builds, NextBuilder
    <3>. HIDE DEF J
    <3>2. g = [k \in DOMAIN es |-> g[k]]
      OBVIOUS
    <3>. HIDE DEF g, q
    <3>. QED  BY <3>1, <3>2
  <2>. HIDE DEF q
  <2>. QED  BY <1>2, <2>1
<1>. HIDE DEF q
<1>4. ASSUME NEW k \in 1..N PROVE q[k] \in GivenItems /\ Bytewise(q[k]) = es[k]
  <2>. DEFINE x == q[k]
              e == es[k]
  <2>1. e \in Items
    BY <1>1
  <2>2. x.datatype = e.datatype /\ RopeFor(x.entry, e.entry) /\ x = Typed(x.datatype, x.entry)
    BY <1>2 DEF Given
  <2>3. e = Typed(e.datatype, e.entry) /\ e.datatype \in Types
    BY <2>1, ItemIs
  <2>. HIDE DEF x, e
  <2>4. Bytewise(x) = e
    BY <2>2, <2>3 DEF RopeFor, Bytewise
  <2>5. Shaped(x.entry) /\ Len(x.entry) \in 1..BlockSize
    BY <2>2 DEF RopeFor
  <2>6. x.entry \in Seq(Seq(Nat))
    BY <2>5 DEF Shaped, Bytes
  <2>7. Typed(x.datatype, x.entry) \in [datatype : Types, entry : Seq(Seq(Nat))]
    BY <2>2, <2>3, <2>6 DEF Typed
  <2>8. x \in GivenItems
    BY <2>1, <2>2, <2>4, <2>5, <2>7 DEF GivenItems
  <2>. QED  BY <2>4, <2>8 DEF x, e
<1>. HIDE DEF N
<1>5. q \in Seq(GivenItems) /\ Len(q) = N
  <2>. DEFINE G == GivenItems
  <2>1. \A k \in 1..N : q[k] \in G
    BY <1>4
  <2>. HIDE DEF G
  <2>2. q \in [1..N -> G]
    BY <1>3, <2>1
  <2>3. q \in Seq(G) /\ Len(q) = N
    BY <1>1, <2>2 DEF N
  <2>. QED  BY <2>3 DEF G
<1>6. \A i, j \in 1..N : i < j => AtMostTyped(Bytewise(q[i]), Bytewise(q[j]))
  BY <1>1, <1>4 DEF N
<1>7. Queue(q)
  BY <1>5, <1>6 DEF Queue
<1>8. Shown(q) = es
  <2>1. Shown(q) = [k \in 1..N |-> Bytewise(q[k])]
    BY <1>5 DEF Shown
  <2>2. [k \in 1..N |-> Bytewise(q[k])] = [k \in 1..N |-> es[k]]
    BY <1>4
  <2>3. es = [k \in 1..N |-> es[k]]
    BY <1>1 DEF N
  <2>. QED  BY <2>1, <2>2, <2>3
<1>. QED  BY <1>7, <1>8 DEF q

\* The first of a queue is given.
LEMMA QueueGoesOn ==
  ASSUME NEW q, Queue(q), q # <<>>
  PROVE  LET e == Bytewise(Head(q))
         IN  /\ Head(q) \in GivenItems /\ e \in Items /\ Queue(Tail(q))
             /\ \A k \in 1..Len(q) : AtMostTyped(e, Bytewise(q[k]))
             /\ \A k \in 1..Len(Tail(q)) : k + 1 \in 1..Len(q) /\ Tail(q)[k] = q[k + 1]
             /\ \A E : TimesIn(Shown(q), E) = Once(e, E) + TimesIn(Shown(Tail(q)), E)
<1>. DEFINE G == GivenItems
            h == Head(q)
            t == Tail(q)
            n == Len(q)
            e == Bytewise(h)
<1>1. q \in Seq(G)
  BY DEF Queue
<1>2. n \in Nat \ {0} /\ h = q[1] /\ h \in G /\ t \in Seq(G) /\ Len(t) = n - 1
      /\ \A k \in 1..(n - 1) : t[k] = q[k + 1]
  <2>. HIDE DEF G
  <2>. QED  BY <1>1, HeadTailProperties, EmptySeq
<1>3. e \in Items /\ \A k \in 1..n : Bytewise(q[k]) \in Items
  BY <1>1, <1>2, GivenIs
<1>4. \A i, j \in 1..n : i < j => AtMostTyped(Bytewise(q[i]), Bytewise(q[j]))
  BY DEF Queue
<1>. HIDE DEF G, h, t
<1>5. \A k \in 1..(n - 1) : k + 1 \in 1..n
  BY <1>2
<1>6. Queue(t)
  <2>1. ASSUME NEW i \in 1..(n-1), NEW j \in 1..(n-1), i < j
        PROVE  AtMostTyped(Bytewise(t[i]), Bytewise(t[j]))
    <3>1. i + 1 \in 1..n /\ j + 1 \in 1..n /\ i + 1 < j + 1
      BY <1>2, <2>1
    <3>2. AtMostTyped(Bytewise(q[i + 1]), Bytewise(q[j + 1]))
      BY <1>4, <3>1
    <3>. QED  BY <1>2, <3>2
  <2>. QED  BY <1>2, <2>1 DEF Queue, G
<1>7. ASSUME NEW k \in 1..n PROVE AtMostTyped(e, Bytewise(q[k]))
  <2>1. 1 \in 1..n /\ (k = 1 \/ 1 < k)
    BY <1>2
  <2>2. AtMostTyped(e, e)
    BY <1>3, ItemOrder
  <2>3. 1 < k => AtMostTyped(Bytewise(q[1]), Bytewise(q[k]))
    BY <1>4, <2>1
  <2>. QED  BY <1>2, <2>1, <2>2, <2>3
<1>8. ASSUME NEW E PROVE TimesIn(Shown(q), E) = Once(e, E) + TimesIn(Shown(t), E)
  <2>. DEFINE s == Shown(q)
              r == Shown(t)
  <2>1. s \in Seq(Items) /\ Len(s) = n /\ \A k \in 1..n : s[k] = Bytewise(q[k])
    BY <1>1, ShownIs DEF G
  <2>2. r \in Seq(Items) /\ Len(r) = n - 1 /\ \A k \in 1..(n - 1) : r[k] = Bytewise(t[k])
    BY <1>2, ShownIs DEF G
  <2>. DEFINE I == Items
  <2>. HIDE DEF s, r, I
  <2>3. s # <<>> /\ s \in Seq(I) /\ r \in Seq(I)
    BY <1>2, <2>1, <2>2, EmptySeq DEF I
  <2>4. /\ Head(s) = s[1] /\ Tail(s) \in Seq(I) /\ Len(Tail(s)) = n - 1
        /\ \A k \in 1..(n - 1) : Tail(s)[k] = s[k + 1]
    BY <2>1, <2>3, HeadTailProperties
  <2>5. Head(s) = e
    BY <1>2, <2>1, <2>4
  <2>6. \A k \in 1..(n - 1) : Tail(s)[k] = r[k]
    BY ZenonT(40), <1>2, <1>5, <2>1, <2>2, <2>4
  <2>7. Tail(s) = r
    BY <2>2, <2>3, <2>4, <2>6, SeqEqual
  <2>8. TimesIn(s, E) = Once(Head(s), E) + TimesIn(Tail(s), E)
    BY <2>3, TimesHead
  <2>. QED  BY <2>5, <2>7, <2>8 DEF s, r
<1>. QED  BY <1>2, <1>3, <1>5, <1>6, <1>7, <1>8 DEF G, h, t

\* How much is waiting.
LEMMA WaitingIs ==
  ASSUME NEW its, Queues(its), NEW E
  PROVE  LET ns == [d \in 1..Len(its) |-> TimesIn(Shown(its[d]), E)]
         IN  /\ Waiting(its, E) \in Nat /\ ns \in Seq(Nat) /\ Len(ns) = Len(its)
             /\ \A d \in 1..Len(its) : ns[d] = TimesIn(Shown(its[d]), E)
             /\ Waiting(its, E) > 0 <=>
                  \E d \in 1..Len(its) : \E k \in 1..Len(its[d]) : Bytewise(its[d][k]) \in E
<1>. DEFINE ns == [d \in 1..Len(its) |-> TimesIn(Shown(its[d]), E)]
<1>1. ASSUME NEW d \in 1..Len(its)
      PROVE  /\ TimesIn(Shown(its[d]), E) \in Nat
             /\ TimesIn(Shown(its[d]), E) > 0 <=>
                  \E k \in 1..Len(its[d]) : Bytewise(its[d][k]) \in E
  <2>1. its[d] \in Seq(GivenItems)
    BY DEF Queues, Queue
  <2>2. /\ Shown(its[d]) \in Seq(Items) /\ Len(Shown(its[d])) = Len(its[d])
        /\ \A k \in 1..Len(its[d]) : Shown(its[d])[k] = Bytewise(its[d][k])
    BY <2>1, ShownIs
  <2>3. /\ TimesIn(Shown(its[d]), E) \in Nat
        /\ TimesIn(Shown(its[d]), E) > 0 <=> \E k \in 1..Len(Shown(its[d])) : Shown(its[d])[k] \in E
    BY <2>2, TimesIs
  <2>. QED  BY <2>2, <2>3
<1>2. Len(its) \in Nat
  BY DEF Queues
<1>3. ns \in Seq(Nat) /\ Len(ns) = Len(its)
      /\ \A d \in 1..Len(its) : ns[d] = TimesIn(Shown(its[d]), E)
  BY <1>1, <1>2
<1>. HIDE DEF ns
<1>4. SumOf(ns) \in Nat /\ (SumOf(ns) > 0 <=> \E d \in 1..Len(ns) : ns[d] > 0)
  BY <1>3, SumType, SumPositive
<1>5. Waiting(its, E) = SumOf(ns)
  BY DEF Waiting, ns
<1>6. SumOf(ns) > 0 <=>
        \E d \in 1..Len(its) : \E k \in 1..Len(its[d]) : Bytewise(its[d][k]) \in E
  BY SMTT(30), <1>1, <1>3, <1>4
<1>. QED  BY <1>3, <1>4, <1>5, <1>6 DEF ns

\* Iterators that have something left.
LEMMA LiveIs ==
  ASSUME NEW its, Queues(its)
  PROVE  /\ DOMAIN its = 1..Len(its)
         /\ Live(its) = {d \in 1..Len(its) : its[d] # <<>>}
         /\ \A d \in Live(its) : Queue(its[d]) /\ Head(its[d]) \in GivenItems
                                /\ Roped(Head(its[d])) /\ Head(its[d]) = its[d][1]
                                /\ 1 \in 1..Len(its[d])
<1>1. DOMAIN its = 1..Len(its)
  BY DEF Queues
<1>2. Live(its) = {d \in 1..Len(its) : its[d] # <<>>}
  BY <1>1 DEF Live
<1>3. ASSUME NEW d \in Live(its)
      PROVE  Queue(its[d]) /\ Head(its[d]) \in GivenItems
             /\ Roped(Head(its[d])) /\ Head(its[d]) = its[d][1] /\ 1 \in 1..Len(its[d])
  <2>. DEFINE q == its[d]
  <2>1. Queue(q) /\ q # <<>>
    BY <1>2 DEF Queues
  <2>2. q \in Seq(GivenItems)
    BY <2>1 DEF Queue
  <2>. HIDE DEF q
  <2>3. Head(q) \in GivenItems /\ Head(q) = q[1] /\ Len(q) \in Nat \ {0}
    <3>. DEFINE G == GivenItems
    <3>. HIDE DEF G
    <3>1. q \in Seq(G)
      BY <2>2 DEF G
    <3>2. Head(q) \in G /\ Head(q) = q[1] /\ Len(q) \in Nat \ {0}
      BY <2>1, <3>1, HeadTailProperties, EmptySeq
    <3>. QED  BY <3>2 DEF G
  <2>. QED  BY <2>1, <2>3, GivenIs DEF q
<1>. QED  BY <1>1, <1>2, <1>3

Without(its, d) == [its EXCEPT ![d] = Tail(@)]

\* A smallest head is taken: it comes before all that is left.
LEMMA TakenFirst ==
  ASSUME NEW its, Queues(its), NEW d \in Smallest(its)
  PROVE  LET e == Bytewise(Head(its[d]))
             rest == Without(its, d)
         IN  /\ d \in Live(its) /\ d \in 1..Len(its) /\ its[d] # <<>> /\ e \in Items
             /\ Queues(rest) /\ Len(rest) = Len(its) /\ ComesFirst(e, its)
             /\ \A c \in 1..Len(rest) : \A k \in 1..Len(rest[c]) :
                  \E j \in 1..Len(its[c]) : rest[c][k] = its[c][j]
             /\ \A E : Waiting(its, E) = Once(e, E) + Waiting(rest, E)
<1>. DEFINE n == Len(its)
            h(c) == Head(its[c])
            e == Bytewise(h(d))
            t == Tail(its[d])
            rest == [its EXCEPT ![d] = t]
<1>1. /\ DOMAIN its = 1..n /\ Live(its) = {c \in 1..n : its[c] # <<>>}
      /\ \A c \in Live(its) : Queue(its[c]) /\ h(c) \in GivenItems /\ Roped(h(c))
                             /\ h(c) = its[c][1] /\ 1 \in 1..Len(its[c])
  BY LiveIs
<1>2. d \in Live(its) /\ \A c \in Live(its) : NotAfter(h(d), h(c))
  BY DEF Smallest, NotAfter
<1>3. n \in Nat /\ its = [c \in 1..n |-> its[c]] /\ \A c \in 1..n : Queue(its[c])
  BY DEF Queues
<1>4. d \in 1..n /\ its[d] # <<>>
  BY <1>1, <1>2
<1>5. /\ e \in Items /\ Queue(t)
      /\ \A k \in 1..Len(t) : k + 1 \in 1..Len(its[d]) /\ t[k] = its[d][k + 1]
      /\ \A E : TimesIn(Shown(its[d]), E) = Once(e, E) + TimesIn(Shown(t), E)
  BY <1>3, <1>4, QueueGoesOn
<1>. HIDE DEF n, t
<1>6. rest = [c \in 1..n |-> IF c = d THEN t ELSE its[c]]
  BY <1>3, <1>4
<1>. HIDE DEF rest
<1>7. Len(rest) = n /\ rest = [c \in 1..n |-> rest[c]]
      /\ \A c \in 1..n : rest[c] = IF c = d THEN t ELSE its[c]
  <2>1. rest = [c \in 1..n |-> rest[c]] /\ DOMAIN rest = 1..n
        /\ \A c \in 1..n : rest[c] = IF c = d THEN t ELSE its[c]
    BY <1>6
  <2>2. Len(rest) = n
    <3>. DEFINE V == {rest[c] : c \in 1..n}
    <3>1. rest \in [1..n -> V]
      BY <2>1
    <3>. HIDE DEF V
    <3>. QED  BY <1>3, <3>1
  <2>. QED  BY <2>1, <2>2
<1>8. Queues(rest)
  BY <1>3, <1>5, <1>7 DEF Queues
<1>9. ASSUME NEW c \in 1..n, NEW k \in 1..Len(its[c])
      PROVE  AtMostTyped(e, Bytewise(its[c][k]))
  <2>1. c \in Live(its)
    <3>1. its[c] # <<>>
      <4>1. 1..Len(<<>>) = {}
        OBVIOUS
      <4>. QED  BY <4>1
    <3>. QED  BY <1>1, <3>1
  <2>2. AtMostTyped(e, Bytewise(h(c)))
    BY <1>1, <1>2, <2>1, NotAfterOrders
  <2>3. Bytewise(h(c)) \in Items /\ AtMostTyped(Bytewise(h(c)), Bytewise(its[c][k]))
    BY <1>1, <1>3, <2>1, QueueGoesOn
  <2>4. Bytewise(its[c][k]) \in Items
    <3>1. its[c] \in Seq(GivenItems)
      BY <1>3 DEF Queue
    <3>. QED  BY <3>1, GivenIs
  <2>. HIDE DEF e, h
  <2>. QED  BY <1>5, <2>2, <2>3, <2>4, ItemOrder
<1>10. ASSUME NEW c \in 1..n, NEW k \in 1..Len(rest[c])
       PROVE  \E j \in 1..Len(its[c]) : rest[c][k] = its[c][j]
  <2>1. CASE c = d
    BY <1>5, <1>7, <2>1
  <2>2. CASE c # d
    BY <1>7, <2>2
  <2>. QED  BY <2>1, <2>2
<1>11. ASSUME NEW E PROVE Waiting(its, E) = Once(e, E) + Waiting(rest, E)
  <2>. DEFINE s == [c \in 1..n |-> TimesIn(Shown(its[c]), E)]
              u == [c \in 1..n |-> TimesIn(Shown(rest[c]), E)]
              x == Once(e, E)
  <2>1. s \in Seq(Nat) /\ Len(s) = n /\ \A c \in 1..n : s[c] = TimesIn(Shown(its[c]), E)
    BY WaitingIs DEF n
  <2>2. u \in Seq(Nat) /\ Len(u) = n /\ \A c \in 1..n : u[c] = TimesIn(Shown(rest[c]), E)
    <3>. DEFINE m == Len(rest)
                w == [c \in 1..m |-> TimesIn(Shown(rest[c]), E)]
    <3>1. w \in Seq(Nat) /\ Len(w) = m /\ \A c \in 1..m : w[c] = TimesIn(Shown(rest[c]), E)
      BY <1>8, WaitingIs
    <3>2. m = n /\ w = u
      BY <1>7
    <3>. HIDE DEF m, w, u
    <3>. QED  BY <3>1, <3>2
  <2>3. Waiting(its, E) = SumOf(s) /\ Waiting(rest, E) = SumOf(u)
    BY <1>7 DEF Waiting, n
  <2>4. x \in Nat
    BY OnceIs
  <2>5. s[d] = x + u[d] /\ \A c \in 1..n : c # d => u[c] = s[c]
    BY <1>4, <1>5, <1>7, <2>1, <2>2
  <2>. HIDE DEF s, u, x
  <2>6. SumOf(s) = x + SumOf(u)
    <3>1. Len(u) = Len(s) /\ d \in 1..Len(s) /\ \A c \in 1..Len(s) : c # d => u[c] = s[c]
      BY <1>4, <2>1, <2>2, <2>5
    <3>. QED  BY <2>1, <2>2, <2>4, <2>5, <3>1, SumChanges
  <2>. QED  BY <2>3, <2>6 DEF x
<1>12. ComesFirst(e, its)
  BY <1>9 DEF ComesFirst, n
<1>13. rest = Without(its, d) /\ e = Bytewise(Head(its[d]))
  BY DEF rest, t, Without
<1>. HIDE DEF e, h
<1>14. /\ d \in Live(its) /\ d \in 1..Len(its) /\ its[d] # <<>> /\ e \in Items
       /\ Queues(rest) /\ Len(rest) = Len(its) /\ ComesFirst(e, its)
       /\ \A c \in 1..Len(rest) : \A k \in 1..Len(rest[c]) :
            \E j \in 1..Len(its[c]) : rest[c][k] = its[c][j]
       /\ \A E : Waiting(its, E) = Once(e, E) + Waiting(rest, E)
  BY <1>2, <1>4, <1>5, <1>7, <1>8, <1>10, <1>11, <1>12 DEF n
<1>. QED  BY ONLY <1>13, <1>14

-----------------------------------------------------------------------------
(* The invariant of a merge.                                               *)

Calls ==
  /\ sources \in Sources
  /\ merging \in {"typed", "string"} /\ outcome \in {"running", "done", "failed"}
  /\ opened \in 0..Len(OpenOrder) /\ synced \in 0..Len(SyncOrder)
  /\ phase \in {"building", "finished"}
  /\ opened < Len(OpenOrder) => phase = "building" /\ added = <<>>
  /\ phase = "building" => synced = 0
  /\ phase = "finished" => Live(iters) = {}
  /\ outcome = "done" <=> synced = Len(SyncOrder)

\* Nothing is lost and nothing made up, and what is left comes after what has
\* been added.
Conserved ==
  /\ Queues(iters) /\ added \in Seq(Items)
  /\ \A E \in SUBSET Items :
       TimesIn(FlattenSeq(sources), E) = TimesIn(added, E) + Waiting(iters, E)
  /\ added # <<>> => ComesFirst(Last(added), iters)
  /\ ToSet(typesPresent) = {e.datatype : e \in ToSet(added)}

MergeInv == Inv /\ Calls /\ Conserved

\* The files are opened and written in orders of the same files.
LEMMA OrdersAre ==
  ASSUME merging \in {"typed", "string"}
  PROVE  /\ Len(SyncOrder) = Len(OpenOrder) /\ Len(OpenOrder) \in Nat \ {0}
         /\ \A n \in 0..Len(SyncOrder) :
              ToSet(SubSeq(SyncOrder, 1, n)) = ToSet(OpenOrder) => n = Len(SyncOrder)
<1>. DEFINE D == {"types_present", "type_offsets", "blocks", "offsets"}
            s == SyncOrder
            m == Len(s)
<1>1. CASE merging = "typed"
  <2>1. OpenOrder = <<"types_present", "type_offsets", "blocks", "offsets">>
    BY <1>1 DEF OpenOrder
  <2>2. s = <<"types_present", "type_offsets", "offsets", "blocks">>
    BY <1>1 DEF SyncOrder
  <2>3. /\ Len(OpenOrder) = 4 /\ m = 4 /\ s \in Seq(D) /\ "blocks" \in ToSet(OpenOrder)
        /\ \A i \in 1..(m - 1) : s[i] # "blocks"
    <3>1. \A i \in 1..3 : i = 1 \/ i = 2 \/ i = 3
      OBVIOUS
    <3>2. 3 \in DOMAIN OpenOrder /\ OpenOrder[3] = "blocks"
      BY <2>1
    <3>. HIDE DEF s
    <3>. QED  BY <2>1, <2>2, <3>1, <3>2 DEF ToSet
  <2>4. \A n \in 0..3 : "blocks" \notin ToSet(SubSeq(s, 1, n))
    <3>. HIDE DEF s, D, m
    <3>1. ASSUME NEW n \in 0..3
          PROVE  SubSeq(s, 1, n) \in Seq(D) /\ Len(SubSeq(s, 1, n)) = n
                 /\ \A i \in 1..n : SubSeq(s, 1, n)[i] = s[i]
      <4>1. n \in 0..Len(s)
        BY <2>3 DEF m
      <4>. QED  BY <2>3, <4>1, FirstIs
    <3>2. \A n \in 0..3 : \A i \in 1..n : i \in 1..3
      OBVIOUS
    <3>3. m - 1 = 3
      BY <2>3
    <3>4. ASSUME NEW n \in 0..3 PROVE "blocks" \notin ToSet(SubSeq(s, 1, n))
      <4>1. DOMAIN SubSeq(s, 1, n) = 1..n
        BY <3>1
      <4>. QED  BY <2>3, <3>1, <3>2, <3>3, <4>1 DEF ToSet
    <3>. QED  BY <3>4
  <2>5. \A n \in 0..m : n \in 0..3 \/ n = m
    BY <2>3
  <2>. HIDE DEF s
  <2>6. \A n \in 0..m : ToSet(SubSeq(s, 1, n)) = ToSet(OpenOrder) => n = m
    BY <2>3, <2>4, <2>5
  <2>. QED  BY <2>3, <2>6 DEF s
<1>2. CASE merging = "string"
  <2>1. OpenOrder = <<"blocks", "offsets">>
    BY <1>2 DEF OpenOrder
  <2>2. s = <<"offsets", "blocks">>
    BY <1>2 DEF SyncOrder
  <2>3. /\ Len(OpenOrder) = 2 /\ m = 2 /\ s \in Seq(D) /\ "blocks" \in ToSet(OpenOrder)
        /\ \A i \in 1..(m - 1) : s[i] # "blocks"
    <3>1. \A i \in 1..1 : i = 1
      OBVIOUS
    <3>2. 1 \in DOMAIN OpenOrder /\ OpenOrder[1] = "blocks"
      BY <2>1
    <3>. HIDE DEF s
    <3>. QED  BY <2>1, <2>2, <3>1, <3>2 DEF ToSet
  <2>4. \A n \in 0..1 : "blocks" \notin ToSet(SubSeq(s, 1, n))
    <3>. HIDE DEF s, D, m
    <3>1. ASSUME NEW n \in 0..1
          PROVE  SubSeq(s, 1, n) \in Seq(D) /\ Len(SubSeq(s, 1, n)) = n
                 /\ \A i \in 1..n : SubSeq(s, 1, n)[i] = s[i]
      <4>1. n \in 0..Len(s)
        BY <2>3 DEF m
      <4>. QED  BY <2>3, <4>1, FirstIs
    <3>2. \A n \in 0..1 : \A i \in 1..n : i \in 1..1
      OBVIOUS
    <3>3. m - 1 = 1
      BY <2>3
    <3>4. ASSUME NEW n \in 0..1 PROVE "blocks" \notin ToSet(SubSeq(s, 1, n))
      <4>1. DOMAIN SubSeq(s, 1, n) = 1..n
        BY <3>1
      <4>. QED  BY <2>3, <3>1, <3>2, <3>3, <4>1 DEF ToSet
    <3>. QED  BY <3>4
  <2>5. \A n \in 0..m : n \in 0..1 \/ n = m
    BY <2>3
  <2>. HIDE DEF s
  <2>6. \A n \in 0..m : ToSet(SubSeq(s, 1, n)) = ToSet(OpenOrder) => n = m
    BY <2>3, <2>4, <2>5
  <2>. QED  BY <2>3, <2>6 DEF s
<1>. QED  BY <1>1, <1>2

\* The sources are dictionaries.
LEMMA SourcesAre ==
  ASSUME NEW dictionaries \in Sources
  PROVE  /\ dictionaries \in Seq(Seq(Items)) /\ Len(dictionaries) \in Nat
         /\ DOMAIN dictionaries = 1..Len(dictionaries)
         /\ \A d \in 1..Len(dictionaries) : Dictionary(dictionaries[d])
<1>. DEFINE ItemSeqs == Seq(Items)
<1>1. /\ dictionaries \in Seq(ItemSeqs)
      /\ \A d \in DOMAIN dictionaries : \A i, j \in DOMAIN dictionaries[d] :
           i < j => AtMostTyped(dictionaries[d][i], dictionaries[d][j])
  BY SourcesAssumption
<1>. HIDE DEF ItemSeqs
<1>2. /\ Len(dictionaries) \in Nat /\ DOMAIN dictionaries = 1..Len(dictionaries)
      /\ \A d \in 1..Len(dictionaries) : dictionaries[d] \in ItemSeqs
  BY <1>1
<1>. QED  BY <1>1, <1>2 DEF ItemSeqs, Dictionary

\* A merge starts with the invariant.
LEMMA MergeStarts == MergeInit => MergeInv
<1>. SUFFICES ASSUME MergeInit PROVE MergeInv
  OBVIOUS
<1>. DEFINE n == Len(sources)
<1>1. Init /\ sources \in Sources /\ opened = 0 /\ synced = 0 /\ outcome = "running"
      /\ iters = [d \in DOMAIN sources |-> Iterator(sources[d])] /\ seen = <<>>
  BY DEF MergeInit
<1>2. merging \in {"typed", "string"}
  BY DEF MergeInit
<1>3. /\ sources \in Seq(Seq(Items)) /\ n \in Nat /\ DOMAIN sources = 1..n
      /\ \A d \in 1..n : Dictionary(sources[d])
  BY <1>1, SourcesAre
<1>4. Inv /\ phase = "building" /\ added = <<>> /\ typesPresent = <<>>
  BY <1>1, InvStarts DEF Init
<1>5. Calls
  BY <1>1, <1>2, <1>4, OrdersAre DEF Calls
<1>. HIDE DEF n
<1>6. iters = [d \in 1..n |-> iters[d]] /\ Len(iters) = n /\ \A d \in 1..n : iters[d] = Iterator(sources[d])
  <2>1. iters = [d \in 1..n |-> Iterator(sources[d])]
    BY <1>1, <1>3
  <2>2. iters = [d \in 1..n |-> iters[d]] /\ \A d \in 1..n : iters[d] = Iterator(sources[d])
    BY <2>1
  <2>. DEFINE V == {iters[d] : d \in 1..n}
  <2>3. iters \in [1..n -> V]
    BY <2>2
  <2>. HIDE DEF V
  <2>4. Len(iters) = n
    BY <1>3, <2>3
  <2>. QED  BY <2>2, <2>4
<1>7. \A d \in 1..n : Queue(iters[d]) /\ Shown(iters[d]) = sources[d]
  BY <1>3, <1>6, QueueStarts
<1>8. Queues(iters)
  BY <1>3, <1>6, <1>7 DEF Queues
<1>9. ASSUME NEW E \in SUBSET Items
      PROVE  TimesIn(FlattenSeq(sources), E) = TimesIn(added, E) + Waiting(iters, E)
  <2>1. TimesIn(FlattenSeq(sources), E) = SumOf([d \in 1..n |-> TimesIn(sources[d], E)])
    BY <1>3, TimesFlatten DEF n
  <2>2. Waiting(iters, E) = SumOf([d \in 1..n |-> TimesIn(Shown(iters[d]), E)])
    BY <1>6 DEF Waiting
  <2>3. [d \in 1..n |-> TimesIn(Shown(iters[d]), E)] = [d \in 1..n |-> TimesIn(sources[d], E)]
    BY <1>7
  <2>. DEFINE w == Waiting(iters, E)
              a == TimesIn(added, E)
  <2>4. a = 0
    BY <1>4, TimesEmpty
  <2>5. w \in Nat
    BY <1>8, WaitingIs
  <2>6. TimesIn(FlattenSeq(sources), E) = w
    BY <2>1, <2>2, <2>3
  <2>. HIDE DEF w, a
  <2>7. w = a + w
    BY <2>4, <2>5
  <2>. QED  BY <2>6, <2>7 DEF w, a
<1>10. ToSet(typesPresent) = {e.datatype : e \in ToSet(added)}
  <2>1. ToSet(<<>>) = {}
    BY DEF ToSet
  <2>. QED  BY <1>4, <2>1
<1>11. added \in Seq(Items)
  BY <1>4
<1>12. Conserved
  BY <1>4, <1>8, <1>9, <1>10, <1>11 DEF Conserved
<1>. QED  BY <1>4, <1>5, <1>12 DEF MergeInv

\* The entry that is added next.
NextAdded(e, d) ==
  /\ d = Picked(iters) /\ d \in Smallest(iters) /\ e = Bytewise(Head(iters[d]))
  /\ AddEntry(e) /\ iters' = Without(iters, d)

\* What AddNext does to the builder and to the iterators.
LEMMA AddNextIs ==
  ASSUME MergeInv, AddNext
  PROVE  /\ phase = "building" /\ outcome = "running"
         /\ \E d \in 1..Len(iters) : \E e \in Items : NextAdded(e, d)
<1>1. PICK d \in Live(iters) :
        /\ d = Picked(iters)
        /\ LET next == Head(iters[d])
           IN  AddEntry(Typed(next.datatype, BytesOf(next.entry)))
        /\ iters' = [iters EXCEPT ![d] = Tail(@)]
  BY DEF AddNext
<1>2. phase = "building" /\ outcome = "running"
  BY <1>1 DEF AddNext, MergeInv, Calls
<1>3. Queues(iters)
  BY DEF MergeInv, Conserved
<1>4. /\ DOMAIN iters = 1..Len(iters) /\ d \in 1..Len(iters)
      /\ \A c \in Live(iters) : Roped(Head(iters[c])) /\ Head(iters[c]) \in GivenItems
  BY <1>1, <1>3, LiveIs
<1>5. d \in Smallest(iters)
  <2>. DEFINE n == Len(iters)
  <2>1. n \in Nat /\ DOMAIN iters = 1..n /\ Live(iters) # {}
    BY <1>1, <1>3, <1>4 DEF Queues
  <2>. HIDE DEF n
  <2>2. Picked(iters) \in Smallest(iters)
    BY <1>4, <2>1, SmallestIs
  <2>. QED  BY <1>1, <2>2
<1>. DEFINE e == Bytewise(Head(iters[d]))
<1>6. AddEntry(e)
  BY <1>1 DEF Bytewise
<1>7. e \in Items
  BY <1>4, GivenIs
<1>. HIDE DEF e
<1>8. NextAdded(e, d)
  BY <1>1, <1>5, <1>6 DEF NextAdded, e, Without
<1>. QED  BY <1>2, <1>4, <1>7, <1>8

\* What a sequence has with one more at its end.
LEMMA SetOfAppend ==
  ASSUME NEW D, NEW s \in Seq(D), NEW x \in D
  PROVE  ToSet(Append(s, x)) = ToSet(s) \cup {x}
<1>. DEFINE n == Len(s)
            w == Append(s, x)
<1>1. w \in Seq(D) /\ Len(w) = n + 1 /\ w[n + 1] = x /\ \A i \in 1..n : w[i] = s[i]
  BY AppendProperties
<1>2. n \in Nat /\ DOMAIN s = 1..n
  OBVIOUS
<1>. HIDE DEF n, w
<1>3. DOMAIN w = 1..(n + 1)
  BY <1>1
<1>4. \A i : i \in 1..(n + 1) <=> i \in 1..n \/ i = n + 1
  BY <1>2
<1>5. ToSet(w) = {w[i] : i \in 1..(n + 1)} /\ ToSet(s) = {s[i] : i \in 1..n}
  BY <1>2, <1>3 DEF ToSet
<1>. QED  BY <1>1, <1>4, <1>5 DEF w

\* AddNext takes a smallest head: nothing is lost, and the order holds.
LEMMA AddNextKeeps ==
  ASSUME MergeInv, AddNext
  PROVE  MergeInv'
<1>1. phase = "building" /\ outcome = "running" /\ \E d \in 1..Len(iters) : \E e \in Items : NextAdded(e, d)
  BY AddNextIs
<1>2. PICK d \in 1..Len(iters), e \in Items : NextAdded(e, d)
  BY <1>1
<1>. DEFINE t == e.datatype
            v == e.entry
            rest == Without(iters, d)
<1>3. /\ t \in Types /\ t \in Nat \ {0} /\ v \in ValuesOf(t) /\ e = Typed(t, v)
  BY ItemIs
<1>4. /\ Inv /\ Queues(iters) /\ added \in Seq(Items)
      /\ added # <<>> => ComesFirst(Last(added), iters)
      /\ ToSet(typesPresent) = {x.datatype : x \in ToSet(added)}
  BY DEF MergeInv, Conserved
<1>5. /\ d \in Smallest(iters) /\ e = Bytewise(Head(iters[d]))
      /\ AddEntry(e) /\ iters' = rest
  BY <1>2 DEF NextAdded
<1>6. /\ iters[d] # <<>> /\ d \in Live(iters) /\ Queues(rest) /\ ComesFirst(e, iters)
      /\ Len(rest) = Len(iters)
      /\ \A c \in 1..Len(rest) : \A k \in 1..Len(rest[c]) :
           \E j \in 1..Len(iters[c]) : rest[c][k] = iters[c][j]
      /\ \A E : Waiting(iters, E) = Once(e, E) + Waiting(rest, E)
  <2>1. Queues(iters) /\ d \in Smallest(iters) /\ e = Bytewise(Head(iters[d]))
    BY <1>4, <1>5
  <2>. QED  BY <2>1, TakenFirst
<1>7. MayFollow(e)
  <2>. SUFFICES ASSUME added # <<>> PROVE AtMostTyped(Last(added), e)
    BY DEF MayFollow, AtMostTyped
  <2>1. Head(iters[d]) = iters[d][1] /\ 1 \in 1..Len(iters[d])
    BY <1>4, <1>6, LiveIs
  <2>. QED  BY <1>4, <1>5, <2>1 DEF ComesFirst
<1>8. Inv'
  BY <1>1, <1>3, <1>4, <1>5, <1>7, AddKeeps
<1>9. /\ added' = Append(added, e) /\ phase' = "building" /\ currentType' = t
      /\ typesPresent' = IF currentType = t THEN typesPresent ELSE Append(typesPresent, t)
  BY <1>1, <1>5 DEF AddEntry
<1>10. UNCHANGED <<sources, merging, opened, synced, seen, outcome>>
  BY DEF AddNext
<1>11. opened = Len(OpenOrder)
  BY DEF AddNext
<1>12. Calls'
  <2>1. OpenOrder' = OpenOrder /\ SyncOrder' = SyncOrder
    BY <1>10 DEF OpenOrder, SyncOrder
  <2>2. Calls
    BY DEF MergeInv
  <2>3. Len(OpenOrder) \in Nat
    BY <2>2, OrdersAre DEF Calls
  <2>. QED  BY <1>1, <1>9, <1>10, <1>11, <2>1, <2>2, <2>3 DEF Calls
<1>. HIDE DEF rest, t, v
<1>13. added' \in Seq(Items) /\ added' # <<>> /\ Last(added') = e
  <2>. DEFINE I == Items
              w == Append(added, e)
  <2>. HIDE DEF I
  <2>1. added \in Seq(I) /\ e \in I
    BY <1>4 DEF I
  <2>2. w \in Seq(I) /\ Len(w) = Len(added) + 1 /\ w[Len(added) + 1] = e /\ Len(added) \in Nat
    BY <2>1, AppendProperties
  <2>3. w # <<>>
    BY <2>2, EmptySeq
  <2>. HIDE DEF w
  <2>4. Last(w) = e
    BY <2>2 DEF Last
  <2>. QED  BY <1>9, <2>2, <2>3, <2>4 DEF w, I
<1>14. ASSUME NEW E \in SUBSET Items
       PROVE  TimesIn(FlattenSeq(sources), E) = TimesIn(added', E) + Waiting(rest, E)
  <2>1. TimesIn(added', E) = TimesIn(added, E) + Once(e, E)
    BY <1>4, <1>9, TimesAppend
  <2>2. TimesIn(FlattenSeq(sources), E) = TimesIn(added, E) + Waiting(iters, E)
    BY DEF MergeInv, Conserved
  <2>3. Waiting(iters, E) = Once(e, E) + Waiting(rest, E)
    BY <1>6
  <2>8. TimesIn(added, E) \in Nat
    BY <1>4, TimesIs
  <2>9. Once(e, E) \in Nat
    BY OnceIs
  <2>10. Waiting(rest, E) \in Nat
    BY <1>6, WaitingIs
  <2>4. TimesIn(added, E) \in Nat /\ Once(e, E) \in Nat /\ Waiting(rest, E) \in Nat
    BY <2>8, <2>9, <2>10
  <2>. DEFINE a == TimesIn(added, E)
              o == Once(e, E)
              r == Waiting(rest, E)
  <2>. HIDE DEF a, o, r
  <2>5. a \in Nat /\ o \in Nat /\ r \in Nat
    BY <2>4 DEF a, o, r
  <2>6. TimesIn(FlattenSeq(sources), E) = a + (o + r)
    BY <2>2, <2>3 DEF a, o, r
  <2>7. a + (o + r) = (a + o) + r
    BY <2>5
  <2>. QED  BY <2>1, <2>6, <2>7 DEF a, o, r
<1>15. ComesFirst(e, rest)
  BY <1>6 DEF ComesFirst
<1>16. ToSet(typesPresent') = {x.datatype : x \in ToSet(added')}
  <2>1. ToSet(added') = ToSet(added) \cup {e}
    BY <1>4, <1>9, SetOfAppend
  <2>2. typesPresent \in Seq(Types) /\ currentType = IF typesPresent = <<>> THEN 0 ELSE typesPresent[Len(typesPresent)]
    <3>1. TypesMet(typesPresent, typeOffsets, currentType)
      BY <1>4 DEF Inv, Building
    <3>. QED  BY <3>1 DEF TypesMet
  <2>3. ToSet(Append(typesPresent, t)) = ToSet(typesPresent) \cup {t}
    BY <1>3, <2>2, SetOfAppend
  <2>4. currentType = t => t \in ToSet(typesPresent)
    <3>. SUFFICES ASSUME currentType = t PROVE t \in ToSet(typesPresent)
      OBVIOUS
    <3>. DEFINE T == Types
    <3>. HIDE DEF T
    <3>1. typesPresent # <<>> /\ typesPresent \in Seq(T)
      BY <1>3, <2>2 DEF T
    <3>2. Len(typesPresent) \in DOMAIN typesPresent
      BY <3>1
    <3>. QED  BY <2>2, <3>1, <3>2 DEF ToSet
  <2>5. ToSet(typesPresent') = ToSet(typesPresent) \cup {t}
    BY <1>9, <2>3, <2>4
  <2>6. {x.datatype : x \in ToSet(added')} = {x.datatype : x \in ToSet(added)} \cup {t}
    BY <2>1 DEF t
  <2>. QED  BY <1>4, <2>5, <2>6
<1>17. Conserved'
  <2>1. FlattenSeq(sources)' = FlattenSeq(sources)
    BY <1>10
  <2>2. iters' = rest /\ sources' = sources
    BY <1>5, <1>10
  <2>3. Queues(iters') /\ ComesFirst(Last(added'), iters')
    BY <1>6, <1>13, <1>15, <2>2
  <2>4. \A E \in SUBSET Items :
          TimesIn(FlattenSeq(sources'), E) = TimesIn(added', E) + Waiting(iters', E)
    BY <1>14, <2>2
  <2>. QED  BY <1>13, <1>16, <2>3, <2>4 DEF Conserved
<1>. QED  BY <1>8, <1>12, <1>17 DEF MergeInv

\* Every step keeps the invariant.
LEMMA MergeKeeps ==
  ASSUME MergeInv, [MergeNext]_allVars
  PROVE  MergeInv'
<1>1. Inv /\ Calls /\ Conserved
  BY DEF MergeInv
<1>2. ASSUME UNCHANGED vars, UNCHANGED <<sources, merging, iters>>, Calls'
      PROVE  MergeInv'
  <2>1. Inv'
    BY <1>1, <1>2 DEF Inv, vars
  <2>2. Conserved'
    BY <1>1, <1>2 DEF Conserved, vars
  <2>. QED  BY <1>2, <2>1, <2>2 DEF MergeInv
<1>3. UNCHANGED merging => OpenOrder' = OpenOrder /\ SyncOrder' = SyncOrder
  BY DEF OpenOrder, SyncOrder
<1>4. Len(OpenOrder) \in Nat \ {0} /\ Len(SyncOrder) = Len(OpenOrder)
  BY <1>1, OrdersAre DEF Calls
<1>5. UNCHANGED iters => Live(iters)' = Live(iters)
  BY DEF Live
<1>6. CASE OpenFile
  <2>1. Calls'
    BY <1>1, <1>3, <1>4, <1>5, <1>6 DEF Calls, OpenFile, vars
  <2>. QED  BY <1>2, <1>6, <2>1 DEF OpenFile
<1>7. CASE AddNext
  BY <1>7, AddNextKeeps
<1>8. CASE FinishBuilding
  <2>1. Finalize /\ UNCHANGED mergeVars /\ Live(iters) = {} /\ opened = Len(OpenOrder)
    BY <1>8 DEF FinishBuilding
  <2>2. Inv'
    BY <1>1, <2>1, FinalizeKeeps
  <2>3. phase = "building" /\ phase' = "finished" /\ UNCHANGED <<typesPresent, added>>
        /\ UNCHANGED <<sources, merging, iters, opened, synced, seen, outcome>>
    BY <2>1 DEF Finalize, mergeVars
  <2>4. Calls'
    BY <1>1, <1>3, <1>4, <1>5, <2>1, <2>3 DEF Calls
  <2>5. Conserved'
    BY <1>1, <2>3 DEF Conserved
  <2>. QED  BY <2>2, <2>4, <2>5 DEF MergeInv
<1>9. CASE SyncFile
  <2>1. synced # Len(SyncOrder)
    BY <1>1, <1>9 DEF Calls, SyncFile
  <2>2. Calls'
    BY <1>1, <1>3, <1>4, <1>5, <1>9, <2>1 DEF Calls, SyncFile, vars
  <2>. QED  BY <1>2, <1>9, <2>2 DEF SyncFile
<1>10. CASE FileError
  <2>1. Calls'
    BY <1>1, <1>3, <1>4, <1>5, <1>10 DEF Calls, FileError, vars
  <2>. QED  BY <1>2, <1>10, <2>1 DEF FileError
<1>11. CASE ReadDictionary
  <2>1. Calls'
    BY <1>1, <1>3, <1>4, <1>5, <1>11 DEF Calls, ReadDictionary, vars
  <2>. QED  BY <1>2, <1>11, <2>1 DEF ReadDictionary
<1>12. CASE UNCHANGED allVars
  <2>1. Calls'
    BY <1>1, <1>3, <1>4, <1>5, <1>12 DEF Calls, allVars, mergeVars, vars
  <2>. QED  BY <1>2, <1>12, <2>1 DEF allVars, mergeVars
<1>. QED  BY <1>6, <1>7, <1>8, <1>9, <1>10, <1>11, <1>12 DEF MergeNext, MergeStep

\* The invariant of a merge (merge_typed_dictionaries, add_all).
LEMMA MergeInvAlways == FairSpec => []MergeInv
<1>1. MergeInit => MergeInv
  BY MergeStarts
<1>2. MergeInv /\ [MergeNext]_allVars => MergeInv'
  BY MergeKeeps
<1>. QED  BY <1>1, <1>2, PTL DEF FairSpec

-----------------------------------------------------------------------------
(* Type correctness.                                                       *)

\* The invariant is typed.
LEMMA MergeInvTyped ==
  ASSUME MergeInv
  PROVE  MergeTypeOK
<1>1. Calls /\ Inv /\ Queues(iters) /\ ToSet(typesPresent) = {e.datatype : e \in ToSet(added)}
  BY DEF MergeInv, Conserved
<1>2. ASSUME NEW d \in DOMAIN iters, NEW k \in DOMAIN iters[d]
      PROVE  Len(iters[d][k].entry) \in 1..BlockSize
  <2>1. iters[d] \in Seq(GivenItems)
    BY <1>1, <1>2, LiveIs DEF Queues, Queue
  <2>. DEFINE G == GivenItems
  <2>. HIDE DEF G
  <2>2. iters[d] \in Seq(G)
    BY <2>1 DEF G
  <2>3. iters[d][k] \in G
    BY <1>2, <2>2
  <2>. QED  BY <2>3, GivenIs DEF G
<1>3. ASSUME NEW i \in 1..(TypeCount - 1) PROVE typesPresent[i] < typesPresent[i + 1]
  <2>. DEFINE T == Types
              tp == typesPresent
              n == Len(tp)
  <2>1. TypesMet(tp, typeOffsets, currentType)
    BY <1>1 DEF Inv, Building
  <2>2. tp \in Seq(T) /\ \A h, j \in DOMAIN tp : h < j => tp[h] < tp[j]
    BY <2>1 DEF TypesMet
  <2>. HIDE DEF T
  <2>3. n \in Nat /\ DOMAIN tp = 1..n
    BY <2>2
  <2>4. i \in 1..(n - 1)
    BY DEF TypeCount
  <2>. HIDE DEF tp, n
  <2>5. i \in 1..n /\ i + 1 \in 1..n /\ i < i + 1
    BY <2>3, <2>4
  <2>6. tp[i] < tp[i + 1]
    BY <2>2, <2>3, <2>5
  <2>. QED  BY <2>6 DEF tp
<1>. QED  BY <1>1, <1>2, <1>3 DEF MergeTypeOK, Calls, Inv

(* A merge is typed: its calls stay in range, the iterators give entries   *)
(* of at most a block of slices, and the types merged so far are in order  *)
(* and are those of the entries (merge_typed_dictionaries,                 *)
(* TypedDictBufBuilder::add).                                              *)
THEOREM MergeTypeCorrect == FairSpec => []MergeTypeOK
BY MergeInvAlways, MergeInvTyped, PTL

-----------------------------------------------------------------------------
(* Merging implements MergeSpec.                                           *)

\* A member of a sequence is at one of its places.
LEMMA SeqOfItsSet ==
  ASSUME NEW D, NEW s \in Seq(D)
  PROVE  s \in Seq(ToSet(s)) /\ \A x : x \in ToSet(s) <=> \E i \in 1..Len(s) : s[i] = x
<1>1. Len(s) \in Nat /\ DOMAIN s = 1..Len(s) /\ s = [i \in 1..Len(s) |-> s[i]]
  OBVIOUS
<1>2. ToSet(s) = {s[i] : i \in 1..Len(s)}
  BY <1>1 DEF ToSet
<1>. DEFINE T == ToSet(s)
<1>3. \A i \in 1..Len(s) : s[i] \in T
  BY <1>2
<1>. HIDE DEF T
<1>4. s \in [1..Len(s) -> T]
  BY <1>1, <1>3
<1>5. s \in Seq(T)
  BY <1>1, <1>4
<1>. QED  BY <1>2, <1>5 DEF T

\* The library's operators in the instance are those out of it.
LEMMA SameOperators ==
  /\ \A s : Abstract!ToSet(s) = ToSet(s)
  /\ \A T : Abstract!Cardinality(T) = Cardinality(T)
<1>1. ASSUME NEW s PROVE Abstract!ToSet(s) = ToSet(s)
  BY DEF Abstract!ToSet, ToSet
<1>2. ASSUME NEW T PROVE Abstract!Cardinality(T) = Cardinality(T)
  BY DEF Abstract!Cardinality, Cardinality
<1>. QED  BY <1>1, <1>2

\* How often a sequence has an item.
LEMMA CountIs ==
  ASSUME NEW e \in Items, NEW s \in Seq(Items)
  PROVE  /\ Abstract!Count(s, e) = TimesIn(s, {e}) /\ TimesIn(s, {e}) \in Nat
         /\ TimesIn(s, {e}) > 0 <=> e \in ToSet(s)
<1>1. DOMAIN s = 1..Len(s)
  OBVIOUS
<1>2. {i \in DOMAIN s : s[i] = e} = {i \in 1..Len(s) : s[i] \in {e}}
  BY <1>1
<1>3. Abstract!Count(s, e) = TimesIn(s, {e})
  BY <1>2, SameOperators DEF Abstract!Count, TimesIn
<1>4. TimesIn(s, {e}) \in Nat /\ (TimesIn(s, {e}) > 0 <=> \E i \in 1..Len(s) : s[i] \in {e})
  BY TimesIs
<1>. QED  BY <1>1, <1>3, <1>4 DEF ToSet

\* What the sources have, and how often.
LEMMA InputIs ==
  ASSUME MergeInv
  PROVE  LET input == FlattenSeq(sources)
         IN  /\ input \in Seq(Items)
             /\ \A e \in Items :
                  /\ Abstract!Count(input, e) = TimesIn(input, {e})
                  /\ Abstract!Count(added, e) = TimesIn(added, {e})
                  /\ TimesIn(input, {e}) = TimesIn(added, {e}) + Waiting(iters, {e})
                  /\ TimesIn(added, {e}) \in Nat /\ Waiting(iters, {e}) \in Nat
                  /\ TimesIn(input, {e}) > 0 <=> e \in ToSet(input)
             /\ Len(input) = Len(added) + Waiting(iters, Items)
             /\ Len(added) \in Nat /\ Waiting(iters, Items) \in Nat
<1>. DEFINE input == FlattenSeq(sources)
<1>1. added \in Seq(Items) /\ Queues(iters)
      /\ \A E \in SUBSET Items : TimesIn(input, E) = TimesIn(added, E) + Waiting(iters, E)
  BY DEF MergeInv, Conserved
<1>2. input \in Seq(Items)
  <2>. DEFINE I == Items
  <2>. HIDE DEF I
  <2>1. sources \in Seq(Seq(I))
    BY SourcesAre DEF MergeInv, Calls, I
  <2>. QED  BY <2>1, FlattenType DEF I
<1>. HIDE DEF input
<1>3. \A e \in Items, s \in Seq(Items) :
        /\ Abstract!Count(s, e) = TimesIn(s, {e}) /\ TimesIn(s, {e}) \in Nat
        /\ TimesIn(s, {e}) > 0 <=> e \in ToSet(s)
  BY CountIs
<1>4. \A E : Waiting(iters, E) \in Nat
  BY <1>1, WaitingIs
<1>5. ASSUME NEW s \in Seq(Items) PROVE TimesIn(s, Items) = Len(s) /\ Len(s) \in Nat
  <2>1. \A i \in 1..Len(s) : s[i] \in Items
    OBVIOUS
  <2>. QED  BY <2>1, TimesIs
<1>6. Len(input) = Len(added) + Waiting(iters, Items)
  BY <1>1, <1>2, <1>5
<1>7. \A e \in Items : {e} \in SUBSET Items
  OBVIOUS
<1>. QED  BY <1>1, <1>2, <1>3, <1>4, <1>5, <1>6, <1>7 DEF input

\* A merge starts as MergeSpec does.
LEMMA MergeRefinesInit == MergeInit => Abstract!Init
<1>. SUFFICES ASSUME MergeInit PROVE Abstract!Init
  OBVIOUS
<1>1. FlattenSeq(sources) \in Seq(ToSet(FlattenSeq(sources)))
  BY MergeStarts, InputIs, SeqOfItsSet
<1>2. added = <<>> /\ seen = <<>> /\ outcome = "running"
  BY DEF MergeInit, Init
<1>. QED  BY <1>1, <1>2, SameOperators DEF Abstract!Init

\* The entry that is added is one that remains, and none that remains comes
\* before it.
LEMMA AddNextTakes ==
  ASSUME MergeInv, AddNext
  PROVE  \E e \in Abstract!Remaining : Abstract!Take(e)
<1>1. phase = "building" /\ outcome = "running" /\ \E d \in 1..Len(iters) : \E e \in Items : NextAdded(e, d)
  BY AddNextIs
<1>2. PICK d \in 1..Len(iters), e \in Items : NextAdded(e, d)
  BY <1>1
<1>. DEFINE input == FlattenSeq(sources)
            rest == Without(iters, d)
<1>3. Queues(iters) /\ d \in Smallest(iters) /\ e = Bytewise(Head(iters[d])) /\ AddEntry(e)
  BY <1>2 DEF NextAdded, MergeInv, Conserved
<1>4. Queues(rest) /\ ComesFirst(e, iters)
      /\ \A E : Waiting(iters, E) = Once(e, E) + Waiting(rest, E)
  BY <1>3, TakenFirst
<1>5. /\ input \in Seq(Items)
      /\ \A f \in Items :
           /\ Abstract!Count(input, f) = TimesIn(input, {f})
           /\ Abstract!Count(added, f) = TimesIn(added, {f})
           /\ TimesIn(input, {f}) = TimesIn(added, {f}) + Waiting(iters, {f})
           /\ TimesIn(added, {f}) \in Nat /\ Waiting(iters, {f}) \in Nat
           /\ TimesIn(input, {f}) > 0 <=> f \in ToSet(input)
  BY InputIs
<1>. HIDE DEF input, rest
<1>6. e \in Abstract!Remaining
  <2>1. Once(e, {e}) = 1
    BY DEF Once
  <2>2. Waiting(rest, {e}) \in Nat
    BY <1>4, WaitingIs
  <2>3. Waiting(iters, {e}) = 1 + Waiting(rest, {e})
    BY <1>4, <2>1
  <2>4. TimesIn(input, {e}) > TimesIn(added, {e}) /\ TimesIn(input, {e}) > 0
    BY <1>5, <2>2, <2>3
  <2>5. e \in ToSet(input) /\ Abstract!Count(input, e) > Abstract!Count(added, e)
    BY <1>5, <2>4
  <2>. QED  BY <2>5, SameOperators DEF Abstract!Remaining, input
<1>7. ASSUME NEW f \in Abstract!Remaining PROVE AtMostTyped(e, f)
  <2>1. f \in ToSet(input) /\ Abstract!Count(input, f) > Abstract!Count(added, f)
    BY SameOperators DEF Abstract!Remaining, input
  <2>2. f \in Items
    <3>. DEFINE I == Items
    <3>. HIDE DEF I
    <3>1. input \in Seq(I)
      BY <1>5 DEF I
    <3>2. \E i \in 1..Len(input) : input[i] = f
      BY <2>1, <3>1, SeqOfItsSet
    <3>3. f \in I
      BY <3>1, <3>2
    <3>. QED  BY <3>3 DEF I
  <2>3. Waiting(iters, {f}) > 0
    <3>. DEFINE a == TimesIn(added, {f})
                w == Waiting(iters, {f})
    <3>1. a \in Nat /\ w \in Nat /\ a + w > a
      BY <1>5, <2>1, <2>2
    <3>. HIDE DEF a, w
    <3>2. w > 0
      BY <3>1
    <3>. QED  BY <3>2 DEF w
  <2>4. PICK c \in 1..Len(iters) : \E k \in 1..Len(iters[c]) : Bytewise(iters[c][k]) \in {f}
    BY <1>3, <2>3, WaitingIs
  <2>. QED  BY <1>4, <2>4 DEF ComesFirst
<1>8. added' = Append(added, e)
  BY <1>1, <1>3 DEF AddEntry
<1>9. UNCHANGED <<sources, seen, outcome>>
  BY DEF AddNext
<1>10. Abstract!Take(e)
  BY <1>1, <1>7, <1>8, <1>9 DEF Abstract!Take
<1>. QED  BY <1>6, <1>10

\* The last file is written when all entries are.
LEMMA AllWritten ==
  ASSUME MergeInv, phase = "finished"
  PROVE  Len(added) = Len(FlattenSeq(sources))
<1>1. Live(iters) = {} /\ Queues(iters)
  BY DEF MergeInv, Calls, Conserved
<1>2. ~(Waiting(iters, Items) > 0)
  <2>. SUFFICES ASSUME Waiting(iters, Items) > 0 PROVE FALSE
    OBVIOUS
  <2>1. PICK d \in 1..Len(iters) : \E k \in 1..Len(iters[d]) : Bytewise(iters[d][k]) \in Items
    BY <1>1, WaitingIs
  <2>2. iters[d] # <<>>
    <3>1. 1..Len(<<>>) = {}
      OBVIOUS
    <3>. QED  BY <2>1, <3>1
  <2>. QED  BY <1>1, <2>2, LiveIs
<1>. DEFINE n == Len(FlattenSeq(sources))
            w == Waiting(iters, Items)
<1>3. n = Len(added) + w /\ Len(added) \in Nat /\ w \in Nat
  BY InputIs
<1>. HIDE DEF n, w
<1>4. w = 0
  BY <1>2, <1>3 DEF w
<1>. QED  BY <1>3, <1>4 DEF n

\* Every step is one of MergeSpec or none.
LEMMA MergeRefinesStep ==
  ASSUME MergeInv, [MergeNext]_allVars
  PROVE  [Abstract!Next]_(Abstract!vars)
<1>1. ASSUME UNCHANGED <<sources, added, seen, outcome>> PROVE UNCHANGED Abstract!vars
  BY <1>1 DEF Abstract!vars
<1>2. Calls /\ Len(OpenOrder) \in Nat \ {0} /\ Len(SyncOrder) = Len(OpenOrder)
  BY OrdersAre DEF MergeInv, Calls
<1>3. CASE OpenFile
  BY <1>1, <1>3 DEF OpenFile, vars
<1>4. CASE AddNext
  BY <1>4, AddNextTakes DEF Abstract!Next, Abstract!Step
<1>5. CASE FinishBuilding
  BY <1>1, <1>5 DEF FinishBuilding, Finalize, mergeVars
<1>6. CASE SyncFile
  <2>1. CASE synced' = Len(SyncOrder)
    <3>1. outcome = "running" /\ outcome' = "done" /\ phase = "finished"
          /\ UNCHANGED <<sources, added, seen>>
      BY <1>6, <2>1 DEF SyncFile, vars
    <3>2. Len(added) = Len(FlattenSeq(sources))
      BY <3>1, AllWritten
    <3>3. Abstract!Finish
      BY <3>1, <3>2 DEF Abstract!Finish
    <3>. QED  BY <3>3 DEF Abstract!Next, Abstract!Step
  <2>2. CASE synced' # Len(SyncOrder)
    BY <1>1, <1>6, <2>2 DEF SyncFile, vars
  <2>. QED  BY <2>1, <2>2
<1>7. CASE FileError
  <2>1. outcome = "running" /\ outcome' = "failed" /\ UNCHANGED <<sources, added, seen>>
    BY <1>7 DEF FileError, vars
  <2>2. Abstract!Fail
    BY <2>1 DEF Abstract!Fail
  <2>. QED  BY <2>2 DEF Abstract!Next, Abstract!Step
<1>8. CASE ReadDictionary
  <2>1. synced = Len(SyncOrder)
    <3>1. synced \in 0..Len(SyncOrder) /\ ToSet(SubSeq(SyncOrder, 1, synced)) = ToSet(OpenOrder)
      BY <1>2, <1>8 DEF Calls, ReadDictionary
    <3>. QED  BY <1>2, <3>1, OrdersAre DEF Calls
  <2>2. outcome = "done" /\ phase # "building"
    BY <1>2, <2>1 DEF Calls
  <2>3. TypedEntries = added
    BY <2>2, FinishedIsReady, IterationIs DEF MergeInv
  <2>4. seen' = <<added>> /\ UNCHANGED <<sources, added, outcome>>
    BY <1>8, <2>3 DEF ReadDictionary, vars
  <2>5. Abstract!Read
    BY <2>2, <2>4 DEF Abstract!Read
  <2>. QED  BY <2>5 DEF Abstract!Next
<1>9. CASE UNCHANGED allVars
  BY <1>1, <1>9 DEF allVars, mergeVars, vars
<1>. QED  BY <1>3, <1>4, <1>5, <1>6, <1>7, <1>8, <1>9 DEF MergeNext, MergeStep

(* Merging implements MergeSpec: a dictionary that is read when the call   *)
(* has returned Ok has the entries of all sources in order, each as often  *)
(* as they have it; none can be read before that or when a file fails      *)
(* (merge_typed_dictionaries, merge_string_dictionaries).                  *)
THEOREM MergeImplements == FairSpec => ImplementsMerge
<1>1. MergeInit => Abstract!Init
  BY MergeRefinesInit
<1>2. MergeInv /\ [MergeNext]_allVars => [Abstract!Next]_(Abstract!vars)
  BY MergeRefinesStep
<1>3. FairSpec => []MergeInv
  BY MergeInvAlways
<1>. QED  BY <1>1, <1>2, <1>3, PTL DEF FairSpec, ImplementsMerge, Abstract!Spec

-----------------------------------------------------------------------------
(* The heap of heads.                                                      *)

\* What the heap's iterators have left after n calls.
WithoutTop(its) == Without(its, HeapTop(its))
PopsOf(left, heads) ==
  left = [n \in 0..Len(FlattenSeq(heads)) |-> IF n = 0 THEN heads ELSE WithoutTop(left[n - 1])]
LeftOver(heads) == CHOOSE left : PopsOf(left, heads)
PoppedAt(heads, n) == Head(LeftOver(heads)[n - 1][HeapTop(LeftOver(heads)[n - 1])])

\* What HeapSorted gives, call by call.
LEMMA HeapSortedIs ==
  ASSUME NEW heads
  PROVE  HeapSorted(heads) = [n \in 1..Len(FlattenSeq(heads)) |-> PoppedAt(heads, n)]
BY DEF HeapSorted, PoppedAt, LeftOver, PopsOf, WithoutTop, Without

\* What is waiting empties with the iterators.
LEMMA WaitingEnds ==
  ASSUME NEW its, Queues(its)
  PROVE  /\ Waiting(its, Items) = Len(FlattenSeq(its)) /\ Waiting(its, Items) \in Nat
         /\ Waiting(its, Items) > 0 => Live(its) # {}
         /\ Waiting(its, Items) = 0 => \A E : Waiting(its, E) = 0
<1>. DEFINE n == Len(its)
            G == GivenItems
<1>1. n \in Nat /\ its = [d \in 1..n |-> its[d]] /\ \A d \in 1..n : its[d] \in Seq(G)
  BY DEF Queues, Queue
<1>2. ASSUME NEW d \in 1..n PROVE TimesIn(Shown(its[d]), Items) = TimesIn(its[d], G)
  <2>1. /\ Shown(its[d]) \in Seq(Items) /\ Len(Shown(its[d])) = Len(its[d])
    BY <1>1, ShownIs
  <2>2. \A s : s \in Seq(Items) => TimesIn(s, Items) = Len(s)
    <3>. SUFFICES ASSUME NEW s \in Seq(Items) PROVE TimesIn(s, Items) = Len(s)
      OBVIOUS
    <3>1. \A i \in 1..Len(s) : s[i] \in Items
      OBVIOUS
    <3>. QED  BY <3>1, TimesIs
  <2>3. TimesIn(its[d], G) = Len(its[d])
    <3>. HIDE DEF G
    <3>1. its[d] \in Seq(G)
      BY <1>1
    <3>2. \A i \in 1..Len(its[d]) : its[d][i] \in G
      BY <3>1
    <3>. QED  BY <3>1, <3>2, TimesIs
  <2>. QED  BY <2>1, <2>2, <2>3
<1>. HIDE DEF G
<1>3. its \in Seq(Seq(G))
  <2>. DEFINE GivenSeqs == Seq(G)
  <2>1. its \in [1..n -> GivenSeqs]
    BY <1>1
  <2>. HIDE DEF GivenSeqs
  <2>2. its \in Seq(GivenSeqs)
    BY <1>1, <2>1
  <2>. QED  BY <2>2 DEF GivenSeqs
<1>4. Waiting(its, Items) = Len(FlattenSeq(its))
  <2>. DEFINE f == FlattenSeq(its)
  <2>1. f \in Seq(G) /\ TimesIn(f, G) = SumOf([d \in 1..n |-> TimesIn(its[d], G)])
    BY <1>3, FlattenType, TimesFlatten
  <2>2. [d \in 1..n |-> TimesIn(its[d], G)] = [d \in 1..n |-> TimesIn(Shown(its[d]), Items)]
    BY <1>2
  <2>. HIDE DEF f
  <2>3. TimesIn(f, G) = Len(f)
    <3>1. \A i \in 1..Len(f) : f[i] \in G
      BY <2>1
    <3>. QED  BY <2>1, <3>1, TimesIs
  <2>. QED  BY <2>1, <2>2, <2>3 DEF Waiting, f
<1>5. \A E : Waiting(its, E) \in Nat
  BY WaitingIs
<1>6. Waiting(its, Items) > 0 => Live(its) # {}
  <2>. SUFFICES ASSUME Waiting(its, Items) > 0 PROVE Live(its) # {}
    OBVIOUS
  <2>1. PICK d \in 1..Len(its) : \E k \in 1..Len(its[d]) : Bytewise(its[d][k]) \in Items
    BY WaitingIs
  <2>2. its[d] # <<>>
    <3>1. 1..Len(<<>>) = {}
      OBVIOUS
    <3>. QED  BY <2>1, <3>1
  <2>. QED  BY <2>1, <2>2, LiveIs
<1>7. Waiting(its, Items) = 0 => \A E : Waiting(its, E) = 0
  <2>. SUFFICES ASSUME Waiting(its, Items) = 0, NEW E, Waiting(its, E) > 0 PROVE FALSE
    BY <1>5
  <2>1. PICK d \in 1..Len(its) : \E k \in 1..Len(its[d]) : Bytewise(its[d][k]) \in E
    BY WaitingIs
  <2>2. PICK k \in 1..Len(its[d]) : TRUE
    BY <2>1
  <2>3. its[d] \in Seq(G)
    BY <1>1
  <2>4. its[d][k] \in G
    BY <2>3
  <2>5. Bytewise(its[d][k]) \in Items
    BY <2>4, GivenIs DEF G
  <2>6. Waiting(its, Items) > 0
    BY <2>5, WaitingIs
  <2>. QED  BY <2>6
<1>. QED  BY <1>4, <1>5, <1>6, <1>7

\* One call takes a smallest head.
LEMMA PopIs ==
  ASSUME NEW its, Queues(its), Waiting(its, Items) > 0
  PROVE  LET x == Head(its[HeapTop(its)])
             e == Bytewise(x)
             rest == WithoutTop(its)
         IN  /\ e \in Items /\ Queues(rest) /\ Len(rest) = Len(its) /\ ComesFirst(e, its)
             /\ \A E : Waiting(its, E) = Once(e, E) + Waiting(rest, E)
             /\ Waiting(rest, Items) = Waiting(its, Items) - 1
             /\ \E d \in 1..Len(its) : \E k \in 1..Len(its[d]) : x = its[d][k]
             /\ \A c \in 1..Len(rest) : \A k \in 1..Len(rest[c]) :
                  \E j \in 1..Len(its[c]) : rest[c][k] = its[c][j]
<1>. DEFINE n == Len(its)
            d == HeapTop(its)
            x == Head(its[d])
            e == Bytewise(x)
            rest == WithoutTop(its)
<1>1. n \in Nat /\ DOMAIN its = 1..n /\ Live(its) # {}
      /\ \A c \in Live(its) : Roped(Head(its[c])) /\ Head(its[c]) = its[c][1] /\ 1 \in 1..Len(its[c])
  BY LiveIs, WaitingEnds DEF Queues
<1>. HIDE DEF n
<1>2. HeapTop(its) \in Smallest(its)
  BY <1>1, SmallestIs
<1>3. d \in Smallest(its) /\ rest = Without(its, d)
  BY <1>2 DEF WithoutTop
<1>. HIDE DEF d
<1>4. /\ d \in Live(its) /\ d \in 1..Len(its) /\ its[d] # <<>> /\ Bytewise(Head(its[d])) \in Items
      /\ Queues(Without(its, d)) /\ Len(Without(its, d)) = Len(its)
      /\ ComesFirst(Bytewise(Head(its[d])), its)
      /\ \A c \in 1..Len(Without(its, d)) : \A k \in 1..Len(Without(its, d)[c]) :
           \E j \in 1..Len(its[c]) : Without(its, d)[c][k] = its[c][j]
      /\ \A E : Waiting(its, E) = Once(Bytewise(Head(its[d])), E) + Waiting(Without(its, d), E)
  BY SMTT(30), <1>3, TakenFirst
<1>. HIDE DEF rest
<1>5. /\ e \in Items /\ Queues(rest) /\ Len(rest) = Len(its) /\ ComesFirst(e, its)
      /\ \A c \in 1..Len(rest) : \A k \in 1..Len(rest[c]) :
           \E j \in 1..Len(its[c]) : rest[c][k] = its[c][j]
      /\ \A E : Waiting(its, E) = Once(e, E) + Waiting(rest, E)
  BY <1>3, <1>4
<1>6. \E c \in 1..Len(its) : \E k \in 1..Len(its[c]) : x = its[c][k]
  BY <1>1, <1>4
<1>. HIDE DEF e
<1>7. Waiting(rest, Items) = Waiting(its, Items) - 1
  <2>1. Once(e, Items) = 1
    BY <1>5 DEF Once
  <2>2. Waiting(rest, Items) \in Nat
    BY <1>5, WaitingIs
  <2>. QED  BY <1>5, <2>1, <2>2
<1>. QED  BY <1>5, <1>6, <1>7 DEF d, x, e, rest

\* What is left after n calls.
LeftAfter(its, heads, n) ==
  /\ Queues(its) /\ Len(its) = Len(heads)
  /\ Waiting(its, Items) = Len(FlattenSeq(heads)) - n
  /\ \A c \in 1..Len(its) : \A k \in 1..Len(its[c]) :
       \E j \in 1..Len(heads[c]) : its[c][k] = heads[c][j]

\* What is left after n calls is, n entries fewer, of what was there.
LEMMA LeftAre ==
  ASSUME NEW heads, Queues(heads)
  PROVE  LET total == Len(FlattenSeq(heads))
             left == LeftOver(heads)
         IN  /\ total \in Nat /\ left[0] = heads
             /\ \A n \in 1..total : left[n] = WithoutTop(left[n - 1])
             /\ \A n \in 0..total : LeftAfter(left[n], heads, n)
<1>. DEFINE total == Len(FlattenSeq(heads))
            All == [1..Len(heads) -> Seq(GivenItems)]
            G == [n \in 0..total |-> {its \in All : LeftAfter(its, heads, n)}]
            g == [x \in (0..total) \X All |-> WithoutTop(x[2])]
<1>1. total \in Nat /\ LeftAfter(heads, heads, 0)
  BY WaitingEnds DEF LeftAfter
<1>2. ASSUME NEW n \in 0..total, NEW its, LeftAfter(its, heads, n) PROVE its \in All
  <2>1. its = [d \in 1..Len(heads) |-> its[d]] /\ \A d \in 1..Len(heads) : its[d] \in Seq(GivenItems)
    BY <1>2 DEF LeftAfter, Queues, Queue
  <2>. QED  BY <2>1
<1>3. ASSUME NEW n \in 1..total, NEW its, LeftAfter(its, heads, n - 1)
      PROVE  LeftAfter(WithoutTop(its), heads, n)
  <2>. DEFINE r == WithoutTop(its)
  <2>. HIDE DEF total
  <2>1. Queues(its) /\ Len(its) = Len(heads) /\ Waiting(its, Items) = total - (n - 1)
    BY <1>3 DEF LeftAfter, total
  <2>2. Waiting(its, Items) > 0
    BY <1>1, <2>1
  <2>3. /\ Queues(r) /\ Len(r) = Len(its) /\ Waiting(r, Items) = Waiting(its, Items) - 1
        /\ \A c \in 1..Len(r) : \A k \in 1..Len(r[c]) :
             \E j \in 1..Len(its[c]) : r[c][k] = its[c][j]
    BY <2>1, <2>2, PopIs
  <2>. HIDE DEF r
  <2>4. Waiting(r, Items) = total - n
    BY <1>1, <2>1, <2>3
  <2>5. \A c \in 1..Len(r) : \A k \in 1..Len(r[c]) :
          \E j \in 1..Len(heads[c]) : r[c][k] = heads[c][j]
    <3>1. \A c \in 1..Len(its) : \A k \in 1..Len(its[c]) :
            \E j \in 1..Len(heads[c]) : its[c][k] = heads[c][j]
      BY <1>3 DEF LeftAfter
    <3>2. ASSUME NEW c \in 1..Len(r), NEW k \in 1..Len(r[c])
          PROVE  \E j \in 1..Len(heads[c]) : r[c][k] = heads[c][j]
      <4>1. c \in 1..Len(its) /\ \E j \in 1..Len(its[c]) : r[c][k] = its[c][j]
        BY <2>3
      <4>. QED  BY <3>1, <4>1
    <3>. QED  BY <3>2
  <2>. QED  BY <2>1, <2>3, <2>4, <2>5 DEF LeftAfter, r, total
<1>4. \A n \in 0..total : \A its : its \in G[n] <=> LeftAfter(its, heads, n)
  <2>. HIDE DEF All
  <2>1. \A n \in 0..total : G[n] = {its \in All : LeftAfter(its, heads, n)}
    OBVIOUS
  <2>. HIDE DEF G
  <2>. QED  BY <1>2, <2>1
<1>5. \A n \in 0..total, its \in All : g[<<n, its>>] = WithoutTop(its)
  <2>. HIDE DEF All
  <2>. QED  OBVIOUS
<1>. HIDE DEF g, G, All, total
<1>6. \A n \in 1..total : n \in 0..total /\ n - 1 \in 0..total
  BY <1>1
<1>7. \A n \in 1..total : \A its \in G[n - 1] : g[<<n, its>>] \in G[n]
  BY <1>2, <1>3, <1>4, <1>5, <1>6
<1>. DEFINE zero == 0
<1>8. zero + 1 = 1 /\ zero \in Int /\ total \in Int /\ zero <= total /\ heads \in G[zero] /\ zero = 0
  BY <1>1, <1>4
<1>. HIDE DEF zero
<1>9. PICK f : RunsWithin(f, zero, total, G, heads, g)
  <2>1. \A n \in (zero + 1)..total : \A its \in G[n - 1] : g[<<n, its>>] \in G[n]
    BY <1>7, <1>8
  <2>. QED  BY <1>8, <2>1, RecursionWithin
<1>10. PopsOf(f, heads)
  <2>1. /\ f = [n \in 0..total |-> f[n]] /\ f[0] = heads
        /\ \A n \in 1..total : f[n] = g[<<n, f[n - 1]>>]
        /\ \A n \in 0..total : f[n] \in G[n]
    BY <1>8, <1>9 DEF RunsWithin
  <2>2. \A n \in 1..total : f[n] = WithoutTop(f[n - 1])
    BY <1>2, <1>4, <1>5, <1>6, <2>1
  <2>3. \A n \in 0..total : n = 0 \/ n \in 1..total
    BY <1>1
  <2>4. \A n \in 0..total : f[n] = IF n = 0 THEN heads ELSE WithoutTop(f[n - 1])
    BY <2>1, <2>2, <2>3
  <2>5. f = [n \in 0..total |-> IF n = 0 THEN heads ELSE WithoutTop(f[n - 1])]
    BY <2>1, <2>4
  <2>. QED  BY <2>5 DEF PopsOf, total
<1>. DEFINE left == LeftOver(heads)
<1>11. PopsOf(left, heads)
  BY <1>10 DEF LeftOver
<1>. HIDE DEF left
<1>12. left[0] = heads /\ \A n \in 1..total : left[n] = WithoutTop(left[n - 1])
  <2>1. left = [n \in 0..total |-> IF n = 0 THEN heads ELSE WithoutTop(left[n - 1])]
    BY <1>11 DEF PopsOf, total
  <2>2. \A n \in 0..total : left[n] = IF n = 0 THEN heads ELSE WithoutTop(left[n - 1])
    BY <2>1
  <2>3. 0 \in 0..total /\ \A n \in 1..total : n # 0
    BY <1>1
  <2>. QED  BY <1>6, <2>2, <2>3
<1>13. \A n \in 0..total : LeftAfter(left[n], heads, n)
  <2>. DEFINE P == {n \in 0..total : LeftAfter(left[n], heads, n)}
  <2>1. 0 \in P
    BY <1>1, <1>12
  <2>2. ASSUME NEW n \in 1..total, n - 1 \in P PROVE n \in P
    BY <1>3, <1>6, <1>12, <2>2
  <2>. HIDE DEF P
  <2>3. \A n \in 0..total : n \in P
    BY <1>1, <2>1, <2>2, InductUpTo
  <2>. QED  BY <2>3 DEF P
<1>. QED  BY <1>1, <1>12, <1>13 DEF total, left

\* The heap gives all entries, in order.
LEMMA HeapGives ==
  ASSUME NEW heads, Queues(heads)
  PROVE  LET heap == HeapSorted(heads)
             shown == [k \in DOMAIN heap |-> Bytewise(heap[k])]
         IN  /\ shown \in Seq(Items) /\ Len(heap) \in Nat
             /\ \A i \in 1..(Len(heap) - 1) : AtMostTyped(Bytewise(heap[i]), Bytewise(heap[i + 1]))
             /\ \A E : TimesIn(shown, E) = Waiting(heads, E)
<1>. DEFINE total == Len(FlattenSeq(heads))
            left == LeftOver(heads)
            x(n) == PoppedAt(heads, n)
            e(n) == Bytewise(x(n))
            heap == HeapSorted(heads)
            shown == [k \in DOMAIN heap |-> Bytewise(heap[k])]
<1>1. /\ total \in Nat /\ left[0] = heads
      /\ \A n \in 1..total : left[n] = WithoutTop(left[n - 1])
      /\ \A n \in 0..total : LeftAfter(left[n], heads, n)
  BY LeftAre
<1>2. heap = [n \in 1..total |-> x(n)]
  BY HeapSortedIs
<1>3. ASSUME NEW n \in 1..total
      PROVE  /\ e(n) \in Items /\ ComesFirst(e(n), left[n - 1])
             /\ \A E : Waiting(left[n - 1], E) = Once(e(n), E) + Waiting(left[n], E)
             /\ \E d \in 1..Len(left[n - 1]) : \E k \in 1..Len(left[n - 1][d]) :
                  x(n) = left[n - 1][d][k]
             /\ \A c \in 1..Len(left[n]) : \A k \in 1..Len(left[n][c]) :
                  \E j \in 1..Len(left[n - 1][c]) : left[n][c][k] = left[n - 1][c][j]
             /\ Len(left[n]) = Len(left[n - 1])
  <2>. DEFINE its == left[n - 1]
              y == Head(its[HeapTop(its)])
              r == WithoutTop(its)
  <2>1. n - 1 \in 0..total /\ n - 1 < total
    BY <1>1
  <2>2. Queues(its) /\ Waiting(its, Items) = total - (n - 1)
    BY <1>1, <2>1 DEF LeftAfter
  <2>3. x(n) = y /\ left[n] = r
    BY <1>1 DEF PoppedAt
  <2>. HIDE DEF its, total
  <2>4. Waiting(its, Items) > 0
    BY <1>1, <2>1, <2>2
  <2>5. /\ Bytewise(y) \in Items /\ Queues(r) /\ Len(r) = Len(its) /\ ComesFirst(Bytewise(y), its)
        /\ \A E : Waiting(its, E) = Once(Bytewise(y), E) + Waiting(r, E)
        /\ \E d \in 1..Len(its) : \E k \in 1..Len(its[d]) : y = its[d][k]
        /\ \A c \in 1..Len(r) : \A k \in 1..Len(r[c]) :
             \E j \in 1..Len(its[c]) : r[c][k] = its[c][j]
    BY <2>2, <2>4, PopIs
  <2>. HIDE DEF y, r, x, left
  <2>. QED  BY <2>3, <2>5 DEF its
<1>. HIDE DEF left, x, heap, total
<1>4. heap \in [1..total -> {x(n) : n \in 1..total}]
  BY <1>2
<1>5. Len(heap) = total /\ DOMAIN heap = 1..total /\ \A n \in 1..total : heap[n] = x(n)
  <2>1. Len(heap) = total
    BY <1>1, <1>4
  <2>. QED  BY <1>2, <2>1
<1>6. shown = [n \in 1..total |-> e(n)]
  BY <1>5
<1>. HIDE DEF shown
<1>7. shown \in Seq(Items) /\ Len(shown) = total /\ \A n \in 1..total : shown[n] = e(n)
  <2>1. shown \in [1..total -> Items]
    BY <1>3, <1>6
  <2>2. shown \in Seq(Items) /\ Len(shown) = total
    BY <1>1, <2>1
  <2>. HIDE DEF e
  <2>. QED  BY <1>6, <2>2
<1>8. ASSUME NEW i \in 1..(total - 1)
      PROVE  AtMostTyped(Bytewise(heap[i]), Bytewise(heap[i + 1]))
  <2>. DEFINE m == i + 1
  <2>1. i \in 1..total /\ m \in 1..total /\ m - 1 = i
    BY <1>1
  <2>. HIDE DEF m
  <2>2. \E d \in 1..Len(left[m - 1]) : \E k \in 1..Len(left[m - 1][d]) : x(m) = left[m - 1][d][k]
    BY <1>3, <2>1
  <2>3. PICK d \in 1..Len(left[i]) : \E k \in 1..Len(left[i][d]) : x(m) = left[i][d][k]
    BY <2>1, <2>2
  <2>4. /\ Len(left[i]) = Len(left[i - 1])
        /\ \A c \in 1..Len(left[i]) : \A k \in 1..Len(left[i][c]) :
             \E h \in 1..Len(left[i - 1][c]) : left[i][c][k] = left[i - 1][c][h]
    BY <1>3, <2>1
  <2>5. d \in 1..Len(left[i - 1]) /\ \E h \in 1..Len(left[i - 1][d]) : x(m) = left[i - 1][d][h]
    BY <2>3, <2>4
  <2>6. ComesFirst(e(i), left[i - 1])
    BY <1>3, <2>1
  <2>7. AtMostTyped(e(i), Bytewise(x(m)))
    BY <2>5, <2>6 DEF ComesFirst
  <2>8. heap[i] = x(i) /\ heap[m] = x(m)
    BY <1>5, <2>1
  <2>. QED  BY <2>7, <2>8 DEF m
<1>. HIDE DEF e
<1>9. ASSUME NEW E PROVE TimesIn(shown, E) = Waiting(heads, E)
  <2>. DEFINE p(n) == SubSeq(shown, 1, n)
              w == Waiting(heads, E)
              P == {n \in 0..total : TimesIn(p(n), E) + Waiting(left[n], E) = w}
  <2>0. w \in Nat
    BY WaitingIs
  <2>1. 0 \in P
    <3>1. p(0) = <<>>
      OBVIOUS
    <3>2. TimesIn(p(0), E) = 0
      BY <3>1, TimesEmpty
    <3>3. Waiting(left[0], E) = w /\ 0 \in 0..total
      BY <1>1
    <3>. HIDE DEF p, w
    <3>. QED  BY <2>0, <3>2, <3>3
  <2>2. ASSUME NEW n \in 1..total, n - 1 \in P PROVE n \in P
    <3>1. n - 1 \in 0..total /\ n \in 0..total /\ (n - 1) + 1 = n
      BY <1>1
    <3>2. p(n - 1) \in Seq(Items) /\ e(n) \in Items
      <4>. DEFINE I == Items
      <4>. HIDE DEF I
      <4>1. shown \in Seq(I) /\ n - 1 \in 0..Len(shown)
        BY <1>7, <3>1 DEF I
      <4>2. p(n - 1) \in Seq(I)
        BY <4>1, FirstIs
      <4>. QED  BY <1>3, <4>2 DEF I
    <3>3. p(n) = Append(p(n - 1), e(n))
      <4>. DEFINE I == Items
      <4>. HIDE DEF I
      <4>1. shown \in Seq(I) /\ n - 1 \in 0..Len(shown) /\ n \in 0..Len(shown) /\ shown[n] = e(n)
            /\ e(n) \in I
        BY <1>7, <3>1, <3>2 DEF I
      <4>2. /\ p(n - 1) \in Seq(I) /\ Len(p(n - 1)) = n - 1
            /\ \A i \in 1..(n - 1) : p(n - 1)[i] = shown[i]
            /\ p(n) \in Seq(I) /\ Len(p(n)) = n /\ \A i \in 1..n : p(n)[i] = shown[i]
        BY <4>1, FirstIs
      <4>. DEFINE a == Append(p(n - 1), e(n))
                  b == p(n)
                  c == p(n - 1)
      <4>. HIDE DEF b, c
      <4>3. /\ a \in Seq(I) /\ Len(a) = n /\ a[n] = e(n)
            /\ \A i \in 1..(n - 1) : a[i] = c[i]
        BY <3>1, <4>1, <4>2, AppendProperties DEF b, c
      <4>. HIDE DEF a, p
      <4>4. \A i \in 1..n : i \in 1..(n - 1) \/ i = n
        OBVIOUS
      <4>5. \A i \in 1..n : b[i] = a[i]
        BY <4>1, <4>2, <4>3, <4>4 DEF b, c
      <4>6. b = a
        BY <4>2, <4>3, <4>5, SeqEqual DEF b
      <4>. QED  BY <4>6 DEF a, b, c
    <3>4. TimesIn(p(n), E) = TimesIn(p(n - 1), E) + Once(e(n), E)
      BY ZenonT(60), <3>2, <3>3, TimesAppend
    <3>5. TimesIn(p(n - 1), E) \in Nat
      BY <3>2, TimesIs
    <3>6. Once(e(n), E) \in Nat
      BY OnceIs
    <3>7. Waiting(left[n], E) \in Nat
      <4>1. Queues(left[n])
        BY <1>1, <3>1 DEF LeftAfter
      <4>. QED  BY <4>1, WaitingIs
    <3>8. Waiting(left[n - 1], E) = Once(e(n), E) + Waiting(left[n], E)
      BY <1>3
    <3>9. TimesIn(p(n - 1), E) + Waiting(left[n - 1], E) = w
      BY <2>2
    <3>. DEFINE a == TimesIn(p(n - 1), E)
                o == Once(e(n), E)
                r == Waiting(left[n], E)
    <3>10. a \in Nat /\ o \in Nat /\ r \in Nat /\ a + (o + r) = w /\ TimesIn(p(n), E) = a + o
      BY <3>4, <3>5, <3>6, <3>7, <3>8, <3>9
    <3>. HIDE DEF a, o, w
    <3>11. (a + o) + r = w
      <4>. HIDE DEF r
      <4>. QED  BY <3>10
    <3>12. TimesIn(p(n), E) + Waiting(left[n], E) = w
      BY <3>10, <3>11
    <3>. QED  BY <3>1, <3>12
  <2>. HIDE DEF P
  <2>3. \A n \in 0..total : n \in P
    BY <1>1, <2>1, <2>2, InductUpTo
  <2>4. TimesIn(p(total), E) + Waiting(left[total], E) = w
    BY <1>1, <2>3 DEF P
  <2>5. p(total) = shown
    <3>. DEFINE I == Items
                b == p(total)
    <3>. HIDE DEF I
    <3>1. shown \in Seq(I) /\ Len(shown) \in 0..Len(shown)
      BY <1>1, <1>7 DEF I
    <3>2. b \in Seq(I) /\ Len(b) = Len(shown) /\ \A i \in 1..Len(shown) : b[i] = shown[i]
      BY <1>7, <3>1, FirstIs
    <3>. HIDE DEF b
    <3>3. b = shown
      BY <3>1, <3>2, SeqEqual
    <3>. QED  BY <3>3 DEF b
  <2>6. Waiting(left[total], E) = 0
    <3>1. total \in 0..total
      BY <1>1
    <3>2. Queues(left[total]) /\ Waiting(left[total], Items) = total - total
      BY <1>1, <3>1 DEF LeftAfter, total
    <3>3. Waiting(left[total], Items) = 0
      BY <1>1, <3>2
    <3>. QED  BY <3>2, <3>3, WaitingEnds
  <2>7. TimesIn(shown, E) \in Nat
    BY <1>7, TimesIs
  <2>. DEFINE a == TimesIn(shown, E)
  <2>8. a + 0 = w
    BY <2>4, <2>5, <2>6
  <2>. HIDE DEF a, w
  <2>9. a = w
    BY <2>0, <2>7, <2>8 DEF a
  <2>. QED  BY <2>9 DEF a, w
<1>. QED  BY <1>1, <1>5, <1>7, <1>8, <1>9 DEF heap, shown

-----------------------------------------------------------------------------
(* Ropes compare as their bytes.                                           *)

\* The invariant makes ropes compare as bytes do.
LEMMA MergeInvCompares ==
  ASSUME MergeInv
  PROVE  ComparesAsBytes
<1>1. Queues(iters) /\ (opened < Len(OpenOrder) => added = <<>>)
  BY DEF MergeInv, Calls, Conserved
<1>2. ASSUME NEW e \in AllRopes, NEW f \in AllRopes
      PROVE  Compare(e.entry, f.entry) = RopeOrder(e.entry, f.entry)
  <2>1. \A x \in AllRopes : x \in GivenItems
    <3>. SUFFICES ASSUME NEW x \in AllRopes PROVE x \in GivenItems
      OBVIOUS
    <3>. DEFINE G == GivenItems
    <3>. HIDE DEF G
    <3>1. PICK d \in DOMAIN iters : x \in ToSet(iters[d])
      BY DEF AllRopes
    <3>2. d \in 1..Len(iters)
      BY <1>1, LiveIs
    <3>3. iters[d] \in Seq(G)
      BY <1>1, <3>2 DEF Queues, Queue, G
    <3>4. \E k \in 1..Len(iters[d]) : iters[d][k] = x
      BY <3>1, <3>3, SeqOfItsSet
    <3>5. x \in G
      BY <3>3, <3>4
    <3>. QED  BY <3>5 DEF G
  <2>2. Shaped(e.entry) /\ Shaped(f.entry)
    BY <2>1, GivenIs DEF Roped
  <2>. QED  BY <2>2, CompareIs
<1>. DEFINE heap == HeapSorted(iters)
            shown == [k \in DOMAIN heap |-> Bytewise(heap[k])]
<1>3. /\ shown \in Seq(Items) /\ Len(heap) \in Nat
      /\ \A i \in 1..(Len(heap) - 1) : AtMostTyped(Bytewise(heap[i]), Bytewise(heap[i + 1]))
      /\ \A E : TimesIn(shown, E) = Waiting(iters, E)
  BY <1>1, HeapGives
<1>. HIDE DEF heap, shown
<1>4. ASSUME opened = 0, NEW e \in Items
      PROVE  Abstract!Count(shown, e) = Abstract!Count(FlattenSeq(sources), e)
  <2>1. added = <<>>
    <3>1. Len(OpenOrder) \in Nat \ {0}
      BY OrdersAre DEF MergeInv, Calls
    <3>. QED  BY <1>1, <1>4, <3>1
  <2>2. TimesIn(added, {e}) = 0
    BY <2>1, TimesEmpty
  <2>3. /\ Abstract!Count(FlattenSeq(sources), e) = TimesIn(FlattenSeq(sources), {e})
        /\ TimesIn(FlattenSeq(sources), {e}) = TimesIn(added, {e}) + Waiting(iters, {e})
        /\ Waiting(iters, {e}) \in Nat
    BY InputIs
  <2>4. Abstract!Count(shown, e) = TimesIn(shown, {e})
    BY <1>3, CountIs
  <2>. DEFINE w == Waiting(iters, {e})
  <2>. HIDE DEF w
  <2>5. TimesIn(FlattenSeq(sources), {e}) = 0 + w /\ w \in Nat
    BY <2>2, <2>3 DEF w
  <2>6. TimesIn(FlattenSeq(sources), {e}) = w
    BY <2>5
  <2>. QED  BY <1>3, <2>3, <2>4, <2>6 DEF w
<1>. QED  BY <1>2, <1>3, <1>4 DEF ComparesAsBytes, heap, shown

(* Ropes compare as their bytes do, except that equal entries are not      *)
(* equal where one ends in an empty slice, and a heap of the heads gives   *)
(* all entries in order (SizedDictEntry::cmp, heap_sorted_iter).           *)
THEOREM ComparesAlways == FairSpec => []ComparesAsBytes
BY MergeInvAlways, MergeInvCompares, PTL

-----------------------------------------------------------------------------
(* The buffer that reads a rope.                                           *)

\* What comes after part of what comes after part of a sequence.
LEMMA AfterAfter ==
  ASSUME NEW D, NEW s \in Seq(D), NEW p \in 0..Len(s), NEW c \in 0..(Len(s) - p)
  PROVE  /\ p + c \in 0..Len(s) /\ After(After(s, p), c) = After(s, p + c)
<1>. DEFINE a == After(s, p)
            b == After(a, c)
            w == After(s, p + c)
            n == Len(s)
<1>1. n \in Nat /\ p + c \in 0..n /\ p \in Nat /\ c \in Nat
  OBVIOUS
<1>2. a \in Seq(D) /\ Len(a) = n - p /\ \A i \in 1..(n - p) : a[i] = s[p + i]
  BY AfterIs
<1>. HIDE DEF a
<1>3. b \in Seq(D) /\ Len(b) = n - p - c /\ \A i \in 1..(n - p - c) : b[i] = a[c + i]
  <2>1. c \in 0..Len(a)
    BY <1>2
  <2>2. b \in Seq(D) /\ Len(b) = Len(a) - c /\ \A i \in 1..(Len(a) - c) : b[i] = a[c + i]
    <3>1. a \in Seq(D)
      BY <1>2
    <3>. QED  BY <2>1, <3>1, AfterIs
  <2>. HIDE DEF b, n
  <2>. QED  BY <1>2, <2>2
<1>4. w \in Seq(D) /\ Len(w) = n - (p + c) /\ \A i \in 1..(n - (p + c)) : w[i] = s[(p + c) + i]
  BY <1>1, AfterIs
<1>. HIDE DEF b, w, n
<1>5. n - p - c = n - (p + c)
  BY <1>1
<1>6. \A i \in 1..(n - p - c) : b[i] = w[i]
  <2>. SUFFICES ASSUME NEW i \in 1..(n - p - c) PROVE b[i] = w[i]
    OBVIOUS
  <2>1. c + i \in 1..(n - p) /\ p + (c + i) = (p + c) + i /\ i \in 1..(n - (p + c))
    BY <1>1
  <2>. QED  BY <1>2, <1>3, <1>4, <2>1
<1>7. b = w
  BY <1>3, <1>4, <1>5, <1>6, SeqEqual
<1>. QED  BY <1>1, <1>7 DEF a, b, w, n

\* What comes after part of the first of two sequences.
LEMMA AfterConcat ==
  ASSUME NEW D, NEW a \in Seq(D), NEW b \in Seq(D), NEW c \in 0..Len(a)
  PROVE  After(a \o b, c) = After(a, c) \o b
<1>. DEFINE w == a \o b
            m == Len(a)
            k == Len(b)
            x == After(w, c)
            r == After(a, c)
            y == r \o b
<1>1. m \in Nat /\ k \in Nat /\ c \in Nat /\ c <= m
  OBVIOUS
<1>2. w \in Seq(D) /\ Len(w) = m + k
      /\ \A i \in 1..(m + k) : w[i] = IF i <= m THEN a[i] ELSE b[i - m]
  BY ConcatProperties
<1>3. r \in Seq(D) /\ Len(r) = m - c /\ \A i \in 1..(m - c) : r[i] = a[c + i]
  BY AfterIs
<1>. HIDE DEF w, r
<1>4. x \in Seq(D) /\ Len(x) = m + k - c /\ \A i \in 1..(m + k - c) : x[i] = w[c + i]
  <2>1. c \in 0..Len(w)
    BY <1>1, <1>2
  <2>2. x \in Seq(D) /\ Len(x) = Len(w) - c /\ \A i \in 1..(Len(w) - c) : x[i] = w[c + i]
    <3>1. w \in Seq(D)
      BY <1>2
    <3>. QED  BY <2>1, <3>1, AfterIs
  <2>. HIDE DEF x, m, k
  <2>. QED  BY <1>1, <1>2, <2>2
<1>5. y \in Seq(D) /\ Len(y) = (m - c) + k
      /\ \A i \in 1..((m - c) + k) : y[i] = IF i <= m - c THEN r[i] ELSE b[i - (m - c)]
  <2>1. y \in Seq(D) /\ Len(y) = Len(r) + k
        /\ \A i \in 1..(Len(r) + k) : y[i] = IF i <= Len(r) THEN r[i] ELSE b[i - Len(r)]
    BY <1>3, ConcatProperties
  <2>. HIDE DEF y, m, k
  <2>. QED  BY <1>3, <2>1
<1>. HIDE DEF x, y, m, k
<1>6. m + k - c = (m - c) + k
  BY <1>1
<1>7. \A i \in 1..(m + k - c) : x[i] = y[i]
  <2>. SUFFICES ASSUME NEW i \in 1..(m + k - c) PROVE x[i] = y[i]
    OBVIOUS
  <2>1. c + i \in 1..(m + k) /\ i \in 1..((m - c) + k)
    BY <1>1
  <2>2. CASE i <= m - c
    <3>1. c + i <= m /\ i \in 1..(m - c)
      BY <1>1, <2>2
    <3>. QED  BY <1>2, <1>3, <1>4, <1>5, <2>1, <2>2, <3>1
  <2>3. CASE ~(i <= m - c)
    <3>1. ~(c + i <= m) /\ (c + i) - m = i - (m - c)
      BY <1>1, <2>3
    <3>. QED  BY <1>2, <1>4, <1>5, <2>1, <2>3, <3>1
  <2>. QED  BY <2>2, <2>3
<1>8. x = y
  BY <1>4, <1>5, <1>6, <1>7, SeqEqual
<1>. QED  BY <1>8 DEF w, x, y, r

\* What comes after some of a sequence, or after more than all of it.
LEMMA AfterType ==
  ASSUME NEW D, NEW s \in Seq(D), NEW k \in Nat
  PROVE  After(s, k) \in Seq(D) /\ (k >= Len(s) => After(s, k) = <<>>)
<1>1. Len(s) \in Nat
  OBVIOUS
<1>2. CASE k <= Len(s)
  <2>1. After(s, k) \in Seq(D) /\ Len(After(s, k)) = Len(s) - k
    BY <1>1, <1>2, AfterIs
  <2>2. k >= Len(s) => Len(After(s, k)) = 0
    BY <1>1, <1>2, <2>1
  <2>. HIDE DEF After
  <2>. QED  BY <2>1, <2>2, EmptySeq
<1>3. CASE k > Len(s)
  <2>. DEFINE m == Len(s)
  <2>1. SubSeq(s, k + 1, m) = <<>>
    <3>1. m \in Nat /\ k + 1 \in Int /\ k + 1 > m
      BY <1>1, <1>3
    <3>. HIDE DEF m
    <3>. QED  BY <3>1
  <2>2. After(s, k) = <<>>
    BY <2>1 DEF After
  <2>3. <<>> \in Seq(D)
    OBVIOUS
  <2>. QED  BY <2>2, <2>3
<1>. QED  BY <1>1, <1>2, <1>3

\* The lesser of two numbers.
LEMMA MinOfTwo ==
  ASSUME NEW a \in Nat, NEW b \in Nat
  PROVE  /\ Min({a, b}) \in Nat /\ Min({a, b}) <= a /\ Min({a, b}) <= b
         /\ Min({a, b}) = a \/ Min({a, b}) = b
<1>. DEFINE T == {a, b}
<1>1. T \in SUBSET Nat /\ a \in T /\ b \in T /\ \A t \in T : t = a \/ t = b
  OBVIOUS
<1>. HIDE DEF T
<1>2. Min(T) \in T /\ \A t \in T : Min(T) <= t
  BY <1>1, MinIs
<1>. QED  BY <1>1, <1>2 DEF T

\* Buffers stay buffers.
LEMMA BufsAre ==
  ASSUME NEW b \in Bufs
  PROVE  /\ b.rope \in Seq(Bytes) /\ Len(b.rope) \in Nat /\ b.ix \in Nat \ {0} /\ b.pos \in Nat
         /\ b.panicked \in BOOLEAN
         /\ b = [rope |-> b.rope, ix |-> b.ix, pos |-> b.pos, panicked |-> b.panicked]
         /\ Chunk(b) \in Bytes /\ Len(Chunk(b)) \in Nat
         /\ \A c \in Nat : /\ Advance(b, c) \in Bufs /\ Advance(b, c).rope = b.rope
                           /\ Advance(b, c).panicked = b.panicked
                           /\ Advance(b, c).ix \in {b.ix, b.ix + 1}
                           /\ ~AtEnd(b) /\ Len(Chunk(b)) <= c => Advance(b, c).ix = b.ix + 1
<1>1. /\ b.rope \in Seq(Bytes) /\ b.ix \in Nat \ {0} /\ b.pos \in Nat /\ b.panicked \in BOOLEAN
      /\ b = [rope |-> b.rope, ix |-> b.ix, pos |-> b.pos, panicked |-> b.panicked]
  BY DEF Bufs, Bytes
<1>2. Len(b.rope) \in Nat
  BY <1>1
<1>3. Chunk(b) \in Bytes
  <2>1. CASE AtEnd(b)
    <3>1. <<>> \in Seq(Nat)
      OBVIOUS
    <3>. QED  BY <2>1, <3>1 DEF Chunk, Bytes
  <2>2. CASE ~AtEnd(b)
    <3>1. b.ix \in 1..Len(b.rope)
      BY <1>1, <1>2, <2>2 DEF AtEnd
    <3>2. b.rope[b.ix] \in Bytes
      <4>. HIDE DEF Bytes
      <4>. QED  BY <1>1, <3>1
    <3>. QED  BY <1>1, <2>2, <3>2, AfterType DEF Chunk, Bytes
  <2>. QED  BY <2>1, <2>2
<1>4. Len(Chunk(b)) \in Nat
  BY <1>3 DEF Bytes
<1>5. ASSUME NEW c \in Nat
      PROVE  /\ Advance(b, c) \in Bufs /\ Advance(b, c).rope = b.rope
             /\ Advance(b, c).panicked = b.panicked
             /\ Advance(b, c).ix \in {b.ix, b.ix + 1}
             /\ ~AtEnd(b) /\ Len(Chunk(b)) <= c => Advance(b, c).ix = b.ix + 1
  <2>1. CASE AtEnd(b)
    BY <2>1 DEF Advance
  <2>2. CASE ~AtEnd(b) /\ Len(Chunk(b)) > c
    <3>1. Advance(b, c) = [b EXCEPT !.pos = @ + c]
      BY <2>2 DEF Advance
    <3>2. Advance(b, c) = [rope |-> b.rope, ix |-> b.ix, pos |-> b.pos + c, panicked |-> b.panicked]
      BY <1>1, <3>1 DEF Bufs
    <3>3. b.pos + c \in Nat /\ ~(Len(Chunk(b)) <= c)
      BY <1>1, <1>4, <2>2
    <3>. QED  BY <1>1, <3>2, <3>3 DEF Bufs, Bytes
  <2>3. CASE ~AtEnd(b) /\ ~(Len(Chunk(b)) > c)
    <3>1. Advance(b, c) = [b EXCEPT !.ix = @ + 1, !.pos = 0]
      BY <2>3 DEF Advance, NextSlice
    <3>2. Advance(b, c) = [rope |-> b.rope, ix |-> b.ix + 1, pos |-> 0, panicked |-> b.panicked]
      BY <1>1, <3>1 DEF Bufs
    <3>3. b.ix + 1 \in Nat \ {0}
      BY <1>1
    <3>. QED  BY <1>1, <3>2, <3>3 DEF Bufs, Bytes
  <2>. QED  BY <2>1, <2>2, <2>3
<1>. QED  BY <1>1, <1>2, <1>3, <1>4, <1>5

\* A buffer that stands at a byte of its rope, or at its end.
Sound(b) ==
  /\ b \in Bufs /\ ~b.panicked /\ b.ix <= Len(b.rope) + 1
  /\ b.ix <= Len(b.rope) => b.pos = 0 \/ b.pos < Len(b.rope[b.ix])
  /\ b.ix = Len(b.rope) + 1 => b.pos = 0

\* What it has yet to give.
AfterChunk(b) == BytesOf(After(b.rope, b.ix))
ToGive(b) == IF AtEnd(b) THEN <<>> ELSE Chunk(b) \o AfterChunk(b)

\* What a buffer has yet to give: its chunk, then the slices after it.
LEMMA ToGiveIs ==
  ASSUME NEW b, Sound(b)
  PROVE  /\ ToGive(b) \in Bytes /\ Len(ToGive(b)) \in Nat /\ Remaining(b) = Len(ToGive(b))
         /\ Chunk(b) \in Bytes /\ Len(Chunk(b)) \in Nat /\ Len(Chunk(b)) <= Len(ToGive(b))
         /\ \A i \in 1..Len(Chunk(b)) : ToGive(b)[i] = Chunk(b)[i]
         /\ \A n \in 0..Len(Chunk(b)) : SubSeq(Chunk(b), 1, n) = SubSeq(ToGive(b), 1, n)
         /\ b.pos = 0 => ToGive(b) = BytesOf(After(b.rope, b.ix - 1))
         /\ ~AtEnd(b) => b.ix \in 1..Len(b.rope) /\ b.pos \in 0..Len(b.rope[b.ix])
                         /\ AfterChunk(b) \in Bytes /\ Chunk(b) = After(b.rope[b.ix], b.pos)
<1>. DEFINE rope == b.rope
            ix == b.ix
            pos == b.pos
            m == Len(rope)
            k == ix - 1
            h == rope[ix]
            q == After(rope, k)
            t == After(rope, ix)
<1>1. /\ rope \in Seq(Bytes) /\ m \in Nat /\ ix \in Nat \ {0} /\ pos \in Nat
      /\ Chunk(b) \in Bytes /\ Len(Chunk(b)) \in Nat /\ ix <= m + 1
      /\ ix <= m => pos = 0 \/ pos < Len(h)
      /\ ix = m + 1 => pos = 0
  BY BufsAre DEF Sound
<1>2. CASE AtEnd(b)
  <2>1. ix = m + 1 /\ pos = 0 /\ k = m
    BY <1>1, <1>2 DEF AtEnd
  <2>2. q = <<>>
    <3>. HIDE DEF rope, k
    <3>1. k \in Nat /\ k >= Len(rope)
      BY <1>1, <2>1
    <3>. QED  BY <1>1, <3>1, AfterType
  <2>3. BytesOf(q) = <<>>
    BY <2>2, FlattenEmpty DEF BytesOf
  <2>4. Remaining(b) = 0 - 0
    <3>1. Remaining(b) = Len(BytesOf(q)) - pos
      BY DEF Remaining
    <3>2. Len(<<>>) = 0
      OBVIOUS
    <3>. HIDE DEF q, pos
    <3>. QED  BY <2>1, <2>3, <3>1, <3>2
  <2>5. ToGive(b) = <<>> /\ Chunk(b) = <<>>
    BY <1>2 DEF ToGive, Chunk
  <2>6. <<>> \in Bytes /\ Len(<<>>) = 0
    BY DEF Bytes
  <2>7. \A n \in 0..0 : SubSeq(Chunk(b), 1, n) = SubSeq(ToGive(b), 1, n)
    BY <2>5
  <2>. HIDE DEF rope, ix, pos, m, k, q, t
  <2>8. (b.pos = 0 => ToGive(b) = BytesOf(After(b.rope, b.ix - 1)))
    BY <2>3, <2>5 DEF q, k, ix, rope
  <2>9. Remaining(b) = 0
    BY <2>4
  <2>10. \A i \in 1..0 : ToGive(b)[i] = Chunk(b)[i]
    OBVIOUS
  <2>. DEFINE e == <<>>
  <2>11. ToGive(b) = e /\ Chunk(b) = e /\ e \in Bytes /\ Len(e) = 0
    BY <2>5, <2>6
  <2>. HIDE DEF e
  <2>. QED  BY <1>2, <2>7, <2>8, <2>9, <2>10, <2>11
<1>3. CASE ~AtEnd(b)
  <2>1. ix \in 1..m
    BY <1>1, <1>3 DEF AtEnd
  <2>2. h \in Bytes
    <3>. HIDE DEF Bytes
    <3>. QED  BY <1>1, <2>1
  <2>3. h \in Seq(Nat) /\ Len(h) \in Nat /\ pos \in 0..Len(h)
    <3>1. h \in Seq(Nat) /\ Len(h) \in Nat
      BY <2>2 DEF Bytes
    <3>. HIDE DEF h, pos, ix, m
    <3>. QED  BY <1>1, <2>1, <3>1
  <2>4. /\ q \in Seq(Bytes) /\ q # <<>> /\ Head(q) = h /\ Tail(q) = t /\ t \in Seq(Bytes)
    <3>. DEFINE SliceSet == Bytes
    <3>. HIDE DEF SliceSet, rope, ix
    <3>0. rope \in Seq(SliceSet) /\ k \in 0..Len(rope) /\ ix \in 0..Len(rope) /\ k + 1 = ix
      BY <1>1, <2>1 DEF SliceSet
    <3>. HIDE DEF m, k
    <3>1. /\ q \in Seq(SliceSet) /\ Len(q) = Len(rope) - k
          /\ \A i \in 1..(Len(rope) - k) : q[i] = rope[k + i]
      BY <3>0, AfterIs
    <3>2. /\ t \in Seq(SliceSet) /\ Len(t) = Len(rope) - ix
          /\ \A i \in 1..(Len(rope) - ix) : t[i] = rope[ix + i]
      BY <3>0, AfterIs
    <3>. HIDE DEF q, t
    <3>3. Len(q) # 0
      BY <1>1, <2>1, <3>0, <3>1 DEF m
    <3>4. q # <<>>
      BY <3>3, EmptySeq
    <3>5. /\ Head(q) = q[1] /\ Tail(q) \in Seq(SliceSet) /\ Len(Tail(q)) = Len(q) - 1
          /\ \A i \in 1..(Len(q) - 1) : Tail(q)[i] = q[i + 1]
      BY <3>1, <3>4, HeadTailProperties
    <3>6. q[1] = h
      BY <1>1, <2>1, <3>0, <3>1 DEF m
    <3>. DEFINE w == Tail(q)
    <3>. HIDE DEF w
    <3>7. w \in Seq(SliceSet) /\ Len(w) = Len(t)
      <4>1. w \in Seq(SliceSet) /\ Len(w) = Len(q) - 1
        BY <3>5 DEF w
      <4>2. Len(q) - 1 = Len(t)
        <5>1. m \in Nat /\ k \in Int /\ k + 1 = ix /\ Len(q) = m - k /\ Len(t) = m - ix
          BY <1>1, <3>0, <3>1, <3>2 DEF m
        <5>2. ix \in Int
          BY <1>1
        <5>3. (m - k) - 1 = m - ix
          BY <5>1, <5>2
        <5>. QED  BY <5>1, <5>3
      <4>. QED  BY <4>1, <4>2
    <3>8. \A i \in 1..Len(t) : w[i] = t[i]
      <4>. SUFFICES ASSUME NEW i \in 1..Len(t) PROVE w[i] = t[i]
        OBVIOUS
      <4>1. Len(rope) \in Nat
        BY <1>1 DEF m
      <4>2. i + 1 \in 1..(Len(rope) - k) /\ k + (i + 1) = ix + i /\ i \in 1..(Len(rope) - ix)
            /\ i \in 1..(Len(q) - 1)
        BY <3>0, <3>1, <3>2, <4>1
      <4>. QED  BY <3>1, <3>2, <3>5, <4>2 DEF w
    <3>9. w = t
      BY <3>2, <3>7, <3>8, SeqEqual
    <3>. QED  BY <3>1, <3>2, <3>4, <3>5, <3>6, <3>9 DEF SliceSet, w
  <2>5. BytesOf(q) = h \o BytesOf(t) /\ BytesOf(t) \in Seq(Nat)
    <3>. HIDE DEF q, t, h
    <3>. QED  BY <2>4, FlattenHead, FlattenType DEF BytesOf, Bytes
  <2>. DEFINE c == After(h, pos)
              u == BytesOf(t)
  <2>6. Chunk(b) = c /\ AfterChunk(b) = u /\ ToGive(b) = c \o u
    BY <1>3 DEF Chunk, ToGive, AfterChunk
  <2>. HIDE DEF h, pos, t
  <2>7. c \in Seq(Nat) /\ Len(c) = Len(h) - pos
    BY <2>3, AfterIs
  <2>8. /\ c \o u \in Seq(Nat) /\ Len(c \o u) = Len(c) + Len(u)
        /\ \A i \in 1..(Len(c) + Len(u)) : (c \o u)[i] = IF i <= Len(c) THEN c[i] ELSE u[i - Len(c)]
    <3>. HIDE DEF c, u
    <3>. QED  BY <2>5, <2>7, ConcatProperties DEF u
  <2>9. Len(h \o u) = Len(h) + Len(u)
    <3>. HIDE DEF u
    <3>. QED  BY <2>3, <2>5, ConcatProperties DEF u
  <2>10. Remaining(b) = Len(BytesOf(q)) - pos
    BY DEF Remaining, pos
  <2>11. pos = 0 => c \o u = BytesOf(q)
    <3>. SUFFICES ASSUME pos = 0 PROVE c = h
      BY <2>5
    <3>1. c = After(h, 0)
      OBVIOUS
    <3>. HIDE DEF c
    <3>2. c \in Seq(Nat) /\ Len(c) = Len(h) /\ \A i \in 1..Len(h) : c[i] = h[i]
      <4>. DEFINE z == 0
      <4>1. z \in 0..Len(h) /\ c = After(h, z) /\ z = 0
        BY <2>3, <3>1
      <4>. HIDE DEF z
      <4>2. c \in Seq(Nat) /\ Len(c) = Len(h) - z /\ \A i \in 1..(Len(h) - z) : c[i] = h[z + i]
        BY <2>3, <4>1, AfterIs
      <4>3. Len(h) - z = Len(h) /\ \A i \in 1..Len(h) : z + i = i
        BY <2>3, <4>1
      <4>. QED  BY <4>2, <4>3
    <3>. QED  BY <2>3, <3>2, SeqEqual
  <2>. DEFINE w == c \o u
  <2>12. w \in Seq(Nat) /\ Len(w) = Len(c) + Len(u) /\ c \in Seq(Nat) /\ u \in Seq(Nat)
         /\ \A i \in 1..(Len(c) + Len(u)) : w[i] = IF i <= Len(c) THEN c[i] ELSE u[i - Len(c)]
    BY <2>5, <2>7, <2>8
  <2>13. Remaining(b) = Len(w)
    <3>1. Len(u) \in Nat
      BY <2>12
    <3>. HIDE DEF w, c, u, q
    <3>. QED  BY <2>3, <2>5, <2>7, <2>9, <2>10, <2>12, <3>1 DEF u
  <2>. HIDE DEF w, c, u, q, m, k, ix, rope
  <2>14. Len(c) \in Nat /\ Len(u) \in Nat /\ Len(w) \in Nat /\ Len(c) <= Len(w)
    BY <2>12
  <2>15. \A i \in 1..Len(c) : w[i] = c[i]
    BY <2>12, <2>14
  <2>16. ASSUME NEW n \in 0..Len(c) PROVE SubSeq(c, 1, n) = SubSeq(w, 1, n)
    <3>. DEFINE x == SubSeq(c, 1, n)
                y == SubSeq(w, 1, n)
    <3>1. n \in 0..Len(w)
      BY <2>14
    <3>2. x \in Seq(Nat) /\ Len(x) = n /\ \A i \in 1..n : x[i] = c[i]
      BY <2>12, FirstIs
    <3>3. y \in Seq(Nat) /\ Len(y) = n /\ \A i \in 1..n : y[i] = w[i]
      BY <2>12, <3>1, FirstIs
    <3>. HIDE DEF x, y
    <3>4. \A i \in 1..n : i \in 1..Len(c)
      BY <2>14
    <3>5. x = y
      BY <2>15, <3>2, <3>3, <3>4, SeqEqual
    <3>. QED  BY <3>5 DEF x, y
  <2>17. Chunk(b) = c /\ AfterChunk(b) = u /\ ToGive(b) = w
    BY <2>6 DEF w
  <2>18. pos = 0 => w = BytesOf(q)
    BY <2>11 DEF w
  <2>19. w \in Bytes /\ c \in Bytes /\ u \in Bytes
    BY <2>12 DEF Bytes
  <2>20. ix \in 1..m /\ pos \in 0..Len(h) /\ c = After(h, pos)
    BY <2>1, <2>3 DEF c
  <2>21. /\ b.ix \in 1..Len(b.rope) /\ b.pos \in 0..Len(b.rope[b.ix])
         /\ Chunk(b) = After(b.rope[b.ix], b.pos)
    BY <2>17, <2>20 DEF ix, m, pos, h, rope
  <2>22. b.pos = 0 => ToGive(b) = BytesOf(After(b.rope, b.ix - 1))
    BY <2>17, <2>18 DEF pos, q, k, ix, rope
  <2>. QED  BY <1>3, <2>13, <2>14, <2>15, <2>16, <2>17, <2>19, <2>21, <2>22
<1>. QED  BY <1>2, <1>3

\* After nothing and after all.
LEMMA AfterEnds ==
  ASSUME NEW D, NEW s \in Seq(D)
  PROVE  /\ After(s, 0) = s /\ After(s, Len(s)) = <<>>
         /\ SubSeq(s, 1, 0) = <<>> /\ SubSeq(s, 1, Len(s)) = s
         /\ s \o <<>> = s /\ <<>> \o s = s
<1>1. Len(s) \in Nat
  OBVIOUS
<1>2. After(s, Len(s)) = <<>>
  BY <1>1, AfterType
<1>3. s \o <<>> = s /\ <<>> \o s = s
  BY ConcatEmptySeq
<1>. DEFINE z == 0
            a == After(s, z)
            w == SubSeq(s, 1, Len(s))
<1>4. a \in Seq(D) /\ Len(a) = Len(s) - z /\ \A i \in 1..(Len(s) - z) : a[i] = s[z + i]
  BY <1>1, AfterIs
<1>5. w \in Seq(D) /\ Len(w) = Len(s) /\ \A i \in 1..Len(s) : w[i] = s[i]
  <2>1. Len(s) \in 0..Len(s)
    BY <1>1
  <2>. HIDE DEF w
  <2>2. w = SubSeq(s, 1, Len(s))
    BY DEF w
  <2>. QED  BY <2>1, <2>2, FirstIs
<1>6. w = s
  <2>. HIDE DEF w
  <2>. QED  BY <1>5, SeqEqual
<1>7. a = s
  <2>1. Len(s) - z = Len(s) /\ \A i \in 1..Len(s) : z + i = i
    BY <1>1
  <2>. HIDE DEF a, z
  <2>. QED  BY <1>4, <2>1, SeqEqual
<1>8. SubSeq(s, 1, 0) = <<>>
  OBVIOUS
<1>. QED  BY <1>2, <1>3, <1>6, <1>7, <1>8

\* Going on in a buffer.
LEMMA AdvanceIs ==
  ASSUME NEW b, Sound(b), NEW c \in 0..Len(Chunk(b))
  PROVE  /\ Sound(Advance(b, c)) /\ Advance(b, c).rope = b.rope
         /\ ToGive(Advance(b, c)) = After(ToGive(b), c)
<1>. DEFINE d == Advance(b, c)
            rope == b.rope
            ch == Chunk(b)
            u == AfterChunk(b)
            h == rope[b.ix]
<1>1. /\ b \in Bufs /\ rope \in Seq(Bytes) /\ Len(rope) \in Nat /\ b.ix \in Nat \ {0} /\ b.pos \in Nat
      /\ ch \in Bytes /\ Len(ch) \in Nat /\ c \in Nat /\ ~b.panicked
      /\ b = [rope |-> b.rope, ix |-> b.ix, pos |-> b.pos, panicked |-> b.panicked]
  BY BufsAre DEF Sound
<1>2. d \in Bufs /\ d.rope = rope /\ ~d.panicked
  BY <1>1, BufsAre
<1>3. ToGive(b) \in Bytes
  BY ToGiveIs
<1>4. CASE AtEnd(b)
  <2>1. d = b /\ ToGive(b) = <<>>
    BY <1>4 DEF Advance, ToGive
  <2>2. After(ToGive(b), c) = <<>>
    <3>. DEFINE g == ToGive(b)
    <3>1. g \in Seq(Nat) /\ Len(g) = 0
      BY <1>3, <2>1 DEF Bytes
    <3>. HIDE DEF g
    <3>2. c >= Len(g)
      BY <1>1, <3>1
    <3>. QED  BY <1>1, <3>1, <3>2, AfterType DEF g
  <2>. QED  BY <2>1, <2>2
<1>5. CASE ~AtEnd(b)
  <2>1. /\ b.ix \in 1..Len(rope) /\ b.pos \in 0..Len(h) /\ u \in Bytes /\ ch = After(h, b.pos)
        /\ ToGive(b) = ch \o u
    BY <1>5, ToGiveIs DEF ToGive
  <2>2. h \in Seq(Nat) /\ Len(h) \in Nat /\ u \in Seq(Nat) /\ ch \in Seq(Nat)
    <3>1. h \in Bytes
      <4>. HIDE DEF Bytes
      <4>. QED  BY <1>1, <2>1
    <3>. QED  BY <1>1, <2>1, <3>1 DEF Bytes
  <2>3. After(ch \o u, c) = After(ch, c) \o u
    BY <2>2, AfterConcat
  <2>4. CASE Len(ch) > c
    <3>1. d = [b EXCEPT !.pos = @ + c]
      BY <1>5, <2>4 DEF Advance
    <3>2. d.ix = b.ix /\ d.pos = b.pos + c
      BY <1>1, <3>1 DEF Bufs
    <3>3. Len(ch) = Len(h) - b.pos
      BY <2>1, <2>2, AfterIs
    <3>4. c \in 0..(Len(h) - b.pos) /\ b.pos + c < Len(h)
      BY <1>1, <2>1, <2>2, <2>4, <3>3
    <3>5. After(ch, c) = After(h, b.pos + c)
      BY <2>1, <2>2, <3>4, AfterAfter
    <3>6. ~AtEnd(d)
      BY <1>2, <1>5, <3>2 DEF AtEnd
    <3>7. Chunk(d) = After(h, b.pos + c) /\ AfterChunk(d) = u
      BY <1>2, <3>2, <3>6 DEF Chunk, AfterChunk
    <3>8. ToGive(d) = After(ch, c) \o u
      BY <3>5, <3>6, <3>7 DEF ToGive
    <3>9. Sound(d)
      <4>1. d.ix <= Len(d.rope) /\ d.pos < Len(d.rope[d.ix])
        BY <1>2, <2>1, <3>2, <3>4
      <4>2. Len(d.rope) \in Nat /\ d.ix \in Nat
        BY <1>1, <1>2, <3>2
      <4>. HIDE DEF d
      <4>. QED  BY <1>2, <4>1, <4>2 DEF Sound
    <3>. QED  BY <1>2, <2>1, <2>3, <3>8, <3>9
  <2>5. CASE ~(Len(ch) > c)
    <3>1. d = [b EXCEPT !.ix = @ + 1, !.pos = 0]
      BY <1>5, <2>5 DEF Advance, NextSlice
    <3>2. d.ix = b.ix + 1 /\ d.pos = 0
      BY <1>1, <3>1 DEF Bufs
    <3>3. Sound(d)
      <4>1. d.ix <= Len(d.rope) + 1
        BY <1>1, <1>2, <2>1, <3>2
      <4>. HIDE DEF d
      <4>. QED  BY <1>2, <3>2, <4>1 DEF Sound
    <3>4. ToGive(d) = BytesOf(After(d.rope, d.ix - 1))
      BY <3>2, <3>3, ToGiveIs
    <3>5. d.ix - 1 = b.ix
      BY <1>1, <3>2
    <3>6. ToGive(d) = u
      BY <1>2, <3>4, <3>5 DEF AfterChunk
    <3>7. c = Len(ch)
      BY <1>1, <2>5
    <3>8. After(ch, c) \o u = u
      BY <2>2, <3>7, AfterEnds
    <3>. QED  BY <1>2, <2>1, <2>3, <3>3, <3>6, <3>8
  <2>. QED  BY <2>4, <2>5
<1>. QED  BY <1>4, <1>5

-----------------------------------------------------------------------------
(* Copying.                                                                *)

CopyCount(b, n) == Min({n, Len(Chunk(b))})
CopyNext(b, n, got) ==
  <<Advance(b, CopyCount(b, n)), n - CopyCount(b, n), got \o SubSeq(Chunk(b), 1, CopyCount(b, n))>>
CopyEnds(b, n) == n > Remaining(b) \/ n = 0
CopyGives(b, n, got) ==
  IF n > Remaining(b) THEN [bytes |-> got, buf |-> [b EXCEPT !.panicked = TRUE]]
  ELSE [bytes |-> got, buf |-> b]

Copies(f) ==
  f = [at \in Bufs \X Nat \X Seq(Nat) |->
         IF at[2] > Remaining(at[1])
         THEN [bytes |-> at[3], buf |-> [at[1] EXCEPT !.panicked = TRUE]]
         ELSE IF at[2] = 0 THEN [bytes |-> at[3], buf |-> at[1]]
         ELSE f[CopyNext(at[1], at[2], at[3])]]

CopySize(b, n) == IF AtEnd(b) THEN n ELSE n + (Len(b.rope) + 1 - b.ix)

\* Each round of a copy has fewer bytes or fewer slices to go.
LEMMA CopyShrinks ==
  ASSUME NEW b \in Bufs, NEW n \in Nat
  PROVE  /\ CopySize(b, n) \in Nat
         /\ CopyCount(b, n) \in 0..Len(Chunk(b)) /\ CopyCount(b, n) \in 0..n
         /\ \A got \in Seq(Nat) : CopyNext(b, n, got) \in Bufs \X Nat \X Seq(Nat)
         /\ ~CopyEnds(b, n) =>
              /\ ~AtEnd(b)
              /\ CopySize(Advance(b, CopyCount(b, n)), n - CopyCount(b, n)) < CopySize(b, n)
<1>. DEFINE c == CopyCount(b, n)
            ch == Chunk(b)
            d == Advance(b, c)
            m == Len(b.rope)
<1>1. /\ b.rope \in Seq(Bytes) /\ m \in Nat /\ b.ix \in Nat \ {0} /\ b.pos \in Nat
      /\ ch \in Bytes /\ Len(ch) \in Nat
  BY BufsAre
<1>2. /\ c \in Nat /\ c <= n /\ c <= Len(ch) /\ (c = n \/ c = Len(ch))
  BY <1>1, MinOfTwo DEF CopyCount
<1>. HIDE DEF c
<1>3. /\ d \in Bufs /\ d.rope = b.rope /\ d.ix \in {b.ix, b.ix + 1}
      /\ ~AtEnd(b) /\ Len(ch) <= c => d.ix = b.ix + 1
  BY <1>2, BufsAre
<1>4. c \in 0..Len(ch) /\ c \in 0..n /\ n - c \in Nat
  BY <1>1, <1>2
<1>5. ASSUME NEW got \in Seq(Nat) PROVE CopyNext(b, n, got) \in Bufs \X Nat \X Seq(Nat)
  <2>. DEFINE p == SubSeq(ch, 1, c)
  <2>1. p \in Seq(Nat)
    <3>. HIDE DEF ch
    <3>. QED  BY <1>1, <1>4, FirstIs DEF Bytes
  <2>. HIDE DEF p, d
  <2>2. got \o p \in Seq(Nat)
    BY <2>1, ConcatProperties
  <2>3. CopyNext(b, n, got) = <<d, n - c, got \o p>>
    BY DEF CopyNext, c, p, d
  <2>4. d \in Bufs /\ n - c \in Nat
    BY <1>3, <1>4
  <2>. DEFINE w == got \o p
              k == n - c
  <2>. HIDE DEF w, k
  <2>5. <<d, k, w>> \in Bufs \X Nat \X Seq(Nat)
    BY <2>2, <2>4 DEF w, k
  <2>. QED  BY <2>3, <2>5 DEF w, k
<1>6. CopySize(b, n) \in Nat
  BY <1>1 DEF CopySize, AtEnd
<1>7. ASSUME ~CopyEnds(b, n)
      PROVE  ~AtEnd(b) /\ CopySize(d, n - c) < CopySize(b, n)
  <2>1. n # 0 /\ ~(n > Remaining(b))
    BY <1>7 DEF CopyEnds
  <2>2. ASSUME AtEnd(b) PROVE FALSE
    <3>. DEFINE k == b.ix - 1
    <3>1. k \in Nat /\ k >= m
      BY <1>1, <2>2 DEF AtEnd
    <3>. HIDE DEF k
    <3>2. After(b.rope, k) = <<>>
      BY <1>1, <3>1, AfterType
    <3>3. BytesOf(After(b.rope, k)) = <<>>
      BY <3>2, FlattenEmpty DEF BytesOf
    <3>4. Remaining(b) = Len(BytesOf(After(b.rope, k))) - b.pos
      BY DEF Remaining, k
    <3>5. Len(<<>>) = 0
      OBVIOUS
    <3>6. Remaining(b) = 0 - b.pos
      BY <3>3, <3>4, <3>5
    <3>. QED  BY <1>1, <2>1, <3>6
  <2>3. CopySize(b, n) = n + (m + 1 - b.ix) /\ b.ix <= m
    BY <1>1, <2>2 DEF CopySize, AtEnd
  <2>. HIDE DEF d, m
  <2>4. CopySize(d, n - c) = IF d.ix > m THEN n - c ELSE (n - c) + (m + 1 - d.ix)
    BY <1>3 DEF CopySize, AtEnd, m
  <2>5. c = n \/ d.ix = b.ix + 1
    BY <1>1, <1>2, <1>3, <2>2
  <2>. QED  BY SMTT(30), <1>1, <1>2, <1>3, <1>4, <2>1, <2>2, <2>3, <2>4, <2>5
<1>. QED  BY <1>4, <1>5, <1>6, <1>7 DEF c

\* The recursive function CopyTo CHOOSEs exists.
LEMMA CopyExists == Copies(CopyTo)
<1>. DEFINE G == Bufs \X Nat \X Seq(Nat)
            stop == {r \in G : CopyEnds(r[1], r[2])}
            next == [r \in G |-> CopyNext(r[1], r[2], r[3])]
            val == [r \in G |-> CopyGives(r[1], r[2], r[3])]
            size == [r \in G |-> CopySize(r[1], r[2])]
            R == {val[r] : r \in G}
<1>1. \A r \in G : r[1] \in Bufs /\ r[2] \in Nat /\ r[3] \in Seq(Nat) /\ r = <<r[1], r[2], r[3]>>
  OBVIOUS
<1>. HIDE DEF G
<1>2. size \in [G -> Nat]
  BY <1>1, CopyShrinks
<1>3. \A r \in G : CopyNext(r[1], r[2], r[3]) \in G
  BY <1>1, CopyShrinks DEF G
<1>4. next \in [G -> G] /\ val \in [G -> R]
  BY <1>3
<1>5. ASSUME NEW r \in G, r \notin stop PROVE size[next[r]] < size[r]
  <2>. DEFINE b == r[1]
              n == r[2]
              q == CopyNext(b, n, r[3])
  <2>1. ~CopyEnds(b, n)
    BY <1>5
  <2>2. q \in G /\ next[r] = q
    BY <1>3
  <2>3. size[q] = CopySize(q[1], q[2]) /\ size[r] = CopySize(b, n)
    BY <2>2
  <2>4. q[1] = Advance(b, CopyCount(b, n)) /\ q[2] = n - CopyCount(b, n)
    BY DEF CopyNext
  <2>. HIDE DEF q, next, size
  <2>. QED  BY <1>1, <2>1, <2>2, <2>3, <2>4, CopyShrinks
<1>. HIDE DEF size, R
<1>6. PICK g : IsDescent(g, G, stop, val, next)
  <2>. HIDE DEF stop, val, next
  <2>. QED  BY <1>2, <1>4, <1>5, TailRecursion
<1>7. g = [r \in G |-> IF r \in stop THEN val[r] ELSE g[next[r]]]
  <2>. HIDE DEF stop, val, next
  <2>. QED  BY <1>6 DEF IsDescent
<1>8. ASSUME NEW r \in G
      PROVE  g[r] = IF r[2] > Remaining(r[1])
                    THEN [bytes |-> r[3], buf |-> [r[1] EXCEPT !.panicked = TRUE]]
                    ELSE IF r[2] = 0 THEN [bytes |-> r[3], buf |-> r[1]]
                    ELSE g[CopyNext(r[1], r[2], r[3])]
  <2>1. g[r] = IF r \in stop THEN val[r] ELSE g[next[r]]
    <3>. HIDE DEF stop, val, next
    <3>. QED  BY <1>7
  <2>2. /\ r \in stop <=> CopyEnds(r[1], r[2])
        /\ val[r] = CopyGives(r[1], r[2], r[3]) /\ next[r] = CopyNext(r[1], r[2], r[3])
    OBVIOUS
  <2>. HIDE DEF stop, val, next
  <2>. QED  BY <2>1, <2>2 DEF CopyEnds, CopyGives
<1>9. Copies(g)
  <2>1. g = [r \in G |-> g[r]]
    <3>. HIDE DEF stop, val, next
    <3>. QED  BY <1>7
  <2>2. g = [r \in G |-> IF r[2] > Remaining(r[1])
                    THEN [bytes |-> r[3], buf |-> [r[1] EXCEPT !.panicked = TRUE]]
                    ELSE IF r[2] = 0 THEN [bytes |-> r[3], buf |-> r[1]]
                    ELSE g[CopyNext(r[1], r[2], r[3])]]
    BY <1>8, <2>1
  <2>. QED  BY <2>2 DEF Copies, G
<1>. DEFINE f == CHOOSE t : Copies(t)
<1>10. Copies(f)
  BY <1>9
<1>11. CopyTo = f
  BY DEF CopyTo, Copies, CopyNext, CopyCount
<1>. QED  BY <1>10, <1>11

\* The first of a sequence and the first of what comes after.
LEMMA FirstJoins ==
  ASSUME NEW D, NEW s \in Seq(D), NEW n \in 0..Len(s), NEW c \in 0..n
  PROVE  /\ SubSeq(s, 1, c) \o SubSeq(After(s, c), 1, n - c) = SubSeq(s, 1, n)
         /\ After(After(s, c), n - c) = After(s, n) /\ n - c \in 0..Len(After(s, c))
<1>. DEFINE m == Len(s)
            k == n - c
            p == SubSeq(s, 1, c)
            a == After(s, c)
            q == SubSeq(a, 1, k)
            x == p \o q
            w == SubSeq(s, 1, n)
<1>1. m \in Nat /\ n \in Nat /\ c \in Nat /\ c <= n /\ n <= m /\ k \in Nat /\ c + k = n
      /\ c \in 0..m /\ k \in 0..(m - c)
  OBVIOUS
<1>2. p \in Seq(D) /\ Len(p) = c /\ \A i \in 1..c : p[i] = s[i]
  BY <1>1, FirstIs
<1>3. a \in Seq(D) /\ Len(a) = m - c /\ \A i \in 1..(m - c) : a[i] = s[c + i]
  BY <1>1, AfterIs
<1>4. After(a, k) = After(s, n)
  <2>1. After(After(s, c), k) = After(s, c + k)
    <3>. HIDE DEF k
    <3>. QED  BY <1>1, AfterAfter DEF m
  <2>. HIDE DEF k
  <2>. QED  BY <1>1, <2>1
<1>. HIDE DEF a, m, k, p
<1>5. q \in Seq(D) /\ Len(q) = k /\ \A i \in 1..k : q[i] = a[i]
  <2>1. k \in 0..Len(a)
    BY <1>1, <1>3
  <2>. QED  BY <1>3, <2>1, FirstIs
<1>6. w \in Seq(D) /\ Len(w) = n /\ \A i \in 1..n : w[i] = s[i]
  BY FirstIs
<1>. HIDE DEF q, w
<1>7. x \in Seq(D) /\ Len(x) = c + k /\ \A i \in 1..(c + k) : x[i] = IF i <= c THEN p[i] ELSE q[i - c]
  <2>1. x \in Seq(D) /\ Len(x) = Len(p) + Len(q)
        /\ \A i \in 1..(Len(p) + Len(q)) : x[i] = IF i <= Len(p) THEN p[i] ELSE q[i - Len(p)]
    BY <1>2, <1>5, ConcatProperties
  <2>. HIDE DEF x
  <2>. QED  BY <1>2, <1>5, <2>1
<1>. HIDE DEF x
<1>8. \A i \in 1..n : x[i] = w[i]
  <2>. SUFFICES ASSUME NEW i \in 1..n PROVE x[i] = w[i]
    OBVIOUS
  <2>1. CASE i <= c
    <3>1. i \in 1..c /\ i \in 1..(c + k)
      BY <1>1, <2>1
    <3>. QED  BY <1>2, <1>6, <1>7, <2>1, <3>1
  <2>2. CASE ~(i <= c)
    <3>. DEFINE j == i - c
    <3>1. j \in 1..k /\ j \in 1..(m - c) /\ c + j = i /\ i \in 1..(c + k)
      BY <1>1, <2>2
    <3>2. x[i] = q[j]
      BY <1>7, <2>2, <3>1
    <3>. HIDE DEF j
    <3>. QED  BY <1>3, <1>5, <1>6, <3>1, <3>2
  <2>. QED  BY <2>1, <2>2
<1>9. x = w
  BY <1>1, <1>6, <1>7, <1>8, SeqEqual
<1>. QED  BY <1>1, <1>3, <1>4, <1>9 DEF x, w, p, q, a, k

\* What a copy is.
CopyIs(res, b, n, got) ==
  /\ res.bytes = got \o SubSeq(ToGive(b), 1, n)
  /\ Sound(res.buf) /\ res.buf.rope = b.rope
  /\ ToGive(res.buf) = After(ToGive(b), n)

\* One chunk of a copy.
CopyFrom(b, n) == Advance(b, CopyCount(b, n))
CopyLeft(b, n) == n - CopyCount(b, n)
CopyGot(b, n, got) == got \o SubSeq(Chunk(b), 1, CopyCount(b, n))

\* One chunk and a copy of the rest are a copy of both.
LEMMA CopyStep ==
  ASSUME NEW b, Sound(b), NEW n \in 0..Len(ToGive(b)), n # 0, NEW got \in Bytes, NEW res
  PROVE  /\ Sound(CopyFrom(b, n)) /\ CopyLeft(b, n) \in 0..Len(ToGive(CopyFrom(b, n)))
         /\ CopyGot(b, n, got) \in Bytes
         /\ CopyIs(res, CopyFrom(b, n), CopyLeft(b, n), CopyGot(b, n, got)) => CopyIs(res, b, n, got)
<1>. SUFFICES ASSUME NEW c, c = CopyCount(b, n), NEW d, d = Advance(b, c),
                     NEW g, g = got \o SubSeq(Chunk(b), 1, c)
              PROVE  /\ Sound(d) /\ n - c \in 0..Len(ToGive(d)) /\ g \in Bytes
                     /\ CopyIs(res, d, n - c, g) => CopyIs(res, b, n, got)
  BY DEF CopyFrom, CopyLeft, CopyGot
<1>. DEFINE T == ToGive(b)
            ch == Chunk(b)
            p == SubSeq(T, 1, c)
            a == After(T, c)
            q == SubSeq(a, 1, n - c)
<1>1. T \in Seq(Nat) /\ ch \in Seq(Nat) /\ Len(ch) \in Nat /\ Len(T) \in Nat /\ Len(ch) <= Len(T)
      /\ \A i \in 0..Len(ch) : SubSeq(ch, 1, i) = SubSeq(T, 1, i)
  BY ToGiveIs DEF Bytes
<1>2. b \in Bufs /\ n \in Nat
  BY DEF Sound
<1>3. c \in 0..Len(ch) /\ c \in 0..n
  BY <1>2, CopyShrinks
<1>4. Sound(d) /\ d.rope = b.rope /\ ToGive(d) = a
  BY <1>3, AdvanceIs
<1>. HIDE DEF T, ch
<1>5. c \in 0..Len(T) /\ n \in 0..Len(T)
  BY <1>1, <1>3 DEF T
<1>6. /\ p \o q = SubSeq(T, 1, n) /\ After(a, n - c) = After(T, n) /\ n - c \in 0..Len(a)
  BY <1>1, <1>3, <1>5, FirstJoins
<1>7. p \in Seq(Nat) /\ q \in Seq(Nat) /\ SubSeq(ch, 1, c) = p
  <2>1. p \in Seq(Nat)
    BY <1>1, <1>5, FirstIs
  <2>2. a \in Seq(Nat)
    BY <1>1, <1>5, AfterIs
  <2>. HIDE DEF a, p
  <2>3. q \in Seq(Nat)
    BY <1>6, <2>2, FirstIs
  <2>. QED  BY <1>1, <1>3, <2>1, <2>3 DEF p
<1>. HIDE DEF p, q, a
<1>8. g = got \o p /\ got \in Seq(Nat)
  BY <1>7 DEF ch, Bytes
<1>9. g \in Bytes /\ g \o q = got \o (p \o q)
  <2>1. got \in Seq(Nat)
    BY DEF Bytes
  <2>2. got \o p \in Seq(Nat)
    BY <1>7, <2>1, ConcatProperties
  <2>3. (got \o p) \o q = got \o (p \o q)
    <3>. DEFINE D == Nat
    <3>1. got \in Seq(D) /\ p \in Seq(D) /\ q \in Seq(D)
      BY <1>7, <2>1
    <3>2. Regroups(D)
      BY Regroup
    <3>. HIDE DEF D
    <3>. QED  BY <3>1, <3>2, Zenon DEF Regroups
  <2>4. g \in Bytes
    BY <1>8, <2>2 DEF Bytes
  <2>. QED  BY <1>8, <2>3, <2>4
<1>10. ASSUME CopyIs(res, d, n - c, g) PROVE CopyIs(res, b, n, got)
  <2>1. /\ res.bytes = g \o SubSeq(a, 1, n - c) /\ Sound(res.buf) /\ res.buf.rope = d.rope
        /\ ToGive(res.buf) = After(a, n - c)
    BY <1>4, <1>10 DEF CopyIs
  <2>2. res.bytes = got \o SubSeq(T, 1, n)
    BY <1>6, <1>9, <2>1 DEF q
  <2>. QED  BY <1>4, <1>6, <2>1, <2>2 DEF CopyIs, T
<1>. QED  BY <1>4, <1>6, <1>9, <1>10

\* A copy takes the next n bytes, and goes on in the same rope.
LEMMA CopyToIs ==
  ASSUME NEW b, Sound(b), NEW n \in 0..Len(ToGive(b))
  PROVE  CopyIs(CopyToSlice(b, n), b, n, <<>>)
<1>. DEFINE G == {r \in Bufs \X Nat \X Seq(Nat) : Sound(r[1]) /\ r[2] \in 0..Len(ToGive(r[1]))}
            size == [r \in G |-> CopySize(r[1], r[2])]
            Good == {r \in G : CopyIs(CopyTo[r], r[1], r[2], r[3])}
<1>1. \A r \in G : /\ r[1] \in Bufs /\ r[2] \in Nat /\ r[3] \in Seq(Nat) /\ r = <<r[1], r[2], r[3]>>
                   /\ r \in Bufs \X Nat \X Seq(Nat)
                   /\ Sound(r[1]) /\ r[2] \in 0..Len(ToGive(r[1]))
  OBVIOUS
<1>2. \A c, k, g : c \in Bufs /\ k \in Nat /\ g \in Seq(Nat) /\ Sound(c) /\ k \in 0..Len(ToGive(c))
                   => <<c, k, g>> \in G
  OBVIOUS
<1>. HIDE DEF G
<1>3. size \in [G -> Nat]
  BY <1>1, CopyShrinks
<1>4. ASSUME NEW r \in G
      PROVE  r \in Good \/ \E q \in G : size[q] < size[r] /\ (q \in Good => r \in Good)
  <2>. DEFINE x == r[1]
              k == r[2]
              got == r[3]
              c == CopyCount(x, k)
              d == Advance(x, c)
              g == got \o SubSeq(Chunk(x), 1, c)
              q == <<d, k - c, g>>
  <2>1. /\ x \in Bufs /\ k \in Nat /\ got \in Seq(Nat) /\ r = <<x, k, got>> /\ Sound(x)
        /\ k \in 0..Len(ToGive(x)) /\ r \in Bufs \X Nat \X Seq(Nat)
    BY <1>1
  <2>2. ~(k > Remaining(x))
    <3>1. Remaining(x) = Len(ToGive(x)) /\ Len(ToGive(x)) \in Nat
      BY <2>1, ToGiveIs
    <3>. QED  BY <2>1, <3>1
  <2>3. CopyTo[r] = IF k = 0 THEN [bytes |-> got, buf |-> x] ELSE CopyTo[CopyNext(x, k, got)]
    <3>1. CopyTo[r] = IF r[2] > Remaining(r[1])
         THEN [bytes |-> r[3], buf |-> [r[1] EXCEPT !.panicked = TRUE]]
         ELSE IF r[2] = 0 THEN [bytes |-> r[3], buf |-> r[1]]
         ELSE CopyTo[CopyNext(r[1], r[2], r[3])]
      BY <2>1, CopyExists DEF Copies
    <3>. QED  BY <2>2, <3>1
  <2>. HIDE DEF x, k, got
  <2>4. CASE k = 0
    <3>. DEFINE res == [bytes |-> got, buf |-> x]
                T == ToGive(x)
    <3>1. CopyTo[r] = res
      BY <2>3, <2>4
    <3>2. T \in Seq(Nat)
      BY <2>1, ToGiveIs DEF Bytes
    <3>. HIDE DEF T
    <3>3. got \o SubSeq(T, 1, 0) = got /\ After(T, 0) = T
      <4>1. SubSeq(T, 1, 0) = <<>> /\ After(T, 0) = T
        BY <3>2, AfterEnds
      <4>2. got \o <<>> = got
        BY <2>1, AfterEnds
      <4>. QED  BY <4>1, <4>2
    <3>4. CopyIs(res, x, k, got)
      BY <2>1, <2>4, <3>3 DEF CopyIs, T
    <3>5. r \in Good
      BY <3>1, <3>4 DEF x, k, got
    <3>. QED  BY <3>5
  <2>5. CASE k # 0
    <3>1. CopyTo[r] = CopyTo[q] /\ q = CopyNext(x, k, got)
      BY <2>3, <2>5 DEF CopyNext
    <3>2. /\ Sound(d) /\ k - c \in 0..Len(ToGive(d)) /\ g \in Bytes
          /\ CopyIs(CopyTo[q], d, k - c, g) => CopyIs(CopyTo[q], x, k, got)
      <4>. DEFINE res == CopyTo[q]
      <4>1. got \in Bytes
        BY <2>1 DEF Bytes
      <4>2. d = CopyFrom(x, k) /\ k - c = CopyLeft(x, k) /\ g = CopyGot(x, k, got)
        BY DEF CopyFrom, CopyLeft, CopyGot
      <4>. HIDE DEF res, c, d, g
      <4>3. /\ Sound(d) /\ k - c \in 0..Len(ToGive(d)) /\ g \in Bytes
            /\ CopyIs(res, d, k - c, g) => CopyIs(res, x, k, got)
        BY <2>1, <2>5, <4>1, <4>2, CopyStep
      <4>. QED  BY <4>3 DEF res
    <3>3. d \in Bufs /\ k - c \in Nat /\ g \in Seq(Nat)
      <4>1. Len(ToGive(d)) \in Nat
        BY <3>2, ToGiveIs
      <4>. HIDE DEF d, g, c
      <4>. QED  BY <3>2, <4>1 DEF Sound, Bytes
    <3>4. q \in G
      <4>. HIDE DEF d, g, c
      <4>. QED  BY <1>2, <3>2, <3>3
    <3>5. size[q] < size[r]
      <4>1. size[q] = CopySize(q[1], q[2]) /\ size[r] = CopySize(x, k)
        BY <3>4 DEF x, k
      <4>2. size[q] = CopySize(d, k - c)
        <5>. HIDE DEF d, g, c, size
        <5>. QED  BY <4>1
      <4>3. ~CopyEnds(x, k)
        BY <2>2, <2>5 DEF CopyEnds
      <4>4. CopySize(d, k - c) < CopySize(x, k)
        BY <2>1, <4>3, CopyShrinks
      <4>. HIDE DEF size, q, d, c
      <4>. QED  BY <4>1, <4>2, <4>4
    <3>6. q \in Good => r \in Good
      <4>1. q \in Good => CopyIs(CopyTo[q], q[1], q[2], q[3])
        <5>. HIDE DEF q
        <5>. QED  OBVIOUS
      <4>2. q[1] = d /\ q[2] = k - c /\ q[3] = g
        <5>. HIDE DEF d, g, c
        <5>. QED  OBVIOUS
      <4>. HIDE DEF q, d, g, c
      <4>3. q \in Good => CopyIs(CopyTo[r], r[1], r[2], r[3])
        <5>1. q \in Good => CopyIs(CopyTo[q], d, k - c, g)
          BY <4>1, <4>2
        <5>. QED  BY <3>1, <3>2, <5>1 DEF x, k, got
      <4>. QED  BY <4>3
    <3>. HIDE DEF q, size, Good
    <3>. QED  BY <3>4, <3>5, <3>6
  <2>. QED  BY <2>1, <2>4, <2>5
<1>5. \A r \in G : r \in Good
  <2>. HIDE DEF size, Good
  <2>. QED  BY <1>3, <1>4, Descent
<1>. DEFINE at == <<b, n, <<>>>>
<1>6. b \in Bufs /\ n \in Nat /\ <<>> \in Seq(Nat)
  <2>1. Len(ToGive(b)) \in Nat
    BY ToGiveIs
  <2>. QED  BY <2>1 DEF Sound
<1>7. at \in G
  BY <1>2, <1>6
<1>8. CopyIs(CopyTo[at], at[1], at[2], at[3])
  <2>. HIDE DEF at
  <2>. QED  BY <1>5, <1>7
<1>. QED  BY <1>8 DEF CopyToSlice

-----------------------------------------------------------------------------
(* Equality with a buffer.                                                 *)

EqNext(parts, b) == <<Tail(parts), Advance(b, Len(Head(parts)))>>
EqEnds(parts, b) ==
  \/ Len(Head(parts)) > Len(Chunk(b))
  \/ SubSeq(Chunk(b), 1, Len(Head(parts))) # Head(parts)
  \/ (Len(parts) = 1) # (Len(Head(parts)) = Len(Chunk(b)))
  \/ Len(parts) = 1
EqGives(parts, b) ==
  IF Len(Head(parts)) > Len(Chunk(b)) THEN "panics"
  ELSE IF SubSeq(Chunk(b), 1, Len(Head(parts))) # Head(parts) THEN "no"
  ELSE IF (Len(parts) = 1) # (Len(Head(parts)) = Len(Chunk(b))) THEN "panics"
  ELSE "yes"

EqualsBufs(f) ==
  f = [at \in Parts \X Bufs |->
         IF Len(Head(at[1])) > Len(Chunk(at[2])) THEN "panics"
         ELSE IF SubSeq(Chunk(at[2]), 1, Len(Head(at[1]))) # Head(at[1]) THEN "no"
         ELSE IF (Len(at[1]) = 1) # (Len(Head(at[1])) = Len(Chunk(at[2]))) THEN "panics"
         ELSE IF Len(at[1]) = 1 THEN "yes"
         ELSE f[EqNext(at[1], at[2])]]

\* The recursive function PartsEqBuf CHOOSEs exists.
LEMMA EqExists == EqualsBufs(PartsEqBuf)
<1>. DEFINE G == Parts \X Bufs
            stop == {r \in G : EqEnds(r[1], r[2])}
            next == [r \in G |-> IF EqEnds(r[1], r[2]) THEN r ELSE EqNext(r[1], r[2])]
            val == [r \in G |-> EqGives(r[1], r[2])]
            size == [r \in G |-> Len(r[1])]
            R == {val[r] : r \in G}
<1>1. \A r \in G : r[1] \in Parts /\ r[2] \in Bufs /\ r = <<r[1], r[2]>>
  OBVIOUS
<1>2. \A x, b : x \in Parts /\ b \in Bufs => <<x, b>> \in G
  OBVIOUS
<1>. HIDE DEF G
<1>3. size \in [G -> Nat]
  <2>1. \A r \in G : Len(r[1]) \in Nat
    BY <1>1, PartsAre
  <2>. QED  BY <2>1
<1>4. ASSUME NEW r \in G, ~EqEnds(r[1], r[2])
      PROVE  /\ EqNext(r[1], r[2]) \in G
             /\ Len(EqNext(r[1], r[2])[1]) < Len(r[1])
  <2>. DEFINE x == r[1]
              b == r[2]
              y == Tail(x)
              d == Advance(b, Len(Head(x)))
  <2>1. /\ x \in Parts /\ b \in Bufs /\ Len(x) # 1 /\ Len(x) \in Nat
        /\ y \in Seq(Bytes) /\ Len(y) = Len(x) - 1 /\ (y # <<>> <=> Len(x) # 1)
        /\ Len(Head(x)) \in Nat
    BY <1>1, <1>4, PartsAre DEF EqEnds
  <2>2. d \in Bufs
    BY <2>1, BufsAre
  <2>3. EqNext(x, b) = <<y, d>>
    BY DEF EqNext
  <2>. HIDE DEF d, y, x, b
  <2>4. y \in Parts
    BY <2>1 DEF Parts, Bytes
  <2>5. EqNext(x, b) \in G /\ Len(EqNext(x, b)[1]) < Len(x)
    BY <1>2, <2>1, <2>2, <2>3, <2>4
  <2>. QED  BY <2>5 DEF x, b
<1>5. next \in [G -> G] /\ val \in [G -> R]
  BY <1>4
<1>6. ASSUME NEW r \in G, r \notin stop PROVE size[next[r]] < size[r]
  <2>. DEFINE q == EqNext(r[1], r[2])
  <2>1. ~EqEnds(r[1], r[2])
    BY <1>6
  <2>2. q \in G /\ next[r] = q
    BY <1>4, <2>1
  <2>3. size[q] = Len(q[1]) /\ size[r] = Len(r[1])
    BY <2>2
  <2>4. Len(q[1]) < Len(r[1])
    BY <1>4, <2>1
  <2>. HIDE DEF q, next, size
  <2>. QED  BY <2>2, <2>3, <2>4
<1>. HIDE DEF size, R
<1>7. PICK g : IsDescent(g, G, stop, val, next)
  <2>. HIDE DEF stop, val, next
  <2>. QED  BY <1>3, <1>5, <1>6, TailRecursion
<1>8. g = [r \in G |-> IF r \in stop THEN val[r] ELSE g[next[r]]]
  <2>. HIDE DEF stop, val, next
  <2>. QED  BY <1>7 DEF IsDescent
<1>9. ASSUME NEW r \in G
      PROVE  g[r] = IF Len(Head(r[1])) > Len(Chunk(r[2])) THEN "panics"
         ELSE IF SubSeq(Chunk(r[2]), 1, Len(Head(r[1]))) # Head(r[1]) THEN "no"
         ELSE IF (Len(r[1]) = 1) # (Len(Head(r[1])) = Len(Chunk(r[2]))) THEN "panics"
         ELSE IF Len(r[1]) = 1 THEN "yes"
         ELSE g[EqNext(r[1], r[2])]
  <2>1. g[r] = IF r \in stop THEN val[r] ELSE g[next[r]]
    <3>. HIDE DEF stop, val, next
    <3>. QED  BY <1>8
  <2>2. /\ r \in stop <=> EqEnds(r[1], r[2])
        /\ val[r] = EqGives(r[1], r[2])
        /\ ~EqEnds(r[1], r[2]) => next[r] = EqNext(r[1], r[2])
    OBVIOUS
  <2>. HIDE DEF stop, val, next
  <2>3. g[r] = IF EqEnds(r[1], r[2]) THEN EqGives(r[1], r[2]) ELSE g[EqNext(r[1], r[2])]
    BY <2>1, <2>2
  <2>. QED  BY <2>3 DEF EqEnds, EqGives
<1>10. EqualsBufs(g)
  <2>1. g = [r \in G |-> g[r]]
    <3>. HIDE DEF stop, val, next
    <3>. QED  BY <1>8
  <2>2. g = [r \in G |->
         IF Len(Head(r[1])) > Len(Chunk(r[2])) THEN "panics"
         ELSE IF SubSeq(Chunk(r[2]), 1, Len(Head(r[1]))) # Head(r[1]) THEN "no"
         ELSE IF (Len(r[1]) = 1) # (Len(Head(r[1])) = Len(Chunk(r[2]))) THEN "panics"
         ELSE IF Len(r[1]) = 1 THEN "yes"
         ELSE g[EqNext(r[1], r[2])]]
    BY <1>9, <2>1
  <2>. QED  BY <2>2 DEF EqualsBufs, G
<1>. DEFINE f == CHOOSE t : EqualsBufs(t)
<1>11. EqualsBufs(f)
  BY <1>10
<1>12. PartsEqBuf = f
  BY DEF PartsEqBuf, EqualsBufs, EqNext
<1>. QED  BY <1>11, <1>12

\* The last of what is flattened to nothing is nothing.
LEMMA LastOfNothing ==
  ASSUME NEW s \in Seq(Bytes), s # <<>>, Len(FlattenSeq(s)) = 0
  PROVE  s[Len(s)] = <<>>
<1>. DEFINE m == Len(s)
            p == FlattenSeq(SubSeq(s, 1, m - 1))
            w == FlattenSeq(s)
            D == Nat
<1>1. m \in Nat /\ m >= 1 /\ m \in 1..m /\ m - 1 \in 0..m /\ s \in Seq(Seq(D)) /\ s[m] \in Seq(D)
  BY DEF Bytes
<1>2. SubSeq(s, 1, m) = s
  BY <1>1, AfterEnds
<1>. HIDE DEF D
<1>3. FlattenSeq(SubSeq(s, 1, m)) = p \o s[m]
  <2>. DEFINE E == Seq(D)
  <2>1. s \in Seq(E)
    BY <1>1
  <2>2. FlattenSeq(SubSeq(s, 1, m)) = FlattenSeq(SubSeq(s, 1, m - 1)) \o s[m]
    <3>. HIDE DEF m
    <3>. QED  BY <1>1, FlattenFirst DEF m
  <2>. QED  BY <2>2
<1>4. p \in Seq(D)
  <2>. DEFINE q == SubSeq(s, 1, m - 1)
  <2>1. q \in Seq(Seq(D))
    <3>. DEFINE E == Seq(D)
    <3>1. s \in Seq(E)
      BY <1>1
    <3>. HIDE DEF E
    <3>2. q \in Seq(E)
      BY <1>1, <3>1, FirstIs
    <3>. QED  BY <3>2 DEF E
  <2>. HIDE DEF q
  <2>2. FlattenSeq(q) \in Seq(D)
    BY <2>1, FlattenType
  <2>. QED  BY <2>2 DEF q
<1>. DEFINE l == s[m]
<1>5. w = p \o l /\ l \in Seq(D)
  BY <1>1, <1>2, <1>3
<1>. HIDE DEF p, l, m, w
<1>6. Len(w) = Len(p) + Len(l) /\ Len(p) \in Nat /\ Len(l) \in Nat
  BY <1>4, <1>5, ConcatProperties
<1>7. Len(l) = 0
  BY <1>6 DEF w
<1>8. l = <<>>
  BY <1>5, <1>7, EmptySeq
<1>. QED  BY <1>8 DEF l, m

\* A buffer of one slice with as many bytes to give as the parts have.
Against(parts, b) ==
  /\ parts \in Parts /\ Sound(b) /\ Len(b.rope) = 1
  /\ Len(ToGive(b)) = Len(BytesOf(parts)) /\ Len(ToGive(b)) # 0

EqIs(parts, b) ==
  IF ToGive(b) # BytesOf(parts) THEN "no" ELSE IF EndsEmpty(parts) THEN "panics" ELSE "yes"

\* The bytes of a rope begin with those of its first slice.
LEMMA PartsHead ==
  ASSUME NEW x \in Parts
  PROVE  /\ BytesOf(x) = Head(x) \o BytesOf(Tail(x)) /\ BytesOf(x) \in Seq(Nat)
         /\ Head(x) \in Seq(Nat) /\ BytesOf(Tail(x)) \in Seq(Nat)
         /\ Len(BytesOf(x)) = Len(Head(x)) + Len(BytesOf(Tail(x)))
         /\ SubSeq(BytesOf(x), 1, Len(Head(x))) = Head(x)
         /\ After(BytesOf(x), Len(Head(x))) = BytesOf(Tail(x))
<1>. DEFINE h == Head(x)
            t == BytesOf(Tail(x))
            w == BytesOf(x)
            D == Nat
            c == Len(h)
<1>1. x \in Seq(Seq(D)) /\ x # <<>> /\ h \in Seq(D) /\ Tail(x) \in Seq(Seq(D))
  BY PartsAre DEF Parts, Bytes
<1>. HIDE DEF D
<1>2. w = h \o t
  <2>. HIDE DEF h
  <2>. QED  BY <1>1, FlattenHead DEF BytesOf, h
<1>3. t \in Seq(D) /\ w \in Seq(D)
  BY <1>1, FlattenType DEF BytesOf
<1>. HIDE DEF h, t, w
<1>4. /\ Len(w) = Len(h) + Len(t) /\ Len(h) \in Nat /\ Len(t) \in Nat
      /\ \A i \in 1..(Len(h) + Len(t)) : w[i] = IF i <= Len(h) THEN h[i] ELSE t[i - Len(h)]
  BY <1>1, <1>2, <1>3, ConcatProperties
<1>5. c \in Nat /\ c \in 0..Len(w) /\ c \in 0..Len(h)
  BY <1>4
<1>6. SubSeq(w, 1, c) = h
  <2>. DEFINE p == SubSeq(w, 1, c)
  <2>1. p \in Seq(D) /\ Len(p) = c /\ \A i \in 1..c : p[i] = w[i]
    BY <1>3, <1>5, FirstIs
  <2>. HIDE DEF p
  <2>2. \A i \in 1..c : p[i] = h[i]
    BY <1>4, <2>1
  <2>3. p = h
    BY <1>1, <2>1, <2>2, SeqEqual
  <2>. QED  BY <2>3 DEF p
<1>7. After(w, c) = t
  <2>1. After(h \o t, c) = After(h, c) \o t
    BY <1>1, <1>3, <1>5, AfterConcat
  <2>2. After(h, c) = <<>>
    BY <1>1, AfterEnds
  <2>3. <<>> \o t = t
    BY <1>3, AfterEnds
  <2>. QED  BY <1>2, <2>1, <2>2, <2>3
<1>. QED  BY <1>1, <1>2, <1>3, <1>4, <1>6, <1>7 DEF h, t, w, c, D

\* One step of buf_eq.
LEMMA EqStep ==
  ASSUME NEW x, NEW b, Against(x, b)
  PROVE  /\ EqEnds(x, b) => EqGives(x, b) = EqIs(x, b)
         /\ ~EqEnds(x, b) => LET q == EqNext(x, b)
                             IN  Against(q[1], q[2]) /\ EqIs(q[1], q[2]) = EqIs(x, b)
<1>. DEFINE h == Head(x)
            t == BytesOf(Tail(x))
            w == BytesOf(x)
            n == Len(h)
            g == ToGive(b)
            ch == Chunk(b)
            m == Len(x)
            d == Advance(b, n)
<1>1. /\ x \in Parts /\ Sound(b) /\ Len(b.rope) = 1 /\ Len(g) = Len(w) /\ Len(g) # 0
  BY DEF Against
<1>2. /\ w = h \o t /\ w \in Seq(Nat) /\ h \in Seq(Nat) /\ t \in Seq(Nat)
      /\ Len(w) = n + Len(t) /\ SubSeq(w, 1, n) = h /\ After(w, n) = t
  BY <1>1, PartsHead
<1>3. /\ g \in Seq(Nat) /\ ch \in Seq(Nat) /\ Len(ch) \in Nat
      /\ \A k \in 0..Len(ch) : SubSeq(ch, 1, k) = SubSeq(g, 1, k)
  BY <1>1, ToGiveIs DEF Bytes
<1>4. n \in Nat /\ Len(t) \in Nat /\ Len(g) \in Nat /\ m \in Nat \ {0}
  BY <1>1, <1>2, <1>3, PartsAre
<1>5. g = ch
  <2>1. ~AtEnd(b)
    BY <1>1 DEF ToGive
  <2>2. b.ix \in 1..1 /\ b \in Bufs /\ g = ch \o AfterChunk(b)
    BY <1>1, <2>1, ToGiveIs DEF ToGive, Sound
  <2>3. b.rope \in Seq(Bytes)
    BY <2>2, BufsAre
  <2>4. After(b.rope, b.ix) = <<>>
    <3>. DEFINE B1 == Bytes
                ix == b.ix
    <3>1. ix \in Nat /\ ix >= Len(b.rope) /\ b.rope \in Seq(B1)
      BY <1>1, <2>2, <2>3
    <3>. HIDE DEF B1, ix
    <3>. QED  BY <3>1, AfterType DEF ix
  <2>5. AfterChunk(b) = <<>>
    BY <2>4, FlattenEmpty DEF AfterChunk, BytesOf
  <2>6. ch \o <<>> = ch
    BY <1>3, AfterEnds
  <2>. QED  BY <2>2, <2>5, <2>6
<1>6. n \in 0..Len(ch) /\ n <= Len(ch) /\ SubSeq(ch, 1, n) = SubSeq(g, 1, n)
  <2>. HIDE DEF h, t, w, n, g, ch
  <2>. QED  BY <1>1, <1>2, <1>3, <1>4, <1>5
<1>7. ASSUME SubSeq(ch, 1, n) # h
      PROVE  EqGives(x, b) = "no" /\ EqIs(x, b) = "no"
  <2>1. EqGives(x, b) = "no"
    BY <1>4, <1>6, <1>7 DEF EqGives
  <2>2. g # w
    <3>. HIDE DEF h, t, w, n, g, ch
    <3>. QED  BY <1>2, <1>6, <1>7
  <2>. QED  BY <2>1, <2>2 DEF EqIs
<1>8. EndsEmpty(x) <=> m > 1 /\ x[m] = <<>>
  BY DEF EndsEmpty, Last
<1>9. ASSUME SubSeq(ch, 1, n) = h, m = 1
      PROVE  EqGives(x, b) = EqIs(x, b)
  <2>1. t = <<>>
    <3>1. Tail(x) = <<>>
      BY <1>1, <1>9, PartsAre
    <3>. QED  BY <3>1, FlattenEmpty DEF BytesOf
  <2>2. w = h /\ n = Len(ch)
    <3>1. h \o <<>> = h
      BY <1>2, AfterEnds
    <3>. HIDE DEF h, t, w, n, g, ch
    <3>2. w = h
      BY <1>2, <2>1, <3>1
    <3>. QED  BY <1>1, <1>2, <1>5, <3>2 DEF n
  <2>3. g = w
    <3>1. SubSeq(ch, 1, Len(ch)) = ch
      BY <1>3, AfterEnds
    <3>. HIDE DEF h, t, w, n, g, ch
    <3>. QED  BY <1>5, <1>9, <2>2, <3>1
  <2>4. ~EndsEmpty(x)
    BY <1>8, <1>9
  <2>5. EqIs(x, b) = "yes"
    BY <2>3, <2>4 DEF EqIs
  <2>6. EqGives(x, b) = "yes"
    BY <1>4, <1>6, <1>9, <2>2 DEF EqGives
  <2>. QED  BY <2>5, <2>6
<1>10. ASSUME SubSeq(ch, 1, n) = h, m # 1, n = Len(ch)
       PROVE  EqGives(x, b) = EqIs(x, b)
  <2>1. g = w
    <3>1. SubSeq(ch, 1, Len(ch)) = ch
      BY <1>3, AfterEnds
    <3>2. Len(t) = 0
      <4>. HIDE DEF h, t, w, n, g, ch
      <4>. QED  BY <1>1, <1>2, <1>4, <1>5, <1>10
    <3>3. t = <<>>
      BY <1>2, <3>2, EmptySeq
    <3>4. h \o <<>> = h
      BY <1>2, AfterEnds
    <3>. HIDE DEF h, t, w, n, g, ch
    <3>. QED  BY <1>2, <1>5, <1>10, <3>1, <3>3, <3>4
  <2>2. EndsEmpty(x)
    <3>. DEFINE s == Tail(x)
                k == Len(s)
    <3>1. s \in Seq(Bytes) /\ k = m - 1 /\ s # <<>> /\ \A i \in 1..(m - 1) : s[i] = x[i + 1]
      BY <1>1, <1>10, PartsAre
    <3>2. Len(FlattenSeq(s)) = 0
      <4>1. Len(t) = 0
        <5>. HIDE DEF h, t, w, n, g, ch
        <5>. QED  BY <1>1, <1>2, <1>4, <1>5, <1>10
      <4>. QED  BY <4>1 DEF BytesOf
    <3>. HIDE DEF s
    <3>3. s[k] = <<>>
      BY <3>1, <3>2, LastOfNothing
    <3>. HIDE DEF k, m
    <3>4. k \in 1..(m - 1) /\ k + 1 = m /\ m > 1
      BY <1>4, <1>10, <3>1
    <3>5. x[m] = <<>>
      BY <3>1, <3>3, <3>4
    <3>. QED  BY <1>8, <3>4, <3>5
  <2>3. EqIs(x, b) = "panics"
    BY <2>1, <2>2 DEF EqIs
  <2>4. EqGives(x, b) = "panics"
    BY <1>4, <1>6, <1>10 DEF EqGives
  <2>. QED  BY <2>3, <2>4
<1>11. ASSUME SubSeq(ch, 1, n) = h, m # 1, n # Len(ch)
       PROVE  ~EqEnds(x, b) /\ Against(Tail(x), d) /\ EqIs(Tail(x), d) = EqIs(x, b)
  <2>. DEFINE s == Tail(x)
              a == ToGive(d)
  <2>1. ~EqEnds(x, b)
    BY <1>4, <1>6, <1>11 DEF EqEnds
  <2>2. Sound(d) /\ d.rope = b.rope /\ a = After(g, n)
    BY <1>1, <1>6, AdvanceIs
  <2>3. /\ s \in Seq(Bytes) /\ Len(s) = m - 1 /\ s # <<>> /\ \A i \in 1..(m - 1) : s[i] = x[i + 1]
    BY <1>1, <1>11, PartsAre
  <2>4. s \in Parts
    BY <2>3 DEF Parts, Bytes
  <2>. HIDE DEF s, d
  <2>5. a \in Seq(Nat) /\ Len(a) = Len(g) - n
    <3>1. n \in 0..Len(g)
      <4>. HIDE DEF n, g, ch
      <4>. QED  BY <1>5, <1>6
    <3>. HIDE DEF n, g, ch, a
    <3>. QED  BY <1>3, <2>2, <3>1, AfterIs
  <2>6. Len(a) = Len(t) /\ Len(a) # 0
    <3>. HIDE DEF h, t, w, n, g, ch, a
    <3>. QED  BY <1>1, <1>2, <1>3, <1>4, <1>5, <1>6, <1>11, <2>5
  <2>7. t = BytesOf(s)
    BY DEF s
  <2>8. Against(s, d)
    <3>. HIDE DEF t
    <3>. QED  BY <1>1, <2>2, <2>4, <2>6, <2>7 DEF Against
  <2>9. g = w <=> a = t
    <3>1. ASSUME a = t PROVE g = w
      <4>1. SubSeq(g, 1, n) \o After(g, n) = g
        <5>1. n \in Nat /\ n <= Len(g)
          <6>. HIDE DEF n, g, ch
          <6>. QED  BY <1>4, <1>5, <1>6
        <5>. HIDE DEF n, g
        <5>. QED  BY <1>3, <5>1, JoinIs DEF Bytes
      <4>. HIDE DEF h, t, w, n, g, ch, a
      <4>. QED  BY <1>2, <1>6, <1>11, <2>2, <3>1, <4>1
    <3>2. ASSUME g = w PROVE a = t
      <4>. HIDE DEF h, t, w, n, g, ch, a
      <4>. QED  BY <1>2, <2>2, <3>2
    <3>. QED  BY <3>1, <3>2
  <2>10. EndsEmpty(s) <=> EndsEmpty(x)
    <3>. DEFINE k == Len(s)
    <3>1. k = m - 1 /\ k \in 1..(m - 1) /\ m > 1 /\ k + 1 = m
      <4>. HIDE DEF m
      <4>. QED  BY <1>4, <1>11, <2>3
    <3>2. s[k] = x[m]
      <4>. HIDE DEF m, k
      <4>. QED  BY <2>3, <3>1
    <3>3. EndsEmpty(s) <=> k > 1 /\ s[k] = <<>>
      BY DEF EndsEmpty, Last
    <3>4. ASSUME ~(k > 1) PROVE s[k] # <<>>
      <4>1. k = 1
        <5>. HIDE DEF k, m
        <5>. QED  BY <1>4, <3>1, <3>4
      <4>2. s = <<s[1]>> /\ s[1] \in Seq(Nat)
        BY <2>3, <4>1 DEF Bytes
      <4>3. FlattenSeq(<<s[1]>>) = s[1]
        BY <4>2, FlattenOne
      <4>4. BytesOf(s) = s[1]
        BY <4>2, <4>3 DEF BytesOf
      <4>5. Len(s[1]) # 0
        BY <2>6, <2>7, <4>4
      <4>. QED  BY <4>1, <4>5
    <3>. HIDE DEF k, m
    <3>. QED  BY <1>8, <3>1, <3>2, <3>3, <3>4
  <2>11. EqIs(s, d) = EqIs(x, b)
    <3>1. EqIs(s, d) = IF a # t THEN "no" ELSE IF EndsEmpty(s) THEN "panics" ELSE "yes"
      BY <2>7 DEF EqIs
    <3>2. EqIs(x, b) = IF g # w THEN "no" ELSE IF EndsEmpty(x) THEN "panics" ELSE "yes"
      BY DEF EqIs
    <3>. HIDE DEF a, t, g, w
    <3>. QED  BY <2>9, <2>10, <3>1, <3>2
  <2>. QED  BY <2>1, <2>8, <2>11 DEF s
<1>12. EqNext(x, b) = <<Tail(x), d>>
  BY DEF EqNext
<1>. HIDE DEF h, n, m, ch, d
<1>. QED  BY <1>7, <1>9, <1>10, <1>11, <1>12 DEF EqEnds, h, n, m, ch

\* buf_eq of any rope against a buffer of one slice.
LEMMA PartsEqBufIs ==
  ASSUME NEW parts, NEW b, Against(parts, b)
  PROVE  PartsEqBuf[<<parts, b>>] = EqIs(parts, b)
<1>. DEFINE G == {r \in Parts \X Bufs : Against(r[1], r[2])}
            size == [r \in G |-> Len(r[1])]
            Good == {r \in G : PartsEqBuf[r] = EqIs(r[1], r[2])}
<1>1. \A r \in G : /\ r[1] \in Parts /\ r[2] \in Bufs /\ r = <<r[1], r[2]>> /\ Against(r[1], r[2])
                   /\ r \in Parts \X Bufs
  OBVIOUS
<1>2. \A x, c : Against(x, c) => <<x, c>> \in G
  BY DEF Against, Sound
<1>. HIDE DEF G
<1>3. size \in [G -> Nat]
  <2>1. \A r \in G : Len(r[1]) \in Nat
    BY <1>1, PartsAre
  <2>. QED  BY <2>1
<1>4. ASSUME NEW r \in G
      PROVE  r \in Good \/ \E q \in G : size[q] < size[r] /\ (q \in Good => r \in Good)
  <2>. DEFINE x == r[1]
              c == r[2]
              q == EqNext(x, c)
  <2>1. /\ x \in Parts /\ c \in Bufs /\ r = <<x, c>> /\ Against(x, c) /\ r \in Parts \X Bufs
    BY <1>1
  <2>2. PartsEqBuf[r] = IF EqEnds(x, c) THEN EqGives(x, c) ELSE PartsEqBuf[q]
    <3>1. PartsEqBuf[r] =
           IF Len(Head(r[1])) > Len(Chunk(r[2])) THEN "panics"
           ELSE IF SubSeq(Chunk(r[2]), 1, Len(Head(r[1]))) # Head(r[1]) THEN "no"
           ELSE IF (Len(r[1]) = 1) # (Len(Head(r[1])) = Len(Chunk(r[2]))) THEN "panics"
           ELSE IF Len(r[1]) = 1 THEN "yes"
           ELSE PartsEqBuf[EqNext(r[1], r[2])]
      BY <2>1, EqExists DEF EqualsBufs
    <3>. QED  BY <3>1 DEF EqEnds, EqGives
  <2>3. /\ EqEnds(x, c) => EqGives(x, c) = EqIs(x, c)
        /\ ~EqEnds(x, c) => Against(q[1], q[2]) /\ EqIs(q[1], q[2]) = EqIs(x, c)
    BY <2>1, EqStep
  <2>4. CASE EqEnds(x, c)
    <3>1. PartsEqBuf[r] = EqIs(x, c)
      BY <2>2, <2>3, <2>4
    <3>. QED  BY <3>1
  <2>5. CASE ~EqEnds(x, c)
    <3>1. q = <<Tail(x), Advance(c, Len(Head(x)))>> /\ q = <<q[1], q[2]>>
      BY DEF EqNext
    <3>2. q \in G
      BY <1>2, <2>3, <2>5, <3>1
    <3>3. Len(x) \in Nat /\ Len(Tail(x)) = Len(x) - 1
      BY <2>1, PartsAre
    <3>4. size[q] = Len(q[1]) /\ size[r] = Len(x)
      BY <3>2
    <3>5. size[q] < size[r]
      <4>. DEFINE y == Tail(x)
      <4>1. q[1] = y
        BY DEF EqNext
      <4>2. Len(x) \in Nat /\ Len(y) = Len(x) - 1
        BY <3>3
      <4>. HIDE DEF q, size, x, y
      <4>3. size[q] = Len(y)
        BY <3>4, <4>1
      <4>. QED  BY <3>4, <4>2, <4>3
    <3>6. q \in Good => r \in Good
      <4>1. q \in Good => PartsEqBuf[q] = EqIs(q[1], q[2])
        <5>. HIDE DEF q
        <5>. QED  OBVIOUS
      <4>2. PartsEqBuf[r] = EqIs(r[1], r[2]) => r \in Good
        OBVIOUS
      <4>. HIDE DEF q, Good
      <4>. QED  BY <2>2, <2>3, <2>5, <4>1, <4>2
    <3>. HIDE DEF q, size, Good
    <3>. QED  BY <3>2, <3>5, <3>6
  <2>. QED  BY <2>4, <2>5
<1>5. \A r \in G : r \in Good
  <2>. HIDE DEF size, Good
  <2>. QED  BY <1>3, <1>4, Descent
<1>. DEFINE at == <<parts, b>>
<1>6. at \in G
  BY <1>2
<1>7. PartsEqBuf[at] = EqIs(at[1], at[2])
  <2>. HIDE DEF at
  <2>. QED  BY <1>5, <1>6
<1>. QED  BY <1>7

\* A buffer at its start.
LEMMA AsBufIs ==
  ASSUME NEW rope \in Parts
  PROVE  /\ Sound(AsBuf(rope)) /\ AsBuf(rope).rope = rope
         /\ ToGive(AsBuf(rope)) = BytesOf(rope) /\ Chunk(AsBuf(rope)) = Head(rope)
<1>. DEFINE b == AsBuf(rope)
<1>1. /\ b.rope = rope /\ b.ix = 1 /\ b.pos = 0 /\ b.panicked = FALSE /\ b \in Bufs
  BY DEF AsBuf, Bufs, Parts
<1>2. /\ rope \in Seq(Bytes) /\ Len(rope) \in Nat \ {0} /\ Head(rope) = rope[1] /\ Head(rope) \in Bytes
  BY PartsAre
<1>. HIDE DEF b
<1>3. Sound(b) /\ ~AtEnd(b)
  BY <1>1, <1>2 DEF Sound, AtEnd
<1>4. ToGive(b) = BytesOf(After(rope, 0))
  <2>1. ToGive(b) = BytesOf(After(b.rope, b.ix - 1))
    BY <1>1, <1>3, ToGiveIs
  <2>2. b.ix - 1 = 0
    BY <1>1
  <2>. QED  BY <1>1, <2>1, <2>2
<1>5. After(rope, 0) = rope
  <2>. DEFINE E == Bytes
  <2>1. rope \in Seq(E)
    BY <1>2
  <2>. HIDE DEF E
  <2>. QED  BY <2>1, AfterEnds
<1>6. Chunk(b) = Head(rope)
  <2>. DEFINE h == Head(rope)
  <2>1. Chunk(b) = After(h, 0) /\ h \in Seq(Nat)
    BY <1>1, <1>2, <1>3 DEF Chunk, Bytes
  <2>. HIDE DEF h
  <2>2. After(h, 0) = h
    BY <2>1, AfterEnds
  <2>. QED  BY <2>1, <2>2 DEF h
<1>. QED  BY <1>1, <1>3, <1>4, <1>5, <1>6 DEF b

\* buf_eq against a buffer of these bytes.
LEMMA BufEqIs ==
  ASSUME NEW rope \in Parts, NEW s \in Seq(Nat)
  PROVE  BufEq(rope, AsBuf(<<s>>)) =
           IF s # BytesOf(rope) THEN "no"
           ELSE IF EndsEmpty(rope) /\ BytesOf(rope) # <<>> THEN "panics"
           ELSE "yes"
<1>. DEFINE b == AsBuf(<<s>>)
            w == BytesOf(rope)
<1>1. <<s>> \in Parts
  BY DEF Parts
<1>2. Sound(b) /\ b.rope = <<s>> /\ ToGive(b) = BytesOf(<<s>>)
  BY <1>1, AsBufIs
<1>3. ToGive(b) = s
  BY <1>2, FlattenOne DEF BytesOf
<1>4. Remaining(b) = Len(s) /\ Len(b.rope) = 1
  <2>1. Remaining(b) = Len(ToGive(b))
    BY <1>2, ToGiveIs
  <2>. HIDE DEF b
  <2>. QED  BY <1>2, <1>3, <2>1
<1>5. w \in Seq(Nat)
  BY PartsHead
<1>. HIDE DEF b
<1>6. CASE Len(w) # Len(s)
  <2>1. BufEq(rope, b) = "no"
    BY <1>4, <1>6 DEF BufEq
  <2>. QED  BY <1>6, <2>1 DEF b
<1>7. CASE Len(w) = Len(s) /\ w = <<>>
  <2>1. BufEq(rope, b) = "yes"
    BY <1>4, <1>7 DEF BufEq
  <2>2. s = w
    <3>. HIDE DEF w
    <3>1. Len(s) = 0
      BY <1>7
    <3>. QED  BY <1>7, <3>1, EmptySeq
  <2>. QED  BY <1>7, <2>1, <2>2 DEF b
<1>8. CASE Len(w) = Len(s) /\ w # <<>>
  <2>1. BufEq(rope, b) = PartsEqBuf[<<rope, b>>]
    BY <1>4, <1>8 DEF BufEq
  <2>2. Len(w) # 0
    <3>. HIDE DEF w
    <3>. QED  BY <1>5, <1>8, EmptySeq
  <2>3. Against(rope, b)
    BY <1>2, <1>3, <1>4, <1>8, <2>2 DEF Against
  <2>4. PartsEqBuf[<<rope, b>>] = EqIs(rope, b)
    BY <2>3, PartsEqBufIs
  <2>. QED  BY <1>3, <1>8, <2>1, <2>4 DEF EqIs, b
<1>. QED  BY <1>6, <1>7, <1>8

\* A buffer of which some bytes are read, but not all, has a next byte.
LEMMA ReadOn ==
  ASSUME NEW rope, Shaped(rope), NEW b, Sound(b), b.rope = rope,
         NEW n \in 1..(Len(BytesOf(rope)) - 1), ToGive(b) = After(BytesOf(rope), n)
  PROVE  GetU8(b).byte = BytesOf(rope)[n + 1] /\ ~GetU8(b).buf.panicked
<1>. DEFINE w == BytesOf(rope)
            g == ToGive(b)
            ch == Chunk(b)
            m == Len(rope)
            ix == b.ix
<1>1. rope \in Parts
  BY DEF Shaped, Parts, Bytes
<1>2. w \in Seq(Nat) /\ Len(w) \in Nat /\ n \in Nat /\ n <= Len(w) /\ n # 0 /\ n < Len(w) /\ n \in 0..Len(w)
      /\ 1 \in 1..(Len(w) - n)
  <2>1. w \in Seq(Nat)
    BY <1>1, PartsHead
  <2>. HIDE DEF w
  <2>2. Len(w) \in Nat /\ n \in 1..(Len(w) - 1)
    BY <2>1 DEF w
  <2>. QED  BY <2>1, <2>2
<1>3. g \in Seq(Nat) /\ Len(g) = Len(w) - n /\ \A i \in 1..(Len(w) - n) : g[i] = w[n + i]
  <2>1. g = After(w, n)
    OBVIOUS
  <2>. HIDE DEF g, w
  <2>. QED  BY <1>2, <2>1, AfterIs
<1>4. ~AtEnd(b)
  <2>1. Len(g) # 0
    <3>. HIDE DEF g, w
    <3>. QED  BY <1>2, <1>3
  <2>. QED  BY <2>1 DEF ToGive
<1>5. /\ ix \in 1..m /\ b.pos \in 0..Len(rope[ix]) /\ ch = After(rope[ix], b.pos)
      /\ ch \in Seq(Nat) /\ Len(ch) \in Nat /\ g = ch \o AfterChunk(b)
      /\ \A i \in 1..Len(ch) : g[i] = ch[i]
      /\ b.pos = 0 => g = BytesOf(After(rope, ix - 1))
      /\ b.pos = 0 \/ b.pos < Len(rope[ix])
  <2>1. b.rope = rope /\ b.ix <= Len(b.rope) + 1
        /\ (b.ix <= Len(b.rope) => b.pos = 0 \/ b.pos < Len(b.rope[b.ix]))
    BY DEF Sound
  <2>2. b.ix \in 1..Len(b.rope) /\ b.pos \in 0..Len(b.rope[b.ix]) /\ ch = After(b.rope[b.ix], b.pos)
    BY <1>4, ToGiveIs
  <2>3. ch \in Seq(Nat) /\ Len(ch) \in Nat
    BY ToGiveIs DEF Bytes
  <2>4. \A i \in 1..Len(ch) : g[i] = ch[i]
    BY ToGiveIs
  <2>5. b.pos = 0 => g = BytesOf(After(b.rope, b.ix - 1))
    BY ToGiveIs
  <2>6. g = ch \o AfterChunk(b)
    BY <1>4 DEF ToGive
  <2>7. b.ix <= Len(b.rope)
    BY <2>2
  <2>. HIDE DEF g, ch
  <2>. QED  BY <2>1, <2>2, <2>3, <2>4, <2>5, <2>6, <2>7
<1>6. rope[ix] \in Seq(Nat) /\ Len(rope[ix]) \in Nat /\ m \in Nat
  BY <1>5 DEF Shaped, Bytes
<1>7. Len(ch) = Len(rope[ix]) - b.pos
  <2>. DEFINE r == rope[ix]
              p == b.pos
  <2>1. r \in Seq(Nat) /\ p \in 0..Len(r) /\ ch = After(r, p)
    BY <1>5, <1>6
  <2>. HIDE DEF r, p, ch
  <2>2. Len(ch) = Len(r) - p
    BY <2>1, AfterIs
  <2>. QED  BY <2>2 DEF r, p
<1>8. ch # <<>>
  <2>. SUFFICES ASSUME ch = <<>> PROVE FALSE
    OBVIOUS
  <2>1. Len(ch) = 0
    OBVIOUS
  <2>2. b.pos = 0 /\ rope[ix] = <<>>
    <3>. DEFINE r == rope[ix]
                p == b.pos
                l == Len(ch)
    <3>1. l = Len(r) - p /\ l = 0 /\ r \in Seq(Nat) /\ Len(r) \in Nat /\ p \in 0..Len(r)
          /\ (p = 0 \/ p < Len(r))
      BY <1>5, <1>6, <1>7, <2>1
    <3>. HIDE DEF r, p, l
    <3>2. p = 0 /\ Len(r) = 0
      BY <3>1
    <3>3. r = <<>>
      BY <3>1, <3>2, EmptySeq
    <3>. QED  BY <3>2, <3>3 DEF r, p
  <2>3. ix = 1 \/ ix = m
    <3>1. ~(ix \in 2..(m - 1))
      BY <2>2 DEF Shaped
    <3>. HIDE DEF ix, m
    <3>. QED  BY <1>5, <1>6, <3>1
  <2>4. CASE ix = 1
    <3>1. After(rope, 0) = rope
      <4>. DEFINE E == Bytes
      <4>1. rope \in Seq(E)
        BY DEF Shaped
      <4>. HIDE DEF E
      <4>. QED  BY <4>1, AfterEnds
    <3>2. ix - 1 = 0
      BY <2>4
    <3>3. g = w
      <4>1. g = BytesOf(After(rope, ix - 1))
        BY <1>5, <2>2
      <4>. HIDE DEF g, ix
      <4>. QED  BY <3>1, <3>2, <4>1
    <3>. HIDE DEF g, w
    <3>. QED  BY <1>2, <1>3, <3>3
  <2>5. CASE ix = m
    <3>1. After(rope, m) = <<>>
      <4>. DEFINE E == Bytes
      <4>1. rope \in Seq(E)
        BY DEF Shaped
      <4>. HIDE DEF E
      <4>. QED  BY <4>1, AfterEnds
    <3>2. AfterChunk(b) = <<>>
      BY <2>5, <3>1, FlattenEmpty DEF AfterChunk, BytesOf
    <3>3. g = ch
      <4>1. ch \o <<>> = ch
        BY <1>5, AfterEnds
      <4>. HIDE DEF g, ch
      <4>. QED  BY <1>5, <3>2, <4>1
    <3>. HIDE DEF g, ch, w
    <3>. QED  BY <1>2, <1>3, <2>1, <3>3
  <2>. QED  BY <2>3, <2>4, <2>5
<1>9. GetU8(b) = [byte |-> Head(ch), buf |-> Advance(b, 1)]
  BY <1>8 DEF GetU8
<1>10. ~Advance(b, 1).panicked
  <2>1. b \in Bufs /\ ~b.panicked /\ b.rope = rope
    BY DEF Sound
  <2>2. \A c \in Nat : Advance(b, c).panicked = b.panicked
    BY <2>1, BufsAre
  <2>. QED  BY <2>1, <2>2
<1>11. Head(ch) = w[n + 1]
  <2>. HIDE DEF ch, g, w
  <2>1. Head(ch) = ch[1] /\ 1 \in 1..Len(ch)
    BY <1>5, <1>8, HeadTailProperties, EmptySeq
  <2>2. g[1] = ch[1]
    BY <1>5, <2>1
  <2>. QED  BY <1>2, <1>3, <2>1, <2>2
<1>. HIDE DEF ch, w
<1>. QED  BY <1>9, <1>10, <1>11 DEF w

\* Reading a rope.
LEMMA RopeReads ==
  ASSUME NEW rope, Shaped(rope), NEW n \in 0..Len(BytesOf(rope))
  PROVE  LET skipped == CopyToSlice(AsBuf(rope), n).buf
             rest == CopyToSlice(skipped, Len(BytesOf(rope)) - n)
         IN  /\ Remaining(skipped) = Len(BytesOf(rope)) - n
             /\ rest.bytes = After(BytesOf(rope), n)
             /\ Remaining(rest.buf) = 0 /\ ~rest.buf.panicked
             /\ n \in 1..(Len(BytesOf(rope)) - 1) =>
                  GetU8(skipped).byte = BytesOf(rope)[n + 1] /\ ~GetU8(skipped).buf.panicked
<1>. DEFINE w == BytesOf(rope)
            b == AsBuf(rope)
            s == CopyToSlice(b, n).buf
            k == Len(w) - n
            r == CopyToSlice(s, k)
            a == After(w, n)
<1>1. rope \in Parts
  BY DEF Shaped, Parts, Bytes
<1>2. w \in Seq(Nat)
  BY <1>1, PartsHead
<1>3. Sound(b) /\ b.rope = rope /\ ToGive(b) = w
  BY <1>1, AsBufIs
<1>. HIDE DEF b
<1>4. Sound(s) /\ s.rope = rope /\ ToGive(s) = a
  <2>. DEFINE res == CopyToSlice(b, n)
  <2>1. n \in 0..Len(ToGive(b))
    BY <1>3
  <2>2. CopyIs(res, b, n, <<>>)
    BY <1>3, <2>1, CopyToIs
  <2>. HIDE DEF res
  <2>3. Sound(res.buf) /\ res.buf.rope = b.rope /\ ToGive(res.buf) = After(ToGive(b), n)
    BY <2>2 DEF CopyIs
  <2>. QED  BY <1>3, <2>3 DEF res
<1>. HIDE DEF s, w
<1>5. Len(w) \in Nat /\ n \in Nat /\ n \in 0..Len(w) /\ k \in Nat
  BY <1>2 DEF w
<1>6. a \in Seq(Nat) /\ Len(a) = k
  BY <1>2, <1>5, AfterIs
<1>. HIDE DEF a
<1>7. Remaining(s) = k
  <2>1. Remaining(s) = Len(ToGive(s))
    BY <1>4, ToGiveIs
  <2>. HIDE DEF k
  <2>. QED  BY <1>4, <1>6, <2>1
<1>8. r.bytes = a /\ Sound(r.buf) /\ ToGive(r.buf) = <<>>
  <2>1. k \in 0..Len(ToGive(s))
    <3>. HIDE DEF k
    <3>1. Len(ToGive(s)) = k
      BY <1>4, <1>6
    <3>. QED  BY <1>5, <3>1
  <2>. HIDE DEF k
  <2>2. CopyIs(r, s, k, <<>>)
    BY <1>4, <2>1, CopyToIs
  <2>. HIDE DEF r
  <2>3. r.bytes = <<>> \o SubSeq(a, 1, k) /\ Sound(r.buf) /\ ToGive(r.buf) = After(a, k)
    BY <1>4, <2>2 DEF CopyIs
  <2>4. SubSeq(a, 1, Len(a)) = a /\ After(a, Len(a)) = <<>> /\ <<>> \o a = a
    BY <1>6, AfterEnds
  <2>5. SubSeq(a, 1, k) = a /\ After(a, k) = <<>>
    BY <1>6, <2>4
  <2>. QED  BY <2>3, <2>4, <2>5
<1>. HIDE DEF r
<1>9. Remaining(r.buf) = 0 /\ ~r.buf.panicked
  <2>1. Remaining(r.buf) = Len(ToGive(r.buf))
    BY <1>8, ToGiveIs
  <2>2. ~r.buf.panicked
    BY <1>8 DEF Sound
  <2>. QED  BY <1>8, <2>1, <2>2
<1>10. ASSUME n \in 1..(Len(w) - 1) PROVE GetU8(s).byte = w[n + 1] /\ ~GetU8(s).buf.panicked
  BY <1>4, <1>10, ReadOn DEF w, a
<1>. QED  BY <1>7, <1>8, <1>9, <1>10 DEF b, s, w, r, a, k

\* The first byte of a rope.
LEMMA FirstByte ==
  ASSUME NEW rope, Shaped(rope)
  PROVE  GetU8(AsBuf(rope)).buf.panicked = (Head(rope) = <<>>)
<1>. DEFINE b == AsBuf(rope)
<1>1. rope \in Parts
  BY DEF Shaped, Parts, Bytes
<1>2. Sound(b) /\ Chunk(b) = Head(rope)
  BY <1>1, AsBufIs
<1>. HIDE DEF b
<1>3. b \in Bufs /\ ~b.panicked
  BY <1>2 DEF Sound
<1>4. ~Advance(b, 1).panicked
  <2>1. \A c \in Nat : Advance(b, c).panicked = b.panicked
    BY <1>3, BufsAre
  <2>. QED  BY <1>3, <2>1
<1>. DEFINE e == GetU8(b).buf.panicked
<1>5. CASE Chunk(b) = <<>>
  <2>1. GetU8(b).buf = [b EXCEPT !.panicked = TRUE]
    BY <1>5 DEF GetU8
  <2>2. e = TRUE
    BY <1>3, <2>1 DEF Bufs
  <2>. QED  BY <1>2, <1>5, <2>2 DEF b
<1>6. CASE Chunk(b) # <<>>
  <2>1. GetU8(b).buf = Advance(b, 1)
    BY <1>6 DEF GetU8
  <2>2. Advance(b, 1).panicked \in BOOLEAN
    <3>1. \A c \in Nat : Advance(b, c).panicked = b.panicked
      BY <1>3, BufsAre
    <3>2. b.panicked \in BOOLEAN
      BY <1>3, BufsAre
    <3>. QED  BY <3>1, <3>2
  <2>3. e = FALSE
    BY <1>4, <2>1, <2>2
  <2>. QED  BY <1>2, <1>6, <2>3 DEF b
<1>. QED  BY <1>5, <1>6

\* What the iterators give are ropes.
LEMMA AllGiven ==
  ASSUME MergeInv, NEW x \in AllRopes
  PROVE  x \in GivenItems /\ Shaped(x.entry) /\ x.entry \in Parts
<1>. DEFINE G == GivenItems
<1>1. Queues(iters)
  BY DEF MergeInv, Conserved
<1>. HIDE DEF G
<1>2. PICK d \in DOMAIN iters : x \in ToSet(iters[d])
  BY DEF AllRopes
<1>3. d \in 1..Len(iters)
  BY <1>1, LiveIs
<1>4. iters[d] \in Seq(G)
  BY <1>1, <1>3 DEF Queues, Queue, G
<1>5. \E k \in 1..Len(iters[d]) : iters[d][k] = x
  BY <1>2, <1>4, SeqOfItsSet
<1>6. x \in GivenItems
  BY <1>4, <1>5 DEF G
<1>7. Shaped(x.entry)
  BY <1>6, GivenIs DEF Roped
<1>. QED  BY <1>6, <1>7 DEF Shaped, Parts, Bytes

\* The invariant makes buffers show the bytes of all ropes.
LEMMA MergeInvShows ==
  ASSUME MergeInv
  PROVE  BufShowsBytes
<1>. SUFFICES ASSUME NEW e \in AllRopes
     PROVE  LET rope == e.entry
                len == Len(BytesOf(rope))
                Skipped(n) == CopyToSlice(AsBuf(rope), n).buf
                RestOf(n) == CopyToSlice(Skipped(n), len - n)
            IN  /\ \A n \in 0..len :
                     /\ Remaining(Skipped(n)) = len - n
                     /\ RestOf(n).bytes = After(BytesOf(rope), n)
                     /\ Remaining(RestOf(n).buf) = 0 /\ ~RestOf(n).buf.panicked
                /\ \A n \in 1..(len - 1) :
                     /\ GetU8(Skipped(n)).byte = BytesOf(rope)[n + 1]
                     /\ ~GetU8(Skipped(n)).buf.panicked
                /\ BytesOf(rope) # <<>> =>
                     GetU8(AsBuf(rope)).buf.panicked = (Head(rope) = <<>>)
                /\ \A f \in AllRopes :
                     BufEq(rope, AsBuf(<<BytesOf(f.entry)>>)) =
                       IF BytesOf(f.entry) # BytesOf(rope) THEN "no"
                       ELSE IF EndsEmpty(rope) /\ BytesOf(rope) # <<>> THEN "panics"
                       ELSE "yes"
  BY DEF BufShowsBytes
<1>. DEFINE rope == e.entry
            len == Len(BytesOf(rope))
            Skipped(n) == CopyToSlice(AsBuf(rope), n).buf
            RestOf(n) == CopyToSlice(Skipped(n), len - n)
<1>1. Shaped(rope) /\ rope \in Parts
  BY AllGiven
<1>. HIDE DEF rope
<1>2. ASSUME NEW n \in 0..len
      PROVE  /\ Remaining(Skipped(n)) = len - n
             /\ RestOf(n).bytes = After(BytesOf(rope), n)
             /\ Remaining(RestOf(n).buf) = 0 /\ ~RestOf(n).buf.panicked
             /\ n \in 1..(len - 1) =>
                  GetU8(Skipped(n)).byte = BytesOf(rope)[n + 1] /\ ~GetU8(Skipped(n)).buf.panicked
  BY <1>1, RopeReads
<1>3. ASSUME NEW n \in 1..(len - 1)
      PROVE  /\ GetU8(Skipped(n)).byte = BytesOf(rope)[n + 1]
             /\ ~GetU8(Skipped(n)).buf.panicked
  <2>1. len \in Nat
    BY <1>1, PartsHead
  <2>. HIDE DEF len
  <2>2. n \in 0..len
    BY <2>1
  <2>. HIDE DEF Skipped
  <2>. QED  BY <1>2, <2>2 DEF len
<1>4. GetU8(AsBuf(rope)).buf.panicked = (Head(rope) = <<>>)
  BY <1>1, FirstByte
<1>5. ASSUME NEW f \in AllRopes
      PROVE  BufEq(rope, AsBuf(<<BytesOf(f.entry)>>)) =
               IF BytesOf(f.entry) # BytesOf(rope) THEN "no"
               ELSE IF EndsEmpty(rope) /\ BytesOf(rope) # <<>> THEN "panics"
               ELSE "yes"
  <2>1. BytesOf(f.entry) \in Seq(Nat)
    BY AllGiven, PartsHead
  <2>. QED  BY <1>1, <2>1, BufEqIs
<1>. QED  BY <1>2, <1>3, <1>4, <1>5 DEF rope

(* Reading a rope gives its bytes, though get_u8 panics on one whose first *)
(* slice is empty, and a buffer of the same bytes equals it, or buf_eq     *)
(* panics, for a rope that ends in an empty slice (SizedDictEntryBuf,      *)
(* SizedDictEntry::buf_eq).                                                *)
THEOREM BufAlwaysShows == FairSpec => []BufShowsBytes
BY MergeInvAlways, MergeInvShows, PTL
==============================================================================
