---------------------------- MODULE AdjacencyList ----------------------------
(***************************************************************************)
(* The adjacency list builders of adjacencylist.rs and the queries on what *)
(* they build.  UnindexedAdjacencyListBufBuilder and                       *)
(* UnindexedAdjacencyListBuilder are the same code, to a buffer and to a   *)
(* file; the two indexed builders add the bit index of the finished bits.  *)
(*                                                                         *)
(* The numbers on the left are meant to be the range from 1 to some        *)
(* maximum, so that 0 is the "no left side yet" of the builder and the     *)
(* right side of a hole; pairs are pushed in order.  A push that is out of *)
(* order panics and is no step here, and neither is one that an I/O error  *)
(* cuts short.                                                             *)
(***************************************************************************)
EXTENDS BitIndex

CONSTANTS MaxLeft,   \* bound: the largest left side
          MaxRight   \* bound: the largest right side

ASSUME MaxAssumption == {MaxLeft, MaxRight} \subseteq Nat \ {0}

VARIABLES
  phase,      \* pushing or built
  bits,       \* the bits pushed to the bit array, one entry behind nums
  nums,       \* the numbers pushed to the log array
  lastLeft,
  lastRight,
  index,      \* the bit index of the finished bits
  iter,       \* an AdjacencyListIterator: [pos, left]
  pairs,      \* history: the pairs pushed
  yielded     \* history: the pairs the iterator returned

vars == <<phase, bits, nums, lastLeft, lastRight, index, iter, pairs, yielded>>

Start == [pos |-> 0, left |-> 1]

Init == /\ phase = "pushing"
        /\ bits = <<>> /\ nums = <<>> /\ lastLeft = 0 /\ lastRight = 0
        /\ index = BuildIndex(<<>>)
        /\ iter = Start
        /\ pairs = <<>> /\ yielded = <<>>

-----------------------------------------------------------------------------
Ordered(left, right) == \/ left > lastLeft
                        \/ left = lastLeft /\ right > lastRight

Times(n, x) == [i \in 1..n |-> x]

\* The entry before this one was the last of its left side, and so is every
\* hole; before the very first entry there is none, so a bit less is pushed.
\* Mutant: as many bits for the first entry as for any other.
ClosingBits_Always(skip) == Times(skip, 1)
ClosingBits(skip) == Times(IF lastLeft = 0 THEN skip - 1 ELSE skip, 1)

\* Mutant: one hole too many, as if left itself were one.
Holes_Closed(skip) == Times(skip, 0)
Holes(skip) == Times(skip - 1, 0)

Push(left, right) ==
  LET skip == left - lastLeft
  IN  /\ phase = "pushing" /\ Ordered(left, right)
      /\ bits' = bits \o (IF skip = 0 THEN <<0>> ELSE ClosingBits(skip))
      /\ nums' = nums \o (IF skip = 0 THEN <<>> ELSE Holes(skip)) \o <<right>>
      /\ lastLeft' = left /\ lastRight' = right
      /\ pairs' = Append(pairs, <<left, right>>)
      /\ UNCHANGED <<phase, index, iter, yielded>>

\* The last entry's bit, which finalize adds unless the list is empty.
LastBit == IF nums # <<>> THEN <<1>> ELSE <<>>

Finalize ==
  /\ phase = "pushing"
  /\ bits' = bits \o LastBit
  /\ index' = BuildIndex(bits')
  /\ phase' = "built"
  /\ UNCHANGED <<nums, lastLeft, lastRight, iter, pairs, yielded>>

-----------------------------------------------------------------------------
(* The list that from_parts makes; positions and entries count from 0.     *)

RightCount == index.len
LeftCount  == IF index.len = 0 THEN 0 ELSE Rank1(index, index.len - 1)
NumAt(pos) == nums[pos + 1]

\* Mutant: the rank up to pos, which counts the entry's own bit.
LeftAtPos_Own(pos) == Rank1(index, pos) + 1
LeftAtPos(pos) == IF pos = 0 THEN 1 ELSE Rank1(index, pos - 1) + 1
PairAtPos(pos) == <<LeftAtPos(pos), NumAt(pos)>>

\* Mutant: where the previous left side ends.
OffsetFor_AtEnd(left) == IF left = 1 THEN 0 ELSE Select(index, 1, left - 1)
OffsetFor(left) == IF left = 1 THEN 0 ELSE Select(index, 1, left - 1) + 1

\* The slice get returns; it panics for a left side that is not there.
Rights(left) == SubSeq(nums, OffsetFor(left) + 1, Select(index, 1, left) + 1)

\* What the iterator has passed is counted into its left side.  Mutant: before
\* the pair it returns is made, so that a pair gets the left side of the next.
Passed_Before(pos) == pos
Passed(pos) == pos - 1

\* The entries the iterator has yet to come to that are no holes.
Ahead == {p \in iter.pos..(RightCount-1) : NumAt(p) # 0}

\* AdjacencyListIterator::next goes over the holes in one call.
IterNext ==
  LET pos == CHOOSE p \in Ahead : \A q \in Ahead : p <= q
      closed(to) == Cardinality({p \in iter.pos..to : Get(index, p) = 1})
  IN  /\ phase = "built" /\ Ahead # {}
      /\ yielded' = Append(yielded, <<iter.left + closed(Passed(pos)), NumAt(pos)>>)
      /\ iter' = [pos |-> pos + 1, left |-> iter.left + closed(pos)]
      /\ UNCHANGED <<phase, bits, nums, lastLeft, lastRight, index, pairs>>

Next == \/ \E left \in 1..MaxLeft, right \in 1..MaxRight : Push(left, right)
        \/ Finalize \/ IterNext

Spec == Init /\ [][Next]_vars

-----------------------------------------------------------------------------
\* The type invariant: among it, that numbers and holes are no more than left
\* sides times right sides, and that the iterator stays inside the list.
TypeOK ==
  /\ phase \in {"pushing", "built"}
  /\ bits \in Seq({0, 1}) /\ nums \in Seq(0..MaxRight)
  /\ Len(nums) <= MaxLeft * MaxRight
  /\ lastLeft \in 0..MaxLeft /\ lastRight \in 0..MaxRight
  /\ iter.pos \in 0..Len(nums) /\ iter.left \in 1..(lastLeft+1)
  /\ pairs \in Seq((1..MaxLeft) \X (1..MaxRight))

\* The bits lag one entry behind the numbers until finalize brings them level,
\* whatever holes there are: from_parts only asserts it, in a debug build.
BitsLag ==
  /\ phase = "pushing" /\ nums # <<>> => Len(bits) = Len(nums) - 1
  /\ phase = "built" => Len(bits) = Len(nums) /\ Consistent(index)

\* Position by position the list holds the pairs pushed, in order, and holes.
PositionsShowPairs ==
  phase = "built" =>
    LET shown == {p \in 0..(RightCount-1) : NumAt(p) # 0}
    IN  /\ Cardinality(shown) = Len(pairs)
        /\ \A p \in shown : PairAtPos(p) = pairs[Cardinality({q \in shown : q <= p})]

\* get of every left side up to the last one pushed gives its right sides in
\* order, and a 0 that is no right side where there are none.
GetShowsRights ==
  phase = "built" =>
    /\ LeftCount = lastLeft
    /\ \A left \in 1..LeftCount :
         LET own == {k \in 1..Len(pairs) : pairs[k][1] = left}
         IN  IF own = {} THEN Rights(left) = <<0>>
             ELSE /\ Len(Rights(left)) = Cardinality(own)
                  /\ \A k \in own :
                       Rights(left)[Cardinality({j \in own : j <= k})] = pairs[k][2]

\* The iterator returns the pairs pushed, in order, each with its own left side,
\* and ends after the last one.
IteratorYieldsPairs ==
  /\ \E n \in 0..Len(pairs) : yielded = SubSeq(pairs, 1, n)
  /\ phase = "built" /\ Ahead = {} => yielded = pairs
=============================================================================
