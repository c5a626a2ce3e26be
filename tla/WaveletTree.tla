----------------------------- MODULE WaveletTree -----------------------------
(***************************************************************************)
(* Building and querying a wavelet tree.  The builder keeps a fragment of  *)
(* bits for every range of values it halves: one for all values, then two  *)
(* for the halves, and so on for each layer; behind one another they are   *)
(* the layers, and together the bit array that is indexed.                 *)
(***************************************************************************)
EXTENDS BitIndex, SequencesExt

CONSTANTS Widths,   \* the widths of a source: the layers of its tree
          MaxLen    \* bound: numbers of a source

ASSUME WidthsAssumption == Widths \subseteq Nat \ {0} /\ MaxLen \in Nat

VARIABLES
  phase,      \* reading or built
  width,
  fragments,  \* the bits of each FragmentBuilder
  index,      \* the bit index of the tree
  source      \* history: the numbers of the source

vars == <<phase, width, fragments, index, source>>

-----------------------------------------------------------------------------
(* The fragments of create_fragments, in order; the code's vec counts them *)
(* from 0.                                                                 *)

LayerOf(f) == CHOOSE i \in 0..(width-1) : Pow2[i] <= f /\ f < Pow2[i + 1]
Increment(f)     == Pow2[width - LayerOf(f)]
FragmentStart(f) == (f - Pow2[LayerOf(f)]) * Increment(f)
FragmentEnd(f)   == FragmentStart(f) + Increment(f)
FragmentHalf(f)  == (FragmentStart(f) + FragmentEnd(f)) \div 2

\* push_to_fragments goes up from the last layer, shifting the number before it
\* is first used.  Mutant: it takes the layers from the first one down.
FragmentFor_Down(num, i) == num \div Pow2[i + 1] + Pow2[i]
FragmentFor(num, i) == num \div Pow2[i + 1] + Pow2[width - i - 1]

\* FragmentBuilder::push ignores a number outside its range.
Accepts(f, num) == FragmentStart(f) <= num /\ num < FragmentEnd(f)

\* Mutant: the bit is shifted out, and those above it are not masked.
BitFor_Unmasked(f, num) == num \div Pow2[width - LayerOf(f) - 1]
BitFor(f, num) == IF num >= FragmentHalf(f) THEN 1 ELSE 0

Init == /\ phase = "reading"
        /\ width \in Widths
        /\ fragments = [f \in 1..(Pow2[width] - 1) |-> <<>>]
        /\ index = BuildIndex(<<>>)
        /\ source = <<>>

PushToFragments(num) ==
  LET touched == {f \in {FragmentFor(num, i) : i \in 0..(width-1)} : Accepts(f, num)}
  IN  /\ phase = "reading" /\ Len(source) < MaxLen
      /\ fragments' = [f \in DOMAIN fragments |->
                         IF f \in touched THEN Append(fragments[f], BitFor(f, num))
                         ELSE fragments[f]]
      /\ source' = Append(source, num)
      /\ UNCHANGED <<phase, width, index>>

\* The fragments one after another are the bits; build_bitindex indexes them.
Finalize == /\ phase = "reading"
            /\ index' = BuildIndex(FlattenSeq(fragments))
            /\ phase' = "built"
            /\ UNCHANGED <<width, fragments, source>>

Next == (\E num \in 0..(Pow2[width] - 1) : PushToFragments(num)) \/ Finalize

Spec == Init /\ [][Next]_vars

-----------------------------------------------------------------------------
(* The tree; from_parts panics for bits that do not divide into layers.    *)

DividesIntoLayers == index.len % width = 0
TreeLen == index.len \div width

\* The values of a node are halved.  Mutant: half of the lower bound is lost.
Middle_Floor(start, end) == (end - start) \div 2
Middle(start, end) == (start + end) \div 2

\* The range of the node in the layer below: the zeros of a node come first, in
\* every layer, and the ones behind them.  Mutant: the range one layer up.
FullIndex_SameLayer(layer, i) == i
FullIndex(layer, i) == layer * TreeLen + i

\* decode_one goes down a layer at a time with the node's values [low, high),
\* its range [start, end) and the offset of the number in that range.
DecodeOne(position) ==
  LET Below(n, i) ==
        LET first  == FullIndex(i, n.start)
            last   == FullIndex(i, n.end)
            at     == FullIndex(i, n.start + n.offset)
            middle == Middle(n.low, n.high)
            zeros  == RankFromRange(index, 0, first, last)
            ones   == RankFromRange(index, 1, first, last)
        IN  IF Get(index, at) = 1
            THEN [n EXCEPT !.low = middle, !.start = n.start + zeros,
                           !.offset = RankFromRange(index, 1, first, at + 1) - 1]
            ELSE [n EXCEPT !.high = middle, !.end = n.end - ones,
                           !.offset = RankFromRange(index, 0, first, at + 1) - 1]
      node[i \in 0..width] ==
        IF i = 0 THEN [low |-> 0, high |-> Pow2[width], start |-> 0, end |-> TreeLen,
                       offset |-> position]
        ELSE Below(node[i - 1], i - 1)
  IN  node[width]

\* lookup goes down the same way by the value, and keeps, per layer, the bit
\* and the range of the node; none at all if a range is empty.
Slices(entry) ==
  LET Below(n, i) ==
        LET first == FullIndex(i, n.start)
            last  == FullIndex(i, n.end)
            b     == IF entry >= Middle(n.low, n.high) THEN 1 ELSE 0
            slice == [bit |-> b, start |-> first, end |-> last]
        IN  IF b = 1
            THEN [n EXCEPT !.low = @ + Pow2[width - i - 1], !.slices = Append(@, slice),
                           !.start = @ + RankFromRange(index, 0, first, last)]
            ELSE [n EXCEPT !.high = @ - Pow2[width - i - 1], !.slices = Append(@, slice),
                           !.end = @ - RankFromRange(index, 1, first, last)]
      node[i \in 0..width] ==
        IF i = 0 THEN [low |-> 0, high |-> Pow2[width], start |-> 0, end |-> TreeLen,
                       slices |-> <<>>]
        ELSE IF i > 1 /\ node[i - 1].start = node[i - 1].end THEN node[i - 1]
        ELSE Below(node[i - 1], i - 1)
  IN  IF entry >= Pow2[width] \/ node[width].start = node[width].end THEN <<>>
      ELSE node[width].slices

LookupLen(slices) == LET s == Last(slices) IN RankFromRange(index, s.bit, s.start, s.end)

\* WaveletLookup::entry goes up again: the n-th such bit of a node is the n-th
\* number the node above has passed to it.  Mutant: the position in the layer
\* is not made one in the node.
InNode_Absolute(result, start) == result + 1
InNode(result, start) == result - start + 1

LookupEntry(slices, i) ==
  LET up[k \in 0..width] ==
        IF k = 0 THEN i + 1
        ELSE LET s == slices[width - k + 1]
             IN  InNode(SelectFromRange(index, s.bit, up[k - 1], s.start, s.end), s.start)
  IN  up[width] - 1

-----------------------------------------------------------------------------
\* The type invariant.
TypeOK ==
  /\ phase \in {"reading", "built"}
  /\ width \in Widths
  /\ DOMAIN fragments = 1..(Pow2[width] - 1)
  /\ \A f \in DOMAIN fragments : fragments[f] \in Seq({0, 1})
  /\ source \in Seq(0..(Pow2[width] - 1)) /\ Len(source) <= MaxLen

\* No layer loses or doubles a number: every fragment holds the numbers of its
\* range, so that the check in push never drops one without an error; the bits
\* divide into layers of the source's length; and decode gives the source back,
\* ending at a node of a single value.
DecodesToSource ==
  /\ \A f \in DOMAIN fragments :
       Len(fragments[f]) = Cardinality({i \in 1..Len(source) : Accepts(f, source[i])})
  /\ phase = "built" =>
       /\ DividesIntoLayers /\ TreeLen = Len(source)
       /\ \A i \in 1..Len(source) :
            /\ DecodeOne(i - 1).low = source[i]
            /\ DecodeOne(i - 1).high = source[i] + 1

\* lookup finds a value exactly if it is there, and then the positions of all
\* its occurrences, in order: the selects through the layers meet no empty range
\* and no rank that is not there, which unwrap would turn into a panic.
LookupFindsPositions ==
  phase = "built" =>
    \A entry \in 0..Pow2[width] :
      LET slices == Slices(entry)
          found  == {i \in 0..(Len(source)-1) : source[i + 1] = entry}
      IN  IF found = {} THEN slices = <<>>
          ELSE /\ slices # <<>> /\ LookupLen(slices) = Cardinality(found)
               /\ \A n \in 0..(Cardinality(found)-1) :
                    /\ LookupEntry(slices, n) \in found
                    /\ Cardinality({i \in found : i < LookupEntry(slices, n)}) = n
=============================================================================
