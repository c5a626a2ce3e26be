--------------------------- MODULE BitIndexBuilder ---------------------------
(***************************************************************************)
(* BitArrayFileBuilder and BitArrayBufBuilder, which collect bits into     *)
(* words and put the number of bits in a control word behind them, and     *)
(* build_bitindex, which reads that file back and builds the index.        *)
(***************************************************************************)
EXTENDS BitIndex

CONSTANT MaxBits   \* bound: bits of the array
ASSUME MaxBitsAssumption == MaxBits \in Nat

VARIABLES
  phase,      \* pushing, indexing or done
  file,       \* the words written, the control word last
  current,    \* the word being filled
  count,
  next,       \* the first block of the next chunk
  blocks,     \* the entries of the two log arrays
  sblocks,
  sblockRank,
  pushed      \* history: the bits pushed

vars == <<phase, file, current, count, next, blocks, sblocks, sblockRank, pushed>>

Zero == [b \in 0..(B-1) |-> 0]

Init == /\ phase = "pushing"
        /\ file = <<>> /\ current = Zero /\ count = 0
        /\ next = 1 /\ blocks = <<>> /\ sblocks = <<>> /\ sblockRank = 0
        /\ pushed = <<>>

-----------------------------------------------------------------------------
\* The position of the next bit in its word.
Position == count % B

\* A true bit is set in current; a false one only counted.
Push(bit) ==
  LET filled == IF bit = 1 THEN [current EXCEPT ![Position] = 1] ELSE current
  IN  /\ phase = "pushing" /\ count < MaxBits
      /\ count' = count + 1
      /\ IF (count + 1) % B = 0
         THEN file' = Append(file, filled) /\ current' = Zero
         ELSE current' = filled /\ UNCHANGED file
      /\ pushed' = Append(pushed, bit)
      /\ UNCHANGED <<phase, next, blocks, sblocks, sblockRank>>

\* finalize: what is left of current, and the control word.
Finalize ==
  /\ phase = "pushing"
  /\ file' = (IF count % B # 0 THEN Append(file, current) ELSE file)
               \o <<[control |-> count]>>
  /\ phase' = "indexing"
  /\ UNCHANGED <<current, count, next, blocks, sblocks, sblockRank, pushed>>

-----------------------------------------------------------------------------
\* BitArrayBlockIterator reads one word ahead, so that the last word, which is
\* the control word, is never returned.
DataWords == SubSeq(file, 1, Len(file) - 1)

\* Mutant: a chunk of one block too many.
ChunkEnd_OneMore == next + S
ChunkEnd == next + S - 1
Chunk == SubSeq(DataWords, next, IF ChunkEnd > Len(DataWords)
                                 THEN Len(DataWords) ELSE ChunkEnd)

OnesOf(chunk, first) == OnesBetween(chunk, first, Len(chunk))

\* Mutant: a block's entry leaves the block itself out.
SubRank_After(chunk, k) == OnesOf(chunk, k + 1)
SubRank(chunk, k) == OnesOf(chunk, k)

\* The width of the blocks' log array: the bits of S * B, the largest entry.
\* Mutant: the bits of the largest index in a superblock.
BitsOf(max) ==
  CHOOSE w \in 0..max : Pow2[w] > max /\ \A v \in 0..(w-1) : Pow2[v] <= max
BlockWidth_OneLess == BitsOf(S * B - 1)
BlockWidth == BitsOf(S * B)

\* A chunk of S blocks, or the rest of them.
IndexChunk ==
  /\ phase = "indexing" /\ Chunk # <<>>
  /\ sblockRank' = sblockRank + OnesOf(Chunk, 1)
  /\ blocks' = blocks \o [k \in 1..Len(Chunk) |-> SubRank(Chunk, k)]
  /\ sblocks' = Append(sblocks, sblockRank')
  /\ next' = next + S
  /\ UNCHANGED <<phase, file, current, count, pushed>>

IndexDone ==
  /\ phase = "indexing" /\ Chunk = <<>>
  /\ phase' = "done"
  /\ UNCHANGED <<file, current, count, next, blocks, sblocks, sblockRank, pushed>>

Next == (\E bit \in {0, 1} : Push(bit)) \/ Finalize \/ IndexChunk \/ IndexDone

Spec == Init /\ [][Next]_vars

-----------------------------------------------------------------------------
\* BitArray::from_bits and BitIndex::from_maps of what was written.
ExpectedWords(len) == len \div B + (IF len % B = 0 THEN 1 ELSE 2)
Index == [len |-> file[Len(file)].control, words |-> DataWords,
          blocks |-> blocks, sblocks |-> sblocks]

-----------------------------------------------------------------------------
Words == [0..(B-1) -> {0, 1}]

\* The type invariant: only the last element of a file is a control word, and
\* no count is larger than what it counts.
TypeOK ==
  /\ phase \in {"pushing", "indexing", "done"}
  /\ \A k \in 1..Len(file) : \/ file[k] \in Words
                             \/ k = Len(file) /\ file[k] \in [control : 0..MaxBits]
  /\ current \in Words
  /\ count \in 0..MaxBits
  /\ next \in 1..(MaxBits + S)
  /\ blocks \in Seq(0..(B * S)) /\ sblocks \in Seq(0..MaxBits)
  /\ sblockRank \in 0..MaxBits
  /\ pushed \in Seq({0, 1})

\* The array and its index are what from_bits and from_parts accept, and the
\* sum the builder keeps running over chunks is the count from the beginning:
\* no chunk boundary, last short chunk or control word gets into the counts.
IndexMatches ==
  phase = "done" => /\ Len(file) = ExpectedWords(count)
                    /\ Consistent(Index)
                    /\ Index = BuildIndex(pushed)

\* On the way a block's entry fits the width its log array is given ahead,
\* whatever the bits: a superblock of ones is the case that needs all of it.
BlocksFit == \A k \in 1..Len(blocks) : blocks[k] < Pow2[BlockWidth]

\* build_bitindex leaves the index of the bits pushed, in arrays wide enough.
BuildsTheIndex == BlocksFit /\ IndexMatches

\* The reference: the bits as they were pushed.
Ones(bit, start, end) == Cardinality({i \in start..(end-1) : pushed[i + 1] = bit})

\* rank1 and rank0, and their ranges, count the bits.
RankCounts ==
  phase = "done" =>
    \A bit \in {0, 1}, end \in 0..count :
      /\ end < count => Rank(Index, bit, end) = Ones(bit, 0, end + 1)
      /\ \A start \in 0..end :
           RankFromRange(Index, bit, start, end) = Ones(bit, start, end)

\* The position of the n-th bit of that kind at or after start.
Nth(bit, n, start, end) ==
  LET hits == {i \in start..(end-1) : pushed[i + 1] = bit /\ Ones(bit, start, i + 1) = n}
  IN  IF hits = {} THEN NoIndex ELSE CHOOSE i \in hits : TRUE

\* select1 is the inverse of rank1 for every rank, None past the last one;
\* select0 of rank0 for the ranks there are.  The search in the index and the
\* linear scan agree.
SelectFinds ==
  phase = "done" =>
    \A rank \in 1..(count + S * B) :
      /\ Select(Index, 1, rank) = Nth(1, rank, 0, count)
      /\ rank <= Ones(0, 0, count) => Select(Index, 0, rank) = Nth(0, rank, 0, count)

\* In a range that holds the bit sought, select finds it counting from the
\* start of the range: what a wavelet tree relies on at every layer.
RangeSelectFinds ==
  phase = "done" =>
    \A bit \in {0, 1}, end \in 0..count : \A start \in 0..(end-1) :
      \A rank \in 1..Ones(bit, start, end) :
        SelectFromRange(Index, bit, rank, start, end) = Nth(bit, rank, start, end)
=============================================================================
