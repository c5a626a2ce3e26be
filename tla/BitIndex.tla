------------------------------ MODULE BitIndex ------------------------------
(***************************************************************************)
(* Rank and select over a bit array with an index.  A word is B bits, as   *)
(* it is read (bit 0 the most significant); S of them are a superblock.    *)
(* The index stores, for every superblock, the ones from the beginning of  *)
(* the array to its end, and, for every block (a word), the ones from that *)
(* block to the end of its superblock.                                     *)
(*                                                                         *)
(* select1 and select0 are the same code but for the counts they look at;  *)
(* both are Select here, with the bit that is sought.                      *)
(***************************************************************************)
EXTENDS Powers, Sequences, FiniteSets

CONSTANTS B,     \* 64: bits of a block
          S,     \* SBLOCK_SIZE, 52: blocks of a superblock
          Line   \* 8 * 64: bits of the cache line of use_linear_bitscan

ASSUME SizeAssumption == {B, S, Line} \subseteq Nat \ {0}

NoIndex == -1   \* the None of select
NoEnd   == -1   \* the None of the end of a range
Panic   == -2   \* an assertion fails, or a debug build's overflow check does

CeilDiv(x, y) == (x + y - 1) \div y

\* The number of bits among the first n of a word that are equal to bit.
CountIn(word, bit, n) == Cardinality({b \in 0..(n-1) : word[b] = bit})

-----------------------------------------------------------------------------
(* The index of an array of words, as build_bitindex leaves it.            *)

\* Behind the last bit a word is zero.
Padded(bits, i) == IF i < Len(bits) THEN bits[i + 1] ELSE 0
WordOf(bits, k) == [b \in 0..(B-1) |-> Padded(bits, (k - 1) * B + b)]
WordsOf(bits) == [k \in 1..CeilDiv(Len(bits), B) |-> WordOf(bits, k)]

OnesBetween(words, first, last) ==
  Cardinality({place \in (first..last) \X (0..(B-1)) :
                 place[1] \in DOMAIN words /\ words[place[1]][place[2]] = 1})

BuildIndex(bits) ==
  LET words == WordsOf(bits)
  IN  [len |-> Len(bits), words |-> words,
       blocks |-> [k \in 1..Len(words) |->
                     OnesBetween(words, k, CeilDiv(k, S) * S)],
       sblocks |-> [k \in 1..CeilDiv(Len(words), S) |->
                      OnesBetween(words, 1, k * S)]]

\* from_parts asserts this.
Consistent(ix) == /\ Len(ix.sblocks) = CeilDiv(Len(ix.blocks), S)
                  /\ Len(ix.blocks) = CeilDiv(ix.len, B)

-----------------------------------------------------------------------------
(* Rank.                                                                   *)

Get(ix, index) == ix.words[index \div B + 1][index % B]

\* Mutant: the bits before index, not up to it.
RankInBlock_Before(word, index) == CountIn(word, 1, index % B)
RankInBlock(word, index) == CountIn(word, 1, (index % B) + 1)

Rank1(ix, index) ==
  LET block == index \div B
  IN  ix.sblocks[block \div S + 1] - ix.blocks[block + 1]
        + RankInBlock(ix.words[block + 1], index)

Rank(ix, bit, index) == IF bit = 1 THEN Rank1(ix, index)
                        ELSE 1 + index - Rank1(ix, index)

\* rank1_from_range and rank0_from_range: start included, end not.
RankFromRange(ix, bit, start, end) ==
  IF start = end THEN 0
  ELSE Rank(ix, bit, end - 1) - (IF start = 0 THEN 0 ELSE Rank(ix, bit, start - 1))

-----------------------------------------------------------------------------
(* Select.                                                                 *)

\* The bits up to the end of a superblock; past the end of the array there are
\* only zeros.
SBlockRank(ix, bit, sblock) ==
  IF bit = 1 THEN ix.sblocks[sblock + 1]
  ELSE (1 + sblock) * S * B - ix.sblocks[sblock + 1]

\* The bits from a block to the end of its superblock.
BlockRank(ix, bit, block) ==
  IF bit = 1 THEN ix.blocks[block + 1]
  ELSE (S - (block % S)) * B - ix.blocks[block + 1]

\* The binary searches end where the two bounds meet.
SelectSBlock(ix, bit, rank, start, end) ==
  LET last == IF end = NoEnd THEN Len(ix.sblocks) - 1 ELSE end \div (B * S)
      search[range \in (0..last) \X (0..last)] ==
        LET lo  == range[1]
            hi  == range[2]
            mid == (lo + hi) \div 2
        IN  IF lo = hi THEN mid
            ELSE IF SBlockRank(ix, bit, mid) < rank THEN search[<<mid + 1, hi>>]
            ELSE search[<<lo, mid>>]
  IN  search[<<start \div (B * S), last>>]

\* Mutant: a block that ends with the bit sought is passed over.
StartsBefore_OrAt(rank, subrank) == rank >= subrank
StartsBefore(rank, subrank) == rank > subrank

SelectBlock(ix, bit, sblock, subrank) ==
  LET first == sblock * S
      last  == IF first + S - 1 > Len(ix.blocks) - 1
               THEN Len(ix.blocks) - 1 ELSE first + S - 1
      search[range \in (first..last) \X (first..last)] ==
        LET lo  == range[1]
            hi  == range[2]
            mid == (lo + hi + 1) \div 2
        IN  IF lo = hi THEN mid
            ELSE IF StartsBefore(BlockRank(ix, bit, mid), subrank)
                 THEN search[<<mid, hi>>] ELSE search[<<lo, mid - 1>>]
  IN  search[<<first, last>>]

\* select_from_range_opt_linear.  get past the end is an assertion.
SelectLinear(ix, bit, subrank, start, end) ==
  LET stop == IF end = NoEnd THEN ix.len ELSE end
      hits == {i \in start..(stop-1) :
                 /\ Get(ix, i) = bit
                 /\ Cardinality({j \in start..i : Get(ix, j) = bit}) = subrank}
  IN  IF end # NoEnd /\ start >= end THEN NoIndex
      ELSE IF subrank = 0
           THEN IF start >= ix.len THEN Panic
                ELSE IF Get(ix, start) = bit THEN NoIndex ELSE start
      ELSE IF hits = {} THEN NoIndex ELSE CHOOSE i \in hits : TRUE

\* The scan of the block, and the checks on where it ends up.
SelectInBlock(ix, bit, subrank, start, end, block, rankInBlock) ==
  LET word == ix.words[block + 1]
      hits == {b \in 0..(B-1) :
                 word[b] = bit /\ CountIn(word, bit, b + 1) = rankInBlock}
      result == block * B + (CHOOSE b \in hits : TRUE)
  IN  IF rankInBlock > B THEN Panic
      ELSE IF rankInBlock = 0 /\ CountIn(word, bit, B) > 0 THEN Panic
      ELSE IF hits = {} THEN NoIndex
      ELSE IF /\ result < start
              /\ end = NoEnd \/ start < end
              /\ subrank = 0 /\ Get(ix, start) # bit THEN start
      ELSE IF result < start \/ (end # NoEnd /\ result >= end) THEN NoIndex
      ELSE result

UseLinearBitscan(start, end) == start \div Line = end \div Line

\* The bits of the array that come before the range.  Mutant: none.
RankBefore_None(ix, bit, start) == 0
RankBefore(ix, bit, start) == IF start = 0 THEN 0 ELSE Rank(ix, bit, start - 1)

\* select1_from_range_opt and select0_from_range_opt.
SelectFromRange(ix, bit, subrank, start, end) ==
  LET rank   == RankBefore(ix, bit, start) + subrank
      sblock == SelectSBlock(ix, bit, rank, start, end)
      upTo   == SBlockRank(ix, bit, sblock)
      block  == SelectBlock(ix, bit, sblock, upTo - rank)
  IN  IF UseLinearBitscan(start, IF end = NoEnd THEN ix.len ELSE end)
      THEN SelectLinear(ix, bit, subrank, start, end)
      ELSE IF sblock >= Len(ix.sblocks) THEN Panic
      ELSE IF upTo < rank THEN NoIndex
      ELSE SelectInBlock(ix, bit, subrank, start, end, block,
                         rank - (upTo - BlockRank(ix, bit, block)))

Select(ix, bit, rank) == SelectFromRange(ix, bit, rank, 0, NoEnd)
=============================================================================
