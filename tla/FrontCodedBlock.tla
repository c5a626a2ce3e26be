-------------------------- MODULE FrontCodedBlock --------------------------
(***************************************************************************)
(* A block of a dictionary (tfc/block.rs): a head in full and, for each    *)
(* entry after it, how many bytes it shares with the one before and the    *)
(* suffix that follows them.  Byte strings are sequences of numbers; the   *)
(* entries of a block are numbered from 0 as in the code, so that the      *)
(* sizes and shareds of entry i >= 1 are at position i of their sequence.  *)
(***************************************************************************)
EXTENDS Integers, SequencesExt

CONSTANT BlockSize    \* BLOCK_SIZE, 8 in the code

ASSUME BlockSizeAssumption == BlockSize \in Nat \ {0, 1}

-----------------------------------------------------------------------------
(* find_common_prefix and find_common_prefix_ord of util.rs                *)

CommonPrefix(a, b) ==
  Max({k \in 0..Min({Len(a), Len(b)}) : SubSeq(a, 1, k) = SubSeq(b, 1, k)})

Ordering(a, b) ==
  LET k == CommonPrefix(a, b)
  IN  IF a = b THEN "Equal"
      ELSE IF \/ Len(a) = k
              \/ Len(b) > k /\ a[k + 1] < b[k + 1] THEN "Less"
      ELSE "Greater"

SumOf(s) == LET sum[n \in 0..Len(s)] == IF n = 0 THEN 0 ELSE sum[n - 1] + s[n]
            IN  sum[Len(s)]
After(s, k) == SubSeq(s, k + 1, Len(s))

-----------------------------------------------------------------------------
(* Building and parsing.  A record size of 0 is None: the sizes of the     *)
(* suffixes are then stored, otherwise they follow from what is shared.    *)

Shared(entries, i) == CommonPrefix(entries[i], entries[i + 1])

BuildBlock(recordSize, entries) ==
  LET later == [i \in 1..(Len(entries)-1) |-> After(entries[i + 1], Shared(entries, i))]
  IN  [recordSize |-> recordSize,
       num        |-> Len(entries),
       head       |-> entries[1],
       shareds    |-> [i \in DOMAIN later |-> Shared(entries, i)],
       stored     |-> IF recordSize = 0 THEN [i \in DOMAIN later |-> Len(later[i])]
                                        ELSE <<>>,
       data       |-> FlattenSeq(later)]

\* The bytes of an encoded block: the control word, the head and its length,
\* a number for each shared prefix and each stored size (one byte each, the
\* lengths being small), the suffixes.
SizeOf(b) == 2 + Len(b.head) + Len(b.shareds) + Len(b.stored) + Len(b.data)

\* The header's arrays have a place for every entry a block may have; those
\* past num_entries stay 0.
Shareds(b) == [i \in 1..(BlockSize-1) |-> IF i < b.num THEN b.shareds[i] ELSE 0]

Sizes(b) ==
  [i \in 1..(BlockSize-1) |->
     IF i >= b.num THEN 0
     ELSE IF b.recordSize = 0 THEN b.stored[i]
     ELSE b.recordSize - b.shareds[i]]

SuffixOf(b, i) ==
  LET start == SumOf(SubSeq(Sizes(b), 1, i - 1))
  IN  SubSeq(b.data, start + 1, start + Sizes(b)[i])

-----------------------------------------------------------------------------
(* entry: the slices an entry is put together from, none of them empty but *)
(* perhaps the last                                                        *)

\* The entry whose suffix (or the head) the shared bytes of entry i start in:
\* the stack v of the code has one number for each entry after it up to i.
Start(b, i) == Max({0} \union {s \in 1..i : Shareds(b)[s] = 0})

\* How many bytes of entry i are in the slices of the entries up to j.
TakenUpTo(b, i, j) == Min({Shareds(b)[m] : m \in (j+1)..i})

EntrySlices(b, i) ==
  LET start == Start(b, i)
      Taken(j) == IF j < start THEN 0 ELSE TakenUpTo(b, i, j)
      Slice(j) == SubSeq(IF j = 0 THEN b.head ELSE SuffixOf(b, j),
                         1, Taken(j) - Taken(j - 1))
      slices[j \in (start-1)..(i-1)] ==
        IF j = start - 1 THEN <<>>
        ELSE IF Slice(j) = <<>> THEN slices[j - 1]
        ELSE Append(slices[j - 1], Slice(j))
  IN  IF i = 0 THEN <<b.head>> ELSE Append(slices[i - 1], SuffixOf(b, i))

Entry(b, i) == FlattenSeq(EntrySlices(b, i))

-----------------------------------------------------------------------------
(* SizedBlockIterator::next keeps the slices of the entry it last returned,*)
(* cuts them at the shared length and adds the next suffix.                *)

\* Mutant: a slice is not cut.
CutAt_Whole(slice, length) == slice
CutAt(slice, length) == SubSeq(slice, 1, length)

NextRope[next \in Seq(Seq(Nat)) \X Nat \X Seq(Nat)] ==
  LET rope == next[1]
      shared == next[2]
      suffix == next[3]
      Before(k) == SumOf([n \in 1..k |-> Len(rope[n])])
      cut == Min({k \in DOMAIN rope : Before(k) >= shared})
  IN  SubSeq(rope, 1, cut - 1)
        \o <<CutAt(rope[cut], shared - Before(cut - 1)), suffix>>

\* The slices of each entry of a block, in order.
Ropes(b) ==
  LET rope[i \in 0..(b.num-1)] ==
        IF i = 0 THEN <<b.head>>
        ELSE NextRope[<<rope[i - 1], Shareds(b)[i], SuffixOf(b, i)>>]
  IN  rope

-----------------------------------------------------------------------------
(* id: where a string is, or after which entry it would be                 *)

Found(i)   == [kind |-> "Found", id |-> i]
Closest(i) == [kind |-> "Closest", id |-> i]
NotFound   == [kind |-> "NotFound", id |-> 0]

OffsetBy(result, offset) ==
  IF result.kind = "NotFound" THEN result ELSE [result EXCEPT !.id = @ + offset]
DefaultTo(result, default) ==
  IF result.kind = "NotFound" THEN Closest(default) ELSE result

\* How much of the string is known to be shared with the entry it was found
\* to be greater than.  Mutant: with what that entry shares itself forgotten.
PrefixAfter_Forgotten(prefix, new) == new
PrefixAfter(prefix, new) == prefix + new

IdInBlock(b, s) ==
  LET traverse[at \in (1..BlockSize) \X (0..Len(s))] ==
        LET i      == at[1]
            prefix == at[2]
            rest   == After(s, prefix)
            suffix == SuffixOf(b, i)
        IN  IF i = BlockSize THEN Closest(b.num - 1)
            ELSE IF Shareds(b)[i] < prefix THEN Closest(i - 1)
            ELSE IF Shareds(b)[i] > prefix THEN traverse[<<i + 1, prefix>>]
            ELSE IF Ordering(rest, suffix) = "Equal" THEN Found(i)
            ELSE IF Ordering(rest, suffix) = "Less" THEN Closest(i - 1)
            ELSE traverse[<<i + 1, PrefixAfter(prefix, CommonPrefix(rest, suffix))>>]
  IN  IF Ordering(s, b.head) = "Equal" THEN Found(0)
      ELSE IF Ordering(s, b.head) = "Less" THEN NotFound
      ELSE traverse[<<1, CommonPrefix(s, b.head)>>]
=============================================================================
