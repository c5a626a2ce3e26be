-------------------------------- MODULE Rope --------------------------------
(***************************************************************************)
(* An entry of a block as a rope of slices (SizedDictEntry of              *)
(* tfc/block.rs): its order, its equality with a buffer, and the buffer    *)
(* that reads it (SizedDictEntryBuf).  A rope is a sequence of one or more *)
(* slices; Single(b) is the rope of b alone, which every method treats     *)
(* alike.  Some reads and comparisons panic, which is an outcome here.     *)
(***************************************************************************)
EXTENDS FrontCodedBlock

CONSTANT SliceSize    \* size_of::<Bytes>(), 32 in the code

ASSUME SliceSizeAssumption == SliceSize \in Nat \ {0}

BytesOf(rope) == FlattenSeq(rope)

\* optimize: a copy, where it takes less room than the slices.
Optimized(rope) ==
  IF SliceSize + Len(BytesOf(rope)) < SliceSize * Len(rope)
  THEN <<BytesOf(rope)>> ELSE rope

\* What SizedDictBlock::entry and SizedBlockIterator::next return.
EntryRope(b, i)    == Optimized(EntrySlices(b, i))
IteratedRope(b, i) == Optimized(Ropes(b)[i])

-----------------------------------------------------------------------------
(* Ord::cmp and PartialEq::eq.  Each side is what is left of the part at   *)
(* hand and the parts after it.                                            *)

Parts == Seq(Seq(Nat)) \ {<<>>}

LeftOf(parts, n) ==
  IF Len(Head(parts)) = n THEN Tail(parts)
  ELSE <<After(Head(parts), n)>> \o Tail(parts)

\* Which side has no part left.
\* Mutant: one that has ended comes after one that goes on.
EndOrder_Swapped(x, y) == IF x = <<>> THEN "Greater" ELSE "Less"
EndOrder(x, y) == IF x = <<>> /\ y = <<>> THEN "Equal"
                  ELSE IF x = <<>> THEN "Less" ELSE "Greater"

CompareParts[sides \in Parts \X Parts] ==
  LET x == sides[1]
      y == sides[2]
      n == Min({Len(Head(x)), Len(Head(y))})
      order == Ordering(SubSeq(Head(x), 1, n), SubSeq(Head(y), 1, n))
      restX == LeftOf(x, n)
      restY == LeftOf(y, n)
  IN  IF order # "Equal" THEN order
      ELSE IF restX = <<>> \/ restY = <<>> THEN EndOrder(restX, restY)
      ELSE CompareParts[<<restX, restY>>]

Compare(x, y) ==
  IF BytesOf(x) = <<>> /\ BytesOf(y) = <<>> THEN "Equal" ELSE CompareParts[<<x, y>>]

Equal(x, y) == Len(BytesOf(x)) = Len(BytesOf(y)) /\ Compare(x, y) = "Equal"

-----------------------------------------------------------------------------
(* SizedDictEntryBuf: slices are counted from 1 here.  panicked says that  *)
(* a read was asked for what it could not give.                            *)

AsBuf(rope) == [rope |-> rope, ix |-> 1, pos |-> 0, panicked |-> FALSE]

AtEnd(b) == b.ix > Len(b.rope)
Chunk(b) == IF AtEnd(b) THEN <<>> ELSE After(b.rope[b.ix], b.pos)
Remaining(b) == Len(BytesOf(After(b.rope, b.ix - 1))) - b.pos

\* Going over the end of a slice always leads to the start of the next, the
\* loop that looks for the right one ends at once: rope_len >= slice_ix holds.
\* Mutant: the position in the slice before is kept.
NextSlice_SamePos(b) == [b EXCEPT !.ix = @ + 1]
NextSlice(b) == [b EXCEPT !.ix = @ + 1, !.pos = 0]

Advance(b, cnt) ==
  IF AtEnd(b) THEN b
  ELSE IF Len(Chunk(b)) > cnt THEN [b EXCEPT !.pos = @ + cnt]
  ELSE NextSlice(b)

\* Buf::get_u8 takes the first byte of the chunk, and panics without one.
GetU8(b) ==
  IF Chunk(b) = <<>> THEN [byte |-> 0, buf |-> [b EXCEPT !.panicked = TRUE]]
  ELSE [byte |-> Head(Chunk(b)), buf |-> Advance(b, 1)]

Bufs == [rope : Seq(Seq(Nat)), ix : Nat \ {0}, pos : Nat, panicked : BOOLEAN]

\* Buf::copy_to_slice goes chunk by chunk.
CopyTo[at \in Bufs \X Nat \X Seq(Nat)] ==
  LET b   == at[1]
      n   == at[2]
      got == at[3]
      cnt == Min({n, Len(Chunk(b))})
  IN  IF n > Remaining(b) THEN [bytes |-> got, buf |-> [b EXCEPT !.panicked = TRUE]]
      ELSE IF n = 0 THEN [bytes |-> got, buf |-> b]
      ELSE CopyTo[<<Advance(b, cnt), n - cnt, got \o SubSeq(Chunk(b), 1, cnt)>>]

CopyToSlice(b, n) == CopyTo[<<b, n, <<>>>>]

-----------------------------------------------------------------------------
(* buf_eq goes over the slices of the entry and takes the buffer for one   *)
(* whose chunks are no shorter.                                            *)

PartsEqBuf[at \in Parts \X Bufs] ==
  LET parts == at[1]
      b     == at[2]
      n     == Len(Head(parts))
      isLast == Len(parts) = 1
  IN  IF n > Len(Chunk(b)) THEN "panics"
      ELSE IF SubSeq(Chunk(b), 1, n) # Head(parts) THEN "no"
      ELSE IF isLast # (n = Len(Chunk(b))) THEN "panics"
      ELSE IF isLast THEN "yes"
      ELSE PartsEqBuf[<<Tail(parts), Advance(b, n)>>]

BufEq(rope, b) ==
  IF Len(BytesOf(rope)) # Remaining(b) THEN "no"
  ELSE IF BytesOf(rope) = <<>> THEN "yes"
  ELSE PartsEqBuf[<<rope, b>>]
=============================================================================
