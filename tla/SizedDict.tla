----------------------------- MODULE SizedDict -----------------------------
(***************************************************************************)
(* A dictionary of one data type (tfc/dict.rs): blocks behind one another  *)
(* in a buffer, where each but the first starts, and the builder that      *)
(* writes them.  The buffer is a sequence of blocks, each with the offset  *)
(* of its first byte; a slice of it moves these offsets.                   *)
(***************************************************************************)
EXTENDS FrontCodedBlock

-----------------------------------------------------------------------------
(* SizedDictBufBuilder                                                     *)

NewBuilder(recordSize, blockOffset, idOffset, offsets, data) ==
  [recordSize |-> recordSize, blockOffset |-> blockOffset, idOffset |-> idOffset,
   offsets |-> offsets, data |-> data, current |-> <<>>]

WriteBlock(builder) ==
  LET block == BuildBlock(builder.recordSize, builder.current)
  IN  [builder EXCEPT
         !.data = Append(@, [at |-> builder.blockOffset, block |-> block]),
         !.blockOffset = @ + SizeOf(block),
         !.offsets = Append(@, builder.blockOffset + SizeOf(block)),
         !.current = <<>>]

\* Mutant: a block is written once it is more than full.
IsFull_OneMore(current) == Len(current) > BlockSize
IsFull(current) == Len(current) = BlockSize

AddTo(builder, value) ==
  LET added == [builder EXCEPT !.current = Append(@, value), !.idOffset = @ + 1]
  IN  IF IsFull(added.current) THEN WriteBlock(added) ELSE added

\* finalize writes what is left; the caller pops the offset of the end.
Finalized(builder) ==
  IF Len(builder.current) > 0 THEN WriteBlock(builder) ELSE builder

\* LateLogArrayBufBuilder::pop
Popped(offsets) == IF offsets = <<>> THEN <<>> ELSE Front(offsets)

-----------------------------------------------------------------------------
(* SizedDict: [offsets, data, dictOffset].  An Option is a sequence of at  *)
(* most one element.                                                       *)

None    == <<>>
Some(x) == <<x>>

BlockStartingAt(data, offset) ==
  (CHOOSE c \in ToSet(data) : c.at = offset).block

DataFrom(data, offset) ==
  LET tail == After(data, Cardinality({n \in DOMAIN data : data[n].at < offset}))
  IN  [n \in DOMAIN tail |-> [tail[n] EXCEPT !.at = @ - offset]]

BlockOffset(d, i) == IF i = 0 THEN 0 ELSE d.offsets[i] - d.dictOffset

Block(d, i) == BlockStartingAt(d.data, BlockOffset(d, i))

NumBlocks(d) == IF d.data = <<>> THEN 0 ELSE Len(d.offsets) + 1

NumEntries(d) ==
  IF NumBlocks(d) = 0 THEN 0
  ELSE (NumBlocks(d) - 1) * BlockSize + Block(d, NumBlocks(d) - 1).num

EntryAt(d, index) ==
  IF index > NumEntries(d) THEN None
  ELSE Some(Entry(Block(d, (index - 1) \div BlockSize), (index - 1) % BlockSize))

\* id: the binary search over the heads of the blocks, then in one block
IdIn(d, s) ==
  LET InBlock(i) ==
        DefaultTo(OffsetBy(IdInBlock(Block(d, i), s), i * BlockSize + 1), i * BlockSize)
      search[range \in (0..(Len(d.offsets)+1)) \X (0..Len(d.offsets))] ==
        LET min   == range[1]
            max   == range[2]
            mid   == (min + max) \div 2
            order == Ordering(s, Block(d, mid).head)
        IN  IF min > max THEN InBlock(max)
            ELSE IF order = "Equal" THEN Found(mid * BlockSize + 1)
            ELSE IF order = "Greater" THEN search[<<mid + 1, max>>]
            ELSE IF mid = 0 THEN NotFound
            ELSE search[<<min, mid - 1>>]
  IN  IF d.data = <<>> THEN NotFound ELSE search[<<0, Len(d.offsets)>>]

\* iter: the entries of every block, one block after the other
EntriesOf(d) ==
  FlattenSeq([n \in 1..NumBlocks(d) |->
    LET b == Block(d, n - 1)
    IN  [i \in 1..b.num |-> FlattenSeq(Ropes(b)[i - 1])]])
=============================================================================
