----------------------------- MODULE TypedDict -----------------------------
(***************************************************************************)
(* Building, reading and streaming a dictionary of several data types      *)
(* (tfc/typed.rs, tfc/stream.rs).  Blocks never mix types: a new type ends *)
(* the block, so ids, which count entries, and block positions drift apart *)
(* at each boundary and the reader has to account for the gaps.  A         *)
(* dictionary of strings is the case of one type without a record size.    *)
(***************************************************************************)
EXTENDS SizedDict

CONSTANTS RecordSize,   \* the data types, and the record size of each (0: None)
          ValuesOf(_),  \* the encoded values of a data type
          Queries(_),   \* what may be looked up in a data type
          MaxEntries    \* bound: entries added

Types == DOMAIN RecordSize

ASSUME TypesAssumption ==
  /\ Types \subseteq Nat \ {0}
  /\ \A t \in Types :
       /\ RecordSize[t] \in Nat /\ Queries(t) \subseteq Seq(Nat)
       /\ \A v \in ValuesOf(t) :
            v \in Seq(Nat) /\ (RecordSize[t] # 0 => Len(v) = RecordSize[t])

VARIABLES
  phase,         \* building, finished or streaming
  typesPresent,  \* the data types, in the order they were met
  typeOffsets,   \* for each type but the last, its last block
  builder,       \* the SizedDictBufBuilder at work
  currentType,   \* 0: None
  added,         \* history: the entries added
  stream,        \* the iterator over a reader of the blocks file
  streamed       \* history: what it returned

vars == <<phase, typesPresent, typeOffsets, builder, currentType, added, stream, streamed>>

Typed(t, v) == [datatype |-> t, entry |-> v]

\* Callers add entries in order; a merge adds equal ones more than once.
MayFollow(e) ==
  added # <<>> =>
    \/ Last(added).datatype < e.datatype
    \/ /\ Last(added).datatype = e.datatype
       /\ Ordering(Last(added).entry, e.entry) # "Greater"

NoStream == [bytes |-> 0, blocks |-> <<>>, entries |-> <<>>, start |-> FALSE,
             blockIndex |-> 0, offset |-> 0, done |-> FALSE]

Init == /\ phase = "building"
        /\ typesPresent = <<>> /\ typeOffsets = <<>>
        /\ builder = NewBuilder(0, 0, 0, <<>>, <<>>)
        /\ currentType = 0
        /\ added = <<>>
        /\ stream = NoStream /\ streamed = <<>>

-----------------------------------------------------------------------------
(* TypedDictBufBuilder                                                     *)

\* add on a change of type: the position of the last block written.
\* Mutant: the number of blocks written.
LastBlock_Count(offsets) == Len(offsets)
LastBlock(offsets) == Len(offsets) - 1

Switched(b, current, t) ==
  LET old == Finalized(b)
  IN  IF current = 0 THEN [b EXCEPT !.recordSize = RecordSize[t]]
      ELSE IF current = t THEN b
      ELSE NewBuilder(RecordSize[t], old.blockOffset, old.idOffset, old.offsets, old.data)

AddEntry(e) ==
  /\ \E b \in {Switched(builder, currentType, e.datatype)} :
       builder' = AddTo(b, e.entry)
  /\ currentType' = e.datatype
  /\ typesPresent' = IF currentType = e.datatype THEN typesPresent
                     ELSE Append(typesPresent, e.datatype)
  /\ typeOffsets' = IF currentType \in {0, e.datatype} THEN typeOffsets
                    ELSE Append(typeOffsets, LastBlock(Finalized(builder).offsets))
  /\ added' = Append(added, e)
  /\ UNCHANGED <<phase, stream, streamed>>

Add(e) ==
  /\ phase = "building" /\ Len(added) < MaxEntries /\ MayFollow(e)
  /\ AddEntry(e)

\* The id_offset is written behind the blocks and the offset of the end popped.
Finalize ==
  /\ phase = "building"
  /\ phase' = "finished"
  /\ builder' = [Finalized(builder) EXCEPT !.offsets = Popped(@)]
  /\ UNCHANGED <<typesPresent, typeOffsets, currentType, added, stream, streamed>>

-----------------------------------------------------------------------------
(* TypedDict over the finished buffers; types are counted from 0           *)

blockOffsets == builder.offsets
data         == builder.data
TypeCount    == Len(typesPresent)

\* from_parts: the places left free in the last block of the first types.
ControlRecords(t) ==
  BlockStartingAt(data, IF t = 0 THEN 0 ELSE blockOffsets[t]).num

Gaps(n) == SumOf([i \in 1..n |-> BlockSize - ControlRecords(typeOffsets[i])])

TypeIdOffsets ==
  [i \in DOMAIN typeOffsets |-> (typeOffsets[i] + 1) * BlockSize - Gaps(i)]

NumTypedEntries ==
  CASE typesPresent = <<>> -> 0
    [] typesPresent # <<>> /\ blockOffsets = <<>> -> BlockStartingAt(data, 0).num
    [] OTHER -> (Len(blockOffsets) + 1) * BlockSize - Gaps(Len(typeOffsets))
                  - (BlockSize - BlockStartingAt(data, Last(blockOffsets)).num)

\* inner_type_segment
SegmentStart(i) == IF i = 0 THEN 0 ELSE blockOffsets[typeOffsets[i] + 1]
SegmentIdOffset(i) == IF i = 0 THEN 0 ELSE TypeIdOffsets[i]
Segment(i) ==
  LET first == IF i = 0 THEN 0 ELSE typeOffsets[i] + 1
      end == IF i = TypeCount - 1 THEN Len(blockOffsets) ELSE typeOffsets[i + 1]
  IN  [offsets    |-> SubSeq(blockOffsets, first + 1, end),
       data       |-> DataFrom(data, SegmentStart(i)),
       dictOffset |-> SegmentStart(i)]

\* id_slice: index_of on the types present, then the segment.
IdSlice(t, s) ==
  IF t \notin ToSet(typesPresent) THEN NotFound
  ELSE LET i == (CHOOSE n \in DOMAIN typesPresent : typesPresent[n] = t) - 1
           offset == SegmentIdOffset(i)
           result == OffsetBy(IdIn(Segment(i), s), offset)
       IN  IF offset # 0 THEN DefaultTo(result, offset) ELSE result

TypeIndexForId(id) ==
  Min({i \in 0..(Len(typeOffsets)-1) : TypeIdOffsets[i + 1] > id - 1} \union {Len(typeOffsets)})

TypedEntry(id) ==
  LET i == TypeIndexForId(id)
      e == EntryAt(Segment(i), id - SegmentIdOffset(i))
  IN  IF id > NumTypedEntries \/ e = None THEN None
      ELSE Some(Typed(typesPresent[i + 1], Head(e)))

\* iter goes over the segments, and over the blocks a segment has.
TypedEntries ==
  FlattenSeq([n \in 1..TypeCount |->
    LET entries == EntriesOf(Segment(n - 1))
    IN  [k \in DOMAIN entries |-> Typed(typesPresent[n], entries[k])]])

-----------------------------------------------------------------------------
(* TfcTypedDictIterator over a reader that withholds the last eight bytes  *)
(* of what there is.  The file may have been cut: `bytes` are left of its  *)
(* blocks.  A block cut short reads as the end.                            *)

WholeBlocks(bytes) == {n \in DOMAIN data : data[n].at + SizeOf(data[n].block) <= bytes}
Cuts == {0, builder.blockOffset} \union {c.at + 1 : c \in ToSet(data)}

OpenStream(bytes) ==
  /\ phase = "finished"
  /\ phase' = "streaming"
  /\ stream' = [NoStream EXCEPT !.bytes = bytes,
                                !.blocks = [n \in WholeBlocks(bytes) |-> data[n]]]
  /\ UNCHANGED <<typesPresent, typeOffsets, builder, currentType, added, streamed>>

\* The next type begins with a block's first entry.
\* Mutant: compared with the last block of the type itself.
BeginsType_Early(blockIndex, offset) == blockIndex = typeOffsets[offset + 1]
BeginsType(blockIndex, offset) == blockIndex = typeOffsets[offset + 1] + 1

\* TfcDictIterator::next, when the block at hand has nothing left
ReadBlock ==
  LET b == Head(stream.blocks).block
  IN  IF stream.entries # <<>> \/ stream.blocks = <<>> THEN stream
      ELSE [stream EXCEPT !.blocks = Tail(@), !.start = TRUE,
                          !.entries = [i \in 1..b.num |-> FlattenSeq(Ropes(b)[i - 1])]]

StreamNext ==
  LET s == ReadBlock
      offset == IF /\ s.start /\ s.blockIndex # 0
                   /\ s.offset < Len(typeOffsets)
                   /\ BeginsType(s.blockIndex, s.offset)
                THEN s.offset + 1 ELSE s.offset
  IN  /\ phase = "streaming" /\ ~stream.done
      /\ s.entries # <<>>
      /\ streamed' = Append(streamed, Typed(typesPresent[offset + 1], Head(s.entries)))
      /\ stream' = [s EXCEPT !.entries = Tail(@), !.start = FALSE, !.offset = offset,
                             !.blockIndex = IF s.start THEN @ + 1 ELSE @]
      /\ UNCHANGED <<phase, typesPresent, typeOffsets, builder, currentType, added>>

StreamEnd ==
  /\ phase = "streaming" /\ ~stream.done
  /\ ReadBlock.entries = <<>>
  /\ stream' = [stream EXCEPT !.done = TRUE]
  /\ UNCHANGED <<phase, typesPresent, typeOffsets, builder, currentType, added, streamed>>

Next == \/ \E t \in Types : \E v \in ValuesOf(t) : Add(Typed(t, v))
        \/ Finalize
        \/ \E bytes \in Cuts : OpenStream(bytes)
        \/ StreamNext
        \/ StreamEnd

Spec == Init /\ [][Next]_vars

-----------------------------------------------------------------------------
(* Every type is met once, in ascending order, and ends with a block; the   *)
(* entries counted are those added (TypedDictBufBuilder::add).              *)
TypeOK ==
  /\ phase \in {"building", "finished", "streaming"}
  /\ typesPresent \in Seq(Types)
  /\ \A i, j \in DOMAIN typesPresent : i < j => typesPresent[i] < typesPresent[j]
  /\ Len(typeOffsets) = (IF typesPresent = <<>> THEN 0 ELSE Len(typesPresent) - 1)
  /\ currentType = IF typesPresent = <<>> THEN 0 ELSE Last(typesPresent)
  /\ builder.idOffset = Len(added)
  /\ Len(builder.current) < BlockSize
  /\ \A c \in ToSet(builder.data) : c.block.num \in 1..BlockSize
  /\ Len(streamed) <= Len(added)

(* Ids are consecutive over blocks that a change of type left short: entry *)
(* id of a finished dictionary is the id-th entry added, with its type, and *)
(* there are as many as were added (TypedDict::entry, num_entries, the     *)
(* tally of from_parts, SizedDictBlock::entry).                            *)
EntriesKeepTheirIds ==
  phase = "finished" =>
    /\ NumTypedEntries = Len(added)
    /\ \A id \in 1..(Len(added) + 1) :
         TypedEntry(id) = IF id <= Len(added) THEN Some(added[id]) ELSE None

\* The id of an equal entry, else of the greatest smaller one, that of a type
\* before included; NotFound without one, and for a type nothing was added of.
IsLookup(t, s, result) ==
  LET equal == {i \in DOMAIN added : added[i] = Typed(t, s)}
      below == {i \in DOMAIN added :
                  \/ added[i].datatype < t
                  \/ added[i].datatype = t /\ Ordering(added[i].entry, s) = "Less"}
  IN  CASE ~\E i \in DOMAIN added : added[i].datatype = t -> result = NotFound
        [] equal # {} -> result.kind = "Found" /\ result.id \in equal
        [] OTHER -> result = IF below = {} THEN NotFound ELSE Closest(Max(below))

(* Looking a value up agrees with the order of the entries: the binary     *)
(* search over block heads, the walk through one block by shared prefixes, *)
(* and the ids' offsets find the entry or the greatest one below it, the   *)
(* last of the type before included (TypedDict::id_slice, SizedDict::id,   *)
(* SizedDictBlock::id).                                                    *)
LookupsFollowTheOrder ==
  phase = "finished" =>
    \A t \in Types : \A s \in Queries(t) : IsLookup(t, s, IdSlice(t, s))

(* Iterating over segments, blocks and ropes gives the entries in order,   *)
(* each once and with its type, though a segment's data goes on to the end *)
(* of the buffer (DictSegmentIterator, SizedBlockIterator::next).          *)
IterationGivesEntries == phase = "finished" => TypedEntries = added

(* A stream of the blocks file gives entries with the types they have, in  *)
(* order, in whole blocks, and all of them when the file is not cut; a cut *)
(* file ends the stream early and says nothing (TfcTypedDictIterator).     *)
StreamGivesWholeBlocks ==
  phase = "streaming" =>
    /\ IsPrefix(streamed, added)
    /\ stream.done =>
         Len(streamed) = SumOf([n \in WholeBlocks(stream.bytes) |-> data[n].block.num])
    /\ stream.done /\ stream.bytes = builder.blockOffset => streamed = added
=============================================================================
