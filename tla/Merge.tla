------------------------------- MODULE Merge -------------------------------
(***************************************************************************)
(* Merging dictionaries into the files of a new one (tfc/file.rs) with the *)
(* sorted iterator of util.rs.  The builder of TypedDict is fed with what  *)
(* the iterators of the source dictionaries give, ropes, and compares them *)
(* as ropes.  All files are opened first; each is written only when the    *)
(* whole dictionary has been built, and any of these calls may fail.       *)
(* The files are those of a MemoryBackedStore, which readers see from      *)
(* sync_all on.                                                            *)
(***************************************************************************)
EXTENDS TypedDict, Rope

CONSTANTS Sources,       \* what may be merged: sequences of sorted dictionaries
          StringType     \* the data type of dictionaries of strings

Items == UNION {{Typed(t, v) : v \in ValuesOf(t)} : t \in Types}

AtMostTyped(x, y) ==
  \/ x.datatype < y.datatype
  \/ x.datatype = y.datatype /\ Ordering(x.entry, y.entry) # "Greater"

ASSUME SourcesAssumption ==
  \A dictionaries \in Sources :
    /\ dictionaries \in Seq(Seq(Items))
    /\ \A d \in DOMAIN dictionaries : \A i, j \in DOMAIN dictionaries[d] :
         i < j => AtMostTyped(dictionaries[d][i], dictionaries[d][j])

VARIABLES
  sources,    \* the entries of the dictionaries to merge
  merging,    \* "typed" or "string": which of the two functions runs
  iters,      \* what the iterator of each dictionary has yet to give
  opened,     \* how many files are open for writing
  synced,     \* how many files are written, flushed and synced
  seen,       \* what a reader of the files has found: nothing, or the entries
  outcome     \* running, done or failed

mergeVars == <<sources, merging, iters, opened, synced, seen, outcome>>
allVars   == <<vars, mergeVars>>

\* The order of the calls on the files.
OpenOrder ==
  IF merging = "typed" THEN <<"types_present", "type_offsets", "blocks", "offsets">>
  ELSE <<"blocks", "offsets">>
SyncOrder ==
  IF merging = "typed" THEN <<"types_present", "type_offsets", "offsets", "blocks">>
  ELSE <<"offsets", "blocks">>

\* What the iterator over the dictionary of these entries gives: the blocks
\* its builder has made, entry for entry.
Iterator(entries) ==
  LET built[n \in 0..Len(entries)] ==
        IF n = 0 THEN NewBuilder(0, 0, 0, <<>>, <<>>)
        ELSE AddTo(Switched(built[n - 1], IF n = 1 THEN 0 ELSE entries[n - 1].datatype,
                            entries[n].datatype), entries[n].entry)
      blocks == Finalized(built[Len(entries)]).data
      ropes == FlattenSeq([n \in DOMAIN blocks |->
                 LET b == blocks[n].block
                 IN  [i \in 1..b.num |-> IteratedRope(b, i - 1)]])
  IN  [k \in DOMAIN entries |-> Typed(entries[k].datatype, ropes[k])]

IsOfStrings(dictionaries) ==
  \A d \in DOMAIN dictionaries : \A e \in ToSet(dictionaries[d]) : e.datatype = StringType

MergeInit ==
  /\ Init
  /\ sources \in Sources
  /\ merging \in (IF IsOfStrings(sources) THEN {"typed", "string"} ELSE {"typed"})
  /\ iters = [d \in DOMAIN sources |-> Iterator(sources[d])]
  /\ opened = 0 /\ synced = 0 /\ seen = <<>>
  /\ outcome = "running"

-----------------------------------------------------------------------------
(* sorted_iterator over the peeked heads, and heap_sorted_iter             *)

\* Data types first, then the entries.  Mutant: the entries alone.
CompareTyped_EntryFirst(x, y) == Compare(x.entry, y.entry)
CompareTyped(x, y) ==
  IF x.datatype # y.datatype
  THEN IF x.datatype < y.datatype THEN "Less" ELSE "Greater"
  ELSE Compare(x.entry, y.entry)

Live(its) == {d \in DOMAIN its : its[d] # <<>>}
Smallest(its) ==
  {d \in Live(its) : \A c \in Live(its) :
     CompareTyped(Head(its[d]), Head(its[c])) # "Greater"}

\* pick_fn: min_by returns the first of the smallest.
\* Mutant: the first iterator that has anything left.
Picked_FirstLive(its) == Min(Live(its))
Picked(its) == Min(Smallest(its))

\* The heap holds one entry of each iterator and gives the greatest pair of a
\* reversed entry and an index.
HeapTop(its) == Max(Smallest(its))

\* What its next gives, call by call, until it has given all entries.
HeapSorted(heads) ==
  LET total == Len(FlattenSeq(heads))
      left[n \in 0..total] ==
        IF n = 0 THEN heads
        ELSE LET its == left[n - 1] IN [its EXCEPT ![HeapTop(its)] = Tail(@)]
  IN  [n \in 1..total |-> LET its == left[n - 1] IN Head(its[HeapTop(its)])]

-----------------------------------------------------------------------------
(* merge_typed_dictionaries and merge_string_dictionaries                  *)

OpenFile ==
  /\ outcome = "running" /\ opened < Len(OpenOrder)
  /\ opened' = opened + 1
  /\ UNCHANGED <<vars, sources, merging, iters, synced, seen, outcome>>

\* add_all; an entry is added as its bytes.
AddNext ==
  /\ outcome = "running" /\ opened = Len(OpenOrder)
  /\ \E d \in Live(iters) :
       /\ d = Picked(iters)
       /\ LET next == Head(iters[d])
          IN  AddEntry(Typed(next.datatype, BytesOf(next.entry)))
       /\ iters' = [iters EXCEPT ![d] = Tail(@)]
  /\ UNCHANGED <<sources, merging, opened, synced, seen, outcome>>

\* Mutant: nothing to build, nothing is finalized.
FinishBuilding_NotEmpty ==
  /\ outcome = "running" /\ opened = Len(OpenOrder)
  /\ Live(iters) = {} /\ added # <<>>
  /\ Finalize
  /\ UNCHANGED mergeVars
FinishBuilding ==
  /\ outcome = "running" /\ opened = Len(OpenOrder)
  /\ Live(iters) = {}
  /\ Finalize
  /\ UNCHANGED mergeVars

\* write_all, flush and sync_all of the next file.  In memory only sync_all
\* shows the file to others, so these are one step; words of a FileBackedStore
\* are seen before sync_all, and stay when it fails.
SyncFile ==
  /\ outcome = "running" /\ phase = "finished"
  /\ synced' = synced + 1
  /\ outcome' = IF synced' = Len(SyncOrder) THEN "done" ELSE outcome
  /\ UNCHANGED <<vars, sources, merging, iters, opened, seen>>

\* An error of a call on a file ends the function; nothing is undone.
FileError ==
  /\ outcome = "running"
  /\ opened < Len(OpenOrder) \/ phase = "finished"
  /\ outcome' = "failed"
  /\ UNCHANGED <<vars, sources, merging, iters, opened, synced, seen>>

MergeStep == OpenFile \/ AddNext \/ FinishBuilding \/ SyncFile \/ FileError

\* A reader maps the files, which it can once each of them has been synced, and
\* iterates over the dictionary.
ReadDictionary ==
  /\ ToSet(SubSeq(SyncOrder, 1, synced)) = ToSet(OpenOrder)
  /\ seen' = <<TypedEntries>>
  /\ UNCHANGED <<vars, sources, merging, iters, opened, synced, outcome>>

MergeNext == MergeStep \/ ReadDictionary

\* The merge is one call that runs to its end, as its files let it; nobody
\* has to read what it made.
FairSpec == MergeInit /\ [][MergeNext]_allVars /\ WF_allVars(MergeStep)

-----------------------------------------------------------------------------
(* Items are compared and shown as bytes here, as ropes in the code.       *)
Bytewise(e) == Typed(e.datatype, BytesOf(e.entry))

MergeTypeOK ==
  /\ merging \in {"typed", "string"}
  /\ outcome \in {"running", "done", "failed"}
  /\ opened \in 0..Len(OpenOrder) /\ synced \in 0..Len(SyncOrder)
  /\ \A d \in DOMAIN iters : \A k \in DOMAIN iters[d] : Len(iters[d][k].entry) \in 1..BlockSize
  /\ Len(builder.current) < BlockSize
  \* What is merged so far has its types in order, each met once.
  /\ \A i \in 1..(TypeCount - 1) : typesPresent[i] < typesPresent[i + 1]
  /\ ToSet(typesPresent) = {e.datatype : e \in ToSet(added)}

Abstract == INSTANCE MergeSpec WITH
  AtMost <- AtMostTyped,
  input <- FlattenSeq(sources), output <- added, visible <- seen

(* Merging implements MergeSpec: a dictionary that is read when the call   *)
(* has returned Ok has the entries of all sources in order, each as often  *)
(* as they have it; none can be read before that or when a file fails      *)
(* (merge_typed_dictionaries, merge_string_dictionaries,                   *)
(* SortedIterator::next, SizedDictEntry::cmp).                             *)
ImplementsMerge == Abstract!Spec

(* And the call does return: nothing that can be merged leaves it with     *)
(* neither an entry to take nor a file to write (SortedIterator::next,     *)
(* merge_typed_dictionaries).                                              *)
MergeReturns == Abstract!Ends

\* All ropes there are, at the start; later the iterators have fewer of them.
AllRopes == IF opened = 0 THEN UNION {ToSet(iters[d]) : d \in DOMAIN iters} ELSE {}
EndsEmpty(rope) == Len(rope) > 1 /\ Last(rope) = <<>>

\* The order of bytes, with an entry that ends in an empty slice behind an
\* equal one that does not.
RopeOrder(x, y) ==
  IF BytesOf(x) # BytesOf(y) \/ BytesOf(x) = <<>> \/ EndsEmpty(x) = EndsEmpty(y)
  THEN Ordering(BytesOf(x), BytesOf(y))
  ELSE IF EndsEmpty(x) THEN "Greater" ELSE "Less"

(* Ropes compare as their bytes do, however they are cut, with one         *)
(* exception: equal entries, where one repeats the entry before it and so  *)
(* ends in an empty slice, are not equal.  A heap of the heads still gives *)
(* them all, in order (SizedDictEntry::cmp, heap_sorted_iter).             *)
ComparesAsBytes ==
  /\ \A e, f \in AllRopes : Compare(e.entry, f.entry) = RopeOrder(e.entry, f.entry)
  /\ opened = 0 =>
       LET heap == HeapSorted(iters)
       IN  /\ \A i \in 1..(Len(heap) - 1) : AtMostTyped(Bytewise(heap[i]), Bytewise(heap[i + 1]))
           /\ \A e \in Items :
                Abstract!Count([k \in DOMAIN heap |-> Bytewise(heap[k])], e) =
                  Abstract!Count(FlattenSeq(sources), e)

(* Reading a rope chunk by chunk, or byte by byte, gives its bytes, though *)
(* get_u8 panics on one whose first slice is empty while bytes remain; and *)
(* a buffer of the same bytes equals it, or buf_eq panics, which it does   *)
(* exactly for a rope that ends in an empty slice (SizedDictEntryBuf,      *)
(* SizedDictEntry::buf_eq, SizedBlockIterator::next).                      *)
BufShowsBytes ==
  \A e \in AllRopes :
    LET rope == e.entry
        len == Len(BytesOf(rope))
        Skipped(n) == CopyToSlice(AsBuf(rope), n).buf
        Rest(n) == CopyToSlice(Skipped(n), len - n)
    IN  /\ \A n \in 0..len :
             /\ Remaining(Skipped(n)) = len - n
             /\ Rest(n).bytes = After(BytesOf(rope), n)
             /\ Remaining(Rest(n).buf) = 0 /\ ~Rest(n).buf.panicked
        /\ \A n \in 1..(len - 1) :
             /\ GetU8(Skipped(n)).byte = BytesOf(rope)[n + 1]
             /\ ~GetU8(Skipped(n)).buf.panicked
        /\ BytesOf(rope) # <<>> =>
             GetU8(AsBuf(rope)).buf.panicked = (Head(rope) = <<>>)
        /\ \A f \in AllRopes :
             BufEq(rope, AsBuf(<<BytesOf(f.entry)>>)) =
               IF BytesOf(f.entry) # BytesOf(rope) THEN "no"
               ELSE IF EndsEmpty(rope) /\ BytesOf(rope) # <<>> THEN "panics"
               ELSE "yes"
=============================================================================
