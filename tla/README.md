# A verification of tdb-succinct-wasm

tdb-succinct-wasm is a Rust crate of succinct data structures: log arrays, bit
arrays with rank and select, wavelet trees, adjacency lists, front-coded
dictionaries, and the stores their files live in. It is synchronous. No code of
it spawns a thread, but its stores are shared by threads (`Arc<RwLock<_>>`,
files), and a store can be read while it is written.

The TLA+ modules here model the stores with their interleavings and crashes, every
structure with its builder and its queries over the bits that are actually
packed, the merge of dictionaries, and the codes that turn values into entries.
TLC checks them on small instances. For every value of the constants TLAPS proves
that log arrays give back what was pushed and their binary search finds it, that
the index of a bit array is the right one, its ranks count and its selects find
what they count, that adjacency lists stay aligned and show their pairs by left
side, by position and by iteration, that wavelet trees decode to their source and
look up its positions, that dictionaries give the entries added by their ids, by
iteration and as a stream, that what a finished session wrote is durable, that bundles
of files in memory implement an atomic register as far as they can, and that the
streaming reader gives exactly the bytes it should.

## 1. Inventory

| Component | State | Operations | What must hold | Module |
|---|---|---|---|---|
| `MemoryBackedStore` (`storage/memory.rs`) | contents under a lock, a buffer per writer | open_write, write, sync_all, map, open_read, exists | a file is never half a version | `MemoryBundle` |
| `FileBackedStore` (`storage/file.rs`) | a file, a `BufWriter` per writer | open_write (no truncation), write, flush, sync_all, map (size, then read) | synced is durable; a map is not short and has its words in place; what `parse` takes for a whole file | `FileBackedStore` |
| Bundles (`storage/types.rs`) | two to four stores | write_all_from_bufs, map_all, map_all_if_exists, copy_from | first publication looks atomic, undisturbed maps and copies are of one version | `BundleSpec`, `MemoryBundle` |
| Log arrays (`logarray.rs`) | builder: current word, offset, count, width; array: words and a control word | push, pop, finalize, parse, entry, slice | elements read back; sizes agree | `LogArray`, `LogArrayBuilder` |
| Monotonic log array | none of its own | nearest_index_of, index_of | the search finds what is there | `MonotonicLogArray` |
| Bit array, bit index (`bitarray.rs`, `bitindex.rs`) | builder: word, count; index: counts per block and superblock | push, finalize, build_bitindex, rank, select and their ranges | rank counts, select is its inverse | `BitIndexBuilder`, `BitIndex` |
| Wavelet tree (`wavelettree.rs`) | a fragment of bits per range of values | push, finalize, decode_one, lookup | decoding gives the source, lookup its positions | `WaveletTree` |
| Adjacency list (`adjacencylist.rs`) | bits, one entry behind numbers | push, finalize, get, positions, iterator | every query shows the pairs pushed | `AdjacencyList` |
| Dictionary block (`tfc/block.rs`) | head, shared lengths, suffixes | build, parse, entry, id, iterate | entries are rebuilt from shared prefixes | `FrontCodedBlock` |
| Entries of a block (`tfc/block.rs`) | a rope of slices; a position in it | optimize, cmp, eq, buf_eq, into_buf and `Buf` | cut differently, they compare and read as the same bytes | `Rope` |
| Dictionary (`tfc/dict.rs`) | blocks and where they start | add, finalize, entry, id, iter | ids and order | `SizedDict` |
| Typed dictionary (`tfc/typed.rs`) | types, their last blocks, blocks | add across types, finalize, entry, id_slice, iter | ids are consecutive over types | `TypedDict` |
| Streams (`tfc/stream.rs`) | a block at hand, a count of blocks, eight withheld bytes | next, read | types stay with entries; the tail is never read | `TypedDict`, `ReaderSpec`, `WithholdingReader` |
| Merging (`tfc/file.rs`, `util.rs`) | iterators, a builder, files | merge_typed_dictionaries, merge_string_dictionaries, sorted_iterator, heap_sorted_iter | sorted, nothing lost or doubled, in memory visible only when complete | `MergeSpec`, `Merge` |
| Encodings (`tfc/datatypes.rs`, `integer.rs`, `decimal.rs`, `datetime.rs`) | none | to_lexical, from_lexical | bytes sort as values do, round trip | `Lexical`, `EncodedEntries` |
| `vbyte` (`vbyte.rs`) | none | encoding_len, encode, decode | round trip, the three errors | `VByte`, `EncodedEntries` |
| `SmallBitArray` | one word | rank, select | used by nothing in the crate | not modelled |
| Façade (`lib.rs`, `tfc/mod.rs`) | none | re-exports | nothing | not modelled |

How they interact: a wavelet tree and an adjacency list are read through one bit
index each; a bit index is a bit array and two log arrays; a dictionary is
blocks in a buffer and a log array of where they start; a typed dictionary adds
two more log arrays. Values become entries through the encodings, and a merge feeds
the ropes that the iterators of its sources return to a new builder. All of them
are files, written by a builder through `SyncableFile` (write, flush, sync_all) and
read with `map`, or, for dictionaries, as a stream.

What is hard to test here: maps, copies and writes of several files that overlap
(no lock spans files); the file a crash or an error leaves; word and block
boundaries, where an element lies across words or the last block is short;
counts that run one entry behind others; ids over blocks that a change of type
left short; reads that come in pieces; equal entries cut into different slices; a file
that fails after others were synced; values around the places where their code
gets longer. `PROJECT.json` lists these at their lines.

## 2. Modules

The component modules hold state, actions, operators and the properties that
theorems state. A module whose name begins with `MC` EXTENDS the component, gives
constants that a configuration cannot write and defines the properties that only
TLC checks; a component whose constants are plain numbers is run as it is. Operators ending in a suffix after an underscore
(`Carry_Lost`) stand next to the definition they are a plausible mistake in.
They are used by no specification; replacing the definition by one of them makes
the property named in `PROJECT.json` fail.

### Stores

* **`BundleSpec`** is abstract: what the files of a bundle promise together. The
  first publication is atomic; a map that a replacement overlapped is tainted
  and promised nothing; any other returns what is current when it returns.
* **`MemoryBundle`** has two bundles, a writer thread per version for the first,
  a `copy_from` to the second and threads that map either. Each call on one store
  takes its lock once and is one action: `WriteBuf`, `WriterSync`
  (`write_all_from_bufs`), `BeginMapAll`, `MapFile` (`map_all`),
  `BeginMapAllIfExists` and `AskExists` (the question `map_all_if_exists` asks
  before it maps in the same way), `BeginCopyFrom`, `CopyExists`, `CopyOpen`,
  `CopySync` (`copy_file` for each file). The orders of files are constants, and
  `MCMemoryBundle` gives those of `TypedDictionaryFiles`; note that `copy_from` has
  another order than the other two. `map_all_if_exists` is a method of
  `BitIndexFiles`, whose files a builder syncs one after another as well. `tainted` and `copyClean` are history. A writer that fails half way is a
  writer that takes no further step, which every behaviour may have.
* **`FileBackedStore`** is one file, with the words every process sees (`cache`)
  and those a crash cannot lose (`disk`). `OpenWrite` does not truncate.
  `WriteWord` fills the `BufWriter`; a full buffer is emptied by `FlushBuf`, one
  or several write calls of any length; `Flush`, `SyncAll` are what every
  finalizer does; `Drop`, `Dropped` are an error on the way (a `BufWriter`
  flushes when dropped, and ignores failure). `MapSize`, `MapRead` are the
  steps of `map`: the size, and reads of any number of words each until there are
  so many. `Crash` leaves any mix of synced and unsynced words. It is assumed of the
  file system that a file which has synced words is still there after a crash: the
  code syncs files and never the directory that names them. A word is known by its
  session and its place in it. What matters of its bits is what `LogArray::parse`
  would make of them if the word were the last of a file: `claims` says how many
  words that file would have to have. The last word of a session is its control
  word and claims the session's length; the bits of the others are the caller's
  data, so they may claim any length, and a hole is zeros, which claim one word (an
  empty array). Writes and reads that end inside a word are left out, since `parse`
  refuses a size that is no number of words.

### Log arrays

* **`LogArray`**: words as functions from bit positions to 0 and 1, so that the
  code's shifts are shifts; the control word; `Entry` and `Slice`.
* **`LogArrayBuilder`**: `PushNext` (both builders that know the width),
  `LatePush`, `LatePop`, `LateFinalize`, `PushVec` (the late builder, whose
  `finalize` is a builder with the width it found and a push of each value) and
  `Finalize`.
* **`MonotonicLogArray`**: the binary search, over entries as numbers.

### Bits, trees, lists

* **`BitIndex`**: rank and select as the code computes them from the counts,
  including the linear scan for ranges within a cache line, and `Panic` where an
  assertion or an overflow check fails. `select1` and `select0` are one operator.
* **`BitIndexBuilder`**: `Push`, `Finalize` of the bit array, then
  `IndexChunk` for each superblock that `build_bitindex` reads back from the file
  it wrote, and `IndexDone`.
* **`WaveletTree`**, **`AdjacencyList`** EXTEND `BitIndex`, build their bits
  action by action and query them through it.

### Dictionaries

* **`FrontCodedBlock`**: `BuildBlock`, `Entry` (the stack walk), `Ropes`
  (the iterator, which cuts the slices of the entry before in place), `IdInBlock`.
* **`SizedDict`** EXTENDS it with the builder's steps as operators, block lookup,
  the search over heads.
* **`TypedDict`** EXTENDS that with the actions: `Add` (the whole of `add`,
  closing the block and starting a builder when the type changes), `Finalize`,
  and, for a finished dictionary, `OpenStream`, `StreamNext`, `StreamEnd` of the
  streaming iterator over a file that may have been cut.
* **`ReaderSpec`** is what a reader promises to `read_exact`; **`WithholdingReader`**
  is `DontReadLastU64Reader` with its eight-byte buffer, over a file that gives
  as few bytes at a time as it likes.

### Entries, merging, encodings

* **`Rope`** EXTENDS `FrontCodedBlock`: an entry is the slices it is made of.
  `EntryRope` and `IteratedRope` are what `entry` and the iterator return, after
  `Optimized` has copied short ones into one slice; `Compare`, `Equal`, `BufEq`
  walk two sides cut differently; `AsBuf`, `Advance`, `GetU8`, `CopyToSlice` are
  `SizedDictEntryBuf`. Where the code panics, a comparison or buffer says so.
* **`MergeSpec`** is abstract: `Take` the smallest item left, `Finish`, or `Fail`
  at any time; `Read` shows nothing or everything. `Ends` says that it finishes or
  fails in the end.
* **`Merge`** EXTENDS `TypedDict` and `Rope`: `OpenFile` for each file, `AddNext`
  (one turn of the loop: `sorted_iterator` picks a head, the builder's whole `add`
  takes it), `FinishBuilding`, `SyncFile` (write, flush, sync_all of one file),
  `FileError` at any call on a file, and `ReadDictionary` of another thread at any
  moment (the files are those of a `MemoryBackedStore`). `heap_sorted_iter` has no state beyond a call and is an operator. The
  properties of ropes and of the merge are stated at its end, `MCMerge` has the
  dictionaries.
* **`VByte`** and **`Lexical`** (which EXTENDS it and `Rope`) are the codes as
  operators on bytes of `ByteBits` bits, to and from, where reading goes through
  the buffer of a rope and not through a plain sequence. The loops of `vbyte.rs` are
  recursive functions of what a turn of the loop has in hand (`ShiftedOut`,
  `EncodeUnchecked`, the `decode` of `DecodeBuf`), so that they can be proved about;
  `ReadsEncoded` is what the run and the theorem say of them. `Powers` has the
  powers of two that shifts multiply by. **`EncodedEntries`** has
  one action for entries (`Make`, a value encoded and put in a block) and one for
  the codes of a single number (`Encode`).

### Proof modules

`BitIndexProofs` (which begins with the facts about quotients, counts, induction,
binary searches and sequences put one after another that the next five use),
`BitIndexBuilderProofs`, `AdjacencyListProofs`, `WaveletTreeProofs`, `LogArrayProofs`,
`TypedDictProofs`, `MergeProofs` (which EXTENDS it, as `Merge` does `TypedDict`), and
`FileProofs`, about files as `FileBackedStore` writes them and `WithholdingReader`
reads them and about the bundles of `MemoryBundle`: section 4.

## 3. Runs

| Run | Properties | Bounds |
|---|---|---|
| `memory_bundle` | `BundlesTypeOK`, `FaithfulCopy`, `SourceAtomic`, `TargetAtomic` | 4 files, 2 writers, 1 reader, 1 copy, 2 chunks a file |
| `file_store` | `TypeOK`, `FinishedIsDurable`, `MapIsInPlace` | 2 sessions of up to 3 words with any claims, buffer of 2, 2 crashes |
| `logarray` | `TypeOK`, `RoundTrip`, `LateValuesFit`, `FinishedIsAccepted`, `SlicesShowTheArray`, `SearchFinds` | words of 4 bits, widths 1 to 4, 3 elements, lengths that need both parts of the control word |
| `bitindex` | `TypeOK`, `BuildsTheIndex`, `RankCounts`, `SelectFinds`, `RangeSelectFinds` | 10 bits, words of 2, superblocks of 2 words, scans of 2 bits |
| `bitindex_select0` (violated) | `Select0InArray` | as above |
| `adjacency` | `TypeOK`, `BitsLag`, `GetShowsRights`, `PositionsShowPairs`, `IteratorYieldsPairs` | left sides to 5, right sides to 2 |
| `wavelet` | `TypeOK`, `DecodesToSource`, `LookupFindsPositions` | widths 1 to 3, up to 4 numbers |
| `dictionary` | `TypeOK`, `EntriesKeepTheirIds`, `LookupsFollowTheOrder`, `IterationGivesEntries`, `StreamGivesWholeBlocks` | 6 entries, 3 types (one of fixed-size records), blocks of 3 |
| `withholding_reader` | `HoldsTheTail`, `ReadsAllButTail` | files of 0 to 14 bytes, 3 withheld, requests to 5 |
| `merge` | `MergeTypeOK`, `ComparesAsBytes`, `BufShowsBytes`, `ImplementsMerge`, `MergeReturns` | up to 3 dictionaries of 4 entries together, 2 types, blocks of 3 |
| `encodings` | `ReadsBack`, `KeepsOrder` | bytes of 4 bits, binary digits, 2 values a block, codes of up to 7 bits, 4 bytes |
| `encodings_iterated` (violated) | `IteratedReadsBack` | as above |

`BuildsTheIndex` is the conjunction of `IndexMatches` and `BlocksFit`.

Why these are enough. *Stores*: every file has a place where another thread can
come between, two versions suffice for a mix, readers do not affect one another,
and two chunks make a first chunk that is not the whole. A buffer of two for
three words makes a session spill before it flushes; a second session is shorter,
equal or longer than the first; two crashes include one after a crash.
*Log arrays*: words of four bits with a width of three have elements inside a
word, ending at its last bit and across two words, and three elements meet each;
the theorems below need no bound. *Bits*: ten bits are five words and three
superblocks with the last one short, ranges start and end in every position of a
block, and the scan covers less than a superblock, so both ways of select are
taken. *Trees and lists*: three layers have a first, a middle and a last one;
five left sides have holes at the start, in a row, and at none. *Dictionaries*:
six entries in blocks of three fill blocks exactly, leave them short, and put up
to three types' boundaries at either; equal entries, empty ones and entries that
are prefixes of others are among them. *Reader*: requests smaller than, equal to
and larger than the buffer, files shorter than the tail. *Merging*: four entries in
three dictionaries run out one after another, share entries, repeat one within a
dictionary and change type; slices have size 1, so that entries stay cut, as those
of 32 bytes and more do in the code; a file fails at each of its calls.
*Encodings*: with bytes of four bits and digits to the base 2, numbers up to 2^30
meet sizes of one, two and three bytes, decimals meet single digits and pairs at
their end, and floats have both zeros, denormals, infinities and NaNs of both
signs; with slices of size 5 only the longest entries (big integers, decimals,
text) are cut, as in the code; the decoders get every byte string of up to four
bytes.

What the runs say that is not obvious from the code:

* `map_all` and `write_all_from_bufs` may interleave in any way on a new bundle
  and a reader still sees nothing or everything, because `map` fails for an empty
  store and every buffer is filled before the first `sync_all`. Replacing a
  bundle has no such guarantee: the models taint these maps.
* A file that was not truncated keeps the tail of a longer old version.
  `FinishedIsDurable` says so explicitly, and what `parse` accepts is only said of
  a first version; for a second one, `parse` finds the old control word.
* `parse` does not always recognise half a file. It reads the last eight bytes of
  whatever it gets as a control word, and in a beginning of a file these are data.
  A file cut behind a first word of zeros, for one, is an empty array to it.
  `MapIsInPlace` therefore says of a first version that the whole is accepted, and
  that a beginning is only if some data word claims just the words up to itself;
  without such data a file that is still being written, or whose writer was dropped
  on an error, is refused.
* The entries that a merge has written are visible only when it is complete if its
  files are in memory, where a file appears with its `sync_all`; this is what
  `Merge` models and `ImplementsMerge` shows. `tfc/file.rs` is generic. With files of
  a `FileBackedStore` words are seen before `sync_all`, and if the `sync_all` of the
  last file fails, the merge returns an error and leaves a complete dictionary.
* A copy can mix versions when a writer comes between its files (`copy_file` of one
  file and the next). `FaithfulCopy` is of copies that no writer disturbed, and
  `TargetAtomic` of what readers of the copy see; neither says that a disturbed copy
  is whole, because it need not be.
* The width a late builder keeps after a `pop` may be larger than needed. It is
  never too small (`LateValuesFit`).
* `push` of a fragment silently ignores a number that is out of range; the index
  computation never makes it do so, or a layer would come up short
  (`DecodesToSource`).
* `map_all_if_exists` can return an error although it has asked: the file it asks
  about is synced before the others. Both answers mean that nothing complete is
  published, and `SourceAtomic` says that neither is given otherwise.
* An entry that repeats the one before it ends in an empty slice when an iterator
  returns it, and then compares as greater than an equal one. `ComparesAsBytes`
  has this as its one exception, and a merge is right in spite of it
  (`ImplementsMerge`), since equal entries may come in either order.
* `advance` of an entry's buffer has its test the wrong way round, which makes the
  search for the right slice dead code. No caller advances over a slice and part
  of the next, so what is read is right (`BufShowsBytes`).
* A merge that fails has not made anything readable, in memory: a reader needs all
  files, and the last one was not synced.

### The disagreements

`bitindex_select0` expects a violation: `select0` of the first rank past the last
zero returns a position behind the array, or fails an assertion, when the array
does not end with its word or superblock. The doc comment and the test of
`bitindex.rs` have `None`. `SelectFinds` says what does hold: `select1` for every
rank, `select0` for the ranks there are.

`encodings_iterated` expects a violation: a big integer of a long entry that shares
nothing with the entry before it comes out of a block's iterator with an empty
slice in front, and `get_u8`, with which reading begins, panics on it. `ReadsBack`
says what does hold: from bytes and from `entry` it is read back, and from the
iterator with the exceptions it names.

Other places where a comment or an intention and the code disagree, read off while
modelling and not given runs. *Log arrays and bits*: the module comment of
`logarray.rs` (lines 19 to 28) has 24 unused bits and lengths below 2^32, the code
uses these bits for the length; the comment of `slice` (381) has it panic when
offset plus length equals the array's length, the code allows that; `entry` (316)
documents a panic that is a debug assertion; a wavelet tree of 64 layers, which is
documented, overflows `2_u64.pow` (`wavelettree.rs` 123); `select1_from_range` with
a rank that is not in the range can look past the last superblock where a test has
`None` (`bitindex.rs` 105, 547). *Entries*: `buf_eq` panics on a buffer whose parts
end elsewhere than the slices, or if the rope ends in an empty slice. *Encodings*:
a negative NaN is read back as a number; the size in front of a big integer sorts
wrongly from 8192 bytes on; an `i16` read as an `i32` lacks the flip of the sign; a
negative offset of a time zone is printed with two signs; a timestamp in a leap
second (nanoseconds from 10^9 on) is not one of the values its code is made for; a
decimal "-0" reads back as "0"; an exponent too large for its type panics in
parsing. *Merging*: with file-backed stores a merge that fails leaves the empty
files it has opened.

### Deadlock, fairness, liveness

Every run has `CHECK_DEADLOCK FALSE`: the programs modelled come to an end (a
builder finalized, an iterator exhausted, the sessions over), and a model that
bounds pushes must stop.

Fairness is assumed in one place. A merge is one call that loops over its sources
and then over its files; once called it runs to its end by itself, so `FairSpec` of
`Merge` has weak fairness of the steps of that call (`MergeStep`; not of the reader
in another thread), and `MergeReturns` says that it returns, with everything merged
or with an error. It would not if the iterator picked a dictionary that has run out or
never took an entry, or if a builder without entries could not be finalized.

Elsewhere no fairness is assumed and no liveness is claimed: the library is called,
each call of a builder or query is an action or an operator, and nothing in the
code waits for anything but a lock held for the length of one assignment. Whether
a caller makes the next call is not in this repository. The other properties are
safety properties, four of them refinements of abstract specifications and, where
a run ends, statements of what has been produced by then (`IteratorYieldsPairs`,
`StreamGivesWholeBlocks`, the `End` of `ReaderSpec`).

## 4. Proofs

All proof modules are checked by TLAPS to the last leaf, with Z3, Zenon and LS4.
The assumptions are those of the constants, which TLC evaluates on every run: sizes
are positive, orders of files name every file, marks are no versions.

**`LogArrayProofs`** proves, for every word size `W`, every split of the length
in the control word and every bound: `TypeCorrect`, `LateValuesAlwaysFit`,
`ElementsRoundTrip`, `SlicesRoundTrip`, `SearchAlwaysFinds`,
`FinishedAlwaysAccepted`. The assumptions
are those of the constants (`WAssumption`, `LenAssumption`, `MaxCountAssumption`):
they are positive or natural numbers. The inductive invariant is
`IInv == TypeOK /\ PackInv /\ LateValuesFit`. `RoundTrip` itself speaks only of a
finished array and is no invariant one can induct on; `PackInv` says of a
builder at work that bit *b* of element *i* is bit *(i-1)·width + b* of the
stream that the words and the current word begin, that the rest of the current
word is zero (so that OR writes), and that words and offset account for all the
bits. Its conjunct `Packed` quantifies over the word *q* and bit *r* a position
falls in, instead of computing them by division; a push then only has to look at
the last word, and the nonlinear arithmetic is confined to a few lemmas on
quotients at the start of the module. From `Packed` at the end, the two branches
of `Entry` are shown to select the right bits one at a time.
The invariant of the push and the shape of `Entry` are also what slices need. The
search is an induction over the length of the range that is left: what is in front of
the range is smaller than the element, what is behind it is greater.

The module's last part is about the other numbers in bits. `VByteReadsBack`, from
`VByteAssumption` alone (a group divides all bits of a word but one), says that every
number of a word, encoded and put in front of any bytes, decodes to itself; that its
code has the length `encoding_len` computes, so that `encode_unchecked` stays inside
what it is given; and that this is at most `MAX_ENCODING_LEN`. `BitsAre` finds the
highest 1-bit of a number, `EncodingLenGrows` says that a group shifted out is a byte
less, and `Encodes` is the statement to induct on: from any bytes that are there
already, with the decoder in the middle of them and any sum so far. The decoder's
two errors are excluded by one bound, that the number times the place of the byte
stays below the word: an end of the word before the last byte, and a last byte that
is too large.

**`FileProofs`** proves `TypeCorrect`, `FinishedStaysDurable` and
`MapAlwaysInPlace` of `FileBackedStore`, for any number of sessions, words, crashes and any size of the
buffer. `FinishedIsDurable` speaks of a moment after `sync_all`; what carries it
there is said of a session at work: `WritesOver` (the file is what the session
opened on, with the words that have left the buffer written over its front),
`Grows` (files get no shorter, neither than a crash must leave them nor than a map
under way has asked for), `OnDisk` (of a finished session, cache and disk have all
its words over what was there), `ClaimsAre` (every session has a control word, which
claims its length), `Placed` (until a crash, file and mapped words are at the place
where some session has them: a write leaves no hole because `WritesOver` puts the file
position within the file) and `FirstSession` (until a crash cuts the first session
short, the file and what was mapped are beginnings of it). With the last two, a
mapped beginning of a first version ends in a word of that session, and what `parse`
does with it is what that word claims.

Of the reader it proves `ReaderTypeCorrect`, `AlwaysHoldsTheTail` and the
refinement `ImplementsReader == ReadSpec => ReadsAllButTail`, for every number of
bytes withheld, every request size and every set of files (`HeldAssumption`,
`RequestAssumption`, `FilesAssumption`). The invariant is `HoldsTheTail` with
`Untouched`, what is so before the first read. Lemma `ReadShifts` is the heart:
whichever way new bytes and buffer overlap, what goes out is the next slice of
the file and what stays is the slice behind it. `StepRefines` then maps
`ReadExact` to `Ask`, `ReadSome` to `Give`, and `ReadTooShort` and `ReadEnd` to
`End`.

Of bundles it proves `BundlesTypeCorrect`, `CopyIsFaithful` and that both
bundles implement `BundleSpec` (`SourceIsAtomic`, `TargetIsAtomic`), for any set of
files, any three orders of them, any versions and readers. `CurrentOf` counts the
versions that the files are of; `CurrentIs` replaces counting by `Mixed`: two files
that are not empty differ. The lemma the argument turns on is `NotReplaced`: a
`sync_all` that replaces nothing changes an empty file only, so it leaves what is
current or publishes it. From it follows `MapsAreCurrent`: a reader that is not
tainted has mapped what the files still hold; so the file it finds empty, or the
last it maps, says what is current *now*. `AskingMap` is the same for the question
of `map_all_if_exists`, and `CopyIsCurrent` for the part of a copy that is done.
`BundlesStepRefines` maps each step to one of `BundleSpec` or none, once for each bundle.

**`BitIndexProofs`** is about operators, for every size of words and superblocks. It
begins with lemmas that have nothing to do with bits. The library's theorems on
induction take an operator and can be used with none of ours; what they say is said
here of sets. `Induct` is induction over a set of naturals that holds 0 and the
successors of its members, `Descent` the same for a set of anything with a measure,
`Recursion` and `TailRecursion` that a recursive function with such a measure exists,
so that the function the model CHOOSEs satisfies its equation. `Count(T, a, b)`, the
number of members of a set of naturals between two bounds, is never unfolded: it is
added to, split, shifted and complemented. `SearchDownEnds` and `SearchUpEnds` are the
two binary searches of the code, over a set of places in which whatever is above (or
below) a member is one too.

Of bits there are then `GetReadsBits` (`get` of an array of `WordsOf(bits)` is the
bit), `OnesBetweenCounts` (ones of words are ones of bits), `Rank1Counts` (a
superblock's count, minus the block's, plus those in the word), and from them `RankOf`
and `RankInRange` for both bits. For select, `SBlockRankCounts` and `BlockRankCounts`
say which count each search compares with, the padding behind the last bit included;
`SelectSBlockIs`, `SelectBlockIs` and `SelectInBlockIs` that each search stops where the
bit sought is; `SelectLinearIs` that the scan finds it too. `SelectAt` puts them
together: the bit at a position is selected by its rank, in every range around it.
`SelectNone` is `select1` of a rank there is no bit for. All hold of
`BuildIndex(bits)`, the reference index.

**`BitIndexBuilderProofs`** shows that this is what is built. The invariant is in
two halves. While bits are pushed, the file is the full words of the bits pushed
and `current` the rest, padded. Afterwards the file is the words and the control
word, and `Reached` says how far `build_bitindex` has come: for some number *m* of
superblocks, `next` is the block behind them, `blocks` and `sblocks` hold the counts
of the reference for them, and the running sum is the count of all ones so far.
Each count is one of a set of marked positions of the bits, so that a chunk adds a
count between two bounds. Done means that *m* superblocks cover the words. Hence
`IndexAlwaysMatches`, and, as a superblock's count is no more than its size and that
is less than the power of two its bits give, `BlocksFit` and `IndexIsBuilt`.
`RankAlwaysCounts`, `SelectAlwaysFinds` and `RangeSelectAlwaysFinds` are the lemmas
above for the index that was built.

**`AdjacencyListProofs`** proves `TypeCorrect`, `BitsAlwaysLag`, `GetAlwaysShows`,
`PositionsAlwaysShow` and `IteratorAlwaysYields` for every list. `Level` says that bits are one
fewer than numbers until they are finalized and how many of them are ones,
`Stands` that a number which is no hole belongs to the pair that the count of such
numbers before it gives, with the count of 1-bits before it for its left side; `Few`
bounds the numbers, `Iterates` says where the iterator stands and that what it has
returned is the pairs so far. A pair that follows holes
pushes many bits and numbers in one step, and the counts move by a segment of ones;
with `Rank1Counts`, what `left_at_pos` computes from the index is that count. `get`
asks select where a left side begins and reads bits until the 1 that ends it. For that
to be its right sides and no others, a hole must not share its left side with a pair:
`Alone` says that the bit at a hole, and the bit before it, are ones.

**`WaveletTreeProofs`** proves `TypeCorrect`, `DecodesAlways` and `LookupAlwaysFinds` for
every width and every length of the source. The invariant says of each fragment
(`HoldsIts`) that it has a bit for every number of its range, at the place that the
count of such numbers before it gives, and that the bit is the half the number is in.
When the tree is built, the fragments stand one behind another (`FlattenIs`), so the
node of a value at a layer begins at `First` and ends at `Behind`, and the zeros and ones
in front of a place in it count what its two halves were given (`NodeSifts`,
`NodeRank`). `DecodeGoesDown` and `LookupGoesDown` are the loops: what the code has at
layer *i* is the node of the value there (`Known`, `Sighted`), so the last is the value
itself, or, for a value that the source does not have, some node on the way is empty. An
entry of a lookup goes the other way: `NodeSelect` says that select in a node gives
back the place whose rank led down (`LookupEntryIs`).

**`TypedDictProofs`** proves `TypeCorrect`, `IdsAlways`, `IterationAlways`,
`StreamAlways` and `LookupAlways`, for every block size, any types, record sizes, values
and values looked up (`BlockSizeAssumption`, `TypesAssumption`: values are byte strings,
those of a type with fixed-size records of that size) and any number of entries. It goes
up in three steps. *Blocks*: `EntriesAre` says that `entry`, which walks back to an
entry that shares nothing and takes from each one on the way what the next does not
replace, gives what `BuildBlock` was given; `RopesAre` says the same of the iterator,
which cuts the slices of the entry before. Both are inductions along the entries of a
block, in which the bytes had from the *j*-th entry of the way are as many as the least
shared length from there on (`SharedFrom`). *Buffers*: the invariant `Inv` says, of a
builder at work and of a finished one, that the blocks stand one behind another in the
buffer (`Written`), that `offsets` has where each ends (`OffsetsAre`), that the blocks
of each type are built from the entries added for it, that all are full but the last of
each type (`Sections`), and that what is not in a block yet is the rest (`Rest`).
`Building` says it of a value, not of the variable, since one `add` may write two
blocks, one for the type that ends and one that is full. *Reading*: `Ready` restates it
for a reader: type *i* has the blocks behind `BlocksTo(i - 1)` up to `BlocksTo(i)`. So
the segment of a type, whose data goes on to the end of the buffer, has as many blocks
as its offsets say (`SegmentIs`), and an id is the full blocks before it less the gaps
of the types before (`IdOffsetIs`, `NumEntriesIs`, `TypeIndexIs`). The stream has an
invariant of its own, `StreamInv`: what it has returned is the first entries, what it
holds is the rest of the block at hand, and its `offset` is the type of that block, or
of the one before if the block is the first of the next. Looking a value up needs the
order as well: entries are added in order (`InOrder`, from the guard of `add` by the
transitivity of the order, `BelowTrans` and `BeforeTrans`), so the entries of a block,
and the heads of a segment, ascend. `NextEntry` says what the bytes an entry shares with
the one before tell about how the value compares with it, when it is known how many the
value has in common with the one before. It is the step of the walk in a block
(`WalkAt`, `IdInBlockIs`); `SeekAt` says the same of the binary search over the heads,
whose interval always has the block that decides (`IdInIs`), and `LookupIs` puts them
into the segments, where a value below all entries of its type is answered with the last
entry of the types before.

**`MergeProofs`** proves `MergeTypeCorrect`, `ComparesAlways`, `BufAlwaysShows` and the
refinement `MergeImplements`, for any number of sorted dictionaries of any length, every
block size and every size of a slice (`SourcesAssumption`, `SliceSizeAssumption`, and the
assumptions of the builder). It has four parts. *Comparing ropes*: `CompareParts`,
`CopyTo` and `PartsEqBuf` are recursive functions of pairs and triples, which exist
because the parts left get fewer with each turn (`ComparesExists`, `CopyExists`,
`EqExists`, by `TailRecursion`). Ropes in which no slice is empty but the first or the
last are `Shaped`; for these `CompareStep` says that taking what the first slices have in
common off both sides changes neither the order of the bytes nor which side ends in an
empty slice, and `ComparesShown` follows by `Descent`. `CompareIs` is the order with its
exception. *What iterators give*: `IteratorIs`, that the iterator of a built dictionary
gives for each entry a rope of its bytes that is `Shaped`, from `RopesAre` and the
builder's invariant along the entries (`BuilderIs`). *Merging*: the invariant is
`MergeInv == Inv /\ Calls /\ Conserved`. `Inv` is the builder's, `Calls` says where in the
order of its calls the function is, and `Conserved` that, of any set of items, the
sources have as many as were added and are waiting together (`Waiting`), that what waits
comes no earlier than the last entry added, and that the types met are those of the
entries added. Counting sets of items instead of single items lets one fact say that
nothing is lost, nothing doubled and nothing made up. `TakenFirst` is the step: the
smallest head comes before everything waiting, and is one item less. `MergeRefinesStep`
maps `AddNext` to `Take`, the last `SyncFile` to `Finish`, `FileError` to `Fail`,
`ReadDictionary` to `Read` (`IterationIs`: what it reads is the entries added), and the others to no step. The heap is an induction
along its calls with the same counts (`HeapGives`). *Reading ropes*: a buffer that is
`Sound` stands at a byte or at the end, and `ToGive` is what it still has to give;
`AdvanceIs` says what advancing within a chunk takes from that, and `CopyToIs`,
`PartsEqBufIs` follow by `Descent`, so that reading on from any byte gives the rest
(`ReadOn`), whichever chunks that crosses.

### Only model-checked

* `ReadsBack` and `KeepsOrder`, the encodings. They are recursive operators over digits
  and bytes, and what they compute for every input is an induction over data. Of
  `ReadsBack` the part about vbyte is `VByteReadsBack`; what `decode_buf` makes of
  bytes nothing has encoded is only model-checked.
* `MergeReturns`: it is liveness under fairness.
* `Select0InArray` and `IteratedReadsBack`, which are false.

## 5. Not modelled

Abstracted throughout: bytes and endianness of files (words, entries and versions
stand for them), error values and their texts, the generic buffer types, and a
number of a block's header as one byte.

* `SmallBitArray` (used by nothing in the crate) and the façade (re-exports).
* The type `Time`, which is stored as its text; reading a value as a `String`, which
  is formatting; reading a value as a wider type, and the errors of parsing text.
* The hash of a rope, and the functions of `tfc/file.rs` that count the entries of a
  dictionary file from its last offsets.
* Errors of a write inside a push of the file builders. The code has changed count
  and offset by then, and nothing says what a further push may do. What is left of
  the file is that of a session that was dropped, which `FileBackedStore` has.
* A merge or a bundle of files of a `FileBackedStore`, whose files are seen while they
  are written: `Merge` and `MemoryBundle` have files in memory, `FileBackedStore` one
  file on disk.
* The ranks that are in no range: `RangeSelectFinds` has those in the range only, since
  nothing says what `select1_from_range` gives for the others (`bitindex.rs:105`).
* A source file that is replaced by a shorter one between `size` and `map` in
  `logarray_file_get_length_and_width` and `bitarray_len_from_file`. The one caller
  in the crate reads a finished array.
* The branch of `FileBackedStore::exists` for errors other than NotFound.
* Capacity: memory that runs out, positions beyond 2^64, and `usize` of 32 bits.
