---------------------------- MODULE MemoryBundle ----------------------------
(***************************************************************************)
(* Bundles of MemoryBackedStore files, and the operations of storage/types *)
(* that span the files of one: write_all_from_bufs, map_all,               *)
(* map_all_if_exists and copy_from.                                        *)
(*                                                                         *)
(* A file's contents are an Arc<RwLock<Bytes>>.  Every writer has a buffer *)
(* of its own, and sync_all replaces the whole contents with it under the  *)
(* lock; every map clones the contents under the lock.  So one call on one *)
(* file is one atomic step here, and a step of another thread may come     *)
(* between any two calls.  A writer that is dropped half way simply takes  *)
(* no further step: nothing in the code undoes what it has synced.         *)
(*                                                                         *)
(* The bytes of a file are abstracted to the version they belong to and    *)
(* how many of its chunks have been written: [v |-> v, n |-> n].           *)
(***************************************************************************)
EXTENDS Naturals, Sequences, FiniteSets

CONSTANTS File,        \* the files of a bundle
          WriteOrder,  \* the order write_all_from_bufs writes and syncs them
          MapOrder,    \* the order map_all maps them
          CopyOrder,   \* the order copy_from copies them
          Version,     \* the data sets; one writer thread for each
          Reader,      \* threads that call map_all, on either bundle
          Chunks,      \* chunks of a file's buffer (Buf::chunk)
          None,        \* NotFound: a map of nothing
          Torn,        \* stands for files of different versions
          NoFile       \* a file slot a map has not filled yet

Orders == {o \in [1..Cardinality(File) -> File] :
             \A f \in File : \E i \in DOMAIN o : o[i] = f}

ASSUME FileAssumption == IsFiniteSet(File) /\ File # {}
ASSUME OrdersAssumption == {WriteOrder, MapOrder, CopyOrder} \subseteq Orders
ASSUME ChunksAssumption == Chunks \in Nat \ {0}
ASSUME MarksAssumption == None \notin Version /\ Torn \notin Version /\ None # Torn

Bundle == {"source", "target"}     \* copy_from copies the first to the second
N      == Cardinality(File)
Empty  == [v |-> None, n |-> 0]
Whole(v) == [v |-> v, n |-> Chunks]
Content  == {Empty} \cup [v : Version, n : 1..Chunks]

ASSUME NoFileAssumption == NoFile \notin Content

VARIABLES
  contents,  \* contents[b][f]: what the store of file f in bundle b holds
  bufs,      \* bufs[w][f]: chunks in the buffer of writer w's file f
  synced,    \* synced[w]: how many files writer w has synced
  from,      \* from[r]: the bundle reader r is mapping, or "idle"
  asking,    \* the readers in map_all_if_exists that have yet to call exists
  mapped,    \* mapped[r]: how many files reader r's map_all has mapped
  got,       \* got[r][f]: what reader r's map_all has mapped of f
  outcome,   \* outcome[b][r]: what reader r's last map_all of b returned
  copy,      \* the copy_from: [file, step, input]
  tainted,   \* history: the bundles' readers a replacement overlapped
  copyClean  \* history: no replacement in the source since copy_from began

bundleVars == <<contents, bufs, synced, from, asking, mapped, got, outcome, copy,
                tainted, copyClean>>

-----------------------------------------------------------------------------
(* The state of a bundle as a whole.                                       *)

Versions(c) == {c[f].v : f \in File} \ {None}

CurrentOf(c) == IF Cardinality(Versions(c)) > 1 THEN Torn
                ELSE IF \E f \in File : c[f] = Empty THEN None
                ELSE CHOOSE v \in Versions(c) : TRUE

Reading(b) == {r \in Reader : from[r] = b}

\* The contents c of bundle b become d: a file that was already published
\* changed, or the files now are of different versions.
Replaced(c, d) == \/ \E f \in File : c[f] # Empty /\ c[f] # d[f]
                  \/ CurrentOf(d) = Torn

-----------------------------------------------------------------------------
BundlesInit ==
  /\ contents = [b \in Bundle |-> [f \in File |-> Empty]]
  /\ bufs = [w \in Version |-> [f \in File |-> 0]]
  /\ synced = [w \in Version |-> 0]
  /\ from = [r \in Reader |-> "idle"]
  /\ asking = {}
  /\ mapped = [r \in Reader |-> 0]
  /\ got = [r \in Reader |-> [f \in File |-> NoFile]]
  /\ outcome = [b \in Bundle |-> [r \in Reader |-> None]]
  /\ copy = [file |-> 0, step |-> "idle", input |-> Empty]
  /\ tainted = {}
  /\ copyClean = FALSE

\* MemoryBackedStoreWriter::sync_all of file f in bundle b: the whole contents
\* become c.  The history variables note what that does to maps under way.
SyncContents(b, f, c) ==
  LET d == [contents[b] EXCEPT ![f] = c]
  IN  /\ contents' = [contents EXCEPT ![b] = d]
      /\ tainted' = IF Replaced(contents[b], d) THEN tainted \cup Reading(b)
                                                ELSE tainted
      /\ copyClean' = (copyClean /\ ~(b = "source" /\ Replaced(contents[b], d)))

\* Buf::has_remaining of the buffer for file f.  Mutant: one chunk too many.
HasRemaining_OneMore(w, f) == bufs[w][f] <= Chunks
HasRemaining(w, f) == bufs[w][f] < Chunks

\* All write_buf calls come before the first sync_all.  Mutant: sync_all as
\* soon as the first buffer is written.
Written_FirstOnly(w) == ~HasRemaining(w, WriteOrder[1])
Written(w) == \A f \in File : ~HasRemaining(w, f)

\* write_buf: the next chunk of the first file in WriteOrder still to be filled.
WriteBuf(w) ==
  \E i \in 1..N :
    /\ \A j \in 1..(i-1) : ~HasRemaining(w, WriteOrder[j])
    /\ HasRemaining(w, WriteOrder[i])
    /\ bufs' = [bufs EXCEPT ![w][WriteOrder[i]] = @ + 1]
    /\ UNCHANGED <<contents, synced, from, asking, mapped, got, outcome, copy,
                   tainted, copyClean>>

\* Once every buffer is written: flush, which does nothing in memory, and
\* sync_all of the next file.
WriterSync(w) ==
  /\ Written(w)
  /\ synced[w] < N
  /\ LET f == WriteOrder[synced[w] + 1]
     IN  SyncContents("source", f, [v |-> w, n |-> bufs[w][f]])
  /\ synced' = [synced EXCEPT ![w] = @ + 1]
  /\ UNCHANGED <<bufs, from, asking, mapped, got, outcome, copy>>

-----------------------------------------------------------------------------
NothingMapped == [f \in File |-> NoFile]

\* A map of bundle b begins.
Open(r, b) ==
  /\ from[r] = "idle"
  /\ from' = [from EXCEPT ![r] = b]
  /\ tainted' = IF CurrentOf(contents[b]) = Torn THEN tainted \cup {r} ELSE tainted
  /\ UNCHANGED <<contents, bufs, synced, mapped, got, outcome, copy, copyClean>>

BeginMapAll(r, b) == Open(r, b) /\ UNCHANGED asking

BeginMapAllIfExists(r, b) == Open(r, b) /\ asking' = asking \cup {r}

\* What map_all hands over once every file is mapped.
Assembled(g) == IF \E v \in Version : \A f \in File : g[f] = Whole(v)
                THEN g[MapOrder[1]].v ELSE Torn

Return(r, o) == /\ outcome' = [outcome EXCEPT ![from[r]][r] = o]
                /\ from' = [from EXCEPT ![r] = "idle"]
                /\ mapped' = [mapped EXCEPT ![r] = 0]
                /\ got' = [got EXCEPT ![r] = NothingMapped]
                /\ tainted' = tainted \ {r}

\* map(): Err(NotFound) for an empty store.  Mutant: empty bytes, as a
\* FileBackedStore returns for an empty file.
MapFails_Never(c) == FALSE
MapFails(c) == c = Empty

\* exists() of the first file, the only one map_all_if_exists asks about: Ok(None)
\* if there is none, else map_all.
AskExists(r) ==
  /\ r \in asking
  /\ asking' = asking \ {r}
  /\ \/ contents[from[r]][MapOrder[1]] = Empty /\ Return(r, None)
     \/ /\ contents[from[r]][MapOrder[1]] # Empty
        /\ UNCHANGED <<from, mapped, got, outcome, tainted>>
  /\ UNCHANGED <<contents, bufs, synced, copy, copyClean>>

\* map() of the next file; the ? in map_all returns an error at once.
MapFile(r) ==
  /\ from[r] # "idle" /\ r \notin asking
  /\ LET f == MapOrder[mapped[r] + 1]
         c == contents[from[r]][f]
         g == [got[r] EXCEPT ![f] = c]
     IN  \/ MapFails(c) /\ Return(r, None)
         \/ ~MapFails(c) /\ mapped[r] + 1 = N /\ Return(r, Assembled(g))
         \/ /\ ~MapFails(c)
            /\ mapped[r] + 1 < N
            /\ got' = [got EXCEPT ![r] = g]
            /\ mapped' = [mapped EXCEPT ![r] = @ + 1]
            /\ UNCHANGED <<from, outcome, tainted>>
  /\ UNCHANGED <<contents, bufs, synced, asking, copy, copyClean>>

-----------------------------------------------------------------------------
(* copy_from: copy_file for each file in CopyOrder.                        *)

BeginCopyFrom ==
  /\ copy.step = "idle"
  /\ copy' = [file |-> 1, step |-> "exists", input |-> Empty]
  /\ copyClean' = (CurrentOf(contents["source"]) \in Version)
  /\ UNCHANGED <<contents, bufs, synced, from, asking, mapped, got, outcome, tainted>>

\* After the last file copy_from returns Ok.  Mutant: the last one left out.
LastFile_TooEarly == N - 1
LastFile == N
NextFile == IF copy.file = LastFile
            THEN [file |-> N, step |-> "done", input |-> Empty]
            ELSE [file |-> copy.file + 1, step |-> "exists", input |-> Empty]

\* A source that does not exist is skipped, and copy_file is Ok.
CopyExists ==
  /\ copy.step = "exists"
  /\ copy' = IF contents["source"][CopyOrder[copy.file]] = Empty
             THEN NextFile ELSE [copy EXCEPT !.step = "open"]
  /\ UNCHANGED <<contents, bufs, synced, from, asking, mapped, got, outcome, tainted,
                 copyClean>>

\* open_read: the cursor keeps the bytes of this moment.
CopyOpen ==
  /\ copy.step = "open"
  /\ copy' = [copy EXCEPT !.step = "sync",
                          !.input = contents["source"][CopyOrder[copy.file]]]
  /\ UNCHANGED <<contents, bufs, synced, from, asking, mapped, got, outcome, tainted,
                 copyClean>>

\* io::copy moves the whole input before sync_all.  Mutant: its first chunk.
Copied_FirstChunk(c) == [c EXCEPT !.n = 1]
Copied(c) == c

CopySync ==
  /\ copy.step = "sync"
  /\ SyncContents("target", CopyOrder[copy.file], Copied(copy.input))
  /\ copy' = NextFile
  /\ UNCHANGED <<bufs, synced, from, asking, mapped, got, outcome>>

BundlesNext ==
  \/ \E w \in Version : WriteBuf(w) \/ WriterSync(w)
  \/ \E r \in Reader : \/ AskExists(r) \/ MapFile(r)
                       \/ \E b \in Bundle : BeginMapAll(r, b) \/ BeginMapAllIfExists(r, b)
  \/ BeginCopyFrom \/ CopyExists \/ CopyOpen \/ CopySync

BundlesSpec == BundlesInit /\ [][BundlesNext]_bundleVars

-----------------------------------------------------------------------------
(* The type invariant.                                                     *)
BundlesTypeOK ==
  \* A file holds nothing or the whole of one version: write_all_from_bufs fills
  \* every buffer before its first sync_all, and sync_all swaps whole contents.
  /\ contents \in [Bundle -> [File -> {Empty} \cup {Whole(v) : v \in Version}]]
  /\ bufs \in [Version -> [File -> 0..Chunks]]
  /\ synced \in [Version -> 0..N]
  /\ from \in [Reader -> Bundle \cup {"idle"}]
  /\ asking \subseteq Reader
  /\ mapped \in [Reader -> 0..(N-1)]
  /\ got \in [Reader -> [File -> Content \cup {NoFile}]]
  /\ outcome \in [Bundle -> [Reader -> Version \cup {None, Torn}]]
  /\ copy \in [file : 0..N, step : {"idle", "exists", "open", "sync", "done"},
               input : Content]
  /\ tainted \subseteq Reader
  /\ copyClean \in BOOLEAN

\* The bundle writers write implements the promise of BundleSpec: a map_all
\* that no replacement overlapped returns the version that is current when it
\* returns, whatever write_all_from_bufs is in the middle of.
Source == INSTANCE BundleSpec WITH
            current <- CurrentOf(contents["source"]),
            reading <- Reading("source"),
            tainted <- tainted \cap Reading("source"),
            outcome <- outcome["source"],
            Outcome <- Version \cup {None, Torn}
SourceAtomic == Source!Spec

\* So does the bundle copy_from fills, while its source is being written.
Target == INSTANCE BundleSpec WITH
            current <- CurrentOf(contents["target"]),
            reading <- Reading("target"),
            tainted <- tainted \cap Reading("target"),
            outcome <- outcome["target"],
            Outcome <- Version \cup {None, Torn}
TargetAtomic == Target!Spec

\* A copy_from that started on a complete bundle, none of whose files was
\* replaced before it ended, leaves every file of the target equal to the
\* source's, although copy_file is Ok for a file it skips.
FaithfulCopy ==
  copy.step = "done" /\ copyClean => contents["target"] = contents["source"]
=============================================================================
