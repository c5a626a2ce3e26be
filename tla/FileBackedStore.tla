--------------------------- MODULE FileBackedStore ---------------------------
(***************************************************************************)
(* One file of a FileBackedStore: sessions that write it one after another *)
(* through a BufWriter, a thread that maps it at the same time, and        *)
(* crashes of the machine.                                                 *)
(*                                                                         *)
(* A session is what every builder does with its file: open_write, a       *)
(* series of writes, then flush and sync_all; an error on the way drops    *)
(* the writer instead.  open_write does not truncate, so a session writes  *)
(* over what is there.  BufWriter hands its buffer to the file with one or *)
(* more write calls, when it fills, on flush and on drop; its sync_all     *)
(* (storage/file.rs) syncs the file underneath and leaves the buffer.      *)
(*                                                                         *)
(* A cell of the file is a word: of which session it is and which of its   *)
(* words, or a hole of zeros, space whose data a crash lost.  The last     *)
(* word of a session is its control word.  parse takes whatever word it    *)
(* finds last for one, and the bits of the other words are the caller's,   *)
(* so any of them may read as the control word of any file.  Writes and    *)
(* reads that end inside a word are left out: parse refuses a size that is *)
(* no whole number of words.                                               *)
(***************************************************************************)
EXTENDS Integers, Sequences

CONSTANTS Sessions,  \* bound: how many sessions write the file
          MaxLen,    \* bound: words a session writes
          Capacity,  \* words the BufWriter holds
          MaxCrash   \* bound: how many crashes

ASSUME SessionsAssumption == Sessions \in Nat \ {0} /\ MaxCrash \in Nat
ASSUME CapacityAssumption == Capacity \in Nat \ {0} /\ MaxLen \in Nat \ {0}

VARIABLES
  exists,   \* the file has been created
  cache,    \* its words as every process reads them
  disk,     \* its words a crash cannot lose
  session,  \* the current or latest session
  phase,    \* closed, writing, spilling (a full buffer), flushing or dropping
  claims,   \* claims[s][i]: the words a file has whose control word is word i
            \* of session s (0: more words, or a width that parse refuses)
  given,    \* words the session has written to the BufWriter
  pending,  \* of those, how many are still in its buffer
  mapper,   \* the map() under way: [step, size, got]
  crashes,
  before,   \* history: the words the session opened on
  finished, \* history: the session ran to the end of its sync_all
  torn      \* history: a crash cut the session short

writer == <<session, phase, claims, given, pending>>
history == <<before, finished, torn>>
vars == <<exists, cache, disk, writer, mapper, crashes, history>>

Word(s, i) == <<s, i>>
Hole == <<0, 0>>
Cell == ((1..Sessions) \X (1..MaxLen)) \union {Hole}
Idle == [step |-> "idle", size |-> 0, got |-> <<>>]

Init == /\ exists = FALSE /\ cache = <<>> /\ disk = <<>>
        /\ session = 0 /\ phase = "closed" /\ claims = [s \in 1..Sessions |-> <<>>]
        /\ given = 0 /\ pending = 0
        /\ mapper = Idle /\ crashes = 0
        /\ before = <<>> /\ finished = FALSE /\ torn = FALSE

\* The words c with k words of session s, those behind its first m, written
\* over them behind the first n; a write past the end leaves a hole.
Overwritten(c, n, s, m, k) ==
  [i \in 1..(IF Len(c) < n + k THEN n + k ELSE Len(c)) |->
     IF i \in (n+1)..(n+k) THEN Word(s, m + i - n)
     ELSE IF i <= Len(c) THEN c[i] ELSE Hole]

-----------------------------------------------------------------------------
(* The writer.                                                             *)

\* OpenOptions read, write, create.  Mutant: truncate as well.
Opened_Truncated(c) == <<>>
Opened(c) == c

OpenWrite ==
  /\ phase = "closed" /\ session < Sessions
  /\ exists' = TRUE
  /\ cache' = Opened(cache)
  /\ session' = session + 1
  /\ \E n \in 1..MaxLen : \E c \in [1..n -> 0..MaxLen] :
       c[n] = n /\ claims' = [claims EXCEPT ![session + 1] = c]
  /\ phase' = "writing" /\ given' = 0 /\ pending' = 0
  /\ before' = cache /\ finished' = FALSE /\ torn' = FALSE
  /\ UNCHANGED <<disk, mapper, crashes>>

\* Room in the BufWriter's buffer.  Mutant: for one word too many.
HasRoom_OneMore == pending <= Capacity
HasRoom == pending < Capacity

\* write_all of the next word, when the buffer has room for it.
WriteWord ==
  /\ phase = "writing" /\ given < Len(claims[session]) /\ HasRoom
  /\ given' = given + 1
  /\ pending' = pending + 1
  /\ UNCHANGED <<exists, cache, disk, session, phase, claims, mapper, crashes, history>>

\* The file position is behind what was given by what is buffered.  Mutant: not.
FlushOffset_Given == given
FlushOffset == given - pending

\* A word the buffer has no room for: the buffer is emptied first.
Spill ==
  /\ phase = "writing" /\ given < Len(claims[session]) /\ ~HasRoom
  /\ phase' = "spilling"
  /\ UNCHANGED <<exists, cache, disk, session, claims, given, pending, mapper, crashes,
                 history>>

\* flush_buf: write(2) takes any number of the buffered words, and is called
\* until the buffer is empty.
FlushBuf ==
  /\ phase \in {"spilling", "flushing", "dropping"} /\ pending > 0
  /\ \E k \in 1..pending :
       /\ cache' = Overwritten(cache, FlushOffset, session, given - pending, k)
       /\ pending' = pending - k
       /\ phase' = IF phase = "spilling" /\ k = pending THEN "writing" ELSE phase
  /\ UNCHANGED <<exists, disk, session, claims, given, mapper, crashes, history>>

\* The finalizer flushes once everything is written.
Flush ==
  /\ phase = "writing" /\ given = Len(claims[session])
  /\ phase' = "flushing"
  /\ UNCHANGED <<exists, cache, disk, session, claims, given, pending, mapper, crashes,
                 history>>

\* sync_all comes after the flush has emptied the buffer.  Mutant: sync_all
\* without the flush, as if it flushed by itself.
MaySync_Unflushed == phase = "flushing"
MaySync == phase = "flushing" /\ pending = 0

SyncAll ==
  /\ MaySync
  /\ disk' = cache
  /\ phase' = "closed"
  /\ pending' = 0
  /\ finished' = TRUE
  /\ UNCHANGED <<exists, cache, session, claims, given, mapper, crashes, before, torn>>

\* An error, of this file or elsewhere, drops the writer; dropping a BufWriter
\* flushes it, and ignores it when that fails.
Drop ==
  /\ phase \in {"writing", "spilling", "flushing"}
  /\ phase' = "dropping"
  /\ UNCHANGED <<exists, cache, disk, session, claims, given, pending, mapper, crashes,
                 history>>

Dropped ==
  /\ phase = "dropping"
  /\ phase' = "closed" /\ pending' = 0
  /\ UNCHANGED <<exists, cache, disk, session, claims, given, mapper, crashes, history>>

-----------------------------------------------------------------------------
(* The mapper: size(), then open_read and read_exact of that many words,   *)
(* which read(2) may hand out a few at a time while the file is written.   *)

MapSize ==
  /\ mapper.step # "sized"
  /\ mapper' = IF ~exists THEN [Idle EXCEPT !.step = "NotFound"]
               ELSE IF Len(cache) = 0 THEN [Idle EXCEPT !.step = "ok"]
               ELSE [Idle EXCEPT !.step = "sized", !.size = Len(cache)]
  /\ UNCHANGED <<exists, cache, disk, writer, crashes, history>>

MapRead ==
  /\ mapper.step = "sized"
  /\ \/ /\ Len(cache) <= Len(mapper.got)
        /\ mapper' = [Idle EXCEPT !.step = "UnexpectedEof"]
     \/ \E k \in (Len(mapper.got) + 1)..mapper.size :
          /\ k <= Len(cache)
          /\ mapper' = [mapper EXCEPT
                          !.step = IF k = mapper.size THEN "ok" ELSE "sized",
                          !.got = @ \o SubSeq(cache, Len(@) + 1, k)]
  /\ UNCHANGED <<exists, cache, disk, writer, crashes, history>>

-----------------------------------------------------------------------------
\* The machine stops.  Of the words not synced, each is the old one, the new
\* one, or, past the old end, one the file system never wrote; the file may
\* be as short as it was when last synced.  A file that was created is still
\* there once it has synced words, although nothing syncs its directory: this
\* is assumed of the file system.
Crash ==
  /\ crashes < MaxCrash
  /\ crashes' = crashes + 1
  /\ \E n \in Len(disk)..Len(cache) : \E keep \in [1..n -> BOOLEAN] :
       LET c == [i \in 1..n |-> IF keep[i] THEN cache[i]
                                ELSE IF i <= Len(disk) THEN disk[i] ELSE Hole]
       IN  cache' = c /\ disk' = c
  /\ exists' \in {exists, disk # <<>>}
  /\ exists' \/ cache' = <<>>
  /\ phase' = "closed" /\ pending' = 0
  /\ torn' = (torn \/ ~finished)
  /\ mapper' = Idle
  /\ UNCHANGED <<session, claims, given, before, finished>>

Next == \/ OpenWrite \/ WriteWord \/ Spill \/ FlushBuf \/ Flush \/ SyncAll
        \/ Drop \/ Dropped
        \/ MapSize \/ MapRead
        \/ Crash

Spec == Init /\ [][Next]_vars

-----------------------------------------------------------------------------
TypeOK ==
  /\ exists \in BOOLEAN
  /\ cache \in Seq(Cell) /\ disk \in Seq(Cell)
  /\ session \in 0..Sessions
  /\ phase \in {"closed", "writing", "spilling", "flushing", "dropping"}
  /\ claims \in [1..Sessions -> Seq(0..MaxLen)]
  /\ given \in 0..MaxLen /\ pending \in 0..Capacity /\ pending <= given
  /\ mapper \in [step : {"idle", "sized", "ok", "NotFound", "UnexpectedEof"},
                 size : 0..MaxLen, got : Seq(Cell)]
  /\ crashes \in 0..MaxCrash
  /\ before \in Seq(Cell) /\ finished \in BOOLEAN /\ torn \in BOOLEAN

\* A session whose sync_all returned is on disk whatever crashes follow, over
\* exactly the words it opened on: all its own words, and, where the file was
\* longer, the old tail that the missing truncation leaves.
FinishedIsDurable ==
  finished => /\ disk = Overwritten(before, 0, session, 0, Len(claims[session]))
              /\ cache = disk

\* LogArray::parse: whatever the last word is, it is read as a control word and
\* must agree with the size.  Zeros are that of an empty array: one word.
ClaimOf(w) == IF w = Hole THEN 1 ELSE claims[w[1]][w[2]]
Accepted(c) == c # <<>> /\ ClaimOf(c[Len(c)]) = Len(c)

\* Every word of c is where a session so far has it.
InPlace(c) == \A i \in 1..Len(c) :
                \E s \in 1..session : i <= Len(claims[s]) /\ c[i] = Word(s, i)

WholeFile(s) == [i \in 1..Len(claims[s]) |-> Word(s, i)]

\* A data word that as the last of a prefix reads as the prefix's control word.
Misleading(s) == \E n \in 1..(Len(claims[s]) - 1) : claims[s][n] = n

\* What a map() returns while sessions write, or after one dropped its writer.
\* It is never short: size() and the reads are calls of their own, but a file
\* does not shrink in between, because open_write does not truncate.  Unless the
\* machine stopped, each of its words is one that some session wrote at that
\* place.  Of a file's first session parse accepts the whole, and a beginning
\* only when some data word of the caller's reads as its control word.
MapIsInPlace ==
  /\ mapper.step # "UnexpectedEof"
  /\ crashes = 0 => InPlace(mapper.got)
  /\ session = 1 /\ ~torn /\ mapper.step = "ok"
       => /\ mapper.got = WholeFile(1) => Accepted(mapper.got)
          /\ ~Misleading(1) /\ Accepted(mapper.got) => mapper.got = WholeFile(1)
=============================================================================
