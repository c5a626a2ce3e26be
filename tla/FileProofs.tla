----------------------------- MODULE FileProofs -----------------------------
(***************************************************************************)
(* Files as they are written and as they are read, and bundles of them.    *)
(*                                                                         *)
(* For any number of sessions and crashes, files of any length and buffers *)
(* of any capacity: a session whose sync_all returned is on disk, and a    *)
(* map() gets words that are in their place.                               *)
(*                                                                         *)
(* For every length of the tail and of the requests, and for all files:    *)
(* the withholding reader implements a plain reader of the file without    *)
(* its tail.                                                               *)
(*                                                                         *)
(* For any files, orders, versions and readers: both bundles of files in   *)
(* memory are registers that are atomic until something published is       *)
(* replaced, and copy_from is faithful.                                    *)
(***************************************************************************)
EXTENDS FileBackedStore, WithholdingReader, MemoryBundle, FiniteSetTheorems, TLAPS

USE SessionsAssumption, CapacityAssumption

-----------------------------------------------------------------------------
(* Writing over words: Overwritten where the file position and what the    *)
(* session has written agree.                                              *)

WordsWritten(s, c, n, k) ==
  [i \in 1..(IF Len(c) < n + k THEN n + k ELSE Len(c)) |->
     IF i \in (n+1)..(n+k) THEN Word(s, i) ELSE IF i <= Len(c) THEN c[i] ELSE Hole]

LEMMA OverwrittenIsWritten ==
  ASSUME NEW s, NEW c \in Seq(Cell), NEW n \in Nat, NEW k \in Nat
  PROVE  Overwritten(c, n, s, n, k) = WordsWritten(s, c, n, k)
<1>. DEFINE m == IF Len(c) < n + k THEN n + k ELSE Len(c)
            atOffset(i) == IF i \in (n+1)..(n+k) THEN Word(s, n + i - n)
                         ELSE IF i <= Len(c) THEN c[i] ELSE Hole
            word(i) == IF i \in (n+1)..(n+k) THEN Word(s, i)
                       ELSE IF i <= Len(c) THEN c[i] ELSE Hole
<1>1. ASSUME NEW i \in 1..m
      PROVE  atOffset(i) = word(i)
  <2>1. n + i - n = i
    OBVIOUS
  <2>. QED  BY <2>1
<1>2. Overwritten(c, n, s, n, k) = [i \in 1..m |-> atOffset(i)]
  BY DEF Overwritten
<1>3. WordsWritten(s, c, n, k) = [i \in 1..m |-> word(i)]
  BY DEF WordsWritten
<1>. HIDE DEF m, atOffset, word
<1>. QED  BY <1>1, <1>2, <1>3

LEMMA WordInCell ==
  ASSUME NEW s \in 1..Sessions, NEW i \in 1..MaxLen
  PROVE  Word(s, i) \in Cell
BY DEF Word, Cell

LEMMA HoleInCell == Hole \in Cell
BY DEF Cell

LEMMA WrittenWords ==
  ASSUME NEW s \in 1..Sessions, NEW c \in Seq(Cell), NEW n \in Nat, NEW k \in Nat,
         n + k <= MaxLen
  PROVE  /\ WordsWritten(s, c, n, k) \in Seq(Cell)
         /\ Len(WordsWritten(s, c, n, k)) = IF Len(c) < n + k THEN n + k ELSE Len(c)
         /\ \A i \in 1..Len(WordsWritten(s, c, n, k)) :
              WordsWritten(s, c, n, k)[i] = IF i \in (n+1)..(n+k) THEN Word(s, i)
                                       ELSE IF i <= Len(c) THEN c[i] ELSE Hole
<1>. DEFINE m == IF Len(c) < n + k THEN n + k ELSE Len(c)
            word(i) == IF i \in (n+1)..(n+k) THEN Word(s, i)
                       ELSE IF i <= Len(c) THEN c[i] ELSE Hole
<1>1. m \in Nat
  OBVIOUS
<1>2. ASSUME NEW i \in 1..m
      PROVE  word(i) \in Cell
  <2>1. i \in (n+1)..(n+k) => Word(s, i) \in Cell
    BY WordInCell
  <2>2. i <= Len(c) => c[i] \in Cell
    OBVIOUS
  <2>. QED  BY <2>1, <2>2, HoleInCell
<1>3. WordsWritten(s, c, n, k) = [i \in 1..m |-> word(i)]
  BY DEF WordsWritten
<1>. HIDE DEF m, word
<1>4. [i \in 1..m |-> word(i)] \in Seq(Cell) /\ Len([i \in 1..m |-> word(i)]) = m
  BY <1>1, <1>2
<1>5. \A i \in 1..m : [j \in 1..m |-> word(j)][i] = word(i)
  OBVIOUS
<1>. QED  BY <1>3, <1>4, <1>5 DEF m, word

\* Nothing written over words leaves them.
LEMMA NothingWritten ==
  ASSUME NEW s \in 1..Sessions, NEW c \in Seq(Cell)
  PROVE  WordsWritten(s, c, 0, 0) = c
<1>. DEFINE d == WordsWritten(s, c, 0, 0)
<1>1. d \in Seq(Cell) /\ Len(d) = Len(c) /\ \A i \in 1..Len(c) : d[i] = c[i]
  BY WrittenWords
<1>. QED  BY <1>1

\* Words written to an empty file are all there is in it.
LEMMA WrittenOnNothing ==
  ASSUME NEW s, NEW k \in Nat
  PROVE  /\ Len(WordsWritten(s, <<>>, 0, k)) = k
         /\ \A i \in 1..k : WordsWritten(s, <<>>, 0, k)[i] = Word(s, i)
<1>1. <<>> \in Seq(Cell) /\ Len(<<>>) = 0 /\ 0 + k = k /\ 0 + 1 = 1
  OBVIOUS
<1>2. WordsWritten(s, <<>>, 0, k) = [i \in 1..k |-> Word(s, i)]
  BY <1>1 DEF WordsWritten
<1>. QED  BY <1>2

\* Words written from the front.
LEMMA WrittenInFront ==
  ASSUME NEW s \in 1..Sessions, NEW c \in Seq(Cell), NEW k \in Nat, k <= MaxLen
  PROVE  /\ WordsWritten(s, c, 0, k) \in Seq(Cell)
         /\ Len(WordsWritten(s, c, 0, k)) = IF Len(c) < k THEN k ELSE Len(c)
         /\ \A i \in 1..Len(WordsWritten(s, c, 0, k)) :
              WordsWritten(s, c, 0, k)[i] = IF i \in 1..k THEN Word(s, i)
                                       ELSE IF i <= Len(c) THEN c[i] ELSE Hole
<1>1. 0 \in Nat /\ 0 + 1 = 1 /\ 0 + k = k
  OBVIOUS
<1>. DEFINE d == WordsWritten(s, c, 0, k)
<1>2. /\ d \in Seq(Cell) /\ Len(d) = IF Len(c) < 0 + k THEN 0 + k ELSE Len(c)
      /\ \A i \in 1..Len(d) : d[i] = IF i \in (0+1)..(0+k) THEN Word(s, i)
                                     ELSE IF i <= Len(c) THEN c[i] ELSE Hole
  <2>1. 0 + k <= MaxLen
    BY <1>1
  <2>. QED  BY <1>1, <2>1, WrittenWords
<1>. HIDE DEF d
<1>. QED  BY <1>1, <1>2 DEF d

\* Writing goes on where it stopped.
LEMMA WrittenFurther ==
  ASSUME NEW s \in 1..Sessions, NEW c \in Seq(Cell), NEW m \in Nat, NEW k \in Nat,
         m + k <= MaxLen
  PROVE  WordsWritten(s, WordsWritten(s, c, 0, m), m, k) = WordsWritten(s, c, 0, m + k)
<1>. DEFINE d == WordsWritten(s, c, 0, m)
            e == WordsWritten(s, d, m, k)
            f == WordsWritten(s, c, 0, m + k)
<1>1. /\ d \in Seq(Cell) /\ Len(d) = IF Len(c) < m THEN m ELSE Len(c)
      /\ \A i \in 1..Len(d) : d[i] = IF i \in 1..m THEN Word(s, i)
                                     ELSE IF i <= Len(c) THEN c[i] ELSE Hole
  <2>1. m <= MaxLen
    OBVIOUS
  <2>. QED  BY <2>1, WrittenInFront
<1>2. /\ f \in Seq(Cell) /\ Len(f) = IF Len(c) < m + k THEN m + k ELSE Len(c)
      /\ \A i \in 1..Len(f) : f[i] = IF i \in 1..(m + k) THEN Word(s, i)
                                     ELSE IF i <= Len(c) THEN c[i] ELSE Hole
  <2>1. m + k \in Nat
    OBVIOUS
  <2>. QED  BY <2>1, WrittenInFront
<1>. HIDE DEF d, f
<1>3. /\ e \in Seq(Cell) /\ Len(e) = IF Len(d) < m + k THEN m + k ELSE Len(d)
      /\ \A i \in 1..Len(e) : e[i] = IF i \in (m+1)..(m+k) THEN Word(s, i)
                                     ELSE IF i <= Len(d) THEN d[i] ELSE Hole
  BY <1>1, WrittenWords
<1>. HIDE DEF e
<1>4. Len(e) = Len(f)
  BY <1>1, <1>2, <1>3
<1>5. ASSUME NEW i \in 1..Len(e)
      PROVE  e[i] = f[i]
  BY <1>1, <1>2, <1>3, <1>4
<1>6. e = f
  <2>1. e \in Seq(Cell) /\ f \in Seq(Cell)
    BY <1>2, <1>3
  <2>. QED  BY <2>1, <1>4, <1>5
<1>. QED  BY <1>6 DEF d, e, f

-----------------------------------------------------------------------------
(* The inductive invariant.                                                *)

\* A session has at least its control word, which claims the session's length.
ClaimsAre ==
  \A s \in 1..session : /\ Len(claims[s]) \in 1..MaxLen
                        /\ claims[s][Len(claims[s])] = Len(claims[s])

\* What a session that goes on has written so far is what it opened on with
\* its words in front; when it has finished these are all, and synced.
WritesOver ==
  /\ session # 0 => given <= Len(claims[session])
  /\ phase # "closed" => /\ session # 0 /\ ~finished /\ ~torn
                         /\ cache = WordsWritten(session, before, 0, given - pending)
  /\ phase = "flushing" => given = Len(claims[session])

\* The file has never more words than the longest session, and never fewer
\* than a crash must leave or a map() that is under way has asked for.
Grows ==
  /\ Len(cache) <= MaxLen /\ Len(before) <= MaxLen
  /\ Len(disk) <= Len(cache)
  /\ mapper.step # "UnexpectedEof"
  /\ mapper.step = "sized" => Len(mapper.got) < mapper.size /\ mapper.size <= Len(cache)

OnlyFirst(c) == Len(c) <= Len(claims[1]) /\ \A i \in 1..Len(c) : c[i] = Word(1, i)

\* Until a crash cuts the first session short the file has only its words.
FirstSession ==
  /\ session = 0 => cache = <<>> /\ disk = <<>> /\ mapper.got = <<>> /\ ~finished
  /\ session = 1 => before = <<>>
  /\ session = 1 /\ ~torn => OnlyFirst(cache) /\ OnlyFirst(mapper.got)

\* Without a crash no session leaves a hole, or a word that is none of its own.
Placed == crashes = 0 => InPlace(cache) /\ InPlace(mapper.got)

\* FinishedIsDurable, of the words written.
OnDisk == finished => /\ disk = WordsWritten(session, before, 0, Len(claims[session]))
                      /\ cache = disk

IInv == TypeOK /\ ClaimsAre /\ WritesOver /\ Grows /\ FirstSession /\ Placed /\ OnDisk

LEMMA InitInvariant ==
  ASSUME Init
  PROVE  IInv
<1>1. /\ <<>> \in Seq(Cell) /\ Len(<<>>) = 0 /\ 0 \in 0..Sessions /\ 0 \in 0..MaxLen
      /\ 0 \in 0..Capacity /\ 0 \in 0..MaxCrash /\ <<>> \in Seq(0..MaxLen)
  OBVIOUS
<1>2. /\ mapper.step = "idle" /\ mapper.got = <<>>
      /\ mapper \in [step : {"idle", "sized", "ok", "NotFound", "UnexpectedEof"},
                     size : 0..MaxLen, got : Seq(Cell)]
  BY <1>1 DEF Init, Idle
<1>3. TypeOK
  <2>1. claims \in [1..Sessions -> Seq(0..MaxLen)]
    BY <1>1 DEF Init
  <2>2. cache = <<>> /\ disk = <<>> /\ before = <<>> /\ session = 0 /\ crashes = 0
    BY DEF Init
  <2>3. /\ cache \in Seq(Cell) /\ disk \in Seq(Cell) /\ before \in Seq(Cell)
        /\ session \in 0..Sessions /\ crashes \in 0..MaxCrash
    BY <1>1, <2>2
  <2>4. given \in 0..MaxLen /\ pending \in 0..Capacity /\ pending <= given
    BY <1>1 DEF Init
  <2>. QED  BY <1>2, <2>1, <2>3, <2>4 DEF Init, TypeOK
<1>4. WritesOver /\ OnDisk /\ ClaimsAre
  BY DEF Init, WritesOver, OnDisk, ClaimsAre
<1>5. Grows
  BY <1>1, <1>2 DEF Init, Grows
<1>6. FirstSession
  BY <1>2 DEF Init, FirstSession
<1>7. Placed
  BY <1>1, <1>2 DEF Init, Placed, InPlace
<1>. QED  BY <1>3, <1>4, <1>5, <1>6, <1>7 DEF IInv

\* A file that only grows keeps what a map() under way relies on.
LEMMA OpenWriteKeeps ==
  ASSUME IInv, OpenWrite
  PROVE  IInv'
<1>1. cache' = cache /\ disk' = disk /\ mapper' = mapper /\ before' = cache
  BY DEF OpenWrite, Opened
<1>2. /\ session' = session + 1 /\ session' # 0 /\ session' \in 1..Sessions
      /\ session \in 0..Sessions /\ session' \in 0..Sessions
  BY DEF OpenWrite, IInv, TypeOK
<1>3. /\ phase' = "writing" /\ given' = 0 /\ pending' = 0 /\ given' - pending' = 0
      /\ finished' = FALSE /\ torn' = FALSE /\ exists' = TRUE /\ crashes' = crashes
  BY DEF OpenWrite
<1>0. PICK n \in 1..MaxLen : \E c \in [1..n -> 0..MaxLen] :
        c[n] = n /\ claims' = [claims EXCEPT ![session'] = c]
  BY <1>2 DEF OpenWrite
<1>4. PICK c \in [1..n -> 0..MaxLen] :
        c[n] = n /\ claims' = [claims EXCEPT ![session'] = c]
  BY <1>0
<1>5. /\ c \in Seq(0..MaxLen) /\ Len(c) = n /\ claims'[session'] = c
      /\ claims' \in [1..Sessions -> Seq(0..MaxLen)]
      /\ \A s \in 1..session : claims'[s] = claims[s]
  <2>1. c \in Seq(0..MaxLen) /\ Len(c) = n
    BY <1>4
  <2>2. claims \in [1..Sessions -> Seq(0..MaxLen)]
    BY DEF IInv, TypeOK
  <2>3. claims'[session'] = c /\ claims' \in [1..Sessions -> Seq(0..MaxLen)]
    BY <1>2, <1>4, <2>1, <2>2
  <2>4. ASSUME NEW s \in 1..session
        PROVE  claims'[s] = claims[s]
    <3>1. s \in 1..Sessions /\ s # session'
      BY <1>2
    <3>. QED  BY <1>4, <2>2, <3>1
  <2>. QED  BY <2>1, <2>3, <2>4
<1>6. TypeOK'
  <2>1. /\ before' \in Seq(Cell) /\ cache' \in Seq(Cell) /\ disk' \in Seq(Cell)
        /\ crashes' \in 0..MaxCrash /\ exists' \in BOOLEAN
        /\ mapper' \in [step : {"idle", "sized", "ok", "NotFound", "UnexpectedEof"},
                         size : 0..MaxLen, got : Seq(Cell)]
    BY <1>1, <1>3 DEF IInv, TypeOK
  <2>2. given' \in 0..MaxLen /\ pending' \in 0..Capacity /\ pending' <= given'
    BY <1>3
  <2>. QED  BY <1>2, <1>3, <1>5, <2>1, <2>2 DEF TypeOK
<1>7. ClaimsAre'
  <2>1. ASSUME NEW s \in 1..session'
        PROVE  /\ Len(claims'[s]) \in 1..MaxLen
               /\ claims'[s][Len(claims'[s])] = Len(claims'[s])
    <3>1. CASE s = session'
      BY <1>4, <1>5, <3>1
    <3>2. CASE s \in 1..session
      BY <1>5, <3>2 DEF IInv, ClaimsAre
    <3>. QED  BY <1>2, <3>1, <3>2
  <2>. QED  BY <2>1 DEF ClaimsAre
<1>8. WritesOver'
  <2>1. WordsWritten(session', before', 0, 0) = cache'
    BY <1>1, <1>2, NothingWritten DEF IInv, TypeOK
  <2>2. given' <= Len(claims'[session'])
    BY <1>3, <1>4, <1>5
  <2>. QED  BY <1>2, <1>3, <2>1, <2>2 DEF WritesOver
<1>9. Grows'
  BY <1>1 DEF IInv, Grows
<1>10. FirstSession'
  <2>1. session' = 1 => cache' = <<>> /\ before' = <<>> /\ mapper'.got = <<>>
    BY <1>1, <1>2 DEF IInv, FirstSession
  <2>2. session' = 1 => Len(<<>>) <= Len(claims'[1]) /\ Len(<<>>) = 0
    BY <1>4, <1>5
  <2>. QED  BY <1>2, <2>1, <2>2 DEF FirstSession, OnlyFirst
<1>11. Placed'
  <2>1. ASSUME NEW d, InPlace(d)
        PROVE  \A i \in 1..Len(d) :
                 \E s \in 1..session' : i <= Len(claims'[s]) /\ d[i] = Word(s, i)
    <3>1. \A s \in 1..session : s \in 1..session' /\ claims'[s] = claims[s]
      BY <1>2, <1>5
    <3>. QED  BY <2>1, <3>1 DEF InPlace
  <2>2. ASSUME crashes' = 0
        PROVE  InPlace(cache) /\ InPlace(mapper.got)
    BY <1>3, <2>2 DEF IInv, Placed
  <2>3. ASSUME crashes' = 0
        PROVE  InPlace(cache)' /\ InPlace(mapper.got)'
    <3>1. \A i \in 1..Len(cache) :
            \E s \in 1..session' : i <= Len(claims'[s]) /\ cache[i] = Word(s, i)
      BY <2>1, <2>2, <2>3
    <3>2. \A i \in 1..Len(mapper.got) :
            \E s \in 1..session' : i <= Len(claims'[s]) /\ mapper.got[i] = Word(s, i)
      BY <2>1, <2>2, <2>3
    <3>. QED  BY <1>1, <3>1, <3>2 DEF InPlace
  <2>. QED  BY <2>3 DEF Placed
<1>. QED  BY <1>3, <1>6, <1>7, <1>8, <1>9, <1>10, <1>11 DEF IInv, OnDisk

LEMMA FlushBufKeeps ==
  ASSUME IInv, FlushBuf
  PROVE  IInv'
<1>. DEFINE m == given - pending
<1>1. /\ exists' = exists /\ disk' = disk /\ session' = session /\ claims' = claims
      /\ given' = given /\ mapper' = mapper /\ crashes' = crashes
      /\ before' = before /\ finished' = finished /\ torn' = torn
  BY DEF FlushBuf, history
<1>2. /\ phase \in {"spilling", "flushing", "dropping"} /\ session # 0
      /\ session \in 1..Sessions
      /\ cache = WordsWritten(session, before, 0, m) /\ ~finished /\ ~torn
      /\ m \in Nat /\ cache \in Seq(Cell) /\ before \in Seq(Cell)
      /\ given \in 0..MaxLen /\ pending \in 0..Capacity
  BY DEF FlushBuf, IInv, TypeOK, WritesOver
<1>3. PICK k \in 1..pending :
        /\ cache' = WordsWritten(session, cache, m, k)
        /\ pending' = pending - k
        /\ phase' = IF phase = "spilling" /\ k = pending THEN "writing" ELSE phase
  <2>1. \A k \in 1..pending : k \in Nat
    OBVIOUS
  <2>. QED  BY <1>2, <2>1, OverwrittenIsWritten DEF FlushBuf, FlushOffset
<1>4. /\ k \in Nat /\ m + k = given' - pending' /\ m + k <= MaxLen
      /\ m + k <= Len(claims[session]) /\ session \in 1..session
  BY <1>1, <1>2, <1>3 DEF IInv, WritesOver, TypeOK
<1>5. m <= Len(cache)
  <2>1. /\ 0 \in Nat /\ 0 + m <= MaxLen /\ 0 + m = m
    BY <1>2, <1>4
  <2>2. Len(cache) = IF Len(before) < 0 + m THEN 0 + m ELSE Len(before)
    BY <1>2, <2>1, WrittenWords
  <2>. QED  BY <1>2, <2>1, <2>2
<1>. HIDE DEF m
<1>6. cache' = WordsWritten(session, before, 0, m + k)
  BY <1>2, <1>3, <1>4, WrittenFurther
<1>7. /\ cache' \in Seq(Cell)
      /\ Len(cache') = IF Len(cache) < m + k THEN m + k ELSE Len(cache)
      /\ \A i \in 1..Len(cache') :
           cache'[i] = IF i \in (m+1)..(m+k) THEN Word(session, i)
                       ELSE IF i <= Len(cache) THEN cache[i] ELSE Hole
  BY <1>2, <1>3, <1>4, WrittenWords
<1>8. Len(cache) <= Len(cache') /\ Len(cache') <= MaxLen
  BY <1>2, <1>4, <1>7 DEF IInv, Grows
<1>9. TypeOK' /\ ClaimsAre'
  BY <1>1, <1>3, <1>7 DEF IInv, TypeOK, ClaimsAre
<1>10. WritesOver'
  BY <1>1, <1>2, <1>3, <1>4, <1>6 DEF IInv, WritesOver
<1>11. Grows'
  BY <1>1, <1>2, <1>8 DEF IInv, TypeOK, Grows
<1>12. FirstSession'
  <2>1. ASSUME session = 1
        PROVE  OnlyFirst(cache')
    <3>1. before = <<>> /\ m + k \in Nat
      BY <1>2, <1>4, <2>1 DEF IInv, FirstSession
    <3>2. Len(cache') = m + k /\ \A i \in 1..(m + k) : cache'[i] = Word(1, i)
      BY <1>6, <2>1, <3>1, WrittenOnNothing
    <3>. QED  BY <1>4, <2>1, <3>2 DEF OnlyFirst
  <2>. QED  BY <1>1, <1>2, <2>1 DEF IInv, FirstSession, OnlyFirst
<1>13. Placed'
  <2>1. ASSUME InPlace(cache)
        PROVE  InPlace(cache')
    <3>1. ASSUME NEW i \in 1..Len(cache')
          PROVE  \E s \in 1..session : i <= Len(claims[s]) /\ cache'[i] = Word(s, i)
      <4>1. CASE i \in (m+1)..(m+k)
        <5>1. cache'[i] = Word(session, i) /\ i <= Len(claims[session])
          <6>1. cache'[i] = Word(session, i)
            BY <1>7, <4>1
          <6>2. i \in Nat /\ i <= m + k /\ m + k \in Nat
            BY <1>2, <1>4, <4>1
          <6>. QED  BY <1>4, <6>1, <6>2 DEF IInv, ClaimsAre
        <5>. QED  BY <1>4, <5>1
      <4>2. CASE i \notin (m+1)..(m+k)
        <5>1. i \in 1..Len(cache)
          BY <1>2, <1>4, <1>5, <1>7, <4>2
        <5>2. cache'[i] = cache[i]
          BY <1>7, <4>2, <5>1
        <5>. QED  BY <2>1, <5>1, <5>2 DEF InPlace
      <4>. QED  BY <4>1, <4>2
    <3>. QED  BY <3>1 DEF InPlace
  <2>. QED  BY <1>1, <2>1 DEF IInv, Placed, InPlace
<1>. QED  BY <1>1, <1>2, <1>9, <1>10, <1>11, <1>12, <1>13 DEF IInv, OnDisk

LEMMA SyncAllKeeps ==
  ASSUME IInv, SyncAll
  PROVE  IInv'
<1>1. /\ phase = "flushing" /\ pending = 0 /\ disk' = cache /\ phase' = "closed"
      /\ pending' = 0 /\ finished' = TRUE
      /\ UNCHANGED <<exists, cache, session, claims, given, mapper, crashes, before, torn>>
  BY DEF SyncAll, MaySync
<1>2. cache = WordsWritten(session, before, 0, Len(claims[session])) /\ session # 0
  BY <1>1 DEF IInv, TypeOK, WritesOver
<1>3. TypeOK' /\ ClaimsAre'
  BY <1>1 DEF IInv, TypeOK, ClaimsAre
<1>4. WritesOver' /\ OnDisk' /\ Grows'
  BY <1>1, <1>2 DEF IInv, TypeOK, WritesOver, Grows, OnDisk
<1>5. FirstSession' /\ Placed'
  BY <1>1, <1>2 DEF IInv, FirstSession, OnlyFirst, Placed, InPlace
<1>. QED  BY <1>3, <1>4, <1>5 DEF IInv

\* Every word of a crash's file is one it had, or a hole; what is synced stays.
LEMMA CrashKeeps ==
  ASSUME IInv, Crash
  PROVE  IInv'
<1>0. PICK n \in Len(disk)..Len(cache) : \E keep \in [1..n -> BOOLEAN] :
        LET c == [i \in 1..n |-> IF keep[i] THEN cache[i]
                                 ELSE IF i <= Len(disk) THEN disk[i] ELSE Hole]
        IN  cache' = c /\ disk' = c
  BY DEF Crash
<1>1. PICK keep \in [1..n -> BOOLEAN] :
        LET c == [i \in 1..n |-> IF keep[i] THEN cache[i]
                                 ELSE IF i <= Len(disk) THEN disk[i] ELSE Hole]
        IN  cache' = c /\ disk' = c
  BY <1>0
<1>2. /\ phase' = "closed" /\ pending' = 0 /\ torn' = (torn \/ ~finished)
      /\ mapper' = Idle /\ exists' \in {exists, disk # <<>>} /\ crashes' = crashes + 1
      /\ crashes < MaxCrash
      /\ UNCHANGED <<session, claims, given, before, finished>>
  BY DEF Crash
<1>3. /\ n \in Nat /\ cache \in Seq(Cell) /\ disk \in Seq(Cell) /\ n <= Len(cache)
      /\ Len(cache) <= MaxLen
  BY DEF IInv, TypeOK, Grows
<1>4. /\ cache' \in Seq(Cell) /\ Len(cache') = n /\ disk' = cache'
      /\ \A i \in 1..n : cache'[i] = IF keep[i] THEN cache[i]
                                     ELSE IF i <= Len(disk) THEN disk[i] ELSE Hole
  <2>. DEFINE word(i) == IF keep[i] THEN cache[i]
                       ELSE IF i <= Len(disk) THEN disk[i] ELSE Hole
  <2>1. ASSUME NEW i \in 1..n PROVE word(i) \in Cell
    <3>1. cache[i] \in Cell /\ Hole \in Cell
      BY <1>3, HoleInCell
    <3>2. i <= Len(disk) => disk[i] \in Cell
      BY <1>3
    <3>. QED  BY <3>1, <3>2
  <2>2. cache' = [i \in 1..n |-> word(i)] /\ disk' = cache'
    BY <1>1
  <2>. HIDE DEF word
  <2>3. cache' \in Seq(Cell) /\ Len(cache') = n /\ \A i \in 1..n : cache'[i] = word(i)
    BY <1>3, <2>1, <2>2
  <2>. QED  BY <2>2, <2>3 DEF word
<1>5. /\ mapper'.step = "idle" /\ mapper'.got = <<>> /\ mapper'.size = 0
      /\ mapper' \in [step : {"idle", "sized", "ok", "NotFound", "UnexpectedEof"},
                      size : 0..MaxLen, got : Seq(Cell)]
  BY <1>2 DEF Idle
<1>6. TypeOK'
  <2>1. exists' \in BOOLEAN /\ torn' \in BOOLEAN
    BY <1>2 DEF IInv, TypeOK
  <2>2. crashes' \in 0..MaxCrash
    BY <1>2 DEF IInv, TypeOK
  <2>. QED  BY <1>2, <1>4, <1>5, <2>1, <2>2 DEF IInv, TypeOK
<1>7. WritesOver' /\ ClaimsAre'
  BY <1>2 DEF IInv, WritesOver, ClaimsAre
<1>8. Grows'
  BY <1>2, <1>3, <1>4, <1>5 DEF IInv, Grows
<1>9. ASSUME finished
      PROVE  cache' = cache /\ disk = cache
  <2>1. disk = cache
    BY <1>9 DEF IInv, OnDisk
  <2>2. n = Len(cache) /\ \A i \in 1..n : cache'[i] = cache[i]
    BY <1>3, <1>4, <2>1
  <2>. QED  BY <1>3, <1>4, <2>1, <2>2
<1>10. FirstSession'
  <2>1. ASSUME session = 0
        PROVE  cache' = <<>>
    BY <1>3, <1>4, <2>1 DEF IInv, FirstSession
  <2>2. session = 1 /\ ~torn' => OnlyFirst(cache') /\ OnlyFirst(mapper'.got)
    <3>1. session = 1 /\ ~torn' => OnlyFirst(cache')
      BY <1>2, <1>9 DEF IInv, FirstSession
    <3>2. session = 1 => 0 <= Len(claims[1]) /\ Len(<<>>) = 0
      BY DEF IInv, ClaimsAre
    <3>. QED  BY <1>5, <3>1, <3>2 DEF OnlyFirst
  <2>. QED  BY <1>2, <1>4, <1>5, <2>1, <2>2 DEF IInv, FirstSession, OnlyFirst
<1>11. OnDisk'
  BY <1>2, <1>4, <1>9 DEF IInv, OnDisk
<1>12. Placed'
  <2>1. crashes' # 0
    BY <1>2 DEF IInv, TypeOK
  <2>. QED  BY <2>1 DEF Placed
<1>. QED  BY <1>6, <1>7, <1>8, <1>10, <1>11, <1>12 DEF IInv

\* What a read adds to the words read so far.
ReadOn(c, d, k) == d \o SubSeq(c, Len(d) + 1, k)

LEMMA ReadFurther ==
  ASSUME NEW c \in Seq(Cell), NEW d \in Seq(Cell), NEW k \in Nat, Len(d) < k, k <= Len(c)
  PROVE  /\ ReadOn(c, d, k) \in Seq(Cell) /\ Len(ReadOn(c, d, k)) = k
         /\ \A i \in 1..k : ReadOn(c, d, k)[i] = IF i <= Len(d) THEN d[i] ELSE c[i]
<1>. DEFINE n == Len(d)
            rest == SubSeq(c, n + 1, k)
<1>1. n \in Nat /\ k \in Nat /\ n < k /\ k <= Len(c)
  OBVIOUS
<1>2. rest \in Seq(Cell) /\ Len(rest) = k - n /\ \A i \in 1..(k - n) : rest[i] = c[n + i]
  <2>1. rest \in Seq(Cell) /\ Len(rest) = k - n
    BY <1>1
  <2>2. ASSUME NEW i \in 1..(k - n)
        PROVE  rest[i] = c[n + i]
    <3>1. i \in 1..Len(rest) /\ (n + 1) + i - 1 = n + i
      BY <1>1, <2>1
    <3>. QED  BY <1>1, <3>1
  <2>. QED  BY <2>1, <2>2
<1>. HIDE DEF rest
<1>3. d \o rest \in Seq(Cell) /\ Len(d \o rest) = k
  <2>1. rest \in Seq(Cell) /\ Len(rest) = k - n
    BY <1>2
  <2>2. d \o rest \in Seq(Cell) /\ Len(d \o rest) = n + Len(rest)
    BY <2>1
  <2>. QED  BY <1>1, <2>1, <2>2
<1>4. ASSUME NEW i \in 1..k
      PROVE  (d \o rest)[i] = IF i <= n THEN d[i] ELSE c[i]
  <2>1. CASE i <= n
    BY <1>1, <1>2, <2>1
  <2>2. CASE ~(i <= n)
    <3>1. i - n \in 1..(k - n) /\ n + (i - n) = i
      BY <1>1, <2>2
    <3>2. rest[i - n] = c[i]
      BY <1>2, <3>1
    <3>3. (d \o rest)[i] = rest[i - n]
      BY <1>1, <1>2, <2>2
    <3>. QED  BY <2>2, <3>2, <3>3
  <2>. QED  BY <2>1, <2>2
<1>5. ReadOn(c, d, k) = d \o rest
  BY DEF ReadOn, rest
<1>. QED  BY <1>3, <1>4, <1>5

\* A map() touches nothing but itself.
LEMMA MapKeeps ==
  ASSUME IInv, MapSize \/ MapRead
  PROVE  IInv'
<1>1. UNCHANGED <<exists, cache, disk, writer, crashes, history>>
  BY DEF MapSize, MapRead
<1>2. /\ mapper' \in [step : {"idle", "sized", "ok", "NotFound", "UnexpectedEof"},
                      size : 0..MaxLen, got : Seq(Cell)]
      /\ mapper'.step # "UnexpectedEof"
      /\ mapper'.step = "sized" => /\ Len(mapper'.got) < mapper'.size
                                   /\ mapper'.size <= Len(cache)
      /\ \/ mapper'.got = <<>>
         \/ /\ Len(mapper'.got) <= Len(cache)
            /\ \A i \in 1..Len(mapper'.got) :
                 mapper'.got[i] = IF i <= Len(mapper.got) THEN mapper.got[i] ELSE cache[i]
  <2>1. CASE MapSize
    <3>1. Len(cache) \in 0..MaxLen /\ <<>> \in Seq(Cell) /\ Len(<<>>) = 0
      BY DEF IInv, TypeOK, Grows
    <3>2. PICK step \in {"sized", "ok", "NotFound"}, size \in {0, Len(cache)} :
            /\ mapper' = [step |-> step, size |-> size, got |-> <<>>]
            /\ step = "sized" => size # 0
      BY <2>1, <3>1 DEF MapSize, Idle
    <3>3. size \in 0..MaxLen /\ size <= Len(cache)
      BY <3>1, <3>2
    <3>. QED  BY <3>1, <3>2, <3>3
  <2>2. CASE MapRead
    <3>1. /\ mapper.step = "sized" /\ Len(mapper.got) < mapper.size
          /\ mapper.size <= Len(cache)
      BY <2>2 DEF MapRead, IInv, Grows
    <3>2. mapper.size \in 0..MaxLen /\ cache \in Seq(Cell) /\ mapper.got \in Seq(Cell)
      BY DEF IInv, TypeOK
    <3>3. ~(Len(cache) <= Len(mapper.got))
      BY <3>1, <3>2
    <3>4. PICK k \in (Len(mapper.got) + 1)..mapper.size :
            mapper' = [mapper EXCEPT
                         !.step = IF k = mapper.size THEN "ok" ELSE "sized",
                         !.got = ReadOn(cache, mapper.got, k)]
      BY <2>2, <3>3 DEF MapRead, ReadOn
    <3>. DEFINE read == ReadOn(cache, mapper.got, k)
    <3>5. /\ read \in Seq(Cell) /\ Len(read) = k
          /\ \A i \in 1..k : read[i] = IF i <= Len(mapper.got) THEN mapper.got[i]
                                       ELSE cache[i]
      <4>1. k \in Nat /\ Len(mapper.got) < k /\ k <= Len(cache)
        BY <3>1, <3>2
      <4>. QED  BY <3>2, <4>1, ReadFurther
    <3>. HIDE DEF read
    <3>6. /\ mapper'.step = IF k = mapper.size THEN "ok" ELSE "sized"
          /\ mapper'.size = mapper.size /\ mapper'.got = read
          /\ mapper' \in [step : {"idle", "sized", "ok", "NotFound", "UnexpectedEof"},
                          size : 0..MaxLen, got : Seq(Cell)]
      BY <3>4, <3>5 DEF IInv, TypeOK, read
    <3>7. k \in Nat /\ k <= mapper.size /\ k <= Len(cache)
      BY <3>1, <3>2
    <3>. QED  BY <3>1, <3>2, <3>5, <3>6, <3>7
  <2>. QED  BY <2>1, <2>2
<1>3. /\ cache \in Seq(Cell) /\ mapper.got \in Seq(Cell) /\ mapper'.got \in Seq(Cell)
      /\ session' = session /\ torn' = torn /\ before' = before /\ finished' = finished
      /\ claims' = claims /\ cache' = cache /\ disk' = disk /\ crashes' = crashes
  BY <1>1, <1>2 DEF writer, history, IInv, TypeOK
<1>4. TypeOK'
  BY <1>1, <1>2 DEF writer, history, IInv, TypeOK
<1>5. WritesOver' /\ OnDisk' /\ ClaimsAre'
  BY <1>1 DEF writer, history, IInv, WritesOver, OnDisk, ClaimsAre
<1>6. Grows'
  BY <1>1, <1>2 DEF history, IInv, Grows
<1>7. FirstSession'
  <2>1. ASSUME session = 1, OnlyFirst(cache), OnlyFirst(mapper.got)
        PROVE  OnlyFirst(mapper'.got)
    <3>1. CASE mapper'.got = <<>>
      <4>1. Len(mapper'.got) = 0 /\ 0 <= Len(claims[1])
        BY <2>1, <3>1 DEF IInv, ClaimsAre
      <4>. QED  BY <4>1 DEF OnlyFirst
    <3>2. CASE mapper'.got # <<>>
      <4>1. Len(mapper'.got) <= Len(claims[1])
        BY <1>2, <1>3, <2>1, <3>2 DEF OnlyFirst, IInv, ClaimsAre
      <4>2. ASSUME NEW i \in 1..Len(mapper'.got)
            PROVE  mapper'.got[i] = Word(1, i)
        BY <1>2, <1>3, <2>1, <3>2 DEF OnlyFirst
      <4>. QED  BY <4>1, <4>2 DEF OnlyFirst
    <3>. QED  BY <3>1, <3>2
  <2>2. ASSUME cache = <<>>
        PROVE  mapper'.got = <<>>
    BY <1>2, <1>3, <2>2
  <2>. QED  BY <1>3, <2>1, <2>2 DEF IInv, FirstSession, OnlyFirst
<1>8. Placed'
  <2>1. ASSUME InPlace(cache), InPlace(mapper.got)
        PROVE  InPlace(mapper'.got)
    <3>1. ASSUME NEW i \in 1..Len(mapper'.got)
          PROVE  \/ i \in 1..Len(cache) /\ mapper'.got[i] = cache[i]
                 \/ i \in 1..Len(mapper.got) /\ mapper'.got[i] = mapper.got[i]
      BY <1>2, <1>3
    <3>. QED  BY <2>1, <3>1 DEF InPlace
  <2>. QED  BY <1>3, <2>1 DEF IInv, Placed, InPlace
<1>. QED  BY <1>4, <1>5, <1>6, <1>7, <1>8 DEF IInv

\* Steps of the writer that leave the file alone.
LEMMA QuietKeeps ==
  ASSUME IInv, WriteWord \/ Spill \/ Flush \/ Drop \/ Dropped
  PROVE  IInv'
<1>1. UNCHANGED <<exists, cache, disk, session, claims, mapper, crashes, history>>
  BY DEF WriteWord, Spill, Flush, Drop, Dropped
<1>2. /\ given \in 0..MaxLen /\ pending \in 0..Capacity /\ pending <= given
      /\ phase # "closed" /\ session # 0 /\ given <= Len(claims[session])
      /\ Len(claims[session]) \in 0..MaxLen
  BY DEF WriteWord, Spill, Flush, Drop, Dropped, IInv, TypeOK, ClaimsAre, WritesOver
<1>3. /\ given' \in 0..MaxLen /\ pending' \in 0..Capacity /\ pending' <= given'
      /\ phase' \in {"closed", "writing", "spilling", "flushing", "dropping"}
      /\ phase' # "closed" => given' - pending' = given - pending
      /\ given' <= Len(claims[session])
      /\ phase' = "flushing" => given' = Len(claims[session])
  <2>1. CASE WriteWord
    BY <1>2, <2>1 DEF WriteWord, HasRoom
  <2>2. CASE Spill
    BY <1>2, <2>2 DEF Spill
  <2>3. CASE Flush
    BY <1>2, <2>3 DEF Flush
  <2>4. CASE Drop
    BY <1>2, <2>4 DEF Drop
  <2>5. CASE Dropped
    BY <1>2, <2>5 DEF Dropped
  <2>. QED  BY <2>1, <2>2, <2>3, <2>4, <2>5
<1>4. TypeOK'
  BY <1>1, <1>3 DEF history, IInv, TypeOK
<1>5. WritesOver' /\ OnDisk'
  BY <1>1, <1>2, <1>3 DEF history, IInv, WritesOver, OnDisk
<1>6. Grows' /\ ClaimsAre'
  BY <1>1 DEF history, IInv, Grows, ClaimsAre
<1>7. FirstSession' /\ Placed'
  BY <1>1 DEF history, IInv, FirstSession, OnlyFirst, Placed, InPlace
<1>. QED  BY <1>4, <1>5, <1>6, <1>7 DEF IInv

LEMMA StepInvariant ==
  ASSUME IInv, [Next]_vars
  PROVE  IInv'
<1>1. CASE UNCHANGED vars
  <2>1. TypeOK' /\ ClaimsAre' /\ WritesOver'
    BY <1>1 DEF vars, writer, history, IInv, TypeOK, ClaimsAre, WritesOver
  <2>2. Grows' /\ FirstSession'
    BY <1>1 DEF vars, writer, history, IInv, Grows, FirstSession, OnlyFirst
  <2>3. Placed' /\ OnDisk'
    BY <1>1 DEF vars, writer, history, IInv, Placed, InPlace, OnDisk
  <2>. QED  BY <2>1, <2>2, <2>3 DEF IInv
<1>. QED
  BY <1>1, OpenWriteKeeps, FlushBufKeeps, SyncAllKeeps, CrashKeeps, MapKeeps, QuietKeeps
  DEF Next

\* The file's writer, its mapper and its crashes keep IInv.
THEOREM Invariance == Spec => []IInv
<1>1. Init => IInv
  BY InitInvariant
<1>2. IInv /\ [Next]_vars => IInv'
  BY StepInvariant
<1>. QED  BY <1>1, <1>2, PTL DEF Spec

\* Type correctness: the BufWriter never holds more than its capacity, and a
\* file never grows past the longest session.
THEOREM TypeCorrect == Spec => []TypeOK
<1>1. IInv => TypeOK
  BY DEF IInv
<1>. QED  BY <1>1, Invariance, PTL

\* Once sync_all has returned no crash loses a word of the session.
THEOREM FinishedStaysDurable == Spec => []FinishedIsDurable
<1>1. IInv => FinishedIsDurable
  <2>1. SUFFICES ASSUME IInv, finished
                 PROVE  disk = Overwritten(before, 0, session, 0, Len(claims[session]))
    BY DEF IInv, OnDisk, FinishedIsDurable
  <2>2. session \in 1..Sessions
    BY <2>1 DEF IInv, TypeOK, FirstSession
  <2>3. Len(claims[session]) \in Nat /\ before \in Seq(Cell) /\ 0 \in Nat
    BY <2>1, <2>2 DEF IInv, TypeOK
  <2>. QED  BY <2>1, <2>3, OverwrittenIsWritten DEF IInv, OnDisk
<1>. QED  BY <1>1, Invariance, PTL

\* No map() is short; while the machine runs, what it returns are words where
\* some session wrote them; and of a file's first session parse accepts the whole
\* and, unless a data word reads as the control word of a beginning, no less.
THEOREM MapAlwaysInPlace == Spec => []MapIsInPlace
<1>1. IInv => MapIsInPlace
  <2>. SUFFICES ASSUME IInv
                PROVE  MapIsInPlace
    OBVIOUS
  <2>1. ASSUME session = 1, ~torn
        PROVE  /\ mapper.got = WholeFile(1) => Accepted(mapper.got)
               /\ ~Misleading(1) /\ Accepted(mapper.got) => mapper.got = WholeFile(1)
    <3>. DEFINE n == Len(mapper.got)
                all == Len(claims[1])
    <3>1. /\ mapper.got \in Seq(Cell) /\ n \in Nat /\ n <= all
          /\ \A i \in 1..n : mapper.got[i] = Word(1, i)
      BY <2>1 DEF IInv, TypeOK, FirstSession, OnlyFirst
    <3>2. all \in 1..MaxLen /\ claims[1][all] = all
      BY <2>1 DEF IInv, ClaimsAre
    <3>3. n # 0 => ClaimOf(mapper.got[n]) = claims[1][n]
      <4>1. n # 0 => mapper.got[n] = Word(1, n)
        BY <3>1
      <4>2. Word(1, n) # Hole /\ Word(1, n)[1] = 1 /\ Word(1, n)[2] = n
        BY DEF Word, Hole
      <4>. QED  BY <4>1, <4>2 DEF ClaimOf
    <3>4. WholeFile(1) = [i \in 1..all |-> Word(1, i)] /\ Len(WholeFile(1)) = all
      <4>1. WholeFile(1) = [i \in 1..all |-> Word(1, i)]
        BY DEF WholeFile
      <4>. HIDE DEF all
      <4>2. Len([i \in 1..all |-> Word(1, i)]) = all
        BY <3>2
      <4>. QED  BY <4>1, <4>2
    <3>5. ASSUME mapper.got = WholeFile(1)
          PROVE  Accepted(mapper.got)
      <4>1. n = all
        BY <3>5, <3>4
      <4>2. n # 0 /\ mapper.got # <<>>
        BY <3>1, <3>2, <4>1
      <4>. QED  BY <3>2, <3>3, <4>1, <4>2 DEF Accepted
    <3>6. ASSUME ~Misleading(1), Accepted(mapper.got)
          PROVE  mapper.got = WholeFile(1)
      <4>1. n # 0 /\ claims[1][n] = n
        BY <3>1, <3>3, <3>6 DEF Accepted
      <4>2. n = all
        BY <3>1, <3>2, <3>6, <4>1 DEF Misleading
      <4>3. mapper.got = [i \in 1..n |-> mapper.got[i]]
        BY <3>1
      <4>. HIDE DEF n, all
      <4>4. [i \in 1..n |-> mapper.got[i]] = [i \in 1..all |-> Word(1, i)]
        BY <3>1, <4>2
      <4>. QED  BY <3>4, <4>3, <4>4
    <3>. QED  BY <3>5, <3>6
  <2>2. mapper.step # "UnexpectedEof" /\ (crashes = 0 => InPlace(mapper.got))
    BY DEF IInv, Grows, Placed
  <2>3. session = 1 /\ ~torn /\ mapper.step = "ok"
          => /\ mapper.got = WholeFile(1) => Accepted(mapper.got)
             /\ ~Misleading(1) /\ Accepted(mapper.got) => mapper.got = WholeFile(1)
    BY <2>1
  <2>. QED  BY <2>2, <2>3, Zenon DEF MapIsInPlace
<1>. QED  BY <1>1, Invariance, PTL

-----------------------------------------------------------------------------
(* Slices of a sequence.                                                   *)

\* A slice has the bytes of the sequence, from the first on.
LEMMA SliceElements ==
  ASSUME NEW f \in Seq(Byte), NEW a \in Nat \ {0}, NEW n \in Int,
         a <= n + 1, n <= Len(f)
  PROVE  /\ SubSeq(f, a, n) \in Seq(Byte)
         /\ Len(SubSeq(f, a, n)) = n - a + 1
         /\ \A i \in 1..(n - a + 1) : SubSeq(f, a, n)[i] = f[a + i - 1]
  OBVIOUS

\* Two slices that follow one another are one slice.
LEMMA SlicesJoin ==
  ASSUME NEW f \in Seq(Byte), NEW a \in Nat \ {0}, NEW m \in Nat, NEW n \in Nat,
         a <= m + 1, m <= n, n <= Len(f)
  PROVE  SubSeq(f, a, m) \o SubSeq(f, m + 1, n) = SubSeq(f, a, n)
  OBVIOUS

\* A slice of a slice is a slice of the sequence.
LEMMA SliceOfSlice ==
  ASSUME NEW f \in Seq(Byte), NEW a \in Nat \ {0}, NEW n \in Nat,
         a <= n + 1, n <= Len(f),
         NEW i \in Nat \ {0}, NEW j \in Nat, i <= j + 1, j <= n - a + 1
  PROVE  SubSeq(SubSeq(f, a, n), i, j) = SubSeq(f, a + i - 1, a + j - 1)
  OBVIOUS

-----------------------------------------------------------------------------
(* One read with Held bytes in the buffer.                                 *)

\* After p bytes of the file, k new ones push k bytes out of the buffer: those
\* that follow the ones already given, and the last Held seen stay.
LEMMA ReadShifts ==
  ASSUME NEW f \in Seq(Byte), NEW p \in Nat, NEW k \in Nat \ {0},
         Held <= p, p + k <= Len(f)
  PROVE  /\ Output(SubSeq(f, p - Held + 1, p), SubSeq(f, p + 1, p + k))
              = SubSeq(f, p - Held + 1, p - Held + k)
         /\ NewBuf(SubSeq(f, p - Held + 1, p), SubSeq(f, p + 1, p + k))
              = SubSeq(f, p + k - Held + 1, p + k)
<1>. DEFINE b == SubSeq(f, p - Held + 1, p)
            new == SubSeq(f, p + 1, p + k)
            m == FromBuf(b, Len(new))
            first == p - Held + 1
<1>1. /\ b \in Seq(Byte) /\ Len(b) = Held
      /\ new \in Seq(Byte) /\ Len(new) = k
      /\ first \in Nat \ {0}
  BY HeldAssumption, SliceElements
<1>2. m \in Nat /\ m <= k /\ m <= Held /\ (m = k \/ m = Held)
  BY <1>1, HeldAssumption DEF FromBuf, Least
<1>. HIDE DEF m
<1>3. Output(b, new) = SubSeq(f, first, p - Held + k)
  <2>1. Output(b, new) = SubSeq(b, 1, m) \o SubSeq(new, 1, k - m)
    BY <1>1 DEF Output, m
  <2>2. SubSeq(b, 1, m) = SubSeq(f, first, first + m - 1)
    BY <1>1, <1>2, HeldAssumption, SliceOfSlice
  <2>3. SubSeq(new, 1, k - m) = SubSeq(f, p + 1, p + k - m)
    BY <1>1, <1>2, SliceOfSlice
  <2>4. CASE m = Held
    <3>1. SubSeq(f, first, p) \o SubSeq(f, p + 1, p + k - m)
            = SubSeq(f, first, p + k - m)
      BY <1>1, <1>2, HeldAssumption, SlicesJoin
    <3>2. first + m - 1 = p /\ p + k - m = p - Held + k
      BY <2>4, HeldAssumption
    <3>. HIDE DEF b, new, first
    <3>. QED  BY <2>1, <2>2, <2>3, <3>1, <3>2
  <2>5. CASE m = k
    <3>1. SubSeq(new, 1, k - m) = << >>
      BY <2>5, <1>1
    <3>2. SubSeq(f, first, first + m - 1) \in Seq(Byte)
      BY <1>1, <1>2, HeldAssumption, SliceElements
    <3>3. first + m - 1 = p - Held + k
      BY <2>5, HeldAssumption
    <3>4. SubSeq(f, first, first + m - 1) \o << >> = SubSeq(f, first, first + m - 1)
      BY <3>2
    <3>. HIDE DEF first
    <3>. QED  BY <2>1, <2>2, <3>1, <3>3, <3>4
  <2>. QED  BY <1>2, <2>4, <2>5
<1>4. NewBuf(b, new) = SubSeq(f, p + k - Held + 1, p + k)
  <2>. DEFINE rest == Behind(b, m) \o new
              last == Behind(rest, k - m)
  <2>1. NewBuf(b, new) = Kept(last)
    BY <1>1 DEF NewBuf, m
  <2>. DEFINE lo == first + m
  <2>2. /\ lo \in Nat \ {0} /\ lo <= p + 1 /\ p + k \in Nat
        /\ lo + (k - m) = first + k /\ p + k - lo + 1 = Held - m + k
    BY <1>1, <1>2, HeldAssumption
  <2>3. Behind(b, m) = SubSeq(f, lo, p)
    BY <1>1, <1>2, HeldAssumption, SliceOfSlice DEF Behind
  <2>. HIDE DEF lo
  <2>4. rest = SubSeq(f, lo, p + k)
    <3>1. SubSeq(f, lo, p) \o SubSeq(f, p + 1, p + k) = SubSeq(f, lo, p + k)
      BY <2>2
    <3>. QED  BY <2>3, <3>1
  <2>5. Len(rest) = Held - m + k
    <3>1. Len(SubSeq(f, lo, p + k)) = p + k - lo + 1
      BY <2>2
    <3>. QED  BY <2>2, <2>4, <3>1
  <2>6. last = SubSeq(f, first + k, p + k)
    <3>. DEFINE n == p + k
                i == k - m + 1
                j == Held - m + k
    <3>1. /\ n \in Nat /\ i \in Nat \ {0} /\ j \in Nat /\ i <= j + 1
          /\ lo <= n + 1 /\ n <= Len(f) /\ j <= n - lo + 1
          /\ lo + i - 1 = first + k /\ lo + j - 1 = n
      BY <1>1, <1>2, <2>2, HeldAssumption
    <3>2. last = SubSeq(SubSeq(f, lo, n), i, j)
      BY <2>4, <2>5 DEF Behind
    <3>. HIDE DEF n, i, j
    <3>3. SubSeq(SubSeq(f, lo, n), i, j) = SubSeq(f, lo + i - 1, lo + j - 1)
      BY <2>2, <3>1, SliceOfSlice
    <3>. QED  BY <3>1, <3>2, <3>3 DEF n
  <2>7. last \in Seq(Byte) /\ Len(last) = Held
    <3>1. /\ first + k \in Nat \ {0} /\ p + k \in Int /\ first + k <= p + k + 1
          /\ p + k - (first + k) + 1 = Held
      BY <1>1, HeldAssumption
    <3>. HIDE DEF first, last
    <3>. QED  BY <2>6, <3>1
  <2>. HIDE DEF last
  <2>8. Kept(last) = last
    BY <2>7, HeldAssumption DEF Kept, Behind, Least
  <2>9. first + k = p + k - Held + 1
    BY HeldAssumption
  <2>. QED  BY <2>1, <2>6, <2>8, <2>9
<1>. QED  BY <1>3, <1>4

-----------------------------------------------------------------------------
(* The inductive invariant.  A read of a file too short fails and ends the *)
(* iteration, so that a reader that goes on has Held bytes; before the     *)
(* first read there is nothing anywhere.                                   *)

Untouched == ~initialized => /\ pos = 0 /\ buf = <<>> /\ taken = <<>>
                             /\ readPhase # "eof"
ReadIInv == ReadTypeOK /\ HoldsTheTail /\ Untouched

\* What the buffer holds once a read has filled it, for a file long enough.
LEMMA FilledHoldsTheTail ==
  ASSUME ReadIInv, readPhase = "reading", Held <= Len(file)
  PROVE  /\ file \in Seq(Byte)
         /\ At \in Nat /\ Held <= At /\ At <= Len(file)
         /\ taken = SubSeq(file, 1, At - Held)
         /\ Filled = SubSeq(file, At - Held + 1, At)
<1>1. file \in Seq(Byte) /\ Len(file) \in Nat
  BY FilesAssumption DEF ReadIInv, ReadTypeOK
<1>2. CASE initialized
  BY <1>1, <1>2 DEF ReadIInv, ReadTypeOK, HoldsTheTail, At, Filled
<1>3. CASE ~initialized
  <2>1. SubSeq(file, 1, 0) = <<>>
    BY <1>1
  <2>2. At = Held /\ Held - Held = 0 /\ Held - Held + 1 = 1
    BY <1>3, HeldAssumption DEF At
  <2>. QED  BY <1>1, <1>3, <2>1, <2>2, HeldAssumption DEF ReadIInv, Untouched, Filled
<1>. QED  BY <1>2, <1>3 DEF ReadIInv, ReadTypeOK

\* What a read of k bytes leaves.
LEMMA ReadSomeEffect ==
  ASSUME ReadIInv, NEW k \in 1..MaxRequest, ReadSome(k)
  PROVE  /\ pos' \in Nat /\ Held <= pos' /\ pos' <= Len(file)
         /\ taken' = SubSeq(file, 1, pos' - Held)
         /\ buf' = SubSeq(file, pos' - Held + 1, pos')
         /\ Len(taken) + k = pos' - Held
<1>1. /\ file \in Seq(Byte) /\ Len(file) \in Nat /\ k \in Nat \ {0}
      /\ readPhase = "reading" /\ At + k <= Len(file) /\ pos' = At + k
  BY FilesAssumption, RequestAssumption DEF ReadIInv, ReadTypeOK, ReadSome
<1>2. Held <= Len(file)
  BY <1>1, HeldAssumption DEF ReadIInv, ReadTypeOK, HoldsTheTail, At
<1>3. /\ At \in Nat /\ Held <= At
      /\ taken = SubSeq(file, 1, At - Held)
      /\ Filled = SubSeq(file, At - Held + 1, At)
  BY <1>1, <1>2, FilledHoldsTheTail
<1>. DEFINE p == At
            new == SubSeq(file, At + 1, At + k)
<1>4. /\ taken' = taken \o Output(Filled, new)
      /\ buf' = NewBuf(Filled, new)
  BY DEF ReadSome
<1>. HIDE DEF p, new
<1>5. /\ Output(Filled, new) = SubSeq(file, p - Held + 1, p - Held + k)
      /\ NewBuf(Filled, new) = SubSeq(file, p + k - Held + 1, p + k)
  <2>1. /\ p \in Nat /\ Held <= p /\ p + k <= Len(file)
        /\ Filled = SubSeq(file, p - Held + 1, p)
        /\ new = SubSeq(file, p + 1, p + k)
    BY <1>1, <1>3 DEF p, new
  <2>. QED  BY <1>1, <2>1, ReadShifts
<1>6. SubSeq(file, 1, p - Held) \o SubSeq(file, p - Held + 1, p - Held + k)
        = SubSeq(file, 1, p - Held + k)
  BY <1>1, <1>3, HeldAssumption DEF p
<1>7. Len(taken) = p - Held
  BY <1>1, <1>3, HeldAssumption DEF p
<1>8. /\ p - Held + k = pos' - Held /\ pos' = p + k /\ p \in Nat
      /\ p + k - Held + 1 = pos' - Held + 1 /\ pos' \in Nat /\ Held <= pos'
  BY <1>1, <1>3, HeldAssumption DEF p
<1>9. taken' = SubSeq(file, 1, p - Held) \o SubSeq(file, p - Held + 1, p - Held + k)
  BY <1>3, <1>4, <1>5 DEF p
<1>10. pos' <= Len(file)
  BY <1>1
<1>11. Len(taken) + k = pos' - Held
  BY <1>7, <1>8
<1>. QED  BY <1>4, <1>5, <1>6, <1>8, <1>9, <1>10, <1>11

LEMMA ReadInitInvariant ==
  ASSUME ReadInit
  PROVE  ReadIInv
<1>1. /\ <<>> \in Seq(Byte) /\ Len(<<>>) <= Held
      /\ file \in Files /\ 0 \in 0..Len(file) /\ 0 \in 0..MaxRequest
  BY FilesAssumption, HeldAssumption, RequestAssumption DEF ReadInit
<1>. QED  BY <1>1 DEF ReadInit, ReadIInv, ReadTypeOK, HoldsTheTail, Untouched

LEMMA ReadStepInvariant ==
  ASSUME ReadIInv, [ReadNext]_readVars
  PROVE  ReadIInv'
<1>1. file \in Seq(Byte) /\ Len(file) \in Nat
  BY FilesAssumption DEF ReadIInv, ReadTypeOK
<1>2. ASSUME NEW n \in 1..MaxRequest, ReadExact(n)
      PROVE  ReadIInv'
  BY <1>2, RequestAssumption
  DEF ReadExact, inner, ReadIInv, ReadTypeOK, HoldsTheTail, Untouched
<1>3. ASSUME NEW k \in 1..MaxRequest, ReadSome(k)
      PROVE  ReadIInv'
  <2>1. /\ pos' \in Nat /\ Held <= pos' /\ pos' <= Len(file)
        /\ taken' = SubSeq(file, 1, pos' - Held)
        /\ buf' = SubSeq(file, pos' - Held + 1, pos')
    BY <1>3, ReadSomeEffect
  <2>2. file' = file /\ initialized' = TRUE
    BY <1>3 DEF ReadSome
  <2>3. /\ buf' \in Seq(Byte) /\ Len(buf') = Held
        /\ taken' \in Seq(Byte)
    <3>. DEFINE q == pos'
    <3>1. q \in Nat /\ Held <= q /\ q <= Len(file)
      BY <2>1
    <3>. HIDE DEF q
    <3>2. /\ SubSeq(file, 1, q - Held) \in Seq(Byte)
          /\ SubSeq(file, q - Held + 1, q) \in Seq(Byte)
          /\ Len(SubSeq(file, q - Held + 1, q)) = Held
      BY <1>1, <3>1, HeldAssumption
    <3>. QED  BY <2>1, <3>2 DEF q
  <2>4. wanted' \in 0..MaxRequest /\ readPhase' \in {"idle", "reading"}
    BY <1>3, RequestAssumption DEF ReadSome, ReadIInv, ReadTypeOK
  <2>5. ReadTypeOK'
    <3>1. file' \in Files /\ pos' \in 0..Len(file') /\ initialized' \in BOOLEAN
      BY <1>1, <2>1, <2>2 DEF ReadIInv, ReadTypeOK
    <3>2. Len(buf') <= Held
      BY <2>3, HeldAssumption
    <3>. QED  BY <2>3, <2>4, <3>1, <3>2 DEF ReadTypeOK
  <2>6. HoldsTheTail'
    BY <2>1, <2>2, <2>3 DEF HoldsTheTail
  <2>. QED  BY <2>2, <2>5, <2>6 DEF ReadIInv, Untouched
<1>4. ASSUME ReadTooShort
      PROVE  ReadIInv'
  BY <1>1, <1>4 DEF ReadTooShort, ReadIInv, ReadTypeOK, HoldsTheTail, Untouched
<1>5. ASSUME ReadEnd
      PROVE  ReadIInv'
  BY <1>1, <1>5, HeldAssumption
  DEF ReadEnd, At, ReadIInv, ReadTypeOK, HoldsTheTail, Untouched
<1>6. ASSUME UNCHANGED readVars
      PROVE  ReadIInv'
  BY <1>6 DEF readVars, inner, ReadIInv, ReadTypeOK, HoldsTheTail, Untouched
<1>. QED  BY <1>2, <1>3, <1>4, <1>5, <1>6 DEF ReadNext

\* IInv is an invariant of the reader.
THEOREM ReadInvariance == ReadSpec => []ReadIInv
<1>1. ReadInit => ReadIInv
  BY ReadInitInvariant
<1>2. ReadIInv /\ [ReadNext]_readVars => ReadIInv'
  BY ReadStepInvariant
<1>. QED  BY <1>1, <1>2, PTL DEF ReadSpec

\* Type correctness of DontReadLastU64Reader: its eight bytes never overflow.
THEOREM ReaderTypeCorrect == ReadSpec => []ReadTypeOK
<1>1. ReadIInv => ReadTypeOK
  BY DEF ReadIInv
<1>. QED  BY <1>1, ReadInvariance, PTL

\* Whatever short reads the file gives, the bytes withheld are the last seen.
THEOREM AlwaysHoldsTheTail == ReadSpec => []HoldsTheTail
<1>1. ReadIInv => HoldsTheTail
  BY DEF ReadIInv
<1>. QED  BY <1>1, ReadInvariance, PTL

-----------------------------------------------------------------------------
(* The refinement.                                                         *)

LEMMA InitRefines ==
  ASSUME ReadInit
  PROVE  Shown!Init
BY DEF ReadInit, Shown!Init

\* Every step of the reader is one of a plain reader, or none.
LEMMA StepRefines ==
  ASSUME ReadIInv, [ReadNext]_readVars
  PROVE  [Shown!Next]_Shown!vars
<1>1. file \in Seq(Byte) /\ Len(file) \in Nat
  BY FilesAssumption DEF ReadIInv, ReadTypeOK
<1>2. ASSUME NEW n \in 1..MaxRequest, ReadExact(n)
      PROVE  Shown!Ask(n)
  BY <1>2 DEF ReadExact, inner, Shown!Ask
<1>3. ASSUME NEW k \in 1..MaxRequest, ReadSome(k)
      PROVE  Shown!Give(k)
  <2>1. /\ pos' \in Nat /\ Held <= pos' /\ pos' <= Len(file)
        /\ taken' = SubSeq(file, 1, pos' - Held)
        /\ Len(taken) + k = pos' - Held
    BY <1>3, ReadSomeEffect
  <2>2. /\ Len(AllButTail(file)) = Len(file) - Held
        /\ SubSeq(AllButTail(file), 1, pos' - Held) = SubSeq(file, 1, pos' - Held)
    <3>. DEFINE q == pos'
    <3>1. q \in Nat /\ Held <= q /\ q <= Len(file)
      BY <2>1
    <3>. HIDE DEF q
    <3>2. /\ Len(SubSeq(file, 1, Len(file) - Held)) = Len(file) - Held
          /\ SubSeq(SubSeq(file, 1, Len(file) - Held), 1, q - Held)
               = SubSeq(file, 1, q - Held)
      BY <1>1, <3>1, HeldAssumption
    <3>. QED  BY <3>2 DEF q, AllButTail
  <2>3. Len(taken) + k <= Len(AllButTail(file))
    BY <1>1, <2>1, <2>2, HeldAssumption
  <2>4. taken' = SubSeq(AllButTail(file), 1, Len(taken) + k)
    BY <2>1, <2>2
  <2>. QED  BY <1>3, <2>3, <2>4 DEF ReadSome, Shown!Give
<1>4. ASSUME ReadTooShort
      PROVE  Shown!End
  <2>1. taken = <<>>
    BY <1>4 DEF ReadTooShort, ReadIInv, Untouched
  <2>2. AllButTail(file) = <<>>
    BY <1>1, <1>4, HeldAssumption DEF ReadTooShort, AllButTail
  <2>. QED  BY <1>4, <2>1, <2>2 DEF ReadTooShort, Shown!End
<1>5. ASSUME ReadEnd
      PROVE  Shown!End
  <2>1. Held <= Len(file) /\ readPhase = "reading" /\ At = Len(file)
    BY <1>1, <1>5, HeldAssumption DEF ReadEnd, At, ReadIInv, ReadTypeOK, HoldsTheTail
  <2>2. taken = SubSeq(file, 1, At - Held)
    BY <2>1, FilledHoldsTheTail
  <2>. QED  BY <1>5, <2>1, <2>2 DEF ReadEnd, AllButTail, Shown!End
<1>6. ASSUME UNCHANGED readVars
      PROVE  UNCHANGED Shown!vars
  BY <1>6 DEF readVars, inner, Shown!vars
<1>. QED  BY <1>2, <1>3, <1>4, <1>5, <1>6 DEF ReadNext, Shown!Next

\* DontReadLastU64Reader under read_exact is a plain reader of all but the last
\* eight bytes: nothing is lost, doubled or reordered, the control word is never
\* given, and the end comes exactly when everything else has been.
THEOREM ImplementsReader == ReadSpec => ReadsAllButTail
<1>1. ReadInit => Shown!Init
  BY InitRefines
<1>2. ReadIInv /\ [ReadNext]_readVars => [Shown!Next]_Shown!vars
  BY StepRefines
<1>. QED  BY <1>1, <1>2, ReadInvariance, PTL DEF ReadSpec, ReadsAllButTail, Shown!Spec

-----------------------------------------------------------------------------
(* Bundles of files in memory.                                             *)

USE FileAssumption, OrdersAssumption, ChunksAssumption, MarksAssumption, NoFileAssumption

-----------------------------------------------------------------------------
(* What is current.                                                        *)

Stored == {Empty} \cup {Whole(v) : v \in Version}

Mixed(c) == \E f, g \in File : c[f] # Empty /\ c[g] # Empty /\ c[f] # c[g]

LEMMA HeldIs ==
  ASSUME NEW x \in Stored
  PROVE  /\ x = Empty <=> x.v = None
         /\ x # Empty => x.v \in Version /\ x = Whole(x.v)
         /\ x \in Content
BY DEF Stored, Empty, Whole, Content

LEMMA VersionsFinite ==
  ASSUME NEW c
  PROVE  IsFiniteSet(Versions(c))
<1>. DEFINE T == {c[f].v : f \in File}
            g == [f \in File |-> c[f].v]
<1>1. g \in Surjection(File, T)
  BY DEF Surjection
<1>2. IsFiniteSet(T)
  BY <1>1, FS_Surjection DEF ExistsSurjection
<1>3. Versions(c) \in SUBSET T
  BY DEF Versions
<1>. HIDE DEF T
<1>. QED  BY <1>2, <1>3, FS_Subset

LEMMA ManyMembers ==
  ASSUME NEW S, IsFiniteSet(S)
  PROVE  Cardinality(S) > 1 <=> \E x, y \in S : x # y
<1>1. Cardinality(S) \in Nat
  BY FS_CardinalityType
<1>2. ASSUME Cardinality(S) > 1 PROVE \E x, y \in S : x # y
  <2>1. PICK x \in S : TRUE
    BY <1>2, FS_EmptySet
  <2>2. S # {x}
    BY <1>2, FS_Singleton
  <2>. QED  BY <2>1, <2>2
<1>3. ASSUME NEW x \in S, NEW y \in S, x # y PROVE Cardinality(S) > 1
  <2>1. Cardinality(S) # 0
    BY FS_EmptySet
  <2>2. Cardinality(S) # 1
    <3>1. SUFFICES ASSUME Cardinality(S) = 1 PROVE FALSE
      OBVIOUS
    <3>2. PICK z : S = {z}
      BY <3>1, FS_Singleton
    <3>. QED  BY <1>3, <3>2
  <2>. QED  BY <1>1, <2>1, <2>2
<1>. QED  BY <1>2, <1>3

\* CurrentOf without counting.
LEMMA CurrentIs ==
  ASSUME NEW c \in [File -> Stored]
  PROVE  /\ Mixed(c) => CurrentOf(c) = Torn
         /\ ~Mixed(c) /\ (\E f \in File : c[f] = Empty) => CurrentOf(c) = None
         /\ ~Mixed(c) /\ (\A f \in File : c[f] # Empty) =>
              /\ CurrentOf(c) \in Version
              /\ \A f \in File : c[f] = Whole(CurrentOf(c))
<1>1. \A f \in File : /\ c[f] \in Stored
                      /\ c[f] = Empty <=> c[f].v = None
                      /\ c[f] # Empty => c[f].v \in Version /\ c[f] = Whole(c[f].v)
  BY HeldIs
<1>2. \A v : v \in Versions(c) <=> \E f \in File : c[f] # Empty /\ c[f].v = v
  BY <1>1 DEF Versions
<1>3. Cardinality(Versions(c)) > 1 <=> Mixed(c)
  <2>1. Cardinality(Versions(c)) > 1 <=> \E x, y \in Versions(c) : x # y
    BY VersionsFinite, ManyMembers
  <2>2. ASSUME NEW x \in Versions(c), NEW y \in Versions(c), x # y
        PROVE  Mixed(c)
    BY <1>2, <2>2 DEF Mixed
  <2>3. ASSUME NEW f \in File, NEW g \in File, c[f] # Empty, c[g] # Empty, c[f] # c[g]
        PROVE  \E x, y \in Versions(c) : x # y
    <3>1. c[f].v # c[g].v
      BY <1>1, <2>3
    <3>. QED  BY <1>2, <2>3, <3>1
  <2>. QED  BY <2>1, <2>2, <2>3 DEF Mixed
<1>4. ASSUME ~Mixed(c), \A f \in File : c[f] # Empty
      PROVE  /\ CurrentOf(c) \in Version
             /\ \A f \in File : c[f] = Whole(CurrentOf(c))
  <2>1. CurrentOf(c) = CHOOSE v \in Versions(c) : TRUE
    BY <1>3, <1>4 DEF CurrentOf
  <2>2. PICK f \in File : TRUE
    OBVIOUS
  <2>3. c[f].v \in Versions(c)
    BY <1>2, <1>4, <2>2
  <2>4. CurrentOf(c) \in Versions(c)
    BY <2>1, <2>3
  <2>5. PICK g \in File : c[g].v = CurrentOf(c)
    BY <1>2, <2>4
  <2>6. \A h \in File : c[h] = c[g]
    BY <1>4 DEF Mixed
  <2>. QED  BY <1>1, <1>4, <2>5, <2>6
<1>. QED  BY <1>3, <1>4 DEF CurrentOf

LEMMA CurrentType ==
  ASSUME NEW c \in [File -> Stored]
  PROVE  CurrentOf(c) \in Version \cup {None, Torn}
BY CurrentIs

\* A sync_all that replaces nothing only publishes, and keeps what was there.
LEMMA NotReplaced ==
  ASSUME NEW c \in [File -> Stored], NEW d \in [File -> Stored], NEW g \in File,
         \A f \in File : f # g => d[f] = c[f],
         ~Replaced(c, d)
  PROVE  /\ \A f \in File : c[f] # Empty => d[f] = c[f]
         /\ \/ CurrentOf(c) = CurrentOf(d)
            \/ CurrentOf(c) = None /\ CurrentOf(d) \in Version
         /\ CurrentOf(c) \in Version => d = c
         /\ CurrentOf(d) # Torn
<1>1. /\ \A f \in File : c[f] # Empty => d[f] = c[f]
      /\ CurrentOf(d) # Torn
  BY DEF Replaced
<1>2. ~Mixed(d)
  BY <1>1, CurrentIs
<1>3. ~Mixed(c)
  BY <1>1, <1>2 DEF Mixed
<1>4. ASSUME \A f \in File : c[f] # Empty
      PROVE  d = c
  BY <1>1, <1>4
<1>5. ASSUME NEW f \in File, c[f] = Empty
      PROVE  CurrentOf(c) = None
  BY <1>3, <1>5, CurrentIs
<1>6. CurrentOf(d) \in Version \cup {None}
  BY <1>1, CurrentType
<1>7. CASE \A f \in File : c[f] # Empty
  BY <1>1, <1>4, <1>7
<1>8. CASE \E f \in File : c[f] = Empty
  BY <1>1, <1>5, <1>6, <1>8
<1>. QED  BY <1>7, <1>8

-----------------------------------------------------------------------------
(* The inductive invariant.                                                *)

LEMMA Numbers ==
  /\ N \in Nat \ {0}
  /\ \A o \in {WriteOrder, MapOrder, CopyOrder} :
       /\ \A i \in 1..N : o[i] \in File
       /\ \A f \in File : \E i \in 1..N : o[i] = f
<1>1. N \in Nat /\ N # 0
  BY FS_CardinalityType, FS_EmptySet DEF N
<1>2. \A o \in Orders : /\ o \in [1..N -> File]
                        /\ \A f \in File : \E i \in 1..N : o[i] = f
  BY DEF Orders, N
<1>. QED  BY <1>1, <1>2

\* Of the file that is copied: there is one, and its bytes are those of a file.
CopyGoesOn ==
  /\ copy.step \in {"exists", "open", "sync"} => copy.file \in 1..N
  /\ copy.step = "sync" => copy.input \in Stored

\* A map that nothing was replaced during has what the files have.
MapsAreCurrent ==
  \A r \in Reader : from[r] # "idle" /\ r \notin tainted =>
    /\ CurrentOf(contents[from[r]]) # Torn
    /\ \A j \in 1..mapped[r] : /\ got[r][MapOrder[j]] = contents[from[r]][MapOrder[j]]
                               /\ got[r][MapOrder[j]] # Empty

\* Only a map under way is tainted.
TaintedMap == \A r \in tainted : from[r] # "idle"

\* map_all_if_exists asks before it maps the first file.
AskingMap == \A r \in asking : from[r] # "idle" /\ mapped[r] = 0

IdleMapsNothing == \A r \in Reader : from[r] = "idle" => mapped[r] = 0

\* A copy that nothing was replaced during is faithful as far as it has come.
CopyIsCurrent ==
  copyClean =>
    /\ copy.step # "idle"
    /\ CurrentOf(contents["source"]) \in Version
    /\ \A j \in 1..N : j < copy.file \/ copy.step = "done" =>
         contents["target"][CopyOrder[j]] = contents["source"][CopyOrder[j]]
    /\ copy.step = "sync" => copy.input = contents["source"][CopyOrder[copy.file]]

BundlesIInv == BundlesTypeOK /\ CopyGoesOn /\ MapsAreCurrent /\ TaintedMap /\ AskingMap
          /\ IdleMapsNothing /\ CopyIsCurrent

LEMMA BundlesInitInvariant ==
  ASSUME BundlesInit
  PROVE  BundlesIInv
<1>1. Empty \in Content /\ Empty \in Stored /\ 0 \in 0..N /\ 0 \in 0..(N-1) /\ 0 \in 0..Chunks
  BY Numbers DEF Content, Stored
<1>2. BundlesTypeOK
  <2>1. /\ contents \in [Bundle -> [File -> Stored]]
        /\ bufs \in [Version -> [File -> 0..Chunks]]
        /\ synced \in [Version -> 0..N]
        /\ from \in [Reader -> Bundle \cup {"idle"}]
        /\ asking \subseteq Reader
        /\ mapped \in [Reader -> 0..(N-1)]
    BY <1>1 DEF BundlesInit
  <2>2. /\ got \in [Reader -> [File -> Content \cup {NoFile}]]
        /\ outcome \in [Bundle -> [Reader -> Version \cup {None, Torn}]]
    BY DEF BundlesInit
  <2>3. copy \in [file : 0..N, step : {"idle", "exists", "open", "sync", "done"},
                  input : Content]
    BY <1>1 DEF BundlesInit
  <2>. QED  BY <2>1, <2>2, <2>3 DEF BundlesInit, BundlesTypeOK, Stored
<1>3. /\ CopyGoesOn /\ MapsAreCurrent /\ TaintedMap /\ AskingMap
      /\ IdleMapsNothing /\ CopyIsCurrent
  BY DEF BundlesInit, CopyGoesOn, MapsAreCurrent, TaintedMap, AskingMap, IdleMapsNothing,
         CopyIsCurrent
<1>. QED  BY <1>2, <1>3 DEF BundlesIInv

\* sync_all of a file, by a writer or by copy_from.
LEMMA SyncAllMaps ==
  ASSUME BundlesIInv, NEW b \in Bundle, NEW g \in File, NEW x \in Stored, SyncContents(b, g, x),
         UNCHANGED <<from, mapped, got>>
  PROVE  /\ contents' \in [Bundle -> [File -> Stored]]
         /\ contents'[b] = [contents[b] EXCEPT ![g] = x]
         /\ \A a \in Bundle : a # b => contents'[a] = contents[a]
         /\ tainted' = IF Replaced(contents[b], contents'[b]) THEN tainted \cup Reading(b)
                                                              ELSE tainted
         /\ copyClean' = (copyClean /\ ~(b = "source" /\ Replaced(contents[b], contents'[b])))
         /\ tainted' \subseteq Reader
         /\ MapsAreCurrent' /\ TaintedMap'
<1>. DEFINE d == [contents[b] EXCEPT ![g] = x]
<1>1. contents \in [Bundle -> [File -> Stored]]
  BY DEF BundlesIInv, BundlesTypeOK, Stored
<1>2. /\ contents' = [contents EXCEPT ![b] = d]
      /\ tainted' = IF Replaced(contents[b], d) THEN tainted \cup Reading(b) ELSE tainted
      /\ copyClean' = (copyClean /\ ~(b = "source" /\ Replaced(contents[b], d)))
  BY DEF SyncContents
<1>3. d \in [File -> Stored] /\ \A f \in File : f # g => d[f] = contents[b][f]
  BY <1>1
<1>. HIDE DEF d
<1>4. /\ contents' \in [Bundle -> [File -> Stored]]
      /\ contents'[b] = d
      /\ \A a \in Bundle : a # b => contents'[a] = contents[a]
  BY <1>1, <1>2, <1>3
<1>5. tainted' \subseteq Reader
  BY <1>2 DEF BundlesIInv, BundlesTypeOK, Reading
<1>6. TaintedMap'
  BY <1>2 DEF BundlesIInv, TaintedMap, Reading, Bundle
<1>7. MapsAreCurrent'
  <2>1. SUFFICES ASSUME NEW r \in Reader, from[r] # "idle", r \notin tainted'
                 PROVE  /\ CurrentOf(contents'[from[r]]) # Torn
                        /\ \A j \in 1..mapped[r] :
                             /\ got[r][MapOrder[j]] = contents'[from[r]][MapOrder[j]]
                             /\ got[r][MapOrder[j]] # Empty
    BY DEF MapsAreCurrent
  <2>2. /\ r \notin tainted
        /\ CurrentOf(contents[from[r]]) # Torn
        /\ \A j \in 1..mapped[r] : /\ got[r][MapOrder[j]] = contents[from[r]][MapOrder[j]]
                                   /\ got[r][MapOrder[j]] # Empty
    BY <1>2, <2>1 DEF BundlesIInv, MapsAreCurrent
  <2>3. from[r] \in Bundle /\ mapped[r] \in 0..(N-1)
    BY <2>1 DEF BundlesIInv, BundlesTypeOK
  <2>4. CASE from[r] # b
    BY <1>4, <2>2, <2>3, <2>4
  <2>5. CASE from[r] = b
    <3>1. ~Replaced(contents[b], d)
      BY <1>2, <2>1, <2>5 DEF Reading
    <3>2. /\ \A f \in File : contents[b][f] # Empty => d[f] = contents[b][f]
          /\ CurrentOf(d) # Torn
      BY <1>1, <1>3, <3>1, NotReplaced
    <3>3. \A j \in 1..mapped[r] : MapOrder[j] \in File
      BY <2>3, Numbers
    <3>. QED  BY <1>4, <2>2, <2>5, <3>2, <3>3
  <2>. QED  BY <2>4, <2>5
<1>. QED  BY <1>2, <1>4, <1>5, <1>6, <1>7 DEF d

LEMMA WriteBufKeeps ==
  ASSUME BundlesIInv, NEW w \in Version, WriteBuf(w)
  PROVE  BundlesIInv'
<1>1. UNCHANGED <<contents, synced, from, asking, mapped, got, outcome, copy, tainted,
                  copyClean>>
  BY DEF WriteBuf
<1>2. bufs' \in [Version -> [File -> 0..Chunks]]
  <2>1. PICK i \in 1..N : /\ HasRemaining(w, WriteOrder[i])
                          /\ bufs' = [bufs EXCEPT ![w][WriteOrder[i]] = @ + 1]
    BY DEF WriteBuf
  <2>2. WriteOrder[i] \in File
    BY Numbers
  <2>. QED  BY <2>1, <2>2 DEF HasRemaining, BundlesIInv, BundlesTypeOK
<1>3. BundlesTypeOK'
  BY <1>1, <1>2 DEF BundlesIInv, BundlesTypeOK
<1>. QED
  BY <1>1, <1>3
  DEF BundlesIInv, CopyGoesOn, MapsAreCurrent, TaintedMap, AskingMap, IdleMapsNothing,
      CopyIsCurrent

\* A writer syncs whole files of its version.
LEMMA WriterSyncs ==
  ASSUME BundlesIInv, NEW w \in Version, WriterSync(w)
  PROVE  \E g \in File : SyncContents("source", g, Whole(w))
<1>1. synced[w] < N /\ synced[w] \in 0..N
  BY DEF WriterSync, BundlesIInv, BundlesTypeOK
<1>. DEFINE g == WriteOrder[synced[w] + 1]
<1>2. g \in File
  BY <1>1, Numbers
<1>3. bufs[w][g] = Chunks
  <2>1. ~(bufs[w][g] < Chunks)
    BY <1>2 DEF WriterSync, Written, HasRemaining
  <2>2. bufs[w][g] \in 0..Chunks
    BY <1>2 DEF BundlesIInv, BundlesTypeOK
  <2>. QED  BY <2>1, <2>2
<1>4. SyncContents("source", g, [v |-> w, n |-> bufs[w][g]])
  BY DEF WriterSync
<1>. QED  BY <1>2, <1>3, <1>4 DEF Whole

LEMMA WriterSyncKeeps ==
  ASSUME BundlesIInv, NEW w \in Version, WriterSync(w)
  PROVE  BundlesIInv'
<1>1. /\ UNCHANGED <<bufs, from, asking, mapped, got, outcome, copy>>
      /\ synced' = [synced EXCEPT ![w] = @ + 1] /\ synced[w] < N
  BY DEF WriterSync
<1>2. PICK g \in File : SyncContents("source", g, Whole(w))
  BY WriterSyncs
<1>3. Whole(w) \in Stored /\ "source" \in Bundle
  BY DEF Stored, Bundle
<1>4. /\ contents' \in [Bundle -> [File -> Stored]]
      /\ contents'["source"] = [contents["source"] EXCEPT ![g] = Whole(w)]
      /\ \A a \in Bundle : a # "source" => contents'[a] = contents[a]
      /\ tainted' \subseteq Reader
      /\ copyClean' = (copyClean /\ ~Replaced(contents["source"], contents'["source"]))
      /\ MapsAreCurrent' /\ TaintedMap'
  BY <1>1, <1>2, <1>3, SyncAllMaps
<1>5. BundlesTypeOK'
  <2>1. synced' \in [Version -> 0..N] /\ copyClean' \in BOOLEAN
    BY <1>1, <1>4, Numbers DEF BundlesIInv, BundlesTypeOK
  <2>. QED  BY <1>1, <1>4, <2>1 DEF BundlesIInv, BundlesTypeOK, Stored
<1>6. CopyGoesOn'
  BY <1>1 DEF BundlesIInv, CopyGoesOn
<1>7. CopyIsCurrent'
  <2>1. SUFFICES ASSUME copyClean'
                 PROVE  /\ contents'["source"] = contents["source"]
                        /\ contents'["target"] = contents["target"] /\ copyClean
    BY <1>1 DEF BundlesIInv, CopyIsCurrent
  <2>2. copyClean /\ ~Replaced(contents["source"], contents'["source"])
    BY <1>4, <2>1
  <2>3. contents["source"] \in [File -> Stored] /\ contents'["source"] \in [File -> Stored]
    BY <1>3, <1>4 DEF BundlesIInv, BundlesTypeOK, Stored
  <2>4. \A f \in File : f # g => contents'["source"][f] = contents["source"][f]
    BY <1>4, <2>3
  <2>5. CurrentOf(contents["source"]) \in Version
    BY <2>2 DEF BundlesIInv, CopyIsCurrent
  <2>6. contents'["source"] = contents["source"]
    BY <2>2, <2>3, <2>4, <2>5, NotReplaced
  <2>. QED  BY <1>4, <2>2, <2>6 DEF Bundle
<1>. QED  BY <1>1, <1>4, <1>5, <1>6, <1>7 DEF BundlesIInv, AskingMap, IdleMapsNothing

\* A map begins, with or without the question whether there is something.
LEMMA BeginKeeps ==
  ASSUME BundlesIInv, NEW r \in Reader, NEW b \in Bundle,
         BeginMapAll(r, b) \/ BeginMapAllIfExists(r, b)
  PROVE  BundlesIInv'
<1>1. /\ from[r] = "idle" /\ from' = [from EXCEPT ![r] = b]
      /\ tainted' = IF CurrentOf(contents[b]) = Torn THEN tainted \cup {r} ELSE tainted
      /\ asking' = asking \/ asking' = asking \cup {r}
      /\ UNCHANGED <<contents, bufs, synced, mapped, got, outcome, copy, copyClean>>
  BY DEF BeginMapAll, BeginMapAllIfExists, Open
<1>2. BundlesTypeOK'
  BY <1>1 DEF BundlesIInv, BundlesTypeOK
<1>3. TaintedMap' /\ AskingMap'
  BY <1>1 DEF BundlesIInv, BundlesTypeOK, TaintedMap, AskingMap, IdleMapsNothing, Bundle
<1>4. MapsAreCurrent'
  BY <1>1 DEF BundlesIInv, BundlesTypeOK, MapsAreCurrent, IdleMapsNothing
<1>5. CopyGoesOn' /\ CopyIsCurrent'
  BY <1>1 DEF BundlesIInv, CopyGoesOn, CopyIsCurrent
<1>. QED  BY <1>1, <1>2, <1>3, <1>4, <1>5 DEF BundlesIInv, IdleMapsNothing

\* A map of a file, of which there are three kinds.
LEMMA MapFileIs ==
  ASSUME BundlesIInv, NEW r \in Reader, MapFile(r)
  PROVE  \E f \in File :
           /\ f = MapOrder[mapped[r] + 1] /\ mapped[r] + 1 \in 1..N /\ from[r] \in Bundle
           /\ UNCHANGED <<contents, bufs, synced, asking, copy, copyClean>> /\ r \notin asking
           /\ LET c == contents[from[r]][f]
                  g == [got[r] EXCEPT ![f] = c]
              IN  \/ c = Empty /\ Return(r, None)
                  \/ c # Empty /\ mapped[r] + 1 = N /\ Return(r, Assembled(g))
                  \/ /\ c # Empty /\ mapped[r] + 1 < N
                     /\ got' = [got EXCEPT ![r] = g]
                     /\ mapped' = [mapped EXCEPT ![r] = @ + 1]
                     /\ UNCHANGED <<from, outcome, tainted>>
<1>1. mapped[r] + 1 \in 1..N
  BY Numbers DEF BundlesIInv, BundlesTypeOK
<1>2. MapOrder[mapped[r] + 1] \in File
  BY <1>1, Numbers
<1>3. from[r] \in Bundle
  BY DEF MapFile, BundlesIInv, BundlesTypeOK
<1>. QED  BY <1>1, <1>2, <1>3 DEF MapFile, MapFails

\* What a reader has of the files, once one more has been mapped.
LEMMA MappedMore ==
  ASSUME BundlesIInv, NEW r \in Reader, from[r] \in Bundle, r \notin tainted,
         NEW f \in File, f = MapOrder[mapped[r] + 1],
         contents[from[r]][f] # Empty
  PROVE  LET g == [got[r] EXCEPT ![f] = contents[from[r]][f]]
         IN  \A j \in 1..(mapped[r] + 1) : /\ g[MapOrder[j]] = contents[from[r]][MapOrder[j]]
                                           /\ g[MapOrder[j]] # Empty
<1>. DEFINE g == [got[r] EXCEPT ![f] = contents[from[r]][f]]
<1>1. mapped[r] \in 0..(N-1) /\ got[r] \in [File -> Content \cup {NoFile}]
  BY DEF BundlesIInv, BundlesTypeOK
<1>2. \A j \in 1..mapped[r] : /\ got[r][MapOrder[j]] = contents[from[r]][MapOrder[j]]
                              /\ got[r][MapOrder[j]] # Empty
  BY DEF BundlesIInv, MapsAreCurrent, Bundle
<1>3. SUFFICES ASSUME NEW j \in 1..(mapped[r] + 1)
               PROVE  /\ g[MapOrder[j]] = contents[from[r]][MapOrder[j]]
                      /\ g[MapOrder[j]] # Empty
  OBVIOUS
<1>4. MapOrder[j] \in File
  BY <1>1, <1>3, Numbers
<1>5. CASE MapOrder[j] = f
  BY <1>1, <1>5
<1>6. CASE MapOrder[j] # f
  <2>1. j \in 1..mapped[r]
    BY <1>1, <1>3, <1>6
  <2>. QED  BY <1>1, <1>2, <1>4, <1>6, <2>1
<1>. QED  BY <1>5, <1>6

LEMMA ReturnKeeps ==
  ASSUME BundlesIInv, NEW r \in Reader, from[r] \in Bundle,
         NEW o \in Version \cup {None, Torn}, Return(r, o),
         asking' = asking \ {r},
         UNCHANGED <<contents, bufs, synced, copy, copyClean>>
  PROVE  BundlesIInv'
<1>1. /\ outcome' = [outcome EXCEPT ![from[r]][r] = o]
      /\ from' = [from EXCEPT ![r] = "idle"]
      /\ mapped' = [mapped EXCEPT ![r] = 0]
      /\ got' = [got EXCEPT ![r] = NothingMapped]
      /\ tainted' = tainted \ {r}
  BY DEF Return
<1>2. BundlesTypeOK'
  <2>1. /\ 0 \in 0..(N-1) /\ NothingMapped \in [File -> Content \cup {NoFile}]
    BY Numbers DEF NothingMapped
  <2>2. outcome' \in [Bundle -> [Reader -> Version \cup {None, Torn}]]
    BY <1>1 DEF BundlesIInv, BundlesTypeOK
  <2>3. /\ from' \in [Reader -> Bundle \cup {"idle"}]
        /\ mapped' \in [Reader -> 0..(N-1)]
        /\ got' \in [Reader -> [File -> Content \cup {NoFile}]]
        /\ tainted' \subseteq Reader /\ asking' \subseteq Reader
    BY <1>1, <2>1 DEF BundlesIInv, BundlesTypeOK
  <2>. QED  BY <2>2, <2>3 DEF BundlesIInv, BundlesTypeOK
<1>3. ASSUME NEW q \in Reader
      PROVE  IF q = r THEN from'[q] = "idle" /\ mapped'[q] = 0 /\ q \notin tainted'
             ELSE /\ from'[q] = from[q] /\ mapped'[q] = mapped[q] /\ got'[q] = got[q]
                  /\ q \in tainted' <=> q \in tainted
  BY <1>1 DEF BundlesIInv, BundlesTypeOK
<1>4. MapsAreCurrent'
  BY <1>3 DEF BundlesIInv, MapsAreCurrent
<1>5. TaintedMap' /\ AskingMap' /\ IdleMapsNothing'
  BY <1>2, <1>3 DEF BundlesIInv, BundlesTypeOK, TaintedMap, AskingMap, IdleMapsNothing
<1>6. CopyGoesOn' /\ CopyIsCurrent'
  BY DEF BundlesIInv, CopyGoesOn, CopyIsCurrent
<1>. QED  BY <1>2, <1>4, <1>5, <1>6 DEF BundlesIInv

LEMMA MapFileKeeps ==
  ASSUME BundlesIInv, NEW r \in Reader, MapFile(r)
  PROVE  BundlesIInv'
<1>1. PICK f \in File :
        /\ f = MapOrder[mapped[r] + 1] /\ mapped[r] + 1 \in 1..N /\ from[r] \in Bundle
        /\ UNCHANGED <<contents, bufs, synced, asking, copy, copyClean>> /\ r \notin asking
        /\ LET c == contents[from[r]][f]
               g == [got[r] EXCEPT ![f] = c]
           IN  \/ c = Empty /\ Return(r, None)
               \/ c # Empty /\ mapped[r] + 1 = N /\ Return(r, Assembled(g))
               \/ /\ c # Empty /\ mapped[r] + 1 < N
                  /\ got' = [got EXCEPT ![r] = g]
                  /\ mapped' = [mapped EXCEPT ![r] = @ + 1]
                  /\ UNCHANGED <<from, outcome, tainted>>
  BY MapFileIs
<1>. DEFINE c == contents[from[r]][f]
            g == [got[r] EXCEPT ![f] = c]
<1>2. asking' = asking \ {r}
  BY <1>1
<1>3. CASE Return(r, None)
  BY <1>1, <1>3, <1>2, ReturnKeeps
<1>4. CASE Return(r, Assembled(g))
  <2>1. Assembled(g) \in Version \cup {None, Torn}
    <3>1. MapOrder[1] \in File
      BY Numbers
    <3>2. ASSUME NEW v \in Version, \A h \in File : g[h] = Whole(v)
          PROVE  g[MapOrder[1]].v = v
      BY <3>1, <3>2 DEF Whole
    <3>. HIDE DEF g
    <3>. QED  BY <3>2 DEF Assembled
  <2>. HIDE DEF g
  <2>. QED  BY <1>1, <1>4, <1>2, <2>1, ReturnKeeps
<1>5. CASE /\ c # Empty /\ mapped[r] + 1 < N
           /\ got' = [got EXCEPT ![r] = g]
           /\ mapped' = [mapped EXCEPT ![r] = @ + 1]
           /\ UNCHANGED <<from, outcome, tainted>>
  <2>1. c \in Stored /\ c \in Content
    BY <1>1, HeldIs DEF BundlesIInv, BundlesTypeOK, Stored
  <2>2. mapped[r] \in 0..(N-1) /\ mapped[r] + 1 \in 0..(N-1)
    BY <1>5, Numbers DEF BundlesIInv, BundlesTypeOK
  <2>3. got[r] \in [File -> Content \cup {NoFile}]
    BY DEF BundlesIInv, BundlesTypeOK
  <2>4. g \in [File -> Content \cup {NoFile}]
    BY <2>1, <2>3
  <2>5. r \notin tainted =>
          \A j \in 1..(mapped[r] + 1) : /\ g[MapOrder[j]] = contents[from[r]][MapOrder[j]]
                                        /\ g[MapOrder[j]] # Empty
    BY <1>1, <1>5, MappedMore
  <2>. HIDE DEF g, c
  <2>6. BundlesTypeOK'
    BY <1>1, <1>5, <2>2, <2>4 DEF BundlesIInv, BundlesTypeOK
  <2>7. ASSUME NEW q \in Reader
        PROVE  /\ mapped'[q] = IF q = r THEN mapped[r] + 1 ELSE mapped[q]
               /\ got'[q] = IF q = r THEN g ELSE got[q]
    BY <1>5 DEF BundlesIInv, BundlesTypeOK
  <2>8. MapsAreCurrent'
    <3>0. UNCHANGED <<contents, from, tainted>>
      BY <1>1, <1>5
    <3>1. SUFFICES ASSUME NEW q \in Reader, from[q] # "idle", q \notin tainted
                   PROVE  /\ CurrentOf(contents[from[q]]) # Torn
                          /\ \A j \in 1..mapped'[q] :
                               /\ got'[q][MapOrder[j]] = contents[from[q]][MapOrder[j]]
                               /\ got'[q][MapOrder[j]] # Empty
      BY <3>0 DEF MapsAreCurrent
    <3>2. /\ CurrentOf(contents[from[q]]) # Torn
          /\ \A j \in 1..mapped[q] : /\ got[q][MapOrder[j]] = contents[from[q]][MapOrder[j]]
                                     /\ got[q][MapOrder[j]] # Empty
      BY <3>1 DEF BundlesIInv, MapsAreCurrent
    <3>3. CASE q = r
      BY <2>5, <2>7, <3>1, <3>2, <3>3
    <3>4. CASE q # r
      BY <2>7, <3>2, <3>4
    <3>. QED  BY <3>3, <3>4
  <2>9. TaintedMap' /\ AskingMap' /\ IdleMapsNothing'
    BY <1>1, <1>5, <2>7 DEF BundlesIInv, BundlesTypeOK, TaintedMap, AskingMap, IdleMapsNothing, Bundle
  <2>10. CopyGoesOn' /\ CopyIsCurrent'
    BY <1>1 DEF BundlesIInv, CopyGoesOn, CopyIsCurrent
  <2>. QED  BY <2>6, <2>8, <2>9, <2>10 DEF BundlesIInv
<1>. QED  BY <1>1, <1>3, <1>4, <1>5

\* The question of map_all_if_exists is answered.
LEMMA AskExistsKeeps ==
  ASSUME BundlesIInv, NEW r \in Reader, AskExists(r)
  PROVE  BundlesIInv'
<1>1. /\ r \in asking /\ from[r] \in Bundle /\ mapped[r] = 0
      /\ asking' = asking \ {r}
      /\ UNCHANGED <<contents, bufs, synced, copy, copyClean>>
  BY DEF AskExists, BundlesIInv, BundlesTypeOK, AskingMap
<1>2. CASE Return(r, None)
  BY <1>1, <1>2, ReturnKeeps
<1>3. CASE UNCHANGED <<from, mapped, got, outcome, tainted>>
  BY <1>1, <1>3
  DEF BundlesIInv, BundlesTypeOK, CopyGoesOn, MapsAreCurrent, TaintedMap, AskingMap, IdleMapsNothing,
      CopyIsCurrent
<1>. QED  BY <1>2, <1>3 DEF AskExists

\* The steps of copy_from between two calls of sync_all.
LEMMA CopyKeeps ==
  ASSUME BundlesIInv, BeginCopyFrom \/ CopyExists \/ CopyOpen
  PROVE  BundlesIInv'
<1>1. UNCHANGED <<contents, bufs, synced, from, asking, mapped, got, outcome, tainted>>
  BY DEF BeginCopyFrom, CopyExists, CopyOpen
<1>2. MapsAreCurrent' /\ TaintedMap' /\ AskingMap' /\ IdleMapsNothing'
  BY <1>1 DEF BundlesIInv, MapsAreCurrent, TaintedMap, AskingMap, IdleMapsNothing
<1>3. /\ contents["source"] \in [File -> Stored] /\ N \in Nat \ {0}
      /\ Empty \in Content /\ copy.file \in 0..N
      /\ \A j \in 1..N : CopyOrder[j] \in File
      /\ \A f \in File : contents["source"][f] \in Content
  BY Numbers, HeldIs DEF BundlesIInv, BundlesTypeOK, Stored, Bundle, Content
<1>4. CASE BeginCopyFrom
  <2>1. /\ copy' = [file |-> 1, step |-> "exists", input |-> Empty]
        /\ copyClean' = (CurrentOf(contents["source"]) \in Version)
    BY <1>4 DEF BeginCopyFrom
  <2>2. BundlesTypeOK'
    BY <1>1, <1>3, <2>1 DEF BundlesIInv, BundlesTypeOK
  <2>3. CopyGoesOn'
    BY <1>3, <2>1 DEF CopyGoesOn
  <2>4. CopyIsCurrent'
    <3>1. copy'.file = 1 /\ copy'.step = "exists" /\ contents' = contents
      BY <1>1, <2>1
    <3>2. \A j \in 1..N : ~(j < copy'.file)
      BY <1>3, <3>1
    <3>. QED  BY <2>1, <3>1, <3>2 DEF CopyIsCurrent
  <2>. QED  BY <1>2, <2>2, <2>3, <2>4 DEF BundlesIInv
<1>5. CASE CopyExists
  <2>1. /\ copy.step = "exists" /\ copyClean' = copyClean /\ copy.file \in 1..N
        /\ copy' = IF contents["source"][CopyOrder[copy.file]] = Empty
                   THEN NextFile ELSE [copy EXCEPT !.step = "open"]
    BY <1>5 DEF CopyExists, BundlesIInv, CopyGoesOn
  <2>2. CASE contents["source"][CopyOrder[copy.file]] = Empty
    <3>1. copy' = NextFile
      BY <2>1, <2>2
    <3>2. NextFile \in [file : 1..N, step : {"exists", "done"}, input : {Empty}]
      BY <1>3, <2>1 DEF NextFile, LastFile
    <3>3. BundlesTypeOK'
      BY <1>1, <1>3, <2>1, <3>1, <3>2 DEF BundlesIInv, BundlesTypeOK
    <3>4. CopyGoesOn'
      BY <3>1, <3>2 DEF CopyGoesOn
    <3>5. ~copyClean
      <4>1. CurrentOf(contents["source"]) \notin Version
        BY <1>3, <2>1, <2>2, CurrentIs
      <4>. QED  BY <4>1 DEF BundlesIInv, CopyIsCurrent
    <3>. QED  BY <1>2, <2>1, <3>3, <3>4, <3>5 DEF BundlesIInv, CopyIsCurrent
  <2>3. CASE contents["source"][CopyOrder[copy.file]] # Empty
    <3>1. copy' = [copy EXCEPT !.step = "open"]
      BY <2>1, <2>3
    <3>2. copy'.file = copy.file /\ copy'.step = "open"
      BY <3>1 DEF BundlesIInv, BundlesTypeOK
    <3>3. BundlesTypeOK'
      BY <1>1, <2>1, <3>1 DEF BundlesIInv, BundlesTypeOK
    <3>4. CopyGoesOn' /\ CopyIsCurrent'
      BY <1>1, <2>1, <3>2 DEF BundlesIInv, CopyGoesOn, CopyIsCurrent
    <3>. QED  BY <1>2, <3>3, <3>4 DEF BundlesIInv
  <2>. QED  BY <2>2, <2>3
<1>6. CASE CopyOpen
  <2>1. /\ copy.step = "open" /\ copyClean' = copyClean /\ copy.file \in 1..N
        /\ copy' = [copy EXCEPT !.step = "sync",
                                !.input = contents["source"][CopyOrder[copy.file]]]
    BY <1>6 DEF CopyOpen, BundlesIInv, CopyGoesOn
  <2>. DEFINE x == contents["source"][CopyOrder[copy.file]]
  <2>2. x \in Stored /\ x \in Content
    BY <1>3, <2>1
  <2>3. copy'.file = copy.file /\ copy'.step = "sync" /\ copy'.input = x
    BY <2>1 DEF BundlesIInv, BundlesTypeOK
  <2>4. BundlesTypeOK'
    BY <1>1, <2>1, <2>2 DEF BundlesIInv, BundlesTypeOK
  <2>5. CopyGoesOn' /\ CopyIsCurrent'
    BY <1>1, <2>1, <2>2, <2>3 DEF BundlesIInv, CopyGoesOn, CopyIsCurrent
  <2>. QED  BY <1>2, <2>4, <2>5 DEF BundlesIInv
<1>. QED  BY <1>4, <1>5, <1>6

\* copy_from syncs what it has read.
LEMMA CopySyncs ==
  ASSUME BundlesIInv, CopySync
  PROVE  \E g \in File : /\ g = CopyOrder[copy.file] /\ copy.file \in 1..N
                         /\ copy.input \in Stored
                         /\ SyncContents("target", g, copy.input)
BY Numbers DEF CopySync, Copied, BundlesIInv, CopyGoesOn

LEMMA CopySyncKeeps ==
  ASSUME BundlesIInv, CopySync
  PROVE  BundlesIInv'
<1>1. /\ UNCHANGED <<bufs, synced, from, asking, mapped, got, outcome>>
      /\ copy' = NextFile /\ copy.step = "sync"
  BY DEF CopySync
<1>2. PICK g \in File : /\ g = CopyOrder[copy.file] /\ copy.file \in 1..N
                        /\ copy.input \in Stored
                        /\ SyncContents("target", g, copy.input)
  BY CopySyncs
<1>3. "target" \in Bundle /\ "source" \in Bundle /\ "source" # "target"
  BY DEF Bundle
<1>4. /\ contents' \in [Bundle -> [File -> Stored]]
      /\ contents'["target"] = [contents["target"] EXCEPT ![g] = copy.input]
      /\ contents'["source"] = contents["source"]
      /\ tainted' \subseteq Reader
      /\ copyClean' = copyClean
      /\ MapsAreCurrent' /\ TaintedMap'
  <2>1. copyClean' = (copyClean /\ ~("target" = "source"
                                      /\ Replaced(contents["target"], contents'["target"])))
    BY <1>1, <1>2, <1>3, SyncAllMaps
  <2>2. copyClean \in BOOLEAN
    BY DEF BundlesIInv, BundlesTypeOK
  <2>3. copyClean' = copyClean
    BY <2>1, <2>2
  <2>. QED  BY <1>1, <1>2, <1>3, <2>3, SyncAllMaps
<1>5. /\ NextFile \in [file : 1..N, step : {"exists", "done"}, input : {Empty}]
      /\ \A j \in 1..N : j < NextFile.file \/ NextFile.step = "done" => j <= copy.file
  <2>1. N \in Nat \ {0} /\ copy.file \in 1..N
    BY <1>2, Numbers
  <2>2. CASE copy.file = N
    BY <2>1, <2>2 DEF NextFile, LastFile
  <2>3. CASE copy.file # N
    BY <2>1, <2>3 DEF NextFile, LastFile
  <2>. QED  BY <2>2, <2>3
<1>6. BundlesTypeOK'
  <2>1. copy' \in [file : 0..N, step : {"idle", "exists", "open", "sync", "done"},
                   input : Content]
    BY <1>1, <1>5 DEF Content
  <2>2. contents' \in [Bundle -> [File -> {Empty} \cup {Whole(v) : v \in Version}]]
    BY <1>4 DEF Stored
  <2>. QED  BY <1>1, <1>4, <2>1, <2>2 DEF BundlesIInv, BundlesTypeOK
<1>7. CopyGoesOn' /\ AskingMap' /\ IdleMapsNothing'
  BY <1>1, <1>5 DEF BundlesIInv, CopyGoesOn, AskingMap, IdleMapsNothing
<1>8. CopyIsCurrent'
  <2>1. SUFFICES ASSUME copyClean, NEW j \in 1..N, j <= copy.file
                 PROVE  contents'["target"][CopyOrder[j]] = contents["source"][CopyOrder[j]]
    BY <1>1, <1>4, <1>5 DEF BundlesIInv, CopyIsCurrent
  <2>2. /\ copy.input = contents["source"][g]
        /\ j < copy.file => contents["target"][CopyOrder[j]] = contents["source"][CopyOrder[j]]
    BY <1>1, <1>2, <2>1 DEF BundlesIInv, CopyIsCurrent
  <2>3. contents["target"] \in [File -> Stored] /\ CopyOrder[j] \in File
    BY <1>3, Numbers DEF BundlesIInv, BundlesTypeOK, Stored
  <2>4. CASE CopyOrder[j] = g
    BY <1>4, <2>2, <2>3, <2>4
  <2>5. CASE CopyOrder[j] # g
    BY <1>2, <1>4, <2>1, <2>2, <2>3, <2>5
  <2>. QED  BY <2>4, <2>5
<1>. QED  BY <1>4, <1>6, <1>7, <1>8 DEF BundlesIInv

LEMMA BundlesStepInvariant ==
  ASSUME BundlesIInv, [BundlesNext]_bundleVars
  PROVE  BundlesIInv'
<1>1. CASE UNCHANGED bundleVars
  BY <1>1 DEF bundleVars, BundlesIInv, BundlesTypeOK, CopyGoesOn, MapsAreCurrent, TaintedMap, AskingMap,
              IdleMapsNothing, CopyIsCurrent
<1>. QED
  BY <1>1, WriteBufKeeps, WriterSyncKeeps, BeginKeeps, AskExistsKeeps, MapFileKeeps,
     CopyKeeps, CopySyncKeeps
  DEF BundlesNext

\* Writers, readers and a copy_from keep BundlesIInv, whatever order their calls come in.
THEOREM BundlesInvariance == BundlesSpec => []BundlesIInv
<1>1. BundlesInit => BundlesIInv
  BY BundlesInitInvariant
<1>2. BundlesIInv /\ [BundlesNext]_bundleVars => BundlesIInv'
  BY BundlesStepInvariant
<1>. QED  BY <1>1, <1>2, PTL DEF BundlesSpec

\* Type correctness: no file ever holds part of what a writer writes.
THEOREM BundlesTypeCorrect == BundlesSpec => []BundlesTypeOK
<1>1. BundlesIInv => BundlesTypeOK
  BY DEF BundlesIInv
<1>. QED  BY <1>1, BundlesInvariance, PTL

\* A copy_from of a complete source that nobody replaces is a copy, in whatever
\* order it takes the files.
THEOREM CopyIsFaithful == BundlesSpec => []FaithfulCopy
<1>1. BundlesIInv => FaithfulCopy
  <2>1. SUFFICES ASSUME BundlesIInv, copy.step = "done", copyClean
                 PROVE  contents["target"] = contents["source"]
    BY DEF FaithfulCopy
  <2>2. \A j \in 1..N : contents["target"][CopyOrder[j]] = contents["source"][CopyOrder[j]]
    BY <2>1 DEF BundlesIInv, CopyIsCurrent
  <2>3. \A f \in File : contents["target"][f] = contents["source"][f]
    BY <2>2, Numbers
  <2>4. contents["target"] \in [File -> Stored] /\ contents["source"] \in [File -> Stored]
    BY <2>1 DEF BundlesIInv, BundlesTypeOK, Stored, Bundle
  <2>. QED  BY <2>3, <2>4
<1>. QED  BY <1>1, BundlesInvariance, PTL

-----------------------------------------------------------------------------
(* The refinement, of bundle b.                                            *)

Outcomes == Version \cup {None, Torn}

\* The initial state and the steps of BundleSpec, of the register b is.
InitOf(b) ==
  /\ CurrentOf(contents[b]) = None
  /\ Reading(b) = {}
  /\ tainted \cap Reading(b) = {}
  /\ outcome[b] = [r \in Reader |-> None]

PublishOf(b) ==
  /\ CurrentOf(contents[b]) = None
  /\ CurrentOf(contents'[b]) \in Version
  /\ Reading(b)' = Reading(b)
  /\ (tainted \cap Reading(b))' = tainted \cap Reading(b)
  /\ outcome'[b] = outcome[b]

ReplaceOf(b) ==
  /\ CurrentOf(contents'[b]) \in Outcomes
  /\ (tainted \cap Reading(b))' = (tainted \cap Reading(b)) \cup Reading(b)
  /\ Reading(b)' = Reading(b)
  /\ outcome'[b] = outcome[b]

BeginOf(b, r) ==
  /\ r \notin Reading(b)
  /\ Reading(b)' = Reading(b) \cup {r}
  /\ (tainted \cap Reading(b))' = IF CurrentOf(contents[b]) = Torn
                                  THEN (tainted \cap Reading(b)) \cup {r}
                                  ELSE tainted \cap Reading(b)
  /\ contents'[b] = contents[b]
  /\ outcome'[b] = outcome[b]

ReturnOf(b, r, o) ==
  /\ r \in Reading(b)
  /\ r \in tainted \cap Reading(b) \/ o = CurrentOf(contents[b])
  /\ Reading(b)' = Reading(b) \ {r}
  /\ (tainted \cap Reading(b))' = (tainted \cap Reading(b)) \ {r}
  /\ outcome'[b] = [outcome[b] EXCEPT ![r] = o]
  /\ contents'[b] = contents[b]

SameOf(b) ==
  /\ CurrentOf(contents'[b]) = CurrentOf(contents[b])
  /\ Reading(b)' = Reading(b)
  /\ (tainted \cap Reading(b))' = tainted \cap Reading(b)
  /\ outcome'[b] = outcome[b]

StepOf(b) == \/ PublishOf(b)
             \/ ReplaceOf(b)
             \/ \E r \in Reader : BeginOf(b, r)
             \/ \E r \in Reader, o \in Outcomes : ReturnOf(b, r, o)
             \/ SameOf(b)

\* What a sync_all of bundle a is to bundle b.
LEMMA SyncAllRefines ==
  ASSUME BundlesIInv, NEW a \in Bundle, NEW g \in File, NEW x \in Stored, SyncContents(a, g, x),
         UNCHANGED <<from, mapped, got, outcome>>, NEW b \in Bundle
  PROVE  StepOf(b)
<1>1. /\ contents' \in [Bundle -> [File -> Stored]]
      /\ contents'[a] = [contents[a] EXCEPT ![g] = x]
      /\ \A e \in Bundle : e # a => contents'[e] = contents[e]
      /\ tainted' = IF Replaced(contents[a], contents'[a]) THEN tainted \cup Reading(a)
                                                           ELSE tainted
  BY SyncAllMaps
<1>2. /\ Reading(b)' = Reading(b)
      /\ outcome'[b] = outcome[b]
  BY DEF Reading
<1>3. CASE b # a
  <2>1. Reading(a) \cap Reading(b) = {}
    BY <1>3 DEF Reading
  <2>2. (tainted \cap Reading(b))' = tainted \cap Reading(b)
    BY <1>1, <1>2, <2>1
  <2>. QED  BY <1>1, <1>2, <1>3, <2>2 DEF StepOf, SameOf
<1>4. CASE b = a
  <2>1. contents[a] \in [File -> Stored] /\ contents'[a] \in [File -> Stored]
    BY <1>1 DEF BundlesIInv, BundlesTypeOK, Stored
  <2>2. CASE Replaced(contents[a], contents'[a])
    <3>1. CurrentOf(contents'[b]) \in Outcomes
      BY <1>4, <2>1, CurrentType DEF Outcomes
    <3>2. (tainted \cap Reading(b))' = (tainted \cap Reading(b)) \cup Reading(b)
      BY <1>1, <1>2, <1>4, <2>2
    <3>. QED  BY <1>2, <3>1, <3>2 DEF StepOf, ReplaceOf
  <2>3. CASE ~Replaced(contents[a], contents'[a])
    <3>1. \A f \in File : f # g => contents'[a][f] = contents[a][f]
      BY <1>1, <2>1
    <3>2. \/ CurrentOf(contents[a]) = CurrentOf(contents'[a])
          \/ CurrentOf(contents[a]) = None /\ CurrentOf(contents'[a]) \in Version
      BY <2>1, <2>3, <3>1, NotReplaced
    <3>3. (tainted \cap Reading(b))' = tainted \cap Reading(b)
      BY <1>1, <1>2, <2>3
    <3>. QED  BY <1>2, <1>4, <3>2, <3>3 DEF StepOf, PublishOf, SameOf
  <2>. QED  BY <2>2, <2>3
<1>. QED  BY <1>3, <1>4

LEMMA BeginRefines ==
  ASSUME BundlesIInv, NEW r \in Reader, NEW a \in Bundle,
         BeginMapAll(r, a) \/ BeginMapAllIfExists(r, a), NEW b \in Bundle
  PROVE  StepOf(b)
<1>1. /\ from[r] = "idle" /\ from' = [from EXCEPT ![r] = a]
      /\ tainted' = IF CurrentOf(contents[a]) = Torn THEN tainted \cup {r} ELSE tainted
      /\ contents' = contents /\ outcome' = outcome
      /\ r \notin tainted
  BY DEF BeginMapAll, BeginMapAllIfExists, Open, BundlesIInv, TaintedMap
<1>2. r \notin Reading(b)
  BY <1>1 DEF Reading, Bundle
<1>3. Reading(b)' = IF a = b THEN Reading(b) \cup {r} ELSE Reading(b)
  BY <1>1 DEF Reading, Bundle, BundlesIInv, BundlesTypeOK
<1>4. CASE a = b
  <2>1. (tainted \cap Reading(b))' = IF CurrentOf(contents[b]) = Torn
                                     THEN (tainted \cap Reading(b)) \cup {r}
                                     ELSE tainted \cap Reading(b)
    BY <1>1, <1>2, <1>3, <1>4
  <2>. QED  BY <1>1, <1>2, <1>3, <1>4, <2>1 DEF StepOf, BeginOf
<1>5. CASE a # b
  <2>1. (tainted \cap Reading(b))' = tainted \cap Reading(b)
    BY <1>1, <1>2, <1>3, <1>5
  <2>. QED  BY <1>1, <1>3, <1>5, <2>1 DEF StepOf, SameOf
<1>. QED  BY <1>4, <1>5

\* What map_all returns: nothing where a file is empty, else what all have.
LEMMA ReturnsCurrent ==
  ASSUME BundlesIInv, NEW r \in Reader, from[r] \in Bundle, r \notin tainted,
         NEW f \in File, f = MapOrder[mapped[r] + 1]
  PROVE  LET c == contents[from[r]]
             g == [got[r] EXCEPT ![f] = c[f]]
         IN  /\ c[f] = Empty => CurrentOf(c) = None
             /\ c[f] # Empty /\ mapped[r] + 1 = N => CurrentOf(c) = Assembled(g)
<1>. DEFINE c == contents[from[r]]
            g == [got[r] EXCEPT ![f] = c[f]]
<1>1. c \in [File -> Stored]
  BY DEF BundlesIInv, BundlesTypeOK, Stored
<1>2. CurrentOf(c) # Torn
  BY DEF BundlesIInv, MapsAreCurrent, Bundle
<1>3. ~Mixed(c)
  BY <1>1, <1>2, CurrentIs
<1>4. ASSUME c[f] # Empty, mapped[r] + 1 = N
      PROVE  CurrentOf(c) = Assembled(g)
  <2>1. \A j \in 1..N : g[MapOrder[j]] = c[MapOrder[j]] /\ g[MapOrder[j]] # Empty
    BY <1>4, MappedMore
  <2>. HIDE DEF c, g
  <2>2. \A h \in File : g[h] = c[h] /\ c[h] # Empty
    BY <2>1, Numbers
  <2>3. /\ CurrentOf(c) \in Version
        /\ \A h \in File : g[h] = Whole(CurrentOf(c))
    BY <1>1, <1>3, <2>2, CurrentIs
  <2>4. MapOrder[1] \in File
    BY Numbers
  <2>5. g[MapOrder[1]].v = CurrentOf(c)
    BY <2>3, <2>4 DEF Whole
  <2>. QED  BY <2>3, <2>5 DEF Assembled
<1>5. c[f] = Empty => CurrentOf(c) = None
  BY <1>1, <1>3, CurrentIs
<1>. QED  BY <1>4, <1>5

LEMMA ReturnRefines ==
  ASSUME BundlesIInv, NEW r \in Reader, from[r] \in Bundle, NEW o \in Outcomes, Return(r, o),
         contents' = contents,
         r \in tainted \/ o = CurrentOf(contents[from[r]]),
         NEW b \in Bundle
  PROVE  StepOf(b)
<1>1. /\ outcome' = [outcome EXCEPT ![from[r]][r] = o]
      /\ from' = [from EXCEPT ![r] = "idle"]
      /\ tainted' = tainted \ {r}
  BY DEF Return
<1>2. Reading(b)' = Reading(b) \ {r}
  BY <1>1 DEF Reading, Bundle, BundlesIInv, BundlesTypeOK
<1>3. (tainted \cap Reading(b))' = (tainted \cap Reading(b)) \ {r}
  BY <1>1, <1>2
<1>4. CASE from[r] = b
  <2>1. r \in Reading(b)
    BY <1>4 DEF Reading
  <2>2. outcome'[b] = [outcome[b] EXCEPT ![r] = o]
    BY <1>1, <1>4 DEF BundlesIInv, BundlesTypeOK
  <2>. QED  BY <1>2, <1>3, <1>4, <2>1, <2>2 DEF StepOf, ReturnOf
<1>5. CASE from[r] # b
  <2>1. r \notin Reading(b)
    BY <1>5 DEF Reading
  <2>2. outcome'[b] = outcome[b]
    BY <1>1, <1>5 DEF BundlesIInv, BundlesTypeOK
  <2>. QED  BY <1>2, <1>3, <2>1, <2>2 DEF StepOf, SameOf
<1>. QED  BY <1>4, <1>5

LEMMA AssembledType ==
  ASSUME NEW g
  PROVE  Assembled(g) \in Outcomes
<1>1. MapOrder[1] \in File
  BY Numbers
<1>2. ASSUME NEW v \in Version, \A h \in File : g[h] = Whole(v)
      PROVE  g[MapOrder[1]].v = v
  BY <1>1, <1>2 DEF Whole
<1>. QED  BY <1>2 DEF Assembled, Outcomes

LEMMA MapFileRefines ==
  ASSUME BundlesIInv, NEW r \in Reader, MapFile(r), NEW b \in Bundle
  PROVE  StepOf(b)
<1>1. PICK f \in File :
        /\ f = MapOrder[mapped[r] + 1] /\ mapped[r] + 1 \in 1..N /\ from[r] \in Bundle
        /\ UNCHANGED <<contents, bufs, synced, asking, copy, copyClean>> /\ r \notin asking
        /\ LET c == contents[from[r]][f]
               g == [got[r] EXCEPT ![f] = c]
           IN  \/ c = Empty /\ Return(r, None)
               \/ c # Empty /\ mapped[r] + 1 = N /\ Return(r, Assembled(g))
               \/ /\ c # Empty /\ mapped[r] + 1 < N
                  /\ got' = [got EXCEPT ![r] = g]
                  /\ mapped' = [mapped EXCEPT ![r] = @ + 1]
                  /\ UNCHANGED <<from, outcome, tainted>>
  BY MapFileIs
<1>. DEFINE c == contents[from[r]][f]
            g == [got[r] EXCEPT ![f] = c]
<1>2. r \notin tainted =>
        /\ c = Empty => CurrentOf(contents[from[r]]) = None
        /\ c # Empty /\ mapped[r] + 1 = N => CurrentOf(contents[from[r]]) = Assembled(g)
  BY <1>1, ReturnsCurrent
<1>3. Assembled(g) \in Outcomes /\ None \in Outcomes
  BY AssembledType DEF Outcomes
<1>4. CASE c = Empty /\ Return(r, None)
  BY <1>1, <1>2, <1>3, <1>4, ReturnRefines
<1>5. CASE c # Empty /\ mapped[r] + 1 = N /\ Return(r, Assembled(g))
  <2>1. r \in tainted \/ Assembled(g) = CurrentOf(contents[from[r]])
    BY <1>2, <1>5
  <2>2. contents' = contents /\ from[r] \in Bundle /\ Return(r, Assembled(g))
    BY <1>1, <1>5
  <2>. HIDE DEF g
  <2>. QED  BY <1>3, <2>1, <2>2, ReturnRefines
<1>6. CASE UNCHANGED <<from, outcome, tainted>>
  BY <1>1, <1>6 DEF StepOf, SameOf, Reading
<1>. QED  BY <1>1, <1>4, <1>5, <1>6

LEMMA AskExistsRefines ==
  ASSUME BundlesIInv, NEW r \in Reader, AskExists(r), NEW b \in Bundle
  PROVE  StepOf(b)
<1>1. from[r] \in Bundle /\ mapped[r] = 0 /\ contents' = contents
  BY DEF AskExists, BundlesIInv, BundlesTypeOK, AskingMap
<1>2. MapOrder[1] \in File
  BY Numbers
<1>3. CASE contents[from[r]][MapOrder[1]] = Empty /\ Return(r, None)
  <2>1. PICK f \in File : f = MapOrder[1] /\ f = MapOrder[mapped[r] + 1]
    BY <1>1, <1>2
  <2>2. contents[from[r]][f] = Empty
    BY <1>3, <2>1
  <2>3. r \in tainted \/ None = CurrentOf(contents[from[r]])
    BY <1>1, <2>1, <2>2, ReturnsCurrent
  <2>4. None \in Outcomes
    BY DEF Outcomes
  <2>. QED  BY <1>1, <1>3, <2>3, <2>4, ReturnRefines
<1>4. CASE UNCHANGED <<from, outcome, tainted>>
  BY <1>1, <1>4 DEF StepOf, SameOf, Reading
<1>. QED  BY <1>3, <1>4 DEF AskExists

LEMMA BundlesStepRefines ==
  ASSUME BundlesIInv, [BundlesNext]_bundleVars, NEW b \in Bundle
  PROVE  StepOf(b)
<1>1. ASSUME NEW w \in Version, WriteBuf(w)
      PROVE  StepOf(b)
  BY <1>1 DEF WriteBuf, StepOf, SameOf, Reading
<1>2. ASSUME NEW w \in Version, WriterSync(w)
      PROVE  StepOf(b)
  <2>1. Whole(w) \in Stored /\ "source" \in Bundle
    BY DEF Stored, Bundle
  <2>2. PICK g \in File : SyncContents("source", g, Whole(w))
    BY <1>2, WriterSyncs
  <2>3. UNCHANGED <<from, mapped, got, outcome>>
    BY <1>2 DEF WriterSync
  <2>. QED  BY <2>1, <2>2, <2>3, SyncAllRefines
<1>3. ASSUME BeginCopyFrom \/ CopyExists \/ CopyOpen
      PROVE  StepOf(b)
  BY <1>3 DEF BeginCopyFrom, CopyExists, CopyOpen, StepOf, SameOf, Reading
<1>4. ASSUME CopySync
      PROVE  StepOf(b)
  <2>1. PICK g \in File : copy.input \in Stored /\ SyncContents("target", g, copy.input)
    BY <1>4, CopySyncs
  <2>2. UNCHANGED <<from, mapped, got, outcome>> /\ "target" \in Bundle
    BY <1>4 DEF CopySync, Bundle
  <2>. QED  BY <2>1, <2>2, SyncAllRefines
<1>5. CASE UNCHANGED bundleVars
  BY <1>5 DEF bundleVars, StepOf, SameOf, Reading
<1>. QED
  BY <1>1, <1>2, <1>3, <1>4, <1>5, BeginRefines, AskExistsRefines, MapFileRefines DEF BundlesNext

LEMMA BundlesInitRefines ==
  ASSUME BundlesInit, NEW b \in Bundle
  PROVE  InitOf(b)
<1>1. contents[b] = [f \in File |-> Empty]
  BY DEF BundlesInit
<1>2. contents[b] \in [File -> Stored] /\ \A f \in File : contents[b][f] = Empty
  BY <1>1 DEF Stored
<1>3. CurrentOf(contents[b]) = None
  <2>1. ~Mixed(contents[b]) /\ \E f \in File : contents[b][f] = Empty
    BY <1>2 DEF Mixed
  <2>. QED  BY <1>2, <2>1, CurrentIs
<1>. QED  BY <1>3 DEF BundlesInit, InitOf, Reading, Bundle

\* The files written one after another are a register to those who map them: a
\* map that no replacement overlapped returns what is current, None before the
\* first publication is complete.
THEOREM SourceIsAtomic == BundlesSpec => SourceAtomic
<1>1. BundlesInit => Source!Init
  BY BundlesInitRefines DEF Bundle, InitOf, Source!Init
<1>2. BundlesIInv /\ [BundlesNext]_bundleVars => [Source!Next]_Source!vars
  <2>1. SUFFICES ASSUME BundlesIInv, [BundlesNext]_bundleVars
                 PROVE  [Source!Next]_Source!vars
    OBVIOUS
  <2>2. StepOf("source")
    BY <2>1, BundlesStepRefines DEF Bundle
  <2>. QED
    BY <2>2 DEF StepOf, PublishOf, ReplaceOf, BeginOf, ReturnOf, SameOf, Outcomes,
                Source!Next, Source!Publish, Source!Replace, Source!Begin, Source!Return,
                Source!vars
<1>. QED  BY <1>1, <1>2, BundlesInvariance, PTL DEF BundlesSpec, SourceAtomic, Source!Spec

\* So are those copy_from fills, from a source that may change meanwhile.
THEOREM TargetIsAtomic == BundlesSpec => TargetAtomic
<1>1. BundlesInit => Target!Init
  BY BundlesInitRefines DEF Bundle, InitOf, Target!Init
<1>2. BundlesIInv /\ [BundlesNext]_bundleVars => [Target!Next]_Target!vars
  <2>1. SUFFICES ASSUME BundlesIInv, [BundlesNext]_bundleVars
                 PROVE  [Target!Next]_Target!vars
    OBVIOUS
  <2>2. StepOf("target")
    BY <2>1, BundlesStepRefines DEF Bundle
  <2>. QED
    BY <2>2 DEF StepOf, PublishOf, ReplaceOf, BeginOf, ReturnOf, SameOf, Outcomes,
                Target!Next, Target!Publish, Target!Replace, Target!Begin, Target!Return,
                Target!vars
<1>. QED  BY <1>1, <1>2, BundlesInvariance, PTL DEF BundlesSpec, TargetAtomic, Target!Spec
=============================================================================
