-------------------------- MODULE WithholdingReader --------------------------
(***************************************************************************)
(* DontReadLastU64Reader (tfc/stream.rs) over a file that may be read a    *)
(* few bytes at a time, and the read_exact loops of the block parser that  *)
(* call it.  The reader has to withhold the last Held bytes, which are no  *)
(* block, and learns where they are only when the file ends.               *)
(*                                                                         *)
(* The parser stops at the first end it meets.  It asks for nothing with a *)
(* length of zero: read_exact makes no call then.  An interrupted read of  *)
(* the file leaves everything as it is and is tried again; another error   *)
(* ends the iteration, as if no step came any more.                        *)
(***************************************************************************)
EXTENDS Integers, Sequences

CONSTANTS Byte,
          Held,        \* 8: the bytes withheld
          Files,       \* the files that may be read
          MaxRequest   \* bound: bytes of one read_exact

ASSUME HeldAssumption == Held \in Nat \ {0}
ASSUME FilesAssumption == Files \subseteq Seq(Byte)
ASSUME RequestAssumption == MaxRequest \in Nat

VARIABLES
  file,
  pos,          \* bytes of the file the inner reader has given
  buf,          \* buf[..buf_len]
  initialized,
  readPhase,    \* idle, reading (in a read_exact) or eof
  wanted,       \* bytes the read_exact still waits for
  taken         \* history: the bytes it was given

inner == <<file, pos, buf, initialized>>
readVars == <<inner, readPhase, wanted, taken>>

ReadInit == /\ file \in Files
            /\ pos = 0 /\ buf = <<>> /\ initialized = FALSE
            /\ readPhase = "idle" /\ wanted = 0 /\ taken = <<>>

Least(a, b) == IF a <= b THEN a ELSE b
Behind(s, n) == SubSeq(s, n + 1, Len(s))

ReadExact(n) == /\ readPhase = "idle"
                /\ readPhase' = "reading" /\ wanted' = n
                /\ UNCHANGED <<inner, taken>>

-----------------------------------------------------------------------------
(* read.  The first one fills buf before it goes on.                       *)

Filled == IF initialized THEN buf ELSE SubSeq(file, 1, Held)
At     == IF initialized THEN pos ELSE Held

\* The bytes that go out, when as many new ones have come in: those in b first.
\* Mutant: those in b only.
FromBuf(b, n) == Least(n, Len(b))
Output_BufOnly(b, new) == SubSeq(b, 1, FromBuf(b, Len(new)))
Output(b, new) == SubSeq(b, 1, FromBuf(b, Len(new)))
                    \o SubSeq(new, 1, Len(new) - FromBuf(b, Len(new)))

\* What stays: what of b and the new bytes has not gone out, and of that no
\* more than its last Held bytes.
Kept(s) == Behind(s, Len(s) - Least(Len(s), Held))

\* Mutants: nothing of it is cut off; what is too much is cut off at the end.
NewBuf_Uncut(b, new) == Behind(b, FromBuf(b, Len(new))) \o new
NewBuf_First(b, new) == SubSeq(NewBuf_Uncut(b, new), 1, Held)
NewBuf(b, new) ==
  Kept(Behind(Behind(b, FromBuf(b, Len(new))) \o new,
               Len(new) - FromBuf(b, Len(new))))

\* The file is shorter than buf: read_exact of it fails, and so does the read.
ReadTooShort ==
  /\ readPhase = "reading" /\ ~initialized /\ Len(file) < Held
  /\ initialized' = TRUE /\ pos' = Len(file)
  /\ readPhase' = "eof"
  /\ UNCHANGED <<file, buf, wanted, taken>>

\* k new bytes come in, at most as many as there is room for in the caller's
\* buffer.
ReadSome(k) ==
  /\ readPhase = "reading"
  /\ k <= wanted /\ At + k <= Len(file)
  /\ LET new == SubSeq(file, At + 1, At + k)
     IN  /\ buf' = NewBuf(Filled, new)
         /\ taken' = taken \o Output(Filled, new)
  /\ initialized' = TRUE /\ pos' = At + k
  /\ wanted' = wanted - k
  /\ readPhase' = IF k = wanted THEN "idle" ELSE "reading"
  /\ UNCHANGED file

\* Nothing more comes in: buf holds the tail, and nothing goes out.
ReadEnd ==
  /\ readPhase = "reading"
  /\ At = Len(file)
  /\ initialized' = TRUE /\ pos' = At
  /\ buf' = <<>>
  /\ readPhase' = "eof"
  /\ UNCHANGED <<file, wanted, taken>>

ReadNext == \/ \E n \in 1..MaxRequest : ReadExact(n) \/ ReadSome(n)
            \/ ReadTooShort \/ ReadEnd

ReadSpec == ReadInit /\ [][ReadNext]_readVars

-----------------------------------------------------------------------------
ReadTypeOK == /\ file \in Files
              /\ pos \in 0..Len(file)
              /\ buf \in Seq(Byte) /\ Len(buf) <= Held
              /\ initialized \in BOOLEAN
              /\ readPhase \in {"idle", "reading", "eof"}
              /\ wanted \in 0..MaxRequest
              /\ taken \in Seq(Byte)

\* Between what was given and what the file has yet to give, the reader holds
\* exactly Held bytes, however the file's short reads fall: the bytes it goes
\* on to withhold are always the last ones it has seen.
HoldsTheTail ==
  initialized /\ readPhase # "eof" =>
    /\ Len(buf) = Held /\ pos >= Held
    /\ taken = SubSeq(file, 1, pos - Held)
    /\ buf = SubSeq(file, pos - Held + 1, pos)

\* The reader is a plain reader of the file without its tail: no byte is given
\* twice, out of order or left out, and the end comes after the last one only.
AllButTail(f) == SubSeq(f, 1, Len(f) - Held)
Shown == INSTANCE ReaderSpec WITH data <- AllButTail(file),
                                  Data <- {AllButTail(f) : f \in Files},
                                  given <- taken, phase <- readPhase
ReadsAllButTail == Shown!Spec
=============================================================================
