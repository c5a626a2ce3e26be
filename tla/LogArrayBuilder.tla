--------------------------- MODULE LogArrayBuilder ---------------------------
(***************************************************************************)
(* The builders of logarray.rs: LogArrayBufBuilder and LogArrayFileBuilder *)
(* (the same packing, to a buffer and to a file), which are told the width *)
(* and pack each value as it comes, and LateLogArrayBufBuilder, which      *)
(* keeps the values, finds the width, and packs them when it is finalized. *)
(*                                                                         *)
(* A push that panics or returns an error for a value that does not fit    *)
(* changes nothing, so it is no step here.  An I/O error ends the use of a *)
(* file builder and is not modelled here.  finalize writes the control     *)
(* word behind the words and finalize_header_first before them: the two    *)
(* variables words and control leave that order open.  A builder is given  *)
(* a width of at least one bit.                                            *)
(***************************************************************************)
EXTENDS LogArray, MonotonicLogArray, FiniteSets

CONSTANT MaxCount   \* bound: elements of one array
ASSUME MaxCountAssumption == MaxCount \in Nat

VARIABLES
  phase,    \* late (collecting values), packing, done
  direct,   \* the width was given, not found
  vals,     \* LateLogArrayBufBuilder::vals, then what push_vec has left of them
  width,
  words,    \* the words put to the buffer or file
  current,  \* the word being filled
  offset,   \* the first unused bit of current
  count,
  control,  \* the control word, once written
  pushed    \* history: the elements packed

builder == <<width, words, current, offset, count>>
vars == <<phase, direct, vals, builder, control, pushed>>

NoControl == ControlWord(0, 0)

Init == /\ \/ direct = TRUE /\ phase = "packing" /\ width \in 1..W
           \/ direct = FALSE /\ phase = "late" /\ width = 0
        /\ vals = <<>> /\ pushed = <<>>
        /\ words = <<>> /\ current = Zero /\ offset = 0 /\ count = 0
        /\ control = NoControl

-----------------------------------------------------------------------------
\* Mutant: the width of the latest value instead of the largest.
Wider_Latest(val) == CalculateWidth(val)
Wider(val) == IF width < CalculateWidth(val) THEN CalculateWidth(val) ELSE width

LatePush(val) ==
  /\ phase = "late" /\ Len(vals) < MaxCount
  /\ vals' = Append(vals, val)
  /\ width' = Wider(val)
  /\ UNCHANGED <<phase, direct, words, current, offset, count, control, pushed>>

\* pop leaves the width as it is.
LatePop ==
  /\ phase = "late" /\ vals # <<>>
  /\ vals' = SubSeq(vals, 1, Len(vals) - 1)
  /\ UNCHANGED <<phase, direct, builder, control, pushed>>

\* finalize and finalize_header_first: a LogArrayBufBuilder of that width.
LateFinalize ==
  /\ phase = "late"
  /\ phase' = "packing"
  /\ UNCHANGED <<direct, vals, builder, control, pushed>>

-----------------------------------------------------------------------------
\* The lower bits of a value that went over the end of current.  Mutant: a
\* new word starts at zero even so.
Carry_Lost(val, over) == Zero
Carry(val, over) == IF over = 0 THEN Zero ELSE Shl(val, W - over)

\* Mutant: a word filled to its last bit is kept for the next push.
WordFull_Late(next) == next > W
WordFull(next) == next >= W

Push(val) ==
  LET filled == Or(current, Shr(Shl(val, W - width), offset))
      next   == offset + width
  IN  /\ Fits(val, width)
      /\ count' = count + 1
      /\ pushed' = Append(pushed, val)
      /\ IF WordFull(next)
         THEN /\ words' = Append(words, filled)
              /\ offset' = next - W
              /\ current' = Carry(val, next - W)
         ELSE /\ current' = filled
              /\ offset' = next
              /\ UNCHANGED words

PushNext(val) ==
  /\ phase = "packing" /\ direct /\ count < MaxCount
  /\ Push(val)
  /\ UNCHANGED <<phase, direct, vals, width, control>>

\* push_vec of a late builder's values.
PushVec ==
  /\ phase = "packing" /\ vals # <<>>
  /\ Push(Head(vals))
  /\ vals' = Tail(vals)
  /\ UNCHANGED <<phase, direct, width, control>>

\* finalize_data writes current only if it holds something.
NeedsLastWord == (count * width) % W # 0

\* control_word panics for a count it has no bits for.
Finalize ==
  /\ phase = "packing" /\ vals = <<>>
  /\ count <= MaxLogArrayLen
  /\ words' = IF NeedsLastWord THEN Append(words, current) ELSE words
  /\ control' = ControlWord(count, width)
  /\ phase' = "done"
  /\ UNCHANGED <<direct, vals, width, current, offset, count, pushed>>

Next == \/ \E val \in Word : LatePush(val) \/ PushNext(val)
        \/ LatePop \/ LateFinalize
        \/ PushVec \/ Finalize

Spec == Init /\ [][Next]_vars

-----------------------------------------------------------------------------
(* The packing invariant.  Bit b of element i is bit (i-1)*width + b of the *)
(* stream of bits that words and current are the beginning of.  It speaks  *)
(* of word q and bit r of that stream, whatever they are, and not of       *)
(* quotients, which is what makes it inductive for every W and width.      *)

Cell(q, r) == IF q < Len(words) THEN words[q + 1][r] ELSE current[r]

Packed ==
  \A i \in 1..count, b \in 0..(width-1), q \in Nat, r \in Bit :
    (i - 1) * width + b = q * W + r => Cell(q, r) = pushed[i][W - width + b]

PackInv ==
  /\ Len(pushed) = count
  /\ \A i \in 1..count : Fits(pushed[i], width)
  /\ phase # "done" => /\ Len(words) * W + offset = count * width
                       /\ \A b \in Bit : b >= offset => current[b] = 0
  /\ phase = "late" => /\ ~direct /\ count = 0 /\ words = <<>>
                       /\ offset = 0 /\ current = Zero
  /\ phase = "done" => /\ count <= MaxLogArrayLen
                       /\ control = ControlWord(count, width)
                       /\ Len(words) = DataWords(count, width)
  /\ Packed

(* The array that parse makes of the finished buffer.                      *)
Array == [first |-> 0, len |-> ParseLen(control), width |-> control.width,
          buf |-> words]

TypeOK == /\ phase \in {"late", "packing", "done"}
          /\ direct \in BOOLEAN
          /\ vals \in Seq(Word) /\ pushed \in Seq(Word) /\ words \in Seq(Word)
          /\ width \in 0..W
          /\ current \in Word
          /\ offset \in Bit
          /\ count \in Nat
          /\ control \in [len1 : Nat, width : 0..W, len2 : Nat]

\* Every element reads back as it was pushed: the one entry point of the code
\* that every other structure stands on.  Elements lie across word boundaries,
\* and each push shifts into words that already hold parts of others.
RoundTrip ==
  phase = "done" =>
    \A i \in 1..Len(pushed) : Entry(Array, i - 1) = pushed[i]

\* push_vec never meets a value that does not fit: the width a late builder has
\* found covers every value it still holds, whatever was popped in between.
LateValuesFit == ~direct => \A i \in 1..Len(vals) : Fits(vals[i], width)

\* parse and parse_header_first accept what a builder has finished: the control
\* word gives back the count, and the size formulas agree with each other and
\* with the words written, so what follows a header-first array is not eaten.
FinishedIsAccepted ==
  phase = "done" =>
    /\ ParseLen(control) = count /\ control.width = width
    /\ Len(words) = DataWords(count, width)
    /\ Len(words) + 1 = ExpectedWords(count, width)

\* A slice of a slice shows the elements of the original at the right places.
SlicesShowTheArray ==
  phase = "done" =>
    \A o, l \in 0..count : MaySlice(Array, o, l) =>
      LET a == Slice(Array, o, l)
      IN  \A p, m \in 0..l : MaySlice(a, p, m) =>
            \A i \in 0..(m-1) : Entry(Slice(a, p, m), i) = pushed[o + p + i + 1]

\* The entries as numbers, a bit at a time from the most significant.
ValueOf(word) ==
  LET value[n \in 0..W] == IF n = 0 THEN 0 ELSE 2 * value[n - 1] + word[n - 1]
  IN  value[W]
Entries == [i \in 1..count |-> ValueOf(Entry(Array, i - 1))]

\* On a monotonic array, with or without equal entries, nearest_index_of finds
\* an entry equal to the element if there is one, and otherwise the number of
\* smaller entries, which is where the element would be inserted; index_of
\* finds exactly the elements that are there.
SearchFinds ==
  phase = "done" /\ Monotonic(Entries) =>
    \A e \in 0..(2^W) :
      LET equal   == {i \in 1..count : Entries[i] = e}
          smaller == {i \in 1..count : Entries[i] < e}
      IN  IF equal # {}
          THEN /\ NearestIndexOf(Entries, e) + 1 \in equal
               /\ IndexOf(Entries, e) = NearestIndexOf(Entries, e)
          ELSE /\ NearestIndexOf(Entries, e) = Cardinality(smaller)
               /\ IndexOf(Entries, e) = NotFound
=============================================================================
