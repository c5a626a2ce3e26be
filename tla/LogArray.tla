------------------------------ MODULE LogArray ------------------------------
(***************************************************************************)
(* The bits of a log array: words, the control word, and how an element is *)
(* read back.  A word is W bits (64 in the code), bit 0 the most           *)
(* significant, and the code's shifts are shifts of that bit vector.       *)
(***************************************************************************)
EXTENDS Integers, Sequences

CONSTANTS W,        \* bits of a word
          LenLow,   \* 2^32: the values of the control word's len_1
          LenHigh   \* 2^24: the values of its len_2

ASSUME WAssumption   == W \in Nat \ {0}
ASSUME LenAssumption == LenLow \in Nat \ {0} /\ LenHigh \in Nat \ {0}

Bit  == 0..(W-1)
Word == [Bit -> {0, 1}]
Zero == [b \in Bit |-> 0]

Shl(x, n) == [b \in Bit |-> IF b + n < W THEN x[b + n] ELSE 0]
Shr(x, n) == [b \in Bit |-> IF b >= n THEN x[b - n] ELSE 0]
Or(x, y)  == [b \in Bit |-> IF x[b] = 1 \/ y[b] = 1 THEN 1 ELSE 0]

\* val.leading_zeros() >= W - width
Fits(val, width) == \A b \in Bit : b < W - width => val[b] = 0

\* util::calculate_width: the bits of the value; zero takes one as well.
CalculateWidth(val) ==
  IF val = Zero THEN 1
  ELSE CHOOSE w \in 1..W : Fits(val, w) /\ ~Fits(val, w - 1)

-----------------------------------------------------------------------------
(* The control word: the low bits of the length, the width, the high bits. *)

MaxLogArrayLen == LenLow * LenHigh - 1

ControlWord(len, width) == [len1 |-> len % LenLow, width |-> width,
                            len2 |-> (len \div LenLow) % LenHigh]

\* Mutant: the high bits left unused, as the module's comment has them.
ParseLen_LowOnly(c) == c.len1
ParseLen(c) == c.len2 * LenLow + c.len1

\* logarray_length_from_len_width, in words.
DataWords(len, width) ==
  (len * width) \div W + (IF (len * width) % W = 0 THEN 0 ELSE 1)

\* The size validate_len_and_width asks for, in words: the data and the
\* control word.
ExpectedWords(len, width) == (len * width + 2 * W - 1) \div W

-----------------------------------------------------------------------------
(* A LogArray: len elements of the data words buf, from element first.     *)

\* An element in one word is cut out; one over two words is put together.
Entry(a, index) ==
  LET bitIndex    == a.width * (a.first + index)
      wordIndex   == bitIndex \div W
      offset      == bitIndex % W
      firstWord   == a.buf[wordIndex + 1]
      secondWord  == a.buf[wordIndex + 2]
      secondWidth == a.width - (W - offset)
  IN  IF offset + a.width <= W
      THEN Shr(Shl(firstWord, offset), W - a.width)
      ELSE Or(Shl(Shr(Shl(firstWord, offset), offset), secondWidth),
              Shr(secondWord, W - secondWidth))

\* slice asserts that this holds.
MaySlice(a, offset, len) == offset + len <= a.len

\* Mutant: the slice of a slice starts from the source's first element.
SliceFirst_OfSource(a, offset) == offset
SliceFirst(a, offset) == a.first + offset
Slice(a, offset, len) == [a EXCEPT !.first = SliceFirst(a, offset), !.len = len]
=============================================================================
