----------------------------- MODULE MCBitIndex -----------------------------
(***************************************************************************)
(* The index of every bit array of some superblocks, a linear scan that    *)
(* covers less than a superblock, and every query.                         *)
(***************************************************************************)
EXTENDS BitIndexBuilder

\* bitindex.rs says of select0: "Returns the index of the 0-bit in the bitarray
\* corresponding with the given rank", and its test has None for the first rank
\* there is no 0-bit for.  The code takes the padding of the last word, and the
\* rest of the last superblock, for zeros of the array.
Select0InArray ==
  phase = "done" =>
    LET zeros == Ones(0, 0, count)
    IN  zeros > 0 => Select(Index, 0, zeros + 1) = NoIndex
=============================================================================
