------------------------- MODULE MCWithholdingReader -------------------------
(***************************************************************************)
(* Files of every length up to some, all of whose bytes are different.     *)
(***************************************************************************)
EXTENDS WithholdingReader

CONSTANT MaxFile   \* bound: bytes of a file

MCByte  == 1..MaxFile
MCFiles == {[i \in 1..n |-> i] : n \in 0..MaxFile}
=============================================================================
