------------------------------- MODULE Powers -------------------------------
(***************************************************************************)
(* Powers of two, as a function, so that facts about them can be proved.   *)
(***************************************************************************)
EXTENDS Integers

\* 1 << n.
Pow2[n \in Nat] == IF n = 0 THEN 1 ELSE 2 * Pow2[n - 1]
=============================================================================
