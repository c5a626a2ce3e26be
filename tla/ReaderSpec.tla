----------------------------- MODULE ReaderSpec -----------------------------
(***************************************************************************)
(* What a reader promises to the loop of read_exact: the bytes of its data *)
(* in order, as many at a time as it likes, and an end when, and only      *)
(* when, it has given all of them.                                         *)
(***************************************************************************)
EXTENDS Integers, Sequences

CONSTANTS Data,        \* what may be read
          MaxRequest   \* the most bytes asked for at a time

VARIABLES data, given, wanted, phase

vars == <<data, given, wanted, phase>>

Init == /\ data \in Data
        /\ given = <<>> /\ wanted = 0 /\ phase = "idle"

Ask(n) == /\ phase = "idle"
          /\ wanted' = n /\ phase' = "reading"
          /\ UNCHANGED <<data, given>>

Give(k) == /\ phase = "reading" /\ k <= wanted
           /\ Len(given) + k <= Len(data)
           /\ given' = SubSeq(data, 1, Len(given) + k)
           /\ wanted' = wanted - k
           /\ phase' = IF k = wanted THEN "idle" ELSE "reading"
           /\ UNCHANGED data

End == /\ phase = "reading" /\ given = data
       /\ phase' = "eof"
       /\ UNCHANGED <<data, given, wanted>>

Next == (\E n \in 1..MaxRequest : Ask(n) \/ Give(n)) \/ End

Spec == Init /\ [][Next]_vars
=============================================================================
