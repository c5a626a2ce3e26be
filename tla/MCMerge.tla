------------------------------ MODULE MCMerge ------------------------------
(* Up to three dictionaries of at most MaxTotal entries together: strings  *)
(* that share prefixes and may be equal, and records of one byte.          *)
EXTENDS Merge

CONSTANTS Dictionaries,   \* bound: how many are merged
          MaxTotal        \* bound: entries of all of them

MCRecordSize == <<0, 1>>
MCValuesOf(t) ==
  CASE t = 1 -> {<<>>, <<0>>, <<0, 0, 1>>, <<1>>}
    [] OTHER -> {<<0>>}

\* The sequences of at most n entries in order.
Sorted[n \in Nat] ==
  IF n = 0 THEN {<<>>}
  ELSE Sorted[n - 1] \union
       {Append(s, e) : s \in {r \in Sorted[n - 1] : Len(r) = n - 1}, e \in Items}
SortedUpTo(n) ==
  {s \in Sorted[n] : \A i \in 1..(Len(s) - 1) : AtMostTyped(s[i], s[i + 1])}

RECURSIVE SourcesUpTo(_, _)
SourcesUpTo(count, total) ==
  IF count = 0 THEN {<<>>}
  ELSE UNION {{Append(s, d) : s \in SourcesUpTo(count - 1, total - Len(d))} :
              d \in SortedUpTo(total)}
MCSources == SourcesUpTo(Dictionaries, MaxTotal)

=============================================================================
