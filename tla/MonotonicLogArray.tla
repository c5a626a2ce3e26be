-------------------------- MODULE MonotonicLogArray --------------------------
(***************************************************************************)
(* The binary search of MonotonicLogArray over the entries s of a log      *)
(* array, given here as a sequence of numbers (entry i is s[i + 1]).       *)
(***************************************************************************)
EXTENDS Integers, Sequences

\* from_logarray asserts this in a debug build.
Monotonic(s) == \A i, j \in 1..Len(s) : i <= j => s[i] <= s[j]

\* Mutant: the index the search ended on, not the one after.
AfterSearch_Same(min, max) == (min + max) \div 2
AfterSearch(min, max) == (min + max) \div 2 + 1

NearestIndexOf(s, element) ==
  LET search[range \in (0..Len(s)) \X (0..(Len(s)-1))] ==
        LET min == range[1]
            max == range[2]
            mid == (min + max) \div 2
        IN  IF min > max THEN AfterSearch(min, max)
            ELSE IF element = s[mid + 1] THEN mid
            ELSE IF element > s[mid + 1] THEN search[<<mid + 1, max>>]
            ELSE IF mid = 0 THEN 0
            ELSE search[<<min, mid - 1>>]
  IN  IF s = <<>> THEN 0 ELSE search[<<0, Len(s) - 1>>]

NotFound == -1     \* the None of index_of

IndexOf(s, element) ==
  LET i == NearestIndexOf(s, element)
  IN  IF i >= Len(s) \/ s[i + 1] # element THEN NotFound ELSE i
=============================================================================
