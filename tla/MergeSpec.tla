----------------------------- MODULE MergeSpec -----------------------------
(***************************************************************************)
(* What a merge promises: it takes the smallest of the items that remain   *)
(* until none does, and is done, or it fails, which it may at any time; in *)
(* one of these ways it ends.  Readers see nothing before it is done, or   *)
(* when it has failed, and then all items, in order and each as often as   *)
(* the sources have it.                                                    *)
(***************************************************************************)
EXTENDS Integers, SequencesExt

CONSTANT AtMost(_, _)    \* the order of the items

VARIABLES
  input,       \* the items of all sources
  output,      \* the items merged
  visible,     \* what a reader has seen: nothing, or one sequence
  outcome      \* running, done or failed

vars == <<input, output, visible, outcome>>

Count(s, e) == Cardinality({i \in DOMAIN s : s[i] = e})
Remaining == {e \in ToSet(input) : Count(input, e) > Count(output, e)}

Init == /\ input \in Seq(ToSet(input))
        /\ output = <<>> /\ visible = <<>>
        /\ outcome = "running"

Take(e) ==
  /\ outcome = "running"
  /\ \A f \in Remaining : AtMost(e, f)
  /\ output' = Append(output, e)
  /\ UNCHANGED <<input, visible, outcome>>

Finish ==
  /\ outcome = "running" /\ Len(output) = Len(input)
  /\ outcome' = "done"
  /\ UNCHANGED <<input, output, visible>>

Fail ==
  /\ outcome = "running"
  /\ outcome' = "failed"
  /\ UNCHANGED <<input, output, visible>>

Read ==
  /\ outcome = "done"
  /\ visible' = <<output>>
  /\ UNCHANGED <<input, output, outcome>>

Step == \/ \E e \in Remaining : Take(e)
        \/ Finish
        \/ Fail

Next == Step \/ Read

Spec == Init /\ [][Next]_vars

Ends == <>(outcome # "running")
=============================================================================
