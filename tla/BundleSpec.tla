----------------------------- MODULE BundleSpec -----------------------------
(***************************************************************************)
(* What a set of files that belong together (the four files of a typed     *)
(* dictionary, say) promises to a thread that maps all of them while other *)
(* threads write them.  No lock spans the files, so the promise is that of *)
(* a register that is atomic until something already published is          *)
(* replaced:                                                               *)
(*                                                                         *)
(*  - the first publication is atomic: a map sees nothing or all of it;    *)
(*  - a map during which a published file was replaced, or that began      *)
(*    while the files were of different versions, is tainted and may       *)
(*    return anything; every other map returns what was current when it    *)
(*    returned.                                                            *)
(***************************************************************************)

CONSTANTS Version,   \* the data sets a writer may publish
          Reader,    \* the threads that map the files
          Outcome,   \* everything a map may return
          None,      \* nothing is published, and what a map of nothing returns
          Torn       \* the files are of different versions

VARIABLES current,   \* a version, None or Torn
          reading,   \* the readers in the middle of a map
          tainted,   \* the readers whose map is no longer promised anything
          outcome    \* what each reader's last map returned

vars == <<current, reading, tainted, outcome>>

TypeOK == /\ current \in Version \cup {None, Torn}
          /\ reading \subseteq Reader
          /\ tainted \subseteq reading
          /\ outcome \in [Reader -> Outcome]

Init == /\ current = None
        /\ reading = {}
        /\ tainted = {}
        /\ outcome = [r \in Reader |-> None]

Publish(v) == /\ current = None
              /\ current' = v
              /\ UNCHANGED <<reading, tainted, outcome>>

Replace == /\ current' \in Version \cup {None, Torn}
           /\ tainted' = tainted \cup reading
           /\ UNCHANGED <<reading, outcome>>

Begin(r) == /\ r \notin reading
            /\ reading' = reading \cup {r}
            /\ tainted' = IF current = Torn THEN tainted \cup {r} ELSE tainted
            /\ UNCHANGED <<current, outcome>>

Return(r, o) == /\ r \in reading
                /\ r \in tainted \/ o = current
                /\ reading' = reading \ {r}
                /\ tainted' = tainted \ {r}
                /\ outcome' = [outcome EXCEPT ![r] = o]
                /\ UNCHANGED current

Next == \/ \E v \in Version : Publish(v)
        \/ Replace
        \/ \E r \in Reader : Begin(r) \/ \E o \in Outcome : Return(r, o)

Spec == Init /\ [][Next]_vars
=============================================================================
