------------------------------ MODULE SddIndex ------------------------------
(***************************************************************************)
(* What the SDD document promises: a set of entries to which whole appends *)
(* and whole removals are applied one after another, each to the entries   *)
(* that are really there.  SddDocument implements it for a workspace whose *)
(* document row exists.                                                    *)
(***************************************************************************)
CONSTANTS Objects,      \* knowledge objects of one workspace
          SectionOf,    \* SectionOf[o]: the section o is classified into
          Appends       \* calls of AppendValidatedObject

VARIABLE entries        \* the entries listed

Without(set, o) == {e \in set : e.obj # o}

Init == entries = {}

List(a, o) ==
  entries' = Without(entries, o) \union {[obj |-> o, section |-> SectionOf[o], by |-> a]}

Unlist(o) == entries' = Without(entries, o)

Next == \E o \in Objects : Unlist(o) \/ \E a \in Appends : List(a, o)

Spec == Init /\ [][Next]_entries

=============================================================================
