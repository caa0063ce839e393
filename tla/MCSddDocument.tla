---------------------------- MODULE MCSddDocument ----------------------------
(* Small instances of SddDocument for TLC. *)
EXTENDS SddDocument

CONSTANTS o1, o2

\* One object of a type with a section of its own, the other in the default
\* section.
MCTypeOf == [o \in Objects |-> IF o = o1 THEN "decision" ELSE "document"]

=============================================================================
