------------------------- MODULE KnowledgeLifecycle -------------------------
(***************************************************************************)
(* What the lifecycle services promise, with no transactions, locks or     *)
(* failures: an object is created once with some status, and after that it *)
(* is moved by whole operations, one after another.  An operation applies  *)
(* to the status the object really has, takes effect at most once, and     *)
(* leaves exactly its own audit rows behind.  ObjectLifecycle implements   *)
(* this specification with row-locking transactions.                       *)
(***************************************************************************)
EXTENDS LifecycleRules, Naturals

CONSTANTS Objects,    \* knowledge object ids of one workspace
          Requests    \* calls of the three services, each made once

VARIABLES status,     \* status[o]: committed status, or Absent
          audit       \* audit[o]: committed lifecycle audit rows, oldest first

vars == <<status, audit>>

RowType == [action   : {"status_changed", "debate_opened", "debate_resolved"},
            before   : Statuses,
            after    : Statuses,
            metadata : {"duplicate", "suggested_by", "empty"},
            by       : Requests]

TypeOK ==
  /\ status \in [Objects -> Statuses \union {Absent}]
  /\ audit \in [Objects -> Seq(RowType)]

Init ==
  /\ status = [o \in Objects |-> Absent]
  /\ audit = [o \in Objects |-> <<>>]

\* Request r has left no audit row behind.
Untraced(r) == \A o \in Objects : \A i \in 1 .. Len(audit[o]) : audit[o][i].by # r

\* An object is ingested with any lifecycle status.
Create(o, s) ==
  /\ status[o] = Absent
  /\ status' = [status EXCEPT ![o] = s]
  /\ UNCHANGED audit

\* One whole operation on the object's current status.
Decide(r, op, o, target, trigger) ==
  /\ Untraced(r)
  /\ status[o] \in SourceStatuses(op)
  /\ status' = [status EXCEPT ![o] = target]
  /\ audit' = [audit EXCEPT ![o] = @ \o AuditRows(op, status[o], target, trigger, r)]

Next ==
  \/ \E o \in Objects, s \in Statuses : Create(o, s)
  \/ \E r \in Requests, op \in Operations, o \in Objects :
        \E target \in AllowedTargets(op), trigger \in TriggersOf(op) :
          Decide(r, op, o, target, trigger)

Spec == Init /\ [][Next]_vars

=============================================================================
