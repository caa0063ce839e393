--------------------------- MODULE ObjectLifecycle ---------------------------
(***************************************************************************)
(* ValidateObjectService.Validate, ObjectDebateService.MarkDebating and    *)
(* ObjectDebateService.ResolveDebate as they run: every call is a request  *)
(* goroutine that opens a READ COMMITTED transaction, locks the object's   *)
(* row with SELECT ... FOR UPDATE, checks the status it read, updates it,  *)
(* inserts one or two audit rows and commits.  Several requests interleave *)
(* at every database call; any call may fail, in which case the unit of    *)
(* work rolls back; and a commit may be applied although its answer is     *)
(* lost.  The rows of the audit log that ingestion writes are not part of  *)
(* this module.                                                            *)
(***************************************************************************)
EXTENDS LifecycleRules, Naturals

CONSTANTS Objects,    \* knowledge object ids of one workspace
          Requests,   \* calls of the three services, each made once
          NoRequest   \* the owner of a row nobody has locked

ASSUME NoRequestAssumption == NoRequest \notin Requests

VARIABLES status,     \* status[o]: committed status, or Absent
          audit,      \* audit[o]: committed lifecycle audit rows, oldest first
          lock,       \* lock[o]: the request whose transaction holds o's row
          pc,         \* pc[r]: where request r is
          call,       \* call[r]: what r asks for
          seen,       \* seen[r]: the status r's SELECT ... FOR UPDATE returned
          written,    \* written[r]: audit rows r has inserted, uncommitted
          outcome     \* outcome[r]: what the caller of r learns

vars   == <<status, audit, lock, pc, call, seen, written, outcome>>

CallType ==
  {c \in [op : Operations, obj : Objects, target : Statuses, trigger : TriggerKinds] :
     c.target \in AllowedTargets(c.op) /\ c.trigger \in TriggersOf(c.op)}

NoCall == [op |-> "none"]

RowType == [action   : {"status_changed", "debate_opened", "debate_resolved"},
            before   : Statuses,
            after    : Statuses,
            metadata : {"duplicate", "suggested_by", "empty"},
            by       : Requests]

\* "begun": transaction open, no row read.  "locked": row read and locked.
\* "auditing": status updated (or left alone, on the duplicate path), audit
\* rows being inserted.
PcValues == {"idle", "begun", "locked", "auditing", "done"}

Outcomes == {"pending", "ok", "invalid_transition", "not_found", "error", "commit_unknown"}

TypeOK ==
  /\ status \in [Objects -> Statuses \union {Absent}]
  /\ audit \in [Objects -> Seq(RowType)]
  /\ lock \in [Objects -> Requests \union {NoRequest}]
  /\ pc \in [Requests -> PcValues]
  /\ call \in [Requests -> CallType \union {NoCall}]
  /\ seen \in [Requests -> Statuses \union {Absent}]
  /\ written \in [Requests -> 0 .. 2]
  /\ outcome \in [Requests -> Outcomes]

Init ==
  /\ status = [o \in Objects |-> Absent]
  /\ audit = [o \in Objects |-> <<>>]
  /\ lock = [o \in Objects |-> NoRequest]
  /\ pc = [r \in Requests |-> "idle"]
  /\ call = [r \in Requests |-> NoCall]
  /\ seen = [r \in Requests |-> Absent]
  /\ written = [r \in Requests |-> 0]
  /\ outcome = [r \in Requests |-> "pending"]

-----------------------------------------------------------------------------
(* The rows r's transaction inserts, given what it read.                   *)

InTransaction(r) == pc[r] \in {"begun", "locked", "auditing"}

HoldsRow(r) == pc[r] \in {"locked", "auditing"}

RowsOf(r) == AuditRows(call[r].op, seen[r], call[r].target, call[r].trigger, r)

\* Ending a transaction gives back the row lock, if r has it.
Unlocked(r) == [o \in Objects |-> IF lock[o] = r THEN NoRequest ELSE lock[o]]

Finish(r, answer) ==
  /\ pc' = [pc EXCEPT ![r] = "done"]
  /\ outcome' = [outcome EXCEPT ![r] = answer]
  /\ lock' = Unlocked(r)
  /\ UNCHANGED <<call, seen, written>>

-----------------------------------------------------------------------------
(* Actions.                                                                *)

\* The ingestion transaction, whole: the row appears with the status the
\* caller asked for ("active" when it asked for none).
IngestObject(o, s) ==
  /\ status[o] = Absent
  /\ status' = [status EXCEPT ![o] = s]
  /\ UNCHANGED <<audit, lock, pc, call, seen, written, outcome>>

\* Input the service refuses before it opens a transaction.
Refuse(r, op, target, trigger, suggester) ==
  /\ pc[r] = "idle"
  /\ ~ ValidInput(op, target, trigger, suggester)
  /\ Finish(r, "invalid_transition")
  /\ UNCHANGED <<status, audit>>

Begin(r, op, o, target, trigger, suggester) ==
  /\ pc[r] = "idle"
  /\ ValidInput(op, target, trigger, suggester)
  /\ pc' = [pc EXCEPT ![r] = "begun"]
  /\ call' = [call EXCEPT ![r] = [op |-> op, obj |-> o, target |-> target, trigger |-> trigger]]
  /\ UNCHANGED <<status, audit, lock, seen, written, outcome>>

\* Faulty variant: SELECT without FOR UPDATE.
ReadRowUnlocked(r) ==
  LET o == call[r].obj
  IN /\ pc[r] = "begun"
     /\ status[o] # Absent
     /\ seen' = [seen EXCEPT ![r] = status[o]]
     /\ pc' = [pc EXCEPT ![r] = "locked"]
     /\ UNCHANGED <<status, audit, lock, call, written, outcome>>

\* FindByIDForUpdate on a row that exists waits until no other transaction
\* holds it and returns the status last committed.
LockRow(r) ==
  LET o == call[r].obj
  IN /\ pc[r] = "begun"
     /\ status[o] # Absent
     /\ lock[o] = NoRequest
     /\ lock' = [lock EXCEPT ![o] = r]
     /\ seen' = [seen EXCEPT ![r] = status[o]]
     /\ pc' = [pc EXCEPT ![r] = "locked"]
     /\ UNCHANGED <<status, audit, call, written, outcome>>

\* FindByIDForUpdate on a row that does not exist: roll back.
NotFound(r) ==
  /\ pc[r] = "begun"
  /\ status[call[r].obj] = Absent
  /\ Finish(r, "not_found")
  /\ UNCHANGED <<status, audit>>

\* Faulty variant: the handler returns early and leaves its transaction open.
RejectWithoutRollback(r) ==
  /\ pc[r] = "locked"
  /\ seen[r] \notin SourceStatuses(call[r].op)
  /\ pc' = [pc EXCEPT ![r] = "done"]
  /\ outcome' = [outcome EXCEPT ![r] = "invalid_transition"]
  /\ UNCHANGED <<status, audit, lock, call, seen, written>>

\* The status read is not one the operation accepts: roll back.
Reject(r) ==
  /\ pc[r] = "locked"
  /\ seen[r] \notin SourceStatuses(call[r].op)
  /\ Finish(r, "invalid_transition")
  /\ UNCHANGED <<status, audit>>

\* UPDATE knowledge_objects SET status: visible to others at commit only.  The
\* duplicate path makes no update and goes straight to its audit row.
UpdateStatus(r) ==
  /\ pc[r] = "locked"
  /\ seen[r] \in SourceStatuses(call[r].op)
  /\ pc' = [pc EXCEPT ![r] = "auditing"]
  /\ UNCHANGED <<status, audit, lock, call, seen, written, outcome>>

\* One INSERT INTO audit_events.
InsertAudit(r) ==
  /\ pc[r] = "auditing"
  /\ written[r] < Len(RowsOf(r))
  /\ written' = [written EXCEPT ![r] = @ + 1]
  /\ UNCHANGED <<status, audit, lock, pc, call, seen, outcome>>

\* The whole of the transaction becomes visible.
Apply(r) ==
  LET o == call[r].obj
  IN /\ pc[r] = "auditing"
     /\ written[r] = Len(RowsOf(r))
     /\ status' = [status EXCEPT ![o] = call[r].target]
     /\ audit' = [audit EXCEPT ![o] = @ \o RowsOf(r)]

Commit(r) == Apply(r) /\ Finish(r, "ok")

\* The server commits but the connection breaks before it answers: the
\* service returns the error although the transaction took effect.
CommitLost(r) == Apply(r) /\ Finish(r, "commit_unknown")

\* Faulty variants: the status update, or the audit rows, are written outside
\* the transaction and survive its rollback.
RollbackKeepsStatus(r) ==
  /\ InTransaction(r)
  /\ Finish(r, "error")
  /\ status' = IF pc[r] = "auditing" THEN [status EXCEPT ![call[r].obj] = call[r].target] ELSE status
  /\ UNCHANGED audit

RollbackKeepsRows(r) ==
  /\ InTransaction(r)
  /\ Finish(r, "error")
  /\ audit' = IF pc[r] = "auditing"
              THEN [audit EXCEPT ![call[r].obj] = @ \o SubSeq(RowsOf(r), 1, written[r])]
              ELSE audit
  /\ UNCHANGED status

\* A database call fails, the context is cancelled or the process dies: the
\* unit of work rolls back.
Rollback(r) ==
  /\ InTransaction(r)
  /\ Finish(r, "error")
  /\ UNCHANGED <<status, audit>>

\* Nothing is left to do: not a deadlock.
Quiescent ==
  /\ \A r \in Requests : pc[r] = "done"
  /\ \A o \in Objects : status[o] # Absent
  /\ UNCHANGED vars

\* What a request does by itself once it has begun.
Advance(r) ==
  LockRow(r) \/ NotFound(r) \/ Reject(r) \/ UpdateStatus(r) \/ InsertAudit(r) \/ Commit(r)

Start(r) ==
  \E op \in Operations, target \in Statuses, suggester \in Suggesters :
    \E trigger \in TriggersOf(op) :
      \/ Refuse(r, op, target, trigger, suggester)
      \/ \E o \in Objects : Begin(r, op, o, target, trigger, suggester)

Next ==
  \/ \E o \in Objects, s \in Statuses : IngestObject(o, s)
  \/ \E r \in Requests : Start(r) \/ Advance(r) \/ CommitLost(r) \/ Rollback(r)
  \/ Quiescent

Spec == Init /\ [][Next]_vars

-----------------------------------------------------------------------------
(* Properties.                                                             *)

Committed(r) == outcome[r] \in {"ok", "commit_unknown"}

Untraced(r) == \A o \in Objects : \A i \in 1 .. Len(audit[o]) : audit[o][i].by # r

\* y may directly follow x in an object's trail: it starts where x ended, or
\* it is the debate row that accompanies x in the same transaction.
Follows(x, y) ==
  \/ y.before = x.after
  \/ /\ x.action = "status_changed" /\ y.action # "status_changed"
     /\ y.by = x.by /\ y.before = x.before /\ y.after = x.after

\* The audit trail of an object is one unbroken story that ends in its present
\* status: no two requests can both record a move away from the same status,
\* and no status change goes unrecorded (the "audit insert failures roll back
\* the status update" contract of MarkDebating and ResolveDebate).
AuditTrailExplainsStatus ==
  \A o \in Objects :
    /\ \A i \in 1 .. Len(audit[o]) - 1 : Follows(audit[o][i], audit[o][i + 1])
    /\ Len(audit[o]) > 0 => audit[o][Len(audit[o])].after = status[o]

\* A caller told that its verdict was recorded can rely on it for good, and
\* nobody else's verdict on that object was recorded: of two reviewers who
\* decide at once, exactly one wins.
AcknowledgedVerdictStands ==
  \A r \in Requests : (outcome[r] = "ok" /\ call[r].op # "mark") =>
    /\ status[call[r].obj] = call[r].target
    /\ \A q \in Requests \ {r} :
         (Committed(q) /\ call[q].op # "mark") => call[q].obj # call[r].obj

\* A transaction leaves all of its audit rows, next to each other and once, or
\* none at all, whatever failed in it and whoever ran beside it.
AllRowsOrNone ==
  \A r \in Requests :
    IF Committed(r)
    THEN LET trail == audit[call[r].obj]
             n == Len(RowsOf(r))
         IN \E i \in 0 .. Len(trail) - n :
              /\ \A k \in 1 .. n : trail[i + k] = RowsOf(r)[k]
              /\ \A o \in Objects : \A k \in 1 .. Len(audit[o]) :
                   audit[o][k].by = r => (o = call[r].obj /\ k \in i + 1 .. i + n)
    ELSE Untraced(r)

\* Validated, deprecated and active are settled: no sequence of the three
\* operations, however they overlap, moves an object that has reached one.
SettledStatusesNeverChange ==
  [][\A o \in Objects :
       status[o] \in Verdicts \union {"active"} => status'[o] = status[o]]_vars

\* The row lock is what everything above rests on: it is held by exactly the
\* request that is between its SELECT ... FOR UPDATE and the end of its
\* transaction, and until then the status that request read is still true.
RowLockInvariant ==
  /\ \A o \in Objects, r \in Requests :
       lock[o] = r <=> (HoldsRow(r) /\ call[r].obj = o)
  /\ \A r \in Requests : InTransaction(r) => call[r] \in CallType
  /\ \A r \in Requests : HoldsRow(r) => seen[r] = status[call[r].obj] /\ seen[r] # Absent
  /\ \A r \in Requests : pc[r] = "auditing" => seen[r] \in SourceStatuses(call[r].op)
  /\ \A r \in Requests : outcome[r] = "pending" <=> pc[r] # "done"

\* Concurrent transactions are serial, whole operations to an observer of the
\* committed rows.
Promise == INSTANCE KnowledgeLifecycle
ImplementsKnowledgeLifecycle == Promise!Spec

=============================================================================
