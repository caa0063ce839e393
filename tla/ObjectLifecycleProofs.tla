----------------------- MODULE ObjectLifecycleProofs -----------------------
(***************************************************************************)
(* Proofs about ObjectLifecycle for every set of objects and requests, and *)
(* about ValidationPipeline, which runs it beside the SDD document.        *)
(***************************************************************************)
EXTENDS ValidationPipeline, TLAPS

\* What the audit rows of an operation are: one or two rows of the right type.
LEMMA AuditRowsType ==
  ASSUME NEW op \in Operations, NEW source \in Statuses, NEW target \in Statuses,
         NEW trigger \in TriggerKinds, NEW r \in Requests
  PROVE  /\ AuditRows(op, source, target, trigger, r) \in Seq(RowType)
         /\ Len(AuditRows(op, source, target, trigger, r)) \in 1 .. 2
<1> DEFINE changed == Row("status_changed", source, target, "empty", r)
           opened  == Row("debate_opened", source, target,
                          DebateMetadata(trigger, Duplicate(op, source)), r)
           closed  == Row("debate_resolved", source, target, "empty", r)
<1>1. changed \in RowType /\ opened \in RowType /\ closed \in RowType
  BY DEF Row, RowType, DebateMetadata
<1>2. \/ AuditRows(op, source, target, trigger, r) = <<changed>>
      \/ AuditRows(op, source, target, trigger, r) = <<changed, closed>>
      \/ AuditRows(op, source, target, trigger, r) = <<opened>>
      \/ AuditRows(op, source, target, trigger, r) = <<changed, opened>>
  BY DEF AuditRows, Operations
<1>3. PICK x \in RowType, y \in RowType :
        \/ AuditRows(op, source, target, trigger, r) = <<x>>
        \/ AuditRows(op, source, target, trigger, r) = <<x, y>>
  <2> HIDE DEF changed, opened, closed
  <2> QED BY <1>1, <1>2
<1>4. <<x>> \in Seq(RowType) /\ Len(<<x>>) = 1 /\ <<x, y>> \in Seq(RowType) /\ Len(<<x, y>>) = 2
  OBVIOUS
<1>5. 1 \in 1 .. 2 /\ 2 \in 1 .. 2
  OBVIOUS
<1>6. QED
  <2>1. CASE AuditRows(op, source, target, trigger, r) = <<x>>
    BY <2>1, <1>4, <1>5
  <2>2. CASE AuditRows(op, source, target, trigger, r) = <<x, y>>
    BY <2>2, <1>4, <1>5
  <2> QED BY <1>3, <2>1, <2>2

\* A typed request that holds a row writes one or two typed rows.
LEMMA RowsOfType ==
  ASSUME NEW r \in Requests, call[r] \in CallType, seen[r] \in Statuses
  PROVE  RowsOf(r) \in Seq(RowType) /\ Len(RowsOf(r)) \in 1 .. 2
BY AuditRowsType DEF RowsOf, CallType

\* The inductive invariant.
IInv == TypeOK /\ RowLockInvariant

LEMMA InitIInv == Init => IInv
<1> SUFFICES ASSUME Init PROVE IInv
  OBVIOUS
<1>1. TypeOK
  BY DEF Init, TypeOK, PcValues, Outcomes
<1>2. RowLockInvariant
  BY NoRequestAssumption DEF Init, RowLockInvariant, HoldsRow, InTransaction
<1> QED BY <1>1, <1>2 DEF IInv

\* Ending a transaction, whatever becomes of the committed rows, keeps the
\* types of everything else.
LEMMA FinishType ==
  ASSUME TypeOK, NEW r \in Requests, NEW answer \in Outcomes, Finish(r, answer)
  PROVE  /\ lock' \in [Objects -> Requests \union {NoRequest}]
         /\ pc' \in [Requests -> PcValues]
         /\ call' \in [Requests -> CallType \union {NoCall}]
         /\ seen' \in [Requests -> Statuses \union {Absent}]
         /\ written' \in [Requests -> 0 .. 2]
         /\ outcome' \in [Requests -> Outcomes]
BY DEF TypeOK, Finish, Unlocked, PcValues

\* A request that writes audit rows asks for a legal call on a typed status.
LEMMA AuditingIsTyped ==
  ASSUME IInv, NEW r \in Requests, pc[r] = "auditing"
  PROVE  /\ call[r] \in CallType
         /\ seen[r] \in Statuses
         /\ seen[r] = status[call[r].obj]
         /\ lock[call[r].obj] = r
         /\ RowsOf(r) \in Seq(RowType) /\ Len(RowsOf(r)) \in 1 .. 2
<1>1. call[r] \in CallType /\ seen[r] = status[call[r].obj] /\ seen[r] # Absent
  BY DEF IInv, RowLockInvariant, InTransaction, HoldsRow
<1>2. seen[r] \in Statuses
  BY <1>1 DEF IInv, TypeOK
<1>3. lock[call[r].obj] = r
  BY <1>1 DEF IInv, RowLockInvariant, HoldsRow, CallType
<1> QED BY <1>1, <1>2, <1>3, RowsOfType

\* Making the transaction visible keeps the types of the committed rows.
LEMMA ApplyType ==
  ASSUME IInv, NEW r \in Requests, Apply(r)
  PROVE  /\ status' \in [Objects -> Statuses \union {Absent}]
         /\ audit' \in [Objects -> Seq(RowType)]
<1>1. pc[r] = "auditing"
  BY DEF Apply
<1>2. /\ call[r].obj \in Objects /\ call[r].target \in Statuses
      /\ RowsOf(r) \in Seq(RowType)
  BY <1>1, AuditingIsTyped DEF CallType
<1>3. status' \in [Objects -> Statuses \union {Absent}]
  BY <1>2 DEF Apply, IInv, TypeOK
<1>4. \A s \in Seq(RowType) : s \o RowsOf(r) \in Seq(RowType)
  BY <1>2
<1>5. audit' \in [Objects -> Seq(RowType)]
  BY <1>2, <1>4 DEF Apply, IInv, TypeOK
<1> QED BY <1>3, <1>5

LEMMA TypeStep == IInv /\ [Next]_vars => TypeOK'
<1> SUFFICES ASSUME IInv, [Next]_vars PROVE TypeOK'
  OBVIOUS
<1> USE DEF IInv
<1>1. ASSUME NEW o \in Objects, NEW s \in Statuses, IngestObject(o, s) PROVE TypeOK'
  BY <1>1 DEF IngestObject, TypeOK
<1>2. ASSUME NEW r \in Requests, NEW op \in Operations, NEW target \in Statuses,
             NEW suggester \in Suggesters, NEW trigger \in TriggersOf(op),
             Refuse(r, op, target, trigger, suggester)
      PROVE  TypeOK'
  <2>1. Finish(r, "invalid_transition") /\ UNCHANGED <<status, audit>>
    BY <1>2 DEF Refuse
  <2> QED BY <2>1, FinishType DEF TypeOK, Outcomes
<1>3. ASSUME NEW r \in Requests, NEW op \in Operations, NEW target \in Statuses,
             NEW suggester \in Suggesters, NEW trigger \in TriggersOf(op), NEW o \in Objects,
             Begin(r, op, o, target, trigger, suggester)
      PROVE  TypeOK'
  <2>1. [op |-> op, obj |-> o, target |-> target, trigger |-> trigger] \in CallType
    BY <1>3 DEF Begin, ValidInput, CallType, TriggersOf, TriggerKinds
  <2> QED BY <1>3, <2>1 DEF Begin, TypeOK, PcValues
<1>4. ASSUME NEW r \in Requests, LockRow(r) PROVE TypeOK'
  <2>1. call[r].obj \in Objects
    BY <1>4 DEF LockRow, RowLockInvariant, InTransaction, CallType
  <2> QED BY <1>4, <2>1 DEF LockRow, TypeOK, PcValues
<1>5. ASSUME NEW r \in Requests, NotFound(r) PROVE TypeOK'
  <2>1. Finish(r, "not_found") /\ UNCHANGED <<status, audit>>
    BY <1>5 DEF NotFound
  <2> QED BY <2>1, FinishType DEF TypeOK, Outcomes
<1>6. ASSUME NEW r \in Requests, Reject(r) PROVE TypeOK'
  <2>1. Finish(r, "invalid_transition") /\ UNCHANGED <<status, audit>>
    BY <1>6 DEF Reject
  <2> QED BY <2>1, FinishType DEF TypeOK, Outcomes
<1>7. ASSUME NEW r \in Requests, UpdateStatus(r) PROVE TypeOK'
  BY <1>7 DEF UpdateStatus, TypeOK, PcValues
<1>8. ASSUME NEW r \in Requests, InsertAudit(r) PROVE TypeOK'
  <2>1. Len(RowsOf(r)) \in 1 .. 2
    BY <1>8, AuditingIsTyped DEF InsertAudit
  <2>2. written[r] \in 0 .. 2 /\ written[r] < Len(RowsOf(r))
    BY <1>8 DEF InsertAudit, TypeOK
  <2> HIDE DEF IInv
  <2>3. \A n \in 1 .. 2, w \in 0 .. 2 : w < n => w + 1 \in 0 .. 2
    OBVIOUS
  <2>4. written[r] + 1 \in 0 .. 2
    BY <2>1, <2>2, <2>3
  <2> QED BY <1>8, <2>4 DEF InsertAudit, TypeOK, IInv
<1>9. ASSUME NEW r \in Requests, Commit(r) PROVE TypeOK'
  BY <1>9, ApplyType, FinishType DEF Commit, TypeOK, Outcomes
<1>10. ASSUME NEW r \in Requests, CommitLost(r) PROVE TypeOK'
  BY <1>10, ApplyType, FinishType DEF CommitLost, TypeOK, Outcomes
<1>11. ASSUME NEW r \in Requests, Rollback(r) PROVE TypeOK'
  <2>1. Finish(r, "error") /\ UNCHANGED <<status, audit>>
    BY <1>11 DEF Rollback
  <2> QED BY <2>1, FinishType DEF TypeOK, Outcomes
<1>12. CASE UNCHANGED vars
  BY <1>12 DEF vars, TypeOK
<1> QED
  BY <1>1, <1>2, <1>3, <1>4, <1>5, <1>6, <1>7, <1>8, <1>9, <1>10, <1>11, <1>12
  DEF Next, Start, Advance, Quiescent

\* Ending its transaction, r gives back the row it holds and no other.
LEMMA FinishLock ==
  ASSUME IInv, NEW r \in Requests, NEW answer \in Outcomes \ {"pending"}, Finish(r, answer),
         UNCHANGED status \/ Apply(r)
  PROVE  RowLockInvariant'
<1> USE DEF IInv
<1>1. \A o \in Objects, q \in Requests : (lock[o] = q <=> (HoldsRow(q) /\ call[q].obj = o))'
  BY NoRequestAssumption DEF Finish, Unlocked, RowLockInvariant, HoldsRow, TypeOK
<1>2. \A q \in Requests : (InTransaction(q) => call[q] \in CallType)'
  BY DEF Finish, RowLockInvariant, InTransaction, TypeOK
<1>3. ASSUME NEW q \in Requests, HoldsRow(q)'
      PROVE  (seen[q] = status[call[q].obj] /\ seen[q] # Absent)'
  <2>1. q # r /\ HoldsRow(q)
    BY <1>3 DEF Finish, HoldsRow, TypeOK
  <2>2. call[q] \in CallType /\ lock[call[q].obj] = q
    BY <2>1 DEF RowLockInvariant, HoldsRow, InTransaction, CallType
  <2>3. CASE UNCHANGED status
    BY <2>1, <2>3 DEF Finish, RowLockInvariant
  <2>4. CASE Apply(r)
    <3>1. lock[call[r].obj] = r
      BY <2>4, AuditingIsTyped DEF Apply
    <3>2. call[q].obj # call[r].obj
      BY <2>1, <2>2, <3>1
    <3>3. status'[call[q].obj] = status[call[q].obj]
      BY <2>2, <2>4, <3>2 DEF Apply, TypeOK, CallType
    <3> QED BY <2>1, <3>3 DEF Finish, RowLockInvariant
  <2> QED BY <2>3, <2>4
<1>4. \A q \in Requests : (pc[q] = "auditing" => seen[q] \in SourceStatuses(call[q].op))'
  BY DEF Finish, RowLockInvariant, TypeOK
<1>5. \A q \in Requests : (outcome[q] = "pending" <=> pc[q] # "done")'
  BY DEF Finish, RowLockInvariant, TypeOK
<1> QED BY <1>1, <1>2, <1>3, <1>4, <1>5 DEF RowLockInvariant

LEMMA LockStep == IInv /\ [Next]_vars => RowLockInvariant'
<1> SUFFICES ASSUME IInv, [Next]_vars PROVE RowLockInvariant'
  OBVIOUS
<1> USE DEF IInv
<1>1. ASSUME NEW o \in Objects, NEW s \in Statuses, IngestObject(o, s)
      PROVE  RowLockInvariant'
  <2>1. \A q \in Requests : HoldsRow(q) => status'[call[q].obj] = status[call[q].obj]
    BY <1>1 DEF IngestObject, RowLockInvariant, TypeOK, HoldsRow, InTransaction, CallType
  <2> QED BY <1>1, <2>1 DEF IngestObject, RowLockInvariant, HoldsRow, InTransaction
<1>2. ASSUME NEW r \in Requests, NEW op \in Operations, NEW target \in Statuses,
             NEW suggester \in Suggesters, NEW trigger \in TriggersOf(op),
             Refuse(r, op, target, trigger, suggester)
      PROVE  RowLockInvariant'
  BY <1>2, FinishLock DEF Refuse, Outcomes
<1>3. ASSUME NEW r \in Requests, NEW op \in Operations, NEW target \in Statuses,
             NEW suggester \in Suggesters, NEW trigger \in TriggersOf(op), NEW o \in Objects,
             Begin(r, op, o, target, trigger, suggester)
      PROVE  RowLockInvariant'
  <2>1. [op |-> op, obj |-> o, target |-> target, trigger |-> trigger] \in CallType
    BY <1>3 DEF Begin, ValidInput, CallType, TriggersOf, TriggerKinds
  <2>2. \A q \in Requests \ {r} : pc'[q] = pc[q] /\ call'[q] = call[q]
    BY <1>3 DEF Begin, TypeOK
  <2>3. /\ pc[r] = "idle" /\ pc'[r] = "begun"
        /\ call'[r] = [op |-> op, obj |-> o, target |-> target, trigger |-> trigger]
    BY <1>3 DEF Begin, TypeOK
  <2>4. UNCHANGED <<status, lock, seen, outcome>>
    BY <1>3 DEF Begin
  <2> QED BY <2>1, <2>2, <2>3, <2>4 DEF RowLockInvariant, HoldsRow, InTransaction
<1>4. ASSUME NEW r \in Requests, LockRow(r) PROVE RowLockInvariant'
  <2>1. /\ pc[r] = "begun" /\ call[r] \in CallType /\ call[r].obj \in Objects
        /\ lock[call[r].obj] = NoRequest /\ status[call[r].obj] # Absent
    BY <1>4 DEF LockRow, RowLockInvariant, InTransaction, CallType
  <2>2. \A q \in Requests \ {r} : pc'[q] = pc[q] /\ seen'[q] = seen[q]
    BY <1>4 DEF LockRow, TypeOK
  <2>3. pc'[r] = "locked" /\ seen'[r] = status[call[r].obj]
    BY <1>4 DEF LockRow, TypeOK
  <2>4. \A o \in Objects : lock'[o] = IF o = call[r].obj THEN r ELSE lock[o]
    BY <1>4, <2>1 DEF LockRow, TypeOK
  <2>5. UNCHANGED <<status, call, outcome>>
    BY <1>4 DEF LockRow
  <2> QED BY <2>1, <2>2, <2>3, <2>4, <2>5, NoRequestAssumption
          DEF RowLockInvariant, HoldsRow, InTransaction
<1>5. ASSUME NEW r \in Requests, NotFound(r) PROVE RowLockInvariant'
  BY <1>5, FinishLock DEF NotFound, Outcomes
<1>6. ASSUME NEW r \in Requests, Reject(r) PROVE RowLockInvariant'
  BY <1>6, FinishLock DEF Reject, Outcomes
<1>7. ASSUME NEW r \in Requests, UpdateStatus(r) PROVE RowLockInvariant'
  BY <1>7 DEF UpdateStatus, RowLockInvariant, HoldsRow, InTransaction, TypeOK
<1>8. ASSUME NEW r \in Requests, InsertAudit(r) PROVE RowLockInvariant'
  BY <1>8 DEF InsertAudit, RowLockInvariant, HoldsRow, InTransaction
<1>9. ASSUME NEW r \in Requests, Commit(r) PROVE RowLockInvariant'
  BY <1>9, FinishLock DEF Commit, Outcomes
<1>10. ASSUME NEW r \in Requests, CommitLost(r) PROVE RowLockInvariant'
  BY <1>10, FinishLock DEF CommitLost, Outcomes
<1>11. ASSUME NEW r \in Requests, Rollback(r) PROVE RowLockInvariant'
  BY <1>11, FinishLock DEF Rollback, Outcomes
<1>12. CASE UNCHANGED vars
  BY <1>12 DEF vars, RowLockInvariant, HoldsRow, InTransaction
<1> QED
  BY <1>1, <1>2, <1>3, <1>4, <1>5, <1>6, <1>7, <1>8, <1>9, <1>10, <1>11, <1>12
  DEF Next, Start, Advance, Quiescent

\* The types of ObjectLifecycle and the row-lock protocol hold always: a row is
\* held by exactly the request that is between its SELECT ... FOR UPDATE and the
\* end of its transaction, and what that request read stays true.
THEOREM RowLockHolds == Spec => [](TypeOK /\ RowLockInvariant)
<1>1. Init => IInv
  BY InitIInv
<1>2. IInv /\ [Next]_vars => IInv'
  BY TypeStep, LockStep DEF IInv
<1>3. IInv => TypeOK /\ RowLockInvariant
  BY DEF IInv
<1> QED BY <1>1, <1>2, <1>3, PTL DEF Spec

-----------------------------------------------------------------------------
(* What follows from the row lock.                                         *)

LEMMA IInvHolds == Spec => []IInv
BY RowLockHolds, PTL DEF IInv

\* A transaction that becomes visible moves its object away from a status its
\* operation accepts, and moves no other object.
LEMMA ApplyMoves ==
  ASSUME IInv, NEW r \in Requests, Apply(r)
  PROVE  /\ call[r] \in CallType
         /\ status[call[r].obj] \in SourceStatuses(call[r].op)
         /\ status[call[r].obj] = seen[r]
         /\ status'[call[r].obj] = call[r].target
         /\ \A o \in Objects : o # call[r].obj => status'[o] = status[o] /\ audit'[o] = audit[o]
         /\ audit'[call[r].obj] = audit[call[r].obj] \o RowsOf(r)
<1>1. /\ pc[r] = "auditing"
      /\ status' = [status EXCEPT ![call[r].obj] = call[r].target]
      /\ audit' = [audit EXCEPT ![call[r].obj] = @ \o RowsOf(r)]
  BY DEF Apply
<1>2. call[r] \in CallType /\ call[r].obj \in Objects /\ seen[r] = status[call[r].obj]
  BY <1>1, AuditingIsTyped DEF CallType
<1>3. seen[r] \in SourceStatuses(call[r].op)
  BY <1>1 DEF IInv, RowLockInvariant
<1> QED BY <1>1, <1>2, <1>3 DEF IInv, TypeOK

\* No operation accepts a settled status.
LEMMA SourcesAreNotSettled ==
  ASSUME NEW op \in Operations
  PROVE  SourceStatuses(op) \cap (Verdicts \union {"active"}) = {}
BY DEF Operations, SourceStatuses, Verdicts

\* A step that shows nothing: the committed rows, and which requests have
\* committed what, stay as they are.
Quiet ==
  /\ UNCHANGED <<status, audit>>
  /\ \A q \in Requests : /\ Committed(q)' = Committed(q)
                         /\ Committed(q) => call'[q] = call[q]

\* A transaction becomes visible and its request ends.
Visible(r) == Apply(r) /\ (Finish(r, "ok") \/ Finish(r, "commit_unknown"))

LEMMA FinishQuiet ==
  ASSUME IInv, NEW r \in Requests, pc[r] # "done", NEW answer \in Outcomes \ {"ok", "commit_unknown"},
         Finish(r, answer), UNCHANGED <<status, audit>>
  PROVE  Quiet
<1>1. outcome[r] = "pending"
  BY DEF IInv, RowLockInvariant
<1>2. \A q \in Requests : outcome'[q] = IF q = r THEN answer ELSE outcome[q]
  BY DEF Finish, IInv, TypeOK
<1>3. UNCHANGED call
  BY DEF Finish
<1> QED BY <1>1, <1>2, <1>3 DEF Quiet, Committed

\* Every step shows nothing, creates one object, or makes one transaction
\* visible.
LEMMA StepKinds ==
  ASSUME IInv, [Next]_vars
  PROVE  \/ Quiet
         \/ \E o \in Objects, s \in Statuses : IngestObject(o, s)
         \/ \E r \in Requests : Visible(r)
<1>1. ASSUME NEW r \in Requests, NEW op \in Operations, NEW target \in Statuses,
             NEW suggester \in Suggesters, NEW trigger \in TriggersOf(op),
             Refuse(r, op, target, trigger, suggester)
      PROVE  Quiet
  BY <1>1, FinishQuiet DEF Refuse, Outcomes
<1>2. ASSUME NEW r \in Requests, NEW op \in Operations, NEW target \in Statuses,
             NEW suggester \in Suggesters, NEW trigger \in TriggersOf(op), NEW o \in Objects,
             Begin(r, op, o, target, trigger, suggester)
      PROVE  Quiet
  <2>1. outcome[r] = "pending" /\ UNCHANGED <<status, audit, outcome>>
    BY <1>2 DEF Begin, IInv, RowLockInvariant
  <2>2. \A q \in Requests \ {r} : call'[q] = call[q]
    BY <1>2 DEF Begin, IInv, TypeOK
  <2> QED BY <2>1, <2>2 DEF Quiet, Committed
<1>3. ASSUME NEW r \in Requests, NotFound(r) \/ Reject(r) \/ Rollback(r) PROVE Quiet
  BY <1>3, FinishQuiet DEF NotFound, Reject, Rollback, Outcomes, InTransaction
<1>4. ASSUME NEW r \in Requests, LockRow(r) \/ UpdateStatus(r) \/ InsertAudit(r) PROVE Quiet
  BY <1>4 DEF LockRow, UpdateStatus, InsertAudit, Quiet, Committed
<1>5. ASSUME NEW r \in Requests, Commit(r) \/ CommitLost(r) PROVE Visible(r)
  BY <1>5 DEF Commit, CommitLost, Visible
<1>6. CASE UNCHANGED vars
  BY <1>6 DEF vars, Quiet, Committed
<1> QED
  BY <1>1, <1>2, <1>3, <1>4, <1>5, <1>6 DEF Next, Start, Advance, Quiescent

\* A settled object is not moved by a step.
LEMMA SettledStep ==
  ASSUME IInv, [Next]_vars, NEW o \in Objects, status[o] \in Verdicts \union {"active"}
  PROVE  status'[o] = status[o]
<1>1. CASE Quiet
  BY <1>1 DEF Quiet
<1>2. ASSUME NEW x \in Objects, NEW s \in Statuses, IngestObject(x, s)
      PROVE  status'[o] = status[o]
  BY <1>2 DEF IngestObject, IInv, TypeOK, Absent, Verdicts
<1>3. ASSUME NEW r \in Requests, Visible(r) PROVE status'[o] = status[o]
  BY <1>3, ApplyMoves, SourcesAreNotSettled DEF Visible, CallType
<1> QED BY <1>1, <1>2, <1>3, StepKinds

\* Once an object is active, validated or deprecated, no overlap of the three
\* operations moves it.
THEOREM SettledStatusesStay == Spec => SettledStatusesNeverChange
<1>1. IInv /\ [Next]_vars =>
        [\A o \in Objects :
           status[o] \in Verdicts \union {"active"} => status'[o] = status[o]]_vars
  BY SettledStep
<1> QED BY <1>1, IInvHolds, PTL DEF Spec, SettledStatusesNeverChange

-----------------------------------------------------------------------------
(* Of two verdicts on one object, at most one is recorded.                 *)

\* Request r has recorded a verdict on object o.
Decided(r, o) ==
  Committed(r) /\ call[r] \in CallType /\ call[r].op # "mark" /\ call[r].obj = o

\* The strengthening: a recorded verdict, acknowledged or not, is the status.
VerdictInv ==
  /\ \A r \in Requests : Committed(r) => call[r] \in CallType
  /\ \A r \in Requests, o \in Objects : Decided(r, o) => status[o] = call[r].target
  /\ \A r, q \in Requests, o \in Objects : Decided(r, o) /\ Decided(q, o) => r = q

\* What making r's transaction visible does to the committed requests.
LEMMA VisibleCommits ==
  ASSUME IInv, NEW r \in Requests, Visible(r)
  PROVE  /\ ~ Committed(r) /\ Committed(r)'
         /\ \A q \in Requests \ {r} : Committed(q)' = Committed(q)
         /\ UNCHANGED call
<1>1. pc[r] = "auditing" /\ outcome[r] = "pending"
  BY DEF Visible, Apply, IInv, RowLockInvariant
<1> QED BY <1>1 DEF Visible, Finish, Committed, IInv, TypeOK

\* An operation that is not MarkDebating gives a verdict.
LEMMA TargetsAreVerdicts ==
  ASSUME NEW c \in CallType, c.op # "mark"
  PROVE  c.target \in Verdicts /\ c.target \notin SourceStatuses(c.op) /\ c.target # Absent
BY DEF CallType, AllowedTargets, Verdicts, SourceStatuses, Operations, Absent

LEMMA VerdictStep == IInv /\ VerdictInv /\ [Next]_vars => VerdictInv'
<1> SUFFICES ASSUME IInv, VerdictInv, [Next]_vars PROVE VerdictInv'
  OBVIOUS
<1>1. CASE Quiet
  BY <1>1 DEF Quiet, VerdictInv, Decided
<1>2. ASSUME NEW x \in Objects, NEW s \in Statuses, IngestObject(x, s) PROVE VerdictInv'
  <2>1. UNCHANGED <<call, outcome>> /\ status[x] = Absent
    BY <1>2 DEF IngestObject
  <2>2. \A q \in Requests : ~ Decided(q, x)
    BY <2>1, TargetsAreVerdicts DEF VerdictInv, Decided
  <2>3. \A o \in Objects : o # x => status'[o] = status[o]
    BY <1>2 DEF IngestObject, IInv, TypeOK
  <2> QED BY <2>1, <2>2, <2>3 DEF VerdictInv, Decided, Committed
<1>3. ASSUME NEW r \in Requests, Visible(r) PROVE VerdictInv'
  <2> DEFINE x == call[r].obj
  <2>1. /\ call[r] \in CallType /\ x \in Objects
        /\ status[x] \in SourceStatuses(call[r].op)
        /\ status'[x] = call[r].target
        /\ \A o \in Objects : o # x => status'[o] = status[o]
    BY <1>3, ApplyMoves DEF Visible, CallType
  <2>2. \A q \in Requests : ~ Decided(q, x)
    BY <2>1, TargetsAreVerdicts, SourcesAreNotSettled DEF VerdictInv, Decided, CallType
  <2>3. /\ ~ Committed(r) /\ Committed(r)' /\ UNCHANGED call
        /\ \A q \in Requests \ {r} : Committed(q)' = Committed(q)
    BY <1>3, VisibleCommits
  <2>4. \A q \in Requests : (Committed(q) => call[q] \in CallType)'
    BY <2>1, <2>3 DEF VerdictInv
  <2>5. \A q \in Requests \ {r}, o \in Objects : Decided(q, o)' = Decided(q, o)
    BY <2>3 DEF Decided
  <2>6. \A o \in Objects : Decided(r, o)' => o = x
    BY <2>3 DEF Decided
  <2>7. \A q \in Requests, o \in Objects : (Decided(q, o) => status[o] = call[q].target)'
    BY <2>1, <2>2, <2>3, <2>5, <2>6 DEF VerdictInv
  <2>8. \A p, q \in Requests, o \in Objects : (Decided(p, o) /\ Decided(q, o) => p = q)'
    BY <2>2, <2>5, <2>6 DEF VerdictInv
  <2> QED BY <2>4, <2>7, <2>8 DEF VerdictInv
<1> QED BY <1>1, <1>2, <1>3, StepKinds

\* A caller told that its verdict was recorded can rely on it for good, and no
\* other verdict on that object was recorded.
THEOREM VerdictStands == Spec => []AcknowledgedVerdictStands
<1>1. Init => VerdictInv
  BY DEF Init, VerdictInv, Decided, Committed
<1>2. VerdictInv => AcknowledgedVerdictStands
  <2> SUFFICES ASSUME VerdictInv, NEW r \in Requests, outcome[r] = "ok", call[r].op # "mark"
               PROVE  /\ status[call[r].obj] = call[r].target
                      /\ \A q \in Requests \ {r} :
                           (Committed(q) /\ call[q].op # "mark") => call[q].obj # call[r].obj
    BY DEF AcknowledgedVerdictStands
  <2>1. call[r] \in CallType /\ Decided(r, call[r].obj) /\ call[r].obj \in Objects
    BY DEF VerdictInv, Decided, Committed, CallType
  <2> QED BY <2>1 DEF VerdictInv, Decided
<1> QED BY <1>1, <1>2, VerdictStep, IInvHolds, PTL DEF Spec

-----------------------------------------------------------------------------
(* The audit trail.                                                        *)

\* One transaction writes one row, or two of which the second accompanies the
\* first; every row goes from the status that was read to the target.
LEMMA AuditRowsShape ==
  ASSUME NEW op \in Operations, NEW source \in SourceStatuses(op), NEW target \in AllowedTargets(op),
         NEW trigger \in TriggerKinds, NEW r \in Requests
  PROVE  \E x, y \in RowType :
           /\ \/ AuditRows(op, source, target, trigger, r) = <<x>>
              \/ AuditRows(op, source, target, trigger, r) = <<x, y>>
           /\ x.before = source /\ x.after = target /\ x.by = r
           /\ y.before = source /\ y.after = target /\ y.by = r
           /\ y.action # "status_changed"
           /\ AuditRows(op, source, target, trigger, r) = <<x, y>> => x.action = "status_changed"
<1> DEFINE rows == AuditRows(op, source, target, trigger, r)
           changed == Row("status_changed", source, target, "empty", r)
           opened  == Row("debate_opened", source, target,
                          DebateMetadata(trigger, Duplicate(op, source)), r)
           closed  == Row("debate_resolved", source, target, "empty", r)
<1>1. source \in Statuses /\ target \in Statuses
  BY DEF SourceStatuses, AllowedTargets, Verdicts, Statuses, Operations
<1>2. /\ changed \in RowType /\ opened \in RowType /\ closed \in RowType
      /\ changed.before = source /\ changed.after = target /\ changed.by = r
      /\ opened.before = source /\ opened.after = target /\ opened.by = r
      /\ closed.before = source /\ closed.after = target /\ closed.by = r
      /\ changed.action = "status_changed" /\ opened.action # "status_changed"
      /\ closed.action # "status_changed"
  BY <1>1 DEF Row, RowType, DebateMetadata
<1>3. \/ rows = <<changed>>
      \/ rows = <<changed, closed>>
      \/ rows = <<opened>>
      \/ rows = <<changed, opened>>
  BY DEF AuditRows, Operations
<1> HIDE DEF rows, changed, opened, closed
<1>4. \A a, b, c : <<a>> # <<b, c>>
  OBVIOUS
<1>5. CASE rows = <<changed>>
  <2>1. rows # <<changed, closed>>
    BY <1>4, <1>5
  <2> QED BY <1>2, <1>5, <2>1 DEF rows
<1>6. CASE rows = <<changed, closed>>
  BY <1>2, <1>6 DEF rows
<1>7. CASE rows = <<opened>>
  <2>1. rows # <<opened, closed>>
    BY <1>4, <1>7
  <2> QED BY <1>2, <1>7, <2>1 DEF rows
<1>8. CASE rows = <<changed, opened>>
  BY <1>2, <1>8 DEF rows
<1> QED BY <1>3, <1>5, <1>6, <1>7, <1>8

\* Trail t is connected and ends in status s.
Connected(t, s) ==
  /\ \A i \in 1 .. Len(t) - 1 : Follows(t[i], t[i + 1])
  /\ Len(t) > 0 => t[Len(t)].after = s

LEMMA ConnectedOne ==
  ASSUME NEW t \in Seq(RowType), NEW x \in RowType, Connected(t, x.before)
  PROVE  Connected(t \o <<x>>, x.after)
<1> DEFINE u == t \o <<x>>
<1>1. /\ u \in Seq(RowType) /\ Len(u) = Len(t) + 1 /\ Len(t) \in Nat
      /\ \A i \in 1 .. Len(t) : u[i] = t[i]
      /\ u[Len(t) + 1] = x
  OBVIOUS
<1> HIDE DEF u
<1>2. ASSUME NEW i \in 1 .. Len(u) - 1 PROVE Follows(u[i], u[i + 1])
  <2>1. CASE i = Len(t)
    BY <1>1, <2>1 DEF Connected, Follows
  <2>2. CASE i \in 1 .. Len(t) - 1
    <3>1. u[i] = t[i] /\ u[i + 1] = t[i + 1]
      BY <1>1, <2>2
    <3> QED BY <2>2, <3>1 DEF Connected
  <2> QED BY <1>1, <2>1, <2>2
<1>3. Connected(u, x.after)
  BY <1>1, <1>2 DEF Connected
<1> QED BY <1>3 DEF u

LEMMA ConnectedTwo ==
  ASSUME NEW t \in Seq(RowType), NEW x \in RowType, NEW y \in RowType, Connected(t, x.before), Follows(x, y)
  PROVE  Connected(t \o <<x, y>>, y.after)
<1> DEFINE u == t \o <<x, y>>
<1>1. /\ u \in Seq(RowType) /\ Len(u) = Len(t) + 2 /\ Len(t) \in Nat
      /\ \A i \in 1 .. Len(t) : u[i] = t[i]
      /\ u[Len(t) + 1] = x /\ u[Len(t) + 2] = y
  OBVIOUS
<1> HIDE DEF u
<1>2. ASSUME NEW i \in 1 .. Len(u) - 1 PROVE Follows(u[i], u[i + 1])
  <2>1. CASE i = Len(t)
    BY <1>1, <2>1 DEF Connected, Follows
  <2>2. CASE i \in 1 .. Len(t) - 1
    <3>1. u[i] = t[i] /\ u[i + 1] = t[i + 1]
      BY <1>1, <2>2
    <3> QED BY <2>2, <3>1 DEF Connected
  <2>3. CASE i = Len(t) + 1
    <3>1. u[i] = x /\ u[i + 1] = y
      BY <1>1, <2>3
    <3> QED BY <3>1
  <2> QED BY <1>1, <2>1, <2>2, <2>3
<1>3. Connected(u, y.after)
  BY <1>1, <1>2 DEF Connected
<1> QED BY <1>3 DEF u

\* What a transaction appends to the trail of its object.
LEMMA VisibleTrail ==
  ASSUME IInv, NEW r \in Requests, Visible(r)
  PROVE  \E x, y \in RowType :
           /\ RowsOf(r) = <<x>> \/ RowsOf(r) = <<x, y>>
           /\ x.before = status[call[r].obj] /\ x.after = status'[call[r].obj] /\ x.by = r
           /\ y.after = status'[call[r].obj] /\ y.by = r
           /\ RowsOf(r) = <<x, y>> => Follows(x, y)
<1>1. /\ call[r] \in CallType /\ seen[r] \in SourceStatuses(call[r].op)
      /\ status[call[r].obj] = seen[r] /\ status'[call[r].obj] = call[r].target
  BY ApplyMoves DEF Visible
<1>2. /\ call[r].op \in Operations /\ call[r].target \in AllowedTargets(call[r].op)
      /\ call[r].trigger \in TriggerKinds
  BY <1>1 DEF CallType
<1>3. PICK x \in RowType, y \in RowType :
        /\ RowsOf(r) = <<x>> \/ RowsOf(r) = <<x, y>>
        /\ x.before = seen[r] /\ x.after = call[r].target /\ x.by = r
        /\ y.before = seen[r] /\ y.after = call[r].target /\ y.by = r
        /\ y.action # "status_changed"
        /\ RowsOf(r) = <<x, y>> => x.action = "status_changed"
  BY <1>1, <1>2, AuditRowsShape DEF RowsOf
<1>4. RowsOf(r) = <<x, y>> => Follows(x, y)
  BY <1>3 DEF Follows
<1> QED BY <1>1, <1>3, <1>4

\* The strengthening of AuditTrailExplainsStatus is the invariant itself.
TrailInv == \A o \in Objects : Connected(audit[o], status[o])

\* An object that does not exist yet has no trail.
LEMMA NoTrailBeforeCreation ==
  ASSUME IInv, TrailInv, NEW o \in Objects, status[o] = Absent
  PROVE  Len(audit[o]) = 0
<1>1. audit[o] \in Seq(RowType) /\ Connected(audit[o], Absent)
  BY DEF IInv, TypeOK, TrailInv
<1>2. ASSUME Len(audit[o]) > 0 PROVE FALSE
  <2>1. audit[o][Len(audit[o])] \in RowType
    BY <1>1, <1>2
  <2>2. audit[o][Len(audit[o])].after \in Statuses
    BY <2>1 DEF RowType
  <2>3. audit[o][Len(audit[o])].after = Absent
    BY <1>1, <1>2 DEF Connected
  <2> QED BY <2>2, <2>3 DEF Statuses, Absent
<1>3. Len(audit[o]) \in Nat
  BY <1>1
<1> QED BY <1>2, <1>3

LEMMA TrailStep == IInv /\ TrailInv /\ [Next]_vars => TrailInv'
<1> SUFFICES ASSUME IInv, TrailInv, [Next]_vars, NEW o \in Objects
             PROVE  Connected(audit'[o], status'[o])
  BY DEF TrailInv, Connected
<1>1. CASE Quiet
  BY <1>1 DEF Quiet, TrailInv
<1>2. ASSUME NEW x \in Objects, NEW s \in Statuses, IngestObject(x, s)
      PROVE  Connected(audit'[o], status'[o])
  <2>1. UNCHANGED audit /\ status[x] = Absent
    BY <1>2 DEF IngestObject
  <2>2. CASE o = x
    <3>1. Len(audit[o]) = 0
      BY <2>1, <2>2, NoTrailBeforeCreation
    <3> QED BY <2>1, <3>1 DEF Connected
  <2>3. CASE o # x
    BY <1>2, <2>1, <2>3 DEF IngestObject, TrailInv, IInv, TypeOK
  <2> QED BY <2>2, <2>3
<1>3. ASSUME NEW r \in Requests, Visible(r) PROVE Connected(audit'[o], status'[o])
  <2>1. CASE o # call[r].obj
    <3>1. status'[o] = status[o] /\ audit'[o] = audit[o]
      BY <1>3, <2>1, ApplyMoves DEF Visible
    <3> QED BY <3>1 DEF TrailInv
  <2>2. CASE o = call[r].obj
    <3>1. audit'[o] = audit[o] \o RowsOf(r)
      BY <1>3, <2>2, ApplyMoves DEF Visible
    <3>2. audit[o] \in Seq(RowType) /\ Connected(audit[o], status[o])
      BY DEF IInv, TypeOK, TrailInv
    <3>3. PICK x \in RowType, y \in RowType :
            /\ RowsOf(r) = <<x>> \/ RowsOf(r) = <<x, y>>
            /\ x.before = status[o] /\ x.after = status'[o]
            /\ y.after = status'[o]
            /\ RowsOf(r) = <<x, y>> => Follows(x, y)
      BY <1>3, <2>2, VisibleTrail
    <3>4. CASE RowsOf(r) = <<x>>
      <4>1. Connected(audit[o] \o <<x>>, x.after)
        BY <3>2, <3>3, ConnectedOne
      <4> QED BY <3>1, <3>3, <3>4, <4>1
    <3>5. CASE RowsOf(r) = <<x, y>>
      <4>1. Connected(audit[o] \o <<x, y>>, y.after)
        BY <3>2, <3>3, <3>5, ConnectedTwo
      <4> QED BY <3>1, <3>3, <3>5, <4>1
    <3> QED BY <3>3, <3>4, <3>5
  <2> QED BY <2>1, <2>2
<1> QED BY <1>1, <1>2, <1>3, StepKinds

LEMMA TrailHolds == Spec => []TrailInv
<1>1. Init => TrailInv
  BY DEF Init, TrailInv, Connected
<1> QED BY <1>1, TrailStep, IInvHolds, PTL DEF Spec

\* The audit trail of every object is one unbroken story that ends in the
\* object's present status.
THEOREM AuditTrailHolds == Spec => []AuditTrailExplainsStatus
<1>1. TrailInv => AuditTrailExplainsStatus
  BY DEF TrailInv, Connected, AuditTrailExplainsStatus
<1> QED BY <1>1, TrailHolds, PTL

-----------------------------------------------------------------------------
(* Transactions implement whole operations.                                *)

\* A request whose transaction is not visible has left no row.
TracedInv == \A r \in Requests : ~ Committed(r) => Untraced(r)

LEMMA TracedStep == IInv /\ TracedInv /\ [Next]_vars => TracedInv'
<1> SUFFICES ASSUME IInv, TracedInv, [Next]_vars, NEW q \in Requests, ~ Committed(q)',
                    NEW o \in Objects, NEW i \in 1 .. Len(audit'[o])
             PROVE  audit'[o][i].by # q
  BY DEF TracedInv, Untraced
<1>1. CASE Quiet
  BY <1>1 DEF Quiet, TracedInv, Untraced
<1>2. ASSUME NEW x \in Objects, NEW s \in Statuses, IngestObject(x, s)
      PROVE  audit'[o][i].by # q
  BY <1>2 DEF IngestObject, TracedInv, Untraced, Committed
<1>3. ASSUME NEW r \in Requests, Visible(r) PROVE audit'[o][i].by # q
  <2>1. q # r /\ Untraced(q)
    BY <1>3, VisibleCommits DEF TracedInv
  <2>2. CASE o # call[r].obj
    <3>1. audit'[o] = audit[o]
      BY <1>3, <2>2, ApplyMoves DEF Visible
    <3> QED BY <2>1, <3>1 DEF Untraced
  <2>3. CASE o = call[r].obj
    <3>1. audit'[o] = audit[o] \o RowsOf(r)
      BY <1>3, <2>3, ApplyMoves DEF Visible
    <3>2. audit[o] \in Seq(RowType)
      BY DEF IInv, TypeOK
    <3>3. PICK x \in RowType, y \in RowType :
            /\ RowsOf(r) = <<x>> \/ RowsOf(r) = <<x, y>>
            /\ x.by = r /\ y.by = r
      BY <1>3, VisibleTrail
    <3>4. \/ audit'[o] = audit[o] \o <<x>>
          \/ audit'[o] = audit[o] \o <<x, y>>
      BY <3>1, <3>3
    <3>5. \/ i \in 1 .. Len(audit[o]) /\ audit'[o][i] = audit[o][i]
          \/ audit'[o][i] = x
          \/ audit'[o][i] = y
      BY <3>2, <3>4
    <3> QED BY <2>1, <3>3, <3>5 DEF Untraced
  <2> QED BY <2>2, <2>3
<1> QED BY <1>1, <1>2, <1>3, StepKinds

LEMMA TracedHolds == Spec => []TracedInv
<1>1. Init => TracedInv
  BY DEF Init, TracedInv, Untraced
<1> QED BY <1>1, TracedStep, IInvHolds, PTL DEF Spec

-----------------------------------------------------------------------------
(* A transaction leaves all of its rows, in one place, or none.            *)

\* The rows of q are those of t behind place i, and t has no others of q.
BlockAt(t, i, rows, q) ==
  /\ \A k \in 1 .. Len(rows) : t[i + k] = rows[k]
  /\ \A k \in 1 .. Len(t) : t[k].by = q => k \in i + 1 .. i + Len(rows)

Elsewhere(q) ==
  \A o \in Objects \ {call[q].obj} : \A k \in 1 .. Len(audit[o]) : audit[o][k].by # q

Whole(q) ==
  /\ call[q] \in CallType /\ RowsOf(q) \in Seq(RowType)
  /\ \E i \in 0 .. Len(audit[call[q].obj]) - Len(RowsOf(q)) :
       BlockAt(audit[call[q].obj], i, RowsOf(q), q)
  /\ Elsewhere(q)

WholeInv == \A q \in Requests : Committed(q) => Whole(q)

\* Rows of another request behind t leave a block of t where it is.
LEMMA BlockStays ==
  ASSUME NEW t \in Seq(RowType), NEW rows \in Seq(RowType), NEW q, NEW x \in RowType, NEW y \in RowType,
         x.by # q, y.by # q, NEW i \in 0 .. Len(t) - Len(rows), BlockAt(t, i, rows, q),
         NEW u, u = t \o <<x>> \/ u = t \o <<x, y>>
  PROVE  i \in 0 .. Len(u) - Len(rows) /\ BlockAt(u, i, rows, q)
<1>1. /\ Len(t) \in Nat /\ Len(rows) \in Nat
      /\ Len(u) \in {Len(t) + 1, Len(t) + 2}
      /\ \A k \in 1 .. Len(t) : u[k] = t[k]
      /\ \A k \in 1 .. Len(u) : k \in 1 .. Len(t) \/ u[k] \in {x, y}
  OBVIOUS
<1>2. i \in 0 .. Len(u) - Len(rows)
  BY <1>1
<1>3. ASSUME NEW k \in 1 .. Len(rows) PROVE u[i + k] = rows[k]
  <2>1. i + k \in 1 .. Len(t)
    BY <1>1
  <2> QED BY <1>1, <2>1 DEF BlockAt
<1>4. ASSUME NEW k \in 1 .. Len(u), u[k].by = q PROVE k \in i + 1 .. i + Len(rows)
  <2>1. k \in 1 .. Len(t) /\ t[k].by = q
    BY <1>1, <1>4
  <2> QED BY <2>1 DEF BlockAt
<1> QED BY <1>2, <1>3, <1>4 DEF BlockAt

\* Behind a trail without rows of q, its rows are such a block.
LEMMA BlockStarts ==
  ASSUME NEW t \in Seq(RowType), NEW rows \in Seq(RowType), NEW q,
         \A k \in 1 .. Len(t) : t[k].by # q
  PROVE  /\ Len(t) \in 0 .. Len(t \o rows) - Len(rows)
         /\ BlockAt(t \o rows, Len(t), rows, q)
<1> DEFINE u == t \o rows
<1>1. /\ Len(t) \in Nat /\ Len(rows) \in Nat /\ Len(u) = Len(t) + Len(rows)
      /\ \A k \in 1 .. Len(t) : u[k] = t[k]
      /\ \A k \in 1 .. Len(rows) : u[Len(t) + k] = rows[k]
  OBVIOUS
<1> HIDE DEF u
<1>2. ASSUME NEW k \in 1 .. Len(u), u[k].by = q PROVE k \in Len(t) + 1 .. Len(t) + Len(rows)
  <2>1. k \notin 1 .. Len(t)
    BY <1>1, <1>2
  <2> QED BY <1>1, <2>1
<1>3. Len(t) \in 0 .. Len(u) - Len(rows) /\ BlockAt(u, Len(t), rows, q)
  BY <1>1, <1>2 DEF BlockAt
<1> QED BY <1>3 DEF u

\* What a committed request asked for and read does not change any more.
LEMMA CommittedStay ==
  ASSUME IInv, [Next]_vars, NEW q \in Requests, Committed(q)
  PROVE  call'[q] = call[q] /\ seen'[q] = seen[q]
<1>1. pc[q] = "done"
  BY DEF Committed, IInv, RowLockInvariant
<1>2. ASSUME NEW r \in Requests, NEW op \in Operations, NEW target \in Statuses,
             NEW suggester \in Suggesters, NEW trigger \in TriggersOf(op)
      PROVE  /\ Refuse(r, op, target, trigger, suggester) => UNCHANGED <<call, seen>>
             /\ \A o \in Objects : Begin(r, op, o, target, trigger, suggester)
                  => call'[q] = call[q] /\ seen'[q] = seen[q]
  BY <1>1 DEF Refuse, Begin, Finish, IInv, TypeOK
<1>3. ASSUME NEW r \in Requests, Advance(r) \/ CommitLost(r) \/ Rollback(r)
      PROVE  call'[q] = call[q] /\ seen'[q] = seen[q]
  BY <1>1, <1>3 DEF Advance, LockRow, NotFound, Reject, UpdateStatus, InsertAudit, Commit, CommitLost,
     Rollback, Finish, IInv, TypeOK
<1>4. ASSUME NEW o \in Objects, NEW s \in Statuses, IngestObject(o, s) PROVE UNCHANGED <<call, seen>>
  BY <1>4 DEF IngestObject
<1>5. ASSUME NEW r \in Requests, Start(r) PROVE call'[q] = call[q] /\ seen'[q] = seen[q]
  BY <1>2, <1>5 DEF Start
<1>6. CASE UNCHANGED vars
  BY <1>6 DEF vars
<1> QED BY <1>3, <1>4, <1>5, <1>6 DEF Next, Quiescent

LEMMA WholeStep == IInv /\ TracedInv /\ WholeInv /\ [Next]_vars => WholeInv'
<1> SUFFICES ASSUME IInv, TracedInv, WholeInv, [Next]_vars, NEW q \in Requests, Committed(q)'
             PROVE  Whole(q)'
  BY DEF WholeInv
<1>1. ASSUME Committed(q), UNCHANGED audit PROVE Whole(q)'
  BY <1>1, CommittedStay DEF WholeInv, Whole, Elsewhere, RowsOf
<1>2. CASE Quiet
  BY <1>1, <1>2 DEF Quiet
<1>3. ASSUME NEW x \in Objects, NEW s \in Statuses, IngestObject(x, s) PROVE Whole(q)'
  BY <1>1, <1>3 DEF IngestObject, Committed
<1>4. ASSUME NEW r \in Requests, Visible(r) PROVE Whole(q)'
  <2>1. /\ call[r] \in CallType /\ call[r].obj \in Objects
        /\ audit'[call[r].obj] = audit[call[r].obj] \o RowsOf(r)
        /\ \A o \in Objects : o # call[r].obj => audit'[o] = audit[o]
    BY <1>4, ApplyMoves DEF Visible, CallType
  <2>2. UNCHANGED call /\ ~ Committed(r) /\ (q # r => Committed(q))
    BY <1>4, VisibleCommits
  <2>3. RowsOf(q)' = RowsOf(q)
    BY <1>4, <2>2 DEF RowsOf, Visible, Finish
  <2>4. \A o \in Objects : audit[o] \in Seq(RowType)
    BY DEF IInv, TypeOK
  <2>5. PICK x \in RowType, y \in RowType :
          /\ RowsOf(r) = <<x>> \/ RowsOf(r) = <<x, y>>
          /\ x.by = r /\ y.by = r
    BY <1>4, VisibleTrail
  <2>6. CASE q = r
    <3>1. Untraced(r)
      BY <2>2 DEF TracedInv
    <3>2. RowsOf(r) \in Seq(RowType)
      <4>1. <<x>> \in Seq(RowType) /\ <<x, y>> \in Seq(RowType)
        OBVIOUS
      <4> QED BY <2>5, <4>1
    <3>3. /\ Len(audit[call[r].obj]) \in 0 .. Len(audit'[call[r].obj]) - Len(RowsOf(r))
          /\ BlockAt(audit'[call[r].obj], Len(audit[call[r].obj]), RowsOf(r), r)
      BY <2>1, <2>4, <3>1, <3>2, BlockStarts DEF Untraced
    <3>4. Elsewhere(r)'
      BY <2>1, <2>2, <3>1 DEF Elsewhere, Untraced
    <3> QED BY <2>1, <2>2, <2>3, <2>6, <3>2, <3>3, <3>4 DEF Whole, BlockAt
  <2>7. CASE q # r
    <3> DEFINE c == call[q].obj
    <3>1. Whole(q) /\ c \in Objects
      BY <2>2, <2>7 DEF WholeInv, Whole, CallType
    <3>2. PICK i \in 0 .. Len(audit[c]) - Len(RowsOf(q)) : BlockAt(audit[c], i, RowsOf(q), q)
      BY <3>1 DEF Whole
    <3>3. i \in 0 .. Len(audit'[c]) - Len(RowsOf(q)) /\ BlockAt(audit'[c], i, RowsOf(q), q)
      <4>1. CASE c # call[r].obj
        BY <2>1, <3>1, <3>2, <4>1
      <4>2. CASE c = call[r].obj
        <5>1. audit'[c] = audit[c] \o <<x>> \/ audit'[c] = audit[c] \o <<x, y>>
          BY <2>1, <2>5, <4>2
        <5>2. audit[c] \in Seq(RowType) /\ RowsOf(q) \in Seq(RowType)
          BY <2>4, <3>1 DEF Whole
        <5> QED BY <2>5, <2>7, <3>2, <5>1, <5>2, BlockStays
      <4> QED BY <4>1, <4>2
    <3>4. ASSUME NEW o \in Objects \ {c}, NEW k \in 1 .. Len(audit'[o]) PROVE audit'[o][k].by # q
      <4>1. CASE o # call[r].obj
        BY <2>1, <3>1, <4>1 DEF Whole, Elsewhere
      <4>2. CASE o = call[r].obj
        <5>1. audit'[o] = audit[o] \o <<x>> \/ audit'[o] = audit[o] \o <<x, y>>
          BY <2>1, <2>5, <4>2
        <5>2. \/ k \in 1 .. Len(audit[o]) /\ audit'[o][k] = audit[o][k]
              \/ audit'[o][k] \in {x, y}
          BY <2>4, <5>1
        <5> QED BY <2>5, <2>7, <3>1, <5>2 DEF Whole, Elsewhere
      <4> QED BY <4>1, <4>2
    <3>5. Elsewhere(q)'
      BY <2>2, <3>4 DEF Elsewhere
    <3> QED BY <2>2, <2>3, <3>1, <3>3, <3>5 DEF Whole, BlockAt
  <2> QED BY <2>6, <2>7
<1> QED BY <1>2, <1>3, <1>4, StepKinds

\* A transaction leaves all of its audit rows, next to each other and once, or
\* none (WithinObjectDebateTx, whatever fails in it).
THEOREM RowsAreWhole == Spec => []AllRowsOrNone
<1>1. Init => WholeInv
  BY DEF Init, WholeInv, Committed
<1>2. TracedInv /\ WholeInv => AllRowsOrNone
  <2> SUFFICES ASSUME TracedInv, WholeInv, NEW r \in Requests, Committed(r)
               PROVE  \E i \in 0 .. Len(audit[call[r].obj]) - Len(RowsOf(r)) :
                        /\ \A k \in 1 .. Len(RowsOf(r)) : audit[call[r].obj][i + k] = RowsOf(r)[k]
                        /\ \A o \in Objects : \A k \in 1 .. Len(audit[o]) :
                             audit[o][k].by = r => (o = call[r].obj /\ k \in i + 1 .. i + Len(RowsOf(r)))
    BY DEF AllRowsOrNone, TracedInv
  <2>1. PICK i \in 0 .. Len(audit[call[r].obj]) - Len(RowsOf(r)) :
          BlockAt(audit[call[r].obj], i, RowsOf(r), r)
    BY DEF WholeInv, Whole
  <2>2. Elsewhere(r)
    BY DEF WholeInv, Whole
  <2> QED BY <2>1, <2>2 DEF BlockAt, Elsewhere
<1> QED BY <1>1, <1>2, WholeStep, TracedHolds, IInvHolds, PTL DEF Spec

-----------------------------------------------------------------------------
\* The abstract specification follows the same rules: it instantiates the same
\* constant definitions.
LEMMA SameRules ==
  /\ Promise!Absent = Absent /\ Promise!Statuses = Statuses
  /\ Promise!Operations = Operations
  /\ \A op : /\ Promise!SourceStatuses(op) = SourceStatuses(op)
             /\ Promise!AllowedTargets(op) = AllowedTargets(op)
             /\ Promise!TriggersOf(op) = TriggersOf(op)
  /\ \A op, source, target, trigger, by :
       Promise!AuditRows(op, source, target, trigger, by) = AuditRows(op, source, target, trigger, by)
<1>1. /\ Promise!Absent = Absent /\ Promise!Statuses = Statuses
      /\ Promise!Operations = Operations
  BY DEF Promise!Absent, Absent, Promise!Statuses, Statuses, Promise!Operations, Operations
<1>2. ASSUME NEW op
      PROVE  /\ Promise!SourceStatuses(op) = SourceStatuses(op)
             /\ Promise!AllowedTargets(op) = AllowedTargets(op)
             /\ Promise!TriggersOf(op) = TriggersOf(op)
  BY DEF Promise!SourceStatuses, SourceStatuses, Promise!AllowedTargets, AllowedTargets,
         Promise!Verdicts, Verdicts, Promise!TriggersOf, TriggersOf, Promise!TriggerKinds, TriggerKinds
<1>3. ASSUME NEW op, NEW source, NEW target, NEW trigger, NEW by
      PROVE  Promise!AuditRows(op, source, target, trigger, by) = AuditRows(op, source, target, trigger, by)
  BY DEF Promise!AuditRows, AuditRows, Promise!Row, Row, Promise!Duplicate, Duplicate,
         Promise!DebateMetadata, DebateMetadata
<1> QED BY <1>1, <1>2, <1>3

\* To an observer of the committed rows, concurrent row-locking transactions
\* are whole operations, one after another, each on the status the object
\* really has and each at most once.
THEOREM Implements == Spec => ImplementsKnowledgeLifecycle
<1>1. Init => Promise!Init
  BY SameRules DEF Init, Promise!Init
<1>2. IInv /\ TracedInv /\ [Next]_vars => [Promise!Next]_(Promise!vars)
  <2> SUFFICES ASSUME IInv, TracedInv, [Next]_vars PROVE [Promise!Next]_(Promise!vars)
    OBVIOUS
  <2>1. CASE Quiet
    BY <2>1 DEF Quiet, Promise!vars
  <2>2. ASSUME NEW o \in Objects, NEW s \in Statuses, IngestObject(o, s) PROVE Promise!Next
    <3>1. Promise!Create(o, s)
      BY <2>2, SameRules DEF IngestObject, Promise!Create
    <3> QED BY <3>1, SameRules DEF Promise!Next
  <2>3. ASSUME NEW r \in Requests, Visible(r) PROVE Promise!Next
    <3>1. /\ call[r].op \in Operations /\ call[r].obj \in Objects
          /\ call[r].target \in AllowedTargets(call[r].op)
          /\ call[r].trigger \in TriggersOf(call[r].op)
          /\ status[call[r].obj] \in SourceStatuses(call[r].op)
          /\ status[call[r].obj] = seen[r]
      BY <2>3, ApplyMoves DEF Visible, CallType
    <3>2. Promise!Untraced(r)
      BY <2>3, VisibleCommits DEF TracedInv, Untraced, Promise!Untraced
    <3>3. Promise!Decide(r, call[r].op, call[r].obj, call[r].target, call[r].trigger)
      BY <2>3, <3>1, <3>2, SameRules DEF Visible, Apply, RowsOf, Promise!Decide
    <3> QED BY <3>1, <3>3, SameRules DEF Promise!Next
  <2> QED BY <2>1, <2>2, <2>3, StepKinds
<1> QED BY <1>1, <1>2, IInvHolds, TracedHolds, PTL DEF Spec, ImplementsKnowledgeLifecycle, Promise!Spec

-----------------------------------------------------------------------------
(* The lifecycle as services.go wires it to the SDD document: what can be  *)
(* said of the document because of the above.                              *)

\* What a step of the pipeline is: a lifecycle step beside the document, a commit
\* that goes on to the hook, or a call of the hook.
LEMMA PipelineKinds ==
  ASSUME [PipelineNext]_pipelineVars
  PROVE  \/ [Next]_vars /\ UNCHANGED documentVars
         \/ \E r \in Requests :
              /\ Commit(r) /\ call[r].op = "validate"
              /\ Document!Begin(r, call[r].obj, call[r].target)
         \/ \E r \in Requests : Document!Step(r) /\ UNCHANGED vars
<1>1. CASE Ingest
  BY <1>1 DEF Ingest, Next
<1>2. ASSUME NEW r \in Requests, LifecycleStep(r)
      PROVE  [Next]_vars /\ UNCHANGED documentVars
  BY <1>2 DEF LifecycleStep, Next, Advance
<1>3. ASSUME NEW r \in Requests, CommitThenHook(r)
      PROVE  /\ Commit(r)
             /\ \/ UNCHANGED documentVars
                \/ call[r].op = "validate" /\ Document!Begin(r, call[r].obj, call[r].target)
  BY <1>3 DEF CommitThenHook, CallsHook
<1>4. ASSUME NEW r \in Requests, HookStep(r)
      PROVE  Document!Step(r) /\ UNCHANGED vars
  BY <1>4 DEF HookStep
<1>5. CASE AllReturned \/ UNCHANGED pipelineVars
  BY <1>5 DEF AllReturned, pipelineVars
<1>6. ASSUME NEW r \in Requests, Commit(r) PROVE Next
  BY <1>6 DEF Next, Advance
<1> QED BY <1>1, <1>2, <1>3, <1>4, <1>5, <1>6 DEF PipelineNext

\* Wiring the hooks in changes nothing for the lifecycle: the requests of the
\* pipeline are those of ObjectLifecycle, so all of the above holds of them.
THEOREM PipelineImplementsLifecycle == PipelineSpec => Spec
<1>1. PipelineInit => Init
  BY DEF PipelineInit
<1>2. [PipelineNext]_pipelineVars => [Next]_vars
  <2>1. ASSUME NEW r \in Requests, Commit(r) PROVE Next
    BY <2>1 DEF Next, Advance
  <2> QED BY <2>1, PipelineKinds
<1> QED BY <1>1, <1>2, PTL DEF PipelineSpec, Spec

\* The types this part needs.
HookTypeOK ==
  /\ apc \in [Requests -> Document!PcValues]
  /\ job \in [Requests -> Document!JobType \union {Document!NoJob}]
  /\ DOMAIN draft = Requests

\* What a hook call was told stays true.
HookInv ==
  \A r \in Requests :
    /\ apc[r] = "idle" => job[r] = Document!NoJob
    /\ apc[r] # "idle" => /\ job[r].obj \in Objects /\ job[r].status \in Verdicts
                          /\ status[job[r].obj] = job[r].status

\* Nobody's copy of the entries lists an object that is not validated, nor does
\* the document.
ListInv ==
  /\ \A r \in Requests : \A e \in draft[r] : e.obj \in Objects /\ status[e.obj] = "validated"
  /\ \A e \in doc.entries : e.obj \in Objects /\ status[e.obj] = "validated"

PipelineInv == HookTypeOK /\ HookInv /\ ListInv

\* A lifecycle step beside the document moves no object that has a verdict.
LEMMA BesideKeeps ==
  ASSUME IInv, PipelineInv, [Next]_vars, UNCHANGED documentVars
  PROVE  PipelineInv'
<1>1. \A o \in Objects : status[o] \in Verdicts => status'[o] = status[o]
  BY SettledStep
<1> QED BY <1>1 DEF PipelineInv, HookTypeOK, HookInv, ListInv, documentVars, Verdicts

\* A hook begins with the verdict that was just committed.
LEMMA HookBegins ==
  ASSUME IInv, PipelineInv, NEW r \in Requests, Commit(r), call[r].op = "validate",
         Document!Begin(r, call[r].obj, call[r].target)
  PROVE  PipelineInv'
<1>1. call[r].obj \in Objects /\ call[r].target \in Verdicts
  <2>1. call[r] \in CallType
    BY AuditingIsTyped DEF Commit, Apply
  <2> QED BY <2>1 DEF CallType, AllowedTargets
<1>2. \A o \in Objects : status[o] \in Verdicts => status'[o] = status[o]
  BY SettledStep DEF Next, Advance
<1>3. status'[call[r].obj] = call[r].target
  BY <1>1 DEF Commit, Apply, IInv, TypeOK
<1>4. HookTypeOK'
  BY <1>1 DEF PipelineInv, HookTypeOK, Document!Begin, Document!PcValues,
              Document!JobType, Document!HookStatuses, Verdicts
<1>5. HookInv'
  <2>1. job'[r] = [obj |-> call[r].obj, status |-> call[r].target] /\ apc'[r] = "begun"
    BY DEF PipelineInv, HookTypeOK, Document!Begin
  <2>2. \A q \in Requests \ {r} : apc'[q] = apc[q] /\ job'[q] = job[q]
    BY DEF PipelineInv, HookTypeOK, Document!Begin
  <2> QED BY <1>1, <1>2, <1>3, <2>1, <2>2 DEF PipelineInv, HookInv
<1>6. ListInv'
  BY <1>2 DEF PipelineInv, ListInv, Document!Begin, Verdicts
<1> QED BY <1>4, <1>5, <1>6 DEF PipelineInv

\* The hook copies entries and adds its own object, whose verdict still stands.
LEMMA HookGoesOn ==
  ASSUME PipelineInv, NEW r \in Requests, Document!Step(r), UNCHANGED vars
  PROVE  PipelineInv'
<1> USE DEF PipelineInv
<1>1. UNCHANGED <<status, job>>
  BY DEF vars, Document!Step, Document!Advance, Document!FindByWorkspace,
         Document!ReadDoc, Document!ReadNoDoc, Document!Upsert,
         Document!ReturnEarly, Document!Commit, Document!CommitLost,
         Document!Rollback, Document!Finish
<1>2. CASE Document!FindByWorkspace(r)
  <2>1. /\ apc[r] = "begun" /\ doc' = doc
        /\ \/ apc' = [apc EXCEPT ![r] = "read"] /\ draft' = [draft EXCEPT ![r] = doc.entries]
           \/ apc' = [apc EXCEPT ![r] = "missed"] /\ draft' = [draft EXCEPT ![r] = {}]
    BY <1>2 DEF Document!FindByWorkspace, Document!ReadDoc, Document!ReadNoDoc
  <2> QED BY <1>1, <2>1 DEF HookTypeOK, HookInv, ListInv, Document!PcValues
<1>3. CASE Document!Upsert(r)
  <2>1. /\ apc[r] \in {"read", "missed"} /\ doc' = doc
        /\ draft' = [draft EXCEPT ![r] = Document!Merged(r, draft[r])]
        /\ apc' = [apc EXCEPT ![r] = IF @ = "read" THEN "upserted" ELSE "inserted"]
    BY <1>3 DEF Document!Upsert
  <2>2. \A e \in Document!Merged(r, draft[r]) : e.obj \in Objects /\ status[e.obj] = "validated"
    BY <2>1 DEF HookInv, ListInv, Document!Merged, Document!Without
  <2>3. HookTypeOK' /\ HookInv'
    BY <1>1, <2>1 DEF HookTypeOK, HookInv, Document!PcValues
  <2>4. ListInv'
    BY <1>1, <2>1, <2>2 DEF HookTypeOK, ListInv
  <2> QED BY <2>3, <2>4
<1>4. CASE Document!ReturnEarly(r) \/ Document!Rollback(r)
  <2>1. apc[r] # "idle" /\ apc' = [apc EXCEPT ![r] = "done"] /\ UNCHANGED <<doc, draft>>
    BY <1>4 DEF Document!ReturnEarly, Document!Rollback, Document!Finish
  <2> QED BY <1>1, <2>1 DEF HookTypeOK, HookInv, ListInv, Document!PcValues
<1>5. CASE Document!Commit(r) \/ Document!CommitLost(r)
  <2>1. /\ apc[r] # "idle" /\ apc' = [apc EXCEPT ![r] = "done"] /\ UNCHANGED draft
        /\ doc'.entries = draft[r]
    BY <1>5 DEF Document!Commit, Document!CommitLost, Document!Apply,
                Document!Finish
  <2> QED BY <1>1, <2>1 DEF HookTypeOK, HookInv, ListInv, Document!PcValues
<1> QED BY <1>2, <1>3, <1>4, <1>5 DEF Document!Step, Document!Advance

\* The hook runs in the goroutine of a Validate that has committed, and a verdict
\* is for good: so a hook that is overtaken by others still reports the truth.
THEOREM HooksReportTheTruth == PipelineSpec => []PipelineInv
<1>1. PipelineInit => PipelineInv
  BY DEF PipelineInit, Document!Init, PipelineInv, HookTypeOK, HookInv, ListInv,
         Document!PcValues
<1>2. IInv /\ PipelineInv /\ [PipelineNext]_pipelineVars => PipelineInv'
  BY PipelineKinds, BesideKeeps, HookBegins, HookGoesOn
<1> QED BY <1>1, <1>2, PipelineImplementsLifecycle, IInvHolds, PTL DEF PipelineSpec

\* The document lists nothing that is not validated, at any moment, however many
\* requests decide and hooks append beside each other.
THEOREM ListedAreValidated == PipelineSpec => []OnlyValidatedIsListed
<1>1. PipelineInv => OnlyValidatedIsListed
  BY DEF PipelineInv, ListInv, OnlyValidatedIsListed, ListedObjects, Document!Listed
<1> QED BY <1>1, HooksReportTheTruth, PTL

\* The calls the pipeline makes are calls of SddDocument: what is proved of the
\* document for any calls holds of it behind the services.
THEOREM PipelineImplementsDocument == PipelineSpec => Document!Spec
<1>1. PipelineInit => Document!Init
  BY DEF PipelineInit
<1>2. IInv /\ [PipelineNext]_pipelineVars => [Document!Next]_(Document!vars)
  <2> SUFFICES ASSUME IInv, [PipelineNext]_pipelineVars
               PROVE  [Document!Next]_(Document!vars)
    OBVIOUS
  <2>1. CASE UNCHANGED documentVars
    BY <2>1 DEF documentVars, Document!vars
  <2>2. ASSUME NEW r \in Requests, Commit(r), call[r].op = "validate",
               Document!Begin(r, call[r].obj, call[r].target)
        PROVE  Document!Next
    <3>1. call[r] \in CallType
      BY <2>2, AuditingIsTyped DEF Commit, Apply
    <3>2. call[r].obj \in Objects /\ call[r].target \in Document!HookStatuses
      BY <2>2, <3>1 DEF CallType, AllowedTargets, Verdicts, Document!HookStatuses
    <3> QED BY <2>2, <3>2 DEF Document!Next
  <2>3. ASSUME NEW r \in Requests, Document!Step(r) PROVE Document!Next
    BY <2>3 DEF Document!Next
  <2> QED BY <2>1, <2>2, <2>3, PipelineKinds
<1> QED BY <1>1, <1>2, PipelineImplementsLifecycle, IInvHolds, PTL DEF PipelineSpec, Document!Spec

-----------------------------------------------------------------------------
(* What the proofs about the document give behind the services: all calls  *)
(* of AppendValidatedObject for one object say the same of it.             *)

DocumentProofs == INSTANCE SddDocumentProofs WITH Appends <- Requests, NoAppend <- NoRequest

LEMMA DocumentAssumptions ==
  TypeOf \in [Objects -> DocumentProofs!ObjectTypes] /\ NoRequest \notin Requests /\ RowExists \in BOOLEAN
BY WorkspaceAssumption, NoRequestAssumption DEF Document!ObjectTypes, DocumentProofs!ObjectTypes

\* The instance whose proofs are used is the document of the pipeline.
LEMMA SameDocument == Document!Spec => DocumentProofs!Spec
<1>1. Document!Init => DocumentProofs!Init
  BY DEF Document!Init, DocumentProofs!Init, Document!NoJob, DocumentProofs!NoJob
<1>2. [Document!Next]_(Document!vars) => [DocumentProofs!Next]_(DocumentProofs!vars)
  <2>1. ASSUME NEW a \in Requests, Document!Step(a) PROVE DocumentProofs!Step(a)
    <3>1. Document!Merged(a, draft[a]) = DocumentProofs!Merged(a, draft[a])
      BY DEF Document!Merged, DocumentProofs!Merged, Document!Without, DocumentProofs!Without,
             Document!SectionOf, DocumentProofs!SectionOf
    <3>2. Document!NothingToDo(a) <=> DocumentProofs!NothingToDo(a)
      BY DEF Document!NothingToDo, DocumentProofs!NothingToDo, Document!Listed, DocumentProofs!Listed
    <3>3. \A answer : Document!Finish(a, answer) <=> DocumentProofs!Finish(a, answer)
      BY DEF Document!Finish, DocumentProofs!Finish
    <3>4. Document!Apply(a) <=> DocumentProofs!Apply(a)
      BY DEF Document!Apply, DocumentProofs!Apply
    <3>5. Document!FindByWorkspace(a) <=> DocumentProofs!FindByWorkspace(a)
      BY DEF Document!FindByWorkspace, DocumentProofs!FindByWorkspace, Document!ReadDoc, DocumentProofs!ReadDoc,
             Document!ReadNoDoc, DocumentProofs!ReadNoDoc
    <3>6. Document!Upsert(a) <=> DocumentProofs!Upsert(a)
      BY <3>1, <3>2 DEF Document!Upsert, DocumentProofs!Upsert
    <3> QED BY <2>1, <3>2, <3>3, <3>4, <3>5, <3>6
        DEF Document!Step, DocumentProofs!Step, Document!Advance, DocumentProofs!Advance,
            Document!ReturnEarly, DocumentProofs!ReturnEarly, Document!Commit, DocumentProofs!Commit,
            Document!CommitLost, DocumentProofs!CommitLost, Document!Rollback, DocumentProofs!Rollback
  <2>2. ASSUME NEW a \in Requests, NEW o \in Objects, NEW s \in Document!HookStatuses, Document!Begin(a, o, s)
        PROVE  DocumentProofs!Next
    BY <2>2 DEF Document!HookStatuses, DocumentProofs!HookStatuses, Document!Begin, DocumentProofs!Begin,
                DocumentProofs!Next
  <2>3. CASE Document!Quiescent \/ UNCHANGED Document!vars
    BY <2>3 DEF Document!Quiescent, Document!vars, DocumentProofs!vars
  <2>4. ASSUME NEW a \in Requests, DocumentProofs!Step(a) PROVE DocumentProofs!Next
    BY <2>4 DEF DocumentProofs!Next
  <2> QED BY <2>1, <2>2, <2>3, <2>4 DEF Document!Next
<1> QED BY <1>1, <1>2, PTL DEF Document!Spec, DocumentProofs!Spec

\* No two hook calls say different things of one object.
LEMMA HooksAgree ==
  ASSUME PipelineInv, NEW a \in Requests, NEW o \in Objects, NEW s \in Verdicts,
         job[a] = [obj |-> o, status |-> s]
  PROVE  status[o] = s
BY DEF PipelineInv, HookInv, Document!NoJob, Verdicts

\* Where the row exists, behind the services the document only grows, whoever
\* decides, whatever fails and however the hooks overlap.
THEOREM ExistingRowKeepsListed ==
  ASSUME RowExists
  PROVE  PipelineSpec => ListedObjectsStayListed
<1>1. DocumentProofs!Spec => DocumentProofs!EntriesAreNeverLost
  BY DocumentAssumptions, RowExists, DocumentProofs!ExistingRowLosesNothing
<1>2. PipelineInv /\ [DocumentProofs!LossIsRemoval]_(DocumentProofs!vars)
      => [ListedObjects \subseteq ListedObjects']_pipelineVars
  <2> SUFFICES ASSUME PipelineInv, NEW o \in ListedObjects, o \notin ListedObjects',
                      \A p \in Objects :
                        (/\ p \in DocumentProofs!Listed(doc.entries)
                         /\ p \notin DocumentProofs!Listed(doc'.entries))
                        => \E a \in Requests : DocumentProofs!Deprecates(a, p)
               PROVE  FALSE
    BY DEF DocumentProofs!LossIsRemoval, DocumentProofs!vars, ListedObjects, Document!Listed
  <2>1. o \in Objects /\ status[o] = "validated"
    BY DEF PipelineInv, ListInv, ListedObjects, Document!Listed
  <2>2. PICK a \in Requests : job[a] = [obj |-> o, status |-> "deprecated"]
    BY <2>1 DEF ListedObjects, Document!Listed, DocumentProofs!Listed, DocumentProofs!Deprecates
  <2> QED BY <2>1, <2>2, HooksAgree DEF Verdicts
<1> QED BY <1>1, <1>2, SameDocument, PipelineImplementsDocument, HooksReportTheTruth, PTL
        DEF DocumentProofs!EntriesAreNeverLost, ListedObjectsStayListed

\* Where the row exists, a hook that reported a validation with success is in the
\* document for good.
THEOREM ExistingRowListsReported ==
  ASSUME RowExists
  PROVE  PipelineSpec => []ReportedValidationsAreListed
<1>1. DocumentProofs!Spec => []DocumentProofs!SuccessfulAppendIsListed
  BY DocumentAssumptions, RowExists, DocumentProofs!ExistingRowListsAppends
<1>2. PipelineInv /\ DocumentProofs!SuccessfulAppendIsListed => ReportedValidationsAreListed
  <2> SUFFICES ASSUME PipelineInv, DocumentProofs!SuccessfulAppendIsListed,
                      NEW r \in Requests, result[r] = "ok", job[r].status = "validated"
               PROVE  job[r].obj \in ListedObjects
    BY DEF ReportedValidationsAreListed
  <2>1. job[r].obj \in Objects /\ status[job[r].obj] = "validated"
    BY DEF PipelineInv, HookInv, Document!NoJob
  <2>2. ASSUME NEW b \in Requests, job[b] = [obj |-> job[r].obj, status |-> "deprecated"] PROVE FALSE
    BY <2>1, <2>2, HooksAgree DEF Verdicts
  <2> QED BY <2>2 DEF DocumentProofs!SuccessfulAppendIsListed, DocumentProofs!Listed,
                      ListedObjects, Document!Listed
<1> QED BY <1>1, <1>2, SameDocument, PipelineImplementsDocument, HooksReportTheTruth, PTL

=============================================================================
