--------------------------- MODULE LifecycleRules ---------------------------
(***************************************************************************)
(* The vocabulary of the object lifecycle: the statuses of a knowledge     *)
(* object (internal/domain/knowledge.go), the three operations that move   *)
(* an object (Validate, MarkDebating, ResolveDebate), the guards each of   *)
(* them applies and the audit rows each of them writes.  Constant level    *)
(* only: the state machines that use these rules are KnowledgeLifecycle    *)
(* (what the services promise) and ObjectLifecycle (how they do it).       *)
(***************************************************************************)
EXTENDS Sequences

Statuses == {"active", "proposed", "debating", "validated", "deprecated"}

\* No committed row: what FindByIDForUpdate answers ErrNotFound to.
Absent == "absent"

Operations == {"validate", "mark", "resolve"}

\* A verdict is a status no operation accepts as its source.
Verdicts == {"validated", "deprecated"}

\* isAllowedValidationTarget, the constant target of MarkDebating, and
\* isAllowedResolveTarget.
AllowedTargets(op) == IF op = "mark" THEN {"debating"} ELSE Verdicts

\* Faulty variant: a deprecated object can be brought back.
SourceStatusesWithRevival(op) ==
  IF op = "mark" THEN {"proposed", "debating"} ELSE {"proposed", "debating", "deprecated"}

\* The statuses each operation accepts once it holds the row.  MarkDebating
\* accepts a debating object too: that is its duplicate path.
SourceStatuses(op) ==
  CASE op = "validate" -> {"proposed"}
    [] op = "mark"     -> {"proposed", "debating"}
    [] op = "resolve"  -> {"debating"}

\* isValidDebateTrigger and isKnownDebateSuggestion: a system trigger needs a
\* known suggester, a human one must name none.
TriggerKinds == {"system", "human", "other"}
Suggesters   == {"none", "contradiction_detector", "unknown"}

ValidTrigger(trigger, suggester) ==
  \/ trigger = "system" /\ suggester = "contradiction_detector"
  \/ trigger = "human"  /\ suggester = "none"

\* Validate and ResolveDebate take no trigger; a fixed one stands for none.
TriggersOf(op) == IF op = "mark" THEN TriggerKinds ELSE {"human"}

\* What a service checks before it opens a transaction.
ValidInput(op, target, trigger, suggester) ==
  /\ target \in AllowedTargets(op)
  /\ op = "mark" => ValidTrigger(trigger, suggester)

Duplicate(op, source) == op = "mark" /\ source = "debating"

\* buildDebateAuditMetadata, reduced to which well-known key it sets.
DebateMetadata(trigger, duplicate) ==
  IF duplicate THEN "duplicate"
               ELSE IF trigger = "system" THEN "suggested_by" ELSE "empty"

Row(action, before, after, metadata, by) ==
  [action |-> action, before |-> before, after |-> after,
   metadata |-> metadata, by |-> by]

\* The audit rows one transaction writes, in the order it writes them: the
\* generic status change first, then the debate row, which stands alone on the
\* duplicate path.
AuditRows(op, source, target, trigger, by) ==
  LET changed == Row("status_changed", source, target, "empty", by)
      opened  == Row("debate_opened", source, target,
                     DebateMetadata(trigger, Duplicate(op, source)), by)
      closed  == Row("debate_resolved", source, target, "empty", by)
  IN CASE op = "validate" -> <<changed>>
       [] op = "resolve"  -> <<changed, closed>>
       [] op = "mark"     -> IF Duplicate(op, source) THEN <<opened>>
                                                      ELSE <<changed, opened>>

=============================================================================
