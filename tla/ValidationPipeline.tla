------------------------- MODULE ValidationPipeline -------------------------
(***************************************************************************)
(* The lifecycle services wired to the SDD document as                     *)
(* internal/runtime/services.go wires them: a Validate whose transaction   *)
(* has committed calls AppendValidatedObject, in the same goroutine and    *)
(* outside that transaction; MarkDebating and ResolveDebate call nothing.  *)
(* A request of ObjectLifecycle and the hook call it makes share one name. *)
(***************************************************************************)
EXTENDS ObjectLifecycle

CONSTANTS TypeOf, RowExists   \* of SddDocument

VARIABLES doc, docLock, apc, job, draft, result   \* of SddDocument

documentVars == <<doc, docLock, apc, job, draft, result>>
pipelineVars == <<vars, documentVars>>

Document == INSTANCE SddDocument WITH Appends <- Requests, NoAppend <- NoRequest

ASSUME WorkspaceAssumption ==
  TypeOf \in [Objects -> Document!ObjectTypes] /\ RowExists \in BOOLEAN

PipelineInit == Init /\ Document!Init

-----------------------------------------------------------------------------
\* Faulty variant: only the deprecation hook is wired.
CallsDeprecationHookOnly(r) == call[r].op = "validate" /\ call[r].target = "deprecated"

\* Only Validate has hooks, one for each of its two targets, and both are
\* AppendValidatedObject.
CallsHook(r) == call[r].op = "validate"

\* Faulty variant: the hook is called before the transaction commits.
CommitAfterHook(r) ==
  IF CallsHook(r) /\ apc[r] = "idle"
  THEN /\ pc[r] = "auditing"
       /\ Document!Begin(r, call[r].obj, call[r].target)
       /\ UNCHANGED vars
  ELSE /\ apc[r] # "begun"
       /\ Commit(r)
       /\ UNCHANGED documentVars

\* Commit, and go on to the hook.
CommitThenHook(r) ==
  /\ Commit(r)
  /\ IF CallsHook(r) THEN Document!Begin(r, call[r].obj, call[r].target)
                     ELSE UNCHANGED documentVars

\* The rest of the lifecycle transaction; an error of any kind, a lost commit
\* answer included, returns before the hook.
LifecycleStep(r) ==
  /\ \/ Start(r)
     \/ LockRow(r)
     \/ NotFound(r)
     \/ Reject(r)
     \/ UpdateStatus(r)
     \/ InsertAudit(r)
     \/ CommitLost(r)
     \/ Rollback(r)
  /\ UNCHANGED documentVars

HookStep(r) == Document!Step(r) /\ UNCHANGED vars

\* Ingestion never touches the document, whatever status it gives the object.
Ingest ==
  /\ \E o \in Objects, s \in Statuses : IngestObject(o, s)
  /\ UNCHANGED documentVars

AllReturned ==
  /\ \A r \in Requests : pc[r] = "done" /\ apc[r] \in {"idle", "done"}
  /\ \A o \in Objects : status[o] # Absent
  /\ UNCHANGED pipelineVars

PipelineNext ==
  \/ Ingest
  \/ \E r \in Requests : LifecycleStep(r) \/ CommitThenHook(r) \/ HookStep(r)
  \/ AllReturned

PipelineSpec == PipelineInit /\ [][PipelineNext]_pipelineVars

\* Each request goroutine runs on, through its transaction and its hook.
Progress(r) ==
  \/ LifecycleStep(r) /\ Advance(r)
  \/ CommitThenHook(r)
  \/ Document!Advance(r) /\ UNCHANGED vars

FairPipelineSpec == PipelineSpec /\ \A r \in Requests : WF_pipelineVars(Progress(r))

-----------------------------------------------------------------------------
(* Properties.                                                             *)

ListedObjects == Document!Listed(doc.entries)

\* The document lists nothing that is not validated, at any moment: the hook
\* runs after the commit it reports, and a validated object stays validated.
OnlyValidatedIsListed == \A o \in ListedObjects : status[o] = "validated"

\* A recorded validation reaches the document, or its hook failed: nothing in
\* between can lose it for ever without an error.
ValidationReachesDocument ==
  \A r \in Requests, o \in Objects :
    (outcome[r] = "ok" /\ call[r].op = "validate" /\ call[r].obj = o /\ call[r].target = "validated")
      ~> (o \in ListedObjects \/ result[r] = "error")

\* A hook that reported a validation with success is in the document for good:
\* no removal can follow, as nobody deprecates a validated object.  True of a
\* workspace whose row exists.
ReportedValidationsAreListed ==
  \A r \in Requests :
    (result[r] = "ok" /\ job[r].status = "validated") => job[r].obj \in ListedObjects

\* Behind the services the document only grows: what one hook has listed no
\* other unlists, neither by a removal nor by writing back an older copy.  True
\* of a workspace whose row exists.
ListedObjectsStayListed == [][ListedObjects \subseteq ListedObjects']_pipelineVars

\* A request that has begun returns, from its transaction and from its hook: no
\* path keeps the object's row or the document's row locked behind it.
BegunRequestsReturn ==
  \A r \in Requests : (pc[r] = "begun") ~> (pc[r] = "done" /\ apc[r] \in {"idle", "done"})

=============================================================================
