------------------------- MODULE SddDocumentProofs -------------------------
(***************************************************************************)
(* Proofs about SddDocument for every set of objects and calls: what the   *)
(* row lock gives on any workspace, and what it gives in addition on one   *)
(* whose document row exists.                                              *)
(***************************************************************************)
EXTENDS SddDocument, TLAPS

\* Who holds the row: a call that found it, or one that has upserted it.
LockInv ==
  /\ \A a \in Appends : apc[a] \in {"read", "upserted", "inserted"} => docLock = a
  /\ \A a \in Appends : docLock = a => apc[a] \in {"read", "upserted", "inserted"}

\* What each call's copy of the entries is.
DraftInv ==
  /\ \A a \in Appends : apc[a] \notin {"idle", "done"} => job[a] \in JobType
  /\ \A a \in Appends : apc[a] = "read" => draft[a] = doc.entries
  /\ \A a \in Appends : apc[a] = "upserted" => draft[a] = Merged(a, doc.entries)
  /\ \A a \in Appends : apc[a] = "missed" => draft[a] = {}
  /\ \A a \in Appends : apc[a] = "inserted" => draft[a] = Merged(a, {})

\* Nobody misses a row that exists from the start.
RowInv ==
  RowExists => /\ doc.exists
               /\ \A a \in Appends : apc[a] \notin {"missed", "inserted"}

\* The inductive invariant.
IInv == TypeOK /\ LockInv /\ DraftInv /\ RowInv /\ OneEntryPerObject

-----------------------------------------------------------------------------
(* The edit of the entries.                                                *)

\* Every object has a section.
LEMMA SectionType == \A o \in Objects : SectionOf[o] \in Sections
BY DEF SectionOf, Sections

\* An edit of well-typed entries gives well-typed entries.
LEMMA MergedType ==
  ASSUME NEW a \in Appends, job[a] \in JobType, NEW es \in SUBSET Entry
  PROVE  Merged(a, es) \in SUBSET Entry
BY SectionType DEF Merged, Without, Entry, JobType

\* An edit of entries that list each object once lists each object once.
LEMMA MergedOnce ==
  ASSUME NEW a \in Appends, NEW es, \A e, f \in es : e.obj = f.obj => e = f
  PROVE  \A e, f \in Merged(a, es) : e.obj = f.obj => e = f
BY DEF Merged, Without

\* An edit drops no object but the one it deprecates.
LEMMA MergedKeeps ==
  ASSUME NEW a \in Appends, job[a] \in JobType, NEW es, NEW o \in Listed(es), o \notin Listed(Merged(a, es))
  PROVE  job[a] = [obj |-> o, status |-> "deprecated"]
<1>1. PICK e \in es : e.obj = o
  BY DEF Listed
<1>2. e \notin Merged(a, es)
  BY <1>1 DEF Listed
<1>3. job[a].obj = o /\ job[a].status # "validated"
  <2>1. job[a].obj = o
    BY <1>1, <1>2 DEF Merged, Without
  <2>2. ASSUME job[a].status = "validated" PROVE FALSE
    <3>1. [obj |-> job[a].obj, section |-> SectionOf[job[a].obj], by |-> a] \in Merged(a, es)
      BY <2>2 DEF Merged
    <3> QED BY <3>1, <2>1 DEF Listed
  <2> QED BY <2>1, <2>2
<1> QED BY <1>3 DEF JobType, HookStatuses

-----------------------------------------------------------------------------
(* The invariant.                                                          *)

LEMMA InitIInv == Init => IInv
<1> SUFFICES ASSUME Init PROVE IInv
  OBVIOUS
<1>1. TypeOK
  BY RowExistsAssumption DEF Init, TypeOK, PcValues
<1>2. LockInv /\ DraftInv /\ RowInv /\ OneEntryPerObject
  BY NoAppendAssumption DEF Init, LockInv, DraftInv, RowInv, OneEntryPerObject
<1> QED BY <1>1, <1>2 DEF IInv

\* A call that ends without writing keeps the invariant.
LEMMA FinishKeeps ==
  ASSUME IInv, NEW a \in Appends, NEW answer \in {"ok", "error"}, Finish(a, answer), UNCHANGED doc
  PROVE  IInv'
<1>1. TypeOK'
  BY DEF IInv, TypeOK, Finish, PcValues
<1>2. LockInv'
  BY NoAppendAssumption DEF IInv, TypeOK, LockInv, Finish
<1>3. DraftInv'
  BY DEF IInv, TypeOK, DraftInv, Finish, Merged
<1>4. RowInv' /\ OneEntryPerObject'
  BY DEF IInv, TypeOK, RowInv, OneEntryPerObject, Finish
<1> QED BY <1>1, <1>2, <1>3, <1>4 DEF IInv

\* A call that writes: the new body is its edit of the old one, or of nothing
\* when it missed the row.
LEMMA WriteIs ==
  ASSUME IInv, NEW a \in Appends, Apply(a)
  PROVE  /\ job[a] \in JobType /\ docLock = a
         /\ \/ apc[a] = "upserted" /\ doc'.entries = Merged(a, doc.entries)
            \/ apc[a] = "inserted" /\ doc'.entries = Merged(a, {}) /\ ~ RowExists
BY DEF IInv, LockInv, DraftInv, RowInv, Apply

\* A call that ends by writing keeps the invariant.
LEMMA WriteKeeps ==
  ASSUME IInv, NEW a \in Appends, NEW answer \in {"ok", "error"}, Finish(a, answer), Apply(a)
  PROVE  IInv'
<1>1. TypeOK'
  BY DEF IInv, TypeOK, Finish, PcValues, Apply
<1>2. LockInv'
  BY NoAppendAssumption DEF IInv, TypeOK, LockInv, Finish
<1>3. DraftInv'
  <2>1. docLock = a
    BY WriteIs
  <2>2. \A b \in Appends \ {a} : apc'[b] = apc[b] /\ apc[b] \notin {"read", "upserted"}
    BY <2>1 DEF IInv, TypeOK, LockInv, Finish
  <2>3. apc'[a] = "done" /\ job' = job /\ draft' = draft
    BY DEF IInv, TypeOK, Finish
  <2> QED BY <2>2, <2>3 DEF IInv, DraftInv, Merged
<1>4. RowInv'
  BY DEF IInv, TypeOK, RowInv, Finish, Apply
<1>5. OneEntryPerObject'
  <2>1. CASE doc'.entries = Merged(a, doc.entries)
    BY <2>1, MergedOnce DEF IInv, OneEntryPerObject
  <2>2. CASE doc'.entries = Merged(a, {})
    BY <2>2, MergedOnce DEF OneEntryPerObject
  <2> QED BY <2>1, <2>2, WriteIs
<1> QED BY <1>1, <1>2, <1>3, <1>4, <1>5 DEF IInv

\* The other steps, one per action.
LEMMA BeginKeeps ==
  ASSUME IInv, NEW a \in Appends, NEW o \in Objects, NEW s \in HookStatuses, Begin(a, o, s)
  PROVE  IInv'
<1>1. TypeOK'
  BY DEF IInv, TypeOK, Begin, PcValues, JobType
<1>2. LockInv'
  BY DEF IInv, TypeOK, LockInv, Begin
<1>3. DraftInv'
  <2>1. \A b \in Appends \ {a} : apc'[b] = apc[b] /\ job'[b] = job[b]
    BY DEF IInv, TypeOK, Begin
  <2>2. apc'[a] = "begun" /\ job'[a] \in JobType /\ draft' = draft /\ doc' = doc
    BY DEF IInv, TypeOK, Begin, JobType
  <2> QED BY <2>1, <2>2 DEF IInv, DraftInv, Merged
<1>4. RowInv' /\ OneEntryPerObject'
  BY DEF IInv, TypeOK, RowInv, OneEntryPerObject, Begin
<1> QED BY <1>1, <1>2, <1>3, <1>4 DEF IInv

LEMMA ReadDocKeeps ==
  ASSUME IInv, NEW a \in Appends, doc.exists, ReadDoc(a)
  PROVE  IInv'
<1>1. TypeOK'
  BY DEF IInv, TypeOK, ReadDoc, PcValues
<1>2. LockInv'
  BY NoAppendAssumption DEF IInv, TypeOK, LockInv, ReadDoc
<1>3. DraftInv'
  BY DEF IInv, TypeOK, DraftInv, ReadDoc, Merged
<1>4. RowInv' /\ OneEntryPerObject'
  BY DEF IInv, TypeOK, RowInv, OneEntryPerObject, ReadDoc
<1> QED BY <1>1, <1>2, <1>3, <1>4 DEF IInv

LEMMA ReadNoDocKeeps ==
  ASSUME IInv, NEW a \in Appends, ~ doc.exists, ReadNoDoc(a)
  PROVE  IInv'
<1>1. TypeOK'
  BY DEF IInv, TypeOK, ReadNoDoc, PcValues
<1>2. LockInv'
  BY DEF IInv, TypeOK, LockInv, ReadNoDoc
<1>3. DraftInv'
  BY DEF IInv, TypeOK, DraftInv, ReadNoDoc, Merged
<1>4. RowInv' /\ OneEntryPerObject'
  BY DEF IInv, TypeOK, RowInv, OneEntryPerObject, ReadNoDoc
<1> QED BY <1>1, <1>2, <1>3, <1>4 DEF IInv

LEMMA UpsertKeeps ==
  ASSUME IInv, NEW a \in Appends, Upsert(a)
  PROVE  IInv'
<1>1. job[a] \in JobType /\ draft[a] \in SUBSET Entry
  BY DEF IInv, TypeOK, DraftInv, Upsert
<1>2. TypeOK'
  <2>1. Merged(a, draft[a]) \in SUBSET Entry
    BY <1>1, MergedType
  <2> QED BY <2>1 DEF IInv, TypeOK, Upsert, PcValues
<1>3. LockInv'
  BY NoAppendAssumption DEF IInv, TypeOK, LockInv, Upsert
<1>4. DraftInv'
  <2>1. \A b \in Appends \ {a} : apc'[b] = apc[b] /\ draft'[b] = draft[b]
    BY DEF IInv, TypeOK, Upsert
  <2>2. /\ draft'[a] = Merged(a, draft[a]) /\ job' = job /\ doc' = doc
        /\ apc'[a] = IF apc[a] = "read" THEN "upserted" ELSE "inserted"
    BY DEF IInv, TypeOK, Upsert
  <2>3. \/ apc[a] = "read" /\ draft[a] = doc.entries
        \/ apc[a] = "missed" /\ draft[a] = {}
    BY DEF IInv, DraftInv, Upsert
  <2> QED BY <1>1, <2>1, <2>2, <2>3 DEF IInv, DraftInv, Merged
<1>5. RowInv' /\ OneEntryPerObject'
  BY DEF IInv, TypeOK, RowInv, OneEntryPerObject, Upsert
<1> QED BY <1>2, <1>3, <1>4, <1>5 DEF IInv

\* What a step does to the committed row: nothing, or the write of one call.
Writes(a) == Apply(a) /\ (Finish(a, "ok") \/ Finish(a, "error"))

LEMMA StepKinds ==
  ASSUME [Next]_vars
  PROVE  UNCHANGED doc \/ \E a \in Appends : Writes(a)
BY DEF Next, Step, Advance, Begin, FindByWorkspace, ReadDoc, ReadNoDoc, Upsert, ReturnEarly, Commit, CommitLost,
       Rollback, Quiescent, vars, Writes

LEMMA IInvStep == IInv /\ [Next]_vars => IInv'
<1> SUFFICES ASSUME IInv, [Next]_vars PROVE IInv'
  OBVIOUS
<1>1. ASSUME NEW a \in Appends, NEW o \in Objects, NEW s \in HookStatuses, Begin(a, o, s) PROVE IInv'
  BY <1>1, BeginKeeps
<1>2. ASSUME NEW a \in Appends, FindByWorkspace(a) PROVE IInv'
  <2>1. CASE doc.exists
    BY <1>2, <2>1, ReadDocKeeps DEF FindByWorkspace
  <2>2. CASE ~ doc.exists
    BY <1>2, <2>2, ReadNoDocKeeps DEF FindByWorkspace
  <2> QED BY <2>1, <2>2
<1>4. ASSUME NEW a \in Appends, Upsert(a) PROVE IInv'
  BY <1>4, UpsertKeeps
<1>5. ASSUME NEW a \in Appends, ReturnEarly(a) PROVE IInv'
  BY <1>5, FinishKeeps DEF ReturnEarly
<1>6. ASSUME NEW a \in Appends, Commit(a) \/ CommitLost(a) PROVE IInv'
  BY <1>6, WriteKeeps DEF Commit, CommitLost
<1>7. ASSUME NEW a \in Appends, Rollback(a) PROVE IInv'
  BY <1>7, FinishKeeps DEF Rollback
<1>8. CASE UNCHANGED vars
  BY <1>8 DEF vars, IInv, TypeOK, LockInv, DraftInv, RowInv, OneEntryPerObject, Merged
<1> QED
  BY <1>1, <1>2, <1>4, <1>5, <1>6, <1>7, <1>8 DEF Next, Step, Advance, Quiescent

LEMMA IInvHolds == Spec => []IInv
BY InitIInv, IInvStep, PTL DEF Spec

-----------------------------------------------------------------------------
(* On any workspace.                                                       *)

\* The types of SddDocument hold always, and the row-lock contract of
\* AppendValidatedObject: what a call that has found the row works on is the
\* committed body until it has written it back.
THEOREM RowLockHolds == Spec => [](TypeOK /\ ReadStaysCurrent)
<1>1. IInv => TypeOK /\ ReadStaysCurrent
  BY DEF IInv, LockInv, DraftInv, ReadStaysCurrent
<1> QED BY <1>1, IInvHolds, PTL

\* No object is ever listed twice, whatever overlaps, on a new row too.
THEOREM EntriesAreUnique == Spec => []OneEntryPerObject
<1>1. IInv => OneEntryPerObject
  BY DEF IInv
<1> QED BY <1>1, IInvHolds, PTL

\* An entry that goes was deprecated, or overwritten by a call that had looked
\* for the row before anybody had committed one.
LEMMA LossIsExplained ==
  ASSUME IInv, [Next]_vars, NEW o \in Objects,
         o \in Listed(doc.entries), o \notin Listed(doc'.entries)
  PROVE  \E a \in Appends :
           \/ Deprecates(a, o) /\ Commits(a, "upserted")
           \/ Commits(a, "inserted") /\ ~ RowExists
<1>1. PICK a \in Appends : Writes(a)
  BY StepKinds
<1>2. doc' # doc /\ apc'[a] = "done"
  BY <1>1 DEF IInv, TypeOK, Writes, Finish
<1>3. CASE apc[a] = "upserted" /\ doc'.entries = Merged(a, doc.entries)
  <2>1. job[a] = [obj |-> o, status |-> "deprecated"]
    BY <1>1, <1>3, WriteIs, MergedKeeps DEF Writes
  <2> QED BY <1>2, <1>3, <2>1 DEF Deprecates, Commits
<1>4. CASE apc[a] = "inserted" /\ ~ RowExists
  BY <1>2, <1>4 DEF Commits
<1> QED BY <1>1, <1>3, <1>4, WriteIs DEF Writes

\* On any workspace, the only calls that can drop another's entry are the
\* first ones, that found no row.
THEOREM OnlyFirstAppendsLose == Spec => OnlyFirstAppendsLoseEntries
<1>1. IInv /\ [Next]_vars =>
        [\A o \in Objects :
           (o \in Listed(doc.entries) /\ o \notin Listed(doc'.entries)) =>
             \E a \in Appends : \/ Deprecates(a, o) /\ Commits(a, "upserted")
                                \/ Commits(a, "inserted")]_vars
  BY LossIsExplained
<1> QED BY <1>1, IInvHolds, PTL DEF Spec, OnlyFirstAppendsLoseEntries

-----------------------------------------------------------------------------
(* On a workspace whose row exists.                                        *)

\* Concurrent appends never lose entries: a listed object goes only when a
\* call that deprecates it commits.
THEOREM ExistingRowLosesNothing ==
  ASSUME RowExists
  PROVE  Spec => EntriesAreNeverLost
<1>1. IInv /\ [Next]_vars => [LossIsRemoval]_vars
  BY RowExists, LossIsExplained DEF LossIsRemoval
<1> QED BY <1>1, IInvHolds, PTL DEF Spec, EntriesAreNeverLost

\* An edit lists the object it validates.
LEMMA MergedLists ==
  ASSUME NEW a \in Appends, job[a].status = "validated", NEW es
  PROVE  job[a].obj \in Listed(Merged(a, es))
<1>1. [obj |-> job[a].obj, section |-> SectionOf[job[a].obj], by |-> a] \in Merged(a, es)
  BY DEF Merged
<1> QED BY <1>1 DEF Listed

\* A call answers when it ends and has its job for good once it has begun.
JobInv ==
  \A a \in Appends : /\ apc[a] = "idle" => job[a] = NoJob
                     /\ apc[a] # "idle" => job[a] \in JobType
                     /\ apc[a] # "done" => result[a] = "pending"

\* What one step does to the jobs and the answers.
LEMMA JobStep ==
  ASSUME IInv, JobInv, [Next]_vars
  PROVE  /\ JobInv'
         /\ \A a \in Appends : job[a] # NoJob => job'[a] = job[a]
         /\ \A a \in Appends : (result'[a] = "ok" /\ result[a] # "ok") => Commit(a) \/ ReturnEarly(a)
<1>1. ASSUME NEW a \in Appends, NEW o \in Objects, NEW s \in HookStatuses, Begin(a, o, s)
      PROVE  /\ JobInv'
             /\ \A b \in Appends : job[b] # NoJob => job'[b] = job[b]
             /\ UNCHANGED result
  <2>1. \A b \in Appends \ {a} : job'[b] = job[b] /\ apc'[b] = apc[b]
    BY <1>1 DEF Begin, IInv, TypeOK
  <2>2. /\ apc[a] = "idle" /\ apc'[a] = "begun"
        /\ job'[a] \in JobType /\ result' = result
    BY <1>1 DEF Begin, IInv, TypeOK, JobType
  <2> QED BY <2>1, <2>2 DEF JobInv
<1>2. ASSUME NEW a \in Appends, Step(a)
      PROVE  JobInv' /\ UNCHANGED job
  BY <1>2 DEF Step, Advance, FindByWorkspace, ReadDoc, ReadNoDoc, Upsert, ReturnEarly, Commit, CommitLost, Rollback, Apply,
              Finish, IInv, TypeOK, JobInv
<1>3. ASSUME NEW a \in Appends, Step(a), NEW b \in Appends, result'[b] = "ok", result[b] # "ok"
      PROVE  Commit(b) \/ ReturnEarly(b)
  BY <1>3 DEF Step, Advance, FindByWorkspace, ReadDoc, ReadNoDoc, Upsert, ReturnEarly, Commit, CommitLost, Rollback,
              Finish, IInv, TypeOK
<1>4. CASE UNCHANGED vars
  BY <1>4 DEF vars, JobInv
<1> QED BY <1>1, <1>2, <1>3, <1>4 DEF Next, Quiescent

\* An append that reported success is listed until a removal of its object.
THEOREM ExistingRowListsAppends ==
  ASSUME RowExists
  PROVE  Spec => []SuccessfulAppendIsListed
<1>1. Init => JobInv /\ SuccessfulAppendIsListed
  BY DEF Init, JobInv, SuccessfulAppendIsListed
<1>2. IInv /\ JobInv /\ SuccessfulAppendIsListed /\ [Next]_vars => (JobInv /\ SuccessfulAppendIsListed)'
  <2> SUFFICES ASSUME IInv, JobInv, SuccessfulAppendIsListed, [Next]_vars,
                      NEW a \in Appends, result'[a] = "ok", job'[a].status = "validated"
               PROVE  \/ job'[a].obj \in Listed(doc'.entries)
                      \/ \E b \in Appends \ {a} : job'[b] = [obj |-> job'[a].obj, status |-> "deprecated"]
    BY JobStep DEF SuccessfulAppendIsListed, Listed
  <2>1. CASE result[a] # "ok"
    <3>1. CASE Commit(a)
      BY <3>1, WriteIs, MergedLists DEF Commit, Finish
    <3>2. CASE ReturnEarly(a)
      BY <3>2 DEF ReturnEarly, NothingToDo, Finish
    <3> QED BY <2>1, <3>1, <3>2, JobStep
  <2>2. CASE result[a] = "ok"
    <3>1. job[a] \in JobType
      BY <2>2 DEF JobInv
    <3>2. job'[a] = job[a]
      BY <3>1, JobStep DEF JobType, HookStatuses, NoJob
    <3>3. CASE \E b \in Appends \ {a} : job[b] = [obj |-> job[a].obj, status |-> "deprecated"]
      BY <3>2, <3>3, JobStep DEF NoJob
    <3>4. CASE job[a].obj \in Listed(doc.entries)
      <4>1. SUFFICES ASSUME job[a].obj \notin Listed(doc'.entries)
                     PROVE  \E b \in Appends : Deprecates(b, job[a].obj)
        BY <3>2, JobStep DEF Deprecates, NoJob
      <4> QED BY <3>1, <3>4, <4>1, LossIsExplained, RowExists DEF JobType
    <3> QED BY <2>2, <3>2, <3>3, <3>4 DEF SuccessfulAppendIsListed
  <2> QED BY <2>1, <2>2
<1> QED BY <1>1, <1>2, IInvHolds, PTL DEF Spec

\* An edit is an append or a removal of SddIndex.
LEMMA SameEdit ==
  ASSUME NEW a \in Appends, job[a] \in JobType
  PROVE  \/ Merged(a, doc.entries) = Index!Without(doc.entries, job[a].obj)
         \/ Merged(a, doc.entries) = Index!Without(doc.entries, job[a].obj) \union
              {[obj |-> job[a].obj, section |-> SectionOf[job[a].obj], by |-> a]}
BY DEF Merged, Without, Index!Without

\* Overlapping read-modify-writes are whole appends and removals, each on the
\* entries that are really there.
THEOREM ExistingRowImplements ==
  ASSUME RowExists
  PROVE  Spec => ImplementsSddIndex
<1>1. Init => Index!Init
  BY DEF Init, Index!Init
<1>2. IInv /\ [Next]_vars => [Index!Next]_(doc.entries)
  <2> SUFFICES ASSUME IInv, [Next]_vars PROVE [Index!Next]_(doc.entries)
    OBVIOUS
  <2>1. CASE UNCHANGED doc
    BY <2>1
  <2>2. ASSUME NEW a \in Appends, Writes(a) PROVE Index!Next
    <3>1. job[a] \in JobType /\ doc'.entries = Merged(a, doc.entries)
      BY <2>2, RowExists, WriteIs DEF Writes
    <3>2. job[a].obj \in Objects
      BY <3>1 DEF JobType
    <3>3. Index!Unlist(job[a].obj) \/ Index!List(a, job[a].obj)
      BY <3>1, SameEdit DEF Index!Unlist, Index!List
    <3> QED BY <3>2, <3>3 DEF Index!Next
  <2> QED BY <2>1, <2>2, StepKinds
<1> QED BY <1>1, <1>2, IInvHolds, PTL DEF Spec, ImplementsSddIndex, Index!Spec

=============================================================================
