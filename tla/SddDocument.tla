----------------------------- MODULE SddDocument -----------------------------
(***************************************************************************)
(* SddDocumentService.AppendValidatedObject over the sdd_documents row of  *)
(* one workspace: a hook call reads the JSONB body with SELECT ... FOR     *)
(* UPDATE, edits its copy in memory and writes the whole body back with    *)
(* INSERT ... ON CONFLICT DO UPDATE, in one READ COMMITTED transaction.    *)
(* SELECT ... FOR UPDATE locks a row that exists and nothing when there is *)
(* none, so the first appends to a workspace are not serialized.           *)
(* Entries carry the call that merged them in the place of their           *)
(* timestamp; the order of a section is not modelled.                      *)
(***************************************************************************)
EXTENDS Naturals

CONSTANTS Objects,      \* knowledge objects of one workspace
          TypeOf,       \* TypeOf[o]: o's type, which never changes
          Appends,      \* calls of AppendValidatedObject, each made once
          NoAppend,     \* the owner of a row nobody has locked
          RowExists     \* whether the workspace has a document row at first

ObjectTypes == {"document", "decision", "constraint", "open_question"}

ASSUME TypeOfAssumption    == TypeOf \in [Objects -> ObjectTypes]
ASSUME NoAppendAssumption  == NoAppend \notin Appends
ASSUME RowExistsAssumption == RowExists \in BOOLEAN

VARIABLES doc,          \* the committed row: whether it exists, its entries
          docLock,      \* the call whose transaction holds the row
          apc,          \* apc[a]: where call a is
          job,          \* job[a]: the object a got, with its new status
          draft,        \* draft[a]: a's copy of the entries
          result        \* result[a]: what a returned

vars == <<doc, docLock, apc, job, draft, result>>

Sections == {"context", "decisions", "constraints", "open_questions"}

\* classifySection
SectionOf ==
  [o \in Objects |->
     CASE TypeOf[o] = "decision"      -> "decisions"
       [] TypeOf[o] = "constraint"    -> "constraints"
       [] TypeOf[o] = "open_question" -> "open_questions"
       [] OTHER                       -> "context"]

Entry == [obj : Objects, section : Sections, by : Appends]

HookStatuses == {"validated", "deprecated"}
JobType == [obj : Objects, status : HookStatuses]
NoJob == [status |-> "none"]

\* "read" and "upserted": the row was there to be locked.  "missed" and
\* "inserted": it was not.
PcValues == {"idle", "begun", "read", "missed", "upserted", "inserted", "done"}

TypeOK ==
  /\ doc \in [exists : BOOLEAN, entries : SUBSET Entry]
  /\ docLock \in Appends \union {NoAppend}
  /\ apc \in [Appends -> PcValues]
  /\ job \in [Appends -> JobType \union {NoJob}]
  /\ draft \in [Appends -> SUBSET Entry]
  /\ result \in [Appends -> {"pending", "ok", "error"}]

Init ==
  /\ doc = [exists |-> RowExists, entries |-> {}]
  /\ docLock = NoAppend
  /\ apc = [a \in Appends |-> "idle"]
  /\ job = [a \in Appends |-> NoJob]
  /\ draft = [a \in Appends |-> {}]
  /\ result = [a \in Appends |-> "pending"]

-----------------------------------------------------------------------------
Listed(entries) == {e.obj : e \in entries}

\* removeByObjectID
Without(entries, o) == {e \in entries : e.obj # o}

\* Faulty variant: the entry is appended without removing an earlier one.
MergedTwice(a, entries) ==
  IF job[a].status = "validated"
  THEN entries \union
         {[obj |-> job[a].obj, section |-> SectionOf[job[a].obj], by |-> a]}
  ELSE Without(entries, job[a].obj)

\* a's edit of the entries it read.
Merged(a, entries) ==
  IF job[a].status = "validated"
  THEN Without(entries, job[a].obj) \union
         {[obj |-> job[a].obj, section |-> SectionOf[job[a].obj], by |-> a]}
  ELSE Without(entries, job[a].obj)

\* Faulty variant: the check is made whatever the new status is.
NothingToDoForAnyStatus(a) == job[a].obj \notin Listed(draft[a])

\* The deprecated branch that finds no entry writes nothing.
NothingToDo(a) == job[a].status = "deprecated" /\ job[a].obj \notin Listed(draft[a])

Finish(a, answer) ==
  /\ apc' = [apc EXCEPT ![a] = "done"]
  /\ result' = [result EXCEPT ![a] = answer]
  /\ docLock' = IF docLock = a THEN NoAppend ELSE docLock
  /\ UNCHANGED <<job, draft>>

-----------------------------------------------------------------------------
Begin(a, o, s) ==
  /\ apc[a] = "idle"
  /\ apc' = [apc EXCEPT ![a] = "begun"]
  /\ job' = [job EXCEPT ![a] = [obj |-> o, status |-> s]]
  /\ UNCHANGED <<doc, docLock, draft, result>>

\* Faulty variant: SELECT without FOR UPDATE.
ReadDocUnlocked(a) ==
  /\ apc[a] = "begun"
  /\ apc' = [apc EXCEPT ![a] = "read"]
  /\ draft' = [draft EXCEPT ![a] = doc.entries]
  /\ UNCHANGED <<doc, docLock, job, result>>

\* FindByWorkspace on a row that exists waits for the row and locks it.
ReadDoc(a) ==
  /\ apc[a] = "begun"
  /\ docLock = NoAppend
  /\ docLock' = a
  /\ apc' = [apc EXCEPT ![a] = "read"]
  /\ draft' = [draft EXCEPT ![a] = doc.entries]
  /\ UNCHANGED <<doc, job, result>>

\* FindByWorkspace on a missing row answers ErrNotFound at once, even while
\* another transaction has an uncommitted insert of it: the call starts from
\* emptyDocument and holds no lock.
ReadNoDoc(a) ==
  /\ apc[a] = "begun"
  /\ apc' = [apc EXCEPT ![a] = "missed"]
  /\ draft' = [draft EXCEPT ![a] = {}]
  /\ UNCHANGED <<doc, docLock, job, result>>

FindByWorkspace(a) == IF doc.exists THEN ReadDoc(a) ELSE ReadNoDoc(a)

\* The upsert waits for whoever inserted or locked the row, then overwrites.
Upsert(a) ==
  /\ apc[a] \in {"read", "missed"}
  /\ ~ NothingToDo(a)
  /\ docLock \in {NoAppend, a}
  /\ docLock' = a
  /\ draft' = [draft EXCEPT ![a] = Merged(a, draft[a])]
  /\ apc' = [apc EXCEPT ![a] = IF @ = "read" THEN "upserted" ELSE "inserted"]
  /\ UNCHANGED <<doc, job, result>>

\* Faulty variant: the early return leaves the transaction open.
ReturnEarlyHoldingRow(a) ==
  /\ apc[a] \in {"read", "missed"}
  /\ NothingToDo(a)
  /\ apc' = [apc EXCEPT ![a] = "done"]
  /\ result' = [result EXCEPT ![a] = "ok"]
  /\ UNCHANGED <<doc, docLock, job, draft>>

\* Nothing to remove: the empty transaction commits.
ReturnEarly(a) ==
  /\ apc[a] \in {"read", "missed"}
  /\ NothingToDo(a)
  /\ Finish(a, "ok")
  /\ UNCHANGED doc

Apply(a) ==
  /\ apc[a] \in {"upserted", "inserted"}
  /\ doc' = [exists |-> TRUE, entries |-> draft[a]]

Commit(a) == Apply(a) /\ Finish(a, "ok")

\* The commit takes effect but its answer is lost.
CommitLost(a) == Apply(a) /\ Finish(a, "error")

\* A statement fails, the request context is cancelled or the process dies.
\* The hook's error is logged and swallowed: nobody tries again.
Rollback(a) ==
  /\ apc[a] \notin {"idle", "done"}
  /\ Finish(a, "error")
  /\ UNCHANGED doc

Quiescent ==
  /\ \A a \in Appends : apc[a] = "done"
  /\ UNCHANGED vars

Advance(a) == FindByWorkspace(a) \/ Upsert(a) \/ ReturnEarly(a) \/ Commit(a)

Step(a) == Advance(a) \/ CommitLost(a) \/ Rollback(a)

Next ==
  \/ \E a \in Appends, o \in Objects, s \in HookStatuses : Begin(a, o, s)
  \/ \E a \in Appends : Step(a)
  \/ Quiescent

Spec == Init /\ [][Next]_vars

\* The hook runs in the goroutine of its request, and the database answers.
FairSpec == Spec /\ \A a \in Appends : WF_vars(Advance(a))

-----------------------------------------------------------------------------
(* Properties.                                                             *)

\* An object is listed at most once, in the section of its type, however
\* often it is appended again.
OneEntryPerObject ==
  \A e, f \in doc.entries : e.obj = f.obj => e = f

\* The row-lock contract of AppendValidatedObject: while a call edits its copy
\* of an existing row the committed body is still what it read, and it alone
\* holds the row.
ReadStaysCurrent ==
  \A a \in Appends : apc[a] \in {"read", "upserted"} =>
    /\ docLock = a
    /\ apc[a] = "read" => draft[a] = doc.entries
    /\ apc[a] = "upserted" => draft[a] = Merged(a, doc.entries)

\* Call a commits in this step what it wrote while in state at.
Commits(a, at) == apc[a] = at /\ apc'[a] = "done" /\ doc' # doc

Deprecates(a, o) == job[a] = [obj |-> o, status |-> "deprecated"]

\* What stops being listed in this step was removed by a call that deprecates it.
LossIsRemoval ==
  \A o \in Objects :
    (o \in Listed(doc.entries) /\ o \notin Listed(doc'.entries)) =>
      \E a \in Appends : Deprecates(a, o) /\ Commits(a, "upserted")

\* Concurrent appends never lose entries: a listed object stops being listed
\* only when a call that deprecates it commits.  True of a workspace whose row
\* exists.
EntriesAreNeverLost == [][LossIsRemoval]_vars

\* Of any workspace: the only calls that can drop somebody else's entry are
\* those that looked for the row before anybody had committed one.
OnlyFirstAppendsLoseEntries ==
  [][\A o \in Objects :
       (o \in Listed(doc.entries) /\ o \notin Listed(doc'.entries)) =>
         \E a \in Appends : \/ Deprecates(a, o) /\ Commits(a, "upserted")
                            \/ Commits(a, "inserted")]_vars

\* An append that reported success is in the document until a later call
\* about the same object replaces it.
SuccessfulAppendIsListed ==
  \A a \in Appends : (result[a] = "ok" /\ job[a].status = "validated") =>
    \/ job[a].obj \in Listed(doc.entries)
    \/ \E b \in Appends \ {a} : job[b] = [obj |-> job[a].obj, status |-> "deprecated"]

\* A call that has begun returns: no early return keeps the row locked.
BegunAppendsReturn == \A a \in Appends : (apc[a] = "begun") ~> (apc[a] = "done")

\* Appends and removals that overlap leave what they would have left one after
\* another.
Index == INSTANCE SddIndex WITH entries <- doc.entries
ImplementsSddIndex == Index!Spec

=============================================================================
