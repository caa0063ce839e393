-------------------------- MODULE IngestionProofs --------------------------
(***************************************************************************)
(* Proofs about Ingestion for every set of calls and inputs: what the      *)
(* unique index and the one transaction of a call give, whatever overlaps  *)
(* and wherever a call fails; and that it implements IdentityStore.        *)
(***************************************************************************)
EXTENDS Ingestion, TLAPS

Stored == rows["sources"]

\* The four tables have the rows of the same requests.
TablesAgree == \A t \in Tables : rows[t] = Stored

\* What a request's place says of its rows, and its answer of its place.
PlaceInv ==
  \A r \in Requests :
    /\ pc[r] = "idle" => input[r] = NoInput
    /\ pc[r] \notin {"idle", "done"} => input[r] \in InputType
    /\ inserted[r] > 0 => pc[r] \in {"missing", "hook", "done"}
    /\ r \in Stored => pc[r] \in {"hook", "done"}
    /\ pc[r] = "hook" => r \in Stored
    /\ answer[r] # "pending" => pc[r] = "done"
    /\ answer[r] = "created" => r \in Stored
    /\ answer[r] \in {"duplicate", "invalid", "conflict", "error"} => r \notin Stored

\* Who has an entry in the unique index, committed or not.
Indexed(r) == r \in Stored \/ (pc[r] = "missing" /\ inserted[r] > 0)

\* The index is unique.
IndexInv ==
  /\ \A r \in Requests : Indexed(r) => input[r] \in InputType
  /\ \A q, r \in Requests : Indexed(q) /\ Indexed(r) /\ KeyOf(q) = KeyOf(r) => q = r

\* The original a call has found is stored under the call's own key.
FoundInv ==
  \A r \in Requests :
    /\ pc[r] \in {"found", "recorded"} \/ answer[r] = "duplicate" =>
         found[r] \in Stored /\ input[r] \in InputType /\ KeyOf(found[r]) = KeyOf(r)
    /\ answer[r] = "duplicate" => [by |-> r, original |-> found[r]] \in duplicates

\* The inductive invariant.
IInv == TypeOK /\ TablesAgree /\ PlaceInv /\ IndexInv /\ FoundInv

-----------------------------------------------------------------------------
(* Inputs and keys.                                                        *)

\* A request that has not begun has no input.
LEMMA NoInputIsNone == NoInput \notin InputType
<1> SUFFICES ASSUME NoInput \in InputType PROVE FALSE
  OBVIOUS
<1>1. DOMAIN NoInput = {"key"}
  BY DEF NoInput
<1>2. DOMAIN NoInput = {"key", "locator", "content"}
  BY DEF InputType
<1> QED BY <1>1, <1>2

\* A key without an idempotency key stands for one source and one text.
LEMMA SourceKeysDiffer ==
  ASSUME NEW x \in InputType, NEW y \in InputType, IdentityKey(x) = IdentityKey(y), y.key = NoKey
  PROVE  x = y
<1>1. IdentityKey(y) = <<"sha256", y.locator, y.content>>
  BY DEF IdentityKey
<1>2. x.key = NoKey
  <2> SUFFICES ASSUME x.key # NoKey PROVE FALSE
    OBVIOUS
  <2>1. IdentityKey(x) = <<"idem", x.key>>
    BY DEF IdentityKey
  <2> QED BY <1>1, <2>1
<1>3. IdentityKey(x) = <<"sha256", x.locator, x.content>>
  BY <1>2 DEF IdentityKey
<1>4. x.locator = y.locator /\ x.content = y.content
  BY <1>1, <1>3
<1> QED BY <1>2, <1>4 DEF InputType

\* The tables have a row for sources.
LEMMA SourcesIsTable == "sources" \in Tables
<1>1. Table[1] = "sources"
  BY DEF Table
<1> QED BY <1>1 DEF Tables

-----------------------------------------------------------------------------
(* The invariant.                                                          *)

LEMMA InitIInv == Init => IInv
<1> SUFFICES ASSUME Init PROVE IInv
  OBVIOUS
<1>1. TypeOK
  BY DEF Init, TypeOK, PcValues, Answers
<1>2. \A t \in Tables : rows[t] = {}
  BY DEF Init
<1>3. Stored = {}
  BY <1>2, SourcesIsTable DEF Stored
<1> QED BY <1>1, <1>2, <1>3 DEF IInv, Init, TablesAgree, PlaceInv, IndexInv, Indexed, FoundInv

\* A call that ends and leaves nothing keeps the invariant.
LEMMA FinishKeeps ==
  ASSUME IInv, NEW r \in Requests, pc[r] \notin {"hook", "done"}, NEW a \in {"invalid", "conflict", "error"},
         Finish(r, a), UNCHANGED <<rows, duplicates, hooked>>
  PROVE  IInv'
<1>1. TypeOK'
  BY DEF IInv, TypeOK, Finish, PcValues, Answers
<1>2. TablesAgree'
  BY DEF IInv, TablesAgree, Stored
<1>3. PlaceInv'
  BY DEF IInv, TypeOK, PlaceInv, Stored, Finish
<1>4. IndexInv'
  BY DEF IInv, TypeOK, IndexInv, Indexed, Stored, KeyOf, Finish
<1>5. FoundInv'
  BY DEF IInv, TypeOK, FoundInv, Stored, KeyOf, Finish
<1> QED BY <1>1, <1>2, <1>3, <1>4, <1>5 DEF IInv

LEMMA BeginKeeps ==
  ASSUME IInv, NEW r \in Requests, NEW in \in InputType, Begin(r, in)
  PROVE  IInv'
<1>1. TypeOK'
  BY DEF IInv, TypeOK, Begin, PcValues
<1>2. TablesAgree'
  BY DEF IInv, TablesAgree, Stored, Begin
<1>3. PlaceInv'
  BY DEF IInv, TypeOK, PlaceInv, Stored, Begin
<1>4. r \notin Stored /\ inserted[r] = 0 /\ answer[r] = "pending"
  BY DEF IInv, TypeOK, PlaceInv, Begin
<1>5. \A q \in Requests \ {r} : input'[q] = input[q] /\ pc'[q] = pc[q]
  BY DEF IInv, TypeOK, Begin
<1>6. pc'[r] = "begun" /\ UNCHANGED <<rows, duplicates, found, inserted, answer>>
  BY DEF IInv, TypeOK, Begin
<1>7. IndexInv'
  BY <1>4, <1>5, <1>6 DEF IInv, IndexInv, Indexed, Stored, KeyOf
<1>8. FoundInv'
  <2>1. \A q \in Stored : KeyOf(q)' = KeyOf(q)
    BY <1>4, <1>5, SourcesIsTable DEF IInv, TypeOK, Stored, KeyOf
  <2>2. \A q \in Requests : pc'[q] \in {"found", "recorded"} \/ answer'[q] = "duplicate"
                              => q # r /\ (pc[q] \in {"found", "recorded"} \/ answer[q] = "duplicate")
    BY <1>4, <1>5, <1>6
  <2> QED BY <1>5, <1>6, <2>1, <2>2 DEF IInv, FoundInv, Stored, KeyOf
<1> QED BY <1>1, <1>2, <1>3, <1>7, <1>8 DEF IInv

LEMMA FindOriginalKeeps ==
  ASSUME IInv, NEW r \in Requests, FindOriginal(r)
  PROVE  IInv'
<1>1. PICK q \in Originals(r) : found' = [found EXCEPT ![r] = q] /\ pc' = [pc EXCEPT ![r] = "found"]
  BY DEF FindOriginal
<1>2. q \in Stored /\ KeyOf(q) = KeyOf(r) /\ q \in Requests
  BY SourcesIsTable DEF Originals, SameIdentity, Stored, IInv, TypeOK
<1>3. pc[r] = "begun" /\ UNCHANGED <<rows, duplicates, input, inserted, hooked, answer>>
  BY DEF FindOriginal
<1>4. TypeOK'
  BY <1>1, <1>2, <1>3 DEF IInv, TypeOK, PcValues
<1>5. TablesAgree'
  BY <1>3 DEF IInv, TablesAgree, Stored
<1>6. PlaceInv'
  BY <1>1, <1>3 DEF IInv, TypeOK, PlaceInv, Stored
<1>7. IndexInv'
  BY <1>1, <1>3 DEF IInv, TypeOK, PlaceInv, IndexInv, Indexed, Stored, KeyOf
<1>8. FoundInv'
  BY <1>1, <1>2, <1>3 DEF IInv, TypeOK, PlaceInv, FoundInv, Stored, KeyOf
<1> QED BY <1>4, <1>5, <1>6, <1>7, <1>8 DEF IInv

LEMMA FindNothingKeeps ==
  ASSUME IInv, NEW r \in Requests, FindNothing(r)
  PROVE  IInv'
<1>1. TypeOK'
  BY DEF IInv, TypeOK, FindNothing, PcValues
<1>2. TablesAgree' /\ FoundInv'
  BY DEF IInv, TypeOK, TablesAgree, FoundInv, Stored, KeyOf, FindNothing
<1>3. PlaceInv'
  BY DEF IInv, TypeOK, PlaceInv, Stored, FindNothing
<1>4. IndexInv'
  BY DEF IInv, TypeOK, PlaceInv, IndexInv, Indexed, Stored, KeyOf, FindNothing
<1> QED BY <1>1, <1>2, <1>3, <1>4 DEF IInv

LEMMA RecordDuplicateKeeps ==
  ASSUME IInv, NEW r \in Requests, RecordDuplicate(r)
  PROVE  IInv'
<1>1. TypeOK'
  BY DEF IInv, TypeOK, RecordDuplicate, PcValues
<1>2. TablesAgree' /\ FoundInv'
  BY DEF IInv, TypeOK, TablesAgree, FoundInv, Stored, KeyOf, RecordDuplicate
<1>3. PlaceInv'
  BY DEF IInv, TypeOK, PlaceInv, Stored, RecordDuplicate
<1>4. IndexInv'
  BY DEF IInv, TypeOK, PlaceInv, IndexInv, Indexed, Stored, KeyOf, RecordDuplicate
<1> QED BY <1>1, <1>2, <1>3, <1>4 DEF IInv

\* The insert that the unique index lets through: nobody else has the key.
LEMMA InsertSourceKeeps ==
  ASSUME IInv, NEW r \in Requests, InsertSource(r)
  PROVE  IInv'
<1>1. TypeOK'
  BY DEF IInv, TypeOK, InsertSource
<1>2. TablesAgree' /\ FoundInv'
  BY DEF IInv, TypeOK, TablesAgree, FoundInv, Stored, KeyOf, InsertSource
<1>3. PlaceInv'
  BY DEF IInv, TypeOK, PlaceInv, Stored, InsertSource
<1>4. IndexInv'
  <2>1. ASSUME NEW q \in Requests \ {r}, Indexed(q), KeyOf(q) = KeyOf(r) PROVE FALSE
    <3>1. SameIdentity(q, r)
      BY <2>1, NoInputIsNone DEF SameIdentity, IInv, IndexInv
    <3>2. CASE q \in Stored
      BY <3>1, <3>2 DEF InsertSource, Committed, Stored
    <3>3. CASE pc[q] = "missing" /\ inserted[q] > 0
      BY <3>1, <3>3 DEF InsertSource, Uncommitted, InTransaction
    <3> QED BY <2>1, <3>2, <3>3 DEF Indexed
  <2>2. \A q \in Requests \ {r} : Indexed(q)' <=> Indexed(q)
    BY DEF IInv, TypeOK, Indexed, Stored, InsertSource
  <2>3. UNCHANGED input /\ input[r] \in InputType
    BY DEF IInv, PlaceInv, InsertSource
  <2> QED BY <2>1, <2>2, <2>3 DEF IInv, IndexInv, KeyOf
<1> QED BY <1>1, <1>2, <1>3, <1>4 DEF IInv

LEMMA InsertRowKeeps ==
  ASSUME IInv, NEW r \in Requests, InsertRow(r)
  PROVE  IInv'
<1>1. TypeOK'
  BY DEF IInv, TypeOK, InsertRow
<1>2. TablesAgree' /\ FoundInv'
  BY DEF IInv, TypeOK, TablesAgree, FoundInv, Stored, KeyOf, InsertRow
<1>3. PlaceInv'
  BY DEF IInv, TypeOK, PlaceInv, Stored, InsertRow
<1>4. IndexInv'
  BY DEF IInv, TypeOK, PlaceInv, IndexInv, Indexed, Stored, KeyOf, InsertRow
<1> QED BY <1>1, <1>2, <1>3, <1>4 DEF IInv

\* A commit of four rows, whatever its caller is told.
LEMMA ApplyKeeps ==
  ASSUME IInv, NEW r \in Requests, pc[r] = "missing", Apply(r), UNCHANGED <<duplicates, input, found, inserted>>,
         hooked' \in SUBSET Requests,
         \/ pc' = [pc EXCEPT ![r] = "hook"] /\ UNCHANGED answer
         \/ pc' = [pc EXCEPT ![r] = "done"] /\ answer' = [answer EXCEPT ![r] = "commit_unknown"]
  PROVE  IInv'
<1>1. TypeOK'
  BY DEF IInv, TypeOK, Apply, PcValues, Answers
<1>2. \A t \in Tables : rows'[t] = rows[t] \union {r}
  BY DEF Apply
<1>3. Stored' = Stored \union {r}
  BY <1>2, SourcesIsTable DEF Stored
<1>4. TablesAgree'
  BY <1>2, <1>3 DEF IInv, TablesAgree
<1>5. PlaceInv'
  BY <1>3 DEF IInv, TypeOK, PlaceInv
<1>6. IndexInv'
  <2>1. \A q \in Requests : Indexed(q)' => Indexed(q)
    BY <1>3 DEF IInv, TypeOK, Indexed, Apply
  <2> QED BY <2>1 DEF IInv, IndexInv, KeyOf
<1>7. FoundInv'
  BY <1>3 DEF IInv, TypeOK, FoundInv, KeyOf
<1> QED BY <1>1, <1>4, <1>5, <1>6, <1>7 DEF IInv

\* A commit of a detected duplicate.
LEMMA DuplicateKeeps ==
  ASSUME IInv, NEW r \in Requests, pc[r] = "recorded", NEW a \in {"duplicate", "commit_unknown"},
         duplicates' = duplicates \union {[by |-> r, original |-> found[r]]}, Finish(r, a),
         UNCHANGED <<rows, hooked>>
  PROVE  IInv'
<1>1. found[r] \in Stored /\ r \notin Stored /\ found[r] \in Requests
  BY SourcesIsTable DEF IInv, FoundInv, PlaceInv, TypeOK, Stored
<1>2. TypeOK'
  BY <1>1 DEF IInv, TypeOK, Finish, PcValues, Answers, DuplicateType
<1>3. TablesAgree'
  BY DEF IInv, TablesAgree, Stored
<1>4. PlaceInv'
  BY <1>1 DEF IInv, TypeOK, PlaceInv, Stored, Finish
<1>5. IndexInv'
  BY DEF IInv, TypeOK, IndexInv, Indexed, Stored, KeyOf, Finish
<1>6. FoundInv'
  BY DEF IInv, TypeOK, FoundInv, Stored, KeyOf, Finish
<1> QED BY <1>2, <1>3, <1>4, <1>5, <1>6 DEF IInv

\* The end of a call whose four rows are committed.
LEMMA HookEndKeeps ==
  ASSUME IInv, NEW r \in Requests, pc[r] = "hook", NEW a \in {"created", "crashed"}, Finish(r, a),
         hooked' \in SUBSET Requests, UNCHANGED <<rows, duplicates>>
  PROVE  IInv'
<1>1. TypeOK'
  BY DEF IInv, TypeOK, Finish, PcValues, Answers
<1>2. TablesAgree'
  BY DEF IInv, TablesAgree, Stored
<1>3. PlaceInv'
  BY DEF IInv, TypeOK, PlaceInv, Stored, Finish
<1>4. IndexInv'
  BY DEF IInv, TypeOK, IndexInv, Indexed, Stored, KeyOf, Finish
<1>5. FoundInv'
  BY DEF IInv, TypeOK, FoundInv, Stored, KeyOf, Finish
<1> QED BY <1>1, <1>2, <1>3, <1>4, <1>5 DEF IInv

LEMMA StepKeeps == IInv /\ [Next]_vars => IInv'
<1> SUFFICES ASSUME IInv, [Next]_vars PROVE IInv'
  OBVIOUS
<1>1. ASSUME NEW r \in Requests, Refuse(r) PROVE IInv'
  BY <1>1, FinishKeeps DEF Refuse
<1>2. ASSUME NEW r \in Requests, NEW in \in InputType, Begin(r, in) PROVE IInv'
  BY <1>2, BeginKeeps
<1>3. ASSUME NEW r \in Requests, Advance(r) PROVE IInv'
  <2>1. CASE Conflict(r)
    BY <2>1, FinishKeeps DEF Conflict
  <2>2. CASE CommitCreated(r)
    BY <2>2, ApplyKeeps DEF CommitCreated, IInv, TypeOK
  <2>3. CASE CommitDuplicate(r)
    BY <2>3, DuplicateKeeps DEF CommitDuplicate
  <2>4. CASE RunHook(r)
    BY <2>4, HookEndKeeps DEF RunHook, IInv, TypeOK
  <2> QED BY <1>3, <2>1, <2>2, <2>3, <2>4, FindOriginalKeeps, FindNothingKeeps, RecordDuplicateKeeps,
             InsertSourceKeeps, InsertRowKeeps DEF Advance
<1>4. ASSUME NEW r \in Requests, CommitLost(r) PROVE IInv'
  <2>1. CASE pc[r] = "missing" /\ Apply(r) /\ UNCHANGED duplicates
    BY <1>4, <2>1, ApplyKeeps DEF CommitLost, Finish, IInv, TypeOK
  <2>2. CASE /\ pc[r] = "recorded" /\ UNCHANGED rows
             /\ duplicates' = duplicates \union {[by |-> r, original |-> found[r]]}
    BY <1>4, <2>2, DuplicateKeeps DEF CommitLost
  <2> QED BY <1>4, <2>1, <2>2 DEF CommitLost
<1>5. ASSUME NEW r \in Requests, Rollback(r) PROVE IInv'
  BY <1>5, FinishKeeps DEF Rollback, InTransaction
<1>6. ASSUME NEW r \in Requests, CrashBeforeHook(r) PROVE IInv'
  BY <1>6, HookEndKeeps DEF CrashBeforeHook, IInv, TypeOK
<1>7. CASE UNCHANGED vars
  BY <1>7 DEF vars, IInv, TypeOK, TablesAgree, PlaceInv, IndexInv, Indexed, FoundInv, Stored, KeyOf
<1> QED BY <1>1, <1>2, <1>3, <1>4, <1>5, <1>6, <1>7 DEF Next, Quiescent

\* The tables agree with one another and with what each request has read and
\* written so far, at every moment.
THEOREM IInvHolds == Spec => []IInv
<1> QED BY InitIInv, StepKeeps, PTL DEF Spec

-----------------------------------------------------------------------------
(* What follows.                                                           *)

\* FourRowsOrNone: the 4-write contract of Ingest, for any overlap of any
\* number of calls and a failure, lost answer or crash anywhere.
THEOREM RowsAreFourOrNone == Spec => []FourRowsOrNone
<1>1. IInv => FourRowsOrNone
  BY SourcesIsTable DEF IInv, TablesAgree, PlaceInv, FourRowsOrNone, Stored
<1> QED BY <1>1, IInvHolds, PTL

\* OneObjectPerIdentity: the unique index on (workspace, identity key) alone
\* keeps overlapping calls of Ingest from storing one identity twice.
THEOREM IdentitiesAreStoredOnce == Spec => []OneObjectPerIdentity
<1>1. "knowledge_objects" \in Tables
  <2>1. Table[2] = "knowledge_objects"
    BY DEF Table
  <2> QED BY <2>1 DEF Tables
<1>2. IInv => OneObjectPerIdentity
  <2> SUFFICES ASSUME IInv, NEW q \in rows["knowledge_objects"], NEW r \in rows["knowledge_objects"],
                      SameIdentity(q, r)
               PROVE  q = r
    BY DEF OneObjectPerIdentity
  <2>1. q \in Stored /\ r \in Stored /\ q \in Requests /\ r \in Requests
    BY <1>1 DEF IInv, TablesAgree, TypeOK
  <2> QED BY <2>1 DEF IInv, IndexInv, Indexed, SameIdentity
<1> QED BY <1>2, IInvHolds, PTL

\* DuplicatesNameTheirOriginal: who is told of a duplicate is told of the stored
\* original of its own identity, and the detection is on record.
THEOREM DuplicatesAreTrue == Spec => []DuplicatesNameTheirOriginal
<1>1. IInv => DuplicatesNameTheirOriginal
  <2> SUFFICES ASSUME IInv, NEW r \in Requests, answer[r] = "duplicate"
               PROVE  /\ \A t \in Tables : found[r] \in rows[t]
                      /\ SameIdentity(found[r], r)
                      /\ [by |-> r, original |-> found[r]] \in duplicates
    BY DEF DuplicatesNameTheirOriginal
  <2>1. found[r] \in Stored /\ KeyOf(found[r]) = KeyOf(r) /\ [by |-> r, original |-> found[r]] \in duplicates
    BY DEF IInv, FoundInv
  <2>2. found[r] \in Requests /\ input[found[r]] # NoInput
    BY <2>1, SourcesIsTable, NoInputIsNone DEF IInv, TypeOK, IndexInv, Indexed, Stored
  <2> QED BY <2>1, <2>2 DEF IInv, TablesAgree, SameIdentity
<1> QED BY <1>1, IInvHolds, PTL

\* DistinctTextsAreKept: without an idempotency key only the same text from the
\* same source is taken for a duplicate (computeIdentityKey).
THEOREM TextsAreNotDropped == Spec => []DistinctTextsAreKept
<1>1. IInv => DistinctTextsAreKept
  <2> SUFFICES ASSUME IInv, NEW r \in Requests, answer[r] = "duplicate", input[r].key = NoKey
               PROVE  input[found[r]] = input[r]
    BY DEF DistinctTextsAreKept
  <2>1. found[r] \in Stored /\ KeyOf(found[r]) = KeyOf(r) /\ input[r] \in InputType
    BY DEF IInv, FoundInv
  <2>2. input[found[r]] \in InputType
    BY <2>1, SourcesIsTable DEF IInv, TypeOK, IndexInv, Indexed, Stored
  <2> QED BY <2>1, <2>2, SourceKeysDiffer DEF KeyOf
<1> QED BY <1>1, IInvHolds, PTL

-----------------------------------------------------------------------------
(* The abstract store.                                                     *)

LEMMA KeyIsIdentity ==
  ASSUME NEW in
  PROVE  IdentityKey(in) # <<>>
<1>1. CASE in.key # NoKey
  <2>1. IdentityKey(in) = <<"idem", in.key>>
    BY <1>1 DEF IdentityKey
  <2> QED BY <2>1
<1>2. CASE in.key = NoKey
  <2>1. IdentityKey(in) = <<"sha256", in.locator, in.content>>
    BY <1>2 DEF IdentityKey
  <2> QED BY <2>1
<1> QED BY <1>1, <1>2

\* The identity the abstract store sees.
Identity(r) == IF input[r] = NoInput THEN <<>> ELSE KeyOf(r)

StoreIdentity == [r \in Requests |-> Identity(r)]

LEMMA ObjectsAreStored == IInv => rows["knowledge_objects"] = Stored /\ Stored \subseteq Requests
<1>1. "knowledge_objects" \in Tables
  <2>1. Table[2] = "knowledge_objects"
    BY DEF Table
  <2> QED BY <2>1 DEF Tables
<1> QED BY <1>1, SourcesIsTable DEF IInv, TablesAgree, TypeOK, Stored

\* A call in its transaction is one the store has not decided yet.
LEMMA OpenIsUndecided ==
  ASSUME IInv, NEW r \in Requests, InTransaction(r)
  PROVE  Store!Undecided(r)
<1>1. input[r] \in InputType /\ r \notin Stored /\ answer[r] = "pending"
  BY DEF InTransaction, IInv, TypeOK, PlaceInv
<1>2. Identity(r) # <<>>
  BY <1>1, NoInputIsNone, KeyIsIdentity DEF Identity, KeyOf
<1> QED BY <1>1, <1>2, ObjectsAreStored DEF Store!Undecided, Identity

\* The stored ones of a call's identity are those that share its index entry.
LEMMA OriginalsShareKey ==
  ASSUME IInv, NEW r \in Requests, input[r] \in InputType
  PROVE  Store!Original(r) = {q \in Stored : KeyOf(q) = KeyOf(r)}
<1>1. \A q \in Stored : q \in Requests /\ input[q] # NoInput
  BY ObjectsAreStored, NoInputIsNone DEF IInv, IndexInv, Indexed
<1>2. input[r] # NoInput
  BY NoInputIsNone
<1> QED BY <1>1, <1>2, ObjectsAreStored DEF Store!Original

LEMMA InitImplements == Init => Store!Init
<1> SUFFICES ASSUME Init PROVE Store!Init
  OBVIOUS
<1>1. rows["knowledge_objects"] = {}
  <2>1. Table[2] = "knowledge_objects"
    BY DEF Table
  <2> QED BY <2>1 DEF Init, Tables
<1>2. \A r \in Requests : input[r] = NoInput
  BY DEF Init
<1> QED BY <1>1, <1>2 DEF Init, Store!Init

\* What leaves input, rows, records and answers alone is not the store's concern.
LEMMA QuietStutters ==
  ASSUME UNCHANGED <<rows, duplicates, input, answer>>
  PROVE  UNCHANGED Store!vars
BY DEF Store!vars, KeyOf

LEMMA BeginSubmits ==
  ASSUME IInv, NEW r \in Requests, NEW in \in InputType, Begin(r, in)
  PROVE  Store!Submit(r)
<1>1. input[r] = NoInput /\ answer[r] = "pending" /\ input' = [input EXCEPT ![r] = in]
      /\ UNCHANGED <<rows, duplicates, answer>>
  BY DEF Begin, IInv, TypeOK, PlaceInv
<1>2. Identity(r) = <<>> /\ Identity(r)' = IdentityKey(in)
  BY <1>1, NoInputIsNone DEF Identity, KeyOf, IInv, TypeOK
<1>3. \A q \in Requests \ {r} : Identity(q)' = Identity(q)
  BY <1>1 DEF Identity, KeyOf, IInv, TypeOK
<1>4. StoreIdentity' = [StoreIdentity EXCEPT ![r] = IdentityKey(in)]
  BY <1>2, <1>3 DEF StoreIdentity
<1> QED BY <1>1, <1>2, <1>4 DEF Store!Submit, StoreIdentity, Identity

\* The commit of a new object is the store's step: the unique index has kept
\* every other call of its identity out.
LEMMA CommitStores ==
  ASSUME IInv, NEW r \in Requests, pc[r] = "missing", Apply(r), UNCHANGED <<duplicates, input>>,
         UNCHANGED answer \/ answer' = [answer EXCEPT ![r] = "commit_unknown"]
  PROVE  Store!Store(r)
<1>1. input[r] \in InputType /\ r \notin Stored /\ Indexed(r)
  BY DEF IInv, PlaceInv, Indexed, Apply
<1>2. Store!Original(r) = {}
  BY <1>1, OriginalsShareKey, ObjectsAreStored DEF IInv, IndexInv, Indexed
<1>3. rows'["knowledge_objects"] = rows["knowledge_objects"] \union {r}
  <2>1. Table[2] = "knowledge_objects"
    BY DEF Table
  <2> QED BY <2>1 DEF Apply, Tables
<1>4. UNCHANGED StoreIdentity
  BY DEF StoreIdentity, Identity, KeyOf
<1>5. Store!Undecided(r)
  BY OpenIsUndecided DEF InTransaction
<1> QED BY <1>2, <1>3, <1>4, <1>5 DEF Store!Store, Store!Tell, StoreIdentity, Identity

\* The original was read before the commit, and what is stored stays.
LEMMA DuplicateDetects ==
  ASSUME IInv, NEW r \in Requests, pc[r] = "recorded", NEW a \in {"duplicate", "commit_unknown"},
         duplicates' = duplicates \union {[by |-> r, original |-> found[r]]}, Finish(r, a),
         UNCHANGED rows
  PROVE  Store!Detect(r)
<1>1. input[r] \in InputType /\ found[r] \in Store!Original(r)
  BY OriginalsShareKey DEF IInv, FoundInv
<1>2. UNCHANGED StoreIdentity
  BY DEF Finish, StoreIdentity, Identity, KeyOf
<1>3. Store!Undecided(r)
  BY OpenIsUndecided DEF InTransaction
<1> QED BY <1>1, <1>2, <1>3 DEF Finish, Store!Detect, Store!Tell, StoreIdentity, Identity

\* The index violation is due to a committed row, which is a stored one.
LEMMA ConflictImplements ==
  ASSUME IInv, NEW r \in Requests, Conflict(r)
  PROVE  Store!Conflict(r)
<1>1. input[r] \in InputType
  BY DEF Conflict, IInv, PlaceInv
<1>2. Store!Original(r) # {}
  BY <1>1, OriginalsShareKey DEF Conflict, Committed, SameIdentity, Stored
<1>3. UNCHANGED StoreIdentity
  BY DEF Conflict, Finish, StoreIdentity, Identity, KeyOf
<1>4. Store!Undecided(r)
  BY OpenIsUndecided DEF Conflict, InTransaction
<1> QED BY <1>2, <1>3, <1>4 DEF Conflict, Finish, Store!Conflict, Store!Tell, StoreIdentity, Identity

\* A call that ends without a commit is told so.
LEMMA EndsImplement ==
  ASSUME IInv, NEW r \in Requests
  PROVE  /\ Rollback(r) => Store!Fail(r)
         /\ Refuse(r) => Store!Refuse(r)
         /\ RunHook(r) \/ CrashBeforeHook(r) => Store!Confirm(r)
<1>1. ASSUME Rollback(r) PROVE Store!Fail(r)
  <2>1. Store!Undecided(r) /\ UNCHANGED StoreIdentity
    BY <1>1, OpenIsUndecided DEF Rollback, Finish, StoreIdentity, Identity, KeyOf
  <2> QED BY <1>1, <2>1 DEF Rollback, Finish, Store!Fail, Store!Tell, StoreIdentity, Identity
<1>2. ASSUME Refuse(r) PROVE Store!Refuse(r)
  <2>1. input[r] = NoInput /\ answer[r] = "pending"
    BY <1>2 DEF Refuse, IInv, TypeOK, PlaceInv
  <2>2. UNCHANGED StoreIdentity
    BY <1>2 DEF Refuse, Finish, StoreIdentity, Identity, KeyOf
  <2> QED BY <1>2, <2>1, <2>2 DEF Refuse, Finish, Store!Refuse, Store!Tell, StoreIdentity, Identity
<1>3. ASSUME RunHook(r) \/ CrashBeforeHook(r) PROVE Store!Confirm(r)
  <2>1. r \in rows["knowledge_objects"] /\ answer[r] = "pending"
    BY <1>3, ObjectsAreStored DEF RunHook, CrashBeforeHook, IInv, TypeOK, PlaceInv
  <2>2. UNCHANGED StoreIdentity
    BY <1>3 DEF RunHook, CrashBeforeHook, Finish, StoreIdentity, Identity, KeyOf
  <2> QED BY <1>3, <2>1, <2>2 DEF RunHook, CrashBeforeHook, Finish, Store!Confirm, Store!Tell, StoreIdentity, Identity
<1> QED BY <1>1, <1>2, <1>3

LEMMA StepImplements == IInv /\ [Next]_vars => [Store!Next]_(Store!vars)
<1> SUFFICES ASSUME IInv, [Next]_vars PROVE [Store!Next]_(Store!vars)
  OBVIOUS
<1>1. ASSUME NEW r \in Requests, Refuse(r) \/ Rollback(r) \/ CrashBeforeHook(r) PROVE Store!Next
  BY <1>1, EndsImplement DEF Store!Next
<1>2. ASSUME NEW r \in Requests, NEW in \in InputType, Begin(r, in) PROVE Store!Next
  BY <1>2, BeginSubmits DEF Store!Next
<1>3. ASSUME NEW r \in Requests, Advance(r) PROVE [Store!Next]_(Store!vars)
  <2>1. CASE FindOriginal(r) \/ FindNothing(r) \/ RecordDuplicate(r) \/ InsertSource(r) \/ InsertRow(r)
    <3>1. UNCHANGED <<rows, duplicates, input, answer>>
      BY <2>1 DEF FindOriginal, FindNothing, RecordDuplicate, InsertSource, InsertRow
    <3> QED BY <3>1, QuietStutters
  <2>2. CASE Conflict(r)
    BY <2>2, ConflictImplements DEF Store!Next
  <2>3. CASE CommitCreated(r)
    BY <2>3, CommitStores DEF CommitCreated, Store!Next
  <2>4. CASE CommitDuplicate(r)
    BY <2>4, DuplicateDetects DEF CommitDuplicate, Store!Next
  <2>5. CASE RunHook(r)
    BY <2>5, EndsImplement DEF Store!Next
  <2> QED BY <1>3, <2>1, <2>2, <2>3, <2>4, <2>5 DEF Advance
<1>4. ASSUME NEW r \in Requests, CommitLost(r) PROVE Store!Next
  <2>1. CASE pc[r] = "missing" /\ Apply(r) /\ UNCHANGED duplicates
    BY <1>4, <2>1, CommitStores DEF CommitLost, Finish, Store!Next
  <2>2. CASE /\ pc[r] = "recorded" /\ UNCHANGED rows
             /\ duplicates' = duplicates \union {[by |-> r, original |-> found[r]]}
    BY <1>4, <2>2, DuplicateDetects DEF CommitLost, Store!Next
  <2> QED BY <1>4, <2>1, <2>2 DEF CommitLost
<1>5. CASE UNCHANGED vars
  BY <1>5, QuietStutters DEF vars
<1> QED BY <1>1, <1>2, <1>3, <1>4, <1>5 DEF Next, Quiescent

\* ImplementsIdentityStore: with any calls, identities and failures, Ingest is
\* a store that decides each call in one step, at its commit.
THEOREM Implements == Spec => ImplementsIdentityStore
<1> QED BY InitImplements, StepImplements, IInvHolds, PTL DEF Spec, ImplementsIdentityStore, Store!Spec

=============================================================================
