------------------------------ MODULE Ingestion ------------------------------
(***************************************************************************)
(* IngestTextService.Ingest over the four tables of the ingestion unit of  *)
(* work.  Each call computes an identity key, looks for a source that has  *)
(* it, and either records a duplicate or inserts a source, an object, their*)
(* link and an audit row, in one READ COMMITTED transaction.  The only     *)
(* thing that keeps two overlapping calls apart is the unique index on     *)
(* (workspace, identity key): inserting a key that another transaction has *)
(* inserted waits for that transaction, and fails if it commits.  After a  *)
(* commit that created an object the post-ingest hook runs, and only then  *)
(* does the caller get its answer.  One workspace; the rows of a request   *)
(* are named by the request.                                               *)
(***************************************************************************)
EXTENDS Naturals

CONSTANTS Requests,   \* calls of Ingest, each made once
          NoRequest,  \* the original of a request that is no duplicate
          IdemKeys,   \* idempotency keys callers supply
          NoKey,      \* no idempotency key supplied
          Locators,   \* source type with its URI or external id
          Contents    \* trimmed, non-empty texts

ASSUME NoRequestAssumption == NoRequest \notin Requests
ASSUME NoKeyAssumption == NoKey \notin IdemKeys

VARIABLES rows,       \* rows[t]: the requests whose row is committed in table t
          duplicates, \* committed duplicate_detected audit rows
          pc,         \* pc[r]: where request r is
          input,      \* input[r]: what r submits
          found,      \* found[r]: the original r's lookup returned
          inserted,   \* inserted[r]: how many of the four rows r has inserted
          hooked,     \* the requests whose post-ingest hook has run
          answer      \* answer[r]: what the caller of r learns

vars == <<rows, duplicates, pc, input, found, inserted, hooked, answer>>

\* In the order the transaction writes them.
Table == [i \in 1 .. 4 |-> CASE i = 1 -> "sources"
                             [] i = 2 -> "knowledge_objects"
                             [] i = 3 -> "object_sources"
                             [] i = 4 -> "audit_events"]

Tables == {Table[i] : i \in 1 .. 4}

InputType == [key : IdemKeys \union {NoKey}, locator : Locators, content : Contents]

NoInput == [key |-> "none"]

DuplicateType == [by : Requests, original : Requests]

PcValues == {"idle", "begun", "missing", "found", "recorded", "hook", "done"}

Answers == {"pending", "created", "duplicate", "invalid", "conflict", "error", "commit_unknown", "crashed"}

TypeOK ==
  /\ rows \in [Tables -> SUBSET Requests]
  /\ duplicates \in SUBSET DuplicateType
  /\ pc \in [Requests -> PcValues]
  /\ input \in [Requests -> InputType \union {NoInput}]
  /\ found \in [Requests -> Requests \union {NoRequest}]
  /\ inserted \in [Requests -> 0 .. 4]
  /\ hooked \in SUBSET Requests
  /\ answer \in [Requests -> Answers]

Init ==
  /\ rows = [t \in Tables |-> {}]
  /\ duplicates = {}
  /\ pc = [r \in Requests |-> "idle"]
  /\ input = [r \in Requests |-> NoInput]
  /\ found = [r \in Requests |-> NoRequest]
  /\ inserted = [r \in Requests |-> 0]
  /\ hooked = {}
  /\ answer = [r \in Requests |-> "pending"]

-----------------------------------------------------------------------------
\* Faulty variant: the content is left out of the identity.
IdentityKeyWithoutContent(in) ==
  IF in.key # NoKey THEN <<"idem", in.key>> ELSE <<"sha256", in.locator>>

\* computeIdentityKey: a supplied key takes the place of the source identity
\* and of the content; the checksum is taken to be injective.
IdentityKey(in) ==
  IF in.key # NoKey THEN <<"idem", in.key>> ELSE <<"sha256", in.locator, in.content>>

KeyOf(r) == IdentityKey(input[r])

InTransaction(r) == pc[r] \in {"begun", "missing", "found", "recorded"}

SameIdentity(q, r) == input[q] # NoInput /\ KeyOf(q) = KeyOf(r)

\* Faulty variant: the lookup is not restricted to the identity key.
OriginalsOfAnyKey(r) == rows["sources"] \cap rows["object_sources"]

\* The committed sources that have r's identity key and are linked.
Originals(r) == {q \in rows["sources"] \cap rows["object_sources"] : SameIdentity(q, r)}

\* The committed and the uncommitted entries of the unique index for r's key.
Committed(r) == {q \in rows["sources"] : SameIdentity(q, r)}
Uncommitted(r) == {q \in Requests \ {r} : InTransaction(q) /\ inserted[q] > 0 /\ SameIdentity(q, r)}

Finish(r, a) ==
  /\ pc' = [pc EXCEPT ![r] = "done"]
  /\ answer' = [answer EXCEPT ![r] = a]
  /\ UNCHANGED <<input, found, inserted>>

-----------------------------------------------------------------------------
\* Input prepareIngestText rejects: no workspace or content, an unknown status,
\* a confidence out of range.
Refuse(r) ==
  /\ pc[r] = "idle"
  /\ Finish(r, "invalid")
  /\ UNCHANGED <<rows, duplicates, hooked>>

Begin(r, in) ==
  /\ pc[r] = "idle"
  /\ input' = [input EXCEPT ![r] = in]
  /\ pc' = [pc EXCEPT ![r] = "begun"]
  /\ UNCHANGED <<rows, duplicates, found, inserted, hooked, answer>>

\* FindIngestionResultByIdentityKey sees committed rows only.
FindOriginal(r) ==
  /\ pc[r] = "begun"
  /\ \E q \in Originals(r) :
       /\ found' = [found EXCEPT ![r] = q]
       /\ pc' = [pc EXCEPT ![r] = "found"]
  /\ UNCHANGED <<rows, duplicates, input, inserted, hooked, answer>>

FindNothing(r) ==
  /\ pc[r] = "begun"
  /\ Originals(r) = {}
  /\ pc' = [pc EXCEPT ![r] = "missing"]
  /\ UNCHANGED <<rows, duplicates, input, found, inserted, hooked, answer>>

\* The duplicate_detected audit row.
RecordDuplicate(r) ==
  /\ pc[r] = "found"
  /\ pc' = [pc EXCEPT ![r] = "recorded"]
  /\ UNCHANGED <<rows, duplicates, input, found, inserted, hooked, answer>>

\* Faulty variant: the index is not unique.
InsertSourceAnyway(r) ==
  /\ pc[r] = "missing" /\ inserted[r] = 0
  /\ inserted' = [inserted EXCEPT ![r] = 1]
  /\ UNCHANGED <<rows, duplicates, pc, input, found, hooked, answer>>

\* INSERT INTO sources, once nobody else holds or has the key.
InsertSource(r) ==
  /\ pc[r] = "missing" /\ inserted[r] = 0
  /\ Committed(r) = {} /\ Uncommitted(r) = {}
  /\ inserted' = [inserted EXCEPT ![r] = 1]
  /\ UNCHANGED <<rows, duplicates, pc, input, found, hooked, answer>>

\* Faulty variant: the failed insert is tried again in the same transaction.
ConflictRetried(r) ==
  /\ pc[r] = "missing" /\ inserted[r] = 0
  /\ Committed(r) # {}
  /\ UNCHANGED vars

\* Faulty variant: the insert does not wait for the transaction that holds the
\* key.
ConflictWithoutWaiting(r) ==
  /\ pc[r] = "missing" /\ inserted[r] = 0
  /\ Committed(r) \union Uncommitted(r) # {}
  /\ Finish(r, "conflict")
  /\ UNCHANGED <<rows, duplicates, hooked>>

\* The insert violates the unique index: the transaction rolls back and the
\* caller gets the database's error.
Conflict(r) ==
  /\ pc[r] = "missing" /\ inserted[r] = 0
  /\ Committed(r) # {}
  /\ Finish(r, "conflict")
  /\ UNCHANGED <<rows, duplicates, hooked>>

\* The object, the link and the audit row.
InsertRow(r) ==
  /\ pc[r] = "missing" /\ inserted[r] \in 1 .. 3
  /\ inserted' = [inserted EXCEPT ![r] = @ + 1]
  /\ UNCHANGED <<rows, duplicates, pc, input, found, hooked, answer>>

\* The four rows become visible.
Apply(r) ==
  /\ inserted[r] = 4
  /\ rows' = [t \in Tables |-> rows[t] \union {r}]

\* A commit that created an object goes on to the hook.
CommitCreated(r) ==
  /\ pc[r] = "missing"
  /\ Apply(r)
  /\ pc' = [pc EXCEPT ![r] = "hook"]
  /\ UNCHANGED <<duplicates, input, found, inserted, hooked, answer>>

CommitDuplicate(r) ==
  /\ pc[r] = "recorded"
  /\ duplicates' = duplicates \union {[by |-> r, original |-> found[r]]}
  /\ Finish(r, "duplicate")
  /\ UNCHANGED <<rows, hooked>>

\* A commit that takes effect although its answer is lost: the service returns
\* the error, and no hook runs.
CommitLost(r) ==
  /\ \/ pc[r] = "missing" /\ Apply(r) /\ UNCHANGED duplicates
     \/ /\ pc[r] = "recorded"
        /\ duplicates' = duplicates \union {[by |-> r, original |-> found[r]]}
        /\ UNCHANGED rows
  /\ Finish(r, "commit_unknown")
  /\ UNCHANGED hooked

\* The hook runs once, whatever comes of it, and the caller is answered.
RunHook(r) ==
  /\ pc[r] = "hook"
  /\ hooked' = hooked \union {r}
  /\ Finish(r, "created")
  /\ UNCHANGED <<rows, duplicates>>

\* Faulty variant: what was inserted so far stays.
RollbackKeepsRows(r) ==
  /\ InTransaction(r)
  /\ rows' = [t \in Tables |-> IF \E i \in 1 .. inserted[r] : Table[i] = t
                               THEN rows[t] \union {r} ELSE rows[t]]
  /\ Finish(r, "error")
  /\ UNCHANGED <<duplicates, hooked>>

\* A statement or the commit fails, or the request is cancelled.
Rollback(r) ==
  /\ InTransaction(r)
  /\ Finish(r, "error")
  /\ UNCHANGED <<rows, duplicates, hooked>>

\* The process dies between the commit and the hook.
CrashBeforeHook(r) ==
  /\ pc[r] = "hook"
  /\ Finish(r, "crashed")
  /\ UNCHANGED <<rows, duplicates, hooked>>

Quiescent ==
  /\ \A r \in Requests : pc[r] = "done"
  /\ UNCHANGED vars

Advance(r) ==
  \/ FindOriginal(r) \/ FindNothing(r) \/ RecordDuplicate(r) \/ InsertSource(r)
  \/ Conflict(r) \/ InsertRow(r) \/ CommitCreated(r) \/ CommitDuplicate(r) \/ RunHook(r)

Next ==
  \/ \E r \in Requests : \/ Refuse(r)
                         \/ \E in \in InputType : Begin(r, in)
                         \/ Advance(r)
                         \/ CommitLost(r) \/ Rollback(r) \/ CrashBeforeHook(r)
  \/ Quiescent

Spec == Init /\ [][Next]_vars

\* A call that has begun keeps running, and the database answers it.
FairSpec == Spec /\ \A r \in Requests : WF_vars(Advance(r))

-----------------------------------------------------------------------------
(* Properties.                                                             *)

\* The 4-write contract: a call leaves its source, object, link and audit row,
\* or none of them, wherever it fails; and it leaves them when its caller was
\* told "created", never when it was told of a duplicate or an error.
FourRowsOrNone ==
  \A r \in Requests :
    /\ \A t, u \in Tables : r \in rows[t] <=> r \in rows[u]
    /\ answer[r] = "created" => r \in rows["sources"]
    /\ answer[r] \in {"duplicate", "invalid", "conflict", "error"} => r \notin rows["sources"]

\* However many calls submit one identity at once, at most one object is
\* stored for it.
OneObjectPerIdentity ==
  \A q, r \in rows["knowledge_objects"] : SameIdentity(q, r) => q = r

\* A caller told of a duplicate gets the stored original of its own identity,
\* and the detection is on record.
DuplicatesNameTheirOriginal ==
  \A r \in Requests : answer[r] = "duplicate" =>
    /\ \A t \in Tables : found[r] \in rows[t]
    /\ SameIdentity(found[r], r)
    /\ [by |-> r, original |-> found[r]] \in duplicates

\* Without an idempotency key, nothing but the same text from the same source
\* is ever taken for a duplicate: no caller's text is dropped as a duplicate of
\* another text.
DistinctTextsAreKept ==
  \A r \in Requests : (answer[r] = "duplicate" /\ input[r].key = NoKey) =>
    input[found[r]] = input[r]

\* However calls overlap, fail and lose their answers, each is decided in one
\* step: the requests stored are those an atomic store would keep, and every
\* caller is told what that store decided (Ingest's dedup contract).
Store == INSTANCE IdentityStore WITH
  Identities <- {IdentityKey(in) : in \in InputType},
  NoIdentity <- <<>>,
  identity <- [r \in Requests |-> IF input[r] = NoInput THEN <<>> ELSE KeyOf(r)],
  stored <- rows["knowledge_objects"],
  detected <- duplicates
ImplementsIdentityStore == Store!Spec

\* A call that has begun is answered: nobody waits for ever on the index entry
\* of a transaction that has ended.
BegunIngestsAreAnswered == \A r \in Requests : (pc[r] = "begun") ~> (answer[r] # "pending")

=============================================================================
