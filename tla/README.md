# project-brain in TLA+

Specifications of the Go service in this repository: each is checked with TLC,
and every safety property that a passing run checks is proved with TLAPS,
liveness being out of its reach.
The modules are written from the code under `internal/` and `cmd/api`; file
names below are relative to `internal/`.

    tlc -workers 2 -config MCValidationPipeline.cfg MCValidationPipeline
    tlapm ObjectLifecycleProofs.tla

`PROJECT.json` has the runs, the mutants that show each property to be
falsifiable, the map from definitions to source lines, the findings and the
hazards.

## The system

project-brain stores texts as *knowledge objects*, moves them through a review
lifecycle, keeps a "living" SDD document of the validated ones for each
workspace, and makes everything searchable. Several API processes share one
PostgreSQL database; all durable state is there.

| Component | State | Operations | Talks to |
|---|---|---|---|
| Ingestion (`app/ingest_text.go`, `postgres/source_repo.go`) | `sources`, `knowledge_objects`, `object_sources`, `audit_events` | `Ingest` | post-ingest hook |
| Object lifecycle (`app/validate_object.go`, `app/object_debate_*.go`) | `knowledge_objects.status`, `audit_events`, row locks | `Validate`, `MarkDebating`, `ResolveDebate` | SDD hooks |
| SDD document (`app/sdd_document.go`, `postgres/sdd_documents.go`) | one JSONB row per workspace | `AppendValidatedObject`, `GetDocument` | called by `Validate` |
| Embedding and retry queue (`app/embedding_hook.go`, `app/embedding_retry.go`, `postgres/embedding_jobs.go`) | `embeddings`, `embedding_jobs`, one worker goroutine per process | hook, `ClaimDue`, `processOne` | embedder over HTTP |
| Human backlog (`app/object_debate_backlog.go`, `app/cursor.go`, `postgres/backlog_query_repo.go`) | reads `knowledge_objects` by `updated_at` | `ListHumanBacklog` with a cursor | Telegram, HTTP |
| Telegram messages (`telegram/handler.go`, `handler_callback.go`, `postgres/pending_validations.go`, `raw_input_repo.go`, `app/inmem`) | `telegram_pending_validations`, `raw_inputs` | message, keep, discard, sweep | ingestion, collision detector |
| Telegram review (`telegram/handler_backlog.go`, `handler_callback.go`, `postgres/telegram_review_actions.go`) | `telegram_review_actions` | `/backlog`, validate, deprecate, debate, skip | lifecycle, backlog |
| Collision detection, retrieval (`app/collision.go`, `app/composite_retriever.go`, `postgres/fts_retriever.go`) | none | `Detect`, `Search` | embeddings, FTS |
| Migrations (`migrations/`) | `schema_migrations` | probe, baseline, goose | at start |
| Runtime (`runtime/`, `cmd/api`) | goroutines, budgets | start, ordered shutdown | all |
| HTTP and rate limiter (`httpapi/`) | buckets of the limiter | requests | retrieval, the services |
| MCP front end, Gemini client, config | none | requests | HTTP, embedder |

What is hard in it:

- Handlers, workers and replicas interleave at every database statement. The
  transactions are READ COMMITTED, so only row locks, unique indexes and single
  statements keep them apart.
- A transaction may fail at any statement, and its commit may take effect
  although the caller is told of an error.
- Work outside the transactions (the hooks and the retry worker) may be lost
  when a process stops.
- Claims on embedding jobs are leases: they end by themselves.
- Telegram tokens are taken before the work they stand for is done, statuses
  are compared outside the transaction that changes them, and Telegram delivers
  again what was not acknowledged.
- Replicas probe and migrate one database beside each other, with no lock over
  the whole step; at shutdown not everybody who uses the pool is waited for.
- Retrievers, embeddings and objects fail independently of each other.

What makes each component correct:

- *Ingestion*: four rows or none; one object per identity; a duplicate is
  answered with the stored original and no other text is taken for one.
- *Lifecycle*: the status moves only along the rules; of two reviewers who
  decide at once one wins and the other is told; the audit trail explains the
  status.
- *SDD document*: it lists exactly the validated objects, each once; no
  overlapping call removes an entry of another.
- *Embedding queue*: a failed embedding is tried again until it succeeds, in its
  turn; no two workers have one job; a completed job stays gone.
- *Backlog*: a client that walks all pages sees what nobody touches exactly once.
- *Telegram messages*: one fault loses no text silently; a raw input's verdict is
  true and final; a prompt is acted on once.
- *Telegram review*: a button does what it says, once, to an object in the status
  its card showed; what a card says afterwards is true.
- *Migrations*: no version is recorded before it is in effect, nobody serves an
  incomplete schema, and everyone who starts comes to serve. The code keeps the
  first two but for databases of an older initdb hook, and the last one never
  (see the findings).
- *Shutdown*: every stopped process ends, and only those nobody joins can find
  the pool closed.
- *Limiter*: no window admits more than a burst and what the rate gives, or, where
  buckets are forgotten before they are full, one excess more per idle time.
- *Retrieval*: an answer never contradicts the retrievers that came back.

## Modules

| Module | Models | Checked by |
|---|---|---|
| `LifecycleRules` | statuses, guards and audit rows of the three lifecycle services, as operators | the runs below |
| `KnowledgeLifecycle` | what the lifecycle promises: whole operations, one after another | refined by `ObjectLifecycle` |
| `ObjectLifecycle` | the three services call by call: begin, `SELECT ... FOR UPDATE`, update, audit inserts, commit | `MCValidationPipeline` |
| `ObjectLifecycleProofs` | theorems about `ObjectLifecycle` and, at the end, `ValidationPipeline` | `tlapm` |
| `SddIndex` | what the document promises: whole appends and removals | refined by `SddDocument` |
| `SddDocument` | `AppendValidatedObject` as the read-modify-write it is | `MCSddDocument` |
| `SddDocumentProofs` | theorems about `SddDocument` | `tlapm` |
| `ValidationPipeline` | `ObjectLifecycle`, extended by an instance of `SddDocument` as `runtime/services.go` wires them | `MCValidationPipeline` |
| `IdentityStore` | what `Ingest` promises: a store that decides each call in one step | refined by `Ingestion` |
| `Ingestion` | `Ingest` call by call over its tables, unique index and hook | `MCIngestion` |
| `IngestionProofs` | theorems about `Ingestion` | `tlapm` |
| `EmbeddingRetry` | the hook, the job table and the workers | `MCEmbeddingRetry` |
| `EmbeddingRetryProofs` | theorems about `EmbeddingRetry` | `tlapm` |
| `OneTimeTokens` | what both Telegram token stores promise | refined by the next two |
| `TelegramMessages` | `handleMessage` and `handleCallback` with restarts and redelivery | `MCTelegramMessages` |
| `TelegramMessagesProofs` | theorems about `TelegramMessages` | `tlapm` |
| `TelegramReview` | cards, review buttons and their dispatch, over `KnowledgeLifecycle` | `MCTelegramReview` |
| `TelegramReviewProofs` | theorems about `TelegramReview` | `tlapm` |
| `HumanBacklog` | keyset pages and a client that walks them, over `LifecycleRules` | `MCHumanBacklog` |
| `Migrations`, `Shutdown` | the schema step of a boot; serving, signal and ordered shutdown | `MCApiProcess` |
| `ApiProcess` | both composed, replicas beside each other, killed and started again | `MCApiProcess` |
| `ApiProcessProofs` | theorems about `ApiProcess` | `tlapm` |
| `RateLimit`, `Retrieval` | the token buckets; search and collision check | `MCHttpApi` |
| `HttpApi` | authentication, limiter and read handlers composed | `MCHttpApi` |
| `HttpApiProofs` | theorems about `RateLimit`, `Retrieval` and their composition, and at the end `HumanBacklog` | `tlapm` |

The `MC` modules only give values to constants. Definitions marked "Faulty
variant" are the mutated forms `PROJECT.json` refers to; no specification uses
them.

### How state and actions correspond to the code

`ObjectLifecycle`. `status` and `audit` are committed rows; `lock` is the row
lock of `FindByIDForUpdate`; `pc`, `call`, `seen`, `written` and `outcome` are a
request's place in its function, its arguments, the status it read, the audit
rows it has inserted and what its caller learns. Each database call is an
action. `Rollback` is any failing statement or a cancelled request, in any
state of a transaction; `CommitLost` a commit that takes effect although its
error is returned. A request is made once; a retry is another request with the
same arguments. `IngestObject` is the ingestion transaction seen from here: a
row appears with any status, because `Ingest` accepts any.

`SddDocument`. `doc` is the JSONB body reduced to the set of entries with their
section and the call that wrote them; `docLock` the row lock. `ReadDoc` waits
for the lock and sees the committed body; `ReadNoDoc` finds no row, hence locks
nothing. `Upsert` is `INSERT ... ON CONFLICT DO UPDATE`, which on a new row
waits for another uncommitted insert and then overwrites it. Timestamps, order
and rendering of entries are left out.

`ValidationPipeline`. A `Validate` that has committed calls the hook in the
same goroutine; its lifecycle request and its hook call share a name.
`ResolveDebate` and `MarkDebating` call nothing, and an error of any kind,
a lost commit answer included, returns before the hook. The actions of
`ObjectLifecycle` are used as they stand, each with the document left alone or,
in `CommitThenHook`, with the hook begun.

`Ingestion`. `rows` maps each table to the requests whose row is committed in
it; `inserted` counts the rows of an open transaction. `IdentityKey` is
`computeIdentityKey`, with the hash taken to be injective. `InsertSource` waits
while another transaction holds an index entry of the same key and is refused
(`Conflict`) if that one commits. `IdentityStore` has none of this: a request is
stored, detected as a duplicate, refused because of the stored one or failed, in
one step, and its caller is told which or that it is not known.

`EmbeddingRetry`. `jobs[o]` is the row of `embedding_jobs`, its `next_retry_at`
kept as the number of ticks that are left; `worker[w]` is the batch a worker
has claimed and the job it is at. A tick is the interval of the worker's
ticker; `Lease`, `JobTime` and `Backoff` stand for the 300 s lease, the 30 s
timeout of the embedder and the backoff table. Of jobs that are due only the
order of `next_retry_at` is kept (`NewerDues`), which is all a claim compares.
`OldestBatch` is the claim query; it may pass over rows that another statement
holds (`SKIP LOCKED`): one that is writing them (`BeingWritten`), or a claim that
will fail (`HeldByOthers`). A claim that fails (`ClaimFails`) may have taken its
lease or not; the tick is skipped. `Tick` never waits for a claim: time passes
also while every claim fails or no process runs. `waited` is a history.
`late` records that some batch has outlived its lease, which the code allows
(see below): claims are exclusive until then, the rest holds all the same.
`Stop` is a shutdown between two jobs or a crash. Clocks of replicas are taken
to agree. Objects are never deleted or emptied by this code, so the two paths
of `processOne` for such jobs are not reachable and are left out.

`TelegramMessages`. A handling `h` stands for the goroutine of one update and
names the `raw_inputs` row and the token it makes; `prompt[h]` is its row of
`telegram_pending_validations`, `shown[h]` the message in the chat. `Press` is a
button, or the same callback delivered again after a restart. Every call may
fail with or without its effect (`Fault`, counted up to `MaxFaults`, restarts
included). `KeyOf` is a message's id, the same for messages of two chats that
share one, as two of the messages of each run do. `Ingest` is one step on the objects by idempotency key; `Take` is the
`DELETE ... RETURNING` of the PostgreSQL store, and of the in-memory one under
its mutex.

`TelegramReview`. `card[c]` holds the status that was shown and the tokens saved
for its buttons, `tap[t]` is a callback. The services are steps of
`KnowledgeLifecycle`, which `ObjectLifecycle` is shown to implement, so that the
check before the call and the decision in it are apart, with rivals in between.

`HumanBacklog`. `stamp[o]` is `updated_at`: `now()` is the start of a
transaction (`began`), so that a row may get a stamp older than a page already
shown. `Page` and `NextCursor` are the query with its one extra row.

`Migrations`. `schema` is what is in effect and `records` what
`schema_migrations` says; `OnDisk` is what the file system given to the runner
has at its root, `Parsed` the files goose can read. goose is modelled from how it
is called: one transaction for the version table, one listing, the parsing of all
that is pending, one transaction for each pending version. The database a first
boot meets is empty, set up by the initdb hook of this or an earlier release with
an empty version table or none, migrated by an earlier release, or such a set-up
that an earlier release has baselined. `missed` is a history: the versions which
the hook did not have and which a baseline records all the same.

`Shutdown`. `user[r][u]` is a user of the pool. The steps wait for the HTTP
server, the polling goroutine and the worker, each with a budget; nobody waits
for Telegram handlers. `Wait` either finds its user gone or expires.
`ApiProcess` runs both modules in `main`'s order.

`RateLimit`. A tick refills one unit and a request costs `Cost` units, so every
rational rate is an instance. `spent` is a history: what was admitted since each
tick. `runtime/server.go` fixes the idle time after which a bucket is forgotten at
ten minutes; rate and burst come from the environment, and `config/config.go:124-129`
lets through buckets that take hours to fill. Such a bucket is full sooner by being
forgotten than by being refilled: `Excess` is the difference, and a client can have
it once in every `Idle`. Where a bucket fills in time it is 0 and the bound is
burst and rate alone.

`Retrieval`. A list of hits is a function from objects to scores, and sorting
leaves ties in any order (`sort.Slice` over values taken from a map). `Merge` is
what `Search` does after `wg.Wait`. `HttpApi` puts `Begin` behind the limiter.

## Runs

| Run | Question | Instance |
|---|---|---|
| `sdd_existing_row` | Does the row lock keep every append, and does every call return? | 3 calls, 2 objects, row exists |
| `sdd_first_appends_lost` | Do concurrent appends never lose entries, as the comment says? No. | 2 calls, 2 objects, no row |
| `pipeline` | Are overlapping lifecycle requests whole operations with a true audit trail, does the document list only validated objects, and does every `Validate` arrive? | 2 requests, 1 object, no row |
| `ingestion` | Four rows or none, every call answered, each decided as an atomic store would? | 3 calls, 2 texts, 1 idempotency key |
| `embedding_queue` | Exclusive claims while leases last, no lost failure, no job that waits out of turn or starves, whatever expires and fails, claims included? | 2 workers, 3 jobs, 1 of them foreign, batches of 2, lease of 2 ticks, 3 attempts |
| `telegram_messages` | Is any text lost, any verdict false or overwritten, any prompt used twice? | 3 messages, 2 of them with one id, 2 handlings, 2 taps, 2 faults |
| `telegram_shared_ids` | Is a promoted raw input ingested, as its type says? No. | 2 messages with one id, no fault |
| `telegram_review` | Do taps decide only what their cards showed? | 1 object, 2 cards, 2 taps, 1 rival |
| `human_backlog` | Is what nobody touches walked exactly once? | 3 objects, 1 update, pages of 1 or 2, `now()` up to 3 |
| `process` | Do replicas that boot, die, serve and stop beside each other keep schema and pool in order, and exit when told? | 2 replicas, 2 migrations, readable and at the root, 1 kill |
| `boot_embedded` | Does a process come to serve with the file system `main` embeds? No. | 1 replica |
| `search` | Does any mix of requests, collections and failures get a client past its rate, or an answer past its sources? | 1 slot, 1 client, burst 3, idle time 1, 3 objects, answers of 2 |

*Why the bounds are enough.* The conflicts here are between two transactions. In
the lifecycle two requests overlap, or follow one another as a retry does after a
lost commit, and an object may be ingested with any status, so that every link of
a longer chain is among them; the proofs have any number. Objects do not share
locks, so one is enough there; two matter where a row is shared, in the document
and in the queue. In the queue, attempts stop at `MaxAttempts`, where the code
parks the job, and waits at `MaxWait`, which `DueJobsAreClaimedInTime` shows is
never met (`LongestWait` is 6 in this instance);
every retry is due at the next tick, which is the most crowded queue, and a
batch of two jobs can outlast its lease. Two faults let a failed staging meet a
restart or a failed save; a second message meets the first one's object through a
redelivery or through a shared id, a third one not at all. Two cards with two taps
are two reviewers of one object, or one with an old card. Three objects and pages
of one or two make walks of up to three pages with an insertion before or after
the cursor, and one transaction that began before the first page. Two replicas
cover every overlap of a probe with another's baseline or migration; only `p1` is
told to stop, because processes share nothing but the schema. Two migrations are
enough for a database that lacks one. For the limiter, the bucket of three is
forgotten after two ticks, so that the excess is had twice in five ticks, and the
bound of the run is met exactly; in `search` the answer is shorter than the lists
together, so that ties meet the cut. Symmetry is used only in runs without
liveness.

`process` gives the runner a file system as `Run`'s comment allows it ("or a
synthetic tree in tests"), with files goose can read. It is hypothetical: with
what `main` embeds no process gets past the schema step (`boot_embedded`), and
service and shutdown could not be exercised at all. What the run shows of them, and
of replicas that migrate beside each other, is conditional on that repair; none of
its properties says that a process comes to serve.

*Fairness.* Weak fairness of what a goroutine does by itself: its next database
call returns, with a result or an error. Nobody is made to call a service, no
commit or embedding is made to succeed, and a process may stop at any moment.
In the queue, time passes and a job under way ends. Claims may fail: it is assumed
only (strong fairness of `ClaimBeside(w, {})`) that while due jobs are there again
and again, and an idle worker to claim them, one of the claims succeeds at a moment
at which no failing claim of another worker holds their rows; `PendingJobsAreRetried`
rests on that, the bound on waiting on no fairness. In
`ApiProcess` a boot goes on, a stopped process is started again (the job of
whoever runs it), a shutdown step's budget ends, and who has a connection gives
it back, without which `pool.Close` would wait for ever. Nobody is made to leave
in time.

`CHECK_DEADLOCK FALSE` is in the runs of the Telegram modules and of the backlog:
their callers may have nothing left to do.

## Findings

1. **First appends lose entries** (`sdd_first_appends_lost`, a bug). On a
   workspace without a document row `SELECT ... FOR UPDATE` locks nothing. Two
   first appends both start from an empty document, and the second upsert
   overwrites the first. `OnlyFirstAppendsLose` proves that this is the only way
   to lose an entry.
2. **The embedded file system has no migration at its root** (`boot_embedded`, a
   bug). `migrations.FS` is the embed of `all:sql` itself, whose root has one
   directory; its comment says it is rooted at `sql/`. The runner looks at the
   root only, so `Run` fails and the process ends at every start. Rooting the
   embed would not be enough: none of the SQL files has the `-- +goose Up` which
   goose's parser asks for (`Parsed`), so that an empty database would still not be
   migrated.
3. **A promoted raw input may never have been ingested** (`telegram_shared_ids`).
   The idempotency key of a Telegram message is its id, which is unique within a
   chat only (`telegram/handler.go:289`), in one workspace for all chats. The
   second of two texts with one id is answered "Duplicate" and stored nowhere, and
   its raw input is promoted with the other text's object, while
   `domain/raw_input.go:10` has "promoted (ingested)". `PromotedIdsStayStored`
   proves what is left of it: a text of that id is stored.

Smaller things met on the way, which no run is about but where one is named:

- `ResolveDebate` can validate an object and fires no hook, while `app/ports.go:350`
  and `mcp/tools.go:112` speak of every transition to validated. Nothing fails, so
  nothing is logged or repaired; `ValidationReachesDocument` speaks of `Validate`.
- A resubmission that overlaps the first call runs into the unique index and is
  answered with an internal error, not `duplicate: true`; no row is written.
- Up to 32 jobs of up to 30 s share one lease of 300 s that starts at the claim
  (`postgres/embedding_jobs.go:20`). `embedding_queue` has such batches; deletes
  and updates that leave a missing row missing keep the data right.
- Without a bot token `main` passes a nil `*sync.WaitGroup`, which is not the nil
  the shutdown step looks for: it panics, and the worker and the pool are not
  waited for. `Panics` in `Shutdown`.
- A database with tables and without a version table can never boot
  (`migrations/baseline.go:69`).
- A baseline records every version on disk (`migrations/baseline.go:76`), also those
  that a database of an older initdb hook lacks: they are never applied, and the API
  serves all the same, while `openspec/specs/db-migrations/spec.md` has it "apply all
  pending migrations before the API begins serving any request".
  `OnlyMissedVersionsAreLacking`, in `process`, says that just these are lacking.
- The limiter's comment promises "`rate` requests per second with a burst of `burst`"
  (`httpapi/ratelimit/ratelimit.go:29`); with a burst that takes longer than ten
  minutes to refill, which the configuration allows, a client that pauses for the
  idle time gets more. `AdmissionsStayWithinRate`, in `search`, says how much.
- A claim whose rows cannot be read after the statement has run has leased its jobs
  for nothing: they wait for the lease to end (`ClaimFails`).
- Telegram's handler goroutines are joined by nobody, and `pool.Close` waits for
  their connections without a budget.
- A search answers ten hits at most whatever its limit is, since the limit of the
  composite is fixed in `runtime/services.go:215`.
- `vectorRetriever` skips `pgx.ErrNoRows`, which `FindByID` never returns: one
  missing object fails the whole list (`postgres/embeddings.go:153`).
- A Skip on the last card starts again at the first page.
- An object whose update carries an older timestamp may be shown twice, or not,
  by one walk; the promise is only about what nobody touches.

## Proofs

`ObjectLifecycleProofs`, for any sets of objects and requests, from the one
assumption that `NoRequest` is not a request:

- `RowLockHolds`: `TypeOK /\ RowLockInvariant`. This is the inductive
  invariant: the lock of a row belongs to exactly the request between its
  `SELECT ... FOR UPDATE` and the end of its transaction, and what that request
  read is still true. Without the last part no later step can be shown to apply
  to the status the object really has.
- `SettledStatusesStay`: no step moves an active, validated or deprecated
  object. It follows from the invariant, as an update is made only from what
  was read.
- `VerdictStands`: an acknowledged verdict stays and is the only one. It needs
  `VerdictInv`: whoever has committed a verdict has left the object in a status
  no operation accepts.
- `AuditTrailHolds`: the trail is unbroken and ends in the status (`TrailInv`),
  by what a commit appends.
- `Implements`: every step is a whole operation of `KnowledgeLifecycle` or a
  stutter. It needs `TracedInv`: a request that has not committed has left no
  row.
- `RowsAreWhole`: a transaction leaves all of its audit rows, or none. It needs
  `WholeInv`: the rows of a committed request are one block of the trail of its
  object, which nothing behind it moves (`BlockStays`).

`SddDocumentProofs`, for any sets of objects and calls, from the assumptions
on the constants of `SddDocument`. The inductive invariant `IInv` says who
holds the row (`LockInv`), what each call's copy of the entries is at each of
its steps (`DraftInv`), that nobody misses a row that was there from the start
(`RowInv`), and that no object is listed twice. On any workspace:

- `RowLockHolds`: `TypeOK /\ ReadStaysCurrent`, read off the invariant.
- `EntriesAreUnique`: `OneEntryPerObject`. It needs `DraftInv`, as a commit
  writes the draft, which must be an edit of entries that were unique.
- `OnlyFirstAppendsLose`: an entry that goes was deprecated by a call that had
  the row, or overwritten by one that had found none (`LossIsExplained`).

With the further assumption `RowExists`, under which the second case is gone:

- `ExistingRowLosesNothing`: `EntriesAreNeverLost`.
- `ExistingRowListsAppends`: `SuccessfulAppendIsListed`. It needs `JobInv`: a
  call keeps its job and answers only when it ends.
- `ExistingRowImplements`: every commit is one whole append or removal of
  `SddIndex`, every other step a stutter.

`SuccessfulAppendIsListed` is not proved without `RowExists` because it is
false there: see the findings.

`ValidationPipeline`, in the last part of `ObjectLifecycleProofs`, on any
workspace:

- `PipelineImplementsLifecycle` and `PipelineImplementsDocument`: every step of
  the pipeline is a step or a stutter of `ObjectLifecycle` and of `SddDocument`,
  so that whatever is proved of either on any workspace holds of both together.
- `HooksReportTheTruth`: the inductive invariant. What a hook was told is still
  the object's status (`HookInv`), and no copy of the entries lists an object that
  is not validated (`ListInv`). The copies matter because a late upsert may bring
  back an old one. It rests on the finality of verdicts (`SettledStep`).
- `ListedAreValidated`: `OnlyValidatedIsListed`.

With `RowExists`, what is proved of the document carries over, and verdicts being
final there is nothing left to remove an entry. These two are stated by theorems
only, since the run of the pipeline is about a workspace without a row:

- `ExistingRowKeepsListed`: `ListedObjectsStayListed`. The document loses only what a
  call deprecates (`EntriesAreNeverLost`), and that call was told the truth.
- `ExistingRowListsReported`: `ReportedValidationsAreListed`.

Without `RowExists` both are false, because of the first finding; and they say
nothing of `ResolveDebate`, which calls no hook.

`IngestionProofs`, for any requests and inputs, from the assumptions that
`NoRequest` and `NoKey` stand for nothing. `IInv` says that the four tables have
the rows of the same requests, what a request's place says of its rows
(`PlaceInv`), that committed and uncommitted index entries are unique
(`IndexInv`), and that an original that was found is stored under the finder's
own key (`FoundInv`). The uncommitted entries are what is needed: two calls that
both found nothing are kept apart by them alone.

- `RowsAreFourOrNone`, `IdentitiesAreStoredOnce`, `DuplicatesAreTrue`,
  `TextsAreNotDropped`: the four invariants of the run, read off `IInv`.
- `Implements`: every step is a step of `IdentityStore` or a stutter. The commit is
  the step at which a call is decided: `IndexInv` gives that no stored request has
  its identity then, although its lookup was long ago, and `FoundInv` that a
  duplicate's original is still what the caller is told.

`EmbeddingRetryProofs`, for any objects, workers, lease, batch and backoff, from
`ForeignAssumption` and `TimesAssumption`. `IInv` adds to the three invariants that
jobs are there only when their hook is done (`JobInv`), that the claims of a batch
are of different objects (`BatchInv`), and that, nobody being late, what is
claimed is not due before its lease ends (`LeaseInv`). The last one is the
exclusion: only due jobs are claimed.

- `FailuresStayOnRecord`, `LeasesExclude`, `ClaimsAreCurrent`: the invariants.
- `CompletedJobsStay`: the action property, from `JobInv`: an enqueue is the only
  step that adds a row, and it ends the hook.
- `NoJobWaitsLonger`: `DueJobsAreClaimedInTime`, for finitely many objects and a
  `MaxWait` out of reach (`WaitAssumption`). A wait is counted in ticks in which some
  worker is at work; a tick in which all are idle although jobs are due is one in
  which every claim failed or no process ran, and nothing bounds their number. A due
  job's `Load` is what it has waited and the work on the jobs before it. The
  invariant `LateInv` bounds the load together with what any one worker still has to do: each
  counted tick adds one to the wait and takes one from every busy worker, and who
  becomes busy has claimed the oldest jobs, so that either this job was claimed or a
  batch of those before it. `TickKeepsOrder` shows that renumbering the overdue jobs
  leaves their order alone. A job that is held has room for one more batch, because a
  worker that outlives its lease may be writing the row when it is due again, and the
  claim passes over it; a failing claim that holds the row counts as its turn
  (`FailedClaimIsNoWait`). The bound `JobTime * (2 * BatchLimit + Cardinality(Objects)
  - 1)` does not count the other workers' help, and is not tight.

`ApiProcessProofs`, for any replicas and any number of migrations, from
`OnDiskAssumption` and `StoppableAssumption`. `IInv` says what the database may
look like (`DatabaseInv`), what each boot has found out and is still true although
others have moved the database on (`BootInv`), and whom each shutdown has waited
for (`ProcessInv`). `BootInv` holds because nothing is ever taken back: rows and
tables are only added, so that a stale answer of a probe stays a safe one. That
what an older initdb hook missed is missed for good needs that all of it is
recorded before any process comes to list (`DatabaseInv`).

- `OthersAreNotLacking`: `OnlyMissedVersionsAreLacking`, without a lock over the
  schema step and for a database of any origin.
- `OthersAreNotRefused`: `OnlyTheUnjoinedAreRefused`.

`TelegramReviewProofs`, for any objects, cards, taps and rivals, from
`RivalsAssumption`: a tap and a rival are different requests. `IInv` says who has
taken a token (`TapInv`, `TakenOnce`), that a card has only the buttons of the
status it shows (`CardInv`), and that an audit row of a tap moved the object of
its card from the status shown (`RowInv`).

- `TapsDecide`: `TapsDecideWhatTheirCardShowed`. The check in the handler is not
  what makes it true: the button fixes the service and the service's own guard
  the source status. A debate is the one exception, which the property allows.
- `VerdictsOnCardsAreTrue`: `CardVerdictsAreTrue`, as a verdict is final.
- `Implements`: the review tokens are `OneTimeTokens`.

`HumanBacklog`, in the last part of `HttpApiProofs`, for ids that are numbers,
finitely many items and any page sizes (`BacklogAssumption`):

- `UntouchedAreWalkedOnce`: `UntouchedItemsAreWalkedOnce`. In the invariant
  `WalkInv` an untouched item has been shown exactly if the cursor has passed it.
  `CursorSplits` gives the step: the page is a cut of the matching rows, its last
  row is the cursor, and the cursor only falls. It needs that a finite set of rows
  has a first one, which comes from the counts of the rows before each
  (`AboveCounts`).

`TelegramMessagesProofs`, for any messages, handlings, taps and faults, from
`NobodyAssumption`. `HandlingInv` says by how far a handling is what its row,
prompt and object may be; a text that could not be staged is in some other place
as long as nothing else has failed (`Pursued`); a prompt has one taker
(`TakenOnce`), and only that one writes after the handling is over.

- `RawInputsAreTrue` and `RawVerdictsStay`: `RawInputsTellTheTruth` and
  `RawVerdictsAreFinal`. The updates of `raw_inputs` have no condition: it is the
  single use of the prompt that keeps a verdict from being overwritten.
- `OneFaultIsSurvived`: `OneFaultLosesNoText`.
- `PromotedIdsStayStored`: behind a promoted raw input some text of the same id is
  stored. It needs `KeyInv`: an object is filed under the key of its creator's
  message. That it is the text of the same message is false (the third finding).
- `Implements`: the pending validations are `OneTimeTokens`.

`HttpApiProofs` has the limiter, for any clients, rate, burst, idle time and request
cost; `LimiterAssumption` gives these their types and nothing else:

- `LimiterInvHolds`: the inductive invariant. For every start of a window, what
  was admitted since, the tokens left in the bucket and the refill not yet
  credited stay within the burst, the length of the window and what collections can
  have brought in it (`BucketInv`). A client without a bucket counts as one with a
  full bucket; if it was collected before it was full, every window that has seen it
  idle has grown by an `Idle`, and its bound by an `Excess` (`RegainedGrows`).
- `AdmissionsAreBounded`: `AdmissionsStayWithinRate`, from it.
- `ApiImplementsLimiter`, `ApiAdmissionsAreBounded`: every step of the composed
  API is a step of `RateLimit` or leaves the buckets alone, so the bound holds for
  the API.

and the answers, for any objects, scores and limits of `RetrievalAssumption`,
which takes the scores and the shares `1/(K + rank)` as integers, over a common
denominator `Scale`:

- `RetrievalInvHolds`: what each request was sent, and that its answer agrees
  with it. `RankFollowsScore`, `ShareFollowsScore`, `FusedFollowsLists` and
  `CutKeepsOrder` carry an order on which all lists agree through ranking, fusion
  and cut.
- `ConsensusIsKept`: `AnswersKeepTheConsensus`.

Two proofs changed a model. The obligations of `TapsDecide` showed that `Service`
in `TelegramReview` had a CASE with overlapping guards, and those of
`RetrievalInvHolds` that the cut of a collision check is simplest as a ranking of
the hits it keeps.

Only model-checked: all liveness (`BegunRequestsReturn`, `BegunAppendsReturn`,
`ValidationReachesDocument`, `BegunIngestsAreAnswered`, `PendingJobsAreRetried`,
`StoppedProcessesExit`), as it rests on fairness, which is
beyond the prover. `NoJobWaitsLonger` is the part of `PendingJobsAreRetried` that
can be said without it. Where a property is false of the code in general, the
theorem carries the condition under which it holds: `RowExists`, without which
`sdd_first_appends_lost` shows the violation.

The assumptions, all evaluated by TLC in the runs: that `NoRequest`, `NoAppend`,
`NoKey` and `Nobody` stand for nothing (`NoRequestAssumption` and the like); that
constants have their types (`TypeOfAssumption`, `RowExistsAssumption`,
`WorkspaceAssumption`, `ForeignAssumption`, `TimesAssumption`, `StoppableAssumption`,
`LimiterAssumption`, `RetrievalAssumption`); that ids are ordered and finitely many (`BacklogAssumption`);
that a tap is not a rival (`RivalsAssumption`); that the runner's file system has all
migrations or none (`OnDiskAssumption`); and that the cap on counted waits is beyond
the proved bound (`WaitAssumption`).

## Not modelled

- Formatting, decoding and transport: bodies and status codes of the HTTP
  handlers, security headers, problem documents, Telegram rendering, the MCP
  front end (one request after another, each forwarded), the Gemini client
  (success or failure of an embedding). They keep no state.
- The writing HTTP handlers and the MCP tools are the requests of `Ingestion` and
  `ObjectLifecycle`; nothing of their own can go wrong between two steps.
- SQL ranking and vector search, which are PostgreSQL's.
- Object relations: one insert that no service calls yet.
- Configuration and logging.
- Workers of two embedding models on one queue: the claims of the wrong one renew
  leases of jobs it skips. The run would outgrow its limits.

## Plan

1. Done: lifecycle and SDD document with proofs, pipeline, ingestion, embedding
   queue.
2. Done: Telegram messages and review, backlog, boot and shutdown, limiter with
   proofs, retrieval, the composed API.
3. Done, proofs: ingestion and its refinement of `IdentityStore`, embedding queue
   with the bound on waiting, pipeline with what `ObjectLifecycle` and `SddDocument`
   give together, boot and shutdown, both Telegram modules with their refinements
   of `OneTimeTokens`, backlog, retrieval.
4. Open: a run in which the processes boot from the files as `main` embeds them, once
   these can be read; workers of two embedding models on one queue, with the liveness that is at
   stake there; a sharper bound on waiting that counts the other workers; a card's
   verdict against the document of `ValidationPipeline`. New theorems go into the
   proof module of a component they rest on, as those of `ValidationPipeline` and
   `HumanBacklog` do.
