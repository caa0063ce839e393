--------------------------- MODULE EmbeddingRetry ---------------------------
(***************************************************************************)
(* The embedding of ingested objects: the retry-aware post-ingest hook and *)
(* the workers that drain embedding_jobs.  A failed hook enqueues a job; a *)
(* worker claims a batch of due jobs, pushing each next_retry_at forward   *)
(* by a lease in the same statement, then works through the batch one job  *)
(* at a time and deletes or reschedules each by itself.  Nothing but that  *)
(* lease keeps the workers of several API replicas apart, and the claim    *)
(* and every write after it are statements of their own that may fail.     *)
(*                                                                         *)
(* Time is counted in ticks, and a job stores how many are left until it   *)
(* is due.  Of jobs that are due it stores their order, which is all that  *)
(* a claim looks at.  A tick is the interval at which idle workers look    *)
(* for due jobs, in vain when their claims fail; JobTime bounds the time   *)
(* on one job (the HTTP timeout of the embedder).                          *)
(***************************************************************************)
EXTENDS Integers, FiniteSets

CONSTANTS Objects,      \* knowledge objects with text to embed
          Foreign,      \* those whose job was queued under another model
          Workers,      \* retry workers, one per API process
          BatchLimit,   \* jobs per claim
          Lease,        \* ticks a claim pushes a job forward
          JobTime,      \* most ticks a worker spends on one job
          MaxAttempts,  \* attempts from which a job is paused
          Backoff,      \* Backoff[n]: ticks until the retry after attempt n
          MaxWait       \* waits are counted up to here, which none reaches

ASSUME ForeignAssumption == Foreign \subseteq Objects
ASSUME TimesAssumption ==
  /\ {BatchLimit, Lease, JobTime, MaxAttempts, MaxWait} \subseteq Nat \ {0}
  /\ Backoff \in [1 .. MaxAttempts -> Nat \ {0}]

\* The longest a due job waits behind work: while a worker that outstayed its
\* lease is through with it, while another works on a batch, and while the jobs
\* that were due before it are worked on.
LongestWait == JobTime * (2 * BatchLimit + Cardinality(Objects) - 1)
ASSUME WaitAssumption == IsFiniteSet(Objects) /\ MaxWait > LongestWait

VARIABLES jobs,         \* jobs[o]: o's row in embedding_jobs, or NoJob
          vectors,      \* the objects that have a row in embeddings
          hook,         \* hook[o]: where o's post-ingest hook is
          worker,       \* worker[w]: the batch w works on, or Idle
          late          \* some worker has worked on a batch past its lease

vars == <<jobs, vectors, hook, worker, late>>

NoJob == [due |-> "never"]

\* Attempts from MaxAttempts on all lead to the same pause: the count stops there.
\* waited is no column: it counts the ticks since the job fell due, or was last in
\* a claim's batch, in which some worker was at work.
JobType == [attempts : 1 .. MaxAttempts, due : Int, waited : 0 .. MaxWait]

Claim == [obj : Objects, attempts : 1 .. MaxAttempts]

Idle == [step |-> "idle"]

\* "embedding": object looked up, provider called.  "embedded" and "failed":
\* it answered, the job's row is still to be deleted or rescheduled.  left: what
\* is left of the batch's lease, which nothing in the code keeps count of.
Busy == [step : {"embedding", "embedded", "failed"}, job : Claim,
         rest : SUBSET Claim, age : 0 .. JobTime, left : 0 .. Lease]

HookValues == {"none", "embedding", "enqueueing", "done", "lost"}

TypeOK ==
  /\ jobs \in [Objects -> JobType \union {NoJob}]
  /\ vectors \in SUBSET Objects
  /\ hook \in [Objects -> HookValues]
  /\ worker \in [Workers -> Busy \union {Idle}]
  /\ late \in BOOLEAN

Init ==
  /\ jobs = [o \in Objects |-> IF o \in Foreign THEN [attempts |-> 1, due |-> 0, waited |-> 0] ELSE NoJob]
  /\ vectors = {}
  /\ hook = [o \in Objects |-> IF o \in Foreign THEN "done" ELSE "none"]
  /\ worker = [w \in Workers |-> Idle]
  /\ late = FALSE

-----------------------------------------------------------------------------
(* The hook of one object.                                                 *)

StartHook(o) ==
  /\ hook[o] = "none"
  /\ hook' = [hook EXCEPT ![o] = "embedding"]
  /\ UNCHANGED <<jobs, vectors, worker, late>>

HookEmbeds(o) ==
  /\ hook[o] = "embedding"
  /\ vectors' = vectors \union {o}
  /\ hook' = [hook EXCEPT ![o] = "done"]
  /\ UNCHANGED <<jobs, worker, late>>

\* The embedder or the upsert fails; an upsert may have taken effect all the same.
HookFails(o) ==
  /\ hook[o] = "embedding"
  /\ vectors' \in {vectors, vectors \union {o}}
  /\ hook' = [hook EXCEPT ![o] = "enqueueing"]
  /\ UNCHANGED <<jobs, worker, late>>

HookEnqueues(o) ==
  /\ hook[o] = "enqueueing"
  /\ jobs' = [jobs EXCEPT ![o] = [attempts |-> 1, due |-> Backoff[1], waited |-> 0]]
  /\ hook' = [hook EXCEPT ![o] = "done"]
  /\ UNCHANGED <<vectors, worker, late>>

\* The enqueue fails too, or the process dies between the commit of the
\* ingestion and the end of the hook: logged at most, never repaired.
HookIsLost(o) ==
  /\ hook[o] \in {"none", "embedding", "enqueueing"}
  /\ hook' = [hook EXCEPT ![o] = "lost"]
  /\ UNCHANGED <<jobs, vectors, worker, late>>

-----------------------------------------------------------------------------
(* A worker.                                                               *)

\* Some worker is at work on a batch.
AtWork == \E w \in Workers : worker[w] # Idle

Due == {o \in Objects : jobs[o] # NoJob /\ jobs[o].due <= 0}

ClaimsOf(w) == IF worker[w] = Idle THEN {} ELSE worker[w].rest \union {worker[w].job}

\* Take the next job of a batch, or go back to sleep.
GoOn(w, rest, left) ==
  \/ rest = {} /\ worker' = [worker EXCEPT ![w] = Idle]
  \/ \E j \in rest :
       worker' = [worker EXCEPT ![w] =
                    [step |-> "embedding", job |-> j, rest |-> rest \ {j}, age |-> 0, left |-> left]]

\* Rows a statement of a worker may be writing: SKIP LOCKED may pass over them.
BeingWritten ==
  {worker[v].job.obj : v \in {u \in Workers : worker[u].step \in {"embedded", "failed"}}}

\* Rows that a claim of another worker holds while it runs and, failing, gives back.
HeldByOthers(w) ==
  {held \in SUBSET Due :
     Cardinality(held) <= BatchLimit * Cardinality({v \in Workers \ {w} : worker[v] = Idle})}

\* Faulty variant: the newest due jobs are claimed first.
NewestBatch(batch, held) ==
  LET free == Due \ held IN
  /\ batch \subseteq free /\ batch # {}
  /\ batch = free \/ Cardinality(batch) = BatchLimit
  /\ Cardinality(batch) <= BatchLimit
  /\ \A o \in batch, p \in free \ batch : jobs[o].due >= jobs[p].due

\* The oldest due jobs that are not locked, up to the limit.
OldestBatch(batch, held) ==
  \E skipped \in SUBSET BeingWritten :
    LET free == Due \ (skipped \union held) IN
    /\ batch \subseteq free /\ batch # {}
    /\ \/ batch = free /\ Cardinality(batch) <= BatchLimit
       \/ Cardinality(batch) = BatchLimit
    /\ \A o \in batch, p \in free \ batch : jobs[o].due <= jobs[p].due

\* The table after a claim of leased, given that claims of returned were rolled back.
Claimed(leased, returned) ==
  [o \in Objects |-> IF o \in leased THEN [jobs[o] EXCEPT !.due = Lease, !.waited = 0]
                     ELSE IF o \in returned THEN [jobs[o] EXCEPT !.waited = 0]
                     ELSE jobs[o]]

ClaimsFor(batch) == {[obj |-> o, attempts |-> jobs[o].attempts] : o \in batch}

\* Faulty variant: the claim leaves next_retry_at alone.
ClaimWithoutLease(w) ==
  /\ worker[w] = Idle
  /\ \E batch \in SUBSET Objects :
       /\ OldestBatch(batch, {})
       /\ GoOn(w, ClaimsFor(batch), Lease)
  /\ UNCHANGED <<jobs, vectors, hook, late>>

\* ClaimDue, one statement: pick, push forward by the lease, return.
ClaimBeside(w, held) ==
  /\ worker[w] = Idle
  /\ \E batch \in SUBSET Objects :
       /\ OldestBatch(batch, held)
       /\ jobs' = Claimed(batch, held)
       /\ GoOn(w, ClaimsFor(batch), Lease)
  /\ UNCHANGED <<vectors, hook, late>>

ClaimDue(w) == \E held \in HeldByOthers(w) : ClaimBeside(w, held)

\* The statement, or the reading of its rows, fails: the worker sleeps until its
\* next tick, although the lease may have been taken all the same.
ClaimFails(w) ==
  /\ worker[w] = Idle
  /\ \E held \in HeldByOthers(w), batch \in SUBSET Objects :
       /\ OldestBatch(batch, held)
       /\ jobs' \in {Claimed(batch, held), Claimed({}, batch \union held)}
  /\ UNCHANGED <<vectors, hook, worker, late>>

Embedding(w) == worker[w].step = "embedding" /\ worker[w].job.obj \notin Foreign

\* A job of another model keeps its row, and its new lease.
Skip(w) ==
  /\ worker[w].step = "embedding" /\ worker[w].job.obj \in Foreign
  /\ GoOn(w, worker[w].rest, worker[w].left)
  /\ UNCHANGED <<jobs, vectors, hook, late>>

Embed(w) ==
  /\ Embedding(w)
  /\ vectors' = vectors \union {worker[w].job.obj}
  /\ worker' = [worker EXCEPT ![w].step = "embedded"]
  /\ UNCHANGED <<jobs, hook, late>>

\* The lookup, the embedder or the upsert fails.
EmbedFails(w) ==
  /\ Embedding(w)
  /\ vectors' \in {vectors, vectors \union {worker[w].job.obj}}
  /\ worker' = [worker EXCEPT ![w].step = "failed"]
  /\ UNCHANGED <<jobs, hook, late>>

Delete(w) ==
  /\ worker[w].step = "embedded"
  /\ jobs' = [jobs EXCEPT ![worker[w].job.obj] = NoJob]
  /\ GoOn(w, worker[w].rest, worker[w].left)
  /\ UNCHANGED <<vectors, hook, late>>

NextAttempts(w) ==
  IF worker[w].job.attempts = MaxAttempts THEN MaxAttempts ELSE worker[w].job.attempts + 1

\* Faulty variant: the failure is recorded by an upsert.
MarkFailedUpserts(w) ==
  /\ worker[w].step = "failed"
  /\ jobs' = [jobs EXCEPT ![worker[w].job.obj] =
                [attempts |-> NextAttempts(w), due |-> Backoff[NextAttempts(w)], waited |-> 0]]
  /\ GoOn(w, worker[w].rest, worker[w].left)
  /\ UNCHANGED <<vectors, hook, late>>

\* Faulty variant: a job that reaches the cap is given up.
MarkFailedGivesUp(w) ==
  /\ worker[w].step = "failed"
  /\ jobs' = [jobs EXCEPT ![worker[w].job.obj] =
                IF @ = NoJob \/ NextAttempts(w) = MaxAttempts THEN NoJob
                ELSE [attempts |-> NextAttempts(w), due |-> Backoff[NextAttempts(w)], waited |-> 0]]
  /\ GoOn(w, worker[w].rest, worker[w].left)
  /\ UNCHANGED <<vectors, hook, late>>

\* recordFailure and the UPDATE it makes: the count is the one the claim
\* returned plus one, and a row that has gone stays gone.
MarkFailed(w) ==
  /\ worker[w].step = "failed"
  /\ jobs' = [jobs EXCEPT ![worker[w].job.obj] =
                IF @ = NoJob THEN NoJob
                ELSE [attempts |-> NextAttempts(w), due |-> Backoff[NextAttempts(w)], waited |-> 0]]
  /\ GoOn(w, worker[w].rest, worker[w].left)
  /\ UNCHANGED <<vectors, hook, late>>

\* The delete or the update fails: logged, and the batch goes on.
WriteFails(w) ==
  /\ worker[w].step \in {"embedded", "failed"}
  /\ GoOn(w, worker[w].rest, worker[w].left)
  /\ UNCHANGED <<jobs, vectors, hook, late>>

\* Shutdown between two jobs, or a crash at any moment; a new process starts
\* with an idle worker.
Stop(w) ==
  /\ worker[w] # Idle
  /\ worker' = [worker EXCEPT ![w] = Idle]
  /\ UNCHANGED <<jobs, vectors, hook, late>>

\* When the jobs that are newer than o, and due at the next tick, fell or fall due.
NewerDues(o) ==
  {jobs[p].due : p \in {q \in Objects : jobs[q] # NoJob /\ jobs[o].due < jobs[q].due /\ jobs[q].due <= 1}}

\* One tick of every clock.  A worker does not stay on one job longer than
\* JobTime.  When all are idle although jobs are due, their claims failed or no
\* process ran.
Tick ==
  /\ \E o \in Objects : jobs[o] # NoJob
  /\ \A w \in Workers : worker[w] # Idle => worker[w].age < JobTime
  /\ jobs' = [o \in Objects |->
                IF jobs[o] = NoJob THEN NoJob
                ELSE [jobs[o] EXCEPT !.due = IF @ > 0 THEN @ - 1 ELSE -Cardinality(NewerDues(o)),
                        !.waited = IF o \in Due /\ AtWork /\ @ < MaxWait THEN @ + 1 ELSE @]]
  /\ worker' = [w \in Workers |->
                  IF worker[w] = Idle THEN Idle
                  ELSE [worker[w] EXCEPT !.age = @ + 1, !.left = IF @ = 0 THEN 0 ELSE @ - 1]]
  /\ late' = (late \/ \E w \in Workers : worker'[w] # Idle /\ worker'[w].left = 0)
  /\ UNCHANGED <<vectors, hook>>

HookStep(o) == StartHook(o) \/ HookEmbeds(o) \/ HookFails(o) \/ HookEnqueues(o) \/ HookIsLost(o)

ProcessOne(w) ==
  Skip(w) \/ Embed(w) \/ EmbedFails(w) \/ Delete(w) \/ MarkFailed(w) \/ WriteFails(w)

Next ==
  \/ \E o \in Objects : HookStep(o)
  \/ \E w \in Workers : ClaimDue(w) \/ ClaimFails(w) \/ ProcessOne(w) \/ Stop(w)
  \/ Tick

Spec == Init /\ [][Next]_vars

\* Time passes, a job under way ends one way or the other, and of the claims of due
\* jobs, which idle workers try at every tick, again and again one succeeds while
\* no other holds their rows.  Nothing makes an attempt succeed.
FairSpec ==
  /\ Spec
  /\ WF_vars(Tick)
  /\ SF_vars(\E w \in Workers : ClaimBeside(w, {}))
  /\ \A w \in Workers : WF_vars(ProcessOne(w))

-----------------------------------------------------------------------------
(* Properties.                                                             *)

\* A failed embedding is never forgotten: once the hook has returned without
\* losing its enqueue, the object has a vector or a job, whatever workers,
\* expired leases and failed writes do afterwards.
FailuresAreNotForgotten ==
  \A o \in Objects \ Foreign : hook[o] = "done" => o \in vectors \/ jobs[o] # NoJob

\* A job that was completed does not come back, not even when a worker that
\* lost its claim records a failure after another has succeeded.
CompletedJobsStayGone ==
  [][\A o \in Objects : (jobs[o] = NoJob /\ hook[o] = "done") => jobs'[o] = NoJob]_vars

\* The lease is exclusive: until some worker has stayed on a batch for longer
\* than its lease, no two workers have a claim on the same job, whatever fails,
\* stops and is claimed again.
OneWorkerPerJob ==
  ~ late => \A v, w \in Workers : v # w =>
    {c.obj : c \in ClaimsOf(v)} \cap {c.obj : c \in ClaimsOf(w)} = {}

\* And what a claim returned is still what the row says while the worker has it,
\* so the attempts it will record count every recorded failure.
ClaimsStayTrue ==
  ~ late => \A w \in Workers : \A c \in ClaimsOf(w) :
    jobs[c.obj] # NoJob /\ jobs[c.obj].attempts = c.attempts

\* Due jobs get their turn in time, oldest first, however many are due, fail, stop
\* or outstay their leases: before a claim picks it up, be it one that fails, none
\* waits for more than LongestWait ticks in which a worker was at work.  (Ticks in
\* which all were idle, as claims fail or no process runs, have no bound.)
DueJobsAreClaimedInTime == \A o \in Objects : jobs[o] # NoJob => jobs[o].waited <= LongestWait

\* No job starves: as long as it is pending, a claim takes it again and again,
\* however many other jobs are due and however many claims fail.
PendingJobsAreRetried == \A o \in Objects : []<>(jobs[o] = NoJob \/ jobs[o].due > 0)

=============================================================================
