------------------------ MODULE EmbeddingRetryProofs ------------------------
(***************************************************************************)
(* Proofs about EmbeddingRetry for every set of objects and workers and    *)
(* every lease, batch and backoff: what the claim's lease, the order of    *)
(* its claims and the update that spares a deleted row give, whatever      *)
(* fails, stops or comes late.                                             *)
(***************************************************************************)
EXTENDS EmbeddingRetry, FiniteSetTheorems, TLAPS

Busily(w) == worker[w] # Idle

\* Only a hook that has returned has enqueued, and a worker deletes only what
\* has its vector.
JobInv ==
  /\ \A o \in Objects : jobs[o] # NoJob => hook[o] = "done"
  /\ \A w \in Workers : worker[w].step = "embedded" => worker[w].job.obj \in vectors

\* A batch has one claim per object, and the job at hand is not waiting as well.
BatchInv ==
  \A w \in Workers :
    /\ Busily(w) => worker[w].job \notin worker[w].rest
    /\ \A c, d \in ClaimsOf(w) : c.obj = d.obj => c = d

\* Nobody being late, a claimed job is not due before the claim's lease ends.
LeaseInv ==
  ~ late => \A w \in Workers : Busily(w) =>
    /\ worker[w].left > 0
    /\ \A c \in ClaimsOf(w) : jobs[c.obj] # NoJob /\ jobs[c.obj].due >= worker[w].left

\* The inductive invariant.
IInv ==
  TypeOK /\ JobInv /\ BatchInv /\ LeaseInv /\ FailuresAreNotForgotten /\ OneWorkerPerJob /\ ClaimsStayTrue

-----------------------------------------------------------------------------
(* Records and claims.                                                     *)

\* A job is not the absence of one, and a busy worker is not an idle one.
LEMMA NoJobIsNone == NoJob \notin JobType
<1>1. DOMAIN NoJob = {"due"}
  BY DEF NoJob
<1>2. \A j \in JobType : DOMAIN j = {"attempts", "due", "waited"}
  BY DEF JobType
<1> QED BY <1>1, <1>2

LEMMA IdleIsNotBusy == Idle \notin Busy /\ Idle.step = "idle"
BY DEF Idle, Busy

\* What the type invariant says of one job and of one worker.
LEMMA JobAndWorkerTypes ==
  ASSUME TypeOK
  PROVE  /\ \A o \in Objects : jobs[o] = NoJob \/ jobs[o] \in JobType
         /\ \A w \in Workers : /\ worker[w] = Idle \/ worker[w] \in Busy
                               /\ worker[w].step # "idle" => worker[w] \in Busy
                               /\ ClaimsOf(w) \in SUBSET Claim
<1>1. \A w \in Workers : worker[w] = Idle \/ worker[w] \in Busy
  BY DEF TypeOK
<1>2. \A w \in Workers : worker[w] \in Busy => worker[w].rest \union {worker[w].job} \in SUBSET Claim
  BY DEF Busy
<1> QED BY <1>1, <1>2, IdleIsNotBusy DEF TypeOK, ClaimsOf

\* The end of a job or a claim: the worker has the rest of the batch.
LEMMA GoOnMoves ==
  ASSUME TypeOK, NEW w \in Workers, NEW rest \in SUBSET Claim, NEW left \in 0 .. Lease, GoOn(w, rest, left)
  PROVE  /\ worker' \in [Workers -> Busy \union {Idle}]
         /\ ClaimsOf(w)' = rest
         /\ Busily(w)' => /\ worker'[w].left = left /\ worker'[w].step = "embedding"
                          /\ worker'[w].job \notin worker'[w].rest
         /\ ~ Busily(w)' => worker'[w].step = "idle"
         /\ \A v \in Workers \ {w} : worker'[v] = worker[v] /\ ClaimsOf(v)' = ClaimsOf(v)
<1>1. CASE rest = {} /\ worker' = [worker EXCEPT ![w] = Idle]
  BY <1>1, IdleIsNotBusy DEF TypeOK, ClaimsOf, Busily
<1>2. ASSUME NEW j \in rest,
             worker' = [worker EXCEPT ![w] = [step |-> "embedding", job |-> j, rest |-> rest \ {j},
                                              age |-> 0, left |-> left]]
      PROVE  /\ worker'[w] \in Busy /\ ClaimsOf(w)' = rest
             /\ worker'[w].left = left /\ worker'[w].step = "embedding"
             /\ worker'[w].job \notin worker'[w].rest
             /\ worker' \in [Workers -> Busy \union {Idle}]
             /\ \A v \in Workers \ {w} : worker'[v] = worker[v] /\ ClaimsOf(v)' = ClaimsOf(v)
  <2> DEFINE b == [step |-> "embedding", job |-> j, rest |-> rest \ {j}, age |-> 0, left |-> left]
  <2>1. b \in Busy
    BY TimesAssumption DEF Busy
  <2>2. worker'[w] = b /\ \A v \in Workers \ {w} : worker'[v] = worker[v]
    BY <1>2 DEF TypeOK
  <2>3. ClaimsOf(w)' = rest
    BY <2>1, <2>2, IdleIsNotBusy DEF ClaimsOf
  <2>4. worker' \in [Workers -> Busy \union {Idle}]
    BY <1>2, <2>1 DEF TypeOK
  <2> QED BY <2>1, <2>2, <2>3, <2>4 DEF ClaimsOf
<1> QED BY <1>1, <1>2, IdleIsNotBusy DEF GoOn, Busily

-----------------------------------------------------------------------------
(* The invariant.                                                          *)

LEMMA InitIInv == Init => IInv
<1> SUFFICES ASSUME Init PROVE IInv
  OBVIOUS
<1>1. TypeOK
  <2>1. [attempts |-> 1, due |-> 0, waited |-> 0] \in JobType
    BY TimesAssumption DEF JobType
  <2> QED BY <2>1, ForeignAssumption DEF Init, TypeOK, HookValues
<1>2. \A w \in Workers : worker[w] = Idle /\ worker[w].step = "idle" /\ ClaimsOf(w) = {}
  BY IdleIsNotBusy DEF Init, ClaimsOf
<1>3. JobInv /\ FailuresAreNotForgotten
  BY <1>2 DEF Init, JobInv, FailuresAreNotForgotten
<1> QED BY <1>1, <1>2, <1>3 DEF IInv, BatchInv, LeaseInv, Busily, OneWorkerPerJob, ClaimsStayTrue

LEMMA HookKeeps ==
  ASSUME IInv, NEW o \in Objects, HookStep(o)
  PROVE  IInv'
<1>1. CASE HookEnqueues(o)
  <2>1. [attempts |-> 1, due |-> Backoff[1], waited |-> 0] \in JobType
    BY TimesAssumption DEF JobType
  <2>2. TypeOK'
    BY <1>1, <2>1 DEF HookEnqueues, IInv, TypeOK, HookValues
  <2>3. jobs[o] = NoJob
    BY <1>1 DEF HookEnqueues, IInv, JobInv
  <2>4. jobs'[o] \in JobType /\ \A p \in Objects \ {o} : jobs'[p] = jobs[p] /\ hook'[p] = hook[p]
    BY <1>1, <2>1 DEF HookEnqueues, IInv, TypeOK
  <2>5. hook'[o] = "done" /\ UNCHANGED <<vectors, worker, late>>
    BY <1>1 DEF HookEnqueues, IInv, TypeOK
  <2>6. JobInv' /\ FailuresAreNotForgotten'
    BY <2>4, <2>5, NoJobIsNone DEF IInv, JobInv, FailuresAreNotForgotten
  <2>7. \A w \in Workers : ClaimsOf(w)' = ClaimsOf(w)
    BY <2>5 DEF ClaimsOf
  <2>8. ~ late => \A w \in Workers : \A c \in ClaimsOf(w) : c.obj \in Objects \ {o}
    <3>1. \A w \in Workers : \A c \in ClaimsOf(w) : c.obj \in Objects
      BY JobAndWorkerTypes DEF IInv, Claim
    <3> QED BY <2>3, <3>1 DEF IInv, ClaimsStayTrue
  <2>9. BatchInv' /\ LeaseInv' /\ OneWorkerPerJob' /\ ClaimsStayTrue'
    BY <2>4, <2>5, <2>7, <2>8 DEF IInv, BatchInv, LeaseInv, Busily, OneWorkerPerJob, ClaimsStayTrue
  <2> QED BY <2>2, <2>6, <2>9 DEF IInv
<1>2. ASSUME UNCHANGED <<jobs, worker, late>>, vectors \subseteq vectors', TypeOK', JobInv', FailuresAreNotForgotten'
      PROVE  IInv'
  BY <1>2 DEF IInv, BatchInv, LeaseInv, Busily, ClaimsOf, OneWorkerPerJob, ClaimsStayTrue
<1>3. CASE StartHook(o)
  BY <1>2, <1>3 DEF StartHook, IInv, TypeOK, HookValues, JobInv, FailuresAreNotForgotten
<1>4. CASE HookEmbeds(o)
  BY <1>2, <1>4 DEF HookEmbeds, IInv, TypeOK, HookValues, JobInv, FailuresAreNotForgotten
<1>5. CASE HookFails(o)
  BY <1>2, <1>5 DEF HookFails, IInv, TypeOK, HookValues, JobInv, FailuresAreNotForgotten
<1>6. CASE HookIsLost(o)
  BY <1>2, <1>6 DEF HookIsLost, IInv, TypeOK, HookValues, JobInv, FailuresAreNotForgotten
<1> QED BY <1>1, <1>3, <1>4, <1>5, <1>6 DEF HookStep

\* What a claim writes: the lease in the rows it takes, and only the count of the
\* waiting in those that a failing claim gives back.
LEMMA ClaimedRows ==
  ASSUME TypeOK, NEW leased \in SUBSET Due, NEW returned \in SUBSET Due, jobs' = Claimed(leased, returned)
  PROVE  /\ jobs' \in [Objects -> JobType \union {NoJob}]
         /\ \A o \in leased : /\ jobs[o] \in JobType /\ jobs'[o] \in JobType
                              /\ jobs'[o].due = Lease /\ jobs'[o].attempts = jobs[o].attempts
                              /\ jobs'[o].waited = 0
         /\ \A o \in returned \ leased : /\ jobs[o] \in JobType /\ jobs'[o] \in JobType
                                         /\ jobs'[o].due = jobs[o].due
                                         /\ jobs'[o].attempts = jobs[o].attempts
                                         /\ jobs'[o].waited = 0
         /\ \A o \in Objects \ (leased \union returned) : jobs'[o] = jobs[o]
         /\ \A o \in Objects : jobs'[o] # NoJob <=> jobs[o] # NoJob
<1>1. Lease \in Nat /\ Lease > 0 /\ 0 \in 0 .. MaxWait
  BY TimesAssumption
<1>2. \A o \in Due : o \in Objects /\ jobs[o] \in JobType
  BY JobAndWorkerTypes DEF Due
<1>3. \A o \in leased : /\ jobs'[o] \in JobType
                        /\ jobs'[o].due = Lease /\ jobs'[o].attempts = jobs[o].attempts
                        /\ jobs'[o].waited = 0
  <2> TAKE o \in leased
  <2>1. jobs[o] \in JobType /\ Lease \in Int
    BY <1>1, <1>2
  <2>2. jobs'[o] = [jobs[o] EXCEPT !.due = Lease, !.waited = 0]
    BY <1>2 DEF Claimed
  <2> QED BY <1>1, <2>1, <2>2 DEF JobType
<1>4. \A o \in returned \ leased : /\ jobs'[o] \in JobType
                                  /\ jobs'[o].due = jobs[o].due /\ jobs'[o].attempts = jobs[o].attempts
                                  /\ jobs'[o].waited = 0
  <2> TAKE o \in returned \ leased
  <2>1. jobs'[o] = [jobs[o] EXCEPT !.waited = 0]
    BY <1>2 DEF Claimed
  <2> QED BY <1>1, <1>2, <2>1 DEF JobType
<1>5. \A o \in Objects \ (leased \union returned) : jobs'[o] = jobs[o]
  BY DEF Claimed
<1>6. jobs' \in [Objects -> JobType \union {NoJob}]
  <2>1. \A o \in Objects : jobs'[o] \in JobType \union {NoJob}
    BY <1>3, <1>4, <1>5 DEF TypeOK
  <2>2. jobs' = [o \in Objects |-> jobs'[o]]
    BY DEF Claimed
  <2> QED BY <2>1, <2>2
<1> QED BY <1>2, <1>3, <1>4, <1>5, <1>6, NoJobIsNone

\* Nobody being late, no job that somebody has a claim on is due.
LEMMA ClaimedAreNotDue ==
  ASSUME IInv, ~ late, NEW v \in Workers, NEW c \in ClaimsOf(v)
  PROVE  c.obj \in Objects \ Due
<1>1. Busily(v) /\ c.obj \in Objects
  BY JobAndWorkerTypes DEF IInv, Claim, ClaimsOf, Busily
<1>2. worker[v] \in Busy /\ worker[v].left > 0
  BY <1>1 DEF IInv, TypeOK, LeaseInv, Busily
<1>3. jobs[c.obj] \in JobType /\ jobs[c.obj].due >= worker[v].left
  BY <1>1 DEF IInv, TypeOK, LeaseInv
<1> QED BY <1>1, <1>2, <1>3 DEF Busy, JobType, Due

\* A claim takes due jobs only, which nobody who is in time has a claim on.
LEMMA ClaimDueKeeps ==
  ASSUME IInv, NEW w \in Workers, NEW held \in SUBSET Due, ClaimBeside(w, held)
  PROVE  IInv'
<1>1. PICK batch \in SUBSET Due :
        /\ jobs' = Claimed(batch, held)
        /\ GoOn(w, ClaimsFor(batch), Lease)
  BY DEF ClaimBeside, OldestBatch
<1> DEFINE claims == ClaimsFor(batch)
<1>2. worker[w] = Idle /\ UNCHANGED <<vectors, hook, late>>
  BY DEF ClaimBeside
<1>3. Lease \in Nat /\ Lease > 0
  BY TimesAssumption
<1>4. \A o \in batch : /\ jobs[o] \in JobType /\ jobs'[o] \in JobType
                       /\ jobs'[o].due = Lease /\ jobs'[o].attempts = jobs[o].attempts
  BY <1>1, ClaimedRows DEF IInv
<1>5. \A o \in Objects \ Due : jobs'[o] = jobs[o]
  BY <1>1, ClaimedRows DEF IInv
<1>6. claims \in SUBSET Claim
  <2>1. \A o \in batch : o \in Objects /\ jobs[o] \in JobType
    BY <1>4 DEF Due
  <2> QED BY <2>1 DEF Claim, JobType, ClaimsFor
<1> HIDE DEF claims
<1>7. /\ worker' \in [Workers -> Busy \union {Idle}]
      /\ ClaimsOf(w)' = claims
      /\ Busily(w)' => /\ worker'[w].left = Lease /\ worker'[w].step = "embedding"
                       /\ worker'[w].job \notin worker'[w].rest
      /\ ~ Busily(w)' => worker'[w].step = "idle"
      /\ \A v \in Workers \ {w} : worker'[v] = worker[v] /\ ClaimsOf(v)' = ClaimsOf(v)
  <2>1. GoOn(w, claims, Lease)
    BY <1>1 DEF claims
  <2>2. Lease \in 0 .. Lease
    BY <1>3
  <2> QED BY <1>6, <2>1, <2>2, GoOnMoves DEF IInv
<1>8. \A c \in claims : c.obj \in batch /\ c.attempts = jobs[c.obj].attempts
  BY DEF claims, ClaimsFor
<1>9. TypeOK'
  <2>1. jobs' \in [Objects -> JobType \union {NoJob}]
    BY <1>1, ClaimedRows DEF IInv
  <2> QED BY <1>2, <1>7, <2>1 DEF IInv, TypeOK
<1>10. \A o \in Objects : jobs'[o] # NoJob <=> jobs[o] # NoJob
  BY <1>1, ClaimedRows DEF IInv
<1>11. JobInv' /\ FailuresAreNotForgotten'
  BY <1>2, <1>7, <1>10 DEF IInv, JobInv, FailuresAreNotForgotten
<1>12. BatchInv'
  <2>1. \A c, d \in claims : c.obj = d.obj => c = d
    BY DEF claims, ClaimsFor
  <2> QED BY <1>7, <2>1 DEF IInv, BatchInv, Busily
<1>13. ASSUME ~ late, NEW v \in Workers \ {w}, NEW c \in ClaimsOf(v)
       PROVE  c.obj \in Objects \ Due
  BY <1>13, ClaimedAreNotDue
<1>14. LeaseInv' /\ ClaimsStayTrue'
  <2> SUFFICES ASSUME ~ late, NEW v \in Workers, Busily(v)'
               PROVE  /\ worker'[v].left > 0
                      /\ \A c \in ClaimsOf(v)' :
                           /\ jobs'[c.obj] # NoJob /\ jobs'[c.obj].due >= worker'[v].left
                           /\ jobs'[c.obj].attempts = c.attempts
    BY <1>2 DEF LeaseInv, ClaimsStayTrue, Busily, ClaimsOf
  <2>1. CASE v = w
    BY <1>3, <1>4, <1>7, <1>8, <2>1, NoJobIsNone
  <2>2. CASE v # w
    BY <1>5, <1>7, <1>13, <2>2 DEF IInv, LeaseInv, ClaimsStayTrue, Busily
  <2> QED BY <2>1, <2>2
<1>15. OneWorkerPerJob'
  <2> SUFFICES ASSUME ~ late, NEW u \in Workers, NEW v \in Workers, u # v,
                      NEW c \in ClaimsOf(u)', NEW d \in ClaimsOf(v)', c.obj = d.obj
               PROVE  FALSE
    BY <1>2 DEF OneWorkerPerJob
  <2>1. CASE u = w
    BY <1>7, <1>8, <1>13, <2>1
  <2>2. CASE v = w
    BY <1>7, <1>8, <1>13, <2>2
  <2>3. CASE u # w /\ v # w
    BY <1>7, <2>3 DEF IInv, OneWorkerPerJob
  <2> QED BY <2>1, <2>2, <2>3
<1> QED BY <1>9, <1>11, <1>12, <1>14, <1>15 DEF IInv

\* A claim that fails changes no row that somebody in time has a claim on.
LEMMA ClaimFailsKeeps ==
  ASSUME IInv, NEW w \in Workers, ClaimFails(w)
  PROVE  IInv'
<1>1. PICK leased \in SUBSET Due, returned \in SUBSET Due : jobs' = Claimed(leased, returned)
  <2>1. PICK held \in SUBSET Due, batch \in SUBSET Due :
          jobs' \in {Claimed(batch, held), Claimed({}, batch \union held)}
    BY DEF ClaimFails, HeldByOthers, OldestBatch
  <2> QED BY <2>1
<1>2. UNCHANGED <<vectors, hook, worker, late>>
  BY DEF ClaimFails
<1>3. \A v \in Workers : ClaimsOf(v)' = ClaimsOf(v)
  BY <1>2 DEF ClaimsOf
<1>4. /\ jobs' \in [Objects -> JobType \union {NoJob}]
      /\ \A o \in Objects \ Due : jobs'[o] = jobs[o]
      /\ \A o \in Objects : jobs'[o] # NoJob <=> jobs[o] # NoJob
  BY <1>1, ClaimedRows DEF IInv
<1>5. TypeOK' /\ JobInv' /\ FailuresAreNotForgotten'
  BY <1>2, <1>4 DEF IInv, TypeOK, JobInv, FailuresAreNotForgotten
<1>6. BatchInv' /\ OneWorkerPerJob'
  BY <1>2, <1>3 DEF IInv, BatchInv, OneWorkerPerJob, Busily
<1>7. ~ late => \A v \in Workers : \A c \in ClaimsOf(v) : jobs'[c.obj] = jobs[c.obj]
  BY <1>4, ClaimedAreNotDue
<1>8. LeaseInv' /\ ClaimsStayTrue'
  BY <1>2, <1>3, <1>7 DEF IInv, LeaseInv, ClaimsStayTrue, Busily
<1> QED BY <1>5, <1>6, <1>8 DEF IInv

\* The end of one job, whatever becomes of its row: a row may go only with its
\* vector, and a row that has gone does not come back.
LEMMA JobEndKeeps ==
  ASSUME IInv, NEW w \in Workers, Busily(w), GoOn(w, worker[w].rest, worker[w].left),
         NEW row \in JobType \union {NoJob}, jobs' = [jobs EXCEPT ![worker[w].job.obj] = row],
         row = NoJob => jobs[worker[w].job.obj] = NoJob \/ worker[w].job.obj \in vectors,
         row # NoJob => jobs[worker[w].job.obj] # NoJob,
         UNCHANGED <<vectors, hook, late>>
  PROVE  IInv'
<1> DEFINE o == worker[w].job.obj
<1>1. worker[w] \in Busy /\ worker[w].rest \in SUBSET Claim /\ worker[w].left \in 0 .. Lease
      /\ worker[w].job \in Claim /\ o \in Objects
  BY JobAndWorkerTypes DEF IInv, Busily, Busy, Claim
<1>2. /\ worker' \in [Workers -> Busy \union {Idle}]
      /\ ClaimsOf(w)' = worker[w].rest
      /\ Busily(w)' => /\ worker'[w].left = worker[w].left /\ worker'[w].step = "embedding"
                       /\ worker'[w].job \notin worker'[w].rest
      /\ ~ Busily(w)' => worker'[w].step = "idle"
      /\ \A v \in Workers \ {w} : worker'[v] = worker[v] /\ ClaimsOf(v)' = ClaimsOf(v)
  BY <1>1, GoOnMoves DEF IInv
<1>3. jobs'[o] = row /\ \A p \in Objects \ {o} : jobs'[p] = jobs[p]
  BY <1>1 DEF IInv, TypeOK
<1>4. TypeOK'
  BY <1>2 DEF IInv, TypeOK
<1>5. JobInv' /\ FailuresAreNotForgotten'
  BY <1>2, <1>3 DEF IInv, JobInv, FailuresAreNotForgotten
<1>6. ClaimsOf(w) = worker[w].rest \union {worker[w].job} /\ worker[w].job \notin worker[w].rest
  BY DEF ClaimsOf, Busily, IInv, BatchInv
<1>7. BatchInv'
  BY <1>2, <1>6 DEF IInv, BatchInv, Busily
<1>8. \A c \in ClaimsOf(w)' : c \in ClaimsOf(w) /\ c.obj \in Objects \ {o}
  BY <1>1, <1>2, <1>6 DEF IInv, BatchInv, Claim
<1>9. ~ late => \A v \in Workers \ {w} : \A c \in ClaimsOf(v) : c.obj \in Objects \ {o}
  <2>1. \A v \in Workers : \A c \in ClaimsOf(v) : c.obj \in Objects
    BY JobAndWorkerTypes DEF IInv, Claim
  <2>2. worker[w].job \in ClaimsOf(w)
    BY <1>6
  <2> QED BY <2>1, <2>2 DEF IInv, OneWorkerPerJob
<1>10. ~ late => \A v \in Workers : \A c \in ClaimsOf(v)' :
                   c \in ClaimsOf(v) /\ c.obj \in Objects \ {o} /\ jobs'[c.obj] = jobs[c.obj]
  BY <1>2, <1>3, <1>8, <1>9
<1>11. \A v \in Workers : Busily(v)' => Busily(v) /\ worker'[v].left = worker[v].left
  BY <1>2 DEF Busily
<1>12. LeaseInv' /\ ClaimsStayTrue' /\ OneWorkerPerJob'
  <2>1. LeaseInv'
    BY <1>10, <1>11 DEF IInv, LeaseInv
  <2>2. ClaimsStayTrue'
    BY <1>10 DEF IInv, ClaimsStayTrue
  <2>3. OneWorkerPerJob'
    BY <1>10 DEF IInv, OneWorkerPerJob
  <2> QED BY <2>1, <2>2, <2>3
<1> QED BY <1>4, <1>5, <1>7, <1>12 DEF IInv

\* An attempt ends, and the job's row is still to be written.
LEMMA AttemptKeeps ==
  ASSUME IInv, NEW w \in Workers, NEW step \in {"embedded", "failed"}, Embedding(w),
         worker' = [worker EXCEPT ![w].step = step],
         vectors' \in {vectors, vectors \union {worker[w].job.obj}},
         step = "embedded" => worker[w].job.obj \in vectors', UNCHANGED <<jobs, hook, late>>
  PROVE  IInv'
<1>1. worker[w] \in Busy /\ worker[w].job.obj \in Objects
  BY JobAndWorkerTypes DEF Embedding, IInv, Busy, Claim
<1>2. worker'[w] = [worker[w] EXCEPT !.step = step]
  BY DEF IInv, TypeOK
<1>3. /\ worker'[w] \in Busy /\ worker'[w].step = step
      /\ worker'[w].job = worker[w].job /\ worker'[w].rest = worker[w].rest /\ worker'[w].left = worker[w].left
  BY <1>1, <1>2 DEF Busy
<1>4. \A v \in Workers \ {w} : worker'[v] = worker[v]
  BY DEF IInv, TypeOK
<1>5. TypeOK'
  <2>1. worker' \in [Workers -> Busy \union {Idle}]
    BY <1>2, <1>3, <1>4 DEF IInv, TypeOK
  <2> QED BY <1>1, <2>1 DEF IInv, TypeOK
<1>6. JobInv' /\ FailuresAreNotForgotten'
  BY <1>3, <1>4 DEF IInv, JobInv, FailuresAreNotForgotten
<1>7. \A v \in Workers : /\ ClaimsOf(v)' = ClaimsOf(v) /\ (Busily(v)' <=> Busily(v))
                         /\ Busily(v) => /\ worker'[v].left = worker[v].left
                                         /\ worker'[v].job = worker[v].job /\ worker'[v].rest = worker[v].rest
  BY <1>1, <1>3, <1>4, IdleIsNotBusy DEF ClaimsOf, Busily
<1>8. BatchInv' /\ LeaseInv'
  BY <1>7 DEF IInv, BatchInv, LeaseInv
<1>9. OneWorkerPerJob' /\ ClaimsStayTrue'
  BY <1>7 DEF IInv, OneWorkerPerJob, ClaimsStayTrue
<1> QED BY <1>5, <1>6, <1>8, <1>9 DEF IInv

LEMMA StopKeeps ==
  ASSUME IInv, NEW w \in Workers, Stop(w)
  PROVE  IInv'
<1>1. worker'[w] = Idle /\ \A v \in Workers \ {w} : worker'[v] = worker[v]
  BY DEF Stop, IInv, TypeOK
<1>2. UNCHANGED <<jobs, vectors, hook, late>>
  BY DEF Stop
<1>3. TypeOK'
  BY DEF Stop, IInv, TypeOK
<1>4. JobInv' /\ FailuresAreNotForgotten'
  BY <1>1, <1>2, IdleIsNotBusy DEF IInv, JobInv, FailuresAreNotForgotten
<1>5. ClaimsOf(w)' = {} /\ \A v \in Workers \ {w} : ClaimsOf(v)' = ClaimsOf(v)
  BY <1>1 DEF ClaimsOf
<1>6. BatchInv' /\ LeaseInv'
  BY <1>1, <1>2, <1>5 DEF IInv, BatchInv, LeaseInv, Busily
<1>7. OneWorkerPerJob' /\ ClaimsStayTrue'
  BY <1>2, <1>5 DEF IInv, OneWorkerPerJob, ClaimsStayTrue
<1> QED BY <1>3, <1>4, <1>6, <1>7 DEF IInv

LEMMA NewerDuesAreFinite ==
  ASSUME NEW o
  PROVE  IsFiniteSet(NewerDues(o)) /\ Cardinality(NewerDues(o)) \in Nat
<1> DEFINE newer == {q \in Objects : jobs[q] # NoJob /\ jobs[o].due < jobs[q].due /\ jobs[q].due <= 1}
           fell == [p \in newer |-> jobs[p].due]
<1>1. IsFiniteSet(newer)
  BY WaitAssumption, FS_Subset
<1>2. fell \in Surjection(newer, NewerDues(o))
  BY DEF Surjection, NewerDues
<1>3. IsFiniteSet(NewerDues(o))
  BY <1>1, <1>2, FS_Surjection
<1> QED BY <1>3, FS_CardinalityType

\* What a tick does to one job.
LEMMA TickedRow ==
  ASSUME TypeOK, Tick, NEW o \in Objects, jobs[o] # NoJob
  PROVE  /\ jobs[o] \in JobType /\ jobs'[o] \in JobType /\ jobs'[o].attempts = jobs[o].attempts
         /\ jobs'[o].due = IF jobs[o].due > 0 THEN jobs[o].due - 1 ELSE -Cardinality(NewerDues(o))
         /\ jobs'[o].waited = IF o \in Due /\ AtWork /\ jobs[o].waited < MaxWait
                              THEN jobs[o].waited + 1 ELSE jobs[o].waited
<1>1. jobs[o] \in JobType /\ MaxWait \in Nat
  BY JobAndWorkerTypes, TimesAssumption
<1> DEFINE due == IF jobs[o].due > 0 THEN jobs[o].due - 1 ELSE -Cardinality(NewerDues(o))
           waited == IF o \in Due /\ AtWork /\ jobs[o].waited < MaxWait THEN jobs[o].waited + 1 ELSE jobs[o].waited
<1>2. jobs'[o] = [jobs[o] EXCEPT !.due = due, !.waited = waited]
  BY DEF Tick
<1>3. due \in Int
  BY <1>1, NewerDuesAreFinite DEF JobType
<1>4. waited \in 0 .. MaxWait
  BY <1>1 DEF JobType
<1> HIDE DEF due, waited
<1>5. /\ jobs'[o] \in JobType /\ jobs'[o].attempts = jobs[o].attempts
      /\ jobs'[o].due = due /\ jobs'[o].waited = waited
  BY <1>1, <1>2, <1>3, <1>4 DEF JobType
<1> QED BY <1>1, <1>5 DEF due, waited

\* A tick takes as much from a claimed job's due time as from its lease.
LEMMA TickKeeps ==
  ASSUME IInv, Tick
  PROVE  IInv'
<1>1. \A o \in Objects : /\ jobs'[o] # NoJob <=> jobs[o] # NoJob
                         /\ jobs[o] # NoJob =>
                              /\ jobs'[o] \in JobType /\ jobs'[o].attempts = jobs[o].attempts
                              /\ jobs[o].due > 0 => jobs'[o].due = jobs[o].due - 1
  <2> SUFFICES ASSUME NEW o \in Objects
               PROVE  /\ jobs'[o] # NoJob <=> jobs[o] # NoJob
                      /\ jobs[o] # NoJob =>
                           /\ jobs'[o] \in JobType /\ jobs'[o].attempts = jobs[o].attempts
                           /\ jobs[o].due > 0 => jobs'[o].due = jobs[o].due - 1
    OBVIOUS
  <2>1. CASE jobs[o] = NoJob
    BY <2>1 DEF Tick
  <2>2. CASE jobs[o] # NoJob
    BY <2>2, TickedRow, NoJobIsNone DEF IInv
  <2> QED BY <2>1, <2>2
<1>2. \A w \in Workers :
        /\ Busily(w)' <=> Busily(w)
        /\ Busily(w) => /\ worker'[w] \in Busy /\ worker'[w].step = worker[w].step
                        /\ worker'[w].job = worker[w].job /\ worker'[w].rest = worker[w].rest
                        /\ worker[w].left > 0 => worker'[w].left = worker[w].left - 1
                        /\ worker[w].left = 0 => worker'[w].left = 0
  <2> SUFFICES ASSUME NEW w \in Workers, Busily(w)
               PROVE  /\ Busily(w)'
                      /\ worker'[w] \in Busy /\ worker'[w].step = worker[w].step
                      /\ worker'[w].job = worker[w].job /\ worker'[w].rest = worker[w].rest
                      /\ worker[w].left > 0 => worker'[w].left = worker[w].left - 1
                      /\ worker[w].left = 0 => worker'[w].left = 0
    BY DEF Tick, Busily
  <2>1. worker'[w] = [worker[w] EXCEPT !.age = @ + 1, !.left = IF @ = 0 THEN 0 ELSE @ - 1]
    BY DEF Tick, Busily
  <2>2. worker[w] \in Busy /\ worker[w].age < JobTime
    BY JobAndWorkerTypes DEF Tick, Busily, IInv
  <2>3. JobTime \in Nat /\ Lease \in Nat
    BY TimesAssumption
  <2>4. worker[w].age + 1 \in 0 .. JobTime /\ (IF worker[w].left = 0 THEN 0 ELSE worker[w].left - 1) \in 0 .. Lease
    BY <2>2, <2>3 DEF Busy
  <2>5. worker'[w] \in Busy
    BY <2>1, <2>2, <2>4 DEF Busy
  <2>6. /\ worker'[w].step = worker[w].step /\ worker'[w].job = worker[w].job
        /\ worker'[w].rest = worker[w].rest
        /\ worker'[w].left = IF worker[w].left = 0 THEN 0 ELSE worker[w].left - 1
    BY <2>1, <2>2 DEF Busy
  <2>7. Busily(w)'
    BY <2>5, IdleIsNotBusy DEF Busily
  <2>8. worker[w].left > 0 => worker[w].left # 0
    BY <2>2 DEF Busy
  <2> QED BY <2>5, <2>6, <2>7, <2>8
<1>3. UNCHANGED <<vectors, hook>>
  BY DEF Tick
<1>4. late' = (late \/ \E w \in Workers : Busily(w)' /\ worker'[w].left = 0)
  BY DEF Tick, Busily
<1>5. TypeOK'
  <2>1. jobs' \in [Objects -> JobType \union {NoJob}]
    BY <1>1 DEF Tick
  <2>2. worker' \in [Workers -> Busy \union {Idle}]
    BY <1>2 DEF Tick, Busily
  <2> QED BY <1>3, <1>4, <2>1, <2>2 DEF IInv, TypeOK
<1>6. JobInv' /\ FailuresAreNotForgotten'
  <2>1. \A w \in Workers : worker'[w].step = "embedded" => worker[w].step = "embedded" /\ worker'[w].job = worker[w].job
    BY <1>2, IdleIsNotBusy DEF Busily
  <2> QED BY <1>1, <1>3, <2>1 DEF IInv, JobInv, FailuresAreNotForgotten
<1>7. \A w \in Workers : ClaimsOf(w)' = ClaimsOf(w)
  BY <1>2 DEF ClaimsOf, Busily
<1>8. BatchInv'
  BY <1>2, <1>7 DEF IInv, BatchInv
<1>9. OneWorkerPerJob'
  BY <1>4, <1>7 DEF IInv, OneWorkerPerJob
<1>10. LeaseInv' /\ ClaimsStayTrue'
  <2> SUFFICES ASSUME ~ late', NEW w \in Workers, Busily(w)'
               PROVE  /\ worker'[w].left > 0
                      /\ \A c \in ClaimsOf(w) :
                           /\ jobs'[c.obj] # NoJob /\ jobs'[c.obj].due >= worker'[w].left
                           /\ jobs'[c.obj].attempts = c.attempts
    BY <1>7 DEF LeaseInv, ClaimsStayTrue, Busily, ClaimsOf
  <2>1. ~ late /\ Busily(w) /\ worker'[w].left # 0
    BY <1>2, <1>4
  <2>2. worker[w].left \in Nat /\ worker[w].left > 0 /\ worker'[w].left = worker[w].left - 1
    <3>1. worker[w] \in Busy /\ Lease \in Nat
      BY <2>1, JobAndWorkerTypes, TimesAssumption DEF IInv, Busily
    <3>2. worker[w].left \in Nat /\ worker[w].left > 0
      BY <2>1, <3>1 DEF Busy, IInv, LeaseInv
    <3> QED BY <1>2, <2>1, <3>2
  <2>3. ASSUME NEW c \in ClaimsOf(w)
        PROVE  /\ jobs'[c.obj] # NoJob /\ jobs'[c.obj].due >= worker'[w].left
               /\ jobs'[c.obj].attempts = c.attempts
    <3>1. c.obj \in Objects
      BY JobAndWorkerTypes DEF IInv, Claim
    <3>2. jobs[c.obj] # NoJob /\ jobs[c.obj].due >= worker[w].left /\ jobs[c.obj].attempts = c.attempts
      BY <2>1 DEF IInv, LeaseInv, ClaimsStayTrue
    <3>3. jobs[c.obj] \in JobType
      BY <3>1, <3>2, JobAndWorkerTypes DEF IInv
    <3>4. jobs[c.obj].due \in Int /\ jobs[c.obj].due > 0
      BY <2>2, <3>2, <3>3 DEF JobType
    <3> QED BY <1>1, <2>2, <3>1, <3>2, <3>4
  <2> QED BY <2>1, <2>2, <2>3
<1> QED BY <1>5, <1>6, <1>8, <1>9, <1>10 DEF IInv

\* The row MarkFailed writes.
LEMMA NextRowType ==
  ASSUME TypeOK, NEW w \in Workers, worker[w] \in Busy
  PROVE  [attempts |-> NextAttempts(w), due |-> Backoff[NextAttempts(w)], waited |-> 0] \in JobType
<1>1. MaxAttempts \in Nat \ {0} /\ worker[w].job.attempts \in 1 .. MaxAttempts
  BY TimesAssumption DEF Busy, Claim
<1>2. NextAttempts(w) \in 1 .. MaxAttempts
  BY <1>1 DEF NextAttempts
<1>3. Backoff[NextAttempts(w)] \in Int /\ 0 \in 0 .. MaxWait
  BY <1>2, TimesAssumption
<1> QED BY <1>2, <1>3 DEF JobType

LEMMA ProcessOneKeeps ==
  ASSUME IInv, NEW w \in Workers, ProcessOne(w)
  PROVE  IInv'
<1> DEFINE o == worker[w].job.obj
<1>1. worker[w] \in Busy /\ Busily(w) /\ o \in Objects
  <2>1. worker[w].step # "idle"
    BY DEF ProcessOne, Skip, Embed, EmbedFails, Embedding, Delete, MarkFailed, WriteFails
  <2> QED BY <2>1, JobAndWorkerTypes, IdleIsNotBusy DEF IInv, Busily, Busy, Claim
<1>2. jobs = [jobs EXCEPT ![o] = jobs[o]] /\ jobs[o] \in JobType \union {NoJob}
  BY <1>1 DEF IInv, TypeOK
<1>3. CASE Skip(w) \/ WriteFails(w)
  BY <1>1, <1>2, <1>3, JobEndKeeps DEF Skip, WriteFails, IInv, FailuresAreNotForgotten
<1>4. CASE Embed(w)
  BY <1>4, AttemptKeeps DEF Embed
<1>5. CASE EmbedFails(w)
  BY <1>5, AttemptKeeps DEF EmbedFails
<1>6. CASE Delete(w)
  BY <1>1, <1>6, JobEndKeeps DEF Delete, IInv, JobInv
<1>7. CASE MarkFailed(w)
  <2> DEFINE next == [attempts |-> NextAttempts(w), due |-> Backoff[NextAttempts(w)], waited |-> 0]
  <2>1. next \in JobType /\ next # NoJob
    BY <1>1, NextRowType, NoJobIsNone DEF IInv
  <2>2. jobs' = [jobs EXCEPT ![o] = IF jobs[o] = NoJob THEN NoJob ELSE next]
    BY <1>7 DEF MarkFailed
  <2>3. GoOn(w, worker[w].rest, worker[w].left) /\ UNCHANGED <<vectors, hook, late>>
    BY <1>7 DEF MarkFailed
  <2> HIDE DEF next
  <2>4. CASE jobs[o] = NoJob
    BY <1>1, <2>2, <2>3, <2>4, JobEndKeeps
  <2>5. CASE jobs[o] # NoJob
    BY <1>1, <2>1, <2>2, <2>3, <2>5, JobEndKeeps
  <2> QED BY <2>4, <2>5
<1> QED BY <1>3, <1>4, <1>5, <1>6, <1>7 DEF ProcessOne

LEMMA StepKeeps == IInv /\ [Next]_vars => IInv'
<1> SUFFICES ASSUME IInv, [Next]_vars PROVE IInv'
  OBVIOUS
<1>1. CASE UNCHANGED vars
  <2>1. \A w \in Workers : ClaimsOf(w)' = ClaimsOf(w)
    BY <1>1 DEF vars, ClaimsOf
  <2>2. TypeOK' /\ JobInv' /\ FailuresAreNotForgotten'
    BY <1>1 DEF vars, IInv, TypeOK, JobInv, FailuresAreNotForgotten
  <2>3. BatchInv' /\ LeaseInv'
    BY <1>1, <2>1 DEF vars, IInv, BatchInv, LeaseInv, Busily
  <2>4. OneWorkerPerJob' /\ ClaimsStayTrue'
    BY <1>1, <2>1 DEF vars, IInv, OneWorkerPerJob, ClaimsStayTrue
  <2> QED BY <2>2, <2>3, <2>4 DEF IInv
<1>2. ASSUME NEW w \in Workers, ClaimDue(w) PROVE IInv'
  BY <1>2, ClaimDueKeeps DEF ClaimDue, HeldByOthers
<1> QED BY <1>1, <1>2, HookKeeps, ClaimFailsKeeps, ProcessOneKeeps, StopKeeps, TickKeeps DEF Next

\* At every moment a job is there because its hook has failed, no two workers
\* hold the same job, and, nobody being late, each claim is within its lease.
THEOREM IInvHolds == Spec => []IInv
<1> QED BY InitIInv, StepKeeps, PTL DEF Spec

-----------------------------------------------------------------------------
(* What follows.                                                           *)

\* FailuresAreNotForgotten: however many workers there are, and whatever leases
\* expire and writes fail, an object whose hook did its part has a vector or a
\* job (DeleteJob follows the upsert, MarkFailed only updates).
THEOREM FailuresStayOnRecord == Spec => []FailuresAreNotForgotten
<1>1. IInv => FailuresAreNotForgotten
  BY DEF IInv
<1> QED BY <1>1, IInvHolds, PTL

\* OneWorkerPerJob: with any number of replicas, and any lease, batch and
\* backoff, the lease excludes everybody else until a worker has outstayed it
\* (ClaimDue pushes next_retry_at forward in the claiming statement).
THEOREM LeasesExclude == Spec => []OneWorkerPerJob
<1>1. IInv => OneWorkerPerJob
  BY DEF IInv
<1> QED BY <1>1, IInvHolds, PTL

\* ClaimsStayTrue: nobody being late, a worker's copy of the job is what the row
\* says, so that recordFailure counts on from the last recorded failure.
THEOREM ClaimsAreCurrent == Spec => []ClaimsStayTrue
<1>1. IInv => ClaimsStayTrue
  BY DEF IInv
<1> QED BY <1>1, IInvHolds, PTL

\* CompletedJobsStayGone: no step brings a deleted job back, not even the late
\* failure of a worker that has lost its claim (MarkFailed is an UPDATE).
THEOREM CompletedJobsStay == Spec => CompletedJobsStayGone
<1>1. ASSUME IInv, [Next]_vars, NEW o \in Objects, jobs[o] = NoJob, hook[o] = "done"
      PROVE  jobs'[o] = NoJob
  <2>1. CASE UNCHANGED vars
    BY <1>1, <2>1 DEF vars
  <2>2. ASSUME NEW p \in Objects, HookStep(p) PROVE jobs'[o] = NoJob
    BY <1>1, <2>2 DEF HookStep, StartHook, HookEmbeds, HookFails, HookEnqueues, HookIsLost, IInv, TypeOK
  <2>3. ASSUME NEW w \in Workers, ClaimDue(w) \/ ClaimFails(w) PROVE jobs'[o] = NoJob
    BY <1>1, <2>3 DEF ClaimDue, ClaimBeside, ClaimFails, HeldByOthers, OldestBatch, Claimed, Due
  <2>4. ASSUME NEW w \in Workers, ProcessOne(w) \/ Stop(w) PROVE jobs'[o] = NoJob
    BY <1>1, <2>4 DEF ProcessOne, Skip, Embed, EmbedFails, Delete, MarkFailed, WriteFails, Stop, IInv, TypeOK
  <2>5. CASE Tick
    BY <1>1, <2>5 DEF Tick
  <2> QED BY <1>1, <2>1, <2>2, <2>3, <2>4, <2>5 DEF Next
<1>2. IInv /\ [Next]_vars => [\A o \in Objects : (jobs[o] = NoJob /\ hook[o] = "done") => jobs'[o] = NoJob]_vars
  BY <1>1
<1> QED BY <1>2, IInvHolds, PTL DEF Spec, CompletedJobsStayGone

-----------------------------------------------------------------------------
(* How long a due job waits.  What it may still have to wait for is the    *)
(* work under way, the jobs that were due before it and, when a worker has *)
(* outstayed its lease on it, one more batch: a claim passes over a row    *)
(* that worker is writing.                                                 *)

\* Ticks w may spend before it is through with its batch.
Remaining(w) ==
  IF worker[w] = Idle THEN 0
  ELSE JobTime * Cardinality(worker[w].rest) + (JobTime - worker[w].age)

Holds(w, o) == \E c \in ClaimsOf(w) : c.obj = o

\* The other jobs that a claim may take before o's.
Before(o) == {p \in Objects \ {o} : jobs[p] # NoJob /\ jobs[p].due <= jobs[o].due}

\* What o has waited, and has to wait for the jobs before it.
Load(o) == JobTime * Cardinality(Before(o)) + jobs[o].waited

\* A batch is never longer than the limit.
SizeInv == \A w \in Workers : Busily(w) =>
  IsFiniteSet(worker[w].rest) /\ Cardinality(worker[w].rest) < BatchLimit

\* The count of the waiting starts when the job falls due.
FreshInv == \A o \in Objects : jobs[o] # NoJob /\ jobs[o].due > 0 => jobs[o].waited = 0

LateInv == \A o \in Due :
  /\ Load(o) <= LongestWait
  /\ (\A w \in Workers : ~ Holds(w, o)) => \A w \in Workers : Load(o) + Remaining(w) <= LongestWait
  /\ \A w \in Workers : Holds(w, o) => Load(o) + Remaining(w) + JobTime * BatchLimit <= LongestWait

\* Multiplication as far as it is needed.
LEMMA Products ==
  ASSUME NEW j \in Nat, NEW m \in Nat, NEW n \in Nat
  PROVE  /\ j * m \in Nat
         /\ m <= n => j * m <= j * n
         /\ j * (m + n) = j * m + j * n
         /\ j * (n + 1) = j * n + j
<1>1. j * m \in Nat /\ j * n \in Nat /\ j * (m + n) = j * m + j * n /\ j * (n + 1) = j * n + j
  OBVIOUS
<1>2. ASSUME m <= n PROVE j * m <= j * n
  <2>1. PICK d \in Nat : n = m + d
    BY <1>2
  <2>2. j * n = j * m + j * d /\ j * d \in Nat
    BY <2>1
  <2> QED BY <1>1, <2>2
<1> QED BY <1>1, <1>2

LEMMA WorkBounds ==
  ASSUME TypeOK, SizeInv, NEW w \in Workers
  PROVE  /\ Remaining(w) \in Nat
         /\ Remaining(w) <= JobTime * BatchLimit
         /\ Busily(w) /\ worker[w].age < JobTime => Remaining(w) > 0
<1>1. BatchLimit \in Nat /\ JobTime \in Nat /\ JobTime * BatchLimit \in Nat
  BY TimesAssumption
<1>2. CASE worker[w] = Idle
  BY <1>1, <1>2 DEF Remaining, Busily
<1>3. CASE worker[w] # Idle
  <2> DEFINE n == Cardinality(worker[w].rest)
  <2>1. n \in Nat /\ n + 1 <= BatchLimit
    BY <1>1, <1>3, FS_CardinalityType DEF SizeInv, Busily
  <2>2. worker[w].age \in Nat /\ worker[w].age <= JobTime
    BY <1>1, <1>3, JobAndWorkerTypes DEF Busy
  <2>3. JobTime * n \in Nat /\ JobTime * (n + 1) = JobTime * n + JobTime
        /\ JobTime * (n + 1) <= JobTime * BatchLimit
    BY <1>1, <2>1, Products
  <2>4. Remaining(w) = JobTime * n + (JobTime - worker[w].age)
    BY <1>3 DEF Remaining
  <2> HIDE DEF n
  <2> QED BY <1>1, <2>1, <2>2, <2>3, <2>4
<1> QED BY <1>2, <1>3

LEMMA WorkIsCounted == (TypeOK /\ SizeInv)' => (\A w \in Workers : Remaining(w) \in Nat)'
<1>1. TypeOK /\ SizeInv => \A w \in Workers : Remaining(w) \in Nat
  BY WorkBounds
<1> QED BY <1>1, PTL

LEMMA QueueBounds ==
  ASSUME NEW o \in Objects
  PROVE  /\ IsFiniteSet(Before(o)) /\ Cardinality(Before(o)) \in Nat
         /\ Cardinality(Objects) \in Nat
         /\ Cardinality(Before(o)) <= Cardinality(Objects) - 1
<1>1. IsFiniteSet(Objects \ {o}) /\ Cardinality(Objects \ {o}) = Cardinality(Objects) - 1
  BY WaitAssumption, FS_RemoveElement
<1>2. Before(o) \in SUBSET (Objects \ {o})
  BY DEF Before
<1> QED BY <1>1, <1>2, WaitAssumption, FS_Subset, FS_CardinalityType

LEMMA LongestWaitIs ==
  ASSUME NEW o \in Objects
  PROVE  /\ JobTime * BatchLimit \in Nat /\ JobTime * (Cardinality(Objects) - 1) \in Nat
         /\ LongestWait = JobTime * BatchLimit + JobTime * BatchLimit + JobTime * (Cardinality(Objects) - 1)
<1>1. BatchLimit \in Nat /\ JobTime \in Nat
  BY TimesAssumption
<1>2. Cardinality(Objects) - 1 \in Nat
  BY QueueBounds
<1> DEFINE m == Cardinality(Objects) - 1
<1>3. LongestWait = JobTime * ((BatchLimit + BatchLimit) + m)
  BY <1>1, <1>2 DEF LongestWait
<1> HIDE DEF m
<1>4. m \in Nat
  BY <1>2 DEF m
<1>5. LongestWait = JobTime * BatchLimit + JobTime * BatchLimit + JobTime * m
  BY <1>1, <1>3, <1>4, Products
<1> QED BY <1>1, <1>4, <1>5, Products DEF m

\* What worker w is left with when it takes the next job of a batch.
LEMMA GoOnShortens ==
  ASSUME TypeOK, NEW w \in Workers, NEW rest \in SUBSET Claim, NEW left \in 0 .. Lease,
         GoOn(w, rest, left), IsFiniteSet(rest)
  PROVE  /\ Busily(w)' => /\ IsFiniteSet(worker'[w].rest)
                          /\ Cardinality(worker'[w].rest) = Cardinality(rest) - 1
         /\ Remaining(w)' = JobTime * Cardinality(rest)
<1>1. JobTime \in Nat /\ Cardinality(rest) \in Nat
  BY TimesAssumption, FS_CardinalityType
<1>2. CASE rest = {} /\ worker' = [worker EXCEPT ![w] = Idle]
  <2>1. worker'[w] = Idle /\ Cardinality(rest) = 0
    BY <1>2, FS_EmptySet DEF TypeOK
  <2> QED BY <1>1, <2>1 DEF Busily, Remaining
<1>3. ASSUME NEW j \in rest,
             worker' = [worker EXCEPT ![w] = [step |-> "embedding", job |-> j, rest |-> rest \ {j},
                                              age |-> 0, left |-> left]]
      PROVE  /\ IsFiniteSet(worker'[w].rest)
             /\ Cardinality(worker'[w].rest) = Cardinality(rest) - 1
             /\ Remaining(w)' = JobTime * Cardinality(rest)
  <2>1. worker'[w].rest = rest \ {j} /\ worker'[w].age = 0 /\ worker'[w].step = "embedding"
    BY <1>3 DEF TypeOK
  <2>2. IsFiniteSet(rest \ {j}) /\ Cardinality(rest \ {j}) = Cardinality(rest) - 1
        /\ Cardinality(rest \ {j}) \in Nat
    BY FS_RemoveElement, FS_CardinalityType
  <2>3. worker'[w] # Idle
    BY <2>1, IdleIsNotBusy
  <2>4. Remaining(w)' = JobTime * (Cardinality(rest) - 1) + (JobTime - 0)
    BY <2>1, <2>2, <2>3 DEF Remaining
  <2> DEFINE n == Cardinality(rest) - 1
  <2>5. n \in Nat /\ Cardinality(rest) = n + 1
    BY <1>1, <2>2
  <2> HIDE DEF n
  <2>6. JobTime * Cardinality(rest) = JobTime * n + JobTime /\ JobTime * n \in Nat
    BY <1>1, <2>5, Products
  <2>7. JobTime - 0 = JobTime
    BY <1>1
  <2> QED BY <1>1, <2>1, <2>2, <2>4, <2>6, <2>7 DEF n
<1> QED BY <1>2, <1>3 DEF GoOn

\* Steps other than a successful claim and a tick only shorten the wait: no job
\* falls due, and no worker gets anything more to do.
LEMMA ShorterWait ==
  ASSUME IInv, SizeInv, LateInv, TypeOK', SizeInv',
         \A p \in Objects : \/ jobs'[p] = jobs[p] \/ jobs'[p] = NoJob
                            \/ jobs'[p] \in JobType /\ jobs'[p].due > 0
                            \/ /\ jobs[p] \in JobType /\ jobs'[p].due = jobs[p].due
                               /\ jobs'[p].waited = 0,
         \A v \in Workers : /\ Remaining(v)' <= Remaining(v)
                            /\ \A o \in Objects : Holds(v, o)' => Holds(v, o)
  PROVE  LateInv'
<1> SUFFICES ASSUME NEW o \in Due'
             PROVE  /\ Load(o)' <= LongestWait
                    /\ (\A w \in Workers : ~ Holds(w, o)') =>
                          \A w \in Workers : Load(o)' + Remaining(w)' <= LongestWait
                    /\ \A w \in Workers : Holds(w, o)' =>
                          Load(o)' + Remaining(w)' + JobTime * BatchLimit <= LongestWait
  BY DEF LateInv, LongestWait
<1>1. /\ o \in Objects /\ jobs[o] \in JobType /\ jobs[o].due <= 0 /\ jobs'[o].due = jobs[o].due
      /\ jobs'[o].waited \in Nat /\ jobs'[o].waited <= jobs[o].waited /\ jobs[o].waited \in Nat
  <2>1. o \in Objects /\ jobs'[o] # NoJob /\ jobs'[o].due <= 0
    BY DEF Due
  <2>2. CASE jobs'[o] = jobs[o]
    <3>1. jobs[o] \in JobType
      BY <2>1, <2>2, JobAndWorkerTypes DEF IInv
    <3>2. jobs[o].waited \in Nat
      BY <3>1 DEF JobType
    <3> QED BY <2>1, <2>2, <3>1, <3>2
  <2>3. CASE jobs[o] \in JobType /\ jobs'[o].due = jobs[o].due /\ jobs'[o].waited = 0
    BY <2>1, <2>3 DEF JobType
  <2> QED BY <2>1, <2>2, <2>3 DEF JobType
<1>2. o \in Due
  BY <1>1, NoJobIsNone DEF Due
<1>3. Before(o)' \in SUBSET Before(o)
  <2> SUFFICES ASSUME NEW p \in Objects \ {o}, jobs'[p] # NoJob, jobs'[p].due <= jobs'[o].due
               PROVE  jobs[p] # NoJob /\ jobs[p].due <= jobs[o].due
    BY <1>1 DEF Before
  <2> QED BY <1>1, NoJobIsNone DEF JobType
<1>4. Load(o) \in Int /\ Load(o)' \in Int /\ Load(o)' <= Load(o)
  <2> DEFINE m == Cardinality(Before(o)')
             n == Cardinality(Before(o))
  <2>1. n \in Nat /\ m \in Nat /\ m <= n
    BY <1>1, <1>3, QueueBounds, FS_Subset, FS_CardinalityType
  <2>2. JobTime \in Nat
    BY TimesAssumption
  <2>3. Load(o) = JobTime * n + jobs[o].waited /\ Load(o)' = JobTime * m + jobs'[o].waited
    BY DEF Load
  <2> HIDE DEF m, n
  <2>4. JobTime * m \in Nat /\ JobTime * n \in Nat /\ JobTime * m <= JobTime * n
    BY <2>1, <2>2, Products
  <2> QED BY <1>1, <2>3, <2>4
<1>5. \A v \in Workers : /\ Remaining(v) \in Nat /\ Remaining(v)' \in Nat
                         /\ Remaining(v)' <= JobTime * BatchLimit
                         /\ Remaining(v)' <= Remaining(v)
  <2> TAKE v \in Workers
  <2>1. Remaining(v) \in Nat /\ Remaining(v) <= JobTime * BatchLimit
    BY WorkBounds DEF IInv
  <2>2. Remaining(v)' \in Nat
    BY WorkIsCounted
  <2>3. JobTime * BatchLimit \in Nat
    BY <1>1, LongestWaitIs
  <2> QED BY <2>1, <2>2, <2>3
<1>6. LongestWait \in Int /\ JobTime * BatchLimit \in Nat
  BY <1>1, LongestWaitIs
<1>7. Load(o)' <= LongestWait
  BY <1>2, <1>4, <1>6 DEF LateInv
<1>8. ASSUME NEW w \in Workers, \A v \in Workers : ~ Holds(v, o)'
      PROVE  Load(o)' + Remaining(w)' <= LongestWait
  <2>1. CASE \A v \in Workers : ~ Holds(v, o)
    <3>1. Load(o) + Remaining(w) <= LongestWait
      BY <1>2, <2>1 DEF LateInv
    <3> QED BY <1>4, <1>5, <1>6, <3>1
  <2>2. ASSUME NEW v \in Workers, Holds(v, o) PROVE Load(o)' + Remaining(w)' <= LongestWait
    <3>1. Load(o) + Remaining(v) + JobTime * BatchLimit <= LongestWait
      BY <1>2, <2>2 DEF LateInv
    <3> QED BY <1>4, <1>5, <1>6, <3>1
  <2> QED BY <2>1, <2>2
<1>9. ASSUME NEW w \in Workers, Holds(w, o)'
      PROVE  Load(o)' + Remaining(w)' + JobTime * BatchLimit <= LongestWait
  <2>1. Load(o) + Remaining(w) + JobTime * BatchLimit <= LongestWait
    BY <1>1, <1>2, <1>9 DEF LateInv
  <2> QED BY <1>4, <1>5, <1>6, <2>1
<1> QED BY <1>7, <1>8, <1>9

LEMMA HookIsNoWait ==
  ASSUME IInv, IInv', SizeInv, LateInv, NEW o \in Objects, HookStep(o)
  PROVE  SizeInv' /\ LateInv'
<1>1. UNCHANGED worker
  BY DEF HookStep, StartHook, HookEmbeds, HookFails, HookEnqueues, HookIsLost
<1>2. SizeInv'
  BY <1>1 DEF SizeInv, Busily
<1>3. \A v \in Workers : Remaining(v)' = Remaining(v) /\ \A p \in Objects : Holds(v, p)' <=> Holds(v, p)
  BY <1>1 DEF Remaining, Holds, ClaimsOf
<1>4. \A v \in Workers : Remaining(v)' <= Remaining(v)
  BY <1>3, WorkBounds DEF IInv
<1>5. \A p \in Objects : jobs'[p] = jobs[p] \/ (jobs'[p] \in JobType /\ jobs'[p].due > 0)
  <2>1. CASE UNCHANGED jobs
    <3>1. \A p \in Objects : jobs'[p] = jobs[p]
      BY <2>1
    <3> QED BY <3>1
  <2>2. CASE HookEnqueues(o)
    <3>1. [attempts |-> 1, due |-> Backoff[1], waited |-> 0] \in JobType /\ Backoff[1] > 0
      BY TimesAssumption DEF JobType
    <3>2. jobs' = [jobs EXCEPT ![o] = [attempts |-> 1, due |-> Backoff[1], waited |-> 0]]
      BY <2>2 DEF HookEnqueues
    <3>3. jobs'[o] = [attempts |-> 1, due |-> Backoff[1], waited |-> 0] /\ \A p \in Objects \ {o} : jobs'[p] = jobs[p]
      BY <3>2 DEF IInv, TypeOK
    <3>4. jobs'[o].due > 0
      BY <3>1, <3>3
    <3> QED BY <3>1, <3>3, <3>4
  <2> QED BY <2>1, <2>2 DEF HookStep, StartHook, HookEmbeds, HookFails, HookIsLost
<1> QED BY <1>2, <1>3, <1>4, <1>5, ShorterWait DEF IInv

\* A worker that ends a job or its batch has less to do, and writes no row due.
LEMMA JobEndIsNoWait ==
  ASSUME IInv, IInv', SizeInv, LateInv, NEW w \in Workers, ProcessOne(w) \/ Stop(w)
  PROVE  SizeInv' /\ LateInv'
<1>1. worker[w] \in Busy /\ Busily(w)
  <2>1. ProcessOne(w) => worker[w].step # "idle"
    BY DEF ProcessOne, Skip, Embed, EmbedFails, Embedding, Delete, MarkFailed, WriteFails
  <2>2. worker[w] # Idle
    BY <2>1, IdleIsNotBusy DEF Stop
  <2> QED BY <2>2, JobAndWorkerTypes DEF IInv, Busily
<1>2. IsFiniteSet(worker[w].rest) /\ Cardinality(worker[w].rest) \in Nat
      /\ Cardinality(worker[w].rest) < BatchLimit /\ worker[w].rest \in SUBSET Claim
  BY <1>1, FS_CardinalityType DEF SizeInv, Busy
<1>3. /\ Busily(w)' => IsFiniteSet(worker'[w].rest) /\ Cardinality(worker'[w].rest) < BatchLimit
      /\ Remaining(w)' <= Remaining(w)
      /\ \A v \in Workers \ {w} : worker'[v] = worker[v]
      /\ ClaimsOf(w)' \subseteq ClaimsOf(w)
  <2> DEFINE n == Cardinality(worker[w].rest)
  <2>1. JobTime \in Nat /\ BatchLimit \in Nat /\ worker[w].age \in Nat /\ worker[w].age <= JobTime
        /\ JobTime * n \in Nat
    BY <1>1, <1>2, TimesAssumption, Products DEF Busy
  <2>2. Remaining(w) = JobTime * n + (JobTime - worker[w].age)
    BY <1>1 DEF Remaining, Busily
  <2>3. CASE Stop(w)
    <3>1. worker'[w] = Idle /\ \A v \in Workers \ {w} : worker'[v] = worker[v]
      BY <2>3 DEF Stop, IInv, TypeOK
    <3>2. Remaining(w)' = 0 /\ ClaimsOf(w)' = {} /\ ~ Busily(w)'
      BY <3>1 DEF Remaining, ClaimsOf, Busily
    <3> HIDE DEF n
    <3> QED BY <2>1, <2>2, <3>1, <3>2
  <2>4. CASE GoOn(w, worker[w].rest, worker[w].left)
    <3>1. worker[w].left \in 0 .. Lease
      BY <1>1 DEF Busy
    <3>2. /\ Busily(w)' => IsFiniteSet(worker'[w].rest) /\ Cardinality(worker'[w].rest) = n - 1
          /\ Remaining(w)' = JobTime * n
      BY <1>2, <2>4, <3>1, GoOnShortens DEF IInv
    <3>3. ClaimsOf(w)' = worker[w].rest /\ \A v \in Workers \ {w} : worker'[v] = worker[v]
      BY <1>2, <2>4, <3>1, GoOnMoves DEF IInv
    <3>4. worker[w].rest \subseteq ClaimsOf(w)
      BY <1>1 DEF ClaimsOf, Busily
    <3>5. n \in Nat /\ n < BatchLimit
      BY <1>2
    <3> HIDE DEF n
    <3> QED BY <2>1, <2>2, <3>2, <3>3, <3>4, <3>5
  <2>5. ASSUME NEW step \in {"embedded", "failed"}, worker' = [worker EXCEPT ![w].step = step]
        PROVE  <1>3!1 /\ <1>3!2 /\ <1>3!3 /\ <1>3!4
    <3>1. worker'[w] = [worker[w] EXCEPT !.step = step] /\ \A v \in Workers \ {w} : worker'[v] = worker[v]
      BY <2>5 DEF IInv, TypeOK
    <3>2. worker'[w].job = worker[w].job /\ worker'[w].rest = worker[w].rest
          /\ worker'[w].age = worker[w].age /\ worker'[w].step = step
      BY <1>1, <3>1 DEF Busy
    <3>3. ClaimsOf(w)' = ClaimsOf(w) /\ Remaining(w)' = Remaining(w)
      BY <1>1, <3>2, IdleIsNotBusy DEF ClaimsOf, Remaining, Busily
    <3>4. Remaining(w) \in Nat
      BY WorkBounds DEF IInv
    <3> QED BY <1>2, <3>1, <3>2, <3>3, <3>4
  <2> QED BY <2>3, <2>4, <2>5
        DEF ProcessOne, Skip, Embed, EmbedFails, Delete, MarkFailed, WriteFails
<1>4. \A p \in Objects : \/ jobs'[p] = jobs[p] \/ jobs'[p] = NoJob
                         \/ jobs'[p] \in JobType /\ jobs'[p].due > 0
  <2>1. CASE UNCHANGED jobs
    <3>1. \A p \in Objects : jobs'[p] = jobs[p]
      BY <2>1
    <3> QED BY <3>1
  <2>2. CASE Delete(w)
    BY <2>2 DEF Delete, IInv, TypeOK
  <2>3. CASE MarkFailed(w)
    <3> DEFINE next == [attempts |-> NextAttempts(w), due |-> Backoff[NextAttempts(w)], waited |-> 0]
    <3>1. NextAttempts(w) \in 1 .. MaxAttempts
      BY <1>1, TimesAssumption DEF NextAttempts, Busy, Claim
    <3>2. next \in JobType /\ next.due > 0
      BY <1>1, <3>1, NextRowType, TimesAssumption DEF IInv
    <3>3. jobs' = [jobs EXCEPT ![worker[w].job.obj] = IF @ = NoJob THEN NoJob ELSE next]
      BY <2>3 DEF MarkFailed
    <3> HIDE DEF next
    <3> QED BY <3>2, <3>3 DEF IInv, TypeOK
  <2> QED BY <2>1, <2>2, <2>3 DEF ProcessOne, Skip, Embed, EmbedFails, WriteFails, Stop
<1>5. SizeInv'
  BY <1>3 DEF SizeInv, Busily
<1>6. \A v \in Workers : /\ Remaining(v)' <= Remaining(v)
                         /\ \A o \in Objects : Holds(v, o)' => Holds(v, o)
  <2> TAKE v \in Workers
  <2>1. CASE v = w
    BY <1>3, <2>1 DEF Holds
  <2>2. CASE v # w
    <3>1. worker'[v] = worker[v] /\ Remaining(v) \in Nat
      BY <1>3, <2>2, WorkBounds DEF IInv
    <3> QED BY <3>1 DEF Remaining, Holds, ClaimsOf
  <2> QED BY <2>1, <2>2
<1> QED BY <1>4, <1>5, <1>6, ShorterWait DEF IInv

\* A claim that leaves o takes a full batch of jobs before it, unless a worker that
\* outstayed its lease is writing o's row or another claim is holding it.
LEMMA ClaimTakesTheOldest ==
  ASSUME IInv, NEW batch \in SUBSET Objects, NEW held \in SUBSET Due,
         OldestBatch(batch, held), NEW o \in Due \ (batch \union held),
         \A v \in Workers : ~ Holds(v, o)
  PROVE  /\ Cardinality(batch) = BatchLimit
         /\ batch \subseteq Before(o)
<1>1. o \in Objects /\ batch \subseteq Due
  BY DEF OldestBatch, Due
<1>2. o \notin BeingWritten
  <2> SUFFICES ASSUME NEW u \in Workers, worker[u].step \in {"embedded", "failed"}, worker[u].job.obj = o
               PROVE  FALSE
    BY DEF BeingWritten
  <2>1. worker[u].job \in ClaimsOf(u)
    BY IdleIsNotBusy DEF ClaimsOf
  <2> QED BY <2>1 DEF Holds
<1>3. Cardinality(batch) = BatchLimit /\ \A p \in batch : jobs[p].due <= jobs[o].due
  BY <1>2 DEF OldestBatch
<1> QED BY <1>1, <1>3 DEF Before, Due

LEMMA ClaimIsInOrder ==
  ASSUME IInv, SizeInv, LateInv, NEW w \in Workers, NEW held \in SUBSET Due, ClaimBeside(w, held)
  PROVE  SizeInv' /\ LateInv'
<1>1. PICK batch \in SUBSET Objects :
        /\ OldestBatch(batch, held)
        /\ jobs' = Claimed(batch, held)
        /\ GoOn(w, ClaimsFor(batch), Lease)
  BY DEF ClaimBeside
<1> DEFINE claims == ClaimsFor(batch)
<1>2. worker[w] = Idle
  BY DEF ClaimBeside
<1>3. Lease \in Nat /\ Lease > 0 /\ JobTime \in Nat /\ BatchLimit \in Nat /\ JobTime * BatchLimit \in Nat
  BY TimesAssumption
<1>4. IsFiniteSet(batch) /\ Cardinality(batch) \in Nat /\ Cardinality(batch) <= BatchLimit
  <2>1. IsFiniteSet(batch)
    BY WaitAssumption, FS_Subset
  <2> QED BY <1>1, <1>3, <2>1, FS_CardinalityType DEF OldestBatch
<1>5. IsFiniteSet(claims) /\ Cardinality(claims) \in Nat /\ Cardinality(claims) <= BatchLimit
  <2> DEFINE claim == [o \in batch |-> [obj |-> o, attempts |-> jobs[o].attempts]]
  <2>1. claim \in Surjection(batch, claims)
    BY DEF Surjection, ClaimsFor
  <2>2. IsFiniteSet(claims) /\ Cardinality(claims) <= Cardinality(batch)
    BY <1>4, <2>1, FS_Surjection
  <2> QED BY <1>3, <1>4, <2>2, FS_CardinalityType
<1>6. claims \in SUBSET Claim
  <2>1. \A o \in batch : jobs[o] \in JobType
    BY <1>1, JobAndWorkerTypes DEF OldestBatch, Due, IInv
  <2> QED BY <2>1 DEF Claim, JobType, ClaimsFor
<1>7. \A c \in claims : c.obj \in batch
  BY DEF ClaimsFor
<1>8. GoOn(w, claims, Lease) /\ Lease \in 0 .. Lease
  BY <1>1, <1>3
<1> HIDE DEF claims
<1>9. /\ Busily(w)' => IsFiniteSet(worker'[w].rest) /\ Cardinality(worker'[w].rest) < BatchLimit
      /\ Remaining(w)' \in Nat /\ Remaining(w)' <= JobTime * BatchLimit
  <2>1. /\ Busily(w)' => IsFiniteSet(worker'[w].rest) /\ Cardinality(worker'[w].rest) = Cardinality(claims) - 1
        /\ Remaining(w)' = JobTime * Cardinality(claims)
    BY <1>5, <1>6, <1>8, GoOnShortens DEF IInv
  <2>2. JobTime * Cardinality(claims) \in Nat /\ JobTime * Cardinality(claims) <= JobTime * BatchLimit
    BY <1>3, <1>5, Products
  <2> QED BY <1>3, <1>5, <2>1, <2>2
<1>10. ClaimsOf(w)' = claims /\ \A v \in Workers \ {w} : worker'[v] = worker[v]
  BY <1>6, <1>8, GoOnMoves DEF IInv
<1>11. \A v \in Workers \ {w} : /\ Remaining(v)' = Remaining(v) /\ Remaining(v) \in Nat
                                /\ \A o \in Objects : Holds(v, o)' <=> Holds(v, o)
  <2> TAKE v \in Workers \ {w}
  <2>1. worker'[v] = worker[v] /\ Remaining(v) \in Nat
    BY <1>10, WorkBounds DEF IInv
  <2> QED BY <2>1 DEF Remaining, Holds, ClaimsOf
<1>12. SizeInv'
  BY <1>9, <1>10 DEF SizeInv, Busily
<1>13. LateInv'
  <2> SUFFICES ASSUME NEW o \in Due'
               PROVE  /\ Load(o)' <= LongestWait
                      /\ (\A v \in Workers : ~ Holds(v, o)') =>
                            \A v \in Workers : Load(o)' + Remaining(v)' <= LongestWait
                      /\ \A v \in Workers : Holds(v, o)' =>
                            Load(o)' + Remaining(v)' + JobTime * BatchLimit <= LongestWait
    BY DEF LateInv, LongestWait
  <2>1. /\ batch \in SUBSET Due
        /\ \A p \in batch : jobs'[p] \in JobType /\ jobs'[p].due = Lease
        /\ \A p \in Objects \ batch :
             \/ jobs'[p] = jobs[p]
             \/ /\ p \in held /\ jobs[p] \in JobType /\ jobs'[p].due = jobs[p].due
                /\ jobs'[p].waited = 0
    <3>1. batch \in SUBSET Due
      BY <1>1 DEF OldestBatch
    <3> QED BY <1>1, <3>1, ClaimedRows DEF IInv
  <2>2. o \in Objects \ batch /\ o \in Due /\ jobs'[o].due = jobs[o].due /\ jobs'[o].due <= 0
    <3>1. o \in Objects /\ jobs'[o] # NoJob /\ jobs'[o].due <= 0
      BY DEF Due
    <3>2. o \notin batch
      BY <1>3, <2>1, <3>1
    <3> QED BY <2>1, <3>1, <3>2 DEF Due
  <2>3. /\ jobs[o] \in JobType /\ jobs[o].due \in Int
        /\ jobs[o].waited \in Nat /\ jobs'[o].waited \in Nat /\ jobs'[o].waited <= jobs[o].waited
    <3>1. jobs[o] \in JobType
      BY <2>2, JobAndWorkerTypes DEF Due, IInv
    <3>2. jobs[o].due \in Int /\ jobs[o].waited \in Nat
      BY <3>1 DEF JobType
    <3> QED BY <2>1, <2>2, <3>1, <3>2
  <2>4. Before(o)' \in SUBSET (Before(o) \ batch)
    <3> SUFFICES ASSUME NEW p \in Objects \ {o}, jobs'[p] # NoJob, jobs'[p].due <= jobs'[o].due
                 PROVE  p \notin batch /\ jobs[p] # NoJob /\ jobs[p].due <= jobs[o].due
      BY <2>2 DEF Before
    <3>1. p \notin batch
      BY <1>3, <2>1, <2>2, <2>3
    <3> QED BY <2>1, <2>2, <3>1, NoJobIsNone
  <2> DEFINE m == Cardinality(Before(o)')
             n == Cardinality(Before(o))
  <2>5. IsFiniteSet(Before(o)) /\ n \in Nat
    BY <2>2, QueueBounds
  <2>6. m \in Nat /\ m <= n
    BY <2>4, <2>5, FS_Subset, FS_CardinalityType
  <2>7. Load(o) = JobTime * n + jobs[o].waited /\ Load(o)' = JobTime * m + jobs'[o].waited
    BY DEF Load
  <2>8. ~ Holds(w, o) /\ ~ Holds(w, o)'
    BY <1>2, <1>7, <1>10, <2>2 DEF Holds, ClaimsOf
  <2>9. LongestWait \in Int /\ JobTime * m \in Nat /\ JobTime * n \in Nat /\ JobTime * m <= JobTime * n
    <3>1. LongestWait \in Int
      BY <2>2, LongestWaitIs
    <3> HIDE DEF m, n
    <3> QED BY <1>3, <2>5, <2>6, <3>1, Products
  <2>10. CASE \E v \in Workers : Holds(v, o)
    <3>1. PICK v \in Workers \ {w} : Holds(v, o) /\ Holds(v, o)'
      BY <1>11, <2>2, <2>8, <2>10
    <3>2. Load(o)' <= LongestWait
      <4>1. Load(o) <= LongestWait
        BY <2>2 DEF LateInv
      <4> HIDE DEF m, n
      <4> QED BY <2>3, <2>7, <2>9, <4>1
    <3>3. ASSUME NEW u \in Workers, Holds(u, o)'
          PROVE  Load(o)' + Remaining(u)' + JobTime * BatchLimit <= LongestWait
      <4>1. u # w
        BY <2>8, <3>3
      <4>2. Holds(u, o) /\ Remaining(u)' = Remaining(u) /\ Remaining(u) \in Nat
        BY <1>11, <2>2, <3>3, <4>1
      <4>3. Load(o) + Remaining(u) + JobTime * BatchLimit <= LongestWait
        BY <2>2, <4>2 DEF LateInv
      <4> HIDE DEF m, n
      <4> QED BY <1>3, <2>3, <2>7, <2>9, <4>2, <4>3
    <3> QED BY <3>1, <3>2, <3>3
  <2>11. CASE o \in held
    <3> DEFINE k == Cardinality(Objects) - 1
               b == JobTime * BatchLimit
    <3>1. k \in Nat /\ n <= k
      BY <2>2, QueueBounds
    <3>2. LongestWait = b + b + JobTime * k /\ b \in Nat
      BY <2>2, LongestWaitIs
    <3>3. jobs'[o].waited = 0
      BY <1>1, <2>1, <2>2, <2>11, ClaimedRows DEF IInv
    <3>4. \A v \in Workers : Remaining(v)' \in Nat /\ Remaining(v)' <= b
      <4> TAKE v \in Workers
      <4>1. CASE v = w
        BY <1>9, <4>1
      <4>2. CASE v # w
        BY <1>11, <4>2, WorkBounds DEF IInv
      <4> QED BY <4>1, <4>2
    <3> HIDE DEF k, b, m, n
    <3>5. JobTime * m <= JobTime * k /\ JobTime * k \in Nat
      BY <1>3, <2>5, <2>6, <3>1, Products
    <3>6. Load(o)' + b + b <= LongestWait /\ Load(o)' \in Nat
      BY <2>7, <2>9, <3>2, <3>3, <3>5
    <3> QED BY <2>9, <3>2, <3>4, <3>6 DEF b
  <2>12. CASE o \notin held /\ \A v \in Workers : ~ Holds(v, o)
    <3>1. Cardinality(batch) = BatchLimit /\ batch \in SUBSET Before(o)
      BY <1>1, <2>2, <2>12, ClaimTakesTheOldest
    <3>2. m + BatchLimit <= n
      <4>1. Before(o) \cap batch = batch
        BY <3>1
      <4>2. IsFiniteSet(Before(o) \ batch) /\ Cardinality(Before(o) \ batch) = n - BatchLimit
        BY <2>5, <3>1, <4>1, FS_Difference
      <4>3. m <= Cardinality(Before(o) \ batch)
        BY <2>4, <4>2, FS_Subset
      <4> HIDE DEF m, n
      <4> QED BY <1>3, <2>5, <2>6, <4>2, <4>3
    <3>3. \A v \in Workers : ~ Holds(v, o)'
      <4> TAKE v \in Workers
      <4>1. CASE v = w
        BY <2>8, <4>1
      <4>2. CASE v # w
        BY <1>11, <2>2, <2>12, <4>2
      <4> QED BY <4>1, <4>2
    <3>4. JobTime * m + JobTime * BatchLimit <= JobTime * n
      <4> HIDE DEF m, n
      <4>1. m + BatchLimit \in Nat
        BY <1>3, <2>6
      <4>2. JobTime * (m + BatchLimit) <= JobTime * n
        BY <1>3, <2>5, <3>2, <4>1, Products
      <4>3. JobTime * (m + BatchLimit) = JobTime * m + JobTime * BatchLimit
        BY <1>3, <2>6, Products
      <4> QED BY <4>2, <4>3
    <3>5. Load(o) <= LongestWait /\ \A v \in Workers : Load(o) + Remaining(v) <= LongestWait
      BY <2>2, <2>12 DEF LateInv
    <3> HIDE DEF m, n
    <3>6. Load(o) \in Int /\ Load(o)' \in Int /\ Load(o)' + JobTime * BatchLimit <= Load(o)
      BY <1>3, <2>3, <2>7, <2>9, <3>4
    <3>7. Load(o)' <= LongestWait
      BY <1>3, <2>9, <3>5, <3>6
    <3>8. ASSUME NEW v \in Workers PROVE Load(o)' + Remaining(v)' <= LongestWait
      <4>1. CASE v = w
        BY <1>3, <1>9, <2>9, <3>5, <3>6, <4>1
      <4>2. CASE v # w
        <5>1. Remaining(v)' = Remaining(v) /\ Remaining(v) \in Nat
          BY <1>11, <4>2
        <5> QED BY <1>3, <2>9, <3>5, <3>6, <5>1
      <4> QED BY <4>1, <4>2
    <3> QED BY <3>3, <3>7, <3>8
  <2> QED BY <2>10, <2>11, <2>12
<1> QED BY <1>12, <1>13

\* A claim that fails gives nobody more to do.
LEMMA FailedClaimIsNoWait ==
  ASSUME IInv, IInv', SizeInv, LateInv, NEW w \in Workers, ClaimFails(w)
  PROVE  SizeInv' /\ LateInv'
<1>1. PICK leased \in SUBSET Due, returned \in SUBSET Due : jobs' = Claimed(leased, returned)
  <2>1. PICK held \in SUBSET Due, batch \in SUBSET Due :
          jobs' \in {Claimed(batch, held), Claimed({}, batch \union held)}
    BY DEF ClaimFails, HeldByOthers, OldestBatch
  <2> QED BY <2>1
<1>2. UNCHANGED worker
  BY DEF ClaimFails
<1>3. SizeInv'
  BY <1>2 DEF SizeInv, Busily
<1>4. \A v \in Workers : Remaining(v)' = Remaining(v) /\ \A p \in Objects : Holds(v, p)' <=> Holds(v, p)
  BY <1>2 DEF Remaining, Holds, ClaimsOf
<1>5. \A v \in Workers : Remaining(v)' <= Remaining(v)
  BY <1>4, WorkBounds DEF IInv
<1>6. \A p \in Objects : \/ jobs'[p] = jobs[p]
                         \/ jobs'[p] \in JobType /\ jobs'[p].due > 0
                         \/ /\ jobs[p] \in JobType /\ jobs'[p].due = jobs[p].due
                            /\ jobs'[p].waited = 0
  <2>1. Lease > 0
    BY TimesAssumption
  <2> QED BY <1>1, <2>1, ClaimedRows DEF IInv
<1> QED BY <1>3, <1>4, <1>5, <1>6, ShorterWait DEF IInv

\* A tick keeps the order in which jobs are, and fall, due.
LEMMA TickKeepsOrder ==
  ASSUME IInv, Tick, NEW o \in Objects, NEW p \in Objects,
         jobs[o] # NoJob, jobs[p] # NoJob, jobs'[o].due <= 0
  PROVE  jobs'[p].due <= jobs'[o].due <=> jobs[p].due <= jobs[o].due
<1>1. jobs[o].due \in Int /\ jobs[p].due \in Int
  BY JobAndWorkerTypes DEF IInv, JobType
<1>2. \A q \in {o, p} : /\ jobs'[q].due = IF jobs[q].due > 0 THEN jobs[q].due - 1 ELSE -Cardinality(NewerDues(q))
                        /\ IsFiniteSet(NewerDues(q)) /\ Cardinality(NewerDues(q)) \in Nat
  BY TickedRow, NewerDuesAreFinite DEF IInv
<1>3. jobs[o].due <= 1
  BY <1>1, <1>2
<1>4. \A q \in {o, p} : jobs[q].due <= 1 => jobs'[q].due = -Cardinality(NewerDues(q))
  <2> SUFFICES ASSUME NEW q \in {o, p}, jobs[q].due = 1
               PROVE  jobs'[q].due = 0 /\ Cardinality(NewerDues(q)) = 0
    BY <1>1, <1>2
  <2>1. \A x \in Objects : jobs[x] # NoJob => jobs[x].due \in Int
    BY JobAndWorkerTypes DEF IInv, JobType
  <2>2. NewerDues(q) = {}
    BY <2>1 DEF NewerDues
  <2> QED BY <1>2, <2>2, FS_EmptySet
<1>5. CASE jobs[p].due <= jobs[o].due
  <2>1. \A x \in Objects : jobs[x] # NoJob => jobs[x].due \in Int
    BY JobAndWorkerTypes DEF IInv, JobType
  <2>2. NewerDues(o) \in SUBSET NewerDues(p)
    BY <1>1, <1>5, <2>1 DEF NewerDues
  <2>3. Cardinality(NewerDues(o)) <= Cardinality(NewerDues(p))
    BY <1>2, <2>2, FS_Subset
  <2>4. jobs[p].due <= 1
    BY <1>1, <1>3, <1>5
  <2> QED BY <1>2, <1>3, <1>4, <1>5, <2>3, <2>4
<1>6. CASE jobs[o].due < jobs[p].due /\ jobs[p].due <= 1
  <2>1. \A x \in Objects : jobs[x] # NoJob => jobs[x].due \in Int
    BY JobAndWorkerTypes DEF IInv, JobType
  <2>2. NewerDues(p) \in SUBSET NewerDues(o)
    BY <1>1, <1>6, <2>1 DEF NewerDues
  <2>3. jobs[p].due \in NewerDues(o)
    BY <1>6 DEF NewerDues
  <2>4. jobs[p].due \notin NewerDues(p)
    BY <1>1 DEF NewerDues
  <2>5. Cardinality(NewerDues(p)) <= Cardinality(NewerDues(o))
        /\ Cardinality(NewerDues(o)) # Cardinality(NewerDues(p))
    BY <1>2, <2>2, <2>3, <2>4, FS_Subset
  <2> QED BY <1>1, <1>2, <1>3, <1>4, <1>6, <2>5
<1>7. CASE jobs[p].due > 1
  BY <1>1, <1>2, <1>3, <1>7
<1> QED BY <1>1, <1>5, <1>6, <1>7

\* Only a tick makes a job due, and it starts its count.
LEMMA FreshKeeps ==
  ASSUME IInv, FreshInv, [Next]_vars
  PROVE  FreshInv'
<1>1. \A p \in Objects :
        \/ jobs'[p] = jobs[p] \/ jobs'[p] = NoJob
        \/ jobs'[p].waited = 0
        \/ /\ jobs[p] # NoJob
           /\ jobs'[p].due > 0 => jobs[p].due > 0 /\ jobs'[p].waited = jobs[p].waited
  <2> SUFFICES ASSUME NEW p \in Objects
               PROVE  \/ jobs'[p] = jobs[p] \/ jobs'[p] = NoJob
                      \/ jobs'[p].waited = 0
                      \/ /\ jobs[p] # NoJob
                         /\ jobs'[p].due > 0 => jobs[p].due > 0 /\ jobs'[p].waited = jobs[p].waited
    OBVIOUS
  <2>1. CASE UNCHANGED jobs
    BY <2>1
  <2>2. ASSUME NEW o \in Objects, HookEnqueues(o) PROVE jobs'[p] = jobs[p] \/ jobs'[p].waited = 0
    BY <2>2 DEF HookEnqueues, IInv, TypeOK
  <2>3. ASSUME NEW w \in Workers, ClaimDue(w) \/ ClaimFails(w)
        PROVE  jobs'[p] = jobs[p] \/ jobs'[p].waited = 0
    <3>1. PICK leased \in SUBSET Due, returned \in SUBSET Due : jobs' = Claimed(leased, returned)
      <4>1. CASE ClaimDue(w)
        BY <4>1 DEF ClaimDue, ClaimBeside, HeldByOthers, OldestBatch
      <4>2. CASE ClaimFails(w)
        <5>1. PICK held \in SUBSET Due, batch \in SUBSET Due :
                jobs' \in {Claimed(batch, held), Claimed({}, batch \union held)}
          BY <4>2 DEF ClaimFails, HeldByOthers, OldestBatch
        <5> QED BY <5>1
      <4> QED BY <2>3, <4>1, <4>2
    <3> QED BY <3>1, ClaimedRows DEF IInv
  <2>4. ASSUME NEW w \in Workers, Delete(w) \/ MarkFailed(w)
        PROVE  jobs'[p] = jobs[p] \/ jobs'[p] = NoJob \/ jobs'[p].waited = 0
    BY <2>4 DEF Delete, MarkFailed, IInv, TypeOK
  <2>5. ASSUME Tick, jobs[p] # NoJob
        PROVE  jobs'[p].due > 0 => jobs[p].due > 0 /\ jobs'[p].waited = jobs[p].waited
    <3>1. /\ jobs[p].due \in Int
          /\ jobs'[p].due = IF jobs[p].due > 0 THEN jobs[p].due - 1 ELSE -Cardinality(NewerDues(p))
          /\ p \notin Due => jobs'[p].waited = jobs[p].waited
          /\ Cardinality(NewerDues(p)) \in Nat
      BY <2>5, TickedRow, NewerDuesAreFinite DEF IInv, JobType
    <3> QED BY <3>1 DEF Due
  <2>6. ASSUME Tick, jobs[p] = NoJob PROVE jobs'[p] = NoJob
    BY <2>6 DEF Tick
  <2> QED BY <2>1, <2>2, <2>3, <2>4, <2>5, <2>6
          DEF Next, vars, HookStep, StartHook, HookEmbeds, HookFails, HookIsLost,
              ProcessOne, Skip, Embed, EmbedFails, WriteFails, Stop
<1> QED BY <1>1 DEF FreshInv

\* A tick takes from the work of those who are at work what it adds to the wait.
LEMMA TickIsAccountedFor ==
  ASSUME IInv, SizeInv, FreshInv, LateInv, Tick
  PROVE  SizeInv' /\ LateInv'
<1>1. \A p \in Objects : jobs'[p] # NoJob <=> jobs[p] # NoJob
  <2> TAKE p \in Objects
  <2>1. CASE jobs[p] = NoJob
    BY <2>1 DEF Tick
  <2>2. CASE jobs[p] # NoJob
    BY <2>2, TickedRow, NoJobIsNone DEF IInv
  <2> QED BY <2>1, <2>2
<1>2. \A w \in Workers :
        /\ Busily(w)' <=> Busily(w)
        /\ Busily(w) => /\ worker'[w].rest = worker[w].rest /\ worker'[w].job = worker[w].job
                        /\ Remaining(w) \in Nat /\ Remaining(w) > 0 /\ Remaining(w)' = Remaining(w) - 1
        /\ ~ Busily(w) => Remaining(w) = 0 /\ Remaining(w)' = 0
  <2> TAKE w \in Workers
  <2>1. CASE worker[w] = Idle
    <3>1. worker'[w] = Idle
      BY <2>1 DEF Tick
    <3> QED BY <2>1, <3>1 DEF Busily, Remaining
  <2>2. CASE worker[w] # Idle
    <3>1. worker[w] \in Busy /\ worker[w].age < JobTime
      BY <2>2, JobAndWorkerTypes DEF Tick, IInv
    <3>2. worker'[w] = [worker[w] EXCEPT !.age = @ + 1, !.left = IF @ = 0 THEN 0 ELSE @ - 1]
      BY <2>2 DEF Tick
    <3>3. /\ worker'[w].rest = worker[w].rest /\ worker'[w].job = worker[w].job
          /\ worker'[w].age = worker[w].age + 1 /\ worker'[w].step = worker[w].step
          /\ worker[w].step # "idle"
      BY <3>1, <3>2 DEF Busy
    <3>4. worker'[w] # Idle
      BY <3>3, IdleIsNotBusy
    <3>5. Remaining(w) \in Nat /\ Remaining(w) > 0
      BY <2>2, <3>1, WorkBounds DEF IInv, Busily
    <3> DEFINE n == JobTime * Cardinality(worker[w].rest)
    <3>6. Remaining(w) = n + (JobTime - worker[w].age) /\ Remaining(w)' = n + (JobTime - (worker[w].age + 1))
      BY <2>2, <3>3, <3>4 DEF Remaining
    <3>7. n \in Nat /\ JobTime \in Nat /\ worker[w].age \in Nat
      <4>1. Cardinality(worker[w].rest) \in Nat
        BY <2>2, FS_CardinalityType DEF SizeInv, Busily
      <4>2. JobTime \in Nat /\ worker[w].age \in Nat
        BY <3>1, TimesAssumption DEF Busy
      <4> QED BY <4>1, <4>2, Products
    <3> HIDE DEF n
    <3> QED BY <2>2, <3>3, <3>4, <3>5, <3>6, <3>7 DEF Busily
  <2> QED BY <2>1, <2>2
<1>3. \A w \in Workers : \A o \in Objects : Holds(w, o)' <=> Holds(w, o)
  BY <1>2 DEF Holds, ClaimsOf, Busily
<1>4. SizeInv'
  BY <1>2 DEF SizeInv
<1>5. LateInv'
  <2> SUFFICES ASSUME NEW o \in Due'
               PROVE  /\ Load(o)' <= LongestWait
                      /\ (\A v \in Workers : ~ Holds(v, o)') =>
                            \A v \in Workers : Load(o)' + Remaining(v)' <= LongestWait
                      /\ \A v \in Workers : Holds(v, o)' =>
                            Load(o)' + Remaining(v)' + JobTime * BatchLimit <= LongestWait
    BY DEF LateInv, LongestWait
  <2>1. o \in Objects /\ jobs[o] # NoJob /\ jobs'[o].due <= 0
    BY <1>1 DEF Due
  <2>2. Before(o)' = Before(o)
    <3>1. ASSUME NEW p \in Objects \ {o}
          PROVE  (jobs'[p] # NoJob /\ jobs'[p].due <= jobs'[o].due)
                    <=> (jobs[p] # NoJob /\ jobs[p].due <= jobs[o].due)
      BY <1>1, <2>1, TickKeepsOrder
    <3> QED BY <3>1 DEF Before
  <2> DEFINE n == Cardinality(Before(o))
             m == Cardinality(Objects) - 1
             b == JobTime * BatchLimit
  <2>3. n \in Nat /\ m \in Nat /\ n <= m /\ JobTime \in Nat
    BY <2>1, QueueBounds, TimesAssumption
  <2>4. LongestWait = b + b + JobTime * m /\ b \in Nat /\ JobTime * m \in Nat
    BY <2>1, LongestWaitIs
  <2>5. Load(o) = JobTime * n + jobs[o].waited /\ Load(o)' = JobTime * n + jobs'[o].waited
    BY <2>2 DEF Load
  <2>6. \A v \in Workers : Remaining(v) \in Nat /\ Remaining(v) <= b
    BY WorkBounds DEF IInv
  <2> HIDE DEF n, m, b
  <2>7. JobTime * n \in Nat /\ JobTime * n <= JobTime * m
    BY <2>3, Products
  <2>8. /\ Load(o) \in Nat /\ Load(o)' \in Nat /\ LongestWait \in Nat /\ jobs[o].due \in Int
        /\ Load(o)' <= Load(o) + 1
        /\ ~ AtWork => Load(o)' = Load(o)
        /\ jobs[o].due > 0 => jobs'[o].waited = 0
    <3>1. jobs[o].waited \in Nat /\ jobs[o].due \in Int
      BY <2>1, JobAndWorkerTypes DEF IInv, JobType
    <3>2. jobs'[o].waited = IF o \in Due /\ AtWork /\ jobs[o].waited < MaxWait
                            THEN jobs[o].waited + 1 ELSE jobs[o].waited
      BY <2>1, TickedRow DEF IInv
    <3>3. jobs[o].due > 0 => o \notin Due /\ jobs[o].waited = 0
      BY <2>1, <3>1 DEF Due, FreshInv
    <3>4. /\ jobs'[o].waited \in Nat /\ jobs'[o].waited <= jobs[o].waited + 1
          /\ ~ AtWork => jobs'[o].waited = jobs[o].waited
          /\ jobs[o].due > 0 => jobs'[o].waited = 0
      BY <3>1, <3>2, <3>3
    <3> QED BY <2>4, <2>5, <2>7, <3>1, <3>4
  <2>9. \A v \in Workers : \/ Remaining(v)' = Remaining(v) - 1 /\ Remaining(v) > 0
                           \/ Remaining(v)' = 0
    BY <1>2
  <2>10. CASE jobs[o].due > 0
    <3>1. Load(o)' + b + b <= LongestWait
      BY <2>4, <2>5, <2>7, <2>8, <2>10
    <3>2. \A v \in Workers : Remaining(v)' \in Int /\ Remaining(v)' <= b
      BY <2>4, <2>6, <2>9
    <3> QED BY <2>4, <2>8, <3>1, <3>2 DEF b
  <2>11. CASE jobs[o].due <= 0 /\ AtWork
    <3>1. o \in Due
      BY <2>1, <2>11 DEF Due
    <3>2. PICK u \in Workers : Busily(u)
      BY <2>11 DEF AtWork, Busily
    <3>3. CASE \A v \in Workers : ~ Holds(v, o)
      <4>1. \A v \in Workers : Load(o) + Remaining(v) <= LongestWait
        BY <3>1, <3>3 DEF LateInv
      <4>2. Load(o) + 1 <= LongestWait
        BY <1>2, <2>8, <3>2, <4>1
      <4>3. \A v \in Workers : Load(o)' + Remaining(v)' <= LongestWait
        BY <2>6, <2>8, <2>9, <4>1, <4>2
      <4> QED BY <1>3, <2>1, <2>8, <3>3, <4>2, <4>3
    <3>4. ASSUME NEW v \in Workers, Holds(v, o)
          PROVE  /\ Load(o) + 1 <= LongestWait
                 /\ Load(o)' + Remaining(v)' + b <= LongestWait
      <4>1. Load(o) + Remaining(v) + b <= LongestWait
        BY <3>1, <3>4 DEF LateInv, b
      <4>2. Busily(v)
        BY <3>4 DEF Holds, ClaimsOf, Busily
      <4> QED BY <1>2, <2>4, <2>8, <4>1, <4>2
    <3>5. CASE \E v \in Workers : Holds(v, o)
      <4>1. Load(o)' <= LongestWait
        BY <2>8, <3>4, <3>5
      <4> QED BY <1>3, <2>1, <3>4, <3>5, <4>1 DEF b
    <3> QED BY <3>3, <3>5
  <2>12. CASE jobs[o].due <= 0 /\ ~ AtWork
    <3>1. o \in Due
      BY <2>1, <2>12 DEF Due
    <3>2. \A v \in Workers : ~ Busily(v) /\ ~ Holds(v, o) /\ Remaining(v) = 0 /\ Remaining(v)' = 0
      BY <1>2, <2>12 DEF AtWork, Busily, Holds, ClaimsOf
    <3>3. Load(o)' <= LongestWait
      BY <2>8, <2>12, <3>1 DEF LateInv
    <3>4. \A v \in Workers : Load(o)' + Remaining(v)' <= LongestWait
      BY <2>8, <3>2, <3>3
    <3> QED BY <1>3, <2>1, <3>2, <3>3, <3>4
  <2> QED BY <2>8, <2>10, <2>11, <2>12
<1> QED BY <1>4, <1>5

\* DueJobsAreClaimedInTime: whatever the number of workers, and whatever fails,
\* stops or outstays its lease, claims included, no due job has to wait for more
\* than LongestWait ticks of work before a claim picks it up (the ORDER BY
\* next_retry_at and the LIMIT of ClaimDue, its SKIP LOCKED).
THEOREM NoJobWaitsLonger == Spec => []DueJobsAreClaimedInTime
<1>1. Init => SizeInv /\ FreshInv /\ LateInv
  <2> SUFFICES ASSUME Init PROVE SizeInv /\ FreshInv /\ LateInv
    OBVIOUS
  <2>1. \A w \in Workers : ~ Busily(w) /\ ClaimsOf(w) = {} /\ Remaining(w) = 0
    BY DEF Init, Busily, ClaimsOf, Remaining
  <2>2. ASSUME NEW o \in Due PROVE Load(o) <= LongestWait
    <3> DEFINE n == Cardinality(Before(o))
               m == Cardinality(Objects) - 1
    <3>1. o \in Objects /\ jobs[o].waited = 0
      BY DEF Due, Init
    <3>2. n \in Nat /\ m \in Nat /\ n <= m /\ JobTime \in Nat
      BY <3>1, QueueBounds, TimesAssumption
    <3>3. LongestWait = JobTime * BatchLimit + JobTime * BatchLimit + JobTime * m
          /\ JobTime * BatchLimit \in Nat
      BY <3>1, LongestWaitIs
    <3>4. Load(o) = JobTime * n + 0
      BY <3>1 DEF Load
    <3> HIDE DEF n, m
    <3>5. JobTime * n \in Nat /\ JobTime * m \in Nat /\ JobTime * n <= JobTime * m
      BY <3>2, Products
    <3> QED BY <3>3, <3>4, <3>5
  <2>3. ASSUME NEW o \in Due PROVE Load(o) \in Int
    <3>1. o \in Objects /\ jobs[o].waited = 0
      BY DEF Due, Init
    <3>2. JobTime * Cardinality(Before(o)) \in Nat
      BY <3>1, QueueBounds, TimesAssumption, Products
    <3> QED BY <3>1, <3>2 DEF Load
  <2>4. ASSUME NEW o \in Due, NEW w \in Workers PROVE Load(o) + Remaining(w) <= LongestWait
    BY <2>1, <2>2, <2>3
  <2>5. FreshInv
    BY DEF Init, FreshInv
  <2> QED BY <2>1, <2>2, <2>4, <2>5 DEF SizeInv, LateInv, Holds
<1>2. IInv /\ IInv' /\ SizeInv /\ FreshInv /\ LateInv /\ [Next]_vars => SizeInv' /\ FreshInv' /\ LateInv'
  <2> SUFFICES ASSUME IInv, IInv', SizeInv, FreshInv, LateInv, [Next]_vars PROVE SizeInv' /\ LateInv'
    BY FreshKeeps
  <2>1. CASE UNCHANGED vars
    <3>1. \A w \in Workers : Remaining(w)' = Remaining(w) /\ ClaimsOf(w)' = ClaimsOf(w)
      BY <2>1 DEF vars, Remaining, ClaimsOf
    <3>2. \A w \in Workers, o \in Objects : Holds(w, o)' <=> Holds(w, o)
      BY <3>1 DEF Holds
    <3>3. Due' = Due /\ \A o \in Objects : Before(o)' = Before(o) /\ Load(o)' = Load(o)
      BY <2>1 DEF vars, Due, Before, Load
    <3>4. SizeInv'
      BY <2>1 DEF vars, SizeInv, Busily
    <3> QED BY <3>1, <3>2, <3>3, <3>4 DEF LateInv, Due, LongestWait
  <2>2. ASSUME NEW w \in Workers, ClaimDue(w) PROVE SizeInv' /\ LateInv'
    BY <2>2, ClaimIsInOrder DEF ClaimDue, HeldByOthers
  <2> QED BY <2>1, <2>2, HookIsNoWait, FailedClaimIsNoWait, JobEndIsNoWait, TickIsAccountedFor DEF Next
<1>3. LateInv /\ FreshInv /\ IInv => DueJobsAreClaimedInTime
  <2> SUFFICES ASSUME LateInv, FreshInv, IInv, NEW o \in Objects, jobs[o] # NoJob
               PROVE  jobs[o].waited <= LongestWait
    BY DEF DueJobsAreClaimedInTime
  <2>1. jobs[o].due \in Int /\ jobs[o].waited \in Nat
    BY JobAndWorkerTypes DEF IInv, JobType
  <2>2. LongestWait \in Nat
    BY LongestWaitIs
  <2>3. JobTime * Cardinality(Before(o)) \in Nat
    BY QueueBounds, TimesAssumption, Products
  <2>4. jobs[o].due <= 0 => JobTime * Cardinality(Before(o)) + jobs[o].waited <= LongestWait
    BY DEF LateInv, Due, Load
  <2>5. jobs[o].due > 0 => jobs[o].waited = 0
    BY DEF FreshInv
  <2> QED BY <2>1, <2>2, <2>3, <2>4, <2>5
<1> QED BY <1>1, <1>2, <1>3, IInvHolds, PTL DEF Spec

=============================================================================
