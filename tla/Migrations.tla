----------------------------- MODULE Migrations -----------------------------
(***************************************************************************)
(* The schema step of an API process's boot (internal/migrations): probe   *)
(* the database, then baseline it or let goose apply what is pending.      *)
(* Processes of several replicas boot beside each other on one database;   *)
(* nothing locks it for the whole step.  goose is not under src/: it       *)
(* creates the version table with its row for version 0 in one             *)
(* transaction, lists what is recorded, and applies what is pending in     *)
(* ascending order, each migration and its version row in one transaction; *)
(* before the first of them it parses the files of all.                    *)
(***************************************************************************)
EXTENDS Integers

CONSTANTS Replicas,
          Newest,      \* the schema of this release has the migrations 1 .. Newest
          OnDisk,      \* what the runner finds of them at the root of its fsys
          Parsed       \* those whose file goose can read: it has "-- +goose Up"

VARIABLES schema,      \* versions whose SQL is in effect
          table,       \* whether schema_migrations exists
          records,     \* versions recorded in it
          boot,        \* boot[r]: where r's boot is
          missed       \* history: versions a baseline has recorded, or will record,
                       \* of a database that was set up without them

migrationVars == <<schema, table, records, boot, missed>>

\* The sentinel, knowledge_objects, comes with the first migration.
Sentinel == 1 \in schema

Down == [pc |-> "down", sentinel |-> FALSE, plan |-> {}]

\* A database as a first boot may find it: empty; set up by the initdb hook of
\* this or an earlier release, which ran the files there were and recorded
\* nothing, without a version table or with an empty one; migrated by an earlier
\* release; or such a set-up that an earlier release has baselined.
InitialDatabase ==
  \/ schema = {} /\ table = FALSE /\ records = {} /\ missed = {}
  \/ \E n \in 1 .. Newest :
       /\ schema = 1 .. n
       /\ \/ table \in BOOLEAN /\ records = {} /\ missed = (n + 1) .. Newest
          \/ table = TRUE /\ records = 0 .. n /\ missed = {}
          \/ \E m \in n .. Newest : table = TRUE /\ records = 1 .. m /\ missed = (n + 1) .. m

Init ==
  /\ InitialDatabase
  /\ boot = [r \in Replicas |-> Down]

-----------------------------------------------------------------------------
At(r, pc) == boot[r].pc = pc
Go(r, pc) == boot' = [boot EXCEPT ![r].pc = pc]

\* The process starts and opens its pool.
StartBoot(r) ==
  /\ At(r, "down") /\ Go(r, "probing")
  /\ UNCHANGED <<schema, table, records>>

\* probe's first statement.
ProbeSentinel(r) ==
  /\ At(r, "probing")
  /\ boot' = [boot EXCEPT ![r].pc = "counting", ![r].sentinel = Sentinel]
  /\ UNCHANGED <<schema, table, records>>

\* probe's second statement, for which a missing table is an empty one, and
\* the branch of Run.
ProbeVersions(r) ==
  /\ At(r, "counting")
  /\ Go(r, IF boot[r].sentinel /\ records = {} THEN "baselining" ELSE "opening")
  /\ UNCHANGED <<schema, table, records>>

\* collectOnDiskVersions and baseline: every version on disk in one
\* transaction.  An empty fsys and a missing table are errors (Fail).
Baseline(r) ==
  /\ At(r, "baselining")
  /\ OnDisk # {} /\ table
  /\ records' = records \union OnDisk
  /\ Go(r, "ready")
  /\ UNCHANGED <<schema, table>>

\* goose.NewProvider, which refuses an fsys without migrations, and the first
\* transaction of Up; it tries again if another process creates the table
\* meanwhile.
OpenProvider(r) ==
  /\ At(r, "opening")
  /\ OnDisk # {}
  /\ IF table THEN UNCHANGED <<table, records>> ELSE table' = TRUE /\ records' = {0}
  /\ Go(r, "listing")
  /\ UNCHANGED schema

\* Up lists the recorded versions once and plans the rest; it refuses a table
\* without any row, a gap below a recorded version, and a file it cannot read.
ListVersions(r) ==
  LET pending == OnDisk \ records
  IN /\ At(r, "listing")
     /\ records # {} /\ \A v \in pending, w \in records : v > w
     /\ pending \subseteq Parsed
     /\ boot' = [boot EXCEPT ![r].pc = "applying", ![r].plan = pending]
     /\ UNCHANGED <<schema, table, records>>

\* The next migration of the plan and its version row.  One that another
\* process has applied since may go through again (IF NOT EXISTS) or fail, and
\* so may one that comes after a version that is not in effect.
Apply(r) ==
  /\ At(r, "applying")
  /\ \E v \in boot[r].plan :
       /\ \A w \in boot[r].plan : v <= w
       /\ schema' = schema \union {v}
       /\ records' = records \union {v}
       /\ boot' = [boot EXCEPT ![r].plan = @ \ {v}]
  /\ UNCHANGED table

Finish(r) ==
  /\ At(r, "applying") /\ boot[r].plan = {}
  /\ Go(r, "ready")
  /\ UNCHANGED <<schema, table, records>>

\* Why Run returns an error although the database answers.
Refused(r) ==
  \/ At(r, "baselining") /\ (OnDisk = {} \/ ~ table)
  \/ At(r, "opening") /\ OnDisk = {}
  \/ /\ At(r, "listing")
     /\ \/ records = {} \/ ~ (OnDisk \ records \subseteq Parsed)
        \/ \E v \in OnDisk \ records, w \in records : v <= w
  \/ /\ At(r, "applying")
     /\ boot[r].plan \cap schema # {} \/ ~ (OnDisk \subseteq schema \union boot[r].plan)

\* Any error of Run ends the process with status 1.
Fail(r) ==
  /\ Refused(r)
  /\ boot' = [boot EXCEPT ![r] = Down]
  /\ UNCHANGED <<schema, table, records>>

\* Faulty variant: probe counts the versions first (the boot remembers whether
\* there are none) and looks for the sentinel afterwards.
RunProbingBackwards(r) ==
  \/ /\ \/ /\ At(r, "probing")
           /\ boot' = [boot EXCEPT ![r].pc = "counting", ![r].sentinel = (records = {})]
        \/ /\ At(r, "counting")
           /\ Go(r, IF boot[r].sentinel /\ Sentinel THEN "baselining" ELSE "opening")
     /\ UNCHANGED <<schema, table, records>>
  \/ Baseline(r) \/ OpenProvider(r) \/ ListVersions(r) \/ Apply(r) \/ Finish(r)

Run(r) ==
  \/ ProbeSentinel(r) \/ ProbeVersions(r) \/ Baseline(r) \/ OpenProvider(r)
  \/ ListVersions(r) \/ Apply(r) \/ Finish(r)

-----------------------------------------------------------------------------
(* Properties.                                                             *)

\* What is recorded is in effect, but for what the database was set up without;
\* whoever boots beside whom, a baseline records nothing that another process is
\* about to apply.  And what was missed is missed for good.
RecordedVersionsAreApplied ==
  /\ records \ {0} \subseteq schema \union missed
  /\ missed \cap schema = {}

\* A process that has passed the step finds every version recorded on its next
\* boot, and the schema it was built for, but for what was missed.
ReadyMeansComplete ==
  \A r \in Replicas :
    At(r, "ready") => 1 .. Newest \subseteq records /\ 1 .. Newest \subseteq schema \union missed

=============================================================================
