-------------------------- MODULE ApiProcessProofs --------------------------
(***************************************************************************)
(* Proofs about ApiProcess for any number of replicas that boot, serve,    *)
(* stop and are killed beside each other, for any length of the schema and *)
(* any origin of the database: without a lock the schema step leaves out   *)
(* what an older initdb hook left out and nothing else, and the shutdown   *)
(* closes the pool under nobody it has waited for.                         *)
(***************************************************************************)
EXTENDS ApiProcess, TLAPS

Versions == 1 .. Newest

BootPcs == {"down", "probing", "counting", "baselining", "opening", "listing", "applying", "ready", "served"}

Stages == {"down", "serving"} \union Service!Stopping

TypeOK ==
  /\ schema \in SUBSET Versions /\ table \in BOOLEAN /\ records \in SUBSET (0 .. Newest)
  /\ boot \in [Replicas -> [pc : BootPcs, sentinel : BOOLEAN, plan : SUBSET OnDisk]]
  /\ stage \in [Replicas -> Stages]
  /\ user \in [Replicas -> [Service!Users -> {"absent", "idle", "busy", "gone"}]]
  /\ open \in [Replicas -> BOOLEAN]
  /\ expired \in [Replicas -> SUBSET Service!Users]
  /\ refused \in [Replicas -> SUBSET Service!Users]
  /\ missed \in SUBSET Versions

\* The database: tables of which nothing is recorded are those of an initdb
\* hook, which lack what it missed; once anything is recorded, so is all that
\* was missed, and goose has no reason to apply it.
DatabaseInv ==
  /\ ~ table => records = {}
  /\ 1 \in schema /\ records = {} => Versions \subseteq schema \union missed
  /\ records \ {0} \subseteq schema \union missed
  /\ missed \cap schema = {}
  /\ missed # {} => 1 \in schema
  /\ records # {} => missed \subseteq records

\* What each boot has found out stays true, whoever boots beside it.
BootInv ==
  \A r \in Replicas :
    /\ Schema!At(r, "counting") /\ boot[r].sentinel => 1 \in schema
    /\ Schema!At(r, "counting") /\ ~ boot[r].sentinel => missed = {}
    /\ Schema!At(r, "baselining") => Versions \subseteq schema \union missed
    /\ Schema!At(r, "opening") => missed = {} \/ records # {}
    /\ Schema!At(r, "listing") \/ Schema!At(r, "applying") => OnDisk = Versions /\ table
    /\ Schema!At(r, "applying") => OnDisk \ boot[r].plan \subseteq records /\ boot[r].plan \cap missed = {}
    /\ Schema!At(r, "ready") => Versions \subseteq records
    /\ Schema!At(r, "served") => Versions \subseteq schema \union missed

\* Who is past a step's wait, or has outlasted the step.
Joined(r, u) == user[r][u] \in {"absent", "gone"} \/ u \in expired[r]

\* A process serves or stops only once its boot is over, the pool is closed only
\* at the end, and by then the steps before have waited for their users.
Process(r) ==
  /\ stage[r] # "down" => boot[r].pc = "served"
  /\ open[r] = FALSE => stage[r] \in {"down", "close"}
  /\ stage[r] = "down" => \A u \in Service!Users : user[r][u] = "absent"
  /\ stage[r] \in {"join polling", "join worker", "close"} => Joined(r, "http")
  /\ stage[r] = "close" => Joined(r, "worker")
  /\ refused[r] \subseteq {"handlers"} \union expired[r]

ProcessInv == \A r \in Replicas : Process(r)

\* The inductive invariant.
IInv == TypeOK /\ DatabaseInv /\ BootInv /\ ProcessInv

-----------------------------------------------------------------------------
(* The first state.                                                        *)

LEMMA VersionsFacts == Newest \in Nat \ {0} /\ 1 \in Versions /\ 0 \notin Versions /\ OnDisk \in {{}, Versions}
BY OnDiskAssumption DEF Versions

LEMMA InitIInv == Init => IInv
<1> SUFFICES ASSUME Init PROVE IInv
  OBVIOUS
<1> USE DEF Init, Schema!Init, Service!Init
<1>1. \/ schema = {} /\ table = FALSE /\ records = {} /\ missed = {}
      \/ \E n \in Versions :
           /\ schema = 1 .. n
           /\ \/ table \in BOOLEAN /\ records = {} /\ missed = (n + 1) .. Newest
              \/ table = TRUE /\ records = 0 .. n /\ missed = {}
              \/ \E m \in n .. Newest : table = TRUE /\ records = 1 .. m /\ missed = (n + 1) .. m
  BY DEF Schema!InitialDatabase, Versions
<1>2. /\ schema \in SUBSET Versions /\ records \in SUBSET (0 .. Newest) /\ table \in BOOLEAN
      /\ missed \in SUBSET Versions /\ DatabaseInv
  <2>1. ASSUME NEW n \in Versions, NEW m \in n .. Newest
        PROVE  /\ 1 .. n \subseteq Versions /\ 0 .. n \subseteq 0 .. Newest /\ 1 .. m \subseteq 0 .. Newest
               /\ (n + 1) .. m \subseteq Versions /\ (n + 1) .. m \subseteq 1 .. m
               /\ (n + 1) .. m \cap 1 .. n = {} /\ 1 .. m \subseteq (1 .. n) \union ((n + 1) .. m)
               /\ 1 \in 1 .. n
    BY VersionsFacts DEF Versions
  <2>2. \A n \in Versions : Newest \in n .. Newest /\ 0 .. n \ {0} \subseteq 1 .. n /\ 0 \in 0 .. n
    BY VersionsFacts DEF Versions
  <2>3. CASE schema = {} /\ table = FALSE /\ records = {} /\ missed = {}
    BY <2>3 DEF DatabaseInv
  <2>4. ASSUME NEW n \in Versions, schema = 1 .. n, table \in BOOLEAN, records = {}, missed = (n + 1) .. Newest
        PROVE  schema \in SUBSET Versions /\ missed \in SUBSET Versions /\ DatabaseInv
    BY <2>1, <2>2, <2>4 DEF DatabaseInv, Versions
  <2>5. ASSUME NEW n \in Versions, schema = 1 .. n, table = TRUE, records = 0 .. n, missed = {}
        PROVE  schema \in SUBSET Versions /\ records \in SUBSET (0 .. Newest) /\ DatabaseInv
    BY <2>1, <2>2, <2>5 DEF DatabaseInv
  <2>6. ASSUME NEW n \in Versions, NEW m \in n .. Newest, schema = 1 .. n, table = TRUE, records = 1 .. m,
               missed = (n + 1) .. m
        PROVE  /\ schema \in SUBSET Versions /\ records \in SUBSET (0 .. Newest)
               /\ missed \in SUBSET Versions /\ DatabaseInv
    <3>1. 1 \in records /\ records \ {0} = records
      BY <2>6, VersionsFacts DEF Versions
    <3> QED BY <2>1, <2>6, <3>1 DEF DatabaseInv
  <2> QED BY <1>1, <2>3, <2>4, <2>5, <2>6
<1>4. \A r \in Replicas : boot[r] = Schema!Down /\ boot[r].pc = "down"
  BY DEF Schema!Down
<1>5. \A r \in Replicas : \A u \in Service!Users : user[r][u] = "absent"
  BY DEF Service!ReadyToServe
<1>6. TypeOK
  <2>1. boot \in [Replicas -> [pc : BootPcs, sentinel : BOOLEAN, plan : SUBSET OnDisk]]
    BY DEF Schema!Down, BootPcs
  <2>2. user \in [Replicas -> [Service!Users -> {"absent", "idle", "busy", "gone"}]]
    BY DEF Service!ReadyToServe
  <2> QED BY <1>2, <2>1, <2>2 DEF TypeOK, Stages
<1>7. BootInv
  BY <1>4 DEF BootInv, Schema!At
<1>8. ProcessInv
  BY <1>5 DEF ProcessInv, Process
<1> QED BY <1>2, <1>6, <1>7, <1>8 DEF IInv

-----------------------------------------------------------------------------
(* The schema step.                                                        *)

\* A step of r's boot: what is in the database grows, and what r has found out
\* is true of it.
LEMMA BootStepKeeps ==
  ASSUME IInv, NEW r \in Replicas, ~ Schema!At(r, "served"), UNCHANGED <<missed, serviceVars, kills>>,
         schema \subseteq schema', schema' \subseteq Versions, records \subseteq records',
         records' \subseteq 0 .. Newest, table' \in BOOLEAN, table => table', DatabaseInv',
         boot' \in [Replicas -> [pc : BootPcs, sentinel : BOOLEAN, plan : SUBSET OnDisk]],
         \A q \in Replicas \ {r} : boot'[q] = boot[q],
         boot'[r].pc # "served",
         boot'[r].pc = "counting" /\ boot'[r].sentinel => 1 \in schema',
         boot'[r].pc = "counting" /\ ~ boot'[r].sentinel => missed = {},
         boot'[r].pc = "baselining" => Versions \subseteq schema' \union missed,
         boot'[r].pc = "opening" => missed = {} \/ records' # {},
         boot'[r].pc \in {"listing", "applying"} => OnDisk = Versions /\ table',
         boot'[r].pc = "applying" => OnDisk \ boot'[r].plan \subseteq records' /\ boot'[r].plan \cap missed = {},
         boot'[r].pc = "ready" => Versions \subseteq records'
  PROVE  IInv'
<1>1. TypeOK'
  BY DEF IInv, TypeOK, serviceVars
<1>2. BootInv'
  BY DEF IInv, BootInv, TypeOK, Schema!At
<1>3. UNCHANGED <<stage, user, open, expired, refused>> /\ boot[r].pc # "served"
  BY DEF serviceVars, Schema!At
<1>4. \A q \in Replicas : Process(q)'
  BY <1>3 DEF IInv, ProcessInv, Process, Joined
<1> QED BY <1>1, <1>2, <1>4 DEF IInv, ProcessInv

\* A step of r's boot that leaves the database alone.
LEMMA GoKeeps ==
  ASSUME IInv, NEW r \in Replicas, ~ Schema!At(r, "served"), UNCHANGED <<missed, serviceVars, kills>>,
         UNCHANGED <<schema, table, records>>,
         boot' \in [Replicas -> [pc : BootPcs, sentinel : BOOLEAN, plan : SUBSET OnDisk]],
         \A q \in Replicas \ {r} : boot'[q] = boot[q],
         boot'[r].pc # "served",
         boot'[r].pc = "counting" /\ boot'[r].sentinel => 1 \in schema,
         boot'[r].pc = "counting" /\ ~ boot'[r].sentinel => missed = {},
         boot'[r].pc = "baselining" => Versions \subseteq schema \union missed,
         boot'[r].pc = "opening" => missed = {} \/ records # {},
         boot'[r].pc \in {"listing", "applying"} => OnDisk = Versions /\ table,
         boot'[r].pc = "applying" => OnDisk \ boot'[r].plan \subseteq records /\ boot'[r].plan \cap missed = {},
         boot'[r].pc = "ready" => Versions \subseteq records
  PROVE  IInv'
<1>1. DatabaseInv'
  BY DEF IInv, DatabaseInv
<1> QED BY <1>1, BootStepKeeps DEF IInv, TypeOK

LEMMA BootsKeep ==
  ASSUME IInv, NEW r \in Replicas, Boots(r)
  PROVE  IInv'
<1> DEFINE Entry == [pc : BootPcs, sentinel : BOOLEAN, plan : SUBSET OnDisk]
<1>1. UNCHANGED <<missed, serviceVars, kills>> /\ boot[r] \in Entry
  BY DEF Boots, IInv, TypeOK
<1>2. CASE Schema!StartBoot(r)
  <2>1. boot[r].pc = "down" /\ boot' = [boot EXCEPT ![r].pc = "probing"] /\ UNCHANGED <<schema, table, records>>
    BY <1>2 DEF Schema!StartBoot, Schema!At, Schema!Go
  <2>2. boot' \in [Replicas -> Entry] /\ boot'[r].pc = "probing" /\ \A q \in Replicas \ {r} : boot'[q] = boot[q]
    BY <2>1 DEF IInv, TypeOK, BootPcs
  <2> QED BY <1>1, <2>1, <2>2, GoKeeps DEF Schema!At
<1>3. CASE Schema!ProbeSentinel(r)
  <2> DEFINE s == Schema!Sentinel
  <2>1. /\ boot[r].pc = "probing" /\ UNCHANGED <<schema, table, records>>
        /\ boot' = [boot EXCEPT ![r].pc = "counting", ![r].sentinel = s]
    BY <1>3 DEF Schema!ProbeSentinel, Schema!At
  <2>2. s \in BOOLEAN /\ (s => 1 \in schema) /\ (~ s => missed = {})
    BY DEF Schema!Sentinel, IInv, DatabaseInv
  <2> HIDE DEF s
  <2>3. /\ boot' \in [Replicas -> Entry] /\ boot'[r].pc = "counting" /\ boot'[r].sentinel = s
        /\ \A q \in Replicas \ {r} : boot'[q] = boot[q]
    BY <2>1, <2>2 DEF IInv, TypeOK, BootPcs
  <2> QED BY <1>1, <2>1, <2>2, <2>3, GoKeeps DEF Schema!At
<1>4. CASE Schema!ProbeVersions(r)
  <2> DEFINE next == IF boot[r].sentinel /\ records = {} THEN "baselining" ELSE "opening"
  <2>1. boot[r].pc = "counting" /\ boot' = [boot EXCEPT ![r].pc = next] /\ UNCHANGED <<schema, table, records>>
    BY <1>4 DEF Schema!ProbeVersions, Schema!At, Schema!Go
  <2>2. boot' \in [Replicas -> Entry] /\ boot'[r].pc = next /\ \A q \in Replicas \ {r} : boot'[q] = boot[q]
    BY <2>1 DEF IInv, TypeOK, BootPcs
  <2>3. /\ next = "baselining" => Versions \subseteq schema \union missed
        /\ next = "opening" => missed = {} \/ records # {}
    BY <2>1, <1>1 DEF IInv, BootInv, DatabaseInv, Schema!At
  <2> QED BY <1>1, <2>1, <2>2, <2>3, GoKeeps DEF Schema!At
<1>5. CASE Schema!Baseline(r)
  <2>1. /\ boot[r].pc = "baselining" /\ OnDisk # {} /\ table /\ UNCHANGED <<schema, table>>
        /\ records' = records \union OnDisk /\ boot' = [boot EXCEPT ![r].pc = "ready"]
    BY <1>5 DEF Schema!Baseline, Schema!At, Schema!Go
  <2>2. boot' \in [Replicas -> Entry] /\ boot'[r].pc = "ready" /\ \A q \in Replicas \ {r} : boot'[q] = boot[q]
    BY <2>1 DEF IInv, TypeOK, BootPcs
  <2>3. Versions \subseteq schema \union missed /\ OnDisk = Versions
    BY <2>1, VersionsFacts DEF IInv, BootInv, Schema!At
  <2>4. records' \subseteq 0 .. Newest /\ Versions \subseteq records'
    BY <2>1, <2>3, VersionsFacts DEF Versions, IInv, TypeOK
  <2>5. DatabaseInv'
    <3>1. missed \subseteq records' /\ records' # {} /\ records' \ {0} \subseteq schema \union missed
      BY <2>1, <2>3, <2>4, VersionsFacts DEF IInv, TypeOK, DatabaseInv
    <3> QED BY <1>1, <2>1, <3>1 DEF IInv, DatabaseInv
  <2> QED BY <1>1, <2>1, <2>2, <2>3, <2>4, <2>5, BootStepKeeps DEF Schema!At, IInv, TypeOK
<1>6. CASE Schema!OpenProvider(r)
  <2>1. /\ boot[r].pc = "opening" /\ OnDisk # {} /\ UNCHANGED schema
        /\ boot' = [boot EXCEPT ![r].pc = "listing"]
        /\ IF table THEN UNCHANGED <<table, records>> ELSE table' = TRUE /\ records' = {0}
    BY <1>6 DEF Schema!OpenProvider, Schema!At, Schema!Go
  <2>2. boot' \in [Replicas -> Entry] /\ boot'[r].pc = "listing" /\ \A q \in Replicas \ {r} : boot'[q] = boot[q]
    BY <2>1 DEF IInv, TypeOK, BootPcs
  <2>3. OnDisk = Versions
    BY <2>1, VersionsFacts
  <2>4. records \subseteq records' /\ records' \subseteq 0 .. Newest /\ table' \in BOOLEAN
    <3>1. CASE table
      BY <2>1, <3>1 DEF IInv, TypeOK
    <3>2. CASE ~ table
      <4>1. 0 \in 0 .. Newest
        BY VersionsFacts
      <4> QED BY <2>1, <3>2, <4>1 DEF IInv, DatabaseInv
    <3> QED BY <3>1, <3>2
  <2>5. DatabaseInv'
    <3>1. CASE table
      BY <1>1, <2>1, <3>1 DEF IInv, DatabaseInv
    <3>2. CASE ~ table
      <4>1. missed = {}
        BY <2>1, <3>2 DEF IInv, DatabaseInv, BootInv, Schema!At
      <4> QED BY <1>1, <2>1, <3>2, <4>1 DEF IInv, DatabaseInv
    <3> QED BY <3>1, <3>2
  <2> QED BY <1>1, <2>1, <2>2, <2>3, <2>4, <2>5, BootStepKeeps DEF Schema!At, IInv, TypeOK
<1>7. CASE Schema!ListVersions(r)
  <2>1. /\ boot[r].pc = "listing" /\ UNCHANGED <<schema, table, records>>
        /\ boot' = [boot EXCEPT ![r].pc = "applying", ![r].plan = OnDisk \ records]
        /\ records # {}
    BY <1>7 DEF Schema!ListVersions, Schema!At
  <2>2. /\ boot' \in [Replicas -> Entry] /\ boot'[r].pc = "applying" /\ boot'[r].plan = OnDisk \ records
        /\ \A q \in Replicas \ {r} : boot'[q] = boot[q]
    BY <2>1 DEF IInv, TypeOK, BootPcs
  <2>3. OnDisk = Versions /\ table /\ (OnDisk \ records) \cap missed = {}
    BY <2>1 DEF IInv, BootInv, DatabaseInv, Schema!At
  <2> QED BY <1>1, <2>1, <2>2, <2>3, GoKeeps DEF Schema!At
<1>8. CASE Schema!Apply(r)
  <2>1. PICK v \in boot[r].plan :
          /\ schema' = schema \union {v} /\ records' = records \union {v}
          /\ boot' = [boot EXCEPT ![r].plan = @ \ {v}]
    BY <1>8 DEF Schema!Apply
  <2>2. boot[r].pc = "applying" /\ UNCHANGED table
    BY <1>8 DEF Schema!Apply, Schema!At
  <2>3. /\ boot' \in [Replicas -> Entry] /\ boot'[r].pc = "applying" /\ boot'[r].plan = boot[r].plan \ {v}
        /\ \A q \in Replicas \ {r} : boot'[q] = boot[q]
    BY <2>1, <2>2 DEF IInv, TypeOK
  <2>4. OnDisk = Versions /\ table /\ OnDisk \ boot[r].plan \subseteq records /\ v \in Versions
        /\ boot[r].plan \cap missed = {} /\ v \notin missed
    BY <1>1, <2>2 DEF IInv, BootInv, Schema!At
  <2>5. schema' \subseteq Versions /\ records' \subseteq 0 .. Newest
    BY <2>1, <2>4, VersionsFacts DEF IInv, TypeOK, Versions
  <2>6. DatabaseInv'
    <3>1. /\ records' # {} /\ records' \ {0} \subseteq schema' \union missed /\ missed \cap schema' = {}
          /\ missed # {} => 1 \in schema'
      BY <2>1, <2>4 DEF IInv, DatabaseInv
    <3>2. missed \subseteq records'
      <4>1. CASE records = {}
        <5>1. v \in Versions \ missed /\ OnDisk \ boot[r].plan = {}
          BY <2>4, <4>1
        <5>2. missed = {}
          BY <2>4, <5>1 DEF IInv, TypeOK
        <5> QED BY <5>2
      <4>2. CASE records # {}
        BY <2>1, <4>2 DEF IInv, DatabaseInv
      <4> QED BY <4>1, <4>2
    <3> QED BY <1>1, <2>2, <2>4, <3>1, <3>2 DEF DatabaseInv
  <2> QED BY <1>1, <2>1, <2>2, <2>3, <2>4, <2>5, <2>6, BootStepKeeps DEF Schema!At, IInv, TypeOK
<1>9. CASE Schema!Finish(r)
  <2>1. /\ boot[r].pc = "applying" /\ boot[r].plan = {} /\ UNCHANGED <<schema, table, records>>
        /\ boot' = [boot EXCEPT ![r].pc = "ready"]
    BY <1>9 DEF Schema!Finish, Schema!At, Schema!Go
  <2>2. boot' \in [Replicas -> Entry] /\ boot'[r].pc = "ready" /\ \A q \in Replicas \ {r} : boot'[q] = boot[q]
    BY <2>1 DEF IInv, TypeOK, BootPcs
  <2>3. Versions \subseteq records
    BY <2>1 DEF IInv, BootInv, Schema!At
  <2> QED BY <1>1, <2>1, <2>2, <2>3, GoKeeps DEF Schema!At
<1>10. CASE Schema!Fail(r)
  <2>1. /\ boot[r].pc # "served" /\ UNCHANGED <<schema, table, records>>
        /\ boot' = [boot EXCEPT ![r] = Schema!Down]
    BY <1>10 DEF Schema!Fail, Schema!Refused, Schema!At
  <2>2. boot' \in [Replicas -> Entry] /\ boot'[r].pc = "down" /\ \A q \in Replicas \ {r} : boot'[q] = boot[q]
    BY <2>1 DEF IInv, TypeOK, BootPcs, Schema!Down
  <2> QED BY <1>1, <2>1, <2>2, GoKeeps DEF Schema!At
<1> QED BY <1>2, <1>3, <1>4, <1>5, <1>6, <1>7, <1>8, <1>9, <1>10 DEF Boots, Schema!Run

-----------------------------------------------------------------------------
(* The service.                                                            *)

\* The schema step's part of the invariant, when the database is left alone and
\* boots only end or are served.
LEMMA BootStays ==
  ASSUME IInv, UNCHANGED <<schema, table, records, missed>>, NEW r \in Replicas,
         \A q \in Replicas \ {r} : boot'[q] = boot[q],
         boot'[r] = boot[r] \/ boot'[r].pc = "down" \/ (boot'[r].pc = "served" /\ Schema!At(r, "ready"))
  PROVE  DatabaseInv' /\ BootInv'
<1>1. DatabaseInv'
  BY DEF IInv, DatabaseInv
<1>2. Schema!At(r, "ready") => Versions \subseteq schema \union missed
  BY VersionsFacts DEF IInv, DatabaseInv, BootInv
<1>3. BootInv'
  BY <1>2 DEF IInv, BootInv, Schema!At
<1> QED BY <1>1, <1>3

\* A step of one process of the service.
LEMMA ProcessStepKeeps ==
  ASSUME IInv, NEW r \in Replicas, TypeOK', DatabaseInv', BootInv', Process(r)',
         \A q \in Replicas \ {r} :
           /\ stage'[q] = stage[q] /\ user'[q] = user[q] /\ open'[q] = open[q] /\ boot'[q] = boot[q]
           /\ expired'[q] = expired[q] /\ refused'[q] = refused[q]
  PROVE  IInv'
<1>1. ASSUME NEW q \in Replicas \ {r} PROVE Process(q)'
  <2>1. Process(q)
    BY DEF IInv, ProcessInv
  <2> QED BY <2>1 DEF Process, Joined
<1> QED BY <1>1 DEF IInv, ProcessInv

LEMMA ServesKeeps ==
  ASSUME IInv, NEW r \in Replicas, Serves(r)
  PROVE  IInv'
<1>1. /\ boot[r].pc = "ready" /\ boot' = [boot EXCEPT ![r].pc = "served"]
      /\ UNCHANGED <<schema, table, records, missed, kills, expired, refused>>
      /\ stage[r] = "down" /\ stage' = [stage EXCEPT ![r] = "serving"]
      /\ open' = [open EXCEPT ![r] = TRUE]
  BY DEF Serves, Schema!At, Schema!Go, Service!Serve
<1>2. PICK f \in [Service!Users -> {"absent", "idle"}] : user' = [user EXCEPT ![r] = f]
  <2>1. PICK bot \in BOOLEAN, gemini \in BOOLEAN :
          user' = [user EXCEPT ![r] = [u \in Service!Users |->
                     IF (u \in {"polling", "handlers"} /\ ~ bot) \/ (u = "worker" /\ ~ gemini)
                     THEN "absent" ELSE "idle"]]
    BY DEF Serves, Service!Serve
  <2> QED BY <2>1
<1>3. TypeOK'
  <2>1. boot' \in [Replicas -> [pc : BootPcs, sentinel : BOOLEAN, plan : SUBSET OnDisk]]
    BY <1>1 DEF IInv, TypeOK, BootPcs
  <2>2. user' \in [Replicas -> [Service!Users -> {"absent", "idle", "busy", "gone"}]]
    BY <1>2 DEF IInv, TypeOK
  <2> QED BY <1>1, <2>1, <2>2 DEF IInv, TypeOK, Stages
<1>4. boot'[r].pc = "served" /\ \A q \in Replicas \ {r} : boot'[q] = boot[q]
  BY <1>1 DEF IInv, TypeOK
<1>5. DatabaseInv' /\ BootInv'
  BY <1>1, <1>4, BootStays DEF Schema!At
<1>6. stage'[r] = "serving" /\ open'[r] = TRUE
      /\ \A q \in Replicas \ {r} : stage'[q] = stage[q] /\ user'[q] = user[q] /\ open'[q] = open[q]
  BY <1>1, <1>2 DEF IInv, TypeOK
<1>7. Process(r)'
  BY <1>1, <1>4, <1>6 DEF IInv, ProcessInv, Process
<1> QED BY <1>1, <1>3, <1>4, <1>5, <1>6, <1>7, ProcessStepKeeps

\* What no user's step and no stopping step does is to touch the boot.
LEMMA BootUntouched ==
  ASSUME IInv, UNCHANGED bootVars
  PROVE  DatabaseInv' /\ BootInv' /\ UNCHANGED <<schema, table, records, boot, missed>>
BY DEF bootVars, IInv, DatabaseInv, BootInv, Schema!At

\* Whoever is idle when the pool is closed has outlasted its step, or belongs to
\* a Telegram handler.
LEMMA AcquireKeeps ==
  ASSUME IInv, NEW r \in Replicas, NEW u \in Service!Users, Service!Acquire(r, u), UNCHANGED <<bootVars, kills>>
  PROVE  IInv'
<1>1. u # "polling" /\ user[r][u] = "idle" /\ UNCHANGED <<stage, open, expired>>
  BY DEF Service!Acquire
<1>2. DatabaseInv' /\ BootInv' /\ UNCHANGED <<schema, table, records, boot, missed>>
  BY BootUntouched
<1>3. Process(r)
  BY DEF IInv, ProcessInv
<1>4. CASE open[r] = TRUE
  <2>1. user' = [user EXCEPT ![r][u] = "busy"] /\ UNCHANGED refused
    BY <1>4 DEF Service!Acquire
  <2>2. TypeOK'
    BY <1>1, <1>2, <2>1 DEF IInv, TypeOK
  <2>3. /\ \A v \in Service!Users : user'[r][v] = IF v = u THEN "busy" ELSE user[r][v]
        /\ \A q \in Replicas \ {r} : user'[q] = user[q]
    BY <2>1 DEF IInv, TypeOK
  <2>4. Process(r)'
    BY <1>1, <1>2, <1>3, <2>1, <2>3 DEF Process, Joined, Service!Users
  <2> QED BY <1>1, <1>2, <2>1, <2>2, <2>3, <2>4, ProcessStepKeeps
<1>5. CASE open[r] = FALSE
  <2>1. refused' = [refused EXCEPT ![r] = @ \union {u}] /\ UNCHANGED user
    BY <1>5 DEF Service!Acquire
  <2>2. TypeOK'
    BY <1>1, <1>2, <2>1 DEF IInv, TypeOK
  <2>3. stage[r] = "close"
    BY <1>1, <1>3, <1>5 DEF Process
  <2>4. u \in {"handlers"} \union expired[r]
    BY <1>1, <1>3, <2>3 DEF Process, Joined, Service!Users
  <2>5. refused'[r] = refused[r] \union {u} /\ \A q \in Replicas \ {r} : refused'[q] = refused[q]
    BY <2>1 DEF IInv, TypeOK
  <2>6. Process(r)'
    BY <1>1, <1>2, <1>3, <2>1, <2>4, <2>5 DEF Process, Joined
  <2> QED BY <1>1, <1>2, <2>1, <2>2, <2>5, <2>6, ProcessStepKeeps
<1>6. open[r] \in BOOLEAN
  BY DEF IInv, TypeOK
<1> QED BY <1>4, <1>5, <1>6

LEMMA WorksKeeps ==
  ASSUME IInv, NEW r \in Replicas, NEW u \in Service!Users, Works(r, u)
  PROVE  IInv'
<1>1. UNCHANGED <<bootVars, kills>>
  BY DEF Works
<1>2. ASSUME NEW to \in {"idle", "gone"}, user' = [user EXCEPT ![r][u] = to],
             user[r][u] \in {"idle", "busy"}, UNCHANGED <<stage, open, expired, refused>>
      PROVE  IInv'
  <2>1. DatabaseInv' /\ BootInv' /\ UNCHANGED <<schema, table, records, boot, missed>>
    BY <1>1, BootUntouched
  <2>2. TypeOK'
    BY <1>2, <2>1 DEF IInv, TypeOK
  <2>3. /\ \A v \in Service!Users : user'[r][v] = IF v = u THEN to ELSE user[r][v]
        /\ \A q \in Replicas \ {r} : user'[q] = user[q]
    BY <1>2 DEF IInv, TypeOK
  <2>4. Process(r)
    BY DEF IInv, ProcessInv
  <2>5. Process(r)'
    BY <1>2, <2>1, <2>3, <2>4 DEF Process, Joined, Service!Users
  <2> QED BY <1>2, <2>1, <2>2, <2>3, <2>5, ProcessStepKeeps
<1>3. CASE Service!Acquire(r, u)
  BY <1>1, <1>3, AcquireKeeps
<1>4. CASE Service!Release(r, u)
  BY <1>2, <1>4 DEF Service!Release
<1>5. CASE Service!Leave(r, u)
  BY <1>2, <1>5 DEF Service!Leave
<1> QED BY <1>3, <1>4, <1>5 DEF Works

\* The steps that wait, for whom, and what follows.
Leg(at, u, next) ==
  \/ at = "drain" /\ u = "http" /\ next = "join polling"
  \/ at = "join polling" /\ u = "polling" /\ next = "join worker"
  \/ at = "join worker" /\ u = "worker" /\ next = "close"

LEMMA WaitKeeps ==
  ASSUME IInv, NEW r \in Replicas, NEW at, NEW u, NEW next, Leg(at, u, next),
         Service!Wait(r, at, u, next), UNCHANGED <<bootVars, kills>>
  PROVE  IInv'
<1>1. stage[r] = at /\ stage' = [stage EXCEPT ![r] = next] /\ UNCHANGED <<user, open, refused>>
  BY DEF Service!Wait
<1>2. at \in Stages \ {"down"} /\ next \in Stages \ {"down"} /\ u \in Service!Users
  BY DEF Leg, Stages, Service!Stopping, Service!Users
<1>3. /\ expired' \in [Replicas -> SUBSET Service!Users]
      /\ expired[r] \subseteq expired'[r] /\ Joined(r, u)'
      /\ \A q \in Replicas \ {r} : expired'[q] = expired[q]
  <2>1. CASE user[r][u] \in {"gone", "absent"} /\ UNCHANGED expired
    BY <1>1, <2>1 DEF IInv, TypeOK, Joined
  <2>2. CASE expired' = [expired EXCEPT ![r] = @ \union {u}]
    BY <1>2, <2>2 DEF IInv, TypeOK, Joined
  <2> QED BY <2>1, <2>2 DEF Service!Wait
<1>4. DatabaseInv' /\ BootInv' /\ UNCHANGED <<schema, table, records, boot, missed>>
  BY BootUntouched
<1>5. TypeOK'
  BY <1>1, <1>2, <1>3, <1>4 DEF IInv, TypeOK
<1>6. stage'[r] = next /\ \A q \in Replicas \ {r} : stage'[q] = stage[q]
  BY <1>1 DEF IInv, TypeOK
<1>7. Process(r)'
  <2>1. Process(r)
    BY DEF IInv, ProcessInv
  <2> QED BY <1>1, <1>2, <1>3, <1>4, <1>6, <2>1 DEF Process, Joined, Leg
<1> QED BY <1>1, <1>3, <1>4, <1>5, <1>6, <1>7, ProcessStepKeeps

\* The end of a process, on its own or by a kill.
LEMMA ExitKeeps ==
  ASSUME IInv, NEW r \in Replicas, Service!Exit(r), boot' = [boot EXCEPT ![r] = Schema!Down],
         UNCHANGED <<schema, table, records, missed>>
  PROVE  IInv'
<1>1. /\ boot'[r].pc = "down" /\ \A q \in Replicas \ {r} : boot'[q] = boot[q]
      /\ boot' \in [Replicas -> [pc : BootPcs, sentinel : BOOLEAN, plan : SUBSET OnDisk]]
  BY DEF IInv, TypeOK, Schema!Down, BootPcs
<1>2. Service!ReadyToServe \in [Service!Users -> {"absent", "idle", "busy", "gone"}]
      /\ \A u \in Service!Users : Service!ReadyToServe[u] = "absent"
  BY DEF Service!ReadyToServe
<1>3. TypeOK'
  BY <1>1, <1>2 DEF IInv, TypeOK, Service!Exit, Stages
<1>4. DatabaseInv' /\ BootInv'
  BY <1>1, BootStays
<1>5. /\ stage'[r] = "down" /\ user'[r] = Service!ReadyToServe /\ refused'[r] = {}
      /\ \A q \in Replicas \ {r} : /\ stage'[q] = stage[q] /\ user'[q] = user[q] /\ open'[q] = open[q]
                                   /\ expired'[q] = expired[q] /\ refused'[q] = refused[q]
  BY DEF IInv, TypeOK, Service!Exit
<1>6. Process(r)'
  BY <1>2, <1>5 DEF Process
<1> QED BY <1>1, <1>3, <1>4, <1>5, <1>6, ProcessStepKeeps

LEMMA ShutsKeeps ==
  ASSUME IInv, NEW r \in Replicas, Shuts(r)
  PROVE  IInv'
<1>1. UNCHANGED <<schema, table, records, missed, kills>>
      /\ boot' = IF stage'[r] = "down" THEN [boot EXCEPT ![r] = Schema!Down] ELSE boot
  BY DEF Shuts
<1>2. CASE Service!Exit(r)
  <2>1. stage'[r] = "down"
    BY <1>2 DEF Service!Exit, IInv, TypeOK
  <2> QED BY <1>1, <1>2, <2>1, ExitKeeps
<1>3. ASSUME NEW at, NEW u, NEW next, Service!Wait(r, at, u, next), Leg(at, u, next)
      PROVE  IInv'
  <2>1. stage'[r] = next /\ next # "down"
    BY <1>3 DEF Service!Wait, Leg, IInv, TypeOK
  <2>2. UNCHANGED <<bootVars, kills>>
    BY <1>1, <2>1 DEF bootVars
  <2> QED BY <1>3, <2>2, WaitKeeps
<1>4. CASE Service!BeginClose(r)
  <2>1. stage[r] = "close" /\ open' = [open EXCEPT ![r] = FALSE] /\ UNCHANGED <<stage, user, expired, refused>>
    BY <1>4 DEF Service!BeginClose
  <2>2. UNCHANGED bootVars
    BY <1>1, <2>1 DEF bootVars
  <2>3. DatabaseInv' /\ BootInv' /\ UNCHANGED <<schema, table, records, boot, missed>>
    BY <2>2, BootUntouched
  <2>4. TypeOK' /\ \A q \in Replicas \ {r} : open'[q] = open[q]
    BY <2>1, <2>3 DEF IInv, TypeOK
  <2>5. Process(r)'
    BY <2>1, <2>3 DEF IInv, ProcessInv, Process, Joined
  <2> QED BY <2>1, <2>3, <2>4, <2>5, ProcessStepKeeps
<1>5. CASE Service!EndClose(r)
  BY <1>2, <1>5 DEF Service!EndClose
<1>6. CASE Service!Steps(r)
  BY <1>2, <1>3, <1>6 DEF Service!Steps, Leg
<1> QED BY <1>4, <1>5, <1>6 DEF Shuts, Service!Shut

LEMMA StopsKeeps ==
  ASSUME IInv, NEW r \in Replicas, Stops(r)
  PROVE  IInv'
<1>1. /\ stage[r] = "serving" /\ stage' = [stage EXCEPT ![r] = "drain"]
      /\ UNCHANGED <<user, open, expired, refused, bootVars, kills>>
  BY DEF Stops, Service!Signal
<1>2. stage'[r] = "drain" /\ \A q \in Replicas \ {r} : stage'[q] = stage[q]
  BY <1>1 DEF IInv, TypeOK
<1>3. DatabaseInv' /\ BootInv' /\ UNCHANGED <<schema, table, records, boot, missed>>
  BY <1>1, BootUntouched
<1>4. TypeOK'
  BY <1>1, <1>3 DEF IInv, TypeOK, Stages, Service!Stopping
<1>5. Process(r)'
  BY <1>1, <1>2, <1>3 DEF IInv, ProcessInv, Process
<1> QED BY <1>1, <1>2, <1>3, <1>4, <1>5, ProcessStepKeeps

-----------------------------------------------------------------------------
(* The invariant and what follows.                                         *)

LEMMA StepKeeps == IInv /\ [Next]_vars => IInv'
<1> SUFFICES ASSUME IInv, [Next]_vars PROVE IInv'
  OBVIOUS
<1>1. CASE UNCHANGED vars
  <2>1. UNCHANGED <<bootVars, stage, user, open, expired, refused>>
    BY <1>1 DEF vars, serviceVars
  <2>2. DatabaseInv' /\ BootInv' /\ UNCHANGED <<schema, table, records, boot, missed>>
    BY <2>1, BootUntouched
  <2>3. TypeOK'
    BY <2>1, <2>2 DEF IInv, TypeOK
  <2>4. ProcessInv'
    BY <2>1, <2>2 DEF IInv, ProcessInv, Process, Joined
  <2> QED BY <2>2, <2>3, <2>4 DEF IInv
<1>2. ASSUME NEW r \in Replicas, Kill(r) PROVE IInv'
  BY <1>2, ExitKeeps DEF Kill
<1> QED BY <1>1, <1>2, BootsKeep, ServesKeeps, WorksKeeps, StopsKeeps, ShutsKeeps DEF Next

\* What the boots have found out, what the database holds and what each stopping
\* process has waited for agree at every moment.
THEOREM IInvHolds == Spec => []IInv
<1> QED BY InitIInv, StepKeeps, PTL DEF Spec

\* OnlyMissedVersionsAreLacking: any number of processes may probe, baseline and
\* migrate one database at once and die anywhere (migrations.Run takes no lock
\* for the whole step), and it may come from any release: what is recorded
\* without being in effect, and what a served schema lacks, is what the database
\* had been set up without, and all of that.
THEOREM OthersAreNotLacking == Spec => []OnlyMissedVersionsAreLacking
<1>1. IInv => OnlyMissedVersionsAreLacking
  <2> SUFFICES ASSUME IInv PROVE OnlyMissedVersionsAreLacking
    OBVIOUS
  <2>1. Schema!RecordedVersionsAreApplied
    BY DEF IInv, DatabaseInv, Schema!RecordedVersionsAreApplied
  <2>2. Schema!ReadyMeansComplete
    BY VersionsFacts DEF IInv, DatabaseInv, BootInv, Schema!ReadyMeansComplete, Versions
  <2>3. \A r \in Replicas : Serving(r) => 1 .. Newest \subseteq schema \union missed
    BY DEF IInv, ProcessInv, Process, BootInv, Serving, Versions, Schema!At
  <2> QED BY <2>1, <2>2, <2>3 DEF OnlyMissedVersionsAreLacking
<1> QED BY <1>1, IInvHolds, PTL

\* OnlyTheUnjoinedAreRefused: RunShutdown closes the pool under nobody but the
\* Telegram handlers, and those whose step ran out of its budget.
THEOREM OthersAreNotRefused == Spec => []OnlyTheUnjoinedAreRefused
<1>1. IInv => OnlyTheUnjoinedAreRefused
  BY DEF IInv, ProcessInv, Process, OnlyTheUnjoinedAreRefused, Service!OnlyTheUnjoinedAreRefused
<1> QED BY <1>1, IInvHolds, PTL

=============================================================================
