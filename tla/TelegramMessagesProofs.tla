----------------------- MODULE TelegramMessagesProofs -----------------------
(***************************************************************************)
(* Proofs about TelegramMessages for any messages, handlings and taps and  *)
(* any number of faults: what the one-time token of a prompt gives to the  *)
(* unconditional updates behind it, and why one fault loses no text.       *)
(***************************************************************************)
EXTENDS TelegramMessages, TLAPS

Keys == {KeyOf[m] : m \in Messages}
Key(h) == KeyOf[work[h].msg]

\* A callback was given h's prompt, and means to keep or to discard its text.
Taken(h, action) == \E t \in Taps : tap[t].took = TRUE /\ tap[t].on = h /\ tap[t].action = action

\* A goroutine is at what it was given h's prompt for.
AtWork(h) == \E t \in Taps : tap[t].took = TRUE /\ tap[t].on = h /\ tap[t].pc \in Tapping

\* What has become of a text whose handling could not stage it, nothing else
\* having failed.
Pursued(h) ==
  /\ work[h].pc \in (Running \ {"received"}) \union {"done"}
  /\ work[h].pc = "prompting" => prompt[h] \in {"live", "expired"}
  /\ work[h].pc = "done" =>
       \/ told[h] \in {"error", "answered"}
       \/ told[h] = "asked" /\ prompt[h] \in {"live", "expired"}
       \/ AtWork(h)

\* The row, the prompt and the object of a handling, by how far it is: buttons
\* are shown by a handling that is over, and only their prompt's taker follows.
HandlingInv(h) ==
  /\ work[h].pc # "idle" => work[h].msg \in Messages
  /\ shown[h] # "no" => work[h].pc = "done"
  /\ work[h].pc \in {"idle", "received"} => raw[h] = "absent"
  /\ work[h].pc \in {"idle", "received", "staged", "asking"} => prompt[h] = "unsaved"
  /\ work[h].pc = "stored" => objects[Key(h)] # Nobody
  /\ raw[h] = "promoted" =>
       /\ objects[Key(h)] # Nobody
       /\ (work[h].pc \in {"replying", "done", "cut"} /\ shown[h] = "no") \/ Taken(h, "keep")
  /\ raw[h] = "discarded" => Taken(h, "discard")
  /\ \A k \in Keys : objects[k] = h =>
       \/ work[h].pc \notin {"idle", "received", "staged", "asking", "prompting"} /\ shown[h] = "no"
       \/ Taken(h, "keep")
  /\ (faults <= 1 /\ raw[h] = "absent" /\ work[h].pc \notin {"idle", "received", "lost"}) =>
       faults = 1 /\ Pursued(h)

TapInv(t) ==
  /\ tap[t].pc # "idle" => tap[t].on \in Handlings /\ shown[tap[t].on] # "no"
  /\ tap[t].pc \in {"idle", "pressed"} => tap[t].took = FALSE
  /\ tap[t].pc \in Tapping \ {"pressed"} => tap[t].took = TRUE
  /\ tap[t].took = TRUE => prompt[tap[t].on] = "gone"
  /\ tap[t].pc \in {"keeping", "kept"} => tap[t].action = "keep"
  /\ tap[t].pc = "discarding" => tap[t].action = "discard"
  /\ tap[t].pc = "kept" => objects[Key(tap[t].on)] # Nobody

TakenOnce ==
  \A t, u \in Taps : (tap[t].took = TRUE /\ tap[u].took = TRUE /\ tap[t].on = tap[u].on) => t = u

\* The inductive invariant.
IInv ==
  /\ TypeOK /\ TakenOnce
  /\ \A h \in Handlings : HandlingInv(h)
  /\ \A t \in Taps : TapInv(t)

-----------------------------------------------------------------------------
(* The first state, and what a step leaves alone.                          *)

LEMMA InitIInv == Init => IInv
<1> SUFFICES ASSUME Init PROVE IInv
  OBVIOUS
<1>1. TypeOK
  BY NobodyAssumption DEF Init, TypeOK
<1>2. \A h \in Handlings : /\ work[h].pc = "idle" /\ raw[h] = "absent" /\ prompt[h] = "unsaved" /\ shown[h] = "no"
  BY DEF Init
<1>3. \A k \in Keys : objects[k] = Nobody
  BY DEF Init, Keys
<1>4. \A t \in Taps : tap[t].pc = "idle" /\ tap[t].took = FALSE
  BY DEF Init
<1>5. \A h \in Handlings : HandlingInv(h)
  BY <1>2, <1>3, NobodyAssumption DEF HandlingInv
<1>6. TakenOnce /\ \A t \in Taps : TapInv(t)
  BY <1>4 DEF TakenOnce, TapInv, Tapping
<1> QED BY <1>1, <1>5, <1>6 DEF IInv

\* No object goes, and a new one is h's.
ObjectsGrow(h) ==
  \A k \in Keys : objects'[k] = objects[k] \/ (objects[k] = Nobody /\ objects'[k] = h)

\* What nobody but h's goroutine, or a tap on h, writes.
OthersStay(h) ==
  \A g \in Handlings \ {h} :
    /\ work'[g] = work[g] /\ raw'[g] = raw[g] /\ prompt'[g] = prompt[g]
    /\ shown'[g] = shown[g] /\ told'[g] = told[g]

LEMMA IngestGrows ==
  ASSUME TypeOK, NEW h \in Handlings, work[h].msg \in Messages
  PROVE  /\ Key(h) \in Keys /\ Stored(h) \in [Keys -> Handlings \union {Nobody}]
         /\ Stored(h)[Key(h)] # Nobody
         /\ \A k \in Keys : Stored(h)[k] = objects[k] \/ (objects[k] = Nobody /\ Stored(h)[k] = h)
<1>1. Key(h) \in Keys /\ objects \in [Keys -> Handlings \union {Nobody}]
  BY DEF Key, Keys, TypeOK
<1> HIDE DEF Keys
<1>2. Stored(h) = IF objects[Key(h)] = Nobody THEN [objects EXCEPT ![Key(h)] = h] ELSE objects
  BY DEF Stored, Key
<1> QED BY <1>1, <1>2, NobodyAssumption

\* Another handling than the one that steps, or is stepped for.
LEMMA OtherHandling ==
  ASSUME IInv, NEW h \in Handlings, OthersStay(h), ObjectsGrow(h), faults' \in {faults, faults + 1},
         NEW g \in Handlings \ {h}, Taken(g, "keep") => Taken(g, "keep")', Taken(g, "discard") => Taken(g, "discard")',
         AtWork(g) => (AtWork(g)' \/ faults' > 1)
  PROVE  HandlingInv(g)'
<1>1. HandlingInv(g) /\ g # h /\ faults \in Nat
  BY NobodyAssumption DEF IInv, TypeOK
<1>2. /\ work'[g] = work[g] /\ raw'[g] = raw[g] /\ prompt'[g] = prompt[g]
      /\ shown'[g] = shown[g] /\ told'[g] = told[g] /\ Key(g)' = Key(g)
  BY DEF OthersStay, Key
<1>3. work[g].msg \in Messages => Key(g) \in Keys
  BY DEF Key, Keys
<1>4. work[g].pc \notin {"idle"} /\ objects[Key(g)] # Nobody => objects'[Key(g)] # Nobody
  BY <1>1, <1>3, NobodyAssumption DEF HandlingInv, ObjectsGrow
<1>5. \A k \in Keys : objects'[k] = g => objects[k] = g
  BY <1>1 DEF ObjectsGrow
<1>6. ASSUME faults' <= 1, raw[g] = "absent", work[g].pc \notin {"idle", "received", "lost"}
      PROVE  faults' = 1 /\ Pursued(g)'
  <2>1. faults = 1 /\ Pursued(g)
    BY <1>1, <1>6 DEF HandlingInv
  <2> QED BY <1>1, <1>2, <1>4, <1>6, <2>1 DEF Pursued, Running
<1> QED BY <1>1, <1>2, <1>4, <1>5, <1>6 DEF HandlingInv

\* A step of h's goroutine: no tap has to do with it yet.
LEMMA HandlingKeeps ==
  ASSUME IInv, NEW h \in Handlings, work[h].pc # "done", TypeOK', UNCHANGED tap,
         OthersStay(h), ObjectsGrow(h), faults' \in {faults, faults + 1}, HandlingInv(h)'
  PROVE  IInv'
<1>1. \A g \in Handlings, a \in {"keep", "discard"} : Taken(g, a)' <=> Taken(g, a)
  BY DEF Taken
<1>2. \A g \in Handlings : AtWork(g)' <=> AtWork(g)
  BY DEF AtWork
<1>3. \A g \in Handlings \ {h} : HandlingInv(g)'
  BY <1>1, <1>2, OtherHandling
<1>4. ASSUME NEW t \in Taps PROVE TapInv(t)'
  <2>1. TapInv(t)
    BY DEF IInv
  <2>2. tap[t].pc # "idle" => tap[t].on \in Handlings \ {h} /\ work[tap[t].on].pc = "done" /\ work[tap[t].on].msg \in Messages
    BY <2>1 DEF TapInv, IInv, HandlingInv
  <2>3. tap[t].pc = "idle" => tap[t].took = FALSE
    BY <2>1 DEF TapInv
  <2>4. CASE tap[t].pc = "idle"
    BY <2>3, <2>4 DEF TapInv, Tapping
  <2>5. CASE tap[t].pc # "idle"
    <3> DEFINE g == tap[t].on
    <3>1. prompt'[g] = prompt[g] /\ shown'[g] = shown[g] /\ Key(g)' = Key(g) /\ Key(g) \in Keys
      BY <2>2, <2>5 DEF OthersStay, Key, Keys
    <3>2. objects[Key(g)] # Nobody => objects'[Key(g)] # Nobody
      BY <3>1, NobodyAssumption DEF ObjectsGrow
    <3> QED BY <2>1, <3>1, <3>2 DEF TapInv
  <2> QED BY <2>4, <2>5
<1>5. TakenOnce'
  BY DEF IInv, TakenOnce
<1> QED BY <1>3, <1>4, <1>5 DEF IInv

-----------------------------------------------------------------------------
(* The steps of handleMessage.                                             *)

\* Nobody was given the prompt of a handling that is not over.
LEMMA UntakenYet ==
  ASSUME IInv, NEW h \in Handlings, work[h].pc # "done"
  PROVE  shown[h] = "no" /\ ~ Taken(h, "keep") /\ ~ Taken(h, "discard")
<1>1. shown[h] = "no"
  BY DEF IInv, HandlingInv
<1>2. \A t \in Taps : tap[t].took = TRUE => tap[t].on # h
  BY <1>1 DEF IInv, TapInv
<1> QED BY <1>1, <1>2 DEF Taken

\* A step that moves the goroutine of h on to pc and writes nothing of others.
LEMMA WorkMoves ==
  ASSUME IInv, NEW h \in Handlings, NEW pc \in Running \union {"done"}, Go(h, pc)
  PROVE  /\ work' \in [Handlings -> [pc : Running \union {"idle", "done", "lost", "cut"},
                                     msg : Messages \union {Nobody}, staged : BOOLEAN]]
         /\ work'[h].pc = pc /\ work'[h].msg = work[h].msg /\ work'[h].staged = work[h].staged
         /\ \A g \in Handlings \ {h} : work'[g] = work[g]
         /\ Key(h)' = Key(h)
<1> DEFINE P == Running \union {"idle", "done", "lost", "cut"}
           M == Messages \union {Nobody}
<1>1. work \in [Handlings -> [pc : P, msg : M, staged : BOOLEAN]] /\ pc \in P
  BY DEF IInv, TypeOK
<1> HIDE DEF P, M
<1>2. /\ work' \in [Handlings -> [pc : P, msg : M, staged : BOOLEAN]]
      /\ work'[h].pc = pc /\ work'[h].msg = work[h].msg /\ work'[h].staged = work[h].staged
      /\ \A g \in Handlings \ {h} : work'[g] = work[g]
  BY <1>1 DEF Go
<1> QED BY <1>2 DEF P, M, Key

LEMMA FaultsCount ==
  ASSUME TypeOK, Works \/ Fault
  PROVE  faults' \in 0 .. MaxFaults /\ faults' \in {faults, faults + 1}
BY NobodyAssumption DEF TypeOK, Works, Fault

LEMMA ReceiveKeeps ==
  ASSUME IInv, NEW h \in Handlings, NEW m \in Messages, Receive(h, m)
  PROVE  IInv'
<1>1. work[h].pc = "idle" /\ UNCHANGED <<raw, prompt, shown, tap, objects, told, faults>>
  BY DEF Receive, At
<1>2. work[h].pc # "done" /\ shown[h] = "no" /\ ~ Taken(h, "keep") /\ ~ Taken(h, "discard")
  BY <1>1, UntakenYet
<1>3. /\ work' \in [Handlings -> [pc : Running \union {"idle", "done", "lost", "cut"},
                                  msg : Messages \union {Nobody}, staged : BOOLEAN]]
      /\ work'[h].pc = "received" /\ work'[h].msg = m
      /\ \A g \in Handlings \ {h} : work'[g] = work[g]
  <2> DEFINE P == Running \union {"idle", "done", "lost", "cut"}
             M == Messages \union {Nobody}
  <2>1. work \in [Handlings -> [pc : P, msg : M, staged : BOOLEAN]] /\ "received" \in P /\ m \in M
    BY DEF IInv, TypeOK, Running
  <2> HIDE DEF P, M
  <2>2. work' = [work EXCEPT ![h].pc = "received", ![h].msg = m]
    BY DEF Receive
  <2>3. /\ work' \in [Handlings -> [pc : P, msg : M, staged : BOOLEAN]]
        /\ work'[h].pc = "received" /\ work'[h].msg = m
        /\ \A g \in Handlings \ {h} : work'[g] = work[g]
    BY <2>1, <2>2
  <2> QED BY <2>3 DEF P, M
<1>4. TypeOK'
  BY <1>1, <1>3 DEF IInv, TypeOK, Receive
<1>5. HandlingInv(h)'
  BY <1>1, <1>2, <1>3 DEF IInv, HandlingInv
<1>6. OthersStay(h) /\ ObjectsGrow(h)
  BY <1>1, <1>3 DEF OthersStay, ObjectsGrow
<1> QED BY <1>1, <1>2, <1>4, <1>5, <1>6, HandlingKeeps

LEMMA StageKeeps ==
  ASSUME IInv, NEW h \in Handlings, Stage(h)
  PROVE  IInv'
<1>1. work[h].pc = "received" /\ UNCHANGED <<delivered, prompt, shown, tap, objects, told>>
  BY DEF Stage, At
<1>2. work[h].pc # "done" /\ shown[h] = "no" /\ ~ Taken(h, "keep") /\ ~ Taken(h, "discard")
  BY <1>1, UntakenYet
<1>3. /\ work' \in [Handlings -> [pc : Running \union {"idle", "done", "lost", "cut"},
                                  msg : Messages \union {Nobody}, staged : BOOLEAN]]
      /\ work'[h].pc = "staged" /\ work'[h].msg = work[h].msg
      /\ \A g \in Handlings \ {h} : work'[g] = work[g]
  <2>1. CASE Go(h, "staged")
    BY <2>1, WorkMoves DEF Running
  <2>2. CASE work' = [work EXCEPT ![h].pc = "staged", ![h].staged = TRUE]
    <3> DEFINE P == Running \union {"idle", "done", "lost", "cut"}
               M == Messages \union {Nobody}
    <3>1. work \in [Handlings -> [pc : P, msg : M, staged : BOOLEAN]] /\ "staged" \in P
      BY DEF IInv, TypeOK, Running
    <3> HIDE DEF P, M
    <3>2. /\ work' \in [Handlings -> [pc : P, msg : M, staged : BOOLEAN]]
          /\ work'[h].pc = "staged" /\ work'[h].msg = work[h].msg
          /\ \A g \in Handlings \ {h} : work'[g] = work[g]
      BY <2>2, <3>1
    <3> QED BY <3>2 DEF P, M
  <2> QED BY <2>1, <2>2 DEF Stage
<1>4. /\ faults' \in 0 .. MaxFaults /\ faults' \in {faults, faults + 1} /\ faults \in Nat
  BY FaultsCount DEF IInv, TypeOK, Stage
<1>5. PICK row \in {"absent", "pending"} : raw' = [raw EXCEPT ![h] = row] /\ (row = "absent" => faults' = faults + 1)
  BY DEF Stage, Fault
<1>6. /\ raw' \in [Handlings -> {"absent", "pending", "promoted", "discarded"}]
      /\ raw'[h] = row /\ \A g \in Handlings \ {h} : raw'[g] = raw[g]
  BY <1>5 DEF IInv, TypeOK
<1>7. TypeOK'
  BY <1>1, <1>3, <1>4, <1>6 DEF IInv, TypeOK
<1>8. Key(h)' = Key(h)
  BY <1>3 DEF Key
<1>9. HandlingInv(h)'
  BY <1>1, <1>2, <1>3, <1>4, <1>5, <1>6, <1>8 DEF IInv, HandlingInv, Pursued, Running
<1>10. OthersStay(h) /\ ObjectsGrow(h)
  BY <1>1, <1>3, <1>6 DEF OthersStay, ObjectsGrow
<1> QED BY <1>1, <1>2, <1>4, <1>7, <1>9, <1>10, HandlingKeeps

LEMMA DetectKeeps ==
  ASSUME IInv, NEW h \in Handlings, Detect(h)
  PROVE  IInv'
<1>1. work[h].pc = "staged" /\ UNCHANGED <<delivered, raw, prompt, shown, tap, objects, told, faults>>
  BY DEF Detect, At
<1>2. work[h].pc # "done" /\ shown[h] = "no" /\ ~ Taken(h, "keep") /\ ~ Taken(h, "discard")
  BY <1>1, UntakenYet
<1>3. PICK pc \in {"ingesting", "asking"} : Go(h, pc)
  BY DEF Detect
<1>4. /\ work' \in [Handlings -> [pc : Running \union {"idle", "done", "lost", "cut"},
                                  msg : Messages \union {Nobody}, staged : BOOLEAN]]
      /\ work'[h].pc = pc /\ work'[h].msg = work[h].msg
      /\ (\A g \in Handlings \ {h} : work'[g] = work[g]) /\ Key(h)' = Key(h)
  BY <1>3, WorkMoves DEF Running
<1>5. TypeOK'
  BY <1>1, <1>4 DEF IInv, TypeOK
<1>6. HandlingInv(h)'
  BY <1>1, <1>2, <1>4 DEF IInv, HandlingInv, Pursued, Running
<1>7. OthersStay(h) /\ ObjectsGrow(h)
  BY <1>1, <1>4 DEF OthersStay, ObjectsGrow
<1> QED BY <1>1, <1>2, <1>5, <1>6, <1>7, HandlingKeeps

LEMMA SavePendingKeeps ==
  ASSUME IInv, NEW h \in Handlings, SavePending(h)
  PROVE  IInv'
<1>1. work[h].pc = "asking" /\ UNCHANGED <<delivered, raw, shown, tap, objects, told>>
  BY DEF SavePending, At
<1>2. work[h].pc # "done" /\ shown[h] = "no" /\ ~ Taken(h, "keep") /\ ~ Taken(h, "discard")
  BY <1>1, UntakenYet
<1>3. PICK pc \in {"prompting", "ingesting"}, row \in {"unsaved", "live"} :
        Go(h, pc) /\ prompt' = [prompt EXCEPT ![h] = row] /\ (pc = "prompting" => row = "live")
  BY DEF SavePending
<1>4. /\ work' \in [Handlings -> [pc : Running \union {"idle", "done", "lost", "cut"},
                                  msg : Messages \union {Nobody}, staged : BOOLEAN]]
      /\ work'[h].pc = pc /\ work'[h].msg = work[h].msg
      /\ (\A g \in Handlings \ {h} : work'[g] = work[g]) /\ Key(h)' = Key(h)
  BY <1>3, WorkMoves DEF Running
<1>5. /\ prompt' \in [Handlings -> {"unsaved", "live", "expired", "gone"}]
      /\ prompt'[h] = row /\ \A g \in Handlings \ {h} : prompt'[g] = prompt[g]
  BY <1>3 DEF IInv, TypeOK
<1>6. faults' \in 0 .. MaxFaults /\ faults' \in {faults, faults + 1} /\ faults \in Nat
  BY FaultsCount DEF IInv, TypeOK, SavePending
<1>7. TypeOK'
  BY <1>1, <1>4, <1>5, <1>6 DEF IInv, TypeOK
<1>8. HandlingInv(h)'
  BY <1>1, <1>2, <1>3, <1>4, <1>5, <1>6 DEF IInv, HandlingInv, Pursued, Running
<1>9. OthersStay(h) /\ ObjectsGrow(h)
  BY <1>1, <1>4, <1>5 DEF OthersStay, ObjectsGrow
<1> QED BY <1>1, <1>2, <1>6, <1>7, <1>8, <1>9, HandlingKeeps

LEMMA SendPromptKeeps ==
  ASSUME IInv, NEW h \in Handlings, SendPrompt(h)
  PROVE  IInv'
<1>1. work[h].pc = "prompting" /\ UNCHANGED <<delivered, raw, prompt, tap, objects>>
  BY DEF SendPrompt, At
<1>2. work[h].pc # "done" /\ shown[h] = "no" /\ ~ Taken(h, "keep") /\ ~ Taken(h, "discard")
  BY <1>1, UntakenYet
<1>3. /\ work' \in [Handlings -> [pc : Running \union {"idle", "done", "lost", "cut"},
                                  msg : Messages \union {Nobody}, staged : BOOLEAN]]
      /\ work'[h].pc = "done" /\ work'[h].msg = work[h].msg
      /\ (\A g \in Handlings \ {h} : work'[g] = work[g]) /\ Key(h)' = Key(h)
  BY WorkMoves DEF SendPrompt, Running
<1>4. faults' \in 0 .. MaxFaults /\ faults' \in {faults, faults + 1} /\ faults \in Nat
  BY FaultsCount DEF IInv, TypeOK, SendPrompt
<1>5. /\ shown' \in [Handlings -> {"no", "buttons", "retired"}]
      /\ told' \in [Handlings -> {"nothing", "asked", "answered", "error"}]
      /\ \A g \in Handlings \ {h} : shown'[g] = shown[g] /\ told'[g] = told[g]
      /\ told'[h] = "asked" \/ faults' = faults + 1
  BY DEF IInv, TypeOK, SendPrompt, Fault
<1>6. TypeOK'
  BY <1>1, <1>3, <1>4, <1>5 DEF IInv, TypeOK
<1>7. ASSUME faults' <= 1, raw'[h] = "absent"
      PROVE  faults' = 1 /\ Pursued(h)'
  <2>1. faults = 1 /\ Pursued(h)
    BY <1>1, <1>4, <1>7 DEF IInv, HandlingInv
  <2>2. faults' = 1 /\ told'[h] = "asked" /\ prompt'[h] \in {"live", "expired"}
    BY <1>1, <1>4, <1>5, <1>7, <2>1 DEF Pursued
  <2> QED BY <1>3, <2>2 DEF Pursued
<1>8. HandlingInv(h)'
  BY <1>1, <1>2, <1>3, <1>7 DEF IInv, HandlingInv
<1>9. OthersStay(h) /\ ObjectsGrow(h)
  BY <1>1, <1>3, <1>5 DEF OthersStay, ObjectsGrow
<1> QED BY <1>1, <1>2, <1>4, <1>6, <1>8, <1>9, HandlingKeeps

LEMMA IngestKeeps ==
  ASSUME IInv, NEW h \in Handlings, Ingest(h)
  PROVE  IInv'
<1>1. work[h].pc = "ingesting" /\ UNCHANGED <<delivered, raw, prompt, shown, tap, told>>
  BY DEF Ingest, At
<1>2. work[h].pc # "done" /\ shown[h] = "no" /\ ~ Taken(h, "keep") /\ ~ Taken(h, "discard")
  BY <1>1, UntakenYet
<1>3. PICK pc \in {"stored", "failed"} :
        Go(h, pc) /\ objects' \in {objects, Stored(h)} /\ (pc = "stored" => objects' = Stored(h))
  BY DEF Ingest
<1>4. /\ work' \in [Handlings -> [pc : Running \union {"idle", "done", "lost", "cut"},
                                  msg : Messages \union {Nobody}, staged : BOOLEAN]]
      /\ work'[h].pc = pc /\ work'[h].msg = work[h].msg
      /\ (\A g \in Handlings \ {h} : work'[g] = work[g]) /\ Key(h)' = Key(h)
  BY <1>3, WorkMoves DEF Running
<1>5. work[h].msg \in Messages
  BY <1>1 DEF IInv, HandlingInv
<1>6. /\ objects' \in [Keys -> Handlings \union {Nobody}] /\ ObjectsGrow(h)
      /\ pc = "stored" => objects'[Key(h)] # Nobody
  <2>1. /\ Key(h) \in Keys /\ Stored(h) \in [Keys -> Handlings \union {Nobody}]
        /\ Stored(h)[Key(h)] # Nobody
        /\ \A k \in Keys : Stored(h)[k] = objects[k] \/ (objects[k] = Nobody /\ Stored(h)[k] = h)
    BY <1>5, IngestGrows DEF IInv
  <2>2. objects \in [Keys -> Handlings \union {Nobody}]
    BY DEF IInv, TypeOK, Keys
  <2> QED BY <1>3, <2>1, <2>2 DEF ObjectsGrow
<1>7. faults' \in 0 .. MaxFaults /\ faults' \in {faults, faults + 1} /\ faults \in Nat
  BY FaultsCount DEF IInv, TypeOK, Ingest
<1>8. TypeOK'
  BY <1>1, <1>4, <1>6, <1>7 DEF IInv, TypeOK, Keys
<1>9. HandlingInv(h)'
  <2>1. HandlingInv(h)
    BY DEF IInv
  <2>2. raw[h] \notin {"promoted", "discarded"}
    BY <1>1, <1>2, <2>1 DEF HandlingInv
  <2> QED BY <1>1, <1>2, <1>3, <1>4, <1>5, <1>6, <1>7, <2>1, <2>2 DEF HandlingInv, Pursued, Running
<1>10. OthersStay(h)
  BY <1>1, <1>4 DEF OthersStay
<1> QED BY <1>1, <1>2, <1>6, <1>7, <1>8, <1>9, <1>10, HandlingKeeps

LEMMA PromoteKeeps ==
  ASSUME IInv, NEW h \in Handlings, Promote(h)
  PROVE  IInv'
<1>1. work[h].pc = "stored" /\ UNCHANGED <<delivered, prompt, shown, tap, objects, told>>
  BY DEF Promote, At
<1>2. work[h].pc # "done" /\ shown[h] = "no" /\ ~ Taken(h, "keep") /\ ~ Taken(h, "discard")
  BY <1>1, UntakenYet
<1>3. /\ work' \in [Handlings -> [pc : Running \union {"idle", "done", "lost", "cut"},
                                  msg : Messages \union {Nobody}, staged : BOOLEAN]]
      /\ work'[h].pc = "replying" /\ work'[h].msg = work[h].msg
      /\ (\A g \in Handlings \ {h} : work'[g] = work[g]) /\ Key(h)' = Key(h)
  BY WorkMoves DEF Promote, Running
<1>4. faults' \in 0 .. MaxFaults /\ faults' \in {faults, faults + 1} /\ faults \in Nat
  BY FaultsCount DEF IInv, TypeOK, Promote
<1>5. /\ raw' \in [Handlings -> {"absent", "pending", "promoted", "discarded"}]
      /\ raw'[h] \in {raw[h], "promoted"} /\ \A g \in Handlings \ {h} : raw'[g] = raw[g]
  BY DEF IInv, TypeOK, Promote, RawSetTo
<1>6. TypeOK'
  BY <1>1, <1>3, <1>4, <1>5 DEF IInv, TypeOK
<1>7. HandlingInv(h)'
  <2>1. HandlingInv(h)
    BY DEF IInv
  <2>2. raw[h] \notin {"promoted", "discarded"} /\ objects[Key(h)] # Nobody
    BY <1>1, <1>2, <2>1 DEF HandlingInv
  <2> QED BY <1>1, <1>2, <1>3, <1>4, <1>5, <2>1, <2>2 DEF HandlingInv, Pursued, Running
<1>8. OthersStay(h) /\ ObjectsGrow(h)
  BY <1>1, <1>3, <1>5 DEF OthersStay, ObjectsGrow
<1> QED BY <1>1, <1>2, <1>4, <1>6, <1>7, <1>8, HandlingKeeps

LEMMA ReplyKeeps ==
  ASSUME IInv, NEW h \in Handlings, Reply(h)
  PROVE  IInv'
<1>1. work[h].pc \in {"failed", "replying"} /\ UNCHANGED <<delivered, raw, prompt, shown, tap, objects>>
  BY DEF Reply, At
<1>2. work[h].pc # "done" /\ shown[h] = "no" /\ ~ Taken(h, "keep") /\ ~ Taken(h, "discard")
  BY <1>1, UntakenYet
<1>3. /\ work' \in [Handlings -> [pc : Running \union {"idle", "done", "lost", "cut"},
                                  msg : Messages \union {Nobody}, staged : BOOLEAN]]
      /\ work'[h].pc = "done" /\ work'[h].msg = work[h].msg
      /\ (\A g \in Handlings \ {h} : work'[g] = work[g]) /\ Key(h)' = Key(h)
  BY WorkMoves DEF Reply, Running
<1>4. faults' \in 0 .. MaxFaults /\ faults' \in {faults, faults + 1} /\ faults \in Nat
  BY FaultsCount DEF IInv, TypeOK, Reply
<1>5. /\ told' \in [Handlings -> {"nothing", "asked", "answered", "error"}]
      /\ \A g \in Handlings \ {h} : told'[g] = told[g]
      /\ told'[h] \in {"error", "answered"} \/ faults' = faults + 1
  BY DEF IInv, TypeOK, Reply, Fault
<1>6. TypeOK'
  BY <1>1, <1>3, <1>4, <1>5 DEF IInv, TypeOK
<1>7. HandlingInv(h)'
  <2>1. HandlingInv(h)
    BY DEF IInv
  <2>2. raw[h] = "absent" /\ faults <= 1 => faults = 1
    BY <1>1, <2>1 DEF HandlingInv
  <2>3. raw[h] = "absent" /\ faults' <= 1 => faults' = 1 /\ told'[h] \in {"error", "answered"}
    BY <1>4, <1>5, <2>2
  <2>4. raw[h] # "discarded" /\ (raw[h] = "promoted" => objects[Key(h)] # Nobody)
    BY <1>1, <1>2, <2>1 DEF HandlingInv
  <2>5. raw'[h] = "absent" /\ faults' <= 1 => faults' = 1 /\ Pursued(h)'
    BY <1>1, <1>3, <2>3 DEF Pursued
  <2> QED BY <1>1, <1>2, <1>3, <2>1, <2>4, <2>5 DEF HandlingInv
<1>8. OthersStay(h) /\ ObjectsGrow(h)
  BY <1>1, <1>3, <1>5 DEF OthersStay, ObjectsGrow
<1> QED BY <1>1, <1>2, <1>4, <1>6, <1>7, <1>8, HandlingKeeps

-----------------------------------------------------------------------------
(* The steps of handleCallback.                                            *)

LEMMA TapsType == ASSUME IInv PROVE
  tap \in [Taps -> [pc : Tapping \union {"idle", "done", "cut"}, on : Handlings \union {Nobody},
                    action : {"keep", "discard"}, took : BOOLEAN]]
BY DEF IInv, TypeOK

\* A tap is on the prompt of a handling that is over.
LEMMA TapIsOn ==
  ASSUME IInv, NEW t \in Taps, tap[t].pc # "idle"
  PROVE  /\ tap[t].on \in Handlings /\ shown[tap[t].on] # "no" /\ work[tap[t].on].pc = "done"
         /\ work[tap[t].on].msg \in Messages /\ Key(tap[t].on) \in Keys
<1>1. tap[t].on \in Handlings /\ shown[tap[t].on] # "no"
  BY DEF IInv, TapInv
<1>2. work[tap[t].on].pc = "done" /\ work[tap[t].on].msg \in Messages
  BY <1>1 DEF IInv, HandlingInv
<1> QED BY <1>1, <1>2 DEF Key, Keys

\* A step that moves a tap on to pc.
LEMMA TapMoves ==
  ASSUME IInv, NEW t \in Taps, NEW pc \in Tapping \union {"done"}, TapGo(t, pc)
  PROVE  /\ tap' \in [Taps -> [pc : Tapping \union {"idle", "done", "cut"}, on : Handlings \union {Nobody},
                               action : {"keep", "discard"}, took : BOOLEAN]]
         /\ tap'[t].pc = pc /\ tap'[t].on = tap[t].on /\ tap'[t].action = tap[t].action /\ tap'[t].took = tap[t].took
         /\ \A u \in Taps \ {t} : tap'[u] = tap[u]
<1> DEFINE P == Tapping \union {"idle", "done", "cut"}
           H == Handlings \union {Nobody}
           A == {"keep", "discard"}
<1>1. tap \in [Taps -> [pc : P, on : H, action : A, took : BOOLEAN]] /\ pc \in P
  BY TapsType
<1> HIDE DEF P, H, A
<1>2. /\ tap' \in [Taps -> [pc : P, on : H, action : A, took : BOOLEAN]]
      /\ tap'[t].pc = pc /\ tap'[t].on = tap[t].on /\ tap'[t].action = tap[t].action /\ tap'[t].took = tap[t].took
      /\ \A u \in Taps \ {t} : tap'[u] = tap[u]
  BY <1>1 DEF TapGo
<1> QED BY <1>2 DEF P, H, A

\* A step of a callback on h: what it writes, it was given the prompt for.
LEMMA TapKeeps ==
  ASSUME IInv, NEW t \in Taps, tap[t].pc \in Tapping, NEW h \in Handlings, h = tap[t].on,
         TypeOK', UNCHANGED work, OthersStay(h), ObjectsGrow(h), faults' \in {faults, faults + 1},
         \A u \in Taps \ {t} : tap'[u] = tap[u],
         tap'[t].on = h, tap'[t].action = tap[t].action, tap[t].took = TRUE => tap'[t].took = TRUE,
         shown'[h] # "no", TapInv(t)',
         prompt'[h] = prompt[h] \/ (prompt[h] = "live" /\ prompt'[h] = "gone"),
         tap'[t].took = tap[t].took \/ (prompt[h] = "live" /\ prompt'[h] = "gone"),
         \/ objects' = objects
         \/ tap'[t].took = TRUE /\ tap[t].action = "keep",
         \/ raw'[h] = raw[h]
         \/ raw'[h] = "promoted" /\ tap'[t].took = TRUE /\ tap[t].action = "keep" /\ objects[Key(h)] # Nobody
         \/ raw'[h] = "discarded" /\ tap'[t].took = TRUE /\ tap[t].action = "discard",
         told'[h] = told[h] \/ told'[h] \in {"error", "answered"},
         \/ faults' = faults + 1
         \/ tap'[t].took = TRUE /\ tap'[t].pc \in Tapping
         \/ told'[h] \in {"error", "answered"}
         \/ tap[t].took = FALSE /\ prompt'[h] = prompt[h]
  PROVE  IInv'
<1>1. /\ shown[h] # "no" /\ work[h].pc = "done" /\ work[h].msg \in Messages /\ Key(h) \in Keys
      /\ faults \in Nat /\ HandlingInv(h) /\ tap[t].took \in BOOLEAN
  BY TapIsOn, TapsType, NobodyAssumption DEF Tapping, IInv, TypeOK
<1>2. \A g \in Handlings : Key(g)' = Key(g)
  BY DEF Key
<1>3. \A g \in Handlings : (Taken(g, "keep") => Taken(g, "keep")') /\ (Taken(g, "discard") => Taken(g, "discard")')
  <2> SUFFICES ASSUME NEW g \in Handlings, NEW a \in {"keep", "discard"}, NEW u \in Taps,
                      tap[u].took = TRUE, tap[u].on = g, tap[u].action = a
               PROVE  tap'[u].took = TRUE /\ tap'[u].on = g /\ tap'[u].action = a
    BY DEF Taken
  <2> QED BY DEF Taken
<1>4. \A g \in Handlings \ {h} : AtWork(g) => AtWork(g)'
  BY DEF AtWork
<1>5. \A g \in Handlings \ {h} : HandlingInv(g)'
  BY <1>3, <1>4, OtherHandling
<1>6. objects[Key(h)] # Nobody => objects'[Key(h)] # Nobody
  BY <1>1, NobodyAssumption DEF ObjectsGrow
<1>7. ASSUME faults' <= 1, raw'[h] = "absent"
      PROVE  faults' = 1 /\ Pursued(h)'
  <2>1. faults = 1 /\ Pursued(h)
    BY <1>1, <1>7 DEF HandlingInv
  <2>2. faults' = 1
    BY <1>1, <1>7, <2>1
  <2>3. \/ told'[h] \in {"error", "answered"}
        \/ told'[h] = "asked" /\ prompt'[h] \in {"live", "expired"}
        \/ AtWork(h)'
    <3>1. CASE tap'[t].took = TRUE /\ tap'[t].pc \in Tapping
      BY <3>1 DEF AtWork
    <3>2. CASE tap[t].took = FALSE /\ prompt'[h] = prompt[h] /\ told'[h] = told[h]
      <4>1. AtWork(h) => AtWork(h)'
        BY <3>2 DEF AtWork
      <4> QED BY <1>1, <1>6, <2>1, <3>2, <4>1 DEF Pursued
    <3>3. CASE told'[h] \in {"error", "answered"}
      BY <3>3
    <3>4. faults' # faults + 1
      BY <2>1, <2>2
    <3> QED BY <3>1, <3>2, <3>3, <3>4
  <2> QED BY <1>1, <1>2, <2>2, <2>3 DEF Pursued
<1>8. HandlingInv(h)'
  <2>1. raw'[h] = "promoted" => objects'[Key(h)] # Nobody /\ ((work[h].pc = "done" /\ shown[h] = "no") \/ Taken(h, "keep")')
    <3>1. CASE raw'[h] = raw[h]
      BY <1>1, <1>3, <1>6, <3>1 DEF HandlingInv
    <3>2. CASE raw'[h] = "promoted" /\ tap'[t].took = TRUE /\ tap[t].action = "keep" /\ objects[Key(h)] # Nobody
      BY <1>6, <3>2 DEF Taken
    <3> QED BY <3>1, <3>2
  <2>2. raw'[h] = "discarded" => Taken(h, "discard")'
    BY <1>1, <1>3 DEF HandlingInv, Taken
  <2>3. \A k \in Keys : objects'[k] = h => Taken(h, "keep")'
    <3>1. CASE objects' = objects
      BY <1>1, <1>3, <3>1 DEF HandlingInv
    <3>2. CASE tap'[t].took = TRUE /\ tap[t].action = "keep"
      BY <3>2 DEF Taken
    <3> QED BY <3>1, <3>2
  <2> QED BY <1>1, <1>2, <1>7, <2>1, <2>2, <2>3 DEF HandlingInv
<1>9. ASSUME NEW u \in Taps \ {t} PROVE TapInv(u)'
  <2>1. TapInv(u) /\ tap'[u] = tap[u]
    BY DEF IInv
  <2>2. tap[u].pc # "idle" => tap[u].on \in Handlings /\ shown[tap[u].on] # "no" /\ Key(tap[u].on) \in Keys
    BY TapIsOn
  <2>3. tap[u].took = TRUE => tap[u].pc # "idle" /\ prompt[tap[u].on] = "gone"
    BY <2>1 DEF TapInv
  <2>4. tap[u].pc # "idle" => /\ shown'[tap[u].on] # "no" /\ Key(tap[u].on)' = Key(tap[u].on)
                              /\ prompt[tap[u].on] = "gone" => prompt'[tap[u].on] = "gone"
                              /\ objects[Key(tap[u].on)] # Nobody => objects'[Key(tap[u].on)] # Nobody
    BY <1>2, <2>2, NobodyAssumption DEF OthersStay, ObjectsGrow
  <2>5. tap[u].pc # "idle" => KeyOf[work'[tap'[u].on].msg] = Key(tap[u].on)
    BY <2>1 DEF Key
  <2> QED BY <2>1, <2>2, <2>3, <2>4, <2>5 DEF TapInv, Key, Tapping
<1>10. TakenOnce'
  <2> SUFFICES ASSUME NEW u \in Taps, NEW v \in Taps, u # v, tap'[u].took = TRUE, tap'[v].took = TRUE, tap'[u].on = tap'[v].on
               PROVE  FALSE
    BY DEF TakenOnce
  <2>1. tap[u].on = tap[v].on
    OBVIOUS
  <2>2. ~ (tap[u].took = TRUE /\ tap[v].took = TRUE)
    BY <2>1 DEF IInv, TakenOnce
  <2>3. \A w \in Taps : tap[w].took = TRUE /\ tap[w].on = h => prompt[h] = "gone"
    BY DEF IInv, TapInv
  <2> QED BY <2>1, <2>2, <2>3
<1> QED BY <1>5, <1>8, <1>9, <1>10 DEF IInv

LEMMA TakeKeeps ==
  ASSUME IInv, NEW t \in Taps, Take(t)
  PROVE  IInv'
<1>1. tap[t].pc = "pressed" /\ UNCHANGED <<delivered, work, raw, shown, objects, told>>
  BY DEF Take, TapAt
<1>2. PICK g \in Handlings : g = tap[t].on /\ shown[g] # "no"
  BY <1>1, TapIsOn
<1>3. tap[t].took = FALSE
  BY <1>1 DEF IInv, TapInv
<1>4. /\ prompt' \in [Handlings -> {"unsaved", "live", "expired", "gone"}]
      /\ prompt'[g] = prompt[g] \/ (prompt[g] = "live" /\ prompt'[g] = "gone")
      /\ \A f \in Handlings \ {g} : prompt'[f] = prompt[f]
  BY <1>2 DEF Take, IInv, TypeOK
<1>5. faults' \in 0 .. MaxFaults /\ faults' \in {faults, faults + 1}
  BY FaultsCount DEF IInv, TypeOK, Take
<1>6. ASSUME tap' \in [Taps -> [pc : Tapping \union {"idle", "done", "cut"}, on : Handlings \union {Nobody},
                                action : {"keep", "discard"}, took : BOOLEAN]]
      PROVE  TypeOK' /\ OthersStay(g) /\ ObjectsGrow(g)
  BY <1>1, <1>4, <1>5, <1>6 DEF IInv, TypeOK, OthersStay, ObjectsGrow
<1>7. CASE TapGo(t, "done") /\ (faults' = faults + 1 \/ prompt' = prompt)
  <2>1. /\ tap' \in [Taps -> [pc : Tapping \union {"idle", "done", "cut"}, on : Handlings \union {Nobody},
                               action : {"keep", "discard"}, took : BOOLEAN]]
        /\ tap'[t].pc = "done" /\ tap'[t].on = g /\ tap'[t].action = tap[t].action /\ tap'[t].took = FALSE
        /\ \A u \in Taps \ {t} : tap'[u] = tap[u]
    BY <1>2, <1>3, <1>7, TapMoves
  <2>2. TapInv(t)'
    BY <1>1, <1>2, <2>1 DEF TapInv, Tapping
  <2> QED BY <1>1, <1>2, <1>3, <1>4, <1>5, <1>6, <1>7, <2>1, <2>2, TapKeeps DEF Tapping
<1>8. CASE /\ prompt[g] = "live" /\ prompt' = [prompt EXCEPT ![g] = "gone"]
           /\ tap' = [tap EXCEPT ![t].took = TRUE,
                                 ![t].pc = IF tap[t].action = "keep" THEN "keeping" ELSE "discarding"]
  <2> DEFINE P == Tapping \union {"idle", "done", "cut"}
             H == Handlings \union {Nobody}
             A == {"keep", "discard"}
             pc == IF tap[t].action = "keep" THEN "keeping" ELSE "discarding"
  <2>1. tap \in [Taps -> [pc : P, on : H, action : A, took : BOOLEAN]] /\ pc \in P
    BY TapsType DEF Tapping
  <2>2. tap' = [tap EXCEPT ![t].took = TRUE, ![t].pc = pc]
    BY <1>8
  <2>3. /\ pc \in {"keeping", "discarding"} /\ (pc = "keeping" => tap[t].action = "keep")
        /\ pc = "discarding" => tap[t].action = "discard"
    BY TapsType
  <2>4. PICK q : q = pc
    OBVIOUS
  <2>5. tap' = [tap EXCEPT ![t].took = TRUE, ![t].pc = q] /\ q \in P
    BY <2>1, <2>2, <2>4
  <2> HIDE DEF P, H, A, pc
  <2>6. /\ tap' \in [Taps -> [pc : P, on : H, action : A, took : BOOLEAN]]
        /\ tap'[t].pc = q /\ tap'[t].on = g /\ tap'[t].action = tap[t].action /\ tap'[t].took = TRUE
        /\ \A u \in Taps \ {t} : tap'[u] = tap[u]
    BY <1>2, <2>1, <2>5
  <2>7. TypeOK' /\ OthersStay(g) /\ ObjectsGrow(g)
    BY <1>6, <2>6 DEF P, H, A
  <2>8. prompt'[g] = "gone"
    BY <1>8 DEF IInv, TypeOK
  <2>9. TapInv(t)'
    BY <1>1, <1>2, <2>3, <2>4, <2>6, <2>8 DEF TapInv, Tapping
  <2>10. tap'[t].pc \in Tapping
    BY <2>3, <2>4, <2>6 DEF Tapping
  <2> QED BY <1>1, <1>2, <1>5, <1>8, <2>6, <2>7, <2>8, <2>9, <2>10, TapKeeps DEF Tapping
<1> QED BY <1>2, <1>7, <1>8 DEF Take, Fault

LEMMA KeepIngestKeeps ==
  ASSUME IInv, NEW t \in Taps, KeepIngest(t)
  PROVE  IInv'
<1>1. tap[t].pc = "keeping" /\ UNCHANGED <<delivered, work, raw, prompt, shown, told>>
  BY DEF KeepIngest, TapAt
<1>2. PICK g \in Handlings : g = tap[t].on /\ shown[g] # "no" /\ work[g].msg \in Messages
  BY <1>1, TapIsOn
<1>3. tap[t].took = TRUE /\ prompt[g] = "gone" /\ tap[t].action = "keep"
  BY <1>1, <1>2 DEF IInv, TapInv, Tapping
<1>4. PICK pc \in {"kept", "failed"} :
        TapGo(t, pc) /\ objects' \in {objects, Stored(g)} /\ (pc = "kept" => objects' = Stored(g))
  BY <1>2 DEF KeepIngest
<1>5. /\ tap' \in [Taps -> [pc : Tapping \union {"idle", "done", "cut"}, on : Handlings \union {Nobody},
                            action : {"keep", "discard"}, took : BOOLEAN]]
      /\ tap'[t].pc = pc /\ tap'[t].on = g /\ tap'[t].action = "keep" /\ tap'[t].took = TRUE
      /\ \A u \in Taps \ {t} : tap'[u] = tap[u]
  BY <1>2, <1>3, <1>4, TapMoves DEF Tapping
<1>6. /\ objects' \in [Keys -> Handlings \union {Nobody}] /\ ObjectsGrow(g)
      /\ pc = "kept" => objects'[Key(g)] # Nobody
  <2>1. /\ Key(g) \in Keys /\ Stored(g) \in [Keys -> Handlings \union {Nobody}]
        /\ Stored(g)[Key(g)] # Nobody
        /\ \A k \in Keys : Stored(g)[k] = objects[k] \/ (objects[k] = Nobody /\ Stored(g)[k] = g)
    BY <1>2, IngestGrows DEF IInv
  <2>2. objects \in [Keys -> Handlings \union {Nobody}]
    BY DEF IInv, TypeOK, Keys
  <2> QED BY <1>4, <2>1, <2>2 DEF ObjectsGrow
<1>7. faults' \in 0 .. MaxFaults /\ faults' \in {faults, faults + 1}
  BY FaultsCount DEF IInv, TypeOK, KeepIngest
<1>8. TypeOK'
  BY <1>1, <1>5, <1>6, <1>7 DEF IInv, TypeOK, Keys
<1>9. TapInv(t)'
  <2>1. KeyOf[work'[tap'[t].on].msg] = Key(g)
    BY <1>1, <1>5 DEF Key
  <2> QED BY <1>1, <1>2, <1>3, <1>4, <1>5, <1>6, <2>1 DEF TapInv, Key, Tapping
<1>10. OthersStay(g) /\ tap'[t].pc \in Tapping /\ tap[t].pc \in Tapping
  BY <1>1, <1>5 DEF OthersStay, Tapping
<1> QED BY <1>1, <1>2, <1>3, <1>5, <1>6, <1>7, <1>8, <1>9, <1>10, TapKeeps

LEMMA SettleKeeps ==
  ASSUME IInv, NEW t \in Taps, Settle(t)
  PROVE  IInv'
<1>1. tap[t].pc \in {"kept", "discarding"} /\ UNCHANGED <<delivered, work, prompt, shown, objects, told>>
  BY DEF Settle, TapAt
<1>2. PICK g \in Handlings : g = tap[t].on /\ shown[g] # "no"
  BY <1>1, TapIsOn
<1>3. tap[t].took = TRUE /\ prompt[g] = "gone" /\ tap[t].pc \in Tapping
  BY <1>1, <1>2 DEF IInv, TapInv, Tapping
<1>4. /\ tap' \in [Taps -> [pc : Tapping \union {"idle", "done", "cut"}, on : Handlings \union {Nobody},
                            action : {"keep", "discard"}, took : BOOLEAN]]
      /\ tap'[t].pc = "answering" /\ tap'[t].on = g /\ tap'[t].action = tap[t].action /\ tap'[t].took = TRUE
      /\ \A u \in Taps \ {t} : tap'[u] = tap[u]
  BY <1>2, <1>3, TapMoves DEF Tapping, Settle
<1>5. /\ raw' \in [Handlings -> {"absent", "pending", "promoted", "discarded"}]
      /\ \A f \in Handlings \ {g} : raw'[f] = raw[f]
      /\ \/ raw'[g] = raw[g]
         \/ raw'[g] = "promoted" /\ tap[t].pc = "kept"
         \/ raw'[g] = "discarded" /\ tap[t].pc = "discarding"
  BY <1>1, <1>2 DEF Settle, RawSetTo, IInv, TypeOK, TapAt
<1>6. /\ tap[t].pc = "kept" => tap[t].action = "keep" /\ objects[Key(g)] # Nobody
      /\ tap[t].pc = "discarding" => tap[t].action = "discard"
  BY <1>2 DEF IInv, TapInv
<1>7. faults' \in 0 .. MaxFaults /\ faults' \in {faults, faults + 1}
  BY FaultsCount DEF IInv, TypeOK, Settle
<1>8. TypeOK'
  BY <1>1, <1>4, <1>5, <1>7 DEF IInv, TypeOK
<1>9. TapInv(t)' /\ tap'[t].pc \in Tapping
  BY <1>1, <1>2, <1>3, <1>4 DEF TapInv, Tapping
<1>10. OthersStay(g) /\ ObjectsGrow(g)
  BY <1>1, <1>5 DEF OthersStay, ObjectsGrow
<1> QED BY <1>1, <1>2, <1>3, <1>4, <1>5, <1>6, <1>7, <1>8, <1>9, <1>10, TapKeeps

LEMMA AnswerKeeps ==
  ASSUME IInv, NEW t \in Taps, Answer(t)
  PROVE  IInv'
<1>1. tap[t].pc \in {"answering", "failed"} /\ UNCHANGED <<delivered, work, raw, prompt, objects>>
  BY DEF Answer, TapAt
<1>2. PICK g \in Handlings : g = tap[t].on /\ shown[g] # "no"
  BY <1>1, TapIsOn
<1>3. tap[t].took = TRUE /\ prompt[g] = "gone" /\ tap[t].pc \in Tapping
  BY <1>1, <1>2 DEF IInv, TapInv, Tapping
<1>4. /\ tap' \in [Taps -> [pc : Tapping \union {"idle", "done", "cut"}, on : Handlings \union {Nobody},
                            action : {"keep", "discard"}, took : BOOLEAN]]
      /\ tap'[t].pc = "done" /\ tap'[t].on = g /\ tap'[t].action = tap[t].action /\ tap'[t].took = TRUE
      /\ \A u \in Taps \ {t} : tap'[u] = tap[u]
  BY <1>2, <1>3, TapMoves DEF Answer
<1>5. /\ shown' \in [Handlings -> {"no", "buttons", "retired"}]
      /\ told' \in [Handlings -> {"nothing", "asked", "answered", "error"}]
      /\ \A f \in Handlings \ {g} : shown'[f] = shown[f] /\ told'[f] = told[f]
      /\ shown'[g] \in {shown[g], "retired"}
      /\ told'[g] \in {"error", "answered"} \/ (faults' = faults + 1 /\ told'[g] = told[g])
  BY <1>2 DEF Answer, IInv, TypeOK, Fault
<1>6. faults' \in 0 .. MaxFaults /\ faults' \in {faults, faults + 1}
  BY FaultsCount DEF IInv, TypeOK, Answer
<1>7. TypeOK'
  BY <1>1, <1>4, <1>5, <1>6 DEF IInv, TypeOK
<1>8. shown'[g] # "no"
  BY <1>2, <1>5
<1>9. TapInv(t)'
  BY <1>1, <1>2, <1>3, <1>4, <1>8 DEF TapInv, Tapping
<1>10. OthersStay(g) /\ ObjectsGrow(g)
  BY <1>1, <1>5 DEF OthersStay, ObjectsGrow
<1> QED BY <1>1, <1>2, <1>3, <1>4, <1>5, <1>6, <1>7, <1>8, <1>9, <1>10, TapKeeps

LEMMA PressKeeps ==
  ASSUME IInv, NEW t \in Taps, NEW h \in Handlings, NEW a \in {"keep", "discard"}, Press(t, h, a)
  PROVE  IInv'
<1>1. tap[t].pc = "idle" /\ UNCHANGED <<delivered, work, raw, prompt, shown, objects, told, faults>>
  BY DEF Press, TapAt
<1>2. shown[h] # "no"
  <2>1. ASSUME NEW u \in Taps, tap[u].pc = "cut", tap[u].on = h
        PROVE  shown[h] # "no"
    BY <2>1 DEF IInv, TapInv
  <2> QED BY <2>1 DEF Press, TapAt
<1>3. tap[t].took = FALSE
  BY <1>1 DEF IInv, TapInv
<1>4. /\ tap' \in [Taps -> [pc : Tapping \union {"idle", "done", "cut"}, on : Handlings \union {Nobody},
                            action : {"keep", "discard"}, took : BOOLEAN]]
      /\ tap'[t].pc = "pressed" /\ tap'[t].on = h /\ tap'[t].took = FALSE
      /\ \A u \in Taps \ {t} : tap'[u] = tap[u]
  <2> DEFINE P == Tapping \union {"idle", "done", "cut"}
             H == Handlings \union {Nobody}
             A == {"keep", "discard"}
  <2>1. tap \in [Taps -> [pc : P, on : H, action : A, took : BOOLEAN]] /\ "pressed" \in P /\ h \in H /\ a \in A
    BY TapsType DEF Tapping
  <2> HIDE DEF P, H, A
  <2>2. tap' = [tap EXCEPT ![t].pc = "pressed", ![t].on = h, ![t].action = a]
    BY DEF Press
  <2>3. /\ tap' \in [Taps -> [pc : P, on : H, action : A, took : BOOLEAN]]
        /\ tap'[t].pc = "pressed" /\ tap'[t].on = h /\ tap'[t].took = FALSE
        /\ \A u \in Taps \ {t} : tap'[u] = tap[u]
    BY <1>3, <2>1, <2>2
  <2> QED BY <2>3 DEF P, H, A
<1>5. TypeOK'
  BY <1>1, <1>4 DEF IInv, TypeOK
<1>6. TakenOnce'
  BY <1>3, <1>4 DEF IInv, TakenOnce
<1>7. ASSUME NEW g \in Handlings PROVE HandlingInv(g)'
  <2>1. /\ Taken(g, "keep") => Taken(g, "keep")'
        /\ Taken(g, "discard") => Taken(g, "discard")'
        /\ AtWork(g) => AtWork(g)'
    BY <1>3, <1>4 DEF Taken, AtWork
  <2>2. Key(g)' = Key(g)
    BY <1>1 DEF Key
  <2>3. HandlingInv(g)
    BY DEF IInv
  <2>4. Pursued(g) => Pursued(g)'
    BY <1>1, <2>1, <2>2 DEF Pursued
  <2> QED BY <1>1, <2>1, <2>2, <2>3, <2>4 DEF HandlingInv
<1>8. ASSUME NEW u \in Taps PROVE TapInv(u)'
  <2>1. TapInv(u)
    BY DEF IInv
  <2>2. CASE u = t
    BY <1>1, <1>2, <1>4, <2>2 DEF TapInv, Tapping
  <2>3. CASE u # t
    BY <1>1, <1>4, <2>1, <2>3 DEF TapInv, Key
  <2> QED BY <2>2, <2>3
<1> QED BY <1>5, <1>6, <1>7, <1>8 DEF IInv

-----------------------------------------------------------------------------
(* Time and restarts.                                                      *)

LEMMA ExpireKeeps ==
  ASSUME IInv, NEW h \in Handlings, Expire(h)
  PROVE  IInv'
<1>1. prompt[h] = "live" /\ UNCHANGED <<delivered, work, raw, shown, tap, objects, told, faults>>
  BY DEF Expire
<1>2. /\ prompt' \in [Handlings -> {"unsaved", "live", "expired", "gone"}]
      /\ prompt'[h] = "expired" /\ \A g \in Handlings \ {h} : prompt'[g] = prompt[g]
  BY DEF Expire, IInv, TypeOK
<1>3. TypeOK' /\ TakenOnce'
  BY <1>1, <1>2 DEF IInv, TypeOK, TakenOnce
<1>4. ASSUME NEW g \in Handlings PROVE HandlingInv(g)'
  <2>1. (Taken(g, "keep")' <=> Taken(g, "keep")) /\ (Taken(g, "discard")' <=> Taken(g, "discard")) /\ (AtWork(g)' <=> AtWork(g))
    BY <1>1 DEF Taken, AtWork
  <2>2. Key(g)' = Key(g)
    BY <1>1 DEF Key
  <2>3. HandlingInv(g)
    BY DEF IInv
  <2>4. Pursued(g) => Pursued(g)'
    BY <1>1, <1>2, <2>1, <2>2 DEF Pursued
  <2> QED BY <1>1, <1>2, <2>1, <2>2, <2>3, <2>4 DEF HandlingInv
<1>5. ASSUME NEW t \in Taps PROVE TapInv(t)'
  <2>1. TapInv(t) /\ (tap[t].took = TRUE => tap[t].on \in Handlings /\ prompt[tap[t].on] = "gone")
    BY DEF IInv, TapInv
  <2> QED BY <1>1, <1>2, <2>1 DEF TapInv, Key
<1> QED BY <1>3, <1>4, <1>5 DEF IInv

LEMMA RestartKeeps ==
  ASSUME IInv, Restart
  PROVE  IInv'
<1>1. faults' = faults + 1 /\ faults' \in 0 .. MaxFaults /\ faults \in Nat /\ UNCHANGED <<raw, shown, objects, told>>
  BY NobodyAssumption DEF Restart, Fault, IInv, TypeOK
<1>2. /\ work' \in [Handlings -> [pc : Running \union {"idle", "done", "lost", "cut"},
                                  msg : Messages \union {Nobody}, staged : BOOLEAN]]
      /\ \A h \in Handlings :
           /\ work'[h].pc = IF work[h].pc = "received" THEN "lost" ELSE IF work[h].pc \in Running THEN "cut" ELSE work[h].pc
           /\ work'[h].msg = work[h].msg
  <2> DEFINE P == Running \union {"idle", "done", "lost", "cut"}
             M == Messages \union {Nobody}
             pc(h) == IF work[h].pc = "received" THEN "lost" ELSE IF work[h].pc \in Running THEN "cut" ELSE work[h].pc
  <2>1. work \in [Handlings -> [pc : P, msg : M, staged : BOOLEAN]]
    BY DEF IInv, TypeOK
  <2>2. \A h \in Handlings : pc(h) \in P
    BY <2>1
  <2>3. work' = [h \in Handlings |-> [work[h] EXCEPT !.pc = pc(h)]]
    BY DEF Restart
  <2> HIDE DEF P, M, pc
  <2>4. /\ work' \in [Handlings -> [pc : P, msg : M, staged : BOOLEAN]]
        /\ \A h \in Handlings : work'[h].pc = pc(h) /\ work'[h].msg = work[h].msg
    BY <2>1, <2>2, <2>3
  <2> QED BY <2>4 DEF P, M, pc
<1>3. /\ tap' \in [Taps -> [pc : Tapping \union {"idle", "done", "cut"}, on : Handlings \union {Nobody},
                            action : {"keep", "discard"}, took : BOOLEAN]]
      /\ \A t \in Taps :
           /\ tap'[t].pc = IF tap[t].pc \in Tapping THEN "cut" ELSE tap[t].pc
           /\ tap'[t].on = tap[t].on /\ tap'[t].action = tap[t].action /\ tap'[t].took = tap[t].took
  <2> DEFINE P == Tapping \union {"idle", "done", "cut"}
             H == Handlings \union {Nobody}
             A == {"keep", "discard"}
             pc(t) == IF tap[t].pc \in Tapping THEN "cut" ELSE tap[t].pc
  <2>1. tap \in [Taps -> [pc : P, on : H, action : A, took : BOOLEAN]]
    BY TapsType
  <2>2. \A t \in Taps : pc(t) \in P
    BY <2>1
  <2>3. tap' = [t \in Taps |-> [tap[t] EXCEPT !.pc = pc(t)]]
    BY DEF Restart
  <2> HIDE DEF P, H, A, pc
  <2>4. /\ tap' \in [Taps -> [pc : P, on : H, action : A, took : BOOLEAN]]
        /\ \A t \in Taps : /\ tap'[t].pc = pc(t) /\ tap'[t].on = tap[t].on
                           /\ tap'[t].action = tap[t].action /\ tap'[t].took = tap[t].took
    BY <2>1, <2>2, <2>3
  <2> QED BY <2>4 DEF P, H, A, pc
<1>4. /\ prompt' \in [Handlings -> {"unsaved", "live", "expired", "gone"}]
      /\ \A h \in Handlings : prompt'[h] = prompt[h] \/ (prompt[h] = "expired" /\ prompt'[h] = "gone")
  BY DEF Restart, IInv, TypeOK
<1>5. delivered' \subseteq Messages
  BY DEF Restart, IInv, TypeOK
<1>6. TypeOK'
  BY <1>1, <1>2, <1>3, <1>4, <1>5 DEF IInv, TypeOK
<1>7. TakenOnce'
  BY <1>3 DEF IInv, TakenOnce
<1>8. ASSUME NEW h \in Handlings PROVE HandlingInv(h)'
  <2>1. (Taken(h, "keep")' <=> Taken(h, "keep")) /\ (Taken(h, "discard")' <=> Taken(h, "discard"))
    BY <1>3 DEF Taken
  <2>2. Key(h)' = Key(h)
    BY <1>2 DEF Key
  <2>3. HandlingInv(h)
    BY DEF IInv
  <2>4. raw[h] = "absent" /\ work'[h].pc \notin {"idle", "received", "lost"} => faults' > 1
    BY <1>1, <1>2, <2>3 DEF HandlingInv, Running
  <2> QED BY <1>1, <1>2, <1>4, <2>1, <2>2, <2>3, <2>4 DEF HandlingInv, Running
<1>9. ASSUME NEW t \in Taps PROVE TapInv(t)'
  <2>1. TapInv(t) /\ (tap[t].took = TRUE => tap[t].pc # "idle" /\ tap[t].on \in Handlings /\ prompt[tap[t].on] = "gone")
    BY DEF IInv, TapInv
  <2> QED BY <1>1, <1>3, <1>4, <2>1 DEF TapInv, Tapping
<1> QED BY <1>6, <1>7, <1>8, <1>9 DEF IInv

-----------------------------------------------------------------------------
(* The theorems.                                                           *)

LEMMA StepKeeps == IInv /\ [Next]_vars => IInv'
<1> SUFFICES ASSUME IInv, [Next]_vars PROVE IInv'
  OBVIOUS
<1>1. CASE UNCHANGED vars
  <2>1. /\ TypeOK' /\ TakenOnce'
        /\ \A h \in Handlings : (Key(h)' = Key(h)) /\ (AtWork(h)' <=> AtWork(h))
                                /\ (Taken(h, "keep")' <=> Taken(h, "keep")) /\ (Taken(h, "discard")' <=> Taken(h, "discard"))
    BY <1>1 DEF vars, IInv, TypeOK, TakenOnce, Key, AtWork, Taken
  <2>2. \A h \in Handlings : HandlingInv(h)'
    BY <1>1, <2>1 DEF vars, IInv, HandlingInv, Pursued
  <2>3. \A t \in Taps : TapInv(t)'
    BY <1>1 DEF vars, IInv, TapInv, Key
  <2> QED BY <2>1, <2>2, <2>3 DEF IInv
<1>2. ASSUME NEW h \in Handlings, (\E m \in Messages : Receive(h, m)) \/ HandleMessage(h) \/ Expire(h)
      PROVE  IInv'
  BY <1>2, ReceiveKeeps, StageKeeps, DetectKeeps, SavePendingKeeps, SendPromptKeeps, IngestKeeps, PromoteKeeps,
     ReplyKeeps, ExpireKeeps DEF HandleMessage
<1>3. ASSUME NEW t \in Taps, (\E h \in Handlings, a \in {"keep", "discard"} : Press(t, h, a)) \/ HandleCallback(t)
      PROVE  IInv'
  BY <1>3, PressKeeps, TakeKeeps, KeepIngestKeeps, SettleKeeps, AnswerKeeps DEF HandleCallback
<1>4. CASE Restart
  BY <1>4, RestartKeeps
<1> QED BY <1>1, <1>2, <1>3, <1>4 DEF Next

\* What the other theorems rest on: whatever fails, expires or restarts, one
\* callback at most was ever given the prompt of a handling, only that one has
\* written behind it, and a text that no raw_inputs row holds is in some other
\* place as long as nothing but its staging has failed.
THEOREM IInvHolds == Spec => []IInv
<1>1. Init => IInv
  BY InitIInv
<1>2. IInv /\ [Next]_vars => IInv'
  BY StepKeeps
<1> QED BY <1>1, <1>2, PTL DEF Spec

\* A tap that was given a prompt is the only one.
LEMMA OneTaker ==
  ASSUME IInv, NEW h \in Handlings, NEW t \in Taps, tap[t].took = TRUE, tap[t].on = h
  PROVE  /\ shown[h] # "no" /\ work[h].pc = "done"
         /\ Taken(h, "keep") => tap[t].action = "keep"
         /\ Taken(h, "discard") => tap[t].action = "discard"
<1>1. tap[t].pc # "idle"
  BY DEF IInv, TapInv
<1>2. \A u \in Taps : tap[u].took = TRUE /\ tap[u].on = h => u = t
  BY DEF IInv, TakenOnce
<1> QED BY <1>1, <1>2, TapIsOn DEF Taken

\* A promoted raw input has its object; a discarded one was not stored by its
\* own handling or prompt: the prompt has one taker, who had one button in mind.
THEOREM RawInputsAreTrue == Spec => []RawInputsTellTheTruth
<1>1. IInv => RawInputsTellTheTruth
  <2> SUFFICES ASSUME IInv, NEW h \in Handlings
               PROVE  /\ raw[h] = "promoted" => objects[Key(h)] # Nobody
                      /\ raw[h] = "discarded" => objects[Key(h)] # h
    BY DEF RawInputsTellTheTruth, Key
  <2>1. HandlingInv(h)
    BY DEF IInv
  <2>2. ASSUME raw[h] = "discarded", objects[Key(h)] = h
        PROVE  FALSE
    <3>1. PICK t \in Taps : tap[t].took = TRUE /\ tap[t].on = h /\ tap[t].action = "discard"
      BY <2>1, <2>2 DEF HandlingInv, Taken
    <3>2. shown[h] # "no" /\ ~ Taken(h, "keep")
      BY <3>1, OneTaker
    <3>3. Key(h) \in Keys
      BY <2>1, <2>2 DEF HandlingInv, Key, Keys
    <3> QED BY <2>1, <2>2, <3>2, <3>3 DEF HandlingInv
  <2> QED BY <2>1, <2>2 DEF HandlingInv
<1> QED BY <1>1, IInvHolds, PTL

\* The unconditional SetPromoted and SetDiscarded overwrite no verdict: who
\* reaches them is the prompt's only taker, or a handling that showed no prompt.
LEMMA VerdictsStay ==
  ASSUME IInv, [Next]_vars, NEW h \in Handlings, raw[h] \in {"promoted", "discarded"}
  PROVE  raw'[h] = raw[h]
<1>1. HandlingInv(h) /\ raw \in [Handlings -> {"absent", "pending", "promoted", "discarded"}]
  BY DEF IInv, TypeOK
<1>2. ASSUME NEW g \in Handlings, Stage(g)
      PROVE  raw'[h] = raw[h]
  <2>1. g # h
    BY <1>1, <1>2 DEF Stage, At, HandlingInv
  <2> QED BY <1>1, <1>2, <2>1 DEF Stage
<1>3. ASSUME NEW g \in Handlings, Promote(g)
      PROVE  raw'[h] = raw[h]
  <2>1. raw' = raw \/ raw' = [raw EXCEPT ![g] = "promoted"]
    BY <1>3 DEF Promote, RawSetTo
  <2>2. CASE g # h
    BY <1>1, <2>1, <2>2
  <2>3. CASE g = h
    <3>1. work[h].pc = "stored"
      BY <1>3, <2>3 DEF Promote, At
    <3>2. ~ Taken(h, "discard")
      BY <3>1, UntakenYet
    <3>3. raw[h] = "promoted"
      BY <1>1, <3>2 DEF HandlingInv
    <3> QED BY <1>1, <2>1, <2>3, <3>3
  <2> QED BY <2>2, <2>3
<1>4. ASSUME NEW t \in Taps, Settle(t)
      PROVE  raw'[h] = raw[h]
  <2>1. tap[t].pc \in {"kept", "discarding"}
    BY <1>4 DEF Settle, TapAt
  <2>2. tap[t].on \in Handlings /\ tap[t].took = TRUE
    BY <2>1, TapIsOn DEF IInv, TapInv, Tapping
  <2>3. CASE tap[t].on # h
    BY <1>1, <1>4, <2>2, <2>3 DEF Settle, RawSetTo
  <2>4. CASE tap[t].on = h
    <3>1. /\ shown[h] # "no" /\ (tap[t].pc = "kept" => tap[t].action = "keep")
          /\ tap[t].pc = "discarding" => tap[t].action = "discard"
      BY <2>2, <2>4, OneTaker DEF IInv, TapInv
    <3>2. /\ raw[h] = "promoted" => tap[t].action = "keep"
          /\ raw[h] = "discarded" => tap[t].action = "discard"
      BY <1>1, <2>2, <2>4, <3>1, OneTaker DEF HandlingInv
    <3>3. raw[h] = IF tap[t].pc = "kept" THEN "promoted" ELSE "discarded"
      BY <2>1, <3>1, <3>2
    <3> QED BY <1>1, <1>4, <2>4, <3>3 DEF Settle, RawSetTo, TapAt
  <2> QED BY <2>3, <2>4
<1>5. ASSUME NEW g \in Handlings, (\E m \in Messages : Receive(g, m)) \/ HandleMessage(g) \/ Expire(g)
      PROVE  raw'[h] = raw[h]
  BY <1>2, <1>3, <1>5 DEF HandleMessage, Receive, Detect, SavePending, SendPrompt, Ingest, Reply, Expire
<1>6. ASSUME NEW t \in Taps, (\E g \in Handlings, a \in {"keep", "discard"} : Press(t, g, a)) \/ HandleCallback(t)
      PROVE  raw'[h] = raw[h]
  BY <1>4, <1>6 DEF HandleCallback, Press, Take, KeepIngest, Answer
<1>7. CASE Restart \/ UNCHANGED vars
  BY <1>7 DEF Restart, vars
<1> QED BY <1>5, <1>6, <1>7 DEF Next

THEOREM RawVerdictsStay == Spec => RawVerdictsAreFinal
<1>1. IInv /\ [Next]_vars => [\A h \in Handlings : raw[h] \in {"promoted", "discarded"} => raw'[h] = raw[h]]_vars
  BY VerdictsStay
<1> QED BY <1>1, IInvHolds, PTL DEF Spec, RawVerdictsAreFinal

\* One failing call, or one restart, never makes a message disappear behind the
\* user's back once its handling has come to the staging step.
THEOREM OneFaultIsSurvived == Spec => []OneFaultLosesNoText
<1>1. IInv => OneFaultLosesNoText
  <2> SUFFICES ASSUME IInv, faults <= 1, NEW h \in Handlings, work[h].pc \notin {"idle", "lost"}
               PROVE  Held(h) \/ told[h] \in {"error", "answered"} \/ (told[h] = "asked" /\ prompt[h] = "expired")
    BY DEF OneFaultLosesNoText
  <2>1. CASE work[h].pc \in Running \/ raw[h] # "absent"
    BY <2>1 DEF Held
  <2>2. CASE work[h].pc \notin Running /\ raw[h] = "absent"
    <3>1. Pursued(h) /\ work[h].pc = "done"
      BY <2>2 DEF IInv, HandlingInv, Pursued, Running
    <3>2. AtWork(h) => Held(h)
      BY DEF AtWork, Held
    <3> QED BY <3>1, <3>2 DEF Pursued, Held, Key
  <2> QED BY <2>1, <2>2
<1> QED BY <1>1, IInvHolds, PTL

-----------------------------------------------------------------------------
(* TelegramMessages implements OneTimeTokens.                              *)

Took(t, h) == tap[t].took /\ tap[t].on = h

\* Whom the refinement mapping shows to hold a prompt.
HoldersTook ==
  \A h \in Handlings :
    /\ \A t \in Taps : Took(t, h) => TokenHolder[h] = t
    /\ (\A t \in Taps : ~ Took(t, h)) => TokenHolder[h] = Nobody

LEMMA HolderOf == IInv => HoldersTook
<1> SUFFICES ASSUME IInv, NEW h \in Handlings
             PROVE  /\ \A t \in Taps : Took(t, h) => TokenHolder[h] = t
                    /\ (\A t \in Taps : ~ Took(t, h)) => TokenHolder[h] = Nobody
  BY DEF HoldersTook
<1>1. \A t, u \in Taps : Took(t, h) /\ Took(u, h) => t = u
  BY TapsType DEF IInv, TakenOnce, Took
<1>2. TokenHolder[h] = IF \E t \in Taps : Took(t, h) THEN CHOOSE t \in Taps : Took(t, h) ELSE Nobody
  BY DEF TokenHolder, Took
<1> QED BY <1>1, <1>2

\* Prompts that nobody else was given keep their holders.
LEMMA HoldersStay ==
  ASSUME IInv, IInv', NEW S \in SUBSET Handlings, \A h \in S, t \in Taps : Took(t, h)' <=> Took(t, h)
  PROVE  \A h \in S : TokenHolder'[h] = TokenHolder[h]
<1> SUFFICES ASSUME NEW h \in S PROVE TokenHolder'[h] = TokenHolder[h]
  OBVIOUS
<1>1. HoldersTook /\ HoldersTook'
  BY HolderOf, PTL
<1>2. /\ \A t \in Taps : Took(t, h)' => TokenHolder'[h] = t
      /\ (\A t \in Taps : ~ Took(t, h)') => TokenHolder'[h] = Nobody
  BY <1>1 DEF HoldersTook
<1>3. /\ \A t \in Taps : Took(t, h) => TokenHolder[h] = t
      /\ (\A t \in Taps : ~ Took(t, h)) => TokenHolder[h] = Nobody
  BY <1>1 DEF HoldersTook
<1> QED BY <1>2, <1>3

\* A tap that goes on has taken what it had taken.
TakersStay ==
  \A t \in Taps : tap'[t].took = tap[t].took /\ (tap[t].took = TRUE => tap'[t].on = tap[t].on)

LEMMA TakersStayTook ==
  ASSUME IInv, IInv', TakersStay
  PROVE  UNCHANGED TokenHolder
<1>1. \A h \in Handlings, t \in Taps : Took(t, h)' <=> Took(t, h)
  BY TapsType DEF TakersStay, Took
<1>2. \A h \in Handlings : TokenHolder'[h] = TokenHolder[h]
  BY <1>1, HoldersStay
<1> QED BY <1>2 DEF TokenHolder

LEMMA PromptsType ==
  IInv => /\ prompt \in [Handlings -> {"unsaved", "live", "expired", "gone"}]
          /\ TokenState \in [Handlings -> {"unsaved", "live", "spent"}]
          /\ \A h \in Handlings :
               TokenState[h] = IF prompt[h] \in {"expired", "gone"} THEN "spent" ELSE prompt[h]
BY DEF IInv, TypeOK, TokenState

\* Prompts that stay, but for expired ones whose rows are swept away.
LEMMA PromptsStay ==
  ASSUME IInv, IInv', TakersStay,
         \A h \in Handlings : prompt'[h] = prompt[h] \/ (prompt[h] = "expired" /\ prompt'[h] = "gone")
  PROVE  UNCHANGED Tokens!vars
<1>1. \A h \in Handlings : TokenState'[h] = TokenState[h]
  BY DEF TokenState
<1>2. UNCHANGED TokenState
  BY <1>1 DEF TokenState
<1> QED BY <1>2, TakersStayTook DEF Tokens!vars

\* A prompt that goes without a taker, or is over.
LEMMA PromptLapses ==
  ASSUME IInv, IInv', TakersStay, NEW h \in Handlings, prompt[h] = "live", prompt'[h] \in {"expired", "gone"},
         \A g \in Handlings \ {h} : prompt'[g] = prompt[g]
  PROVE  Tokens!Next
<1>1. TokenState' \in [Handlings -> {"unsaved", "live", "spent"}]
  BY DEF IInv, TypeOK, TokenState
<1>2. \A g \in Handlings : TokenState'[g] # TokenState[g] => TokenState[g] = "live" /\ TokenState'[g] = "spent"
  BY DEF TokenState
<1> QED BY <1>1, <1>2, TakersStayTook DEF Tokens!Next, Tokens!Lapse

LEMMA SavePendingSaves ==
  ASSUME IInv, IInv', NEW h \in Handlings, SavePending(h)
  PROVE  Tokens!Next
<1>1. prompt[h] = "unsaved"
  BY DEF SavePending, At, IInv, HandlingInv
<1>2. prompt'[h] \in {"unsaved", "live"} /\ \A g \in Handlings \ {h} : prompt'[g] = prompt[g]
  BY PromptsType DEF SavePending
<1>3. TokenState' \in [Handlings -> {"unsaved", "live", "spent"}]
  BY DEF IInv, TypeOK, TokenState
<1>4. \A g \in Handlings : TokenState'[g] # TokenState[g] => TokenState[g] = "unsaved" /\ TokenState'[g] = "live"
  BY <1>1, <1>2 DEF TokenState
<1>5. TakersStay
  BY DEF SavePending, TakersStay
<1> QED BY <1>3, <1>4, <1>5, TakersStayTook DEF Tokens!Next, Tokens!Save

\* The callback that gets the entry takes the token; one whose Take fails may
\* still have deleted it.
LEMMA TakeTakes ==
  ASSUME IInv, IInv', NEW t \in Taps, Take(t)
  PROVE  [Tokens!Next]_(Tokens!vars)
<1>1. PICK h \in Handlings : h = tap[t].on
  BY TapIsOn DEF Take, TapAt
<1>2. tap[t].took = FALSE
  BY DEF Take, TapAt, IInv, TapInv
<1>3. CASE TapGo(t, "done")
  <2>1. TakersStay
    BY <1>3, TapMoves DEF TakersStay
  <2>2. CASE prompt' = prompt
    BY <2>1, <2>2, PromptsStay
  <2>3. CASE prompt[h] = "live" /\ prompt' = [prompt EXCEPT ![h] = "gone"]
    BY <2>1, <2>3, PromptLapses, PromptsType
  <2> QED BY <1>1, <1>3, <2>2, <2>3 DEF Take
<1>4. CASE /\ prompt[h] = "live" /\ prompt' = [prompt EXCEPT ![h] = "gone"]
           /\ tap' = [tap EXCEPT ![t].took = TRUE,
                                 ![t].pc = IF tap[t].action = "keep" THEN "keeping" ELSE "discarding"]
  <2>1. /\ tap'[t].on = h /\ tap'[t].took = TRUE
        /\ \A u \in Taps \ {t} : tap'[u] = tap[u]
    <3>1. PICK pc : pc = IF tap[t].action = "keep" THEN "keeping" ELSE "discarding"
      OBVIOUS
    <3>2. tap' = [tap EXCEPT ![t].took = TRUE, ![t].pc = pc]
      BY <1>4, <3>1
    <3> QED BY <1>1, <3>2, TapsType
  <2>2. TokenState[h] = "live"
    BY <1>4 DEF TokenState
  <2>3. TokenState' = [TokenState EXCEPT ![h] = "spent"]
    <3>1. \A g \in Handlings : TokenState'[g] = IF g = h THEN "spent" ELSE TokenState[g]
      BY <1>4, PromptsType DEF TokenState
    <3>2. TokenState = [g \in Handlings |-> TokenState[g]] /\ TokenState' = [g \in Handlings |-> TokenState'[g]]
      BY DEF TokenState
    <3> QED BY <3>1, <3>2
  <2>4. TokenHolder' = [TokenHolder EXCEPT ![h] = t]
    <3>1. \A g \in Handlings \ {h}, u \in Taps : Took(u, g)' <=> Took(u, g)
      BY <1>1, <2>1 DEF Took
    <3>2. \A g \in Handlings \ {h} : TokenHolder'[g] = TokenHolder[g]
      BY <3>1, HoldersStay
    <3>3. TokenHolder'[h] = t
      <4>1. HoldersTook'
        BY HolderOf, PTL
      <4>2. Took(t, h)'
        BY <2>1 DEF Took
      <4> QED BY <4>1, <4>2 DEF HoldersTook
    <3>4. TokenHolder = [g \in Handlings |-> TokenHolder[g]] /\ TokenHolder' = [g \in Handlings |-> TokenHolder'[g]]
      BY DEF TokenHolder
    <3> QED BY <3>2, <3>3, <3>4
  <2> QED BY <2>2, <2>3, <2>4 DEF Tokens!Next, Tokens!Take
<1> QED BY <1>1, <1>3, <1>4 DEF Take

\* To who presses the buttons, every step saves a prompt, gives it to one
\* callback, lets it lapse or changes nothing.
LEMMA StepRefines ==
  ASSUME IInv, IInv', [Next]_vars
  PROVE  [Tokens!Next]_(Tokens!vars)
<1>1. CASE UNCHANGED <<prompt, tap>>
  BY <1>1, PromptsStay DEF TakersStay
<1>2. ASSUME NEW h \in Handlings, (\E m \in Messages : Receive(h, m)) \/ HandleMessage(h)
      PROVE  [Tokens!Next]_(Tokens!vars)
  BY <1>1, <1>2, SavePendingSaves
     DEF HandleMessage, Receive, Stage, Detect, SendPrompt, Ingest, Promote, Reply
<1>3. ASSUME NEW h \in Handlings, Expire(h)
      PROVE  Tokens!Next
  BY <1>3, PromptLapses, PromptsType DEF Expire, TakersStay
<1>4. ASSUME NEW t \in Taps, NEW h \in Handlings, NEW a \in {"keep", "discard"}, Press(t, h, a)
      PROVE  UNCHANGED Tokens!vars
  <2>1. tap[t].took = FALSE
    BY <1>4 DEF Press, TapAt, IInv, TapInv
  <2>2. tap' = [tap EXCEPT ![t].pc = "pressed", ![t].on = h, ![t].action = a] /\ UNCHANGED prompt
    BY <1>4 DEF Press
  <2>3. TakersStay
    BY <2>1, <2>2, TapsType DEF TakersStay
  <2> QED BY <2>2, <2>3, PromptsStay
<1>5. ASSUME NEW t \in Taps, HandleCallback(t)
      PROVE  [Tokens!Next]_(Tokens!vars)
  <2>1. ASSUME NEW pc \in Tapping \union {"done"}, TapGo(t, pc), UNCHANGED prompt
        PROVE  UNCHANGED Tokens!vars
    <3>1. TakersStay
      BY <2>1, TapMoves DEF TakersStay
    <3> QED BY <2>1, <3>1, PromptsStay
  <2> QED BY <1>5, <2>1, TakeTakes DEF HandleCallback, KeepIngest, Settle, Answer, Tapping
<1>6. CASE Restart
  <2>1. TakersStay
    BY <1>6, TapsType DEF Restart, TakersStay
  <2>2. \A h \in Handlings : prompt'[h] = prompt[h] \/ (prompt[h] = "expired" /\ prompt'[h] = "gone")
    BY <1>6 DEF Restart
  <2> QED BY <2>1, <2>2, PromptsStay
<1>7. CASE UNCHANGED vars
  BY <1>1, <1>7 DEF vars
<1> QED BY <1>2, <1>3, <1>4, <1>5, <1>6, <1>7 DEF Next

\* PendingValidationStore keeps its promise through every handler that uses it:
\* a prompt is good for one callback, whatever fails, expires, is pressed twice,
\* is delivered again or is cut off.
THEOREM Implements == Spec => ImplementsOneTimeTokens
<1>1. Init => Tokens!Init
  <2> SUFFICES ASSUME Init PROVE Tokens!Init
    OBVIOUS
  <2>1. (\A h \in Handlings : prompt[h] = "unsaved") /\ (\A t \in Taps : tap[t].took = FALSE)
    BY DEF Init
  <2> QED BY <2>1 DEF Tokens!Init, TokenState, TokenHolder
<1>2. IInv /\ IInv' /\ [Next]_vars => [Tokens!Next]_(Tokens!vars)
  BY StepRefines
<1> QED BY <1>1, <1>2, IInvHolds, PTL DEF Spec, ImplementsOneTimeTokens, Tokens!Spec

-----------------------------------------------------------------------------
(* Promoted texts.                                                         *)

\* An object is filed under the key of its creator's message.
KeyInv ==
  \A h \in Handlings, k \in Keys : objects[k] = h => work[h].msg \in Messages /\ Key(h) = k

\* An ingest for h files under h's key.
LEMMA FiledUnderOwnKey ==
  ASSUME IInv, KeyInv, NEW h \in Handlings, work[h].msg \in Messages, objects' \in {objects, Stored(h)},
         \A g \in Handlings : work'[g].msg = work[g].msg
  PROVE  KeyInv'
<1>1. \A k \in Keys : objects'[k] = objects[k] \/ (objects'[k] = h /\ k = Key(h))
  <2>1. objects \in [Keys -> Handlings \union {Nobody}] /\ Key(h) \in Keys
    BY DEF IInv, TypeOK, Key, Keys
  <2> HIDE DEF Keys
  <2>2. Stored(h) = IF objects[Key(h)] = Nobody THEN [objects EXCEPT ![Key(h)] = h] ELSE objects
    BY DEF Stored, Key
  <2> QED BY <2>1, <2>2
<1>2. \A g \in Handlings : Key(g)' = Key(g)
  BY DEF Key
<1>3. UNCHANGED Keys
  BY DEF Keys
<1> QED BY <1>1, <1>2, <1>3 DEF KeyInv

\* Only a message that comes in is new to its handling, which has stored nothing.
LEMMA ReceiveKeepsKeys ==
  ASSUME IInv, KeyInv, NEW h \in Handlings, NEW m \in Messages, Receive(h, m)
  PROVE  KeyInv'
<1>1. work[h].pc = "idle" /\ UNCHANGED objects /\ \A g \in Handlings \ {h} : work'[g] = work[g]
  BY DEF Receive, At, IInv, TypeOK
<1>2. \A k \in Keys : objects[k] # h
  BY <1>1, UntakenYet DEF IInv, HandlingInv
<1>3. UNCHANGED Keys
  BY DEF Keys
<1> QED BY <1>1, <1>2, <1>3 DEF KeyInv, Key

LEMMA StepKeepsKeys == IInv /\ KeyInv /\ [Next]_vars => KeyInv'
<1> SUFFICES ASSUME IInv, KeyInv, [Next]_vars PROVE KeyInv'
  OBVIOUS
<1>1. ASSUME UNCHANGED objects, \A g \in Handlings : work'[g].msg = work[g].msg PROVE KeyInv'
  <2>1. UNCHANGED Keys /\ \A g \in Handlings : Key(g)' = Key(g)
    BY <1>1 DEF Key, Keys
  <2> QED BY <1>1, <2>1 DEF KeyInv
<1>2. ASSUME NEW h \in Handlings, NEW pc \in Running \union {"done"}, Go(h, pc)
      PROVE  \A g \in Handlings : work'[g].msg = work[g].msg
  BY <1>2, WorkMoves
<1>3. ASSUME NEW h \in Handlings, Ingest(h) PROVE KeyInv'
  <2>1. Go(h, "stored") \/ Go(h, "failed")
    BY <1>3 DEF Ingest
  <2>2. objects' \in {objects, Stored(h)} /\ work[h].msg \in Messages
    BY <1>3 DEF Ingest, At, IInv, HandlingInv
  <2>3. \A g \in Handlings : work'[g].msg = work[g].msg
    BY <1>2, <2>1 DEF Running
  <2> QED BY <2>2, <2>3, FiledUnderOwnKey
<1>4. ASSUME NEW t \in Taps, KeepIngest(t) PROVE KeyInv'
  <2>1. tap[t].pc # "idle" /\ objects' \in {objects, Stored(tap[t].on)} /\ UNCHANGED work
    BY <1>4 DEF KeepIngest, TapAt
  <2> QED BY <2>1, TapIsOn, FiledUnderOwnKey
<1>5. ASSUME NEW h \in Handlings, Stage(h) PROVE KeyInv'
  <2>1. \A g \in Handlings : work'[g].msg = work[g].msg
    <3>1. CASE Go(h, "staged")
      BY <1>2, <3>1 DEF Running
    <3>2. CASE work' = [work EXCEPT ![h].pc = "staged", ![h].staged = TRUE]
      BY <3>2 DEF IInv, TypeOK
    <3> QED BY <1>5, <3>1, <3>2 DEF Stage
  <2> QED BY <1>1, <1>5, <2>1 DEF Stage
<1>6. ASSUME NEW h \in Handlings, Detect(h) \/ SavePending(h) \/ SendPrompt(h) \/ Promote(h) \/ Reply(h)
      PROVE  KeyInv'
  <2>1. UNCHANGED objects /\ \E pc \in Running \union {"done"} : Go(h, pc)
    BY <1>6 DEF Detect, SavePending, SendPrompt, Promote, Reply, Running
  <2> QED BY <1>1, <1>2, <2>1
<1>7. ASSUME NEW t \in Taps, \/ \E h \in Handlings, a \in {"keep", "discard"} : Press(t, h, a)
                             \/ Take(t) \/ Settle(t) \/ Answer(t)
      PROVE  KeyInv'
  BY <1>1, <1>7 DEF Press, Take, Settle, Answer
<1>8. CASE Restart
  <2>1. UNCHANGED objects /\ \A g \in Handlings : work'[g].msg = work[g].msg
    BY <1>8 DEF Restart, IInv, TypeOK
  <2> QED BY <1>1, <2>1
<1>9. CASE UNCHANGED vars
  BY <1>1, <1>9 DEF vars
<1>10. ASSUME NEW h \in Handlings, (\E m \in Messages : Receive(h, m)) \/ HandleMessage(h) \/ Expire(h)
       PROVE  KeyInv'
  <2>1. CASE Expire(h)
    BY <1>1, <2>1 DEF Expire
  <2> QED BY <1>3, <1>5, <1>6, <1>10, <2>1, ReceiveKeepsKeys DEF HandleMessage
<1> QED BY <1>4, <1>7, <1>8, <1>9, <1>10 DEF Next, HandleCallback

\* What a promoted raw input is sure of, whatever fails, comes twice or is cut off:
\* a text is stored whose message has its id.  So none but a message that shares
\* the id can have taken its place (handler.go takes the message id for the key).
PromotedIdsAreStored ==
  \A h \in Handlings : raw[h] = "promoted" =>
    \E g \in Handlings : objects[Key(h)] = g /\ work[g].msg \in Messages /\ Key(g) = Key(h)

THEOREM PromotedIdsStayStored == Spec => []PromotedIdsAreStored
<1>1. Init => KeyInv
  <2> SUFFICES ASSUME Init PROVE KeyInv
    OBVIOUS
  <2>1. \A k \in Keys : objects[k] = Nobody
    BY DEF Init, Keys
  <2> QED BY <2>1, NobodyAssumption DEF KeyInv
<1>2. IInv /\ KeyInv => PromotedIdsAreStored
  <2> SUFFICES ASSUME IInv, KeyInv, NEW h \in Handlings, raw[h] = "promoted"
               PROVE  \E g \in Handlings : objects[Key(h)] = g /\ work[g].msg \in Messages /\ Key(g) = Key(h)
    BY DEF PromotedIdsAreStored
  <2>1. objects[Key(h)] # Nobody /\ work[h].msg \in Messages
    BY DEF IInv, HandlingInv
  <2>2. Key(h) \in Keys /\ objects[Key(h)] \in Handlings
    BY <2>1 DEF IInv, TypeOK, Key, Keys
  <2> QED BY <2>2 DEF KeyInv
<1> QED BY <1>1, <1>2, StepKeepsKeys, IInvHolds, PTL DEF Spec

=============================================================================
