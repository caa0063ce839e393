-------------------------- MODULE TelegramMessages --------------------------
(***************************************************************************)
(* Telegram messages and the validation of collisions: handleMessage       *)
(* stages the text in raw_inputs, looks for collisions and either ingests  *)
(* the text or saves a pending validation and asks the human; handleCall-  *)
(* back takes the pending validation of a pressed button and ingests or    *)
(* discards it (internal/telegram/handler.go, handler_callback.go).  Every *)
(* update runs in a goroutine of its own; any call may fail, with or       *)
(* without effect, and the process may restart between any two calls.      *)
(* Ingest is one step here: Ingestion models its transaction.              *)
(***************************************************************************)
EXTENDS Naturals

CONSTANTS Messages,   \* messages users send
          Handlings,  \* goroutines of handleMessage; each names the raw_inputs
                      \* row and the token of the prompt it creates
          Taps,       \* goroutines of handleCallback
          Nobody,
          KeyOf,      \* KeyOf[m]: m's idempotency key, its message id, unique in
                      \* its chat only
          MaxFaults   \* bound on failing calls and restarts

\* An object without a creator is told from all others; the bound is a number.
ASSUME NobodyAssumption == Nobody \notin Handlings /\ MaxFaults \in Nat

VARIABLES delivered,  \* messages the bot has fetched and acknowledged
          work,       \* work[h]: handling h
          raw,        \* raw[h]: status of the raw_inputs row h created
          prompt,     \* prompt[h]: h's row of telegram_pending_validations
          shown,      \* shown[h]: h's prompt in the chat
          tap,        \* tap[t]: callback t
          objects,    \* objects[k]: whose request created the object with key k
          told,       \* told[h]: the last the user was told of h's message
          faults      \* failing calls and restarts so far

vars == <<delivered, work, raw, prompt, shown, tap, objects, told, faults>>

Running == {"received", "staged", "asking", "prompting", "ingesting", "stored", "failed", "replying"}
Tapping == {"pressed", "keeping", "kept", "failed", "discarding", "answering"}

TypeOK ==
  /\ delivered \subseteq Messages
  /\ work \in [Handlings -> [pc : Running \union {"idle", "done", "lost", "cut"},
                             msg : Messages \union {Nobody}, staged : BOOLEAN]]
  /\ raw \in [Handlings -> {"absent", "pending", "promoted", "discarded"}]
  /\ prompt \in [Handlings -> {"unsaved", "live", "expired", "gone"}]
  /\ shown \in [Handlings -> {"no", "buttons", "retired"}]
  /\ tap \in [Taps -> [pc : Tapping \union {"idle", "done", "cut"}, on : Handlings \union {Nobody},
                       action : {"keep", "discard"}, took : BOOLEAN]]
  /\ objects \in [{KeyOf[m] : m \in Messages} -> Handlings \union {Nobody}]
  /\ told \in [Handlings -> {"nothing", "asked", "answered", "error"}]
  /\ faults \in 0 .. MaxFaults

Init ==
  /\ delivered = {}
  /\ work = [h \in Handlings |-> [pc |-> "idle", msg |-> Nobody, staged |-> FALSE]]
  /\ raw = [h \in Handlings |-> "absent"]
  /\ prompt = [h \in Handlings |-> "unsaved"]
  /\ shown = [h \in Handlings |-> "no"]
  /\ tap = [t \in Taps |-> [pc |-> "idle", on |-> Nobody, action |-> "keep", took |-> FALSE]]
  /\ objects = [k \in {KeyOf[m] : m \in Messages} |-> Nobody]
  /\ told = [h \in Handlings |-> "nothing"]
  /\ faults = 0

-----------------------------------------------------------------------------
(* What the steps share.                                                   *)

Fault == faults < MaxFaults /\ faults' = faults + 1
Works == UNCHANGED faults

At(h, pc) == work[h].pc = pc
Go(h, pc) == work' = [work EXCEPT ![h].pc = pc]
TapAt(t, pc) == tap[t].pc = pc
TapGo(t, pc) == tap' = [tap EXCEPT ![t].pc = pc]

\* IngestTextService.Ingest of h's request: a new object, or a duplicate.
Stored(h) ==
  LET k == KeyOf[work[h].msg]
  IN IF objects[k] = Nobody THEN [objects EXCEPT ![k] = h] ELSE objects

\* SetPromoted and SetDiscarded: unconditional updates, skipped for a handling
\* whose raw_inputs row could not be created.
RawSetTo(h, s) == IF work[h].staged THEN [raw EXCEPT ![h] = s] ELSE raw

-----------------------------------------------------------------------------
(* handleMessage.                                                          *)

Receive(h, m) ==
  /\ At(h, "idle") /\ m \notin delivered
  /\ delivered' = delivered \union {m}
  /\ work' = [work EXCEPT ![h].pc = "received", ![h].msg = m]
  /\ UNCHANGED <<raw, prompt, shown, tap, objects, told, faults>>

\* Faulty variant: a message that cannot be staged is dropped.
StageOrDrop(h) ==
  /\ At(h, "received")
  /\ \/ Works /\ raw' = [raw EXCEPT ![h] = "pending"] /\ work' = [work EXCEPT ![h].pc = "staged", ![h].staged = TRUE]
     \/ Fault /\ Go(h, "done") /\ UNCHANGED raw
  /\ UNCHANGED <<delivered, prompt, shown, tap, objects, told>>

\* raw_inputs Create; when it fails, with or without a row left behind, the
\* handler goes on and never touches the row again.
Stage(h) ==
  /\ At(h, "received")
  /\ \/ /\ Works
        /\ raw' = [raw EXCEPT ![h] = "pending"]
        /\ work' = [work EXCEPT ![h].pc = "staged", ![h].staged = TRUE]
     \/ /\ Fault
        /\ \E row \in {"absent", "pending"} : raw' = [raw EXCEPT ![h] = row]
        /\ Go(h, "staged")
  /\ UNCHANGED <<delivered, prompt, shown, tap, objects, told>>

\* Detect: no detector, an error and no collision all lead to a direct ingest.
\* SetCollisionSummary changes no status and blocks nothing.
Detect(h) ==
  /\ At(h, "staged")
  /\ Go(h, "ingesting") \/ Go(h, "asking")
  /\ UNCHANGED <<delivered, raw, prompt, shown, tap, objects, told, faults>>

\* Faulty variant: the prompt is sent also when the direct ingest follows.
SavePendingAndAsk(h) ==
  /\ At(h, "asking")
  /\ \/ Works /\ Go(h, "prompting") /\ UNCHANGED shown
     \/ Fault /\ Go(h, "ingesting") /\ shown' = [shown EXCEPT ![h] = "buttons"]
  /\ prompt' = [prompt EXCEPT ![h] = "live"]
  /\ UNCHANGED <<delivered, raw, tap, objects, told>>

\* PendingValidationStore.Save; when it fails, with or without effect, the
\* handler degrades to a direct ingest and sends no prompt.
SavePending(h) ==
  /\ At(h, "asking")
  /\ \/ Works /\ prompt' = [prompt EXCEPT ![h] = "live"] /\ Go(h, "prompting")
     \/ /\ Fault
        /\ \E row \in {"unsaved", "live"} : prompt' = [prompt EXCEPT ![h] = row]
        /\ Go(h, "ingesting")
  /\ UNCHANGED <<delivered, raw, shown, tap, objects, told>>

SendPrompt(h) ==
  /\ At(h, "prompting") /\ Go(h, "done")
  /\ \/ /\ Works
        /\ shown' = [shown EXCEPT ![h] = "buttons"]
        /\ told' = [told EXCEPT ![h] = "asked"]
     \/ Fault /\ UNCHANGED <<shown, told>>
  /\ UNCHANGED <<delivered, raw, prompt, tap, objects>>

\* ingestAndReplyWithRawInput: ingest, promote, reply.
Ingest(h) ==
  /\ At(h, "ingesting")
  /\ \/ Works /\ objects' = Stored(h) /\ Go(h, "stored")
     \/ Fault /\ objects' \in {objects, Stored(h)} /\ Go(h, "failed")
  /\ UNCHANGED <<delivered, raw, prompt, shown, tap, told>>

Promote(h) ==
  /\ At(h, "stored") /\ Go(h, "replying")
  /\ \/ Works /\ raw' = RawSetTo(h, "promoted")
     \/ Fault /\ UNCHANGED raw
  /\ UNCHANGED <<delivered, prompt, shown, tap, objects, told>>

Reply(h) ==
  /\ At(h, "failed") \/ At(h, "replying")
  /\ Go(h, "done")
  /\ \/ Works /\ told' = [told EXCEPT ![h] = IF At(h, "failed") THEN "error" ELSE "answered"]
     \/ Fault /\ UNCHANGED told
  /\ UNCHANGED <<delivered, raw, prompt, shown, tap, objects>>

-----------------------------------------------------------------------------
(* handleCallback.                                                         *)

\* A button of the prompt is pressed, or Telegram delivers again a callback
\* that a restart has cut off.
Press(t, h, a) ==
  /\ TapAt(t, "idle")
  /\ \/ shown[h] = "buttons"
     \/ \E u \in Taps : TapAt(u, "cut") /\ tap[u].on = h /\ tap[u].action = a
  /\ tap' = [tap EXCEPT ![t].pc = "pressed", ![t].on = h, ![t].action = a]
  /\ UNCHANGED <<delivered, work, raw, prompt, shown, objects, told, faults>>

\* Faulty variant: the entry is read and deleted by two statements.
TakeWithoutDelete(t) ==
  LET h == tap[t].on
  IN /\ TapAt(t, "pressed")
     /\ IF prompt[h] = "live"
        THEN tap' = [tap EXCEPT ![t].took = TRUE,
                                ![t].pc = IF tap[t].action = "keep" THEN "keeping" ELSE "discarding"]
        ELSE TapGo(t, "done")
     /\ UNCHANGED <<delivered, work, raw, prompt, shown, objects, told, faults>>

\* Take: DELETE ... WHERE not expired RETURNING.  An unknown, used or expired
\* token answers "ya no está disponible"; a failing call may have deleted the
\* row, and the callback ends in either case.
Take(t) ==
  LET h == tap[t].on
  IN /\ TapAt(t, "pressed")
     /\ \/ /\ Works
           /\ prompt[h] = "live"
           /\ prompt' = [prompt EXCEPT ![h] = "gone"]
           /\ tap' = [tap EXCEPT ![t].took = TRUE,
                                 ![t].pc = IF tap[t].action = "keep" THEN "keeping" ELSE "discarding"]
        \/ Works /\ prompt[h] # "live" /\ TapGo(t, "done") /\ UNCHANGED prompt
        \/ /\ Fault /\ TapGo(t, "done")
           /\ \/ UNCHANGED prompt
              \/ prompt[h] = "live" /\ prompt' = [prompt EXCEPT ![h] = "gone"]
     /\ UNCHANGED <<delivered, work, raw, shown, objects, told>>

KeepIngest(t) ==
  /\ TapAt(t, "keeping")
  /\ \/ Works /\ objects' = Stored(tap[t].on) /\ TapGo(t, "kept")
     \/ Fault /\ objects' \in {objects, Stored(tap[t].on)} /\ TapGo(t, "failed")
  /\ UNCHANGED <<delivered, work, raw, prompt, shown, told>>

\* SetPromoted after a successful ingest, SetDiscarded after "discard".
Settle(t) ==
  LET h == tap[t].on
  IN /\ TapAt(t, "kept") \/ TapAt(t, "discarding")
     /\ TapGo(t, "answering")
     /\ \/ Works /\ raw' = RawSetTo(h, IF TapAt(t, "kept") THEN "promoted" ELSE "discarded")
        \/ Fault /\ UNCHANGED raw
     /\ UNCHANGED <<delivered, work, prompt, shown, objects, told>>

\* The prompt is edited, which takes its buttons away, and the tap answered.
Answer(t) ==
  LET h == tap[t].on
  IN /\ TapAt(t, "answering") \/ TapAt(t, "failed")
     /\ TapGo(t, "done")
     /\ \/ /\ Works
           /\ shown' = [shown EXCEPT ![h] = "retired"]
           /\ told' = [told EXCEPT ![h] = IF TapAt(t, "failed") THEN "error" ELSE "answered"]
        \/ Fault /\ UNCHANGED <<shown, told>>
     /\ UNCHANGED <<delivered, work, raw, prompt, objects>>

-----------------------------------------------------------------------------
(* Time and restarts.                                                      *)

\* PendingValidationTTL is over.
Expire(h) ==
  /\ prompt[h] = "live"
  /\ prompt' = [prompt EXCEPT ![h] = "expired"]
  /\ UNCHANGED <<delivered, work, raw, shown, tap, objects, told, faults>>

\* The process stops and starts again: goroutines are gone, updates that were
\* not acknowledged come again, and the startup sweep deletes expired rows.
Restart ==
  /\ Fault
  /\ \E again \in SUBSET {work[h].msg : h \in {g \in Handlings : work[g].pc \in Running}} :
       delivered' = delivered \ again
  /\ work' = [h \in Handlings |->
       [work[h] EXCEPT !.pc = IF @ = "received" THEN "lost" ELSE IF @ \in Running THEN "cut" ELSE @]]
  /\ tap' = [t \in Taps |-> [tap[t] EXCEPT !.pc = IF @ \in Tapping THEN "cut" ELSE @]]
  /\ prompt' = [h \in Handlings |-> IF prompt[h] = "expired" THEN "gone" ELSE prompt[h]]
  /\ UNCHANGED <<raw, shown, objects, told>>

HandleMessage(h) ==
  Stage(h) \/ Detect(h) \/ SavePending(h) \/ SendPrompt(h) \/ Ingest(h) \/ Promote(h) \/ Reply(h)

HandleCallback(t) == Take(t) \/ KeepIngest(t) \/ Settle(t) \/ Answer(t)

Next ==
  \/ \E h \in Handlings : (\E m \in Messages : Receive(h, m)) \/ HandleMessage(h) \/ Expire(h)
  \/ \E t \in Taps : (\E h \in Handlings, a \in {"keep", "discard"} : Press(t, h, a)) \/ HandleCallback(t)
  \/ Restart

Spec == Init /\ [][Next]_vars

-----------------------------------------------------------------------------
(* Properties.                                                             *)

\* A promoted raw input has its object; a discarded one was not stored by its
\* own handling or prompt, however often its buttons were pressed and whatever
\* failed or restarted on the way.
RawInputsTellTheTruth ==
  \A h \in Handlings :
    /\ raw[h] = "promoted" => objects[KeyOf[work[h].msg]] # Nobody
    /\ raw[h] = "discarded" => objects[KeyOf[work[h].msg]] # h

\* A raw input is promoted only when its own text is stored, by its own handling
\* or by one that had the message before a redelivery ("pending -> promoted
\* (ingested)", internal/domain/raw_input.go).  The code breaks this for messages
\* that share an id, as messages of two chats may.
PromotedTextsAreStored ==
  \A h \in Handlings : raw[h] = "promoted" =>
    \E g \in Handlings : objects[KeyOf[work[h].msg]] = g /\ work[g].msg = work[h].msg

\* A verdict on a raw input is never overwritten: the unconditional updates
\* rest on the token that lets one callback at most reach them.
RawVerdictsAreFinal ==
  [][\A h \in Handlings : raw[h] \in {"promoted", "discarded"} => raw'[h] = raw[h]]_vars

\* The raw input or the prompt has the text of h's message, or a goroutine is at it.
Held(h) ==
  \/ work[h].pc \in Running
  \/ raw[h] # "absent"
  \/ prompt[h] = "live"
  \/ \E t \in Taps : tap[t].took /\ tap[t].on = h /\ tap[t].pc \in Tapping

\* One failing call, or one restart, never makes a message disappear behind the
\* user's back once its handling has come to the staging step ("best-effort"
\* staging, detection and saving all degrade instead of giving up).
OneFaultLosesNoText ==
  faults <= 1 =>
    \A h \in Handlings : work[h].pc \notin {"idle", "lost"} =>
      Held(h) \/ told[h] \in {"error", "answered"} \/ (told[h] = "asked" /\ prompt[h] = "expired")

\* Every prompt is acted on by one callback at most.
TokenState ==
  [h \in Handlings |-> IF prompt[h] \in {"expired", "gone"} THEN "spent" ELSE prompt[h]]
TokenHolder ==
  [h \in Handlings |-> IF \E t \in Taps : tap[t].took /\ tap[t].on = h
                       THEN CHOOSE t \in Taps : tap[t].took /\ tap[t].on = h
                       ELSE Nobody]
Tokens == INSTANCE OneTimeTokens WITH
            Tokens <- Handlings, Takers <- Taps, state <- TokenState, holder <- TokenHolder
ImplementsOneTimeTokens == Tokens!Spec

=============================================================================
