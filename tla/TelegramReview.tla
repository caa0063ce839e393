--------------------------- MODULE TelegramReview ---------------------------
(***************************************************************************)
(* Reviewing the backlog from Telegram: /backlog and the Skip button send  *)
(* cards with one opaque token per button, and a pressed button takes its  *)
(* token, checks who pressed it and whether the object still has the       *)
(* status the card showed, and calls the lifecycle service                 *)
(* (internal/telegram/handler_backlog.go, handler_callback.go).  The taps  *)
(* run beside each other and beside the other users of the lifecycle       *)
(* services, which are KnowledgeLifecycle here: ObjectLifecycle implements *)
(* it.  Which of the pending objects a page starts with is the matter of   *)
(* HumanBacklog; here it is any of them.                                   *)
(***************************************************************************)
EXTENDS Naturals, Sequences

CONSTANTS Objects, Taps, Rivals, Cards, Nobody

\* A callback and a call from elsewhere are different requests.
ASSUME RivalsAssumption == Taps \cap Rivals = {}

Requests == Taps \union Rivals

VARIABLES status, audit,    \* KnowledgeLifecycle
          card,             \* card[c]: a card and the tokens of its buttons
          tap               \* tap[t]: a callback

lifecycleVars == <<status, audit>>
vars == <<status, audit, card, tap>>

Lifecycle == INSTANCE KnowledgeLifecycle

Actions == {"validate", "debate", "deprecate", "skip"}

\* backlogButtonsForStatus, in the order of the buttons.
Buttons(s) ==
  CASE s = "proposed" -> <<"validate", "debate", "deprecate", "skip">>
    [] s = "debating" -> <<"validate", "deprecate", "skip">>
    [] OTHER          -> <<"skip">>

NoCard == [pc |-> "none", obj |-> Nobody, expected |-> "absent",
           saved |-> {}, live |-> {}, text |-> "none"]

Init ==
  /\ Lifecycle!Init
  /\ card = [c \in Cards |-> NoCard]
  /\ tap = [t \in Taps |-> [pc |-> "idle", on |-> Nobody, action |-> "skip", owner |-> TRUE, took |-> FALSE]]

-----------------------------------------------------------------------------
(* The other users of the services.                                        *)

Ingest(o, s) == Lifecycle!Create(o, s) /\ UNCHANGED <<card, tap>>

RivalDecides(r) ==
  /\ \E op \in Lifecycle!Operations, o \in Objects :
       \E target \in Lifecycle!AllowedTargets(op) : Lifecycle!Decide(r, op, o, target, "human")
  /\ UNCHANGED <<card, tap>>

-----------------------------------------------------------------------------
(* Cards.                                                                  *)

\* What ListHumanBacklog may return; deprecated objects leave it with time.
Pending == {o \in Objects : status[o] \in {"proposed", "debating", "deprecated"}}

\* An item listed for card c.
ListFor(c) ==
  /\ card[c].pc = "none"
  /\ \E o \in Pending :
       card' = [card EXCEPT ![c].pc = "listed", ![c].obj = o, ![c].expected = status[o]]

\* /backlog; an empty page or an error sends a text and makes no card.
HandleBacklog(c) == ListFor(c) /\ UNCHANGED <<lifecycleVars, tap>>

\* issueReviewActions saves one token per button, in order; after a failing
\* save the card is not sent and the saved tokens stay.  A send may fail too.
SendCard(c) ==
  /\ card[c].pc = "listed"
  /\ \E n \in 0 .. Len(Buttons(card[c].expected)) :
       LET tokens == {Buttons(card[c].expected)[i] : i \in 1 .. n}
       IN \E pc \in {"sent", "aborted"} :
            /\ pc = "sent" => n = Len(Buttons(card[c].expected))
            /\ card' = [card EXCEPT ![c].pc = pc, ![c].saved = tokens, ![c].live = tokens]
  /\ UNCHANGED <<lifecycleVars, tap>>

\* The tokens of a card expire together.
Expire(c) ==
  /\ card[c].live # {}
  /\ card' = [card EXCEPT ![c].live = {}]
  /\ UNCHANGED <<lifecycleVars, tap>>

-----------------------------------------------------------------------------
(* handleReviewCallback.                                                   *)

At(t, pc) == tap[t].pc = pc
Go(t, pc) == tap' = [tap EXCEPT ![t].pc = pc]
On(t) == card[tap[t].on]

\* A button of a sent card that has not been edited away.  owner: the actor and
\* the chat are those the card was made for.
Press(t, c, a, owner) ==
  /\ At(t, "idle")
  /\ card[c].pc = "sent" /\ card[c].text = "none" /\ a \in card[c].saved
  /\ tap' = [tap EXCEPT ![t] = [pc |-> "pressed", on |-> c, action |-> a, owner |-> owner, took |-> FALSE]]
  /\ UNCHANGED <<lifecycleVars, card>>

\* Where a callback goes with the entry it was given: the wrong user is told
\* so, with the token used up.
AfterTake(t) ==
  IF ~ tap[t].owner THEN "done" ELSE IF tap[t].action = "skip" THEN "skipping" ELSE "checking"

\* Faulty variant: Take reads without deleting.
TakeWithoutDelete(t) ==
  /\ At(t, "pressed")
  /\ IF tap[t].action \in On(t).live
     THEN tap' = [tap EXCEPT ![t].pc = AfterTake(t), ![t].took = TRUE]
     ELSE Go(t, "done")
  /\ UNCHANGED <<lifecycleVars, card>>

\* Take; when the call fails the row may be gone, and the callback ends.
Take(t) ==
  /\ At(t, "pressed")
  /\ LET gone == [card EXCEPT ![tap[t].on].live = @ \ {tap[t].action}]
     IN \/ /\ tap[t].action \in On(t).live
           /\ card' = gone
           /\ tap' = [tap EXCEPT ![t].pc = AfterTake(t), ![t].took = TRUE]
        \/ tap[t].action \notin On(t).live /\ Go(t, "done") /\ UNCHANGED card
        \/ Go(t, "done") /\ card' \in {card, gone}
  /\ UNCHANGED lifecycleVars

\* renderNextBacklogCard: a new message for the next item, the old card as it
\* was; an empty page edits the old card; a failing list answers only.
Skip(t) ==
  /\ At(t, "skipping")
  /\ Go(t, "done")
  /\ \/ \E c \in Cards : ListFor(c)
     \/ card' \in {card, [card EXCEPT ![tap[t].on].text = "nothing pending"]}
  /\ UNCHANGED lifecycleVars

\* FindByID and the comparison with ExpectedStatus, before and outside of the
\* service's transaction; a failing read answers only.
Check(t) ==
  /\ At(t, "checking")
  /\ \/ status[On(t).obj] = On(t).expected /\ Go(t, "calling")
     \/ status[On(t).obj] # On(t).expected /\ Go(t, "changed")
     \/ Go(t, "done")
  /\ UNCHANGED <<lifecycleVars, card>>

\* Faulty variant: the service follows from the action alone.
ServiceByAction(expected, action) ==
  CASE action = "debate" -> "mark"
    [] action = "validate" /\ expected = "proposed" -> "resolve"
    [] OTHER -> "validate"

\* The service the pair (status shown, action) stands for.
Service(expected, action) ==
  IF action = "debate" THEN "mark"
  ELSE CASE expected = "proposed" -> "validate"
         [] expected = "debating" -> "resolve"

Target(action) ==
  CASE action = "validate"  -> "validated"
    [] action = "deprecate" -> "deprecated"
    [] action = "debate"    -> "debating"

OpOf(t) == Service(On(t).expected, tap[t].action)

\* The service decides; its answer, but not its effect, may be lost.
CallDecides(t) ==
  /\ At(t, "calling")
  /\ Lifecycle!Decide(t, OpOf(t), On(t).obj, Target(tap[t].action), "human")
  /\ Go(t, "decided") \/ Go(t, "done")
  /\ UNCHANGED card

\* Faulty variant: the error of the service is not looked at.
CallRefusedUnnoticed(t) ==
  /\ At(t, "calling")
  /\ status[On(t).obj] \notin Lifecycle!SourceStatuses(OpOf(t)) /\ Go(t, "decided")
  /\ UNCHANGED <<lifecycleVars, card>>

\* ErrInvalidTransition retires the card; any other error only answers.
CallFails(t) ==
  /\ At(t, "calling")
  /\ \/ status[On(t).obj] \notin Lifecycle!SourceStatuses(OpOf(t)) /\ Go(t, "changed")
     \/ Go(t, "done")
  /\ UNCHANGED <<lifecycleVars, card>>

\* The card is edited, which takes its buttons away, and the tap answered.
Answer(t) ==
  /\ At(t, "decided") \/ At(t, "changed")
  /\ Go(t, "done")
  /\ card' \in {card, [card EXCEPT ![tap[t].on].text = IF At(t, "changed") THEN "changed" ELSE Target(tap[t].action)]}
  /\ UNCHANGED lifecycleVars

\* The process stops: the callback is cut off where it is.
Cut(t) ==
  /\ tap[t].pc \notin {"idle", "done"}
  /\ Go(t, "done")
  /\ UNCHANGED <<lifecycleVars, card>>

HandleReviewCallback(t) ==
  Take(t) \/ Skip(t) \/ Check(t) \/ CallDecides(t) \/ CallFails(t) \/ Answer(t) \/ Cut(t)

Next ==
  \/ \E o \in Objects, s \in Lifecycle!Statuses : Ingest(o, s)
  \/ \E r \in Rivals : RivalDecides(r)
  \/ \E c \in Cards : HandleBacklog(c) \/ SendCard(c) \/ Expire(c)
  \/ \E t \in Taps : \/ \E c \in Cards, a \in Actions, owner \in BOOLEAN : Press(t, c, a, owner)
                     \/ HandleReviewCallback(t)

Spec == Init /\ [][Next]_vars

-----------------------------------------------------------------------------
(* Properties.                                                             *)

\* What a tap does to an object, it does on the order of the user the card was
\* made for, with the outcome on the button, and to an object in the status the
\* card showed, although the check is outside the transaction.  The exception:
\* a debate tap may find that somebody opened the debate meanwhile.
TapsDecideWhatTheirCardShowed ==
  \A o \in Objects : \A i \in 1 .. Len(audit[o]) :
    LET row == audit[o][i]
    IN row.by \in Taps =>
         /\ tap[row.by].owner /\ tap[row.by].took /\ On(row.by).obj = o
         /\ row.after = Target(tap[row.by].action)
         /\ row.before = On(row.by).expected \/ (row.action = "debate_opened" /\ row.before = "debating")

\* A card that says "validado" or "deprecado" says the truth, for good, however
\* many of its buttons were pressed and whoever else decided.
CardVerdictsAreTrue ==
  \A c \in Cards : card[c].text \in Lifecycle!Verdicts => status[card[c].obj] = card[c].text

\* Each button works once, for one callback.
Buttonables == Cards \X Actions
TokenState ==
  [k \in Buttonables |-> IF k[2] \in card[k[1]].live THEN "live"
                         ELSE IF k[2] \in card[k[1]].saved THEN "spent" ELSE "unsaved"]
Took(t, k) == tap[t].took /\ tap[t].on = k[1] /\ tap[t].action = k[2]
TokenHolder ==
  [k \in Buttonables |-> IF \E t \in Taps : Took(t, k) THEN CHOOSE t \in Taps : Took(t, k) ELSE Nobody]
Tokens == INSTANCE OneTimeTokens WITH
            Tokens <- Buttonables, Takers <- Taps, state <- TokenState, holder <- TokenHolder
ImplementsOneTimeTokens == Tokens!Spec

=============================================================================
