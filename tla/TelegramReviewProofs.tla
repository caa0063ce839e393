------------------------ MODULE TelegramReviewProofs ------------------------
(***************************************************************************)
(* Proofs about TelegramReview for any number of objects, cards, taps and  *)
(* rivals: the token that one tap takes, the guard of the service it calls *)
(* and the finality of a verdict give what the check of the status, made   *)
(* outside the transaction, cannot.                                        *)
(***************************************************************************)
EXTENDS TelegramReview, TLAPS

Statuses == Lifecycle!Statuses
Verdicts == Lifecycle!Verdicts

CardType ==
  [pc : {"none", "listed", "sent", "aborted"}, obj : Objects \union {Nobody},
   expected : Statuses \union {"absent"}, saved : SUBSET Actions, live : SUBSET Actions,
   text : {"none", "nothing pending", "changed", "debating", "validated", "deprecated"}]

TapPcs == {"idle", "pressed", "skipping", "checking", "calling", "decided", "changed", "done"}

TapType ==
  [pc : TapPcs, on : Cards \union {Nobody}, action : Actions, owner : BOOLEAN, took : BOOLEAN]

TypeOK ==
  /\ status \in [Objects -> Statuses \union {"absent"}]
  /\ audit \in [Objects -> Seq(Lifecycle!RowType)]
  /\ card \in [Cards -> CardType]
  /\ tap \in [Taps -> TapType]

\* A card's buttons fit the status it shows.
CardInv ==
  \A c \in Cards :
    /\ card[c].live \subseteq card[c].saved
    /\ card[c].pc \in {"none", "listed"} => card[c].saved = {}
    /\ card[c].text # "none" => card[c].pc = "sent"
    /\ card[c].pc # "none" => card[c].obj \in Objects
    /\ "debate" \in card[c].saved => card[c].expected = "proposed"
    /\ card[c].saved \cap {"validate", "deprecate"} # {} => card[c].expected \in {"proposed", "debating"}

Deciding == {"checking", "calling", "decided", "changed"}

\* A tap that has come to a decision has its token, which nobody can take any more.
TapInv ==
  \A t \in Taps :
    /\ tap[t].pc # "idle" => tap[t].on \in Cards /\ On(t).pc = "sent" /\ tap[t].action \in On(t).saved
    /\ tap[t].pc \in {"idle", "pressed"} => tap[t].took = FALSE
    /\ tap[t].pc \in Deciding => tap[t].took = TRUE /\ tap[t].owner = TRUE /\ tap[t].action # "skip"
    /\ tap[t].took = TRUE => tap[t].action \notin On(t).live

TakenOnce ==
  \A t, u \in Taps :
    (/\ tap[t].took = TRUE /\ tap[u].took = TRUE
     /\ tap[t].on = tap[u].on /\ tap[t].action = tap[u].action) => t = u

\* What a tap is about to write on its card is true.
DecidedInv ==
  \A t \in Taps :
    tap[t].pc = "decided" /\ Target(tap[t].action) \in Verdicts =>
      status[On(t).obj] = Target(tap[t].action)

\* An audit row of a tap was written at the tap's last but one step.
TracedBy(o, row) ==
  row.by \in Taps =>
    LET t == row.by
    IN /\ tap[t].pc \in {"decided", "done"} /\ tap[t].owner = TRUE /\ tap[t].took = TRUE
       /\ On(t).obj = o /\ row.after = Target(tap[t].action)
       /\ row.before = On(t).expected \/ (row.action = "debate_opened" /\ row.before = "debating")

RowInv == \A o \in Objects : \A i \in 1 .. Len(audit[o]) : TracedBy(o, audit[o][i])

\* The inductive invariant.
IInv ==
  /\ TypeOK /\ CardInv /\ TapInv /\ TakenOnce
  /\ DecidedInv /\ RowInv /\ CardVerdictsAreTrue

-----------------------------------------------------------------------------
(* The other services' operations.                                         *)

\* One or two typed rows, each of the request that decides.
LEMMA AuditRowsOf ==
  ASSUME NEW op \in Lifecycle!Operations, NEW source \in Lifecycle!SourceStatuses(op),
         NEW target \in Lifecycle!AllowedTargets(op), NEW r \in Requests
  PROVE  LET rows == Lifecycle!AuditRows(op, source, target, "human", r)
         IN /\ rows \in Seq(Lifecycle!RowType) /\ Len(rows) \in 1 .. 2
            /\ \A i \in 1 .. Len(rows) :
                 /\ rows[i].by = r /\ rows[i].after = target /\ rows[i].before = source
                 /\ source # "debating" \/ op # "mark" \/ rows[i].action = "debate_opened"
<1> DEFINE rows == Lifecycle!AuditRows(op, source, target, "human", r)
           changed == Lifecycle!Row("status_changed", source, target, "empty", r)
           opened  == Lifecycle!Row("debate_opened", source, target,
                        Lifecycle!DebateMetadata("human", Lifecycle!Duplicate(op, source)), r)
           closed  == Lifecycle!Row("debate_resolved", source, target, "empty", r)
           Ours(x) == x.by = r /\ x.after = target /\ x.before = source
<1>1. source \in Statuses /\ target \in Statuses
  BY DEF Lifecycle!Operations, Lifecycle!SourceStatuses, Lifecycle!AllowedTargets, Lifecycle!Verdicts,
         Lifecycle!Statuses, Statuses
<1>2. /\ changed \in Lifecycle!RowType /\ opened \in Lifecycle!RowType /\ closed \in Lifecycle!RowType
      /\ Ours(changed) /\ Ours(opened) /\ Ours(closed) /\ opened.action = "debate_opened"
  BY <1>1 DEF Lifecycle!Row, Lifecycle!RowType, Lifecycle!DebateMetadata, Statuses
<1>3. \/ rows = <<opened>>
      \/ (source # "debating" \/ op # "mark") /\ (rows = <<changed>> \/ rows = <<changed, closed>> \/ rows = <<changed, opened>>)
  BY DEF Lifecycle!AuditRows, Lifecycle!Operations, Lifecycle!Duplicate
<1> HIDE DEF changed, opened, closed, rows
<1>4. CASE rows = <<opened>>
  <2>1. rows \in Seq(Lifecycle!RowType) /\ Len(rows) = 1 /\ rows[1] = opened
    BY <1>2, <1>4
  <2>2. \A i \in 1 .. Len(rows) : rows[i] = opened
    BY <2>1
  <2> QED BY <1>2, <2>1, <2>2 DEF rows
<1>5. ASSUME NEW x \in Lifecycle!RowType, NEW y \in Lifecycle!RowType, Ours(x), Ours(y),
             rows = <<x>> \/ rows = <<x, y>>
      PROVE  /\ rows \in Seq(Lifecycle!RowType) /\ Len(rows) \in 1 .. 2
             /\ \A i \in 1 .. Len(rows) : Ours(rows[i])
  <2>1. rows \in Seq(Lifecycle!RowType) /\ Len(rows) \in 1 .. 2
    <3>1. <<x>> \in Seq(Lifecycle!RowType) /\ Len(<<x>>) = 1 /\ <<x, y>> \in Seq(Lifecycle!RowType) /\ Len(<<x, y>>) = 2
      OBVIOUS
    <3>2. CASE rows = <<x>>
      BY <3>1, <3>2
    <3>3. CASE rows = <<x, y>>
      BY <3>1, <3>3
    <3> QED BY <1>5, <3>2, <3>3
  <2>2. rows[1] = x /\ (Len(rows) = 2 => rows[2] = y)
    BY <1>5
  <2>3. ASSUME NEW i \in 1 .. Len(rows) PROVE Ours(rows[i])
    <3> HIDE DEF Ours
    <3>1. \A n \in 1 .. 2 : \A j \in 1 .. n : j = 1 \/ (j = 2 /\ n = 2)
      OBVIOUS
    <3>2. i = 1 \/ (i = 2 /\ Len(rows) = 2)
      BY <2>1, <3>1, Zenon
    <3> QED BY <1>5, <2>2, <3>2
  <2> QED BY <2>1, <2>3
<1>6. CASE (source # "debating" \/ op # "mark") /\ (rows = <<changed>> \/ rows = <<changed, closed>> \/ rows = <<changed, opened>>)
  <2>1. /\ rows \in Seq(Lifecycle!RowType) /\ Len(rows) \in 1 .. 2
        /\ \A i \in 1 .. Len(rows) : Ours(rows[i])
    BY <1>2, <1>5, <1>6
  <2> QED BY <1>6, <2>1 DEF rows
<1> QED BY <1>3, <1>4, <1>6

\* What an operation leaves behind: its rows after the earlier ones, and no
\* verdict changed.
LEMMA DecideAdds ==
  ASSUME TypeOK, NEW r \in Requests, NEW op \in Lifecycle!Operations, NEW o \in Objects,
         NEW target \in Lifecycle!AllowedTargets(op), Lifecycle!Decide(r, op, o, target, "human")
  PROVE  /\ status' \in [Objects -> Statuses \union {"absent"}]
         /\ audit' \in [Objects -> Seq(Lifecycle!RowType)]
         /\ status[o] \in Lifecycle!SourceStatuses(op) /\ status'[o] = target
         /\ \A p \in Objects : status[p] \in Verdicts => status'[p] = status[p]
         /\ \A p \in Objects : \A i \in 1 .. Len(audit'[p]) :
              \/ i \in 1 .. Len(audit[p]) /\ audit'[p][i] = audit[p][i]
              \/ /\ p = o /\ audit'[p][i].by = r /\ audit'[p][i].after = target
                 /\ audit'[p][i].before = status[o]
                 /\ status[o] # "debating" \/ op # "mark" \/ audit'[p][i].action = "debate_opened"
<1> DEFINE rows == Lifecycle!AuditRows(op, status[o], target, "human", r)
<1>1. /\ status[o] \in Lifecycle!SourceStatuses(op) /\ status' = [status EXCEPT ![o] = target]
      /\ audit' = [audit EXCEPT ![o] = @ \o rows]
  BY DEF Lifecycle!Decide
<1>2. /\ rows \in Seq(Lifecycle!RowType) /\ Len(rows) \in 1 .. 2
      /\ \A i \in 1 .. Len(rows) :
           /\ rows[i].by = r /\ rows[i].after = target /\ rows[i].before = status[o]
           /\ status[o] # "debating" \/ op # "mark" \/ rows[i].action = "debate_opened"
  BY <1>1, AuditRowsOf
<1> HIDE DEF rows
<1>3. target \in Statuses /\ status[o] \notin Verdicts
  BY <1>1 DEF Lifecycle!Operations, Lifecycle!SourceStatuses, Lifecycle!AllowedTargets, Lifecycle!Verdicts,
              Lifecycle!Statuses, Statuses, Verdicts
<1>4. /\ status' \in [Objects -> Statuses \union {"absent"}] /\ status'[o] = target
      /\ \A p \in Objects : status[p] \in Verdicts => status'[p] = status[p]
  BY <1>1, <1>3 DEF TypeOK
<1>5. audit[o] \in Seq(Lifecycle!RowType) /\ audit[o] \o rows \in Seq(Lifecycle!RowType)
  BY <1>2 DEF TypeOK
<1>6. /\ audit' \in [Objects -> Seq(Lifecycle!RowType)]
      /\ \A p \in Objects : audit'[p] = IF p = o THEN audit[o] \o rows ELSE audit[p]
  BY <1>1, <1>5 DEF TypeOK
<1>7. \A i \in 1 .. Len(audit[o] \o rows) :
        \/ i \in 1 .. Len(audit[o]) /\ (audit[o] \o rows)[i] = audit[o][i]
        \/ i - Len(audit[o]) \in 1 .. Len(rows) /\ (audit[o] \o rows)[i] = rows[i - Len(audit[o])]
  BY <1>2, <1>5
<1> QED BY <1>1, <1>2, <1>4, <1>6, <1>7

-----------------------------------------------------------------------------
(* What every step leaves alone.                                           *)

\* A card that has been sent keeps its item and its buttons, and no token comes
\* back.
CardsStay ==
  \A c \in Cards : card[c].pc = "sent" =>
    /\ card'[c].pc = "sent" /\ card'[c].obj = card[c].obj /\ card'[c].expected = card[c].expected
    /\ card'[c].saved = card[c].saved /\ card'[c].live \subseteq card[c].live

VerdictsStay == \A o \in Objects : status[o] \in Verdicts => status'[o] = status[o]

\* A card's text is the one it had, or a verdict that holds.
TextsStay ==
  \A c \in Cards :
    card'[c].text \in Verdicts =>
      card'[c].text = card[c].text \/ status'[card'[c].obj] = card'[c].text

LEMMA VerdictsHold ==
  ASSUME IInv, CardsStay, VerdictsStay, TextsStay
  PROVE  CardVerdictsAreTrue'
<1> SUFFICES ASSUME NEW c \in Cards, card'[c].text \in Verdicts PROVE status'[card'[c].obj] = card'[c].text
  BY DEF CardVerdictsAreTrue, Verdicts, Lifecycle!Verdicts
<1>1. CASE card'[c].text = card[c].text
  <2>1. card[c].pc = "sent" /\ card[c].obj \in Objects /\ status[card[c].obj] = card[c].text
    BY <1>1 DEF IInv, CardInv, CardVerdictsAreTrue, Verdicts, Lifecycle!Verdicts
  <2>2. card'[c].obj = card[c].obj /\ status'[card[c].obj] = status[card[c].obj]
    BY <1>1, <2>1 DEF CardsStay, VerdictsStay
  <2> QED BY <1>1, <2>1, <2>2
<1> QED BY <1>1 DEF TextsStay

\* A step of no tap.
LEMMA RestKeeps ==
  ASSUME IInv, TypeOK', CardInv', CardsStay, VerdictsStay, TextsStay, UNCHANGED tap,
         \A o \in Objects : \A i \in 1 .. Len(audit'[o]) :
           \/ i \in 1 .. Len(audit[o]) /\ audit'[o][i] = audit[o][i]
           \/ audit'[o][i].by \notin Taps
  PROVE  IInv'
<1>1. \A t \in Taps : tap[t].pc # "idle" =>
        /\ tap[t].on \in Cards /\ On(t).pc = "sent" /\ On(t)'.pc = "sent"
        /\ On(t)'.obj = On(t).obj /\ On(t)'.expected = On(t).expected
        /\ On(t)'.saved = On(t).saved /\ On(t)'.live \subseteq On(t).live
  BY DEF IInv, TapInv, On, CardsStay
<1>2. \A t \in Taps : tap[t].took = TRUE => tap[t].pc # "idle"
  BY DEF IInv, TapInv
<1>3. TapInv'
  BY <1>1, <1>2 DEF IInv, TapInv
<1>4. TakenOnce'
  BY DEF IInv, TakenOnce
<1>5. \A t \in Taps : tap[t].pc # "idle" => On(t).obj \in Objects
  BY <1>1 DEF IInv, CardInv, On
<1>6. DecidedInv'
  BY <1>1, <1>5 DEF IInv, DecidedInv, VerdictsStay, Target
<1>7. RowInv'
  <2> SUFFICES ASSUME NEW o \in Objects, NEW i \in 1 .. Len(audit'[o]) PROVE TracedBy(o, audit[o][i])'
    BY DEF RowInv
  <2>1. CASE audit'[o][i].by \notin Taps
    BY <2>1 DEF TracedBy
  <2>2. CASE i \in 1 .. Len(audit[o]) /\ audit'[o][i] = audit[o][i]
    <3>1. TracedBy(o, audit[o][i])
      BY <2>2 DEF IInv, RowInv
    <3> QED BY <1>1, <2>2, <3>1 DEF TracedBy
  <2> QED BY <2>1, <2>2
<1> QED BY <1>3, <1>4, <1>6, <1>7, VerdictsHold DEF IInv

\* A step of tap t after its press.
LEMMA TapKeeps ==
  ASSUME IInv, NEW t \in Taps, TypeOK', CardInv', CardsStay, VerdictsStay, TextsStay,
         \A u \in Taps \ {t} : tap'[u] = tap[u],
         tap[t].pc # "idle", tap'[t].pc \notin {"idle", "pressed"},
         tap'[t].on = tap[t].on, tap'[t].action = tap[t].action, tap'[t].owner = tap[t].owner,
         \/ tap'[t].took = tap[t].took
         \/ tap[t].action \in On(t).live /\ tap[t].action \notin card'[tap[t].on].live,
         tap'[t].pc \in Deciding => tap'[t].took = TRUE /\ tap[t].owner = TRUE /\ tap[t].action # "skip",
         tap'[t].pc = "decided" /\ Target(tap[t].action) \in Verdicts => status'[On(t).obj] = Target(tap[t].action),
         \A u \in Taps : tap[u].pc \in {"decided", "done"} => tap'[u].pc \in {"decided", "done"},
         tap[t].took = TRUE => tap'[t].took = TRUE,
         \A o \in Objects : \A i \in 1 .. Len(audit'[o]) :
           \/ i \in 1 .. Len(audit[o]) /\ audit'[o][i] = audit[o][i]
           \/ TracedBy(o, audit[o][i])'
  PROVE  IInv'
<1>1. \A u \in Taps : tap[u].pc # "idle" =>
        /\ tap[u].on \in Cards /\ card[tap[u].on].pc = "sent" /\ card'[tap[u].on].pc = "sent"
        /\ tap[u].action \in card[tap[u].on].saved
        /\ card'[tap[u].on].obj = card[tap[u].on].obj /\ card'[tap[u].on].expected = card[tap[u].on].expected
        /\ card'[tap[u].on].saved = card[tap[u].on].saved /\ card'[tap[u].on].live \subseteq card[tap[u].on].live
        /\ card[tap[u].on].obj \in Objects
  BY DEF IInv, TapInv, On, CardsStay, CardInv
<1>2. \A u \in Taps : tap[u].took = TRUE => tap[u].pc # "idle" /\ tap[u].action \notin card[tap[u].on].live
  BY DEF IInv, TapInv, On
<1>3. TapInv'
  <2> SUFFICES ASSUME NEW u \in Taps
               PROVE  /\ tap'[u].pc # "idle" => /\ tap'[u].on \in Cards /\ card'[tap'[u].on].pc = "sent"
                                                /\ tap'[u].action \in card'[tap'[u].on].saved
                      /\ tap'[u].pc \in {"idle", "pressed"} => tap'[u].took = FALSE
                      /\ tap'[u].pc \in Deciding =>
                           tap'[u].took = TRUE /\ tap'[u].owner = TRUE /\ tap'[u].action # "skip"
                      /\ tap'[u].took = TRUE => tap'[u].action \notin card'[tap'[u].on].live
    BY DEF TapInv, On
  <2>1. CASE u = t
    BY <1>1, <1>2, <2>1
  <2>2. CASE u # t
    BY <1>1, <1>2, <2>2 DEF IInv, TapInv
  <2> QED BY <2>1, <2>2
<1>4. TakenOnce'
  <2> SUFFICES ASSUME NEW u \in Taps, NEW v \in Taps, u # v, tap'[u].took = TRUE, tap'[v].took = TRUE,
                      tap'[u].on = tap'[v].on, tap'[u].action = tap'[v].action
               PROVE  FALSE
    BY DEF TakenOnce
  <2>1. tap[u].on = tap[v].on /\ tap[u].action = tap[v].action
    OBVIOUS
  <2>2. ~ (tap[u].took = TRUE /\ tap[v].took = TRUE)
    BY <2>1 DEF IInv, TakenOnce
  <2> QED BY <1>2, <2>1, <2>2 DEF On
<1>5. DecidedInv'
  <2> SUFFICES ASSUME NEW u \in Taps, tap'[u].pc = "decided", Target(tap'[u].action) \in Verdicts
               PROVE  status'[card'[tap'[u].on].obj] = Target(tap'[u].action)
    BY DEF DecidedInv, On, Target, Verdicts, Lifecycle!Verdicts
  <2>1. CASE u = t
    BY <1>1, <2>1 DEF On
  <2>2. CASE u # t
    <3>1. status[card[tap[u].on].obj] = Target(tap[u].action)
      BY <2>2 DEF IInv, DecidedInv, On
    <3> QED BY <1>1, <2>2, <3>1 DEF VerdictsStay
  <2> QED BY <2>1, <2>2
<1>6. RowInv'
  <2> SUFFICES ASSUME NEW o \in Objects, NEW i \in 1 .. Len(audit'[o]) PROVE TracedBy(o, audit[o][i])'
    BY DEF RowInv
  <2>1. CASE i \in 1 .. Len(audit[o]) /\ audit'[o][i] = audit[o][i]
    <3> DEFINE row == audit[o][i]
               u == row.by
    <3> SUFFICES ASSUME u \in Taps
                 PROVE  /\ tap'[u].pc \in {"decided", "done"} /\ tap'[u].owner = TRUE /\ tap'[u].took = TRUE
                        /\ card'[tap'[u].on].obj = o /\ row.after = Target(tap'[u].action)
                        /\ \/ row.before = card'[tap'[u].on].expected
                           \/ row.action = "debate_opened" /\ row.before = "debating"
      BY <2>1 DEF TracedBy, On, Target
    <3>1. /\ tap[u].pc \in {"decided", "done"} /\ tap[u].owner = TRUE /\ tap[u].took = TRUE
          /\ card[tap[u].on].obj = o /\ row.after = Target(tap[u].action)
          /\ \/ row.before = card[tap[u].on].expected
             \/ row.action = "debate_opened" /\ row.before = "debating"
      <4>1. TracedBy(o, row)
        BY <2>1 DEF IInv, RowInv
      <4> HIDE DEF row
      <4> QED BY <4>1 DEF TracedBy, On
    <3> HIDE DEF row
    <3>2. tap'[u].on = tap[u].on /\ tap'[u].action = tap[u].action /\ tap'[u].owner = tap[u].owner
      OBVIOUS
    <3> QED BY <1>1, <3>1, <3>2
  <2> QED BY <2>1
<1> QED BY <1>3, <1>4, <1>5, <1>6, VerdictsHold DEF IInv

-----------------------------------------------------------------------------
(* The first state, the rivals and the cards.                              *)

LEMMA InitIInv == Init => IInv
<1> SUFFICES ASSUME Init PROVE IInv
  OBVIOUS
<1>1. /\ \A o \in Objects : audit[o] = <<>>
      /\ \A c \in Cards : card[c] = NoCard
      /\ \A t \in Taps : tap[t] = [pc |-> "idle", on |-> Nobody, action |-> "skip", owner |-> TRUE, took |-> FALSE]
  BY DEF Init, Lifecycle!Init
<1>2. NoCard \in CardType
  BY DEF NoCard, CardType
<1>3. TypeOK
  BY <1>2 DEF Init, TypeOK, TapType, TapPcs, Actions, Lifecycle!Init, Lifecycle!Absent
<1>4. CardInv /\ CardVerdictsAreTrue
  BY <1>1 DEF CardInv, CardVerdictsAreTrue, NoCard, Lifecycle!Verdicts
<1>5. TapInv /\ TakenOnce /\ DecidedInv
  BY <1>1 DEF TapInv, TakenOnce, DecidedInv, Deciding
<1>6. RowInv
  <2>1. Len(<<>>) = 0 /\ 1 .. 0 = {}
    OBVIOUS
  <2>2. \A o \in Objects : 1 .. Len(audit[o]) = {}
    BY <1>1, <2>1, Zenon
  <2> QED BY <2>1, <2>2 DEF RowInv
<1> QED BY <1>3, <1>4, <1>5, <1>6 DEF IInv

LEMMA IngestKeeps ==
  ASSUME IInv, NEW o \in Objects, NEW s \in Lifecycle!Statuses, Ingest(o, s)
  PROVE  IInv'
<1>1. status[o] = "absent" /\ status' = [status EXCEPT ![o] = s] /\ UNCHANGED <<audit, card, tap>>
  BY DEF Ingest, Lifecycle!Create, Lifecycle!Absent
<1>2. TypeOK'
  BY <1>1 DEF IInv, TypeOK, Statuses
<1>3. CardInv' /\ CardsStay /\ TextsStay
  BY <1>1 DEF IInv, CardInv, CardsStay, TextsStay
<1>4. VerdictsStay
  BY <1>1 DEF IInv, TypeOK, VerdictsStay, Verdicts, Lifecycle!Verdicts
<1> QED BY <1>1, <1>2, <1>3, <1>4, RestKeeps

LEMMA RivalDecidesKeeps ==
  ASSUME IInv, NEW r \in Rivals, RivalDecides(r)
  PROVE  IInv'
<1>1. r \in Requests /\ r \notin Taps /\ UNCHANGED <<card, tap>>
  BY RivalsAssumption DEF Requests, RivalDecides
<1>2. PICK op \in Lifecycle!Operations, o \in Objects :
        \E target \in Lifecycle!AllowedTargets(op) : Lifecycle!Decide(r, op, o, target, "human")
  BY DEF RivalDecides
<1>3. PICK target \in Lifecycle!AllowedTargets(op) : Lifecycle!Decide(r, op, o, target, "human")
  BY <1>2
<1>4. /\ status' \in [Objects -> Statuses \union {"absent"}]
      /\ audit' \in [Objects -> Seq(Lifecycle!RowType)]
      /\ VerdictsStay
      /\ \A p \in Objects : \A i \in 1 .. Len(audit'[p]) :
           \/ i \in 1 .. Len(audit[p]) /\ audit'[p][i] = audit[p][i]
           \/ audit'[p][i].by \notin Taps
  BY <1>1, <1>3, DecideAdds DEF IInv, VerdictsStay
<1>5. TypeOK'
  BY <1>1, <1>4 DEF IInv, TypeOK
<1>6. CardInv' /\ CardsStay /\ TextsStay
  BY <1>1 DEF IInv, CardInv, CardsStay, TextsStay
<1> QED BY <1>1, <1>4, <1>5, <1>6, RestKeeps

\* An item on a new card.
LEMMA ListForKeeps ==
  ASSUME IInv, NEW c \in Cards, ListFor(c)
  PROVE  card' \in [Cards -> CardType] /\ CardInv' /\ CardsStay /\ TextsStay
<1>1. PICK o \in Pending : card' = [card EXCEPT ![c].pc = "listed", ![c].obj = o, ![c].expected = status[o]]
  BY DEF ListFor
<1>2. o \in Objects /\ status[o] \in Statuses /\ card[c].pc = "none"
  BY DEF Pending, ListFor, Statuses, Lifecycle!Statuses
<1>3. card[c] \in CardType /\ card[c].saved = {} /\ card[c].live = {} /\ card[c].text = "none"
  BY <1>2 DEF IInv, TypeOK, CardInv
<1>4. /\ card'[c].pc = "listed" /\ card'[c].obj = o /\ card'[c].expected = status[o]
      /\ card'[c].saved = {} /\ card'[c].live = {} /\ card'[c].text = "none"
      /\ \A d \in Cards \ {c} : card'[d] = card[d]
      /\ card' \in [Cards -> CardType]
  BY <1>1, <1>2, <1>3 DEF IInv, TypeOK, CardType
<1>5. CardInv'
  BY <1>2, <1>4 DEF IInv, CardInv
<1>6. CardsStay /\ TextsStay
  BY <1>2, <1>3, <1>4 DEF CardsStay, TextsStay
<1> QED BY <1>4, <1>5, <1>6

LEMMA HandleBacklogKeeps ==
  ASSUME IInv, NEW c \in Cards, HandleBacklog(c)
  PROVE  IInv'
<1>1. ListFor(c) /\ UNCHANGED <<status, audit, tap>>
  BY DEF HandleBacklog, lifecycleVars
<1>2. card' \in [Cards -> CardType] /\ CardInv' /\ CardsStay /\ TextsStay
  BY <1>1, ListForKeeps
<1>3. TypeOK' /\ VerdictsStay
  BY <1>1, <1>2 DEF IInv, TypeOK, VerdictsStay
<1> QED BY <1>1, <1>2, <1>3, RestKeeps

LEMMA ButtonsFit ==
  ASSUME NEW s, NEW n \in 0 .. Len(Buttons(s))
  PROVE  LET tokens == {Buttons(s)[i] : i \in 1 .. n}
         IN /\ tokens \subseteq Actions
            /\ "debate" \in tokens => s = "proposed"
            /\ tokens \cap {"validate", "deprecate"} # {} => s \in {"proposed", "debating"}
<1>1. CASE s = "proposed"
  <2>1. Buttons(s) = <<"validate", "debate", "deprecate", "skip">> /\ Len(Buttons(s)) = 4
    BY <1>1 DEF Buttons
  <2> QED BY <1>1, <2>1 DEF Actions
<1>2. CASE s = "debating"
  <2>1. Buttons(s) = <<"validate", "deprecate", "skip">> /\ Len(Buttons(s)) = 3
    BY <1>2 DEF Buttons
  <2> QED BY <1>2, <2>1 DEF Actions
<1>3. CASE s \notin {"proposed", "debating"}
  <2>1. Buttons(s) = <<"skip">> /\ Len(Buttons(s)) = 1
    BY <1>3 DEF Buttons
  <2> QED BY <1>3, <2>1 DEF Actions
<1> QED BY <1>1, <1>2, <1>3

LEMMA SendCardKeeps ==
  ASSUME IInv, NEW c \in Cards, SendCard(c)
  PROVE  IInv'
<1>1. card[c].pc = "listed" /\ UNCHANGED <<status, audit, tap>>
  BY DEF SendCard, lifecycleVars
<1>2. PICK n \in 0 .. Len(Buttons(card[c].expected)) :
        LET tokens == {Buttons(card[c].expected)[i] : i \in 1 .. n}
        IN \E pc \in {"sent", "aborted"} :
             card' = [card EXCEPT ![c].pc = pc, ![c].saved = tokens, ![c].live = tokens]
  BY DEF SendCard
<1> DEFINE tokens == {Buttons(card[c].expected)[i] : i \in 1 .. n}
<1>3. PICK pc \in {"sent", "aborted"} :
        card' = [card EXCEPT ![c].pc = pc, ![c].saved = tokens, ![c].live = tokens]
  BY <1>2
<1>4. /\ tokens \subseteq Actions
      /\ "debate" \in tokens => card[c].expected = "proposed"
      /\ tokens \cap {"validate", "deprecate"} # {} => card[c].expected \in {"proposed", "debating"}
  BY ButtonsFit
<1> HIDE DEF tokens
<1>5. card[c] \in CardType /\ card[c].text = "none" /\ card[c].obj \in Objects
  BY <1>1 DEF IInv, TypeOK, CardInv
<1>6. /\ card'[c].pc = pc /\ card'[c].obj = card[c].obj /\ card'[c].expected = card[c].expected
      /\ card'[c].saved = tokens /\ card'[c].live = tokens /\ card'[c].text = "none"
      /\ \A d \in Cards \ {c} : card'[d] = card[d]
      /\ card' \in [Cards -> CardType]
  BY <1>3, <1>4, <1>5 DEF IInv, TypeOK, CardType
<1>7. CardInv'
  BY <1>4, <1>5, <1>6 DEF IInv, CardInv
<1>8. CardsStay /\ TextsStay
  BY <1>1, <1>5, <1>6 DEF CardsStay, TextsStay
<1>9. TypeOK' /\ VerdictsStay
  BY <1>1, <1>6 DEF IInv, TypeOK, VerdictsStay
<1> QED BY <1>1, <1>7, <1>8, <1>9, RestKeeps

\* Tokens of a card that go.
LEMMA TokensGo ==
  ASSUME IInv, NEW c \in Cards, NEW left \in SUBSET card[c].live, card' = [card EXCEPT ![c].live = left]
  PROVE  /\ card' \in [Cards -> CardType] /\ CardInv' /\ CardsStay /\ TextsStay
         /\ card'[c].live = left /\ card'[c].saved = card[c].saved
         /\ \A d \in Cards \ {c} : card'[d] = card[d]
<1>1. card[c] \in CardType /\ left \subseteq Actions
  BY DEF IInv, TypeOK, CardType
<1>2. /\ card'[c].pc = card[c].pc /\ card'[c].obj = card[c].obj /\ card'[c].expected = card[c].expected
      /\ card'[c].saved = card[c].saved /\ card'[c].live = left /\ card'[c].text = card[c].text
      /\ \A d \in Cards \ {c} : card'[d] = card[d]
      /\ card' \in [Cards -> CardType]
  BY <1>1 DEF IInv, TypeOK, CardType
<1>3. CardInv'
  BY <1>2 DEF IInv, CardInv
<1>4. CardsStay /\ TextsStay
  BY <1>2 DEF CardsStay, TextsStay
<1> QED BY <1>2, <1>3, <1>4

LEMMA ExpireKeeps ==
  ASSUME IInv, NEW c \in Cards, Expire(c)
  PROVE  IInv'
<1>1. card' = [card EXCEPT ![c].live = {}] /\ UNCHANGED <<status, audit, tap>>
  BY DEF Expire, lifecycleVars
<1> DEFINE left == {}
<1>2. card' \in [Cards -> CardType] /\ CardInv' /\ CardsStay /\ TextsStay
  <2>1. left \in SUBSET card[c].live /\ card' = [card EXCEPT ![c].live = left]
    BY <1>1
  <2> HIDE DEF left
  <2> QED BY <2>1, TokensGo
<1>3. TypeOK' /\ VerdictsStay
  BY <1>1, <1>2 DEF IInv, TypeOK, VerdictsStay
<1> QED BY <1>1, <1>2, <1>3, RestKeeps

-----------------------------------------------------------------------------
(* The callbacks.                                                          *)

\* A tap is pressed: nothing has been done for it before.
LEMMA PressKeeps ==
  ASSUME IInv, NEW t \in Taps, NEW c \in Cards, NEW a \in Actions, NEW owner \in BOOLEAN, Press(t, c, a, owner)
  PROVE  IInv'
<1>1. /\ tap[t].pc = "idle" /\ card[c].pc = "sent" /\ a \in card[c].saved /\ UNCHANGED <<status, audit, card>>
      /\ tap' = [tap EXCEPT ![t] = [pc |-> "pressed", on |-> c, action |-> a, owner |-> owner, took |-> FALSE]]
  BY DEF Press, At, lifecycleVars
<1>2. /\ tap'[t].pc = "pressed" /\ tap'[t].on = c /\ tap'[t].action = a /\ tap'[t].took = FALSE
      /\ \A u \in Taps \ {t} : tap'[u] = tap[u]
      /\ TypeOK'
  BY <1>1 DEF IInv, TypeOK, TapType, TapPcs
<1>3. CardInv' /\ CardVerdictsAreTrue'
  BY <1>1 DEF IInv, CardInv, CardVerdictsAreTrue
<1>4. TapInv'
  BY <1>1, <1>2 DEF IInv, TapInv, On, Deciding
<1>5. TakenOnce'
  BY <1>2 DEF IInv, TakenOnce
<1>6. DecidedInv'
  <2> SUFFICES ASSUME NEW u \in Taps, tap'[u].pc = "decided", Target(tap'[u].action) \in Verdicts
               PROVE  status'[card'[tap'[u].on].obj] = Target(tap'[u].action)
    BY DEF DecidedInv, On, Target, Verdicts, Lifecycle!Verdicts
  <2> QED BY <1>1, <1>2 DEF IInv, DecidedInv, On
<1>7. RowInv'
  <2> SUFFICES ASSUME NEW o \in Objects, NEW i \in 1 .. Len(audit[o]) PROVE TracedBy(o, audit[o][i])'
    BY <1>1 DEF RowInv
  <2>1. TracedBy(o, audit[o][i])
    BY DEF IInv, RowInv
  <2>2. audit[o][i].by \in Taps => tap'[audit[o][i].by] = tap[audit[o][i].by]
    BY <1>1, <1>2, <2>1 DEF TracedBy
  <2> QED BY <1>1, <2>1, <2>2 DEF TracedBy, On, Target
<1> QED BY <1>2, <1>3, <1>4, <1>5, <1>6, <1>7 DEF IInv

\* A tap that goes on to pc, with the cards and the objects as they are.
LEMMA GoKeeps ==
  ASSUME IInv, NEW t \in Taps, NEW pc \in TapPcs \ {"idle", "pressed", "decided"}, Go(t, pc),
         tap[t].pc \notin {"idle", "done"}, tap[t].pc = "decided" => pc = "done",
         pc \in Deciding => tap[t].pc \in Deciding,
         UNCHANGED lifecycleVars, card' \in [Cards -> CardType], CardInv', CardsStay, TextsStay
  PROVE  IInv'
<1>1. UNCHANGED <<status, audit>> /\ tap' = [tap EXCEPT ![t].pc = pc]
  BY DEF lifecycleVars, Go
<1>2. /\ tap'[t].pc = pc /\ tap'[t].on = tap[t].on /\ tap'[t].action = tap[t].action
      /\ tap'[t].owner = tap[t].owner /\ tap'[t].took = tap[t].took
      /\ \A u \in Taps \ {t} : tap'[u] = tap[u]
      /\ tap' \in [Taps -> TapType]
  BY <1>1 DEF IInv, TypeOK, TapType
<1>3. TypeOK' /\ VerdictsStay
  BY <1>1, <1>2 DEF IInv, TypeOK, VerdictsStay
<1>4. pc \in Deciding => tap[t].took = TRUE /\ tap[t].owner = TRUE /\ tap[t].action # "skip"
  BY DEF IInv, TapInv
<1> QED BY <1>1, <1>2, <1>3, <1>4, TapKeeps

LEMMA TakeKeeps ==
  ASSUME IInv, NEW t \in Taps, Take(t)
  PROVE  IInv'
<1> DEFINE c == tap[t].on
           left == card[c].live \ {tap[t].action}
           gone == [card EXCEPT ![c].live = left]
<1>1. tap[t].pc = "pressed" /\ c \in Cards /\ UNCHANGED lifecycleVars
  BY DEF Take, At, IInv, TapInv
<1>2. /\ card' \in {card, gone}
      /\ \/ /\ tap[t].action \in card[c].live /\ card' = gone
            /\ tap' = [tap EXCEPT ![t].pc = AfterTake(t), ![t].took = TRUE]
         \/ Go(t, "done")
  BY DEF Take, On
<1>3. card' \in [Cards -> CardType] /\ CardInv' /\ CardsStay /\ TextsStay
  <2>1. CASE card' = card
    BY <2>1 DEF IInv, TypeOK, CardInv, CardsStay, TextsStay
  <2>2. CASE card' = gone
    <3>1. left \in SUBSET card[c].live
      OBVIOUS
    <3> HIDE DEF left
    <3> QED BY <1>1, <2>2, <3>1, TokensGo
  <2> QED BY <1>2, <2>1, <2>2
<1>4. CASE Go(t, "done")
  BY <1>1, <1>3, <1>4, GoKeeps DEF TapPcs, Deciding
<1>5. CASE /\ tap[t].action \in card[c].live /\ card' = gone
           /\ tap' = [tap EXCEPT ![t].pc = AfterTake(t), ![t].took = TRUE]
  <2>1. tap[t] \in TapType /\ tap[t].owner \in BOOLEAN
    BY DEF IInv, TypeOK, TapType
  <2>2. /\ AfterTake(t) \in {"done", "skipping", "checking"}
        /\ AfterTake(t) = "checking" => tap[t].owner = TRUE /\ tap[t].action # "skip"
    BY <2>1 DEF AfterTake
  <2>3. /\ tap'[t].pc = AfterTake(t) /\ tap'[t].on = tap[t].on /\ tap'[t].action = tap[t].action
        /\ tap'[t].owner = tap[t].owner /\ tap'[t].took = TRUE
        /\ \A u \in Taps \ {t} : tap'[u] = tap[u]
        /\ tap' \in [Taps -> TapType]
    BY <1>5, <2>1, <2>2 DEF IInv, TypeOK, TapType, TapPcs
  <2>4. UNCHANGED <<status, audit>>
    BY <1>1 DEF lifecycleVars
  <2>5. TypeOK' /\ VerdictsStay
    BY <1>3, <2>3, <2>4 DEF IInv, TypeOK, VerdictsStay
  <2>6. tap[t].action \in On(t).live /\ tap[t].action \notin card'[tap[t].on].live
    BY <1>1, <1>5 DEF On, IInv, TypeOK
  <2> QED BY <1>1, <1>3, <2>2, <2>3, <2>4, <2>5, <2>6, TapKeeps DEF Deciding
<1> QED BY <1>2, <1>4, <1>5

LEMMA CardsUntouched ==
  ASSUME IInv, UNCHANGED card
  PROVE  card' \in [Cards -> CardType] /\ CardInv' /\ CardsStay /\ TextsStay
BY DEF IInv, TypeOK, CardInv, CardsStay, TextsStay

\* An edit of the text of a tap's card, by a text that is no verdict or a true one.
LEMMA EditKeeps ==
  ASSUME IInv, NEW t \in Taps, tap[t].pc # "idle", UNCHANGED lifecycleVars,
         NEW text \in {"nothing pending", "changed", "debating", "validated", "deprecated"},
         text \in Verdicts => status[On(t).obj] = text,
         card' \in {card, [card EXCEPT ![tap[t].on].text = text]}
  PROVE  card' \in [Cards -> CardType] /\ CardInv' /\ CardsStay /\ TextsStay
<1> DEFINE c == tap[t].on
<1>1. c \in Cards /\ card[c].pc = "sent" /\ card[c] \in CardType /\ UNCHANGED status
  BY DEF IInv, TapInv, TypeOK, On, lifecycleVars
<1>2. CASE card' = card
  BY <1>2, CardsUntouched
<1>3. CASE card' = [card EXCEPT ![c].text = text]
  <2>1. /\ card'[c].pc = card[c].pc /\ card'[c].obj = card[c].obj /\ card'[c].expected = card[c].expected
        /\ card'[c].saved = card[c].saved /\ card'[c].live = card[c].live /\ card'[c].text = text
        /\ \A d \in Cards \ {c} : card'[d] = card[d]
        /\ card' \in [Cards -> CardType]
    BY <1>1, <1>3 DEF IInv, TypeOK, CardType
  <2>2. CardInv'
    <3>1. \A d \in Cards : /\ card'[d].pc = card[d].pc /\ card'[d].obj = card[d].obj
                           /\ card'[d].expected = card[d].expected
                           /\ card'[d].saved = card[d].saved /\ card'[d].live = card[d].live
                           /\ card'[d].text = card[d].text \/ card[d].pc = "sent"
      BY <1>1, <2>1
    <3> QED BY <3>1 DEF IInv, CardInv
  <2>3. CardsStay /\ TextsStay
    BY <1>1, <2>1 DEF CardsStay, TextsStay, On
  <2> QED BY <2>1, <2>2, <2>3
<1> QED BY <1>2, <1>3

LEMMA SkipKeeps ==
  ASSUME IInv, NEW t \in Taps, Skip(t)
  PROVE  IInv'
<1>1. tap[t].pc = "skipping" /\ Go(t, "done") /\ UNCHANGED lifecycleVars
  BY DEF Skip, At
<1>2. card' \in [Cards -> CardType] /\ CardInv' /\ CardsStay /\ TextsStay
  <2>1. CASE \E c \in Cards : ListFor(c)
    BY <2>1, ListForKeeps
  <2>2. CASE card' \in {card, [card EXCEPT ![tap[t].on].text = "nothing pending"]}
    BY <1>1, <2>2, EditKeeps DEF Verdicts, Lifecycle!Verdicts
  <2> QED BY <2>1, <2>2 DEF Skip
<1> QED BY <1>1, <1>2, GoKeeps DEF TapPcs, Deciding

\* The service decides for tap t.
LEMMA CallDecidesKeeps ==
  ASSUME IInv, NEW t \in Taps, CallDecides(t)
  PROVE  IInv'
<1> DEFINE c == tap[t].on
           o == card[c].obj
           a == tap[t].action
           op == OpOf(t)
<1>1. /\ tap[t].pc = "calling" /\ UNCHANGED card
      /\ Lifecycle!Decide(t, op, o, Target(a), "human")
      /\ Go(t, "decided") \/ Go(t, "done")
  BY DEF CallDecides, At, On
<1>2. /\ c \in Cards /\ card[c].pc = "sent" /\ a \in card[c].saved /\ a \in Actions \ {"skip"} /\ o \in Objects
      /\ tap[t] \in TapType /\ tap[t].took = TRUE /\ tap[t].owner = TRUE
  BY <1>1 DEF IInv, TypeOK, TapInv, TapType, CardInv, On, Deciding
<1>3. /\ a = "debate" => card[c].expected = "proposed" /\ op = "mark" /\ Target(a) = "debating"
      /\ a # "debate" => \/ (card[c].expected = "proposed" /\ op = "validate")
                         \/ (card[c].expected = "debating" /\ op = "resolve")
      /\ a = "validate" => Target(a) = "validated"
      /\ a = "deprecate" => Target(a) = "deprecated"
  <2>1. op = Service(card[c].expected, a)
    BY DEF OpOf, On
  <2>2. a = "debate" => card[c].expected = "proposed" /\ op = "mark"
    <3>1. a = "debate" => card[c].expected = "proposed"
      BY <1>2 DEF IInv, CardInv
    <3> QED BY <2>1, <3>1 DEF Service
  <2>3. ASSUME a # "debate"
        PROVE  \/ (card[c].expected = "proposed" /\ op = "validate")
               \/ (card[c].expected = "debating" /\ op = "resolve")
    <3>1. card[c].saved \cap {"validate", "deprecate"} # {}
      BY <1>2, <2>3 DEF Actions
    <3>2. card[c].expected \in {"proposed", "debating"}
      BY <1>2, <3>1 DEF IInv, CardInv
    <3> QED BY <2>1, <2>3, <3>2 DEF Service
  <2> QED BY <2>2, <2>3 DEF Target
<1>4. /\ t \in Requests /\ op \in Lifecycle!Operations /\ Target(a) \in Lifecycle!AllowedTargets(op)
      /\ Lifecycle!SourceStatuses(op) = IF op = "mark" THEN {"proposed", "debating"} ELSE {card[c].expected}
  BY <1>2, <1>3 DEF Requests, Lifecycle!Operations, Lifecycle!AllowedTargets, Lifecycle!Verdicts,
                    Lifecycle!SourceStatuses, Actions
<1> HIDE DEF c, o, a, op
<1>5. /\ status' \in [Objects -> Statuses \union {"absent"}]
      /\ audit' \in [Objects -> Seq(Lifecycle!RowType)]
      /\ status[o] \in Lifecycle!SourceStatuses(op) /\ status'[o] = Target(a)
      /\ VerdictsStay
      /\ \A p \in Objects : \A i \in 1 .. Len(audit'[p]) :
           \/ i \in 1 .. Len(audit[p]) /\ audit'[p][i] = audit[p][i]
           \/ /\ p = o /\ audit'[p][i].by = t /\ audit'[p][i].after = Target(a)
              /\ audit'[p][i].before = status[o]
              /\ status[o] # "debating" \/ op # "mark" \/ audit'[p][i].action = "debate_opened"
  BY <1>1, <1>2, <1>4, DecideAdds DEF IInv, VerdictsStay
<1>6. PICK pc \in {"decided", "done"} : Go(t, pc)
  BY <1>1
<1>7. /\ tap'[t].pc = pc /\ tap'[t].on = c /\ tap'[t].action = a
      /\ tap'[t].owner = TRUE /\ tap'[t].took = TRUE
      /\ \A u \in Taps \ {t} : tap'[u] = tap[u]
      /\ tap' \in [Taps -> TapType]
  BY <1>2, <1>6 DEF IInv, TypeOK, TapType, TapPcs, Go, c, a
<1>8. TypeOK' /\ CardInv' /\ CardsStay /\ TextsStay
  BY <1>1, <1>5, <1>7, CardsUntouched DEF TypeOK
<1>9. \A p \in Objects : \A i \in 1 .. Len(audit'[p]) :
        \/ i \in 1 .. Len(audit[p]) /\ audit'[p][i] = audit[p][i]
        \/ TracedBy(p, audit[p][i])'
  <2> SUFFICES ASSUME NEW p \in Objects, NEW i \in 1 .. Len(audit'[p]),
                      ~ (i \in 1 .. Len(audit[p]) /\ audit'[p][i] = audit[p][i])
               PROVE  TracedBy(p, audit[p][i])'
    OBVIOUS
  <2> DEFINE u == audit'[p][i].by
  <2> SUFFICES /\ tap'[u].pc \in {"decided", "done"} /\ tap'[u].owner = TRUE /\ tap'[u].took = TRUE
               /\ card'[tap'[u].on].obj = p /\ audit'[p][i].after = Target(tap'[u].action)
               /\ \/ audit'[p][i].before = card'[tap'[u].on].expected
                  \/ audit'[p][i].action = "debate_opened" /\ audit'[p][i].before = "debating"
    BY DEF TracedBy, On, Target
  <2>1. /\ p = o /\ u = t /\ audit'[p][i].after = Target(a)
        /\ audit'[p][i].before = status[o]
        /\ status[o] # "debating" \/ op # "mark" \/ audit'[p][i].action = "debate_opened"
    BY <1>5
  <2>2. card' = card /\ card[c].obj = o
    BY <1>1 DEF o
  <2>3. status[o] = card[c].expected \/ (op = "mark" /\ status[o] = "debating")
    BY <1>3, <1>4, <1>5
  <2> QED BY <1>7, <2>1, <2>2, <2>3
<1>10. tap'[t].pc = "decided" /\ Target(a) \in Verdicts => status'[On(t).obj] = Target(a)
  BY <1>5 DEF On, o, c
<1> QED BY <1>1, <1>2, <1>5, <1>7, <1>8, <1>9, <1>10, TapKeeps DEF Deciding, c, a

LEMMA AnswerKeeps ==
  ASSUME IInv, NEW t \in Taps, Answer(t)
  PROVE  IInv'
<1>1. tap[t].pc \in {"decided", "changed"} /\ Go(t, "done") /\ UNCHANGED lifecycleVars
  BY DEF Answer, At
<1> DEFINE text == IF At(t, "changed") THEN "changed" ELSE Target(tap[t].action)
<1>2. tap[t].action \in Actions \ {"skip"}
  BY <1>1 DEF IInv, TapInv, TypeOK, TapType, Deciding
<1>3. text \in {"changed", "debating", "validated", "deprecated"} /\ (text \in Verdicts => status[On(t).obj] = text)
  BY <1>1, <1>2 DEF At, Target, Actions, IInv, DecidedInv, Verdicts, Lifecycle!Verdicts
<1>4. card' \in {card, [card EXCEPT ![tap[t].on].text = text]}
  BY DEF Answer
<1> HIDE DEF text
<1>5. card' \in [Cards -> CardType] /\ CardInv' /\ CardsStay /\ TextsStay
  BY <1>1, <1>3, <1>4, EditKeeps
<1> QED BY <1>1, <1>5, GoKeeps DEF TapPcs, Deciding

LEMMA CallbackKeeps ==
  ASSUME IInv, NEW t \in Taps, HandleReviewCallback(t)
  PROVE  IInv'
<1>1. ASSUME NEW pc \in TapPcs \ {"idle", "pressed", "decided"}, Go(t, pc), UNCHANGED <<lifecycleVars, card>>,
             tap[t].pc \notin {"idle", "done"}, tap[t].pc = "decided" => pc = "done",
             pc \in Deciding => tap[t].pc \in Deciding
      PROVE  IInv'
  BY <1>1, CardsUntouched, GoKeeps
<1>2. CASE Check(t)
  BY <1>1, <1>2 DEF Check, At, TapPcs, Deciding
<1>3. CASE CallFails(t)
  BY <1>1, <1>3 DEF CallFails, At, TapPcs, Deciding
<1>4. CASE Cut(t)
  BY <1>1, <1>4 DEF Cut, TapPcs, Deciding
<1> QED BY <1>2, <1>3, <1>4, TakeKeeps, SkipKeeps, CallDecidesKeeps, AnswerKeeps DEF HandleReviewCallback

-----------------------------------------------------------------------------
(* The invariant and what follows.                                         *)

LEMMA StepKeeps == IInv /\ [Next]_vars => IInv'
<1> SUFFICES ASSUME IInv, [Next]_vars PROVE IInv'
  OBVIOUS
<1>1. CASE UNCHANGED vars
  <2>1. UNCHANGED <<status, audit, card, tap>>
    BY <1>1 DEF vars
  <2>2. TypeOK' /\ VerdictsStay
    BY <2>1 DEF IInv, TypeOK, VerdictsStay
  <2> QED BY <2>1, <2>2, CardsUntouched, RestKeeps
<1> QED BY <1>1, IngestKeeps, RivalDecidesKeeps, HandleBacklogKeeps, SendCardKeeps, ExpireKeeps,
           PressKeeps, CallbackKeeps DEF Next

\* A tap that has come to a decision holds the only use of its token, and every
\* card and audit row it has written says what it did, at every moment.
THEOREM IInvHolds == Spec => []IInv
<1> QED BY InitIInv, StepKeeps, PTL DEF Spec

\* TapsDecideWhatTheirCardShowed: although handleReviewCallback compares the
\* status outside the service's transaction, no tap changes an object that was
\* not in the status its card showed, or not for the user it was made for.
THEOREM TapsDecide == Spec => []TapsDecideWhatTheirCardShowed
<1>1. IInv => TapsDecideWhatTheirCardShowed
  <2> SUFFICES ASSUME IInv, NEW o \in Objects, NEW i \in 1 .. Len(audit[o]), audit[o][i].by \in Taps
               PROVE  LET row == audit[o][i]
                      IN /\ tap[row.by].owner /\ tap[row.by].took /\ On(row.by).obj = o
                         /\ row.after = Target(tap[row.by].action)
                         /\ row.before = On(row.by).expected \/ (row.action = "debate_opened" /\ row.before = "debating")
    BY DEF TapsDecideWhatTheirCardShowed
  <2>1. TracedBy(o, audit[o][i])
    BY DEF IInv, RowInv
  <2> QED BY <2>1 DEF TracedBy
<1> QED BY <1>1, IInvHolds, PTL

\* CardVerdictsAreTrue: what a card was edited to say stays true for good,
\* because an object with a verdict is beyond every service.
THEOREM VerdictsOnCardsAreTrue == Spec => []CardVerdictsAreTrue
<1>1. IInv => CardVerdictsAreTrue
  BY DEF IInv
<1> QED BY <1>1, IInvHolds, PTL

-----------------------------------------------------------------------------
(* The tokens.                                                             *)

\* The holder of a token is the one tap that took it.
HoldersTook ==
  \A k \in Buttonables :
    /\ \A t \in Taps : Took(t, k) => TokenHolder[k] = t
    /\ (\A t \in Taps : ~ Took(t, k)) => TokenHolder[k] = Nobody

LEMMA HolderOf == IInv => HoldersTook
<1> SUFFICES ASSUME IInv, NEW k \in Buttonables
             PROVE  /\ \A t \in Taps : Took(t, k) => TokenHolder[k] = t
                    /\ (\A t \in Taps : ~ Took(t, k)) => TokenHolder[k] = Nobody
  BY DEF HoldersTook
<1>1. \A t, u \in Taps : Took(t, k) /\ Took(u, k) => t = u
  BY DEF IInv, TypeOK, TapType, TakenOnce, Took
<1>2. ASSUME NEW t \in Taps, Took(t, k) PROVE TokenHolder[k] = t
  <2>1. TokenHolder[k] = CHOOSE u \in Taps : Took(u, k)
    BY <1>2 DEF TokenHolder
  <2>2. (CHOOSE u \in Taps : Took(u, k)) \in Taps /\ Took(CHOOSE u \in Taps : Took(u, k), k)
    BY <1>2
  <2> QED BY <1>1, <1>2, <2>1, <2>2
<1>3. (\A t \in Taps : ~ Took(t, k)) => TokenHolder[k] = Nobody
  BY DEF TokenHolder
<1> QED BY <1>2, <1>3

\* Taps that have taken what they had taken leave the holders as they are.
LEMMA HoldersStay ==
  ASSUME IInv, IInv', NEW S \in SUBSET Buttonables, \A k \in S, t \in Taps : Took(t, k)' <=> Took(t, k)
  PROVE  \A k \in S : TokenHolder'[k] = TokenHolder[k]
<1> SUFFICES ASSUME NEW k \in S PROVE TokenHolder'[k] = TokenHolder[k]
  OBVIOUS
<1>1. HoldersTook /\ HoldersTook'
  BY HolderOf, PTL
<1>2. /\ \A t \in Taps : Took(t, k)' => TokenHolder'[k] = t
      /\ (\A t \in Taps : ~ Took(t, k)') => TokenHolder'[k] = Nobody
  BY <1>1 DEF HoldersTook, Buttonables
<1>3. /\ \A t \in Taps : Took(t, k) => TokenHolder[k] = t
      /\ (\A t \in Taps : ~ Took(t, k)) => TokenHolder[k] = Nobody
  BY <1>1 DEF HoldersTook
<1> QED BY <1>2, <1>3

\* The cards as they are seen by who presses their buttons.
TokensStay ==
  \A c \in Cards : card'[c].live = card[c].live /\ card'[c].saved = card[c].saved

\* A tap that goes on has taken what it had taken.
TakersStay ==
  \A t \in Taps :
    /\ tap'[t].took = tap[t].took
    /\ tap[t].took = TRUE => tap'[t].on = tap[t].on /\ tap'[t].action = tap[t].action

LEMMA TakersStayTook ==
  ASSUME IInv, IInv', TakersStay
  PROVE  UNCHANGED TokenHolder
<1>1. \A k \in Buttonables, t \in Taps : Took(t, k)' <=> Took(t, k)
  <2> SUFFICES ASSUME NEW k \in Buttonables, NEW t \in Taps PROVE Took(t, k)' <=> Took(t, k)
    OBVIOUS
  <2>1. tap[t].took \in BOOLEAN /\ tap'[t].took = tap[t].took
    BY DEF IInv, TypeOK, TapType, TakersStay
  <2>2. CASE tap[t].took = TRUE
    BY <2>1, <2>2 DEF TakersStay, Took
  <2>3. CASE tap[t].took = FALSE
    BY <2>1, <2>3 DEF Took
  <2> QED BY <2>1, <2>2, <2>3
<1>2. \A k \in Buttonables : TokenHolder'[k] = TokenHolder[k]
  BY <1>1, HoldersStay
<1> QED BY <1>2 DEF TokenHolder, Buttonables

LEMMA TokensStayStutters ==
  ASSUME IInv, IInv', TokensStay, TakersStay
  PROVE  UNCHANGED Tokens!vars
<1>1. \A k \in Buttonables : TokenState'[k] = TokenState[k]
  BY DEF TokensStay, TokenState, Buttonables
<1>2. UNCHANGED TokenState
  BY <1>1 DEF TokenState, Buttonables
<1> QED BY <1>2, TakersStayTook DEF Tokens!vars

\* Some tokens go.
LEMMA TokensLapse ==
  ASSUME IInv, IInv', TakersStay,
         \A c \in Cards : card'[c].live \subseteq card[c].live /\ card'[c].saved = card[c].saved
  PROVE  Tokens!Next
<1>1. TokenState' \in [Buttonables -> {"unsaved", "live", "spent"}]
  BY DEF TokenState, Buttonables
<1>2. \A k \in Buttonables : TokenState'[k] # TokenState[k] => TokenState[k] = "live" /\ TokenState'[k] = "spent"
  <2> SUFFICES ASSUME NEW c \in Cards, NEW a \in Actions, TokenState'[<<c, a>>] # TokenState[<<c, a>>]
               PROVE  TokenState[<<c, a>>] = "live" /\ TokenState'[<<c, a>>] = "spent"
    BY DEF Buttonables
  <2>1. card[c].live \subseteq card[c].saved
    BY DEF IInv, CardInv
  <2> QED BY <2>1 DEF TokenState, Buttonables
<1> QED BY <1>1, <1>2, TakersStayTook DEF Tokens!Next, Tokens!Lapse

LEMMA SendCardSaves ==
  ASSUME IInv, IInv', NEW c \in Cards, SendCard(c)
  PROVE  Tokens!Next
<1>1. PICK n \in 0 .. Len(Buttons(card[c].expected)) :
        LET tokens == {Buttons(card[c].expected)[i] : i \in 1 .. n}
        IN \E pc \in {"sent", "aborted"} :
             card' = [card EXCEPT ![c].pc = pc, ![c].saved = tokens, ![c].live = tokens]
  BY DEF SendCard
<1> DEFINE tokens == {Buttons(card[c].expected)[i] : i \in 1 .. n}
<1>2. PICK pc \in {"sent", "aborted"} :
        card' = [card EXCEPT ![c].pc = pc, ![c].saved = tokens, ![c].live = tokens]
  BY <1>1
<1> HIDE DEF tokens
<1>3. card[c] \in CardType /\ card[c].saved = {} /\ card[c].live = {}
  BY DEF SendCard, IInv, TypeOK, CardInv
<1>4. card'[c].saved = tokens /\ card'[c].live = tokens /\ \A d \in Cards \ {c} : card'[d] = card[d]
  BY <1>2, <1>3 DEF IInv, TypeOK, CardType
<1>5. TokenState' \in [Buttonables -> {"unsaved", "live", "spent"}]
  BY DEF TokenState, Buttonables
<1>6. \A k \in Buttonables : TokenState'[k] # TokenState[k] => TokenState[k] = "unsaved" /\ TokenState'[k] = "live"
  <2> SUFFICES ASSUME NEW d \in Cards, NEW a \in Actions, TokenState'[<<d, a>>] # TokenState[<<d, a>>]
               PROVE  TokenState[<<d, a>>] = "unsaved" /\ TokenState'[<<d, a>>] = "live"
    BY DEF Buttonables
  <2> QED BY <1>3, <1>4 DEF TokenState, Buttonables
<1>7. TakersStay
  BY DEF SendCard, TakersStay
<1> QED BY <1>5, <1>6, <1>7, TakersStayTook DEF Tokens!Next, Tokens!Save

\* The tap that gets the entry takes the token.
LEMMA TakeTakes ==
  ASSUME IInv, IInv', NEW t \in Taps, Take(t)
  PROVE  Tokens!Next
<1> DEFINE c == tap[t].on
           a == tap[t].action
           left == card[c].live \ {a}
           gone == [card EXCEPT ![c].live = left]
<1>1. c \in Cards /\ a \in Actions /\ <<c, a>> \in Buttonables /\ card[c] \in CardType /\ tap[t] \in TapType
      /\ tap[t].took = FALSE /\ a \in card[c].saved
  BY DEF Take, At, IInv, TypeOK, TapInv, TapType, CardType, On, Buttonables
<1>5. PICK k \in Buttonables : k = <<c, a>>
  BY <1>1
<1>2. card' = gone => /\ card'[c].live = left /\ card'[c].saved = card[c].saved
                      /\ \A d \in Cards \ {c} : card'[d] = card[d]
  <2>1. left \in SUBSET card[c].live
    OBVIOUS
  <2> HIDE DEF left
  <2> QED BY <1>1, <2>1, TokensGo
<1>3. CASE Go(t, "done")
  <2>1. TakersStay
    BY <1>1, <1>3 DEF Go, TakersStay, IInv, TypeOK, TapType
  <2>2. card' \in {card, gone}
    BY DEF Take, On
  <2>3. \A d \in Cards : card'[d].live \subseteq card[d].live /\ card'[d].saved = card[d].saved
    BY <1>2, <2>2
  <2> QED BY <2>1, <2>3, TokensLapse
<1>4. CASE /\ a \in card[c].live /\ card' = gone
           /\ tap' = [tap EXCEPT ![t].pc = AfterTake(t), ![t].took = TRUE]
  <2>1. /\ tap'[t].on = c /\ tap'[t].action = a /\ tap'[t].took = TRUE
        /\ \A u \in Taps \ {t} : tap'[u] = tap[u]
    BY <1>1, <1>4 DEF IInv, TypeOK, TapType
  <2>2. TokenState[k] = "live"
    BY <1>1, <1>4, <1>5 DEF TokenState
  <2>3. TokenState' = [TokenState EXCEPT ![k] = "spent"]
    <3>1. \A d \in Cards, b \in Actions :
            TokenState'[<<d, b>>] = IF <<d, b>> = k THEN "spent" ELSE TokenState[<<d, b>>]
      <4> SUFFICES ASSUME NEW d \in Cards, NEW b \in Actions
                   PROVE  TokenState'[<<d, b>>] = IF <<d, b>> = k THEN "spent" ELSE TokenState[<<d, b>>]
        OBVIOUS
      <4>1. CASE d # c
        BY <1>2, <1>4, <1>5, <4>1 DEF TokenState, Buttonables
      <4>2. CASE d = c /\ b # a
        BY <1>2, <1>4, <1>5, <4>2 DEF TokenState, Buttonables
      <4>3. CASE d = c /\ b = a
        BY <1>1, <1>2, <1>4, <1>5, <4>3 DEF TokenState, Buttonables
      <4> QED BY <1>5, <4>1, <4>2, <4>3
    <3>2. \A l \in Buttonables : TokenState'[l] = IF l = k THEN "spent" ELSE TokenState[l]
      BY <3>1 DEF Buttonables
    <3>3. TokenState \in [Buttonables -> {"unsaved", "live", "spent"}] /\ TokenState' \in [Buttonables -> {"unsaved", "live", "spent"}]
      BY DEF TokenState, Buttonables
    <3> QED BY <3>2, <3>3
  <2>4. TokenHolder' = [TokenHolder EXCEPT ![k] = t]
    <3>1. \A l \in Buttonables \ {k}, u \in Taps : Took(u, l)' <=> Took(u, l)
      <4> SUFFICES ASSUME NEW d \in Cards, NEW b \in Actions, <<d, b>> # k, NEW u \in Taps
                   PROVE  Took(u, <<d, b>>)' <=> Took(u, <<d, b>>)
        BY DEF Buttonables
      <4>1. CASE u = t
        BY <1>1, <1>5, <2>1, <4>1 DEF Took
      <4>2. CASE u # t
        BY <2>1, <4>2 DEF Took
      <4> QED BY <4>1, <4>2
    <3>2. \A l \in Buttonables \ {k} : TokenHolder'[l] = TokenHolder[l]
      BY <3>1, HoldersStay
    <3>3. HoldersTook'
      BY HolderOf, PTL
    <3>4. Took(t, k)'
      BY <1>5, <2>1 DEF Took
    <3>5. TokenHolder'[k] = t
      <4>1. \A l \in Buttonables : \A u \in Taps : Took(u, l)' => TokenHolder'[l] = u
        BY <3>3 DEF HoldersTook, Buttonables
      <4> QED BY <3>4, <4>1
    <3>6. \A l \in Buttonables : TokenHolder'[l] = IF l = k THEN t ELSE TokenHolder[l]
      BY <3>2, <3>5
    <3>7. TokenHolder = [l \in Buttonables |-> TokenHolder[l]] /\ TokenHolder' = [l \in Buttonables |-> TokenHolder'[l]]
      BY DEF TokenHolder, Buttonables
    <3> QED BY <3>6, <3>7
  <2>5. Tokens!Take(k, t)
    BY <2>2, <2>3, <2>4 DEF Tokens!Take
  <2> QED BY <2>5 DEF Tokens!Next
<1> QED BY <1>3, <1>4 DEF Take, On

\* A tap that only moves on.
LEMMA GoTakesNothing ==
  ASSUME IInv, NEW t \in Taps, NEW pc, Go(t, pc)
  PROVE  TakersStay
<1>1. \A u \in Taps : tap'[u].took = tap[u].took /\ tap'[u].on = tap[u].on /\ tap'[u].action = tap[u].action
  BY DEF Go, IInv, TypeOK, TapType
<1> QED BY <1>1 DEF TakersStay

LEMMA ListForTokens ==
  ASSUME IInv, NEW c \in Cards, ListFor(c)
  PROVE  TokensStay
<1>1. PICK o \in Pending : card' = [card EXCEPT ![c].pc = "listed", ![c].obj = o, ![c].expected = status[o]]
  BY DEF ListFor
<1> QED BY <1>1 DEF IInv, TypeOK, CardType, TokensStay

LEMMA EditTokens ==
  ASSUME IInv, NEW t \in Taps, NEW text, card' \in {card, [card EXCEPT ![tap[t].on].text = text]}
  PROVE  TokensStay
<1>1. ASSUME NEW c \in Cards PROVE card'[c].live = card[c].live /\ card'[c].saved = card[c].saved
  <2>1. CASE card' = card
    BY <2>1
  <2>2. CASE card' = [card EXCEPT ![tap[t].on].text = text]
    <3>1. card'[c] = card[c] \/ card'[c] = [card[c] EXCEPT !.text = text]
      BY <2>2 DEF IInv, TypeOK
    <3>2. card[c] \in CardType
      BY DEF IInv, TypeOK
    <3> QED BY <3>1, <3>2 DEF CardType
  <2> QED BY <2>1, <2>2
<1> QED BY <1>1 DEF TokensStay

\* To who presses the buttons, every step saves tokens, takes one, lets some
\* lapse or changes nothing.
LEMMA StepRefines ==
  ASSUME IInv, IInv', [Next]_vars
  PROVE  [Tokens!Next]_(Tokens!vars)
<1>1. CASE UNCHANGED <<card, tap>>
  BY <1>1, TokensStayStutters DEF TokensStay, TakersStay
<1>2. ASSUME NEW c \in Cards, HandleBacklog(c) PROVE UNCHANGED Tokens!vars
  BY <1>2, ListForTokens, TokensStayStutters DEF HandleBacklog, TakersStay
<1>3. ASSUME NEW c \in Cards, Expire(c) PROVE Tokens!Next
  <2>1. \A d \in Cards : card'[d].live \subseteq card[d].live /\ card'[d].saved = card[d].saved
    <3> DEFINE left == {}
    <3>1. card' = [card EXCEPT ![c].live = left] /\ left \in SUBSET card[c].live
      BY <1>3 DEF Expire
    <3> HIDE DEF left
    <3> QED BY <3>1, TokensGo
  <2> QED BY <1>3, <2>1, TokensLapse DEF Expire, TakersStay
<1>4. ASSUME NEW t \in Taps, NEW c \in Cards, NEW a \in Actions, NEW owner \in BOOLEAN, Press(t, c, a, owner)
      PROVE  UNCHANGED Tokens!vars
  <2>1. /\ tap[t].pc = "idle" /\ UNCHANGED card
        /\ tap' = [tap EXCEPT ![t] = [pc |-> "pressed", on |-> c, action |-> a, owner |-> owner, took |-> FALSE]]
    BY <1>4 DEF Press, At
  <2>2. tap[t].took = FALSE
    BY <2>1 DEF IInv, TapInv
  <2>3. TakersStay
    BY <2>1, <2>2 DEF IInv, TypeOK, TakersStay
  <2> QED BY <2>1, <2>3, TokensStayStutters DEF TokensStay
<1>5. ASSUME NEW t \in Taps, HandleReviewCallback(t) PROVE [Tokens!Next]_(Tokens!vars)
  <2>1. CASE Take(t)
    BY <2>1, TakeTakes
  <2>2. ASSUME NEW pc, Go(t, pc), TokensStay PROVE UNCHANGED Tokens!vars
    BY <2>2, GoTakesNothing, TokensStayStutters
  <2>3. ASSUME NEW pc, Go(t, pc), UNCHANGED card PROVE UNCHANGED Tokens!vars
    BY <2>2, <2>3 DEF TokensStay
  <2>4. CASE Skip(t)
    <3>1. TokensStay
      <4> DEFINE text == "nothing pending"
      <4>1. ASSUME card' \in {card, [card EXCEPT ![tap[t].on].text = text]} PROVE TokensStay
        <5> HIDE DEF text
        <5> QED BY <4>1, EditTokens
      <4> QED BY <2>4, <4>1, ListForTokens DEF Skip
    <3> QED BY <2>2, <2>4, <3>1 DEF Skip
  <2>5. CASE Answer(t)
    <3>1. TokensStay
      BY <2>5, EditTokens DEF Answer
    <3> QED BY <2>2, <2>5, <3>1 DEF Answer
  <2>6. CASE Check(t) \/ CallFails(t) \/ Cut(t)
    BY <2>3, <2>6 DEF Check, CallFails, Cut
  <2>7. CASE CallDecides(t)
    BY <2>3, <2>7 DEF CallDecides
  <2> QED BY <1>5, <2>1, <2>4, <2>5, <2>6, <2>7 DEF HandleReviewCallback
<1>6. ASSUME NEW o \in Objects, NEW s \in Lifecycle!Statuses, Ingest(o, s) PROVE UNCHANGED <<card, tap>>
  BY <1>6 DEF Ingest
<1>7. ASSUME NEW r \in Rivals, RivalDecides(r) PROVE UNCHANGED <<card, tap>>
  BY <1>7 DEF RivalDecides
<1>8. CASE UNCHANGED vars
  BY <1>1, <1>8 DEF vars
<1> QED BY <1>1, <1>2, <1>3, <1>4, <1>5, <1>6, <1>7, <1>8, SendCardSaves DEF Next

\* TelegramReviewActionStore keeps its promise through every handler that uses
\* it: a button's token is good for one callback, whatever fails, expires, is
\* pressed twice or is cut off.
THEOREM Implements == Spec => ImplementsOneTimeTokens
<1>1. Init => Tokens!Init
  <2> SUFFICES ASSUME Init PROVE Tokens!Init
    OBVIOUS
  <2>1. \A c \in Cards : card[c].live = {} /\ card[c].saved = {}
    BY DEF Init, NoCard
  <2>2. \A t \in Taps : tap[t].took = FALSE
    BY DEF Init
  <2>3. TokenState = [k \in Buttonables |-> "unsaved"]
    BY <2>1 DEF TokenState, Buttonables
  <2>4. TokenHolder = [k \in Buttonables |-> Nobody]
    BY <2>2 DEF TokenHolder, Took
  <2> QED BY <2>3, <2>4 DEF Tokens!Init
<1>2. IInv /\ IInv' /\ [Next]_vars => [Tokens!Next]_(Tokens!vars)
  BY StepRefines
<1> QED BY <1>1, <1>2, IInvHolds, PTL DEF Spec, ImplementsOneTimeTokens, Tokens!Spec

=============================================================================
