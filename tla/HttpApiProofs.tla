---------------------------- MODULE HttpApiProofs ----------------------------
(***************************************************************************)
(* The rate limiter keeps its bound for every number of clients, rate,     *)
(* burst and idle time, those included whose buckets are forgotten before  *)
(* they are full, and however long it runs; and                            *)
(* however requests are refused, served and answered behind it, what       *)
(* happens to the buckets is a behaviour of RateLimit.  The second part is *)
(* about what a served request answers: for any objects, scores and limits *)
(* of RetrievalAssumption it never contradicts the lists it was given.     *)
(* The third is about the pages of the backlog, which are a ranking too:   *)
(* what a walking client sees of items nobody touches.                     *)
(*                                                                         *)
(* A window that ends now may have used up the burst; what allow() still   *)
(* holds back for it is the tokens left in the bucket and the refill since *)
(* the bucket was last touched.  BucketInv says that for every start of a  *)
(* window.  The absence of a bucket stands for a full one, and if a bucket *)
(* was collected sooner than it was full, every window that has seen it    *)
(* idle has grown by an Idle, which pays for the excess.                   *)
(***************************************************************************)
EXTENDS HttpApi, HumanBacklog, FiniteSetTheorems, SequenceTheorems, WellFoundedInduction, TLAPS

LimiterTypeOK ==
  /\ buckets \in SUBSET Clients
  /\ tokens \in [Clients -> 0..Burst]
  /\ last \in [Clients -> Nat]
  /\ clock \in 0..MaxClock
  /\ spent \in [Clients -> [0..MaxClock -> Nat]]

\* What the bucket of c has left at the time last[c] it was looked at.
Left(c, t) ==
  IF c \in buckets
  THEN (last[c] - t) + Regained(last[c] - t) - tokens[c]
  ELSE (clock - t) + Regained(clock - t) - Burst

BucketInv ==
  \A c \in Clients :
    /\ last[c] <= clock
    /\ \A t \in 0..MaxClock :
         /\ t > clock \/ (c \in buckets /\ t > last[c]) => spent[c][t] = 0
         /\ t <= clock /\ (c \in buckets => t <= last[c]) => spent[c][t] <= Burst + Left(c, t)

LimiterInv == LimiterTypeOK /\ BucketInv

-----------------------------------------------------------------------------
\* What collections may bring grows with the window, by an excess with every
\* idle time.
LEMMA RegainedGrows ==
  ASSUME NEW m \in Nat, NEW n \in Nat, m <= n
  PROVE  /\ Regained(m) \in Nat /\ Regained(n) \in Nat
         /\ Regained(m) <= Regained(n)
         /\ m + Idle <= n => Regained(m) + Excess <= Regained(n)
<1>1. Idle \in Nat \ {0} /\ Excess \in Nat
  BY LimiterAssumption DEF Idle, Excess
<1> HIDE DEF Idle, Excess
<1>2. \A k \in Nat : k \div Idle \in Nat /\ (k \div Idle) * Idle <= k /\ k < ((k \div Idle) + 1) * Idle
  BY <1>1
<1>3. \A a, b \in Nat : a <= b => a * Excess \in Nat /\ a * Excess <= b * Excess
  BY <1>1
<1>4. m \div Idle <= n \div Idle
  BY <1>1, <1>2
<1>5. ASSUME m + Idle <= n PROVE Regained(m) + Excess <= Regained(n)
  <2>1. (m \div Idle) + 1 <= n \div Idle
    BY <1>1, <1>2, <1>5
  <2>2. ((m \div Idle) + 1) * Excess = (m \div Idle) * Excess + Excess
    BY <1>1, <1>2
  <2> QED BY <1>2, <1>3, <2>1, <2>2 DEF Regained
<1> QED BY <1>2, <1>3, <1>4, <1>5 DEF Regained

\* A refilled bucket holds between nothing and the burst, and no more than what
\* it held and the time since has brought.
LEMMA RefillBounds ==
  ASSUME LimiterInv, NEW c \in Clients
  PROVE  /\ Refilled(c) \in 0..Burst
         /\ c \in buckets => Refilled(c) <= tokens[c] + (clock - last[c])
         /\ c \notin buckets => Refilled(c) = Burst
<1>1. tokens[c] \in 0..Burst /\ last[c] \in Nat /\ clock \in Nat /\ last[c] <= clock /\ Burst \in Nat
  BY LimiterAssumption DEF LimiterInv, LimiterTypeOK, BucketInv
<1> QED BY <1>1 DEF Refilled

LEMMA InitEstablishesInv == LimiterInit => LimiterInv
<1> SUFFICES ASSUME LimiterInit PROVE LimiterInv
  OBVIOUS
<1>1. LimiterTypeOK
  BY LimiterAssumption DEF LimiterInit, LimiterTypeOK
<1>2. \A c \in Clients : last[c] = 0 /\ \A t \in 0..MaxClock : spent[c][t] = 0
  BY DEF LimiterInit
<1>3. clock = 0 /\ buckets = {} /\ Burst \in Nat /\ MaxClock \in Nat
  BY LimiterAssumption DEF LimiterInit
<1>4. ASSUME NEW c \in Clients, NEW t \in 0..MaxClock, t <= clock
      PROVE  Left(c, t) \in Int /\ Left(c, t) >= 0 - Burst
  <2>1. t = 0 /\ clock - t = 0
    BY <1>3, <1>4
  <2>2. Regained(clock - t) \in Nat
    BY <2>1, RegainedGrows
  <2>3. Left(c, t) = (clock - t) + Regained(clock - t) - Burst
    BY <1>3 DEF Left
  <2> HIDE DEF Regained
  <2> QED BY <1>3, <2>1, <2>2, <2>3
<1>5. BucketInv
  <2> SUFFICES ASSUME NEW c \in Clients
               PROVE  /\ last[c] <= clock
                      /\ \A t \in 0..MaxClock :
                           /\ t > clock \/ (c \in buckets /\ t > last[c]) => spent[c][t] = 0
                           /\ t <= clock /\ (c \in buckets => t <= last[c])
                                => spent[c][t] <= Burst + Left(c, t)
    BY DEF BucketInv
  <2>1. ASSUME NEW t \in 0..MaxClock, t <= clock PROVE spent[c][t] <= Burst + Left(c, t)
    BY <1>2, <1>3, <1>4, <2>1
  <2> QED BY <1>2, <1>3, <2>1
<1> QED BY <1>1, <1>5 DEF LimiterInv

\* What the history becomes when c is admitted for so many units.
Spends(c, taken) ==
  /\ spent' \in [Clients -> [0..MaxClock -> Nat]]
  /\ \A t \in 0..MaxClock :
       spent'[c][t] = IF t <= clock THEN spent[c][t] + taken ELSE spent[c][t]
  /\ \A d \in Clients \ {c} : spent'[d] = spent[d]

\* allow() leaves in the bucket it looked at what the windows may still spend,
\* whether it takes a token or not.
LEMMA TouchPreservesInv ==
  ASSUME LimiterInv, NEW c \in Clients, NEW taken \in 0..Refilled(c),
         Touch(c, Refilled(c) - taken),
         Spends(c, taken)
  PROVE  LimiterInv'
<1>1. /\ Refilled(c) \in 0..Burst
      /\ c \in buckets => Refilled(c) <= tokens[c] + (clock - last[c])
      /\ c \notin buckets => Refilled(c) = Burst
  BY RefillBounds
<1>2. /\ Burst \in Nat /\ MaxClock \in Nat /\ clock \in 0..MaxClock
      /\ taken \in Nat /\ taken <= Refilled(c)
  BY <1>1, LimiterAssumption DEF LimiterInv, LimiterTypeOK
<1>3. /\ buckets' = buckets \union {c} /\ clock' = clock
      /\ tokens' = [tokens EXCEPT ![c] = Refilled(c) - taken]
      /\ last' = [last EXCEPT ![c] = clock]
  BY DEF Touch
<1>4. LimiterTypeOK'
  <2>1. Refilled(c) - taken \in 0..Burst
    BY <1>1, <1>2
  <2>2. buckets' \in SUBSET Clients
    BY <1>3 DEF LimiterInv, LimiterTypeOK
  <2>3. tokens' \in [Clients -> 0..Burst]
    BY <1>3, <2>1 DEF LimiterInv, LimiterTypeOK
  <2>4. last' \in [Clients -> Nat]
    BY <1>2, <1>3 DEF LimiterInv, LimiterTypeOK
  <2>5. clock' \in 0..MaxClock
    BY <1>2, <1>3
  <2> QED BY <2>2, <2>3, <2>4, <2>5 DEF LimiterTypeOK, Spends
<1>5. BucketInv'
  <2> SUFFICES ASSUME NEW d \in Clients, NEW t \in 0..MaxClock
               PROVE  /\ last'[d] <= clock'
                      /\ t > clock' \/ (d \in buckets' /\ t > last'[d]) => spent'[d][t] = 0
                      /\ t <= clock' /\ (d \in buckets' => t <= last'[d])
                           => spent'[d][t] <= Burst + Left(d, t)'
    BY <1>2 DEF BucketInv
  <2>1. CASE d # c
    BY <2>1, <1>3 DEF LimiterInv, LimiterTypeOK, BucketInv, Left, Spends
  <2>2. CASE d = c
    <3>1. /\ last'[c] = clock /\ tokens'[c] = Refilled(c) - taken /\ c \in buckets'
          /\ spent'[c][t] = IF t <= clock THEN spent[c][t] + taken ELSE spent[c][t]
      BY <1>3 DEF LimiterInv, LimiterTypeOK, Spends
    <3>2. /\ last[c] \in Nat /\ tokens[c] \in 0..Burst /\ spent[c][t] \in Nat /\ last[c] <= clock
          /\ t > clock \/ (c \in buckets /\ t > last[c]) => spent[c][t] = 0
          /\ t <= clock /\ (c \in buckets => t <= last[c]) => spent[c][t] <= Burst + Left(c, t)
      BY DEF LimiterInv, LimiterTypeOK, BucketInv
    <3>3. t <= clock => spent[c][t] <= Burst + (clock - t) + Regained(clock - t) - Refilled(c)
      <4>1. t \in Nat /\ clock \in Nat /\ Burst \in Nat /\ Refilled(c) \in 0..Burst
        BY <1>1, <1>2
      <4> SUFFICES ASSUME t <= clock
                   PROVE  spent[c][t] <= Burst + (clock - t) + Regained(clock - t) - Refilled(c)
        OBVIOUS
      <4>2. clock - t \in Nat /\ Regained(clock - t) \in Nat
        BY <4>1, RegainedGrows
      <4>3. CASE c \in buckets
        <5>1. Refilled(c) <= tokens[c] + (clock - last[c])
          BY <1>1, <4>3
        <5>2. Left(c, t) = (last[c] - t) + Regained(last[c] - t) - tokens[c]
          BY <4>3 DEF Left
        <5>3. CASE t <= last[c]
          <6>1. last[c] - t \in Nat /\ last[c] - t <= clock - t
            BY <3>2, <4>1, <5>3
          <6>2. Regained(last[c] - t) \in Nat /\ Regained(last[c] - t) <= Regained(clock - t)
            BY <4>2, <6>1, RegainedGrows
          <6>3. spent[c][t] <= Burst + Left(c, t)
            BY <3>2, <5>3
          <6> HIDE DEF Regained
          <6> QED BY <3>2, <4>1, <4>2, <5>1, <5>2, <6>2, <6>3
        <5>4. CASE t > last[c]
          <6>1. spent[c][t] = 0
            BY <3>2, <4>3, <5>4
          <6> QED BY <4>1, <4>2, <6>1
        <5> QED BY <3>2, <4>1, <5>3, <5>4
      <4>4. CASE c \notin buckets
        <5>1. Left(c, t) = (clock - t) + Regained(clock - t) - Burst /\ Refilled(c) = Burst
          BY <1>1, <4>4 DEF Left
        <5> QED BY <3>2, <4>1, <4>2, <4>4, <5>1
      <4> QED BY <4>3, <4>4
    <3>4. Left(c, t)' = (clock - t) + Regained(clock - t) - (Refilled(c) - taken)
      BY <3>1, <1>3 DEF Left, Regained, Idle, Excess
    <3>5. spent'[c][t] \in Int /\ t \in Int /\ clock \in Int /\ taken \in Int /\ Refilled(c) \in Int
      BY <1>1, <1>2, <3>1, <3>2
    <3>6. ASSUME t <= clock
          PROVE  spent'[c][t] <= Burst + ((clock - t) + Regained(clock - t) - (Refilled(c) - taken))
      <4>1. Regained(clock - t) \in Nat
        BY <1>2, <3>6, RegainedGrows
      <4> QED BY <1>2, <3>1, <3>2, <3>3, <3>5, <3>6, <4>1
    <3>7. t > clock => spent'[c][t] = 0
      BY <1>2, <3>1, <3>2
    <3> QED BY <1>3, <2>2, <3>1, <3>4, <3>5, <3>6, <3>7
  <2> QED BY <2>1, <2>2
<1> QED BY <1>4, <1>5 DEF LimiterInv

\* A bucket the gcLoop may collect is one whose windows have all been refilled.
LEMMA CollectPreservesInv == LimiterInv /\ Collect => LimiterInv'
<1> SUFFICES ASSUME LimiterInv, Collect PROVE LimiterInv'
  OBVIOUS
<1>1. LimiterTypeOK'
  BY DEF LimiterInv, LimiterTypeOK, Collect
<1>2. BucketInv'
  <2> SUFFICES ASSUME NEW d \in Clients, NEW t \in 0..MaxClock
               PROVE  /\ last'[d] <= clock'
                      /\ t > clock' \/ (d \in buckets' /\ t > last'[d]) => spent'[d][t] = 0
                      /\ t <= clock' /\ (d \in buckets' => t <= last'[d])
                           => spent'[d][t] <= Burst + Left(d, t)'
    BY LimiterAssumption DEF BucketInv
  <2>1. /\ Burst \in Nat /\ IdleTTL \in Nat /\ t \in Nat
        /\ clock \in Nat /\ last[d] \in Nat /\ tokens[d] \in 0..Burst /\ spent[d][t] \in Nat
        /\ last[d] <= clock
        /\ t > clock \/ (d \in buckets /\ t > last[d]) => spent[d][t] = 0
        /\ t <= clock /\ (d \in buckets => t <= last[d]) => spent[d][t] <= Burst + Left(d, t)
    BY LimiterAssumption DEF LimiterInv, LimiterTypeOK, BucketInv
  <2>2. /\ clock' = clock /\ last'[d] = last[d] /\ tokens'[d] = tokens[d]
        /\ spent'[d][t] = spent[d][t]
        /\ d \in buckets' <=> d \in buckets /\ ~(clock - last[d] > IdleTTL)
    BY DEF Collect, IsIdle
  <2>3. CASE d \in buckets'
    <3>1. Left(d, t)' = Left(d, t)
      BY <2>2, <2>3 DEF Left, Regained, Idle, Excess
    <3> QED BY <2>1, <2>2, <2>3, <3>1
  <2>4. CASE d \notin buckets /\ d \notin buckets'
    <3>1. Left(d, t)' = Left(d, t)
      BY <2>2, <2>4 DEF Left, Regained, Idle, Excess
    <3> QED BY <2>1, <2>2, <2>4, <3>1
  <2>5. CASE d \in buckets /\ d \notin buckets'
    <3>1. Left(d, t)' = (clock - t) + Regained(clock - t) - Burst
      BY <2>2, <2>5 DEF Left, Regained, Idle, Excess
    <3>2. ASSUME t <= clock PROVE spent[d][t] <= (clock - t) + Regained(clock - t)
      <4>1. clock - t \in Nat /\ Regained(clock - t) \in Nat
        BY <2>1, <3>2, RegainedGrows
      <4>2. CASE t > last[d]
        BY <2>1, <2>5, <4>1, <4>2
      <4>3. CASE t <= last[d]
        <5>1. /\ last[d] - t \in Nat /\ (last[d] - t) + Idle <= clock - t /\ Idle \in Nat
              /\ Excess \in Nat /\ Burst <= Idle + Excess
          BY <2>1, <2>2, <2>5, <4>3 DEF Idle, Excess
        <5>2. last[d] - t <= clock - t
          BY <4>1, <5>1
        <5>3. Regained(last[d] - t) \in Nat /\ Regained(last[d] - t) + Excess <= Regained(clock - t)
          BY <4>1, <5>1, <5>2, RegainedGrows
        <5>4. spent[d][t] <= Burst + ((last[d] - t) + Regained(last[d] - t) - tokens[d])
          BY <2>1, <2>5, <4>3 DEF Left
        <5> QED BY <2>1, <4>1, <5>1, <5>3, <5>4
      <4> QED BY <2>1, <4>2, <4>3
    <3>3. ASSUME t <= clock PROVE Regained(clock - t) \in Nat
      BY <2>1, <3>3, RegainedGrows
    <3> QED BY <2>1, <2>2, <2>5, <3>1, <3>2, <3>3
  <2> QED BY <2>2, <2>3, <2>4, <2>5
<1> QED BY <1>1, <1>2 DEF LimiterInv

LEMMA TickPreservesInv == LimiterInv /\ LimiterTick => LimiterInv'
<1> SUFFICES ASSUME LimiterInv, LimiterTick PROVE LimiterInv'
  OBVIOUS
<1>1. LimiterTypeOK'
  BY LimiterAssumption DEF LimiterInv, LimiterTypeOK, LimiterTick
<1>2. BucketInv'
  <2> SUFFICES ASSUME NEW d \in Clients, NEW t \in 0..MaxClock
               PROVE  /\ last'[d] <= clock'
                      /\ t > clock' \/ (d \in buckets' /\ t > last'[d]) => spent'[d][t] = 0
                      /\ t <= clock' /\ (d \in buckets' => t <= last'[d])
                           => spent'[d][t] <= Burst + Left(d, t)'
    BY LimiterAssumption DEF BucketInv
  <2>1. /\ Burst \in Nat /\ t \in Nat /\ clock \in Nat /\ last[d] \in Nat
        /\ tokens[d] \in 0..Burst /\ spent[d][t] \in Nat /\ last[d] <= clock
        /\ t > clock \/ (d \in buckets /\ t > last[d]) => spent[d][t] = 0
        /\ t <= clock /\ (d \in buckets => t <= last[d]) => spent[d][t] <= Burst + Left(d, t)
    BY LimiterAssumption DEF LimiterInv, LimiterTypeOK, BucketInv
  <2>2. clock' = clock + 1 /\ buckets' = buckets /\ last' = last /\ tokens' = tokens /\ spent' = spent
    BY DEF LimiterTick
  <2>3. CASE d \in buckets
    <3>1. Left(d, t)' = Left(d, t)
      BY <2>2, <2>3 DEF Left, Regained, Idle, Excess
    <3> QED BY <2>1, <2>2, <2>3, <3>1
  <2>4. CASE d \notin buckets
    <3>1. /\ Left(d, t) = (clock - t) + Regained(clock - t) - Burst
          /\ Left(d, t)' = (clock' - t) + Regained(clock' - t) - Burst
          /\ clock' \in Nat
      <4>1. Left(d, t) = (clock - t) + Regained(clock - t) - Burst
        BY <2>4 DEF Left
      <4>2. Left(d, t)' = (clock' - t) + Regained(clock' - t) - Burst
        BY <2>2, <2>4 DEF Left, Regained, Idle, Excess
      <4> QED BY <2>1, <2>2, <4>1, <4>2
    <3>2. CASE t > clock'
      BY <2>1, <2>2, <2>4, <3>1, <3>2
    <3>3. CASE t <= clock'
      <4>1. clock' - t \in Nat /\ Regained(clock' - t) \in Nat
        BY <2>1, <3>1, <3>3, RegainedGrows
      <4>2. CASE t > clock
        BY <2>1, <2>2, <2>4, <3>1, <3>3, <4>1, <4>2
      <4>3. CASE t <= clock
        <5>1. clock - t \in Nat /\ clock - t <= clock' - t
          BY <2>1, <2>2, <4>3
        <5>2. Regained(clock - t) \in Nat /\ Regained(clock - t) <= Regained(clock' - t)
          BY <4>1, <5>1, RegainedGrows
        <5> QED BY <2>1, <2>2, <2>4, <3>1, <3>3, <4>1, <4>3, <5>2
      <4> QED BY <2>1, <4>2, <4>3
    <3> QED BY <2>1, <3>1, <3>2, <3>3
  <2> QED BY <2>3, <2>4
<1> QED BY <1>1, <1>2 DEF LimiterInv

LEMMA NextPreservesInv == LimiterInv /\ [LimiterNext]_limiterVars => LimiterInv'
<1> SUFFICES ASSUME LimiterInv, [LimiterNext]_limiterVars PROVE LimiterInv'
  OBVIOUS
<1>1. CASE LimiterTick
  BY <1>1, TickPreservesInv
<1>2. CASE Collect
  BY <1>2, CollectPreservesInv
<1>3. ASSUME NEW c \in Clients, Allow(c) PROVE LimiterInv'
  <2>1. Cost \in 0..Refilled(c)
    BY <1>3, RefillBounds, LimiterAssumption DEF Allow
  <2>2. Spends(c, Cost)
    <3>1. [t \in 0..MaxClock |-> IF t <= clock THEN spent[c][t] + Cost ELSE spent[c][t]]
            \in [0..MaxClock -> Nat]
      BY LimiterAssumption DEF LimiterInv, LimiterTypeOK
    <3> QED BY <1>3, <3>1 DEF Allow, LimiterInv, LimiterTypeOK, Spends
  <2> QED BY <1>3, <2>1, <2>2, TouchPreservesInv DEF Allow
<1>4. ASSUME NEW c \in Clients, Refuse(c) PROVE LimiterInv'
  <2>1. 0 \in 0..Refilled(c) /\ Refilled(c) - 0 = Refilled(c)
    BY RefillBounds, LimiterAssumption
  <2>2. Spends(c, 0)
    BY <1>4, LimiterAssumption DEF Refuse, LimiterInv, LimiterTypeOK, Spends
  <2> QED BY <1>4, <2>1, <2>2, TouchPreservesInv DEF Refuse
<1>5. CASE UNCHANGED limiterVars
  BY <1>5 DEF limiterVars, LimiterInv, LimiterTypeOK, BucketInv, Left, Regained, Idle, Excess
<1> QED BY <1>1, <1>2, <1>3, <1>4, <1>5 DEF LimiterNext

\* LimiterInv is inductive.
THEOREM LimiterInvHolds == LimiterSpec => []LimiterInv
<1> QED BY InitEstablishesInv, NextPreservesInv, PTL DEF LimiterSpec

\* AdmissionsStayWithinRate: whatever the rate, the burst, the idle time and the
\* requests, a client gets no more out of any window of time than a burst, the
\* refill, and the excess of a forgotten bucket over a refilled one for every
\* idle time in the window; that is nothing where idleTTL fills a bucket.
THEOREM AdmissionsAreBounded == LimiterSpec => []AdmissionsStayWithinRate
<1>1. LimiterInv => AdmissionsStayWithinRate
  <2> SUFFICES ASSUME LimiterInv, NEW c \in Clients, NEW t \in 0..clock
               PROVE  spent[c][t] <= Burst + (clock - t) + Regained(clock - t)
    BY DEF AdmissionsStayWithinRate
  <2>1. /\ Burst \in Nat /\ clock \in 0..MaxClock /\ MaxClock \in Nat /\ t \in 0..MaxClock
        /\ last[c] \in Nat /\ tokens[c] \in 0..Burst /\ spent[c][t] \in Nat /\ last[c] <= clock
        /\ t > clock \/ (c \in buckets /\ t > last[c]) => spent[c][t] = 0
        /\ t <= clock /\ (c \in buckets => t <= last[c]) => spent[c][t] <= Burst + Left(c, t)
    BY LimiterAssumption DEF LimiterInv, LimiterTypeOK, BucketInv
  <2>2. clock - t \in Nat /\ Regained(clock - t) \in Nat
    BY <2>1, RegainedGrows
  <2>3. CASE c \notin buckets
    BY <2>1, <2>2, <2>3 DEF Left
  <2>4. CASE c \in buckets /\ t > last[c]
    BY <2>1, <2>2, <2>4
  <2>5. CASE c \in buckets /\ t <= last[c]
    <3>1. last[c] - t \in Nat /\ last[c] - t <= clock - t
      BY <2>1, <2>5
    <3>2. Regained(last[c] - t) \in Nat /\ Regained(last[c] - t) <= Regained(clock - t)
      BY <2>2, <3>1, RegainedGrows
    <3> QED BY <2>1, <2>2, <2>5, <3>1, <3>2 DEF Left
  <2> QED BY <2>1, <2>3, <2>4, <2>5
<1> QED BY <1>1, LimiterInvHolds, PTL

-----------------------------------------------------------------------------
(* The API behind the limiter.                                             *)

\* Every step of the API is a step of its limiter or leaves the limiter alone.
LEMMA StepIsLimited == Next => [LimiterNext]_limiterVars
<1> SUFFICES ASSUME Next PROVE LimiterNext \/ UNCHANGED limiterVars
  OBVIOUS
<1>1. ASSUME NEW r \in Calls, Unauthorized(r) \/ Answer(r) PROVE UNCHANGED limiterVars
  BY <1>1 DEF Unauthorized, Answer
<1>2. ASSUME NEW r \in Calls, NEW c \in Clients, TooMany(r, c) \/ BadRequest(r, c) \/ Serve(r, c)
      PROVE  LimiterNext
  BY <1>2 DEF TooMany, BadRequest, Serve, LimiterNext
<1>3. CASE Background
  BY <1>3 DEF Background, LimiterNext
<1> QED BY <1>1, <1>2, <1>3 DEF Next

\* The composed API refines the limiter (server.go's middleware chain).
THEOREM ApiImplementsLimiter == Spec => LimiterSpec
<1>1. Init => LimiterInit
  BY DEF Init
<1>2. [Next]_vars => [LimiterNext]_limiterVars
  BY StepIsLimited DEF vars
<1> QED BY <1>1, <1>2, PTL DEF Spec, LimiterSpec

\* AdmissionsStayWithinRate: so no mix of refused, invalid and served requests
\* gets a client past its rate (limiter.Middleware in front of every handler).
THEOREM ApiAdmissionsAreBounded == Spec => []AdmissionsStayWithinRate
<1> QED BY ApiImplementsLimiter, AdmissionsAreBounded, PTL

-----------------------------------------------------------------------------
(* Rankings, cuts and the fusion.                                          *)

\* A list a retriever may have sent: scores of finitely many objects.
IsList(score, n) ==
  \E S \in SUBSET Objects : Cardinality(S) <= n /\ score \in [S -> Scores]

LEMMA ListFacts ==
  ASSUME NEW n \in Nat, NEW score, IsList(score, n)
  PROVE  /\ DOMAIN score \subseteq Objects /\ IsFiniteSet(DOMAIN score)
         /\ Cardinality(DOMAIN score) \in 0..n
         /\ \A o \in DOMAIN score : score[o] \in Int
<1>1. PICK S \in SUBSET Objects : Cardinality(S) <= n /\ score \in [S -> Scores]
  BY DEF IsList
<1>2. IsFiniteSet(S) /\ Cardinality(S) \in Nat
  BY RetrievalAssumption, FS_Subset, FS_CardinalityType
<1>3. DOMAIN score = S /\ \A o \in S : score[o] \in Scores
  BY <1>1
<1>4. Cardinality(S) \in 0..n
  BY <1>1, <1>2
<1>5. \A o \in S : score[o] \in Int
  BY <1>3, RetrievalAssumption
<1> QED BY <1>2, <1>3, <1>4, <1>5

\* An order of D: every element at one place.
Orders(q, D) ==
  /\ q \in [1..Cardinality(D) -> D]
  /\ \A i, j \in 1..Cardinality(D) : i # j => q[i] # q[j]
  /\ \A o \in D : \E i \in 1..Cardinality(D) : q[i] = o

LEMMA RankingOrders ==
  ASSUME NEW score, IsFiniteSet(DOMAIN score), NEW q \in Rankings(score)
  PROVE  /\ Orders(q, DOMAIN score)
         /\ \A i, j \in 1..Cardinality(DOMAIN score) : i < j => score[q[i]] >= score[q[j]]
<1> DEFINE D == DOMAIN score
           I == 1..Cardinality(D)
<1>1. Cardinality(D) \in Nat
  BY FS_CardinalityType
<1>2. IsFiniteSet(I) /\ Cardinality(I) = Cardinality(D)
  BY <1>1, FS_Interval
<1>3. q \in [I -> D] /\ (\A i, j \in I : i # j => q[i] # q[j]) /\ \A i, j \in I : i < j => score[q[i]] >= score[q[j]]
  BY DEF Rankings, SetToSeqs
<1> HIDE DEF D, I
<1>4. q \in Injection(I, D)
  BY <1>3 DEF Injection, IsInjective
<1>5. q \in Surjection(I, D)
  BY <1>2, <1>4, FS_Injection DEF D
<1>6. \A o \in D : \E i \in I : q[i] = o
  BY <1>5 DEF Surjection
<1> QED BY <1>3, <1>6 DEF Orders, D, I

\* Where an order has an element.
LEMMA RankOf ==
  ASSUME NEW D, NEW q, Orders(q, D)
  PROVE  /\ DOMAIN q = 1..Cardinality(D) /\ Range(q) = D
         /\ \A o \in D : RankIn(q, o) \in 1..Cardinality(D) /\ q[RankIn(q, o)] = o
         /\ \A i \in 1..Cardinality(D) : RankIn(q, q[i]) = i
<1>1. DOMAIN q = 1..Cardinality(D) /\ Range(q) = D
  BY DEF Orders, Range
<1>2. ASSUME NEW o \in D PROVE RankIn(q, o) \in 1..Cardinality(D) /\ q[RankIn(q, o)] = o
  <2>1. \E i \in DOMAIN q : q[i] = o
    BY <1>1 DEF Orders
  <2> QED BY <1>1, <2>1 DEF RankIn
<1>3. ASSUME NEW i \in 1..Cardinality(D) PROVE RankIn(q, q[i]) = i
  <2>1. q[i] \in D
    BY DEF Orders
  <2> QED BY <1>2, <2>1 DEF Orders
<1> QED BY <1>1, <1>2, <1>3

\* The better score has the better rank.
LEMMA RankFollowsScore ==
  ASSUME NEW score, IsFiniteSet(DOMAIN score), \A o \in DOMAIN score : score[o] \in Int,
         NEW q \in Rankings(score), NEW x \in DOMAIN score, NEW y \in DOMAIN score, score[x] > score[y]
  PROVE  RankIn(q, x) < RankIn(q, y)
<1>1. Orders(q, DOMAIN score) /\ \A i, j \in 1..Cardinality(DOMAIN score) : i < j => score[q[i]] >= score[q[j]]
  BY RankingOrders
<1>2. PICK i \in 1..Cardinality(DOMAIN score) : i = RankIn(q, x) /\ q[i] = x
  BY <1>1, RankOf
<1>3. PICK j \in 1..Cardinality(DOMAIN score) : j = RankIn(q, y) /\ q[j] = y
  BY <1>1, RankOf
<1>4. i # j /\ ~ (j < i)
  BY <1>1, <1>2, <1>3
<1> QED BY <1>2, <1>3, <1>4

\* A cut keeps what is before what it keeps.
LEMMA CutKeepsOrder ==
  ASSUME NEW D, IsFiniteSet(D), NEW q, Orders(q, D)
  PROVE  /\ Cut(q) \in Seq(D)
         /\ \A x \in D, y \in Range(Cut(q)) : y \in D /\ (RankIn(q, x) < RankIn(q, y) => Before(Cut(q), x, y))
<1> DEFINE n == Cardinality(D)
           m == IF n > DefaultSearchLimit THEN DefaultSearchLimit ELSE n
<1>1. n \in Nat /\ m \in Nat /\ m <= n
  BY FS_CardinalityType, RetrievalAssumption
<1>2. /\ q \in [1..n -> D] /\ DOMAIN q = 1..n /\ q \in Seq(D) /\ Len(q) = n
  <2>1. q \in [1..n -> D]
    BY DEF Orders
  <2> HIDE DEF n
  <2>2. q \in Seq(D)
    BY <1>1, <2>1
  <2> QED BY <1>1, <2>1, <2>2
<1> HIDE DEF n
<1>3. Cut(q) = SubSeq(q, 1, m)
  BY <1>2 DEF Cut
<1> HIDE DEF m
<1>4. \A i \in 1..m : q[i] \in D
  BY <1>1, <1>2
<1>5. Cut(q) \in Seq(D) /\ Len(Cut(q)) = m /\ \A i \in 1..m : Cut(q)[i] = q[i]
  BY <1>1, <1>3, <1>4, SubSeqProperties
<1>6. DOMAIN Cut(q) = 1..m
  BY <1>5
<1>7. \A i \in 1..m : RankIn(Cut(q), q[i]) = i
  <2> SUFFICES ASSUME NEW i \in 1..m PROVE RankIn(Cut(q), q[i]) = i
    OBVIOUS
  <2>1. \E k \in DOMAIN Cut(q) : Cut(q)[k] = q[i]
    BY <1>5, <1>6
  <2>2. RankIn(Cut(q), q[i]) \in 1..m /\ Cut(q)[RankIn(Cut(q), q[i])] = q[i]
    BY <1>6, <2>1 DEF RankIn
  <2>3. \A k \in 1..m : k # i => q[k] # q[i]
    BY <1>1 DEF Orders, n
  <2> QED BY <1>5, <2>2, <2>3
<1>8. ASSUME NEW x \in D, NEW y \in Range(Cut(q))
      PROVE  y \in D /\ (RankIn(q, x) < RankIn(q, y) => Before(Cut(q), x, y))
  <2>1. PICK j \in 1..m : y = q[j]
    BY <1>5, <1>6 DEF Range
  <2>2. y \in D /\ RankIn(q, y) = j
    BY <1>1, <1>4, <2>1, RankOf DEF n
  <2>3. PICK i \in 1..n : i = RankIn(q, x) /\ q[i] = x
    BY RankOf DEF n
  <2>4. ASSUME i < j PROVE Before(Cut(q), x, y)
    <3>1. i \in 1..m
      BY <1>1, <2>4
    <3>2. x \in Range(Cut(q))
      BY <1>5, <1>6, <2>3, <3>1 DEF Range
    <3> QED BY <1>7, <2>1, <2>3, <2>4, <3>1, <3>2 DEF Before
  <2> QED BY <2>2, <2>3, <2>4
<1> QED BY <1>5, <1>8

\* A better rank is worth more, and every rank something.
LEMMA WeightsFall ==
  ASSUME NEW i \in 1..MaxSearchLimit, NEW j \in 1..MaxSearchLimit
  PROVE  /\ Weight(i) \in Nat \ {0}
         /\ i < j => Weight(i) > Weight(j)
<1>1. MaxSearchLimit \in Nat /\ K \in Nat /\ Scale \in Nat \ {0} /\ Scale % (K + i) = 0 /\ Scale % (K + j) = 0
  BY RetrievalAssumption
<1>2. i \in Nat \ {0} /\ j \in Nat \ {0}
  BY <1>1
<1>3. \A n \in Nat \ {0} : Scale % n = 0 => Scale \div n \in Int /\ n * (Scale \div n) = Scale
  BY <1>1
<1>4. K + i \in Nat \ {0} /\ K + j \in Nat \ {0}
  BY <1>1, <1>2
<1>5. Weight(i) \in Int /\ (K + i) * Weight(i) = Scale /\ Weight(j) \in Int /\ (K + j) * Weight(j) = Scale
  BY <1>1, <1>3, <1>4 DEF Weight
<1>6. \A n \in Nat \ {0}, w \in Int : n * w = Scale => w \in Nat \ {0}
  BY <1>1
<1>7. Weight(i) \in Nat \ {0} /\ Weight(j) \in Nat \ {0}
  BY <1>4, <1>5, <1>6
<1>8. \A a, b \in Nat \ {0}, u, w \in Nat \ {0} : a < b /\ a * u = b * w => u > w
  <2> SUFFICES ASSUME NEW a \in Nat \ {0}, NEW b \in Nat \ {0}, NEW u \in Nat \ {0}, NEW w \in Nat \ {0},
                      a < b, a * u = b * w, u <= w
               PROVE  FALSE
    OBVIOUS
  <2>1. a * u <= a * w
    OBVIOUS
  <2>2. (b - a) * w > 0 /\ b * w = a * w + (b - a) * w
    OBVIOUS
  <2> QED BY <2>1, <2>2
<1>9. i < j => K + i < K + j
  BY <1>1, <1>2
<1> QED BY <1>4, <1>5, <1>7, <1>8, <1>9

\* What the fusion gives an object for its rank in one list.
Share(q, o) == IF o \in Range(q) THEN Weight(RankIn(q, o)) ELSE 0

LEMMA ShareFollowsScore ==
  ASSUME NEW score, IsList(score, MaxSearchLimit), NEW q \in Rankings(score)
  PROVE  /\ Range(q) = DOMAIN score
         /\ \A o : Share(q, o) \in Nat
         /\ \A x \in DOMAIN score : Share(q, x) > 0
         /\ \A x, y \in DOMAIN score : score[x] > score[y] => Share(q, x) > Share(q, y)
<1> DEFINE D == DOMAIN score
<1>1. IsFiniteSet(D) /\ Cardinality(D) \in 0..MaxSearchLimit /\ \A o \in D : score[o] \in Int
  BY ListFacts, RetrievalAssumption
<1>2. Orders(q, D)
  BY <1>1, RankingOrders
<1>3. Range(q) = D /\ \A o \in D : RankIn(q, o) \in 1..Cardinality(D)
  BY <1>2, RankOf
<1>4. \A o \in D : RankIn(q, o) \in 1..MaxSearchLimit
  BY <1>1, <1>3, RetrievalAssumption
<1>5. \A o : Share(q, o) \in Nat
  BY <1>3, <1>4, WeightsFall DEF Share
<1>6. \A x \in D : Share(q, x) > 0
  BY <1>3, <1>4, WeightsFall DEF Share
<1>7. ASSUME NEW x \in D, NEW y \in D, score[x] > score[y] PROVE Share(q, x) > Share(q, y)
  <2>1. RankIn(q, x) < RankIn(q, y)
    BY <1>1, <1>7, RankFollowsScore
  <2> QED BY <1>3, <1>4, <2>1, WeightsFall DEF Share
<1> QED BY <1>3, <1>5, <1>6, <1>7

\* Every list has x above y, or x and not y.
Over(score, x, y) == x \in DOMAIN score /\ (y \in DOMAIN score => score[x] > score[y])

\* The fusion of two rankings puts x above y when one list does and the other
\* does as well or is empty.
LEMMA FusedFollowsLists ==
  ASSUME NEW s1, NEW s2, IsList(s1, MaxSearchLimit), IsList(s2, MaxSearchLimit),
         NEW f \in Rankings(s1), NEW v \in Rankings(s2)
  PROVE  LET F == Fused([fts |-> f, vector |-> v])
         IN /\ DOMAIN F = DOMAIN s1 \union DOMAIN s2
            /\ \A o \in DOMAIN F : F[o] \in Int
            /\ \A x, y \in DOMAIN F :
                 (/\ Over(s1, x, y) \/ DOMAIN s1 = {}
                  /\ Over(s2, x, y) \/ DOMAIN s2 = {}) => F[x] > F[y]
<1> DEFINE F == Fused([fts |-> f, vector |-> v])
           D == DOMAIN s1 \union DOMAIN s2
<1>1. /\ Range(f) = DOMAIN s1 /\ Range(v) = DOMAIN s2
      /\ \A o : Share(f, o) \in Nat /\ Share(v, o) \in Nat
      /\ \A x \in DOMAIN s1 : Share(f, x) > 0
      /\ \A x \in DOMAIN s2 : Share(v, x) > 0
      /\ \A x, y \in DOMAIN s1 : s1[x] > s1[y] => Share(f, x) > Share(f, y)
      /\ \A x, y \in DOMAIN s2 : s2[x] > s2[y] => Share(v, x) > Share(v, y)
  BY ShareFollowsScore
<1>2. F = [o \in D |-> Share(f, o) + Share(v, o)]
  <2> DEFINE ranking == [fts |-> f, vector |-> v]
  <2>1. ranking["fts"] = f /\ ranking["vector"] = v
    OBVIOUS
  <2>2. UNION {Range(ranking[s]) : s \in Retrievers} = D
    BY <1>1, <2>1 DEF Retrievers
  <2> HIDE DEF ranking
  <2> QED BY <2>1, <2>2 DEF Fused, Share, ranking
<1>3. DOMAIN F = D /\ \A o \in D : F[o] = Share(f, o) + Share(v, o)
  BY <1>2
<1>4. ASSUME NEW x \in D, NEW y \in D,
             Over(s1, x, y) \/ DOMAIN s1 = {}, Over(s2, x, y) \/ DOMAIN s2 = {}
      PROVE  F[x] > F[y]
  <2>1. Over(s1, x, y) => Share(f, x) > Share(f, y)
    BY <1>1 DEF Over, Share
  <2>2. Over(s2, x, y) => Share(v, x) > Share(v, y)
    BY <1>1 DEF Over, Share
  <2>3. (DOMAIN s1 = {} => Share(f, x) = Share(f, y)) /\ (DOMAIN s2 = {} => Share(v, x) = Share(v, y))
    BY <1>1 DEF Share
  <2> QED BY <1>1, <1>3, <1>4, <2>1, <2>2, <2>3
<1> HIDE DEF F, D
<1>5. \A o \in D : F[o] \in Int
  BY <1>1, <1>3
<1> QED BY <1>3, <1>4, <1>5 DEF F, D

-----------------------------------------------------------------------------
(* The retrievers' lists and the answer.                                   *)

ListType == {Pending, Failed} \union {Hits(score) : score \in {l \in UNION {[S -> Scores] : S \in SUBSET Objects} : IsList(l, MaxSearchLimit)}}

AnswerType == [state : {"none", "error"}] \union [state : {"hits"}, order : Seq(Objects)]

\* The retrievers that returned a list, out of what they sent.
Back(l) == {s \in Retrievers : l[s].state = "hits"}

\* An answer that does not contradict its sources.
Agrees(l, a) ==
  /\ a.state = "error" => Back(l) = {}
  /\ a.state = "hits" =>
       \A x \in Objects, y \in Range(a.order) :
         (Back(l) # {} /\ \A s \in Back(l) : Over(l[s].score, x, y)) => Before(a.order, x, y)

\* A request's phase, its lists and its answer.
CallInv(p, l, a) ==
  /\ p \in {"idle", "search", "collision", "refused", "done"}
  /\ l \in [Retrievers -> ListType] /\ a \in AnswerType
  /\ p \in {"idle", "collision", "refused"} => l = NoLists
  /\ p = "done" => Agrees(l, a)

RetrievalInv ==
  /\ phase = [r \in Calls |-> phase[r]] /\ lists = [r \in Calls |-> lists[r]] /\ answer = [r \in Calls |-> answer[r]]
  /\ \A r \in Calls : CallInv(phase[r], lists[r], answer[r])

\* What either retriever has sent, if anything: an empty list stands for none.
LEMMA ScoresOf ==
  ASSUME NEW l \in [Retrievers -> ListType], NEW s \in Retrievers
  PROVE  /\ l[s].state \in {"pending", "failed", "hits"}
         /\ IsList(l[s].score, MaxSearchLimit)
         /\ l[s].state # "hits" => DOMAIN l[s].score = {}
<1>1. l[s] \in {Pending, Failed} \/ \E score : IsList(score, MaxSearchLimit) /\ l[s] = Hits(score)
  BY DEF ListType
<1>2. CASE l[s] \in {Pending, Failed}
  <2>1. l[s].score = <<>> /\ l[s].state \in {"pending", "failed"}
    BY <1>2 DEF Pending, Failed
  <2>2. Cardinality({}) <= MaxSearchLimit
    BY FS_EmptySet, RetrievalAssumption
  <2>3. <<>> \in [{} -> Scores] /\ DOMAIN <<>> = {}
    OBVIOUS
  <2>4. IsList(<<>>, MaxSearchLimit)
    BY <2>2, <2>3 DEF IsList
  <2> QED BY <2>1, <2>3, <2>4
<1>3. CASE \E score : IsList(score, MaxSearchLimit) /\ l[s] = Hits(score)
  BY <1>3 DEF Hits
<1> QED BY <1>1, <1>2, <1>3

LEMMA HitsAreLists ==
  ASSUME NEW score, NEW n \in 0..MaxSearchLimit, IsList(score, n)
  PROVE  Hits(score) \in ListType
<1>1. PICK S \in SUBSET Objects : Cardinality(S) <= n /\ score \in [S -> Scores]
  BY DEF IsList
<1>2. Cardinality(S) \in Nat
  BY RetrievalAssumption, FS_Subset, FS_CardinalityType
<1>3. Cardinality(S) <= MaxSearchLimit
  BY <1>1, <1>2, RetrievalAssumption
<1>4. IsList(score, MaxSearchLimit) /\ score \in UNION {[T -> Scores] : T \in SUBSET Objects}
  BY <1>1, <1>3 DEF IsList
<1> QED BY <1>4 DEF ListType

\* A list of one of the limits that are asked for.
LEMMA ListsOfAreLists ==
  ASSUME NEW n \in Nat, NEW score \in ListsOf(n)
  PROVE  IsList(score, n)
BY DEF ListsOf, IsList

\* The merge keeps the consensus of the lists that came back.
LEMMA MergeAgrees ==
  ASSUME NEW l \in [Retrievers -> ListType],
         NEW f \in Rankings(l["fts"].score), NEW v \in Rankings(l["vector"].score),
         NEW q \in Rankings(Fused([fts |-> f, vector |-> v])),
         Back(l) # {}
  PROVE  [state |-> "hits", order |-> Cut(q)] \in AnswerType /\ Agrees(l, [state |-> "hits", order |-> Cut(q)])
<1> DEFINE s1 == l["fts"].score
           s2 == l["vector"].score
           F == Fused([fts |-> f, vector |-> v])
<1>1. /\ IsList(s1, MaxSearchLimit) /\ IsList(s2, MaxSearchLimit)
      /\ l["fts"].state # "hits" => DOMAIN s1 = {}
      /\ l["vector"].state # "hits" => DOMAIN s2 = {}
  BY ScoresOf DEF Retrievers
<1>2. /\ DOMAIN s1 \subseteq Objects /\ DOMAIN s2 \subseteq Objects
      /\ IsFiniteSet(DOMAIN s1) /\ IsFiniteSet(DOMAIN s2)
  BY <1>1, ListFacts, RetrievalAssumption
<1> HIDE DEF s1, s2
<1>3. /\ DOMAIN F = DOMAIN s1 \union DOMAIN s2
      /\ \A o \in DOMAIN F : F[o] \in Int
      /\ \A x, y \in DOMAIN F :
           (/\ Over(s1, x, y) \/ DOMAIN s1 = {}
            /\ Over(s2, x, y) \/ DOMAIN s2 = {}) => F[x] > F[y]
  BY <1>1, FusedFollowsLists DEF s1, s2
<1> HIDE DEF F
<1>4. IsFiniteSet(DOMAIN F) /\ DOMAIN F \subseteq Objects
  BY <1>2, <1>3, FS_Union
<1>5. q \in Rankings(F)
  BY DEF F
<1>6. Orders(q, DOMAIN F)
  BY <1>4, <1>5, RankingOrders
<1>7. Cut(q) \in Seq(DOMAIN F) /\ \A x \in DOMAIN F, y \in Range(Cut(q)) :
        y \in DOMAIN F /\ (RankIn(q, x) < RankIn(q, y) => Before(Cut(q), x, y))
  BY <1>4, <1>6, CutKeepsOrder
<1>8. ASSUME NEW x \in Objects, NEW y \in Range(Cut(q)), \A s \in Back(l) : Over(l[s].score, x, y)
      PROVE  Before(Cut(q), x, y)
  <2>1. /\ Over(s1, x, y) \/ DOMAIN s1 = {}
        /\ Over(s2, x, y) \/ DOMAIN s2 = {}
        /\ x \in DOMAIN s1 \/ x \in DOMAIN s2
    BY <1>1, <1>8 DEF Back, Retrievers, Over, s1, s2
  <2>2. x \in DOMAIN F
    BY <1>3, <2>1
  <2>3. y \in DOMAIN F
    BY <1>7, <2>2
  <2>4. F[x] > F[y]
    BY <1>3, <2>1, <2>2, <2>3
  <2>5. RankIn(q, x) < RankIn(q, y)
    BY <1>3, <1>4, <1>5, <2>2, <2>3, <2>4, RankFollowsScore
  <2> QED BY <1>7, <2>2, <2>5
<1>9. Cut(q) \in Seq(Objects)
  BY <1>4, <1>7
<1> QED BY <1>8, <1>9 DEF Agrees, AnswerType

Found(score, gone) == [o \in DOMAIN score \ gone |-> score[o]]
Kept(found) == [o \in {p \in DOMAIN found : found[p] >= Threshold} |-> found[o]]
ListsWith(found) == [NoLists EXCEPT !["vector"] = Hits(found)]

\* So does the check for collisions, which asks one retriever: what is over a
\* hit that is close enough is close enough.
LEMMA CollisionAgrees ==
  ASSUME NEW score \in ListsOf(DefaultSearchLimit), NEW gone \in SUBSET DOMAIN score,
         NEW q \in Rankings(Kept(Found(score, gone)))
  PROVE  LET l == ListsWith(Found(score, gone))
             a == [state |-> "hits", order |-> q]
         IN l \in [Retrievers -> ListType] /\ a \in AnswerType /\ Agrees(l, a)
<1> DEFINE found == Found(score, gone)
           kept == Kept(found)
           close == {o \in DOMAIN found : found[o] >= Threshold}
           l == ListsWith(found)
<1>0. found = [o \in DOMAIN score \ gone |-> score[o]]
  BY DEF Found
<1> HIDE DEF found
<1>1. IsList(score, DefaultSearchLimit) /\ DefaultSearchLimit \in 0..MaxSearchLimit /\ DefaultSearchLimit \in Nat
  BY ListsOfAreLists, RetrievalAssumption
<1>2. IsList(found, DefaultSearchLimit)
  <2>1. PICK S \in SUBSET Objects : Cardinality(S) <= DefaultSearchLimit /\ score \in [S -> Scores]
    BY <1>1 DEF IsList
  <2>2. found \in [S \ gone -> Scores]
    BY <1>0, <2>1
  <2>3. IsFiniteSet(S) /\ Cardinality(S) \in Nat
    BY FS_Subset, FS_CardinalityType, RetrievalAssumption
  <2>4. Cardinality(S \ gone) <= Cardinality(S) /\ Cardinality(S \ gone) \in Nat
    BY <2>3, FS_Subset, FS_CardinalityType
  <2>5. Cardinality(S \ gone) <= DefaultSearchLimit
    BY <1>1, <2>1, <2>3, <2>4
  <2> QED BY <2>2, <2>5 DEF IsList
<1>3. /\ DOMAIN found \subseteq Objects /\ IsFiniteSet(DOMAIN found)
      /\ \A o \in DOMAIN found : found[o] \in Int
  BY <1>1, <1>2, ListFacts
<1>4. Hits(found) \in ListType /\ Pending \in ListType
  BY <1>1, <1>2, HitsAreLists DEF ListType
<1>5. l["fts"] = Pending /\ l["vector"] = Hits(found) /\ l \in [Retrievers -> ListType]
  BY <1>4 DEF NoLists, Retrievers, ListsWith
<1> HIDE DEF l
<1>6. DOMAIN kept = close /\ close \subseteq DOMAIN found /\ \A o \in close : kept[o] = found[o]
  BY DEF Kept
<1> HIDE DEF kept
<1>7. IsFiniteSet(DOMAIN kept) /\ \A o \in DOMAIN kept : kept[o] \in Int
  BY <1>3, <1>6, FS_Subset
<1>8. q \in Rankings(kept)
  BY DEF kept, found
<1>9. Orders(q, close) /\ Range(q) = close
  BY <1>6, <1>7, <1>8, RankingOrders, RankOf
<1>10. q \in Seq(Objects)
  <2>1. Cardinality(close) \in Nat /\ q \in [1..Cardinality(close) -> close]
    BY <1>6, <1>7, <1>9, FS_CardinalityType DEF Orders
  <2>2. PICK n \in Nat : n = Cardinality(close)
    BY <2>1
  <2>3. q \in [1..n -> Objects]
    BY <1>3, <1>6, <2>1, <2>2
  <2> QED BY <2>3
<1>11. Back(l) = {"vector"} /\ l["vector"].score = found
  BY <1>5 DEF Back, Retrievers, Pending, Hits
<1>12. ASSUME NEW x \in Objects, NEW y \in Range(q), Over(found, x, y)
       PROVE  Before(q, x, y)
  <2>1. y \in close /\ x \in DOMAIN found /\ found[x] > found[y]
    BY <1>6, <1>9, <1>12 DEF Over
  <2>2. x \in close
    BY <1>3, <2>1, RetrievalAssumption
  <2>3. RankIn(q, x) < RankIn(q, y)
    BY <1>6, <1>7, <1>8, <2>1, <2>2, RankFollowsScore
  <2> QED BY <1>9, <2>2, <2>3 DEF Before
<1> DEFINE a == [state |-> "hits", order |-> q]
<1>13. a \in AnswerType /\ a.state = "hits" /\ a.order = q
  BY <1>10 DEF AnswerType
<1> HIDE DEF a
<1>14. \A x \in Objects, y \in Range(a.order) :
         (Back(l) # {} /\ \A s \in Back(l) : Over(l[s].score, x, y)) => Before(a.order, x, y)
  BY <1>11, <1>12, <1>13
<1>15. Agrees(l, a)
  BY <1>13, <1>14 DEF Agrees
<1> QED BY <1>5, <1>13, <1>15 DEF a, l, found

\* A step of one request.
LEMMA CallKeeps ==
  ASSUME RetrievalInv, NEW r \in Calls, NEW p, NEW l, NEW a, CallInv(p, l, a),
         phase' = [phase EXCEPT ![r] = p], lists' = [lists EXCEPT ![r] = l], answer' = [answer EXCEPT ![r] = a]
  PROVE  RetrievalInv'
<1>1. /\ phase' = [q \in Calls |-> phase'[q]] /\ lists' = [q \in Calls |-> lists'[q]]
      /\ answer' = [q \in Calls |-> answer'[q]]
  BY DEF RetrievalInv
<1>2. ASSUME NEW q \in Calls
      PROVE  CallInv(phase'[q], lists'[q], answer'[q])
  <2>1. CASE q = r
    <3>1. phase'[q] = p /\ lists'[q] = l /\ answer'[q] = a
      BY <2>1 DEF RetrievalInv
    <3> QED BY <3>1
  <2>2. CASE q # r
    <3>1. phase'[q] = phase[q] /\ lists'[q] = lists[q] /\ answer'[q] = answer[q]
      BY <2>2 DEF RetrievalInv
    <3> QED BY <3>1 DEF RetrievalInv
  <2> QED BY <2>1, <2>2
<1> QED BY <1>1, <1>2 DEF RetrievalInv

\* What a request has stays as it is where a step does not touch it.
LEMMA SameOf ==
  ASSUME RetrievalInv, NEW r \in Calls
  PROVE  /\ phase = [phase EXCEPT ![r] = phase[r]] /\ lists = [lists EXCEPT ![r] = lists[r]]
         /\ answer = [answer EXCEPT ![r] = answer[r]]
         /\ CallInv(phase[r], lists[r], answer[r])
BY DEF RetrievalInv

LEMMA NoListsType == NoLists \in [Retrievers -> ListType] /\ Back(NoLists) = {}
BY DEF NoLists, ListType, Back, Pending

LEMMA BeginKeeps ==
  ASSUME RetrievalInv, NEW r \in Calls, NEW kind \in {"search", "collision", "refused"}, Begin(r, kind)
  PROVE  RetrievalInv'
<1>1. CallInv(kind, lists[r], answer[r])
  BY SameOf DEF Begin, CallInv
<1>2. /\ phase' = [phase EXCEPT ![r] = kind] /\ lists' = [lists EXCEPT ![r] = lists[r]]
      /\ answer' = [answer EXCEPT ![r] = answer[r]]
  BY SameOf DEF Begin
<1> QED BY <1>1, <1>2, CallKeeps

LEMMA FinishKeeps ==
  ASSUME RetrievalInv, NEW r \in Calls, Finish(r)
  PROVE  RetrievalInv'
<1> DEFINE a == [state |-> "none"]
<1>1. CallInv("idle", NoLists, a)
  BY NoListsType DEF CallInv, AnswerType
<1>2. /\ phase' = [phase EXCEPT ![r] = "idle"] /\ lists' = [lists EXCEPT ![r] = NoLists]
      /\ answer' = [answer EXCEPT ![r] = a]
  BY DEF Finish
<1> HIDE DEF a
<1> QED BY <1>1, <1>2, CallKeeps

LEMMA AnswersKeeps ==
  ASSUME RetrievalInv, NEW r \in Calls, NEW s \in Retrievers, NEW list \in ListType, Answers(r, s, list)
  PROVE  RetrievalInv'
<1> DEFINE l == [lists[r] EXCEPT ![s] = list]
<1>1. CallInv(phase[r], lists[r], answer[r]) /\ phase[r] = "search"
  BY SameOf DEF Answers
<1>2. l \in [Retrievers -> ListType]
  BY <1>1 DEF CallInv
<1>3. lists' = [lists EXCEPT ![r] = l]
  BY DEF Answers
<1> HIDE DEF l
<1>4. CallInv(phase[r], l, answer[r])
  BY <1>1, <1>2 DEF CallInv
<1>5. phase' = [phase EXCEPT ![r] = phase[r]] /\ answer' = [answer EXCEPT ![r] = answer[r]]
  BY SameOf DEF Answers
<1> QED BY <1>3, <1>4, <1>5, CallKeeps

LEMMA SearchKeeps ==
  ASSUME RetrievalInv, NEW r \in Calls, SearchFullText(r) \/ SearchVectors(r)
  PROVE  RetrievalInv'
<1>1. Failed \in ListType /\ "fts" \in Retrievers /\ "vector" \in Retrievers
  BY DEF ListType, Retrievers
<1>2. \A n \in 0..MaxSearchLimit : \A score \in ListsOf(n) : Hits(score) \in ListType
  BY ListsOfAreLists, HitsAreLists, RetrievalAssumption
<1>3. CASE SearchFullText(r)
  <2>1. \A limit \in 0..(MaxSearchLimit + 1) : Clamp(limit) \in 0..MaxSearchLimit
    BY RetrievalAssumption DEF Clamp
  <2> QED BY <1>1, <1>2, <1>3, <2>1, AnswersKeeps DEF SearchFullText
<1>4. CASE SearchVectors(r)
  <2>1. DefaultSearchLimit \in 0..MaxSearchLimit
    BY RetrievalAssumption
  <2>2. PICK list \in ListType : Answers(r, "vector", list)
    BY <1>1, <1>2, <1>4, <2>1 DEF SearchVectors
  <2> QED BY <1>1, <2>2, AnswersKeeps
<1> QED BY <1>3, <1>4

LEMMA RespondKeeps ==
  ASSUME RetrievalInv, NEW r \in Calls, NEW l, NEW a \in AnswerType, l \in [Retrievers -> ListType], Agrees(l, a),
         Respond(r, a), lists' = [lists EXCEPT ![r] = l]
  PROVE  RetrievalInv'
<1>1. CallInv("done", l, a)
  BY DEF CallInv
<1> QED BY <1>1, CallKeeps DEF Respond

LEMMA ErrorsAgree ==
  ASSUME NEW l, Back(l) = {}
  PROVE  [state |-> "error"] \in AnswerType /\ Agrees(l, [state |-> "error"])
BY DEF AnswerType, Agrees

LEMMA MergeKeeps ==
  ASSUME RetrievalInv, NEW r \in Calls, Merge(r)
  PROVE  RetrievalInv'
<1>1. lists[r] \in [Retrievers -> ListType] /\ lists' = [lists EXCEPT ![r] = lists[r]]
  BY SameOf DEF CallInv, Merge
<1>2. Back(lists[r]) = Returned(r)
  BY DEF Back, Returned
<1>3. CASE GivesUp(r) /\ Respond(r, [state |-> "error"])
  <2>1. Back(lists[r]) = {}
    BY <1>2, <1>3 DEF GivesUp
  <2> QED BY <1>1, <1>3, <2>1, ErrorsAgree, RespondKeeps
<1>4. CASE ~ GivesUp(r)
  <2>1. Back(lists[r]) # {}
    BY <1>2, <1>4 DEF GivesUp
  <2>2. PICK f \in Rankings(lists[r]["fts"].score), v \in Rankings(lists[r]["vector"].score) :
          \E q \in Rankings(Fused([fts |-> f, vector |-> v])) : Respond(r, [state |-> "hits", order |-> Cut(q)])
    BY <1>4 DEF Merge
  <2>3. PICK q \in Rankings(Fused([fts |-> f, vector |-> v])) : Respond(r, [state |-> "hits", order |-> Cut(q)])
    BY <2>2
  <2> DEFINE a == [state |-> "hits", order |-> Cut(q)]
  <2>4. a \in AnswerType /\ Agrees(lists[r], a)
    BY <1>1, <2>1, MergeAgrees
  <2>5. Respond(r, a)
    BY <2>3
  <2> HIDE DEF a
  <2> QED BY <1>1, <2>4, <2>5, RespondKeeps
<1> QED BY <1>3, <1>4 DEF Merge

LEMMA CheckCollisionKeeps ==
  ASSUME RetrievalInv, NEW r \in Calls, CheckCollision(r)
  PROVE  RetrievalInv'
<1>1. lists[r] = NoLists
  BY SameOf DEF CallInv, CheckCollision
<1>2. CASE Respond(r, [state |-> "error"]) /\ UNCHANGED lists
  <2>1. lists' = [lists EXCEPT ![r] = NoLists]
    BY <1>1, <1>2, SameOf
  <2> QED BY <1>2, <2>1, NoListsType, ErrorsAgree, RespondKeeps
<1>3. CASE ~ (Respond(r, [state |-> "error"]) /\ UNCHANGED lists)
  <2>1. PICK score \in ListsOf(DefaultSearchLimit) : \E gone \in SUBSET DOMAIN score :
          LET found == [o \in DOMAIN score \ gone |-> score[o]]
              close == {o \in DOMAIN found : found[o] >= Threshold} IN
          /\ lists' = [lists EXCEPT ![r]["vector"] = Hits(found)]
          /\ \E q \in Rankings([o \in close |-> found[o]]) :
               Respond(r, [state |-> "hits", order |-> q])
    BY <1>3 DEF CheckCollision
  <2>2. PICK gone \in SUBSET DOMAIN score :
          LET found == [o \in DOMAIN score \ gone |-> score[o]]
              close == {o \in DOMAIN found : found[o] >= Threshold} IN
          /\ lists' = [lists EXCEPT ![r]["vector"] = Hits(found)]
          /\ \E q \in Rankings([o \in close |-> found[o]]) :
               Respond(r, [state |-> "hits", order |-> q])
    BY <2>1
  <2>3. PICK q \in Rankings(Kept(Found(score, gone))) :
          /\ lists' = [lists EXCEPT ![r]["vector"] = Hits(Found(score, gone))]
          /\ Respond(r, [state |-> "hits", order |-> q])
    BY <2>2 DEF Found, Kept
  <2>4. PICK l : l = ListsWith(Found(score, gone))
    OBVIOUS
  <2>5. PICK a : a = [state |-> "hits", order |-> q]
    OBVIOUS
  <2>6. l \in [Retrievers -> ListType] /\ a \in AnswerType /\ Agrees(l, a)
    BY <2>4, <2>5, CollisionAgrees
  <2>7. lists' = [lists EXCEPT ![r] = l]
    BY <1>1, <2>3, <2>4 DEF ListsWith
  <2>8. Respond(r, a)
    BY <2>3, <2>5
  <2> QED BY <2>6, <2>7, <2>8, RespondKeeps
<1> QED BY <1>2, <1>3

LEMMA RetrievalKeeps == RetrievalInv /\ [Next]_vars => RetrievalInv'
<1> SUFFICES ASSUME RetrievalInv, [Next]_vars PROVE RetrievalInv'
  OBVIOUS
<1>1. CASE UNCHANGED retrievalVars
  BY <1>1 DEF retrievalVars, RetrievalInv
<1>2. ASSUME NEW r \in Calls, Unauthorized(r) \/ Answer(r)
      PROVE  RetrievalInv'
  BY <1>2, BeginKeeps, SearchKeeps, MergeKeeps, CheckCollisionKeeps, FinishKeeps DEF Unauthorized, Answer
<1>3. ASSUME NEW r \in Calls, NEW c \in Clients, TooMany(r, c) \/ BadRequest(r, c) \/ Serve(r, c)
      PROVE  RetrievalInv'
  BY <1>3, BeginKeeps DEF TooMany, BadRequest, Serve
<1>4. CASE Background \/ UNCHANGED vars
  BY <1>1, <1>4 DEF Background, vars
<1> QED BY <1>2, <1>3, <1>4 DEF Next

LEMMA RetrievalInitInv == Init => RetrievalInv
<1> SUFFICES ASSUME Init PROVE RetrievalInv
  OBVIOUS
<1>1. \A r \in Calls : phase[r] = "idle" /\ lists[r] = NoLists /\ answer[r] = [state |-> "none"]
  BY DEF Init, RetrievalInit
<1>2. [state |-> "none"] \in AnswerType
  BY DEF AnswerType
<1>3. \A r \in Calls : CallInv(phase[r], lists[r], answer[r])
  BY <1>1, <1>2, NoListsType DEF CallInv
<1> QED BY <1>3 DEF Init, RetrievalInit, RetrievalInv

\* Whatever the requests, the retrievers' failures, the ties and the limits,
\* the lists a request has are those it was sent, and its answer agrees with
\* them.
THEOREM RetrievalInvHolds == Spec => []RetrievalInv
<1> QED BY RetrievalInitInv, RetrievalKeeps, PTL DEF Spec

\* Reciprocal rank fusion, the cut to the limit and the threshold never
\* contradict what the retrievers that answered agree on.
THEOREM ConsensusIsKept == Spec => []AnswersKeepTheConsensus
<1>1. RetrievalInv => AnswersKeepTheConsensus
  <2> SUFFICES ASSUME RetrievalInv, NEW r \in Calls, phase[r] = "done"
               PROVE  /\ answer[r].state = "error" => Returned(r) = {}
                      /\ answer[r].state = "hits" =>
                           \A x \in Objects, y \in Range(answer[r].order) :
                             Prefers(r, x, y) => Before(answer[r].order, x, y)
    BY DEF AnswersKeepTheConsensus
  <2>1. Agrees(lists[r], answer[r]) /\ Back(lists[r]) = Returned(r)
    BY DEF RetrievalInv, CallInv, Back, Returned
  <2> QED BY <2>1 DEF Agrees, Prefers, Over
<1> QED BY <1>1, RetrievalInvHolds, PTL

-----------------------------------------------------------------------------
(* The pages of GET /v1/backlog, which /backlog in Telegram shows too:     *)
(* HumanBacklog, for a backlog of any length.                              *)

\* The rows that come before o.
Above(rows, o) == {p \in rows : Less(Position(o), Position(p))}

\* A set of numbers that is not empty has a least one.
LEMMA LeastNumber ==
  ASSUME NEW T \in SUBSET Nat, T # {}
  PROVE  \E x \in T : \A y \in T : x <= y
<1>1. PICK x \in T : \A y \in T : ~ (<<y, x>> \in OpToRel(<, Nat))
  BY NatLessThanWellFounded, WFMin, Zenon
<1>2. ASSUME NEW y \in T, y < x PROVE FALSE
  <2>1. <<y, x>> \in OpToRel(<, Nat)
    BY <1>2 DEF OpToRel
  <2> QED BY <1>1, <2>1
<1>3. \A y \in T : y \in Nat /\ x \in Nat
  OBVIOUS
<1> QED BY <1>2, <1>3

\* Positions are a strict order of the rows, because no two have one id.
LEMMA PositionsAreOrdered ==
  ASSUME stamp \in [Items -> Nat]
  PROVE  /\ \A o \in Items : Position(o) \in Nat \X Nat
         /\ \A o, p \in Items : o # p => Less(Position(o), Position(p)) \/ Less(Position(p), Position(o))
         /\ \A o \in Items : ~ Less(Position(o), Position(o))
         /\ \A x, y, z \in Nat \X Nat : Less(x, y) /\ Less(y, z) => Less(x, z)
<1>1. \A o \in Items : Position(o) \in Nat \X Nat /\ Position(o)[1] = stamp[o] /\ Position(o)[2] = o /\ o \in Nat /\ stamp[o] \in Nat
  BY BacklogAssumption DEF Position
<1>2. \A o, p \in Items : o # p => Less(Position(o), Position(p)) \/ Less(Position(p), Position(o))
  BY <1>1 DEF Less
<1>3. \A o \in Items : ~ Less(Position(o), Position(o))
  <2> SUFFICES ASSUME NEW o \in Items PROVE ~ Less(Position(o), Position(o))
    OBVIOUS
  <2>1. Position(o)[1] \in Nat /\ Position(o)[2] \in Nat
    BY <1>1
  <2> QED BY <2>1 DEF Less
<1>4. \A x, y, z \in Nat \X Nat : Less(x, y) /\ Less(y, z) => Less(x, z)
  <2> SUFFICES ASSUME NEW x \in Nat \X Nat, NEW y \in Nat \X Nat, NEW z \in Nat \X Nat, Less(x, y), Less(y, z)
               PROVE  Less(x, z)
    OBVIOUS
  <2>1. x[1] \in Nat /\ x[2] \in Nat /\ y[1] \in Nat /\ y[2] \in Nat /\ z[1] \in Nat /\ z[2] \in Nat
    OBVIOUS
  <2> QED BY <2>1 DEF Less
<1> QED BY <1>1, <1>2, <1>3, <1>4

\* The number of rows before a row: a later row has more.
LEMMA AboveCounts ==
  ASSUME stamp \in [Items -> Nat], NEW rows \in SUBSET Items
  PROVE  /\ \A o \in rows : Cardinality(Above(rows, o)) \in Nat /\ Cardinality(Above(rows, o)) < Cardinality(rows)
         /\ \A o, p \in rows : Less(Position(o), Position(p)) =>
              Cardinality(Above(rows, p)) < Cardinality(Above(rows, o))
<1>1. IsFiniteSet(rows) /\ Cardinality(rows) \in Nat
  BY BacklogAssumption, FS_Subset, FS_CardinalityType
<1>2. ASSUME NEW S \in SUBSET rows, NEW x \in rows \ S, NEW U \in SUBSET rows, S \subseteq U, x \in U
      PROVE  Cardinality(S) \in Nat /\ Cardinality(S) < Cardinality(U)
  <2>1. IsFiniteSet(U) /\ IsFiniteSet(S)
    BY <1>1, <1>2, FS_Subset
  <2>2. Cardinality(S) \in Nat /\ Cardinality(U) \in Nat
    BY <2>1, FS_CardinalityType
  <2>3. Cardinality(S) <= Cardinality(U) /\ (Cardinality(U) = Cardinality(S) => U = S)
    BY <2>1, <1>2, FS_Subset
  <2> QED BY <1>2, <2>2, <2>3
<1>3. ASSUME NEW o \in rows
      PROVE  Cardinality(Above(rows, o)) \in Nat /\ Cardinality(Above(rows, o)) < Cardinality(rows)
  <2>1. Above(rows, o) \in SUBSET rows /\ o \in rows \ Above(rows, o)
    BY PositionsAreOrdered DEF Above
  <2> QED BY <2>1, <1>2
<1>4. ASSUME NEW o \in rows, NEW p \in rows, Less(Position(o), Position(p))
      PROVE  Cardinality(Above(rows, p)) < Cardinality(Above(rows, o))
  <2>1. Above(rows, p) \in SUBSET rows /\ Above(rows, o) \in SUBSET rows /\ p \in rows \ Above(rows, p)
    BY PositionsAreOrdered DEF Above
  <2>2. p \in Above(rows, o)
    BY <1>4 DEF Above
  <2>3. \A q \in Above(rows, p) : Less(Position(o), Position(q))
    <3> SUFFICES ASSUME NEW q \in Above(rows, p) PROVE Less(Position(o), Position(q))
      OBVIOUS
    <3>1. q \in rows /\ Less(Position(p), Position(q))
      BY DEF Above
    <3>2. Position(o) \in Nat \X Nat /\ Position(p) \in Nat \X Nat /\ Position(q) \in Nat \X Nat
      BY <3>1, PositionsAreOrdered
    <3> QED BY <3>1, <3>2, <1>4, PositionsAreOrdered
  <2>4. Above(rows, p) \subseteq Above(rows, o)
    BY <2>3 DEF Above
  <2> QED BY <2>1, <2>2, <2>4, <1>2
<1> QED BY <1>3, <1>4

\* A page is cut from the rows after its last one, and is empty only when there
\* are no rows.
LEMMA PageIsCut ==
  ASSUME stamp \in [Items -> Nat], NEW cursor, NEW n \in Nat \ {0}, Matching(cursor) # {}
  PROVE  \E m \in Page(cursor, n) :
           /\ \A p \in Page(cursor, n) : ~ Less(Position(p), Position(m))
           /\ \A o \in Matching(cursor) \ Page(cursor, n) : \A p \in Page(cursor, n) : Less(Position(o), Position(p))
<1> DEFINE rows == Matching(cursor)
           before(o) == Cardinality(Above(rows, o))
<1>1. rows \in SUBSET Items
  BY DEF Matching, NeedsHuman
<1>2. /\ Page(cursor, n) = {o \in rows : before(o) < n}
      /\ \A o \in rows : before(o) \in Nat
      /\ \A o, p \in rows : Less(Position(o), Position(p)) => before(p) < before(o)
  BY <1>1, AboveCounts DEF Page, Above
<1> HIDE DEF before
<1>3. \A o \in rows \ Page(cursor, n) : \A p \in Page(cursor, n) : Less(Position(o), Position(p))
  <2> SUFFICES ASSUME NEW o \in rows \ Page(cursor, n), NEW p \in Page(cursor, n)
               PROVE  Less(Position(o), Position(p))
    OBVIOUS
  <2>1. o \in rows /\ p \in rows /\ before(p) < n /\ ~ (before(o) < n) /\ before(o) \in Nat /\ before(p) \in Nat
    BY <1>2
  <2>2. ~ (before(o) < before(p)) /\ o # p
    BY <2>1
  <2>3. ~ Less(Position(p), Position(o))
    BY <1>2, <2>1, <2>2
  <2>4. o \in Items /\ p \in Items
    BY <1>1, <2>1
  <2> QED BY <2>2, <2>3, <2>4, PositionsAreOrdered
<1>4. Page(cursor, n) # {}
  <2>1. PICK x \in {before(o) : o \in rows} : \A y \in {before(o) : o \in rows} : x <= y
    <3>1. {before(o) : o \in rows} \in SUBSET Nat /\ {before(o) : o \in rows} # {}
      BY <1>2
    <3> QED BY <3>1, LeastNumber
  <2>2. PICK o \in rows : \A p \in rows : before(o) <= before(p)
    BY <2>1
  <2>3. \A p \in rows : ~ Less(Position(o), Position(p))
    BY <1>2, <2>2
  <2>4. Above(rows, o) = {}
    BY <2>3 DEF Above
  <2>5. before(o) = 0
    BY <2>4, FS_EmptySet DEF before
  <2> QED BY <1>2, <2>5
<1>5. \E m \in Page(cursor, n) : \A p \in Page(cursor, n) : ~ Less(Position(p), Position(m))
  <2>1. \A o \in Page(cursor, n) : o \in rows /\ before(o) \in Nat /\ before(o) < n /\ n - before(o) \in Nat
    BY <1>2
  <2>2. PICK x \in {n - before(o) : o \in Page(cursor, n)} : \A y \in {n - before(o) : o \in Page(cursor, n)} : x <= y
    <3>1. {n - before(o) : o \in Page(cursor, n)} \in SUBSET Nat /\ {n - before(o) : o \in Page(cursor, n)} # {}
      BY <1>4, <2>1
    <3> QED BY <3>1, LeastNumber
  <2>3. PICK m \in Page(cursor, n) : \A p \in Page(cursor, n) : n - before(m) <= n - before(p)
    BY <2>2
  <2>4. \A p \in Page(cursor, n) : ~ (before(m) < before(p))
    BY <2>1, <2>3
  <2> QED BY <1>2, <2>1, <2>4
<1> QED BY <1>3, <1>5

\* What the cursor of the next page says: it is absent when the page has all the
\* rows; else the rows that are left are those that come after it, and nothing
\* that was passed before is among them.
LEMMA CursorSplits ==
  ASSUME stamp \in [Items -> Nat], NEW cursor \in (Nat \X Nat) \union {NoCursor}, NEW n \in Nat \ {0}
  PROVE  LET next == NextCursor(cursor, n)
         IN /\ Page(cursor, n) \subseteq Matching(cursor)
            /\ next = NoCursor => Page(cursor, n) = Matching(cursor)
            /\ next # NoCursor =>
                 /\ next \in Nat \X Nat
                 /\ \A o \in Matching(cursor) : o \in Page(cursor, n) <=> ~ Less(Position(o), next)
                 /\ \A o \in Items : cursor # NoCursor /\ ~ Less(Position(o), cursor) => ~ Less(Position(o), next)
<1> DEFINE rows == Matching(cursor)
           page == Page(cursor, n)
           next == NextCursor(cursor, n)
<1>1. rows \in SUBSET Items /\ page \subseteq rows
  BY DEF Matching, NeedsHuman, Page
<1>2. IsFiniteSet(rows) /\ Cardinality(rows) \in Nat
  BY BacklogAssumption, <1>1, FS_Subset, FS_CardinalityType
<1>3. \A x : <<x, x>> # NoCursor /\ \A o : Position(o) # NoCursor
  BY DEF NoCursor, Position
<1>4. CASE Cardinality(rows) <= n
  <2>1. next = NoCursor
    BY <1>4 DEF NextCursor
  <2>2. \A o \in rows : Cardinality(Above(rows, o)) < n
    BY <1>1, <1>2, <1>4, AboveCounts
  <2>3. page = rows
    BY <2>2 DEF Page, Above
  <2> QED BY <1>1, <2>1, <2>3
<1>5. CASE ~ (Cardinality(rows) <= n)
  <2> DEFINE m == CHOOSE o \in page : \A p \in page : ~ Less(Position(p), Position(o))
  <2>1. next = Position(m)
    BY <1>5 DEF NextCursor
  <2>2. rows # {}
    BY <1>2, <1>5, FS_EmptySet
  <2>3. /\ \E o \in page : \A p \in page : ~ Less(Position(p), Position(o))
        /\ \A o \in rows \ page : \A p \in page : Less(Position(o), Position(p))
    BY <2>2, PageIsCut
  <2>4. m \in page /\ \A p \in page : ~ Less(Position(p), Position(m))
    BY <2>3
  <2> HIDE DEF m
  <2>5. m \in Items /\ next \in Nat \X Nat /\ next # NoCursor
    BY <1>1, <1>3, <2>1, <2>4, PositionsAreOrdered
  <2>6. \A o \in rows : o \in page <=> ~ Less(Position(o), next)
    BY <2>1, <2>3, <2>4
  <2>7. ASSUME NEW o \in Items, cursor # NoCursor, ~ Less(Position(o), cursor), Less(Position(o), next)
        PROVE  FALSE
    <3>1. Less(next, cursor)
      BY <1>1, <2>1, <2>4, <2>7 DEF Matching
    <3>2. Position(o) \in Nat \X Nat /\ cursor \in Nat \X Nat
      BY <2>7, PositionsAreOrdered
    <3> QED BY <2>5, <2>7, <3>1, <3>2, PositionsAreOrdered
  <2> QED BY <1>1, <2>5, <2>6, <2>7
<1> QED BY <1>4, <1>5

\* The types of the walk.
WalkTypeOK ==
  /\ status \in [Items -> Statuses \union {Absent}]
  /\ stamp \in [Items -> Nat]
  /\ now \in Nat
  /\ began \in [Updates -> Nat]
  /\ walk \in [pc : {"idle", "walking", "ended"}, cursor : (Nat \X Nat) \union {NoCursor},
               shown : [Items -> Nat], kept : SUBSET Items]

\* What nobody touched is still pending, and has been shown if the cursor has
\* passed it and not otherwise.
WalkInv ==
  /\ WalkTypeOK
  /\ walk.kept \subseteq NeedsHuman
  /\ walk.pc = "idle" => walk.kept = {} /\ walk.cursor = NoCursor /\ \A o \in Items : walk.shown[o] = 0
  /\ walk.pc = "walking" =>
       /\ walk.cursor # NoCursor
       /\ \A o \in walk.kept : walk.shown[o] = IF Less(Position(o), walk.cursor) THEN 0 ELSE 1
  /\ walk.pc = "ended" => \A o \in walk.kept : walk.shown[o] = 1

LEMMA PageKeeps ==
  ASSUME WalkInv, NEW n \in Nat, ListHumanBacklog(n)
  PROVE  WalkInv'
<1> DEFINE size == PageSize(n)
           next == NextCursor(walk.cursor, size)
           kept == IF walk.pc = "idle" THEN NeedsHuman ELSE walk.kept
<1>1. size \in Nat \ {0}
  BY BacklogAssumption DEF PageSize
<1>2. /\ stamp \in [Items -> Nat] /\ walk.cursor \in (Nat \X Nat) \union {NoCursor}
      /\ walk.shown \in [Items -> Nat]
  BY DEF WalkInv, WalkTypeOK
<1>3. /\ Page(walk.cursor, size) \subseteq Matching(walk.cursor)
      /\ next = NoCursor => Page(walk.cursor, size) = Matching(walk.cursor)
      /\ next # NoCursor =>
           /\ next \in Nat \X Nat
           /\ \A o \in Matching(walk.cursor) : o \in Page(walk.cursor, size) <=> ~ Less(Position(o), next)
           /\ \A o \in Items : walk.cursor # NoCursor /\ ~ Less(Position(o), walk.cursor) => ~ Less(Position(o), next)
  BY <1>1, <1>2, CursorSplits
<1>4. /\ walk'.pc = IF next = NoCursor THEN "ended" ELSE "walking"
      /\ walk'.cursor = next
      /\ walk'.shown = [o \in Items |-> walk.shown[o] + IF o \in Page(walk.cursor, size) THEN 1 ELSE 0]
      /\ walk'.kept = kept
      /\ walk' = [pc |-> walk'.pc, cursor |-> walk'.cursor, shown |-> walk'.shown, kept |-> walk'.kept]
      /\ walk.pc # "ended"
      /\ UNCHANGED <<status, stamp, aged, now, began>>
  BY DEF ListHumanBacklog
<1>5. kept \subseteq NeedsHuman /\ kept \subseteq Items
  BY DEF WalkInv, NeedsHuman
<1>6. \A o \in kept : walk.shown[o] = IF o \in Matching(walk.cursor) THEN 0 ELSE 1
  BY <1>4, <1>5 DEF WalkInv, WalkTypeOK, Matching
<1> HIDE DEF size, next, kept
<1>7. walk'.shown \in [Items -> Nat]
  BY <1>2, <1>4
<1>8. \A o \in kept : walk'.shown[o] = walk.shown[o] + IF o \in Page(walk.cursor, size) THEN 1 ELSE 0
  BY <1>4, <1>5
<1>9. NeedsHuman' = NeedsHuman
  BY <1>4 DEF NeedsHuman
<1>10. CASE next = NoCursor
  <2>1. \A o \in kept : walk'.shown[o] = 1
    BY <1>3, <1>6, <1>8, <1>10
  <2> QED BY <1>4, <1>5, <1>7, <1>9, <1>10, <2>1 DEF WalkInv, WalkTypeOK
<1>11. CASE next # NoCursor
  <2>1. \A o \in kept : walk'.shown[o] = IF Less(Position(o), next) THEN 0 ELSE 1
    <3> SUFFICES ASSUME NEW o \in kept PROVE walk'.shown[o] = IF Less(Position(o), next) THEN 0 ELSE 1
      OBVIOUS
    <3>1. CASE o \in Matching(walk.cursor)
      BY <1>3, <1>6, <1>8, <1>11, <3>1
    <3>2. CASE o \notin Matching(walk.cursor)
      <4>1. walk.cursor # NoCursor /\ ~ Less(Position(o), walk.cursor) /\ o \in Items
        BY <1>5, <3>2 DEF Matching
      <4> QED BY <1>3, <1>6, <1>8, <1>11, <3>2, <4>1
    <3> QED BY <3>1, <3>2
  <2> QED BY <1>3, <1>4, <1>5, <1>7, <1>9, <1>11, <2>1 DEF WalkInv, WalkTypeOK, Position
<1> QED BY <1>10, <1>11

\* What others do: they touch what they change, and what appears was not pending.
LEMMA OthersKeep ==
  ASSUME WalkInv, walk' = walk \/ (\E o \in Items : Touched(o)),
         status' \in [Items -> Statuses \union {Absent}],
         stamp' \in [Items -> Nat], now' \in Nat, began' \in [Updates -> Nat],
         \A o \in walk'.kept : o \in NeedsHuman => o \in NeedsHuman' /\ stamp'[o] = stamp[o]
  PROVE  WalkInv'
<1>1. /\ walk'.pc = walk.pc /\ walk'.cursor = walk.cursor /\ walk'.shown = walk.shown
      /\ walk'.kept \subseteq walk.kept
      /\ walk' \in [pc : {"idle", "walking", "ended"}, cursor : (Nat \X Nat) \union {NoCursor},
                    shown : [Items -> Nat], kept : SUBSET Items]
  BY DEF WalkInv, WalkTypeOK, Touched
<1>2. \A o \in walk'.kept : Position(o)' = Position(o)
  BY <1>1 DEF WalkInv, Position
<1>3. walk'.kept \subseteq NeedsHuman'
  BY <1>1 DEF WalkInv
<1>4. WalkTypeOK'
  BY <1>1 DEF WalkInv, WalkTypeOK
<1> QED BY <1>1, <1>2, <1>3, <1>4 DEF WalkInv

LEMMA WalkStep ==
  WalkInv /\ [BacklogNext]_backlogVars => WalkInv'
<1> SUFFICES ASSUME WalkInv, [BacklogNext]_backlogVars PROVE WalkInv'
  OBVIOUS
<1>1. ASSUME NEW n \in 0 .. MaxPageSize + 1, ListHumanBacklog(n) PROVE WalkInv'
  BY BacklogAssumption, <1>1, PageKeeps
<1>2. ASSUME NEW o \in Items, Age(o) PROVE WalkInv'
  BY <1>2, OthersKeep DEF Age, Touched, WalkInv, WalkTypeOK, NeedsHuman
<1>3. ASSUME NEW o \in Items, NEW s \in Statuses, Ingest(o, s) PROVE WalkInv'
  BY <1>3, OthersKeep DEF Ingest, Starts, WalkInv, WalkTypeOK, NeedsHuman, Absent, Statuses
<1>4. ASSUME NEW u \in Updates, BeginUpdate(u) PROVE WalkInv'
  BY <1>4, OthersKeep DEF BeginUpdate, Starts, WalkInv, WalkTypeOK, NeedsHuman
<1>5. ASSUME NEW u \in Updates, NEW op \in Operations, NEW o \in Items, NEW s \in Statuses, Update(u, op, o, s)
      PROVE  WalkInv'
  <2>1. /\ stamp' = [stamp EXCEPT ![o] = began[u]] /\ began' = [began EXCEPT ![u] = 0]
        /\ status' = [status EXCEPT ![o] = s] /\ Touched(o) /\ UNCHANGED <<aged, now>>
    BY <1>5 DEF Update
  <2>2. /\ stamp' \in [Items -> Nat] /\ began' \in [Updates -> Nat] /\ now' \in Nat
        /\ status' \in [Items -> Statuses \union {Absent}]
    BY <2>1 DEF WalkInv, WalkTypeOK
  <2>3. walk'.kept = walk.kept \ {o}
    BY <2>1 DEF Touched, WalkInv, WalkTypeOK
  <2>4. \A p \in walk'.kept : p # o /\ p \in Items
    BY <2>3 DEF WalkInv, WalkTypeOK
  <2>5. \A p \in walk'.kept : p \in NeedsHuman => p \in NeedsHuman' /\ stamp'[p] = stamp[p]
    BY <2>1, <2>4 DEF NeedsHuman, WalkInv, WalkTypeOK
  <2> QED BY <2>1, <2>2, <2>5, OthersKeep
<1>6. CASE UNCHANGED backlogVars
  BY <1>6, OthersKeep DEF backlogVars, WalkInv, WalkTypeOK, NeedsHuman
<1> QED BY <1>1, <1>2, <1>3, <1>4, <1>5, <1>6 DEF BacklogNext

\* UntouchedItemsAreWalkedOnce: pages of (updated_at, id), cut one row after
\* another's end, never skip nor repeat an item that stays as it was, in a backlog
\* of any length, whatever page sizes the client asks for and however old the
\* stamps are that other transactions write behind or before its cursor.
THEOREM UntouchedAreWalkedOnce ==
  BacklogSpec => []UntouchedItemsAreWalkedOnce
<1>1. BacklogInit => WalkInv
  BY DEF BacklogInit, WalkInv, WalkTypeOK, NoCursor
<1>2. WalkInv => UntouchedItemsAreWalkedOnce
  BY DEF WalkInv, UntouchedItemsAreWalkedOnce
<1>3. WalkInv /\ [BacklogNext]_backlogVars => WalkInv'
  BY WalkStep
<1> QED BY <1>1, <1>2, <1>3, PTL DEF BacklogSpec

=============================================================================
