------------------------------ MODULE RateLimit ------------------------------
(***************************************************************************)
(* The token-bucket limiter of internal/httpapi/ratelimit: one bucket for  *)
(* every client address, refilled by the time elapsed since it was last    *)
(* looked at, and forgotten by the gcLoop once it has been idle for        *)
(* idleTTL.                                                                *)
(*                                                                         *)
(* Time and tokens are measured so that one tick refills one unit: with a  *)
(* rate of r tokens a second and requests of Cost units, a tick stands for *)
(* 1/(r * Cost) seconds.  Every rational rate and burst is an instance.    *)
(***************************************************************************)
EXTENDS Integers

CONSTANTS Clients,    \* addresses, as clientIP returns them
          Cost,       \* units of the one token a request takes
          Burst,      \* units in a full bucket
          IdleTTL,    \* ticks after which an untouched bucket is collected
          MaxClock    \* bound: the last tick

\* server.go fixes idleTTL at 10 minutes; rate and burst come from the
\* environment.  The defaults (5 a second, burst 10) fill a bucket in 2 seconds,
\* but the configuration also admits buckets that take hours.
ASSUME LimiterAssumption ==
  Cost \in Nat \ {0} /\ Burst \in Nat /\ IdleTTL \in Nat /\ MaxClock \in Nat

VARIABLES buckets,    \* the clients that have a bucket
          tokens,     \* tokens[c]: the units left in c's bucket
          last,       \* last[c]: when c's bucket was last refilled
          clock,      \* time.Now(), monotonic
          spent       \* history: spent[c][t], the units admitted since tick t

limiterVars == <<buckets, tokens, last, clock, spent>>

LimiterInit ==
  /\ buckets = {}
  /\ tokens = [c \in Clients |-> 0]
  /\ last = [c \in Clients |-> 0]
  /\ clock = 0
  /\ spent = [c \in Clients |-> [t \in 0..MaxClock |-> 0]]

\* Faulty variant: the refilled bucket is not capped at the burst.
RefilledUncapped(c) ==
  IF c \notin buckets THEN Burst ELSE tokens[c] + (clock - last[c])

\* What allow() finds in c's bucket once it has created or refilled it.
Refilled(c) ==
  LET sum == tokens[c] + (clock - last[c]) IN
  IF c \notin buckets \/ sum > Burst THEN Burst ELSE sum

Touch(c, left) ==
  /\ buckets' = buckets \union {c}
  /\ tokens' = [tokens EXCEPT ![c] = left]
  /\ last' = [last EXCEPT ![c] = clock]
  /\ UNCHANGED clock

\* allow() returns true and takes the token.
Allow(c) ==
  /\ Refilled(c) >= Cost
  /\ Touch(c, Refilled(c) - Cost)
  /\ spent' = [spent EXCEPT ![c] =
                 [t \in 0..MaxClock |-> IF t <= clock THEN @[t] + Cost ELSE @[t]]]

\* allow() returns false: the refill is kept, the time is noted.
Refuse(c) ==
  /\ Refilled(c) < Cost
  /\ Touch(c, Refilled(c))
  /\ UNCHANGED spent

IsIdle(c) == clock - last[c] > IdleTTL

\* One pass of gcLoop.  Its ticker may be late, so a pass may come at any time.
Collect ==
  /\ \E c \in buckets : IsIdle(c)
  /\ buckets' = {c \in buckets : ~IsIdle(c)}
  /\ UNCHANGED <<tokens, last, clock, spent>>

LimiterTick ==
  /\ clock < MaxClock
  /\ clock' = clock + 1
  /\ UNCHANGED <<buckets, tokens, last, spent>>

LimiterNext ==
  \/ LimiterTick
  \/ Collect
  \/ \E c \in Clients : Allow(c) \/ Refuse(c)

LimiterSpec == LimiterInit /\ [][LimiterNext]_limiterVars

-----------------------------------------------------------------------------
\* A bucket can be collected this long after it was touched, ...
Idle == IdleTTL + 1

\* ... and this much sooner full, by being forgotten, than by being refilled.
Excess == IF Burst > Idle THEN Burst - Idle ELSE 0

\* The excess over a window that is long enough for so many collections.
Regained(length) == (length \div Idle) * Excess

\* In no window of time, wherever it starts and however the buckets were
\* collected and recreated in it, is a client admitted for more than one burst,
\* what the rate gives over the window, and one excess for every time the window
\* is long enough for an idle bucket to be forgotten (allow and gcLoop together).
AdmissionsStayWithinRate ==
  \A c \in Clients : \A t \in 0..clock :
    spent[c][t] <= Burst + (clock - t) + Regained(clock - t)

=============================================================================
