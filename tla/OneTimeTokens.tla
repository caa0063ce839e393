---------------------------- MODULE OneTimeTokens ----------------------------
(***************************************************************************)
(* What the two Telegram token stores promise (PendingValidationStore and  *)
(* TelegramReviewActionStore in internal/app/ports.go): a button's token   *)
(* is saved once, is good for one callback at most, and stops working when *)
(* its time to live is over.  TelegramMessages and TelegramReview          *)
(* implement this specification.                                           *)
(***************************************************************************)
CONSTANTS Tokens,     \* tokens the handlers mint, each a fresh UUID
          Takers,     \* callbacks
          Nobody      \* the holder of a token no callback was given

VARIABLES state,      \* state[k]: "unsaved", "live" or "spent"
          holder      \* holder[k]: the callback Take returned the entry to

vars == <<state, holder>>

Init ==
  /\ state = [k \in Tokens |-> "unsaved"]
  /\ holder = [k \in Tokens |-> Nobody]

\* The tokens of one message are saved before it is sent; some may fail.
Save ==
  /\ state' \in [Tokens -> {"unsaved", "live", "spent"}]
  /\ \A k \in Tokens : state'[k] # state[k] => state[k] = "unsaved" /\ state'[k] = "live"
  /\ UNCHANGED holder

Take(k, t) ==
  /\ state[k] = "live"
  /\ state' = [state EXCEPT ![k] = "spent"]
  /\ holder' = [holder EXCEPT ![k] = t]

\* Tokens expire, or one is deleted by a Take whose answer is lost.
Lapse ==
  /\ state' \in [Tokens -> {"unsaved", "live", "spent"}]
  /\ \A k \in Tokens : state'[k] # state[k] => state[k] = "live" /\ state'[k] = "spent"
  /\ UNCHANGED holder

Next == Save \/ Lapse \/ \E k \in Tokens, t \in Takers : Take(k, t)

Spec == Init /\ [][Next]_vars

=============================================================================
