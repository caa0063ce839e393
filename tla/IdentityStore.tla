---------------------------- MODULE IdentityStore ----------------------------
(***************************************************************************)
(* What Ingest promises to callers that submit beside each other: a store  *)
(* that keeps one request per identity and decides each request in one     *)
(* step.  A request is stored if its identity is new; otherwise the stored *)
(* one is detected, or the request is refused because of it; or it fails   *)
(* and leaves nothing.  What a caller is told agrees with what was         *)
(* decided, or says that it is not known.  Ingestion implements it.        *)
(***************************************************************************)
CONSTANTS Requests,    \* calls, each made once
          Identities,  \* what decides whether a request is new
          NoIdentity   \* the identity of a call that has not been submitted

VARIABLES identity,    \* identity[r]: the identity r was submitted with
          stored,      \* the requests the store keeps
          detected,    \* on record: who was detected as a duplicate of whom
          answer       \* answer[r]: what the caller of r was told

vars == <<identity, stored, detected, answer>>

Init ==
  /\ identity = [r \in Requests |-> NoIdentity]
  /\ stored = {}
  /\ detected = {}
  /\ answer = [r \in Requests |-> "pending"]

\* The stored request of r's identity, if there is one.
Original(r) == {q \in stored : identity[q] = identity[r]}

Undecided(r) ==
  /\ identity[r] # NoIdentity
  /\ r \notin stored
  /\ answer[r] = "pending"

Tell(r, a) == answer' = [answer EXCEPT ![r] = a]

-----------------------------------------------------------------------------
Submit(r) ==
  /\ identity[r] = NoIdentity /\ answer[r] = "pending"
  /\ \E i \in Identities : identity' = [identity EXCEPT ![r] = i]
  /\ UNCHANGED <<stored, detected, answer>>

Refuse(r) ==
  /\ identity[r] = NoIdentity /\ answer[r] = "pending"
  /\ Tell(r, "invalid")
  /\ UNCHANGED <<identity, stored, detected>>

\* The answer of a stored request follows its hook, or its commit's is lost.
Store(r) ==
  /\ Undecided(r)
  /\ Original(r) = {}
  /\ stored' = stored \union {r}
  /\ UNCHANGED answer \/ Tell(r, "commit_unknown")
  /\ UNCHANGED <<identity, detected>>

Detect(r) ==
  /\ Undecided(r)
  /\ \E q \in Original(r) : detected' = detected \union {[by |-> r, original |-> q]}
  /\ Tell(r, "duplicate") \/ Tell(r, "commit_unknown")
  /\ UNCHANGED <<identity, stored>>

Conflict(r) ==
  /\ Undecided(r)
  /\ Original(r) # {}
  /\ Tell(r, "conflict")
  /\ UNCHANGED <<identity, stored, detected>>

Fail(r) ==
  /\ Undecided(r)
  /\ Tell(r, "error")
  /\ UNCHANGED <<identity, stored, detected>>

\* A stored request's caller is told so, unless the process dies first.
Confirm(r) ==
  /\ r \in stored /\ answer[r] = "pending"
  /\ Tell(r, "created") \/ Tell(r, "crashed")
  /\ UNCHANGED <<identity, stored, detected>>

Next ==
  \E r \in Requests : \/ Submit(r) \/ Refuse(r) \/ Store(r) \/ Detect(r)
                      \/ Conflict(r) \/ Fail(r) \/ Confirm(r)

Spec == Init /\ [][Next]_vars

=============================================================================
