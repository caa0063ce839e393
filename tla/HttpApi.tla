------------------------------- MODULE HttpApi -------------------------------
(***************************************************************************)
(* The protected part of the HTTP API as runtime/server.go composes it:    *)
(* bearer authentication, then the rate limiter, then the read handlers    *)
(* for search and collision checks.  The limiter is RateLimit, the         *)
(* handlers are Retrieval; a request occupies a slot of Calls.             *)
(***************************************************************************)
EXTENDS RateLimit, Retrieval

vars == <<limiterVars, retrievalVars>>

Init == LimiterInit /\ RetrievalInit

\* auth.Middleware: 401 before the limiter is asked.
Unauthorized(r) == Begin(r, "refused") /\ UNCHANGED limiterVars

\* Limiter.Middleware: 429.
TooMany(r, c) == Refuse(c) /\ Begin(r, "refused")

\* A handler that refuses its parameters (400) has cost a token too.
BadRequest(r, c) == Allow(c) /\ Begin(r, "refused")

Serve(r, c) == Allow(c) /\ \E kind \in {"search", "collision"} : Begin(r, kind)

Answer(r) ==
  /\ SearchFullText(r) \/ SearchVectors(r) \/ Merge(r) \/ CheckCollision(r) \/ Finish(r)
  /\ UNCHANGED limiterVars

Background == (LimiterTick \/ Collect) /\ UNCHANGED retrievalVars

Next ==
  \/ \E r \in Calls : Unauthorized(r) \/ Answer(r)
  \/ \E r \in Calls, c \in Clients : TooMany(r, c) \/ BadRequest(r, c) \/ Serve(r, c)
  \/ Background

Spec == Init /\ [][Next]_vars

=============================================================================
