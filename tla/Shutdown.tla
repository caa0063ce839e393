------------------------------ MODULE Shutdown ------------------------------
(***************************************************************************)
(* From serving to the end of an API process (cmd/api/main.go,             *)
(* internal/runtime/shutdown.go): a signal, or an HTTP server that fails,  *)
(* cancels the context; four steps follow in a fixed order, the first      *)
(* three with a budget each; no step's failure stops the next.  What the   *)
(* steps wait for and what uses the connection pool are not the same: the  *)
(* goroutines of Telegram handlers are waited for by nobody.               *)
(***************************************************************************)
CONSTANT Replicas

VARIABLES stage,    \* stage[r]: "down", "serving" or the shutdown step r is at
          user,     \* user[r][u]: "absent", "idle", "busy" (has a connection) or "gone"
          open,     \* open[r]: the pool gives out connections
          expired,  \* expired[r]: the users whose step ran out of its budget
          refused   \* refused[r]: the users that found the pool closed

shutdownVars == <<stage, user, open, expired, refused>>

\* "polling" is the goroutine of the WaitGroup; the worker is started with a
\* Gemini key, polling with a bot token.
Users == {"http", "polling", "handlers", "worker"}

ReadyToServe == [u \in Users |-> "absent"]

Init ==
  /\ stage = [r \in Replicas |-> "down"]
  /\ user = [r \in Replicas |-> ReadyToServe]
  /\ open = [r \in Replicas |-> FALSE]
  /\ expired = [r \in Replicas |-> {}]
  /\ refused = [r \in Replicas |-> {}]

Stopping == {"drain", "join polling", "join worker", "close"}

-----------------------------------------------------------------------------
\* BuildServicesWithPool, BuildServer, ListenAndServe and BuildTelegramBot;
\* what the configuration has no token or key for is absent.
Serve(r) ==
  /\ stage[r] = "down"
  /\ stage' = [stage EXCEPT ![r] = "serving"]
  /\ \E bot, gemini \in BOOLEAN :
       user' = [user EXCEPT ![r] = [u \in Users |->
                  IF (u \in {"polling", "handlers"} /\ ~ bot) \/ (u = "worker" /\ ~ gemini)
                  THEN "absent" ELSE "idle"]]
  /\ open' = [open EXCEPT ![r] = TRUE]
  /\ UNCHANGED <<expired, refused>>

\* A request, an update or a claimed job that goes to the database.
Acquire(r, u) ==
  /\ u # "polling" /\ user[r][u] = "idle"
  /\ IF open[r] THEN user' = [user EXCEPT ![r][u] = "busy"] /\ UNCHANGED refused
                ELSE refused' = [refused EXCEPT ![r] = @ \union {u}] /\ UNCHANGED user
  /\ UNCHANGED <<stage, open, expired>>

Release(r, u) ==
  /\ user[r][u] = "busy"
  /\ user' = [user EXCEPT ![r][u] = "idle"]
  /\ UNCHANGED <<stage, open, expired, refused>>

\* After the signal: the last request is answered, polling returns, the last
\* handler returns, the worker sees the cancelled context between two ticks.
Leave(r, u) ==
  /\ stage[r] \in Stopping /\ user[r][u] = "idle"
  /\ user' = [user EXCEPT ![r][u] = "gone"]
  /\ UNCHANGED <<stage, open, expired, refused>>

\* SIGINT, SIGTERM, or ListenAndServe fails and cancels the context itself.
Signal(r) ==
  /\ stage[r] = "serving"
  /\ stage' = [stage EXCEPT ![r] = "drain"]
  /\ UNCHANGED <<user, open, expired, refused>>

\* Faulty variant: the step has no budget.
WaitForEver(r, at, u, next) ==
  /\ stage[r] = at
  /\ user[r][u] \in {"gone", "absent"}
  /\ stage' = [stage EXCEPT ![r] = next]
  /\ UNCHANGED <<user, open, expired, refused>>

\* A step that waits for u: u is gone or was never there, or the budget is over.
Wait(r, at, u, next) ==
  /\ stage[r] = at
  /\ stage' = [stage EXCEPT ![r] = next]
  /\ \/ user[r][u] \in {"gone", "absent"} /\ UNCHANGED expired
     \/ user[r][u] \in {"idle", "busy"} /\ expired' = [expired EXCEPT ![r] = @ \union {u}]
  /\ UNCHANGED <<user, open, refused>>

\* The process is gone, and its goroutines and its pool with it.
Exit(r) ==
  /\ stage' = [stage EXCEPT ![r] = "down"]
  /\ user' = [user EXCEPT ![r] = ReadyToServe]
  /\ open' = [open EXCEPT ![r] = FALSE]
  /\ expired' = [expired EXCEPT ![r] = {}]
  /\ refused' = [refused EXCEPT ![r] = {}]

\* Without a bot, main passes a nil *sync.WaitGroup, which is not the nil the
\* step looks for: waiting for it panics, and the process dies.
Panics(r) == stage[r] = "join polling" /\ user[r]["polling"] = "absent"

\* Faulty variant: the pool is closed before the worker is waited for.
StepsCloseFirst(r) ==
  \/ Wait(r, "drain", "http", "join polling")
  \/ ~ Panics(r) /\ Wait(r, "join polling", "polling", "close")
  \/ Panics(r) /\ Exit(r)

\* RunShutdown up to the closer.
Steps(r) ==
  \/ Wait(r, "drain", "http", "join polling")
  \/ ~ Panics(r) /\ Wait(r, "join polling", "polling", "join worker")
  \/ Panics(r) /\ Exit(r)
  \/ Wait(r, "join worker", "worker", "close")

\* pool.Close: no connection is given out any more, and Close waits for those
\* that are out, for as long as it takes.
BeginClose(r) ==
  /\ stage[r] = "close" /\ open[r]
  /\ open' = [open EXCEPT ![r] = FALSE]
  /\ UNCHANGED <<stage, user, expired, refused>>

EndClose(r) ==
  /\ stage[r] = "close" /\ ~ open[r]
  /\ \A u \in Users : user[r][u] # "busy"
  /\ Exit(r)

Shut(r) == Steps(r) \/ BeginClose(r) \/ EndClose(r)

-----------------------------------------------------------------------------
(* Properties.                                                             *)

\* Who finds the pool closed under its feet is a Telegram handler, or somebody
\* whose step waited as long as it was allowed to.
OnlyTheUnjoinedAreRefused ==
  \A r \in Replicas : refused[r] \subseteq {"handlers"} \union expired[r]

=============================================================================
