----------------------------- MODULE ApiProcess -----------------------------
(***************************************************************************)
(* The processes of cmd/api from boot to exit, over one database: the      *)
(* schema step of Migrations, then the service, then Shutdown; a process   *)
(* may be killed at any moment, and the one who runs it starts it again.   *)
(***************************************************************************)
EXTENDS Naturals

CONSTANTS Replicas, Newest, OnDisk, Parsed,
          Stoppable,   \* bound: the replicas that have work and are told to stop
          MaxKills     \* bound on killed processes and failed calls of a boot

ASSUME OnDiskAssumption == Newest \in Nat \ {0} /\ OnDisk \in {{}, 1 .. Newest}
ASSUME StoppableAssumption == Stoppable \subseteq Replicas /\ MaxKills \in Nat

VARIABLES schema, table, records, boot, missed,    \* Migrations
          stage, user, open, expired, refused,     \* Shutdown
          kills                                    \* processes killed so far

bootVars == <<schema, table, records, boot, missed>>
serviceVars == <<stage, user, open, expired, refused>>
vars == <<bootVars, serviceVars, kills>>

Schema == INSTANCE Migrations
Service == INSTANCE Shutdown

Init == Schema!Init /\ Service!Init /\ kills = 0

\* main's order: no service is built before the schema step has returned nil.
Boots(r) ==
  /\ Schema!StartBoot(r) \/ Schema!Run(r) \/ Schema!Fail(r)
  /\ UNCHANGED <<missed, serviceVars, kills>>

Serves(r) ==
  /\ Schema!At(r, "ready")
  /\ Service!Serve(r)
  /\ Schema!Go(r, "served")
  /\ UNCHANGED <<schema, table, records, missed, kills>>

Works(r, u) ==
  /\ r \in Stoppable
  /\ Service!Acquire(r, u) \/ Service!Release(r, u) \/ Service!Leave(r, u)
  /\ UNCHANGED <<bootVars, kills>>

Stops(r) == r \in Stoppable /\ Service!Signal(r) /\ UNCHANGED <<bootVars, kills>>

\* A process that has exited is down for Migrations, too.
Shuts(r) ==
  /\ Service!Shut(r)
  /\ boot' = IF stage'[r] = "down" THEN [boot EXCEPT ![r] = Schema!Down] ELSE boot
  /\ UNCHANGED <<schema, table, records, missed, kills>>

\* A crash, or a call of the boot that fails: either way the process is gone.
Kill(r) ==
  /\ kills < MaxKills /\ ~ Schema!At(r, "down")
  /\ kills' = kills + 1
  /\ boot' = [boot EXCEPT ![r] = Schema!Down]
  /\ Service!Exit(r)
  /\ UNCHANGED <<schema, table, records, missed>>

Next ==
  \E r \in Replicas :
    \/ Boots(r) \/ Serves(r) \/ Stops(r) \/ Shuts(r) \/ Kill(r)
    \/ \E u \in Service!Users : Works(r, u)

Spec == Init /\ [][Next]_vars

\* A stopped process is started again, a boot goes on, a step's budget ends, and
\* whoever has a connection gives it back.
FairSpec ==
  /\ Spec
  /\ \A r \in Replicas :
       /\ WF_vars(Boots(r)) /\ WF_vars(Serves(r)) /\ WF_vars(Shuts(r))
       /\ \A u \in Service!Users : WF_vars(Service!Release(r, u) /\ UNCHANGED <<bootVars, kills>>)

-----------------------------------------------------------------------------
(* Properties.                                                             *)

Serving(r) == stage[r] = "serving"

\* Whoever boots beside whom, no process serves a schema that lacks one of its
\* migrations, but for those that an older initdb hook did not have when it set
\* the database up: these a baseline records, and nobody ever applies them.
\* Nothing else is recorded before it is in effect.
OnlyMissedVersionsAreLacking ==
  /\ Schema!RecordedVersionsAreApplied
  /\ Schema!ReadyMeansComplete
  /\ \A r \in Replicas : Serving(r) => 1 .. Newest \subseteq schema \union missed

OnlyTheUnjoinedAreRefused == Service!OnlyTheUnjoinedAreRefused

\* Every process that is started comes to serve, whoever migrates beside it
\* and whoever was killed on the way; but a database with tables and without a
\* version table can be neither baselined nor migrated.  (Run is handed "the
\* embedded migrations filesystem"; the code does not keep this.)
StartedProcessesServe ==
  \A r \in Replicas :
    Schema!At(r, "probing") ~> (Serving(r) \/ (~ table /\ schema # {}))

\* A process that has been told to stop is gone some day, also when nobody
\* leaves in time.
StoppedProcessesExit == \A r \in Replicas : (stage[r] = "drain") ~> (stage[r] = "down")

=============================================================================
