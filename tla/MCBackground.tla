---------------------------- MODULE MCBackground ----------------------------
(***************************************************************************)
(* Instances for TLC of what runs behind the requests: the rebuild worker, *)
(* the scheduler and the start of processes.  They share no state: part    *)
(* says which of them a behaviour is of.                                   *)
(***************************************************************************)
EXTENDS RebuildQueue, Scheduler, Migrations, TLC

VARIABLE part

backgroundVars == <<vars, schedVars, migrateVars, part>>

BackgroundInit ==
  /\ part \in {"queue", "scheduler", "migrations"}
  /\ Init /\ SchedInit
  /\ MigrateInit /\ (part # "migrations" => \A s, t \in Servers : release[s] = release[t])

\* What is not p stays as it is.
Only(p) ==
  /\ UNCHANGED part
  /\ IF p = "queue" THEN TRUE ELSE UNCHANGED vars
  /\ IF p = "scheduler" THEN TRUE ELSE UNCHANGED schedVars
  /\ IF p = "migrations" THEN TRUE ELSE UNCHANGED migrateVars

BackgroundNext ==
  \/ part = "queue" /\ Next /\ Only("queue")
  \/ part = "scheduler" /\ SchedNext /\ Only("scheduler")
  \/ part = "migrations" /\ MigrateNext /\ Only("migrations")

\* The fairness of each part, in the behaviours that are of it.
BackgroundFairness ==
  /\ WF_vars(part = "queue" /\ Start) /\ WF_vars(part = "queue" /\ Drain(Worker))
  /\ \A p \in Processes :
       /\ WF_schedVars(part = "scheduler" /\ SchedTick(p))
       /\ WF_schedVars(part = "scheduler" /\ EndRun(p))
       /\ WF_schedVars(part = "scheduler" /\ StartTask(p))
       /\ WF_schedVars(part = "scheduler" /\ InsertSchedule(p))
  /\ \A s \in Servers : 
       /\ WF_migrateVars(part = "migrations" /\ Connect(s))
       /\ WF_migrateVars(part = "migrations" /\ Lock(s))
       /\ WF_migrateVars(part = "migrations" /\ ReadVersions(s))
       /\ WF_migrateVars(part = "migrations" /\ BeginMigration(s))
       /\ WF_migrateVars(part = "migrations" /\ EndMigration(s))
       /\ WF_migrateVars(part = "migrations" /\ Unlock(s))

BackgroundSpec ==
  BackgroundInit /\ [][BackgroundNext]_backgroundVars /\ BackgroundFairness

\* Type correctness of the three.
BackgroundTypeOK == TypeOK /\ SchedTypeOK /\ MigrateTypeOK

=============================================================================
