----------------------------- MODULE Migrations -----------------------------
(***************************************************************************)
(* The start of API processes over one PostgreSQL: PgMetadata.init_schema  *)
(* (defaults/pg.py), called by the lifespan of the application             *)
(* (api/app.py).                                                           *)
(*                                                                         *)
(* The advisory lock belongs to a session, and goes with it.  Processes of *)
(* an older release know fewer migrations.                                 *)
(***************************************************************************)
EXTENDS Naturals, FiniteSets

CONSTANTS
  Servers,     \* processes
  Releases,    \* the number of migrations each release knows
  MaxCrashes,  \* bound: crashes and lost connections
  Nobody       \* the lock is free

ASSUME MigrationsAssumption ==
  Releases \subseteq Nat \ {0} /\ MaxCrashes \in Nat /\ Nobody \notin Servers

VARIABLES
  release,   \* per process, the migrations its release knows
  migrated,  \* the versions in table schema_migrations
  executed,  \* history: how often the statements of each version took effect
  lock,      \* who holds the advisory lock
  server,    \* per process, where init_schema() is
  crashes

migrateVars == <<release, migrated, executed, lock, server, crashes>>

Versions == UNION {1 .. n : n \in Releases}

\* seen: the versions read from schema_migrations.  doing: the version whose
\* transaction is open, 0 if none is.
Servings == [at : {"down", "connected", "locked", "migrating", "serving"},
             seen : SUBSET Versions, doing : Nat]

MigrateTypeOK ==
  /\ release \in [Servers -> Releases]
  /\ migrated \subseteq Versions
  /\ executed \in [Versions -> Nat]
  /\ lock \in Servers \cup {Nobody}
  /\ server \in [Servers -> Servings]
  /\ crashes \in 0 .. MaxCrashes

Down == [at |-> "down", seen |-> {}, doing |-> 0]

MigrateInit ==
  /\ release \in [Servers -> Releases]
  /\ migrated = {} /\ executed = [v \in Versions |-> 0]
  /\ lock = Nobody
  /\ server = [s \in Servers |-> Down]
  /\ crashes = 0

Go(s, at) == server' = [server EXCEPT ![s].at = at]

Connect(s) ==
  /\ server[s].at = "down"
  /\ Go(s, "connected")
  /\ UNCHANGED <<release, migrated, executed, lock, crashes>>

\* Fault: the versions are read without the lock.
SkipLock(s) ==
  /\ server[s].at = "connected"
  /\ Go(s, "locked")
  /\ UNCHANGED <<release, migrated, executed, lock, crashes>>

\* pg_advisory_lock() waits until the lock is free.
Lock(s) ==
  /\ server[s].at = "connected" /\ lock = Nobody
  /\ lock' = s
  /\ Go(s, "locked")
  /\ UNCHANGED <<release, migrated, executed, crashes>>

\* The table is there by now; which versions are in it?
ReadVersions(s) ==
  /\ server[s].at = "locked"
  /\ server' = [server EXCEPT ![s].at = "migrating", ![s].seen = migrated]
  /\ UNCHANGED <<release, migrated, executed, lock, crashes>>

\* pending_migrations(): those of the release that were not there.
PendingOf(s) == 1 .. release[s] \ server[s].seen

\* Fault: outside a transaction every statement commits at once.
ExecuteAtOnce(s, v) ==
  /\ server' = [server EXCEPT ![s].doing = v]
  /\ executed' = [executed EXCEPT ![v] = @ + 1]

\* The statements run in a transaction, invisible to others and undone with it.
Execute(s, v) ==
  /\ server' = [server EXCEPT ![s].doing = v]
  /\ UNCHANGED executed

BeginMigration(s) ==
  /\ server[s].at = "migrating" /\ server[s].doing = 0
  /\ \E v \in PendingOf(s) :
       /\ \A w \in PendingOf(s) : v <= w
       /\ Execute(s, v)
  /\ UNCHANGED <<release, migrated, lock, crashes>>

\* The row is inserted and the transaction commits with it; a version that is
\* in the table by now makes the INSERT fail, and the start.
EndMigration(s) ==
  LET v == server[s].doing IN
  /\ v # 0
  /\ IF v \in migrated
     THEN /\ server' = [server EXCEPT ![s] = Down]
          /\ lock' = IF lock = s THEN Nobody ELSE lock
          /\ UNCHANGED <<migrated, executed>>
     ELSE /\ migrated' = migrated \cup {v}
          /\ executed' = [executed EXCEPT ![v] = @ + 1]
          /\ server' = [server EXCEPT ![s].doing = 0, ![s].seen = @ \cup {v}]
          /\ UNCHANGED lock
  /\ UNCHANGED <<release, crashes>>

\* Fault: the session stays open, and the lock with it.
KeepLock(s) ==
  /\ server[s].at = "migrating" /\ server[s].doing = 0 /\ PendingOf(s) = {}
  /\ server' = [server EXCEPT ![s].at = "serving", ![s].seen = {}]
  /\ UNCHANGED <<release, migrated, executed, lock, crashes>>

\* Nothing is pending: the lock is given back and the process serves.
Unlock(s) ==
  /\ server[s].at = "migrating" /\ server[s].doing = 0 /\ PendingOf(s) = {}
  /\ server' = [server EXCEPT ![s].at = "serving", ![s].seen = {}]
  /\ lock' = IF lock = s THEN Nobody ELSE lock
  /\ UNCHANGED <<release, migrated, executed, crashes>>

\* The process or its connection is lost: the transaction is undone, the lock
\* free; it is started again, with the same release or another.
ServerCrashes(s) ==
  /\ server[s].at # "down" /\ crashes < MaxCrashes
  /\ crashes' = crashes + 1
  /\ server' = [server EXCEPT ![s] = Down]
  /\ lock' = IF lock = s THEN Nobody ELSE lock
  /\ \E n \in Releases : release' = [release EXCEPT ![s] = n]
  /\ UNCHANGED <<migrated, executed>>

MigrateNext == \E s \in Servers :
  \/ Connect(s) \/ Lock(s) \/ ReadVersions(s) \/ BeginMigration(s) \/ EndMigration(s)
  \/ Unlock(s) \/ ServerCrashes(s)

\* A process that is down is started again, and what it does goes on.
MigrateFairness == \A s \in Servers :
  /\ WF_migrateVars(Connect(s)) /\ WF_migrateVars(Lock(s)) /\ WF_migrateVars(ReadVersions(s))
  /\ WF_migrateVars(BeginMigration(s)) /\ WF_migrateVars(EndMigration(s))
  /\ WF_migrateVars(Unlock(s))

MigrateSpec == MigrateInit /\ [][MigrateNext]_migrateVars /\ MigrateFairness

-----------------------------------------------------------------------------
(* Properties.                                                             *)

\* Whatever processes start together, in whichever releases, and wherever they
\* crash: the statements of a migration have taken effect once if its version
\* is recorded and not at all if it is not, no version is recorded before an
\* earlier one, a process serves over every migration it knows, and no start
\* fails over a version that another recorded meanwhile (init_schema).
MigratedOnce ==
  /\ \A v \in Versions : executed[v] = IF v \in migrated THEN 1 ELSE 0
  /\ \A v \in migrated : 1 .. v \subseteq migrated
  /\ \A s \in Servers : server[s].at = "serving" => 1 .. release[s] \subseteq migrated
  /\ \A s \in Servers : server[s].doing \notin migrated

\* Every process that starts comes to serve, unless it crashes: none waits for
\* the lock for ever (init_schema, which unlocks in a finally).
EveryoneServes == \A s \in Servers :
  server[s].at = "connected" ~> server[s].at \in {"serving", "down"}

=============================================================================
