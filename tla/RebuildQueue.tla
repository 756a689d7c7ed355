---------------------------- MODULE RebuildQueue ----------------------------
(***************************************************************************)
(* The background repair of stale contexts: ContextRebuildQueue            *)
(* (context/jobs/rebuild_queue.py), its worker, the requests that enqueue  *)
(* rebuilds, and the life of the API process that has it all in memory     *)
(* (api/app.py, lifespan).                                                 *)
(*                                                                         *)
(* Everything runs on one event loop.  enqueue() and what surrounds a      *)
(* build in _execute() never wait for anything, so each is one step; the   *)
(* build itself is where the loop is given away, and is split at the       *)
(* moment it introspects the source.  A build publishes as ContextBuild    *)
(* says; here it leaves its outcome and the context it repaired.           *)
(***************************************************************************)
EXTENDS Naturals, Sequences, FiniteSets

CONSTANTS
  Connections, Scopes,
  DefaultScope,   \* the scope of a build that is not told one
  HistoryLimit,   \* history_limit
  Drainers,       \* who takes jobs: the worker, a caller of run_pending()
  Worker,
  Outcomes,       \* how a build may end
  MaxJobs,        \* bound: jobs of one process
  MaxChanges,     \* bound: schema changes
  MaxStops,       \* bound: shutdowns
  Nothing         \* no job, no request

Targets == [connection : Connections, scope : Scopes]

ASSUME RebuildQueueAssumption ==
  /\ DefaultScope \in Scopes /\ Worker \in Drainers
  /\ Nothing \notin Targets
  /\ HistoryLimit \in Nat \ {0} /\ MaxJobs \in Nat
  /\ MaxChanges \in Nat /\ MaxStops \in Nat
  /\ Outcomes \subseteq {"active", "current", "superseded", "stale", "failed", "raised"}

VARIABLES
  jobs,       \* the jobs of the process, in order: a job's id is its position
  history,    \* _jobs: the ids of the jobs the queue remembers
  queue,      \* _queue: the ids of the jobs to run
  active,     \* _active: the application is up and its worker running
  executing,  \* for each drainer the build it is running, or Nothing
  stale,      \* the targets whose served context is not of the present schema
  changes, stops,
  answer      \* the last request since its target's schema changed or the
              \* process began, and the job it was answered with

vars == <<jobs, history, queue, active, executing, stale, changes, stops, answer>>

Terminal == {"completed", "failed"}

JobIds == 1 .. Len(jobs)

Jobs == [target : Targets,
         state : {"queued", "running"} \cup Terminal \cup Outcomes]

Answers == [target : Targets, job : Nat]

TypeOK ==
  /\ jobs \in Seq(Jobs) /\ Len(jobs) <= MaxJobs
  /\ history \in Seq(JobIds) /\ Len(history) <= HistoryLimit
  /\ queue \in Seq(JobIds)
  /\ active \in BOOLEAN
  /\ executing \in [Drainers -> {Nothing} \cup [id : JobIds, changed : SUBSET Targets]]
  /\ stale \subseteq Targets
  /\ changes \in 0 .. MaxChanges /\ stops \in 0 .. MaxStops
  /\ answer \in {Nothing} \cup Answers

Init ==
  /\ jobs = <<>> /\ history = <<>> /\ queue = <<>>
  /\ active = FALSE
  /\ executing = [d \in Drainers |-> Nothing]
  /\ stale = Targets
  /\ changes = 0 /\ stops = 0
  /\ answer = Nothing

-----------------------------------------------------------------------------
InQueue(id) == \E i \in DOMAIN queue : queue[i] = id

IsExecuting(id) == \E d \in Drainers : executing[d] # Nothing /\ executing[d].id = id

(* A job that has not run to its end and still will.                       *)
Live(id) == InQueue(id) \/ IsExecuting(id)

(* Fault: forgetting all but the last half of the history.                 *)
TrimToHalf(ids) ==
  IF Len(ids) > HistoryLimit
    THEN SubSeq(ids, Len(ids) - HistoryLimit \div 2 + 1, Len(ids)) ELSE ids

(* Fault: never forgetting a job.                                          *)
TrimNothing(ids) == ids

Trim(ids) ==
  IF Len(ids) > HistoryLimit
    THEN SubSeq(ids, Len(ids) - HistoryLimit + 1, Len(ids)) ELSE ids

(* The positions of the remembered jobs of the target that have not ended. *)
Unfinished(t) ==
  {i \in DOMAIN history : jobs[history[i]].target = t /\ jobs[history[i]].state \notin Terminal}

Oldest(positions) == history[CHOOSE i \in positions : \A j \in positions : i <= j]

EnqueueUnless(positions, t) ==
  IF positions # {}
    THEN /\ answer' = [target |-> t, job |-> Oldest(positions)]
         /\ UNCHANGED <<jobs, history, queue>>
    ELSE LET id == Len(jobs) + 1 IN
         /\ id <= MaxJobs
         /\ jobs' = Append(jobs, [target |-> t, state |-> "queued"])
         /\ history' = Trim(Append(history, id))
         /\ queue' = Append(queue, id)
         /\ answer' = [target |-> t, job |-> id]

(* Fault: only a job that waits counts as a duplicate.                     *)
EnqueueUnlessQueued(t) ==
  EnqueueUnless({i \in Unfinished(t) : jobs[history[i]].state = "queued"}, t)

(* enqueue(): an unfinished job of the target stands for the new request.  *)
Enqueue(t) == EnqueueUnless(Unfinished(t), t)

(* POST /connections/{id}/context/rebuild, which an application that is up *)
(* serves.                                                                 *)
RequestRebuild(t) ==
  /\ active
  /\ Enqueue(t)
  /\ UNCHANGED <<active, executing, stale, changes, stops>>

-----------------------------------------------------------------------------
(* A job is taken and its build begins by introspecting the source.        *)
Take(d) ==
  /\ executing[d] = Nothing
  /\ d = Worker => active
  /\ queue # <<>>
  /\ queue' = Tail(queue)
  /\ jobs' = [jobs EXCEPT ![Head(queue)].state = "running"]
  /\ executing' = [executing EXCEPT ![d] = [id |-> Head(queue), changed |-> {}]]
  /\ UNCHANGED <<history, active, stale, changes, stops, answer>>

(* What a build repairs: the default scope of the connection, the scope of *)
(* the job not being handed on, unless the schema has changed again.       *)
Repaired(d) ==
  { t \in Targets \ executing[d].changed :
      /\ t.connection = jobs[executing[d].id].target.connection
      /\ t.scope = DefaultScope }

EndState(outcome) ==
  IF outcome \in {"active", "current"} THEN "completed"
  ELSE IF outcome = "raised" THEN "failed" ELSE outcome

(* The build ends, and the job takes over the state of the record it       *)
(* published unless that is ACTIVE.                                        *)
Complete(d, outcome) ==
  /\ executing[d] # Nothing
  /\ jobs' = [jobs EXCEPT ![executing[d].id].state = EndState(outcome)]
  /\ stale' = IF outcome \in {"failed", "raised"} THEN stale ELSE stale \ Repaired(d)
  /\ executing' = [executing EXCEPT ![d] = Nothing]
  /\ UNCHANGED <<history, queue, active, changes, stops, answer>>

(* The application starts, and the worker with it.                         *)
Start ==
  /\ ~ active
  /\ active' = TRUE
  /\ UNCHANGED <<jobs, history, queue, executing, stale, changes, stops, answer>>

(* The application shuts down: the worker is cancelled, and the process    *)
(* ends with the queue, the history and the jobs, which are in memory.     *)
Stop ==
  /\ active /\ stops < MaxStops
  /\ active' = FALSE
  /\ stops' = stops + 1
  /\ jobs' = <<>> /\ history' = <<>> /\ queue' = <<>>
  /\ executing' = [d \in Drainers |-> Nothing]
  /\ answer' = Nothing
  /\ UNCHANGED <<stale, changes>>

(* The schema of a connection's database changes.                          *)
Change(connection) ==
  LET affected == { t \in Targets : t.connection = connection } IN
  /\ changes < MaxChanges
  /\ changes' = changes + 1
  /\ stale' = stale \cup affected
  /\ executing' = [d \in Drainers |->
       IF executing[d] = Nothing THEN Nothing
       ELSE [executing[d] EXCEPT !.changed = @ \cup affected]]
  /\ answer' = IF answer # Nothing /\ answer.target \in affected THEN Nothing ELSE answer
  /\ UNCHANGED <<jobs, history, queue, active, stops>>

-----------------------------------------------------------------------------
(* Fault: what a build raises ends the worker.                             *)
DrainUntilRaised(d) ==
  /\ \A id \in JobIds : jobs[id].state # "failed"
  /\ Take(d) \/ \E outcome \in Outcomes : Complete(d, outcome)

(* _drain(), run_pending(): one job after another, however builds end.     *)
Drain(d) == Take(d) \/ \E outcome \in Outcomes : Complete(d, outcome)

Next ==
  \/ \E t \in Targets : RequestRebuild(t)
  \/ \E d \in Drainers : Drain(d)
  \/ Start \/ Stop
  \/ \E connection \in Connections : Change(connection)

Spec == Init /\ [][Next]_vars

(* The loop runs the worker on while the application is up.                *)
QueueFairness == WF_vars(Start) /\ WF_vars(Drain(Worker))

FairSpec == Spec /\ QueueFairness

-----------------------------------------------------------------------------
(* No target has two rebuilds waiting or under way: the check of enqueue() *)
(* looks at the history, which forgets the oldest job first, whatever its  *)
(* state.  With no more targets than the history holds jobs, and the       *)
(* worker alone taking them in order, no job that matters is forgotten.    *)
Deduplicated ==
  \A id, other \in JobIds :
    Live(id) /\ Live(other) /\ jobs[id].target = jobs[other].target => id = other

(* Every job that waits or runs can be asked about by its id.              *)
LiveRemembered ==
  \A id \in JobIds : Live(id) => \E i \in DOMAIN history : history[i] = id

(* A job that was accepted is eventually run, whatever the builds before   *)
(* it end in, unless the application shuts down first: what it had         *)
(* accepted and not run is then gone (_drain, lifespan).                   *)
EveryJobRuns ==
  \A id \in 1 .. MaxJobs :
    (id \in JobIds /\ jobs[id].state = "queued") ~>
      (id \notin JobIds \/ jobs[id].state # "queued")

(* A stale context gets repaired once somebody asks for it.                *)
AskedFor(t) == answer # Nothing /\ answer.target = t /\ t \in stale

RequestRepairs == \A t \in Targets : AskedFor(t) ~> (t \notin stale)

=============================================================================
