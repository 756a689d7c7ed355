------------------------------ MODULE Scheduler ------------------------------
(***************************************************************************)
(* Saved queries and their schedules (defaults/saved_queries.py), the      *)
(* handlers that create and delete them (api/app.py), and LocalScheduler   *)
(* (defaults/scheduler.py), one task per API process over one table.       *)
(*                                                                         *)
(* The store never suspends, so what a process does between two awaits of  *)
(* anything else is one step.  A tick gives the loop away only while a     *)
(* schedule's query runs: the end of a run, its mark and the start of the  *)
(* next run of the tick are one step.                                      *)
(***************************************************************************)
EXTENDS Naturals, SequencesExt

CONSTANTS
  Processes,      \* API processes, each with its scheduler
  Queries, Schedules,
  Intervals,      \* interval_seconds a request may ask for
  MaxSchedTime,   \* bound: the clock
  MaxSchedFaults, \* bound: marks that fail, and restarts of a process
  NoRow

ASSUME SchedulerAssumption ==
  /\ Intervals \subseteq Nat \ {0}        \* ScheduleRequest: ge=1
  /\ MaxSchedTime \in Nat /\ MaxSchedFaults \in Nat

VARIABLES
  clock,      \* datetime.now()
  saved,      \* table saved_queries: "new" (id not drawn yet), "live", "gone"
  schedules,  \* table schedules, NoRow where there is no row
  drawn,      \* the schedule ids ever drawn
  task,       \* each process's scheduler task
  pending,    \* a POST /schedules that has seen its query, not yet inserted
  runs,       \* history: per schedule, the runs that were marked
  faults

schedVars == <<clock, saved, schedules, drawn, task, pending, runs, faults>>

Row == [query : Queries, interval : Intervals, next : Nat]

\* _task: "off" is None, "ended" a task that is over (start() leaves it so).
\* at is now as the tick read it, due what is left of the tick's list, its head
\* the schedule that runs, and began the time at which its run began.
Tasks == [state : {"off", "on", "ended"}, at : Nat, began : Nat, due : Seq(Schedules)]

\* A run: the tick it was of, and when it began.
Runs == [tick : Nat, began : Nat]

Requests == [id : Schedules, query : Queries, interval : Intervals]

SchedTypeOK ==
  /\ clock \in Nat
  /\ saved \in [Queries -> {"new", "live", "gone"}]
  /\ schedules \in [Schedules -> Row \cup {NoRow}]
  /\ drawn \subseteq Schedules
  /\ task \in [Processes -> Tasks]
  /\ pending \in [Processes -> Requests \cup {NoRow}]
  /\ runs \in [Schedules -> Seq(Runs)]
  /\ faults \in 0 .. MaxSchedFaults

SchedInit ==
  /\ clock = 0
  /\ saved = [q \in Queries |-> "new"]
  /\ schedules = [s \in Schedules |-> NoRow]
  /\ drawn = {}
  /\ task = [p \in Processes |-> [state |-> "on", at |-> 0, began |-> 0, due |-> <<>>]]
  /\ pending = [p \in Processes |-> NoRow]
  /\ runs = [s \in Schedules |-> <<>>]
  /\ faults = 0

Rows == {s \in Schedules : schedules[s] # NoRow}

\* The loop of p is free: no handler of p stands between two statements that
\* nothing awaits.
Free(p) == pending[p] = NoRow

-----------------------------------------------------------------------------
(* The handlers.                                                           *)

CreateQuery(q) ==
  /\ saved[q] = "new"
  /\ saved' = [saved EXCEPT ![q] = "live"]
  /\ UNCHANGED <<clock, schedules, drawn, task, pending, runs, faults>>

DeleteQuery(p, q) ==
  /\ Free(p) /\ saved[q] = "live"
  /\ saved' = [saved EXCEPT ![q] = "gone"]
  /\ schedules' = [s \in Schedules |->
       IF s \in Rows /\ schedules[s].query = q THEN NoRow ELSE schedules[s]]
  /\ UNCHANGED <<clock, drawn, task, pending, runs, faults>>

\* POST /schedules finds the saved query and draws an id ...
CheckSchedule(p, s, q, interval) ==
  /\ Free(p) /\ saved[q] = "live" /\ s \notin drawn
  /\ pending' = [pending EXCEPT ![p] = [id |-> s, query |-> q, interval |-> interval]]
  /\ drawn' = drawn \cup {s}
  /\ UNCHANGED <<clock, saved, schedules, task, runs, faults>>

\* ... and inserts the schedule, due after one interval.
InsertSchedule(p) ==
  /\ pending[p] # NoRow
  /\ schedules' = [schedules EXCEPT ![pending[p].id] =
       [query |-> pending[p].query, interval |-> pending[p].interval,
        next |-> clock + pending[p].interval]]
  /\ pending' = [pending EXCEPT ![p] = NoRow]
  /\ UNCHANGED <<clock, saved, drawn, task, runs, faults>>

DeleteSchedule(p, s) ==
  /\ Free(p) /\ s \in Rows
  /\ schedules' = [schedules EXCEPT ![s] = NoRow]
  /\ UNCHANGED <<clock, saved, drawn, task, pending, runs, faults>>

-----------------------------------------------------------------------------
(* The scheduler.                                                          *)

\* due_schedules(): ORDER BY next_run_at, ties in any order.
Due == {s \in Rows : schedules[s].next <= clock}

DueLists == {due \in SetToSeqs(Due) : \A i, j \in DOMAIN due :
               i < j => schedules[due[i]].next <= schedules[due[j]].next}

\* tick() reads the list and starts the run of its head.
SchedTick(p) ==
  /\ Free(p) /\ task[p].state = "on" /\ task[p].due = <<>>
  /\ \E due \in DueLists \ {<<>>} :
       task' = [task EXCEPT ![p] =
         [state |-> "on", at |-> clock, began |-> clock, due |-> due]]
  /\ UNCHANGED <<clock, saved, schedules, drawn, pending, runs, faults>>

Running(p) == task[p].due # <<>>

Current(p) == Head(task[p].due)

\* Fault: the next run is counted from the one that was due, not from now.
MarkCatchingUp(p) ==
  LET s == Current(p) IN
  schedules' = IF s \in Rows
               THEN [schedules EXCEPT ![s].next = @ + schedules[s].interval]
               ELSE schedules

\* mark_schedule_run(): an UPDATE, of no row if the schedule is gone.
Mark(p) ==
  LET s == Current(p) IN
  schedules' = IF s \in Rows
               THEN [schedules EXCEPT ![s].next = task[p].at + schedules[s].interval]
               ELSE schedules

\* The run ends, well or not (_execute catches everything, and the runner
\* reports a query that is gone); it is marked and the next one starts.
EndRun(p) ==
  /\ Free(p) /\ Running(p)
  /\ Mark(p)
  /\ runs' = [runs EXCEPT ![Current(p)] =
       Append(@, [tick |-> task[p].at, began |-> task[p].began])]
  /\ task' = [task EXCEPT ![p].due = Tail(@), ![p].began = clock]
  /\ UNCHANGED <<clock, saved, drawn, pending, faults>>

\* Fault: an error that leaves tick() ends the task.
MarkFailsForGood(p) ==
  /\ Free(p) /\ Running(p) /\ faults < MaxSchedFaults
  /\ task' = [task EXCEPT ![p].state = "ended", ![p].due = <<>>]
  /\ faults' = faults + 1
  /\ UNCHANGED <<clock, saved, schedules, drawn, pending, runs>>

\* The mark raises: the tick is over, what was left of its list waits for the
\* next one, and so does the schedule that just ran.
MarkFails(p) ==
  /\ Free(p) /\ Running(p) /\ faults < MaxSchedFaults
  /\ task' = [task EXCEPT ![p].due = <<>>]
  /\ faults' = faults + 1
  /\ UNCHANGED <<clock, saved, schedules, drawn, pending, runs>>

\* stop() cancels the task wherever it is.
StopTask(p) ==
  /\ Free(p) /\ task[p].state = "on" /\ faults < MaxSchedFaults
  /\ task' = [task EXCEPT ![p].state = "off", ![p].due = <<>>]
  /\ faults' = faults + 1
  /\ UNCHANGED <<clock, saved, schedules, drawn, pending, runs>>

\* The process is started again, and start() with it.
StartTask(p) ==
  /\ task[p].state = "off" /\ pending[p] = NoRow
  /\ task' = [task EXCEPT ![p].state = "on"]
  /\ UNCHANGED <<clock, saved, schedules, drawn, pending, runs, faults>>

SecondPasses ==
  /\ clock < MaxSchedTime
  /\ clock' = clock + 1
  /\ UNCHANGED <<saved, schedules, drawn, task, pending, runs, faults>>

SchedNext ==
  \/ SecondPasses
  \/ \E q \in Queries : CreateQuery(q)
  \/ \E p \in Processes :
       \/ SchedTick(p) \/ EndRun(p) \/ MarkFails(p) \/ StopTask(p) \/ StartTask(p)
       \/ \E q \in Queries : DeleteQuery(p, q)
       \/ InsertSchedule(p)
       \/ \E s \in Schedules : DeleteSchedule(p, s)
       \/ \E s \in Schedules, q \in Queries, i \in Intervals : CheckSchedule(p, s, q, i)

\* The event loop gets to the task and to the query it runs; a process that
\* went away is started again.
SchedFairness == \A p \in Processes :
  /\ WF_schedVars(SchedTick(p)) /\ WF_schedVars(EndRun(p)) /\ WF_schedVars(StartTask(p))
  /\ WF_schedVars(InsertSchedule(p))

SchedSpec == SchedInit /\ [][SchedNext]_schedVars /\ SchedFairness

-----------------------------------------------------------------------------
(* Properties.                                                             *)

\* With one scheduler, a run of a schedule that is marked began at least an
\* interval after the tick of the one before it, however late the scheduler is:
\* what it missed is not made up for.  The next run is counted from the tick,
\* not from the run: one that waited behind others of its tick began that much
\* later, and may be followed that much sooner (LocalScheduler.tick).
RunsSpaced ==
  \A s \in Schedules : \A n \in 1 .. Len(runs[s]) - 1 :
    schedules[s] # NoRow =>
      runs[s][n + 1].began - runs[s][n].tick >= schedules[s].interval

IsDue(s) == s \in Rows /\ schedules[s].next <= clock

\* A schedule that is due is run and marked once more, or deleted, whatever
\* else of the tick fails (LocalScheduler.start: "never let the loop die").
DueIsRun == \A s \in Schedules : \A n \in 0 .. MaxSchedTime - 1 :
  IsDue(s) /\ Len(runs[s]) = n ~> Len(runs[s]) > n \/ s \notin Rows

=============================================================================
