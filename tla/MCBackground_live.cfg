\* What runs behind the requests.
SPECIFICATION BackgroundSpec
CONSTANTS
  \* RebuildQueue: as many targets as the history holds, a shutdown of the process,
  \* builds that fail or are overtaken
  Connections = {a}
  Scopes = {connection, table}
  DefaultScope = connection
  HistoryLimit = 2
  Drainers = {worker}
  Worker = worker
  Outcomes = {"active", "superseded", "raised"}
  MaxJobs = 4
  MaxChanges = 1
  MaxStops = 1
  Nothing = Nothing
  \* Scheduler: two schedules, intervals shorter and longer than a delay
  Processes = {p}
  Queries = {q}
  Schedules = {s1, s2}
  Intervals = {1, 2}
  MaxSchedTime = 4
  MaxSchedFaults = 2
  NoRow = NoRow
  \* Migrations: two processes of two releases
  Servers = {s3, s4}
  Releases = {1, 2}
  MaxCrashes = 2
  Nobody = Nobody
\* Requests end when the bounds on jobs, on the clock and on crashes are reached.
CHECK_DEADLOCK FALSE
INVARIANTS
  BackgroundTypeOK Deduplicated LiveRemembered RunsSpaced MigratedOnce
PROPERTIES EveryJobRuns DueIsRun EveryoneServes
