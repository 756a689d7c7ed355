\* A request that arrives while a build of an older schema is running.
SPECIFICATION FairSpec
CONSTANTS
  Connections = {a}
  Scopes = {connection}
  DefaultScope = connection
  HistoryLimit = 3
  Drainers = {worker}
  Worker = worker
  Outcomes = {"active", "current"}
  MaxJobs = 3
  MaxChanges = 1
  MaxStops = 0
  Nothing = Nothing
\* Requests end when the bound on jobs is reached.
CHECK_DEADLOCK FALSE
PROPERTIES RequestRepairs
