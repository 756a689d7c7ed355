\* The services around the engine, one at a time.
SPECIFICATION ServicesSpec
CONSTANTS
  \* RateLimiter: a clock that outlives three windows
  Users = {u, v}
  Limit = 2
  Window = 2
  MaxTime = 6
  MaxWaiting = 1
  \* SchemaCache: two readers of one connection, one change of its schema
  Keys = {k}
  Readers = {r1, r2}
  TTL = 2
  MaxCacheTime = 4
  MaxSchemas = 1
  NoEntry = NoEntry
  \* Connections: two handlers over a limit of one
  Ids = {i1, i2, i3}
  Names = {a, b}
  Settings = {x}
  Handlers = {h1, h2}
  ConnectionLimit = 1
  NoConnection = NoConnection
  \* Conversations: two requests, two of them open
  MaxAsked = 2
  MaxOpen = 2
  HistoryTurns = 3
  NoHistory = NoHistory
  \* Checkpoints
  MaxRuns = 3
  Questions = {q}
  Sources = {c1, c2}
  NoCheckpoint = NoCheckpoint
  \* LlmSettings: one value of the environment, one of somebody's
  Values = {e, w}
  Environment = e
  Empty = Empty
  NoValue = NoValue
  Savers = {m1, m2}
  \* TenantStores: more templates than the limit and what overlap lets past it
  Templates = {t1, t2, t3}
  Metrics = {s}
  Definitions = {d}
  Clerks = {l1, l2}
  TemplateLimit = 1
  MaxRecords = 3
  NoDefinition = NoDefinition
  \* ContextGraph: two builds at a time, a page smaller than what a build finds
  Snapshots <- GraphSnapshots
  Builders = {b1, b2}
  FindLimit = 2
  MaxBuilds = 3
  NoSnapshot = NoSnapshot
  \* ContextPackage: budgets for nothing, the schema alone, some and all sections
  TableNames = {"o", "u", "x"}
  ColumnNames = {"id", "email", "name", "note", "o_id"}
  Sensitive = {"email"}
  FreeText = {"note"}
  Refers <- PackageRefers
  MaxDimension = 3
  MaxHinted = 3
  HintColumns = 1
  NoSection = NoSection
  SourceSchemas <- PackageSchemas
  MetricSets <- PackageMetrics
  OntologySets <- PackageOntologies
  Budgets = {6, 13, 16, 20}
  TableCap = 2
  ColumnCap = 1
  \* PlanPipeline: two attempts, the schema changes once
  Catalogs <- PlanCatalogs
  Proposals <- PlanProposals
  Unqualified = Unqualified
  Star = Star
  Omitted = Omitted
  NoPlan = NoPlan
  Aggregates = {"count", "sum", "avg", "count_distinct"}
  Truncates = TRUE
  MaxAttempts = 2
  DefaultLimit = 2
  MaxResultRows = 5
  MaxAlterations = 1
  \* Answering: as many steps as the analyst makes
  Results <- PlanResults
  Tagged <- TaggedColumns
  Categories = {"email", "card"}
  MaxSteps = 3
\* Questions end, and clocks and requests are bounded.
CHECK_DEADLOCK FALSE
INVARIANTS
  ServicesTypeOK WindowRespected ServedIsRecent CatalogSound TurnsRecorded FollowUpSeesTurns
  LineageGoesBack SettingsSurvive CountsCover GraphIsCurrent SensitiveUnnamed WithinBudget
  SqlIsGrounded AnswerGuarded
PROPERTIES NoNeedlessDenial UpdatesMerge GoneForGood
