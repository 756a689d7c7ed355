# A TLA+ model of DataHek

DataHek (`src/datahek`) lets people ask questions of their databases in plain
language. A question is planned by a language model, checked by guardrails,
possibly put before a human, run on the source database and written into an
audit trail. Beside that, DataHek builds and keeps a *context* of every
connected database, versioned, reviewable by humans and rebuilt when the schema
moves on.

This directory holds TLA+ modules for the parts of that program that keep state
and can interleave or fail, TLC configurations that check them on small
instances, and proofs that TLAPS checks for every value of the constants.
Paths below are relative to `src/datahek` unless they say otherwise.

## 1. The system

Everything of one process runs on one asyncio event loop. A call gives the loop
away where it waits: `asyncio.to_thread` around a SQLite connection of the
context, conversation and prompt stores, calls of models and sources, Redis. Of
PostgreSQL (`defaults/pg.py`) it is `connect()` that waits; statements on the
connection it hands out do not. A coroutine that awaits only coroutines that
never suspend (the SQLite approval, saved-query, checkpoint and semantics
stores, the local connection manager, the rate limiter, the rebuild queue's
`enqueue`) is atomic within its process. The API and the MCP server are separate
processes and share the database; several API processes may run over one
PostgreSQL. Nothing but the migration lock spans processes.

| component | state | operations | talks to |
|---|---|---|---|
| context registry (`context/registry.py`, `context/lifecycle.py`, `defaults/context_store*.py`) | tables `context_records`, `context_artifacts` | `publish`, `invalidate`, `active`, `is_current`, `get`, `set_state` | called by builds, reviews, retrieval |
| context build (`context/jobs/build_context.py`, `context/enrichment.py`, profiler, taxonomy, topology, granularity, quality) | one run's stage and artifacts | `run` with retried stages | source, model, registry |
| human validation (`context/validation.py`) | none of its own | `list_pending`, `apply` | registry |
| retrieval (`context/retriever.py`) | none | `retrieve` with a staleness flag | registry |
| composition (`context/composer.py`, `context/compiler.py`) | none | pure | retrieval, planner |
| context graph (`context/graph`) | nodes and relationships | `build` with prune | artifacts of a build |
| rebuild queue (`context/jobs/rebuild_queue.py`) | job history, queue, worker task | `enqueue`, `run_pending`, `start`, `stop` | API handlers, build |
| planner (`engine/planner.py`, `engine/plan.py`) | attempts of one question | `plan` | model, schema service, context |
| engine (`engine/executor.py`, `engine/guardrails.py`, `engine/compile.py`) | one execution | `execute` | guardrails, policy, approvals, connectors, masking, audit, evaluation |
| answering (`engine/reasoner.py`, `verifier.py`, `suggestions.py`, `masking.py`, `defaults/guardrails.py`) | one answer | explain, scan, audit, record, reply | engine, models, conversations |
| approvals (`defaults/approvals*.py`) | table of requests | `request`, `decide`, `status`, `consume` | engine, API |
| analyst (`engine/analyst.py`) | steps of a decomposed question | `run` | planner, engine |
| rate limiter (`defaults/rate_limit.py`) | bucket of hit times per key | `allow` | engine |
| schema service (`engine/schema.py`) | catalog cache with expiry | `get_catalog`, with or without `refresh` | connectors |
| scheduler, saved queries (`defaults/scheduler.py`, `defaults/saved_queries.py`) | tables of queries and schedules, one polling task per process | `tick`, `mark_schedule_run`, create, delete | planner, engine |
| conversations, ask endpoints (`defaults/conversations*.py`, `api/app.py`) | message lists | `append_message`, `ask`, `ask/stream` | everything above |
| connections, entitlements (`defaults/connections*.py`, `kernel/entitlements.py`) | table of connections | add, update, delete | API, schema service |
| checkpoints (`defaults/checkpoints*.py`) | rows of executed plans | `save`, `list`, `get`, fork, replay | engine, API, MCP server |
| prompts, semantics, evaluation (`defaults/prompts*.py`, `semantics*.py`, `evaluation*.py`) | templates, metrics, runs | create, update, delete, record, aggregate | API, engine |
| PostgreSQL pool (`defaults/pg.py`) | schema version | `init_schema` under an advisory lock | every `_pg` store |
| LLM settings (`defaults/models.py`, `defaults/redis_llm.py`) | in memory, and in Redis | configure, save, reload | API |
| MCP server (`mcp_server.py`) | none of its own | `data.ask`, `data.run_saved_query`, `data.replay_checkpoint`, listings | the same stores |

Not candidates for a model: the web application (but for what its approvals page
lets humans decide), the command line, connectors (driver calls), secrets and
authentication, notebooks, documentation, the texts of skills, container wiring
(section 6).

### What is hard about it

* **Multi-step writes without a lock.** `publish()` is seven awaited steps, each
  a transaction of its own; `set_state` is a read and a later write;
  `invalidate` writes what an earlier list told it. Two publications overlap at
  every point, and any step may fail with the earlier ones done.
* **Values used long after they were read.** A build publishes a schema it
  introspected minutes ago; a human decides on a position in a list they saw
  before somebody rebuilt it; a rebuild request is absorbed by a job that may
  already have looked.
* **One-shot things across processes.** `consume` of an approval reads and then
  writes; with PostgreSQL, or two processes over one SQLite file, another
  execution fits in between. `decide` looks at no status, so what is over can be
  decided again.
* **Many exits.** `Engine.execute` has a dozen ways out, each of which has to
  close the client and leave the trail consistent.
* **Bounded memories.** The history that deduplicates rebuild jobs and the
  bucket of the limiter are cut; what they forget must not matter.
* **Two writes for one fact.** A turn is two messages, a setting is in memory and
  in Redis, an update is a read and a later write, a fork is saved and then
  found again as "the newest". Other requests, failures and restarts come
  between.
* **Names resolved twice.** A plan is made over one schema, validated over
  another and compiled without looking; each stage has rules of its own for
  what a bare name means.
* **The same answer by four ways.** `/ask`, `/ask/stream`, the MCP tool and a
  replay mask, scan, record and audit in orders of their own.
* **Promises over time.** A stale context must eventually be rebuilt, an
  accepted job and a due schedule run, an approved question answered, and a
  process that starts must come to serve.

What makes each component correct is listed with its module in section 3; the
hazards are enumerated, each at its line, in `PROJECT.json`.

## 2. Plan

Done, in this order:

1. `Lifecycle`, `ContextVersion`, `ContextRegistry`: the registry under any
   interleaving and failure, and the abstract counter its readers see. Proofs
   in `ContextRegistryProofs` and `ContextRegistryRefinement`.
2. `ContextBuild` on top of it (EXTENDS): builds and reviews.
3. `RebuildQueue`: the queue, its worker and its requests.
4. `OneShotGrant` (abstract) and `GuardedQuery`: questions through the engine,
   approvals, the trail. Proofs in `GuardedQueryProofs`.
5. `RateLimiter`, proofs in `RateLimiterProofs`.
6. `Scheduler`: schedules, their ticks, and what fails or is deleted meanwhile.
7. `SchemaCache`: overlapping introspections, expiry and refresh.
8. `Conversations`, `Answering`: the turns of overlapping requests; the way from
   rows to what is shown and kept.
9. `Connections`, `Checkpoints`, `LlmSettings`, `TenantStores`: the stores and
   the handlers over them.
10. `ContextGraph`, `Migrations`: overlapping builds of a graph; the start of
    several processes.
11. `ContextDerivation`, `ContextPackage`, `PlanPipeline`: the pure algorithms,
    as operators, in the pipelines that call them.

Modules 5 to 11 share no state with one another and are checked side by side by
two composed instances, `MCServices` and `MCBackground` (section 4).

12. Proofs of every safety invariant and action property the runs check:
    `ContextBuildProofs` over `ContextRegistryRefinement`, the rest of
    `GuardedQueryProofs`, `StoresProofs` (connections, settings, templates,
    metrics, evaluation runs, checkpoints), `BackgroundProofs` (queue, scheduler,
    migrations) and `QuestionProofs` (cache, conversations, planning, answering,
    graph, package). Section 5 says along which argument.

To come, proofs only:

13. What several processes still keep, where the proved property is of one: by
    how much executions can exceed approvals with `Shared = TRUE`, and how far
    apart the runs of a schedule are that one of several schedulers marks.
14. What the operators of the pure modules promise to their callers, stated of
    the operators alone: what `Valid` leaves to `Sql`, what `Cap` makes of any
    limit, what `Quality` requires of the artifacts.

## 3. The modules

### Lifecycle, ContextVersion, ContextRegistry

`Lifecycle` is the table `LEGAL_TRANSITIONS`. `ContextRegistry` has the two
tables as functions (`records`, `store`) and, per client, the call it is in.
A step is one awaited store call: `BeginPublish` (the read of the active
record, from which version and predecessor are taken), `Register`,
`PutArtifact` one kind at a time, `CheckActivate`/`Activate` (the two halves of
`set_state`), `GetPublished`, `CheckSupersede`/`Supersede`; `BeginInvalidate`,
`MarkStale`, `EndInvalidate`; `Fail` ends a call before any of its statements
and stands for an error of the database and for the death of the process alike,
since nothing is undone in either case. Ids are drawn fresh (`entity_id`).

`AppSpec` is how the application uses the service (publications that never
require validation, no invalidation); `Spec` is all the service offers.

* `ServedIsComplete`: a record out of GENERATED has all its artifacts.
* `PredecessorRetired`: when `publish` returns, what it replaced is out of service.
* `PublishedIsImmutable`, `WithdrawnIsNeverServed`: action properties over the
  upserts and the writes decided on old reads.
* `ServesVersionsInOrder`: as the application uses it, the version a scope's
  readers are served implements `ContextVersion`, a counter that never falls
  back or goes dark.

What the code does *not* keep, and the model shows when asked: two overlapping
publications may both take the same version number; a publication that fails
after activating leaves two ACTIVE records until the next one; `invalidate`
can write STALE over a record superseded since it was listed, against
`LEGAL_TRANSITIONS`. None of it reaches a reader, which is what
`ServesVersionsInOrder` says.

### ContextBuild

The build job's stages and the review of a human, each ending in the
publication steps of `ContextRegistry`. The source's schema is a hash that
`Alter` changes at any time. Artifacts that depend on the snapshot alone go with
the schema artifact; the ontology is a few numbered slots with a concept and a
status, what a model proposes being an input. PUBLISH is retried from its first
step with a new id, as the code does.

* `HashMatchesSnapshot`: the hash by which builds decide that there is nothing
  to do is the hash of the snapshot stored with it.
* `AnswerIsServed`: a version a build or a review reports is served, or a later one.
* `EventuallyFresh`: if the schema comes to rest and builds keep being
  requested, the present schema ends up being served, for good.
* `HumanDecisionsStand` is violated: a build publishes the enricher's answer (or
  none), in which no decision of a human is left.

Two further losses have the same root, that neither a review nor a decision
names the version it is about: of two overlapping reviews the later one drops
the decisions of the earlier, and a decision taken while a build publishes lands
on another concept than the human was shown.

### RebuildQueue

`enqueue` and the code around a build in `_execute` never wait and are one step
each; the build is split where it introspects (`Take`) and where it ends
(`Complete`), with the changes of the schema in between remembered. `history` is
cut to `HistoryLimit` as in the code. All of it is in the memory of the API
process, whose lifespan starts the worker and stops it (`api/app.py:464-467`,
`493-498`): `Stop` is the shutdown, after which jobs, history and queue are gone.

* `Deduplicated`, `LiveRemembered`: with no more targets than the history holds.
  With more of them waiting, a live job falls out of the history and its target
  is enqueued again.
* `EveryJobRuns`: an accepted job runs, whatever the builds before it end in,
  unless the application shuts down first. A job that was answered with an id and
  had not run is then lost; nothing in the repository promises otherwise.
* `RequestRepairs` is violated by a request that a running job absorbs.
  The same property fails for any scope but "connection", because `_execute`
  does not hand the scope on, and after a build whose record was superseded
  before it was read back: "superseded" is no terminal state, so the job stands
  for its target for ever.

The preview of a package is no request for a rebuild here, although
`docs/context/CONTEXT-LAYER.md:381` has it enqueue one: it calls `retrieve`
without a hash (`api/app.py:693`), so no context is ever found stale and the
branch that would enqueue is not reached.

### OneShotGrant, GuardedQuery

`OneShotGrant` is the state machine `HOW_IT_WORKS.md:357-366` draws: a query
waits, a human approves or rejects it while it waits, an approval lets one query
through; rejected and used are ends. `GuardedQuery` has the table
of requests, the callers and where `Engine.execute` waits for each of them
(`pc`), the clients of sources that are open and the audit events of the
execution under way. A question is the sequence of its steps' verdicts:
`plain`, `gated`, `denied`; the analyst executes them one after another under
one approval id and falls back to a whole plan when a step raises. `Failures`
says what may fail. `Shared = FALSE` is one process over SQLite, where the reads
and writes that settle an approval run without giving the loop away; `Shared =
TRUE` is PostgreSQL, or several processes.

Histories count how often a request was approved and how many executions it let
through. Ids are never reused by the code; in the model one whose request is
over and that nobody names stands for a fresh one. Steps the planner cannot plan
are left out.

* `OneShot`: executions let through are no more than approvals given, in one
  process over SQLite, for any callers and questions. It is violated with
  `Shared = TRUE`.
* `GrantsAsPromised`, that the table implements `OneShotGrant`, is violated:
  `decide` updates the row whatever its status is
  (`defaults/approvals_sqlite.py:73-83`, `approvals_pg.py:43-54`,
  `approvals.py:26-34`), and the endpoint checks nothing either
  (`api/app.py:1185`), so that what was rejected, or approved and used, can be
  approved again. It holds, in one process over SQLite, if humans decide only
  what is waiting (`CarefulSpec`), which is what the approvals page of the web
  application offers its buttons for; that is proved, as `GrantsImplemented`.
* `NoClientLeft`, `TrailExplains`: on every exit, in one process or several.
* `ApprovedIsAnswered` is violated by a question two of whose steps need
  approval: each approval pays for the first of them again.

Also seen: an approval is consumed before the source is connected and is lost
when that fails; a `DatahekError` of the connector, which is what the connectors
make of a query the source rejects, or an error of masking or of the evaluation
store after the query ran, leaves no outcome in the trail, where the
repository's `README.md:32` has every execution recorded (`TrailExplains`
therefore says "at most one outcome").

### RateLimiter

The clock, each user's bucket, the questions planned and not yet executed, and
as history the times of what was let through. `allow` never waits: `Admit` and
`Deny` are the two answers. The limiter is asked when the plan exists, so a
question that is refused has already cost the calls of the model.

* `WindowRespected`: any `Limit + 1` admissions span more than the window.
* `NoNeedlessDenial`: nobody is refused unless the window is full of
  admissions of the same user.

### Scheduler

The tables of saved queries and schedules, the handlers that create and delete
them, and per process the scheduler's task with what is left of its due list.
The store never suspends, so a step runs from one awaited query to the next:
`SchedTick` reads the list and starts its head, `EndRun` is the end of a run,
its mark and the start of the next. `POST /schedules` is `CheckSchedule` and
`InsertSchedule`. `MarkFails` ends the tick, `StopTask` and `StartTask` are a
restart.

* `RunsSpaced`: with one scheduler, a marked run of a schedule begins at least
  its interval after the *tick* of the one marked before it, however late it was:
  missed runs are not made up for. It is not that the runs begin an interval
  apart. `mark_schedule_run` counts from the tick's `now`, and a run that waited
  behind others of its tick began later than that, by as much as the next may
  then be too early. The history keeps both times of a run.
* `DueIsRun`: a due schedule is run and marked, or deleted, whatever fails.

The table has no claim: of two API processes each runs what is due, which is why
`RunsSpaced` is of one. A schedule deleted during a tick still has its turn in
that tick. Saved queries stay in SQLite when the other stores are PostgreSQL.

### SchemaCache

`get_catalog` as `Hit`, or `Miss`, `Introspect`, `Store`, with any number of
calls overlapping; the schemas a database had are kept with the times at which
they were replaced.

* `ServedIsRecent`: what is served was the source's schema less than the expiry
  before the call, and after its beginning when a refresh was asked for. It
  holds although the answer that ends last is the one that is kept: an entry is
  as old as the moment before its introspection.

Nothing invalidates an entry: a connection pointed elsewhere is `AlterSource`.

### Conversations

The messages of one conversation and, per request, where it is. `/ask` records
question and answer when it is done; a stream records the question and a
placeholder before it begins, and both again when it is clarified or
decomposed. Either append, and the client of a stream, may go away.

* `TurnsRecorded`: a request's answers follow its questions one by one, and when
  the client has its answer the conversation has it too.
* `FollowUpSeesTurns`: of every turn that was answered before it began, a
  question is planned with the question and, unless it was streamed as it was
  explained, with the answer; but for what at least as many messages as the
  history holds have followed.

Of an answer streamed as it was explained nothing but "[streamed result]" is
kept (`api/app.py:316-317`, `1361`): a follow-up's planner is told that there
was an answer and not which. And the history is six messages (`api/app.py:190`,
`198`), three turns, where `HOW_IT_WORKS.md:239` speaks of the last six turns;
in the model it is a constant.

### Answering

From the rows of a source to an answer: masking in `Execute`, what the models
see and write, `Scan`, `Audit`, `RecordText`, `Reply`, in the order of each
endpoint, with the several steps of the analyst and its fallback. A text is the
set of categories the output guardrail would find.

* `AnswerGuarded`: neither a model nor a client is given a marked column under
  its own name from the table its plan reads, a recorded or sent answer holds
  nothing the guardrail knows, and what was taken out is reported and was handed
  to the audit.

Its exceptions are what the code does: an alias of a marked column, and a column
of a joined table, are not masked; a replayed plan is neither masked nor
scanned; `data.ask` scans nothing; a stream is scanned chunk by chunk; the text
of a clarification and the notes of the verifier and the suggester go out as
they are.

### Connections

Create, update and delete, split where `connect()` waits (`durable` says whether
PostgreSQL is configured). An update is the handler's read of the stored
settings, the manager's read of the row, the check of a changed name, the write.

* `CatalogSound`: names are unique with the local manager, and the limit of the
  entitlement is exceeded by at most the requests that overlap.
* `UpdatesMerge`: an update never revives a deleted connection, and with the
  local manager never loses settings.

With PostgreSQL two overlapping requests do take the same name, and an update
loses what another one merged.

### Checkpoints

Runs that are asked, forked, replayed or of a saved query, and the checkpoints
they leave. A fork runs its question and then gives the newest checkpoint of the
project its lineage: one step over SQLite (`LabelNewest`), two over PostgreSQL,
of which the second inserts an id that is there and passes over the error, so
that no lineage is ever kept.

* `LineageGoesBack`: no checkpoint is a fork of itself or of a later one.
* `AnsweredByItsConnection` is violated: a saved query is replayed from the
  newest checkpoint with its words, on whatever connection that was of.

The fork of a question that saved nothing labels the checkpoint of another
request. `LineageGoesBack` does not tell: it says how lineage is ordered, not
whose it is.

### LlmSettings

The settings in memory and the hash in Redis, by two fields of which only one
may be emptied. `Configure` changes the memory, `SaveSettings` follows or fails,
`RestartApi` reloads. That a base URL loses its trailing slashes on the way in is
formatting and left out.

* `SettingsSurvive`: a restart changes no field but those the history
  `in_doubt` names: set by overlapping requests, emptied, or not saved.

### TenantStores

Templates under their limit, metrics found, merged and written, evaluation runs
listed and then totalled, in steps where the stores suspend.

* `CountsCover`: however many creations overlap, the templates are fewer than
  the limit and the clerks together, and a report totals every run it lists.
* `GoneForGood`: no overlapping update brings back what was deleted.

### Migrations

`init_schema` of several processes and releases: connect, take the advisory
lock, read the versions, each migration in a transaction that ends with its row.
A crash undoes the transaction and frees the lock.

* `MigratedOnce`: the statements of a version take effect exactly when it is
  recorded, in order, and a process serves over every version it knows.
* `EveryoneServes`: nobody waits for the lock for ever.

### ContextGraph

Every write of `SchemaGraphBuilder` is a step, as it is a session of its own
with Neo4j; the pruning looks at one page of each label. Builds overlap and fail
anywhere. A snapshot is what a build projects: tables, columns, joins, metrics,
concepts.

* `GraphIsCurrent`: no relationship dangles, and after a build that overlapped
  none and saw all of each label the nodes are those of its snapshot.

Relationships are pruned with their nodes only: one that a later snapshot lacks
stays while its ends do, so the second half says "are there", not "are those".

### ContextDerivation, ContextPackage

`ContextDerivation` has the stages of a build as operators over a schema:
`Roles`, `Hinted`, `ProfileTable`, `Taxonomy`, `Topology`, `Grains`,
`MetricGrains`, `Quality`. `ContextPackage` takes what a build derived through
retrieval (`Retrieve`), the budget (`Compose`) and compilation (`Compile`).
`Composed` considers the optional sections one after another, each with what
the ones before it left of the budget, and `Without` drops one. Relevance is a
choice; the cost of a section is the number of its items.

* `SensitiveUnnamed`: nothing a package says of meaning is about a column that
  looks sensitive, whichever sections the budget left, and no value of one was
  read.
* `WithinBudget`: a package is marked insufficient or keeps to its budget, and
  what is missing of it is listed as degraded.

Seen on the way: an ontology keeps its trust PROPOSED after a human approved it,
so quality "validated" is never reached (against
`docs/context/CONTEXT-LAYER.md:655`); rejected concepts and grains stay in
packages; profiles are the first section to be considered and so the last to be
dropped, which the composer's comment tells the other way round.

### PlanPipeline

A question from its schema (a slice of a context, or a catalog that may be old)
through the planner's attempts (`Answer`: `Normalize`, `Valid`), the engine's
second validation (`Revalidate`), the guardrails (`Cap`) and `Sql`. `Proposals`
is what a model may answer, right or wrong. Every rule of `validate_plan` is a
named operator.

* `SqlIsGrounded`: what the SQL selects, aggregates and joins on are columns of
  tables it reads, in the catalog the engine has.

Its three exceptions pass the validation: an aggregate's alias among the selected
columns, the column an absent `on_right` stands for, and a join on "*", which
`validate_plan` lets through in every position since it may stand in an
aggregate. The last one was met while proving the property. Also seen:
`same_plan_ref` compares bare names, so `t.a` passes as grouped by `u.a`; a
join's condition may name a table joined after it; filters and HAVING are not
read; since the guardrail caps plans without a limit, the default limit applies
only to plans that policy or an approval let pass it.

## 4. The runs

| run | instance | what it shows |
|---|---|---|
| `registry_service` | 2 clients, 3 ids, 2 scopes, an artifact of each provenance, every failure | `ServedIsComplete`, `PredecessorRetired`, `PublishedIsImmutable`, `WithdrawnIsNeverServed` |
| `build_overlap` | 2 clients, 2 ids, 2 hashes, a retry, a schema change, every failure | `HashMatchesSnapshot`, `AnswerIsServed`, `ServesVersionsInOrder` |
| `build_rebuild` | 1 builder, 4 ids, 2 schema changes, no failure, fair | `EventuallyFresh` |
| `query_local` | 2 callers, 2 approvals, a question of two steps, every failure | `OneShot`, `NoClientLeft`, `TrailExplains` |
| `background` | queue: 2 targets, history of 2, 4 jobs, a change, a shutdown. Scheduler: 2 schedules, intervals 1 and 2, clock to 4, 2 failures. Migrations: 2 processes, 2 releases, 2 crashes | `Deduplicated`, `LiveRemembered`, `EveryJobRuns`; `RunsSpaced`, `DueIsRun`; `MigratedOnce`, `EveryoneServes` |
| `services` | 11 parts, see below | the properties of modules 5 to 11 but those of `background` |
| `build_forget` | 1 client, 3 ids | violation of `HumanDecisionsStand` |
| `rebuild_running` | 1 target, a change | violation of `RequestRepairs` |
| `query_redecided` | 1 caller, 1 approval | violation of `GrantsAsPromised` |
| `query_shared` | 2 callers, 1 approval, `Shared = TRUE` | violation of `OneShot` |
| `query_twice` | 1 caller, 2 gated steps, fair | violation of `ApprovedIsAnswered` |
| `checkpoint_replay` | 3 runs, 1 question, 2 connections | violation of `AnsweredByItsConnection` |

`MCServices` and `MCBackground` put modules that share no state side by side.
Their product would only multiply states, so a variable `part` says, from the
first state on, which module a behaviour is of; the others rest in one initial
state. Every behaviour of every part is explored in full, and a property of one
holds of the parts at rest as it does initially.

| part of `services` | instance |
|---|---|
| limiter | 2 users, limit 2, window 2, clock to 6 |
| cache | 2 overlapping calls, expiry 2, clock to 4, a schema change |
| connections | 2 handlers, limit 1, 3 ids, 2 names, with and without PostgreSQL |
| conversations | 2 overlapping requests of either endpoint, a history of 3 messages |
| checkpoints | 3 runs of one question and 2 connections, with and without PostgreSQL |
| settings | 2 requests, 2 values, emptied fields, restarts |
| stores | 2 requests, 3 templates under a limit of 1, a metric, 3 evaluation runs |
| graph | 2 overlapping builds of 3, 2 snapshots with three columns between them, a page of 2 nodes |
| package | 14 schemas of two or three tables, 4 budgets |
| plan | 3 catalogs, 2,850 proposals (joins on "*" among them), 2 attempts, a schema change |
| answer | 4 endpoints, up to 3 steps, 2 categories of text |

Why the bounds are enough. Two clients show every pairwise overlap of the
registry's calls, and its properties relate a record to at most one other; three
ids let a third publication start while two are half done. In `build_overlap`
two ids and one retry let a publication fail half way and be done again next to
another. Two targets, a history as long and more jobs than either make the
history forget what it may forget. A limit of two and a clock of three windows
let buckets fill, expire in part and fill again. A clock of four intervals lets
a tick be late, miss a run and find two schedules due; two crashes let either
process lose its transaction, or one lose it twice. A cache clock of twice the
expiry lets an older answer be stored over a newer one and expire. Two requests
interleave their two appends in every order, and a history of three cuts a turn
in half. Two requests under a limit of one template may create two; a third
would be one too many. A graph's page of two is smaller than the three columns
there are when a build of one snapshot follows a build of the other. The budgets are too small for the schema, enough for it alone,
for some sections, and for all. Two attempts are one repair. The properties that
are proved do not depend on these bounds at all.

Symmetry (clients, ids, scopes, hashes, callers) is used where the members are
only compared and the properties are not of liveness. `CHECK_DEADLOCK FALSE`
stands where a bound ends behaviours: ids that run out, jobs, runs, approvals or
the clock that reach their bound, a question that is answered.

Fairness. The event loop runs a task that is ready: weak fairness of a build's
own steps (`RebuildSpec`), of the worker's draining and of the application's
start (`FairSpec`; the worker starts with it, a build ends, and a shutdown
interrupts both), of a scheduler's tick and of the
query it runs (`SchedFairness`), and of the steps of a start (`MigrateFairness`;
the lock is released with the session that holds it, so weak fairness of taking
it is enough while each process takes it a bounded number of times). In
`MCBackground` each of them is restricted to the behaviours of its part. Nothing
is assumed of clients, of failures or of the clock. `EventuallyFresh` is
conditional on builds being requested again and again, which the code does not
guarantee by itself. `PatientSpec` is about people: humans get to what is
pending, and callers come back with the approval they were told about; the
violation found under it does not need anyone to be slow.

## 5. The proofs

**`ContextRegistryProofs`** (`TypeCorrect`, `Completeness`, `Immutability`,
`Withdrawal`), for any sets of clients, ids, scopes, kinds and payloads. None of
the properties is inductive: a record is complete because the call that will
activate it has stored everything it declares and because nobody else touches
it. `IInv` says that of the calls: a publication's record is in the registry
under the scope, version and kinds it was registered with, is still GENERATED
until its own call activates it, and past `put` has all its artifacts; its
predecessor is a published record of the same scope, one version below; no two
publications fill the same record; and what an invalidation still has to mark
was published.

**`ContextRegistryRefinement`** (`ServesInOrder`): under `AppSpec` the served
version implements `ContextVersion`. A publication decides everything on its
first read, and the scope may have moved on by each of its later steps.
`AppInv` adds what makes that safe: a publication whose predecessor has version
v finds an ACTIVE record of at least v in its scope, and of at least its own
version once it is activated; so the highest ACTIVE version is never withdrawn.

**`ContextBuildProofs`** (`BuildTypeCorrect`, `HashesAlwaysMatch`,
`AnswersAlwaysServed`, `BuildsServeInOrder`). Every step of a build or a review
is a step of the registry or leaves it alone, so `AppInv` holds here too and the
refinement carries over. `BuildInv` adds what follows a schema hash on its way,
and nothing less is inductive: from the introspection, or the record under
review, to the job (`JobSound`), from the job to its call of `publish`
(`CallSound`), from there to the record and to the snapshot stored with it
(`RowSound`), each of which says the same hash. A version that was answered is
served because a call that has returned found its record ACTIVE, and
`ServesAtLeast` never falls.

**`ContextRegistryProofs`** also has `PredecessorAlwaysRetired`, of the whole
service: a call past `supersede` left its predecessor superseded or stale, and
neither ever becomes anything but the other.

**`GuardedQueryProofs`** (`TypeCorrect`, `GrantsImplemented`, `OneShotHolds`,
`NoClientEverLeft`, `TrailAlwaysExplains`): the second and third assume
`~Shared`, one process over SQLite, and the second is of `CarefulSpec`, whose
humans decide only what is waiting; without either it is false (`query_shared`,
`query_redecided`). `OneShotHolds` is of `Spec`, whatever humans decide.
`SInv`: at most one call is settling an approval, and what it has read of it
still holds; from it every step of `CarefulNext` maps to a step of
`OneShotGrant` or to none. `Balance`: executions let through, plus one if the request stands
approved, are no more than the approvals given. The other two hold of any number
of processes: `ToldInv` says at each place where an execution waits what its
trail is by then and whether its client is open, which the two properties say
of the exits only.

**`RateLimiterProofs`** (`TypeCorrect`, `WindowHolds`, `DenialsNeeded`), for any
limit and window and an unbounded clock: the bucket is a suffix of the history
of admissions, the history is ordered, and whatever admission the bucket has
lost is older than the window.

**`StoresProofs`**, for any finite number of requests at once.

* `CatalogIsSound`, `UpdatesMergeAlways`. The size of the table alone is no
  invariant: `RoomCounted` bounds the table together with the requests that have
  counted it and not yet inserted. `LocalIsAtomic`: with the local manager only
  one request is between its reads and its write, and what it read still holds.
* `SettingsAlwaysSurvive`. Of a field that is not in doubt at most one request
  has still to be saved, and it holds the value that is in memory.
* `CountsAlwaysCover`, `GoneStaysGone`. Templates are counted as connections
  are; a report's total covers its runs because runs are only ever added.
* `LineageAlwaysGoesBack`. What a fork is of is a row, and stays one, so the
  newest row it labels is another and a later one.

**`BackgroundProofs`**.

* `QueueTypeCorrect` for any number of drainers. `RebuildsDeduplicated` and
  `LiveJobsRemembered` assume that the worker alone takes jobs and that there
  are no more targets than the history holds: with more, both are false. The
  jobs that live are the last ones in order of their ids (`QueueInOrder`), the
  history is the last ones too (`HistoryIsLast`), and live jobs are of different
  targets, so by the pigeonhole principle they fit (`LiveDiffer`). A shutdown
  leaves no job of which any of this could be false (`Forgotten`).
* `RunsAlwaysSpaced` assumes one scheduler process, as `RunsSpaced` does. What a
  tick still has to run was due when it began and has not been marked since
  (`TicksHold`), so its tick is an interval after the tick of its last mark
  (`NextAfterRuns`), and a run begins no earlier than its tick.
* `AlwaysMigratedOnce`. Whoever has read the versions holds the lock
  (`LockHeld`), so what it saw is what is recorded, and the migration it is in
  is the first that is not (`SeesWhatIs`).
* `BackgroundTypesCorrect` is of the composed specification TLC runs.

**`QuestionProofs`**.

* `ServedIsAlwaysRecent`: what is stored or under way is of a schema the source
  had since its introspection was asked for.
* `TurnsAlwaysRecorded`, `FollowUpAlwaysSeesTurns`: only while an answer is being
  recorded is there a question more (`QuestionsCounted`); what was answered
  before a request began lies before the end of the history it read
  (`HistoryHeld`), and what lies before that end was heard or is too long ago
  (`HeardUpTo`).
* `SqlAlwaysGrounded`: what is compiled was validated against the engine's own
  catalog (`Stages`), and of a validated plan the SQL is grounded, for every
  plan and catalog (`SqlOfValidIsGrounded`).
* `AnswersAlwaysGuarded`: by stage and endpoint, what is left of the text, of
  the redactions and of the audit (`TextScanned`, `RedactionsAudited`).
* `GraphAlwaysCurrent`: of a build that is alone, what it has written is there,
  and what is not its own is still to be looked for or found (`Projected`).
* `SensitiveAlwaysUnnamed`, `AlwaysWithinBudget`: what a build derives is
  finite, so that it has a cost, and says nothing of a sensitive column
  (`ArtifactsOK`, from lemmas on `Profiles`, `Taxonomy`, `Topology`, `Grains`);
  composing considers section by section and keeps to the budget at each
  (`PackageOK`).
* `ServicesTypesCorrect`, of the composed specification: all eleven parts keep
  their inductive invariants, and so their types.

The hypotheses are the named ASSUMEs of the modules, which TLC evaluates in
every run, and those stated with a theorem. Some came out of the proofs: a
source's schema has finitely many tables and columns, requests overlap in
finite number, a joined column of a snapshot's graph is of one of its tables,
at most `MaxSteps` > 0 steps are made of a question, a proposal that reads is a
whole plan. Where an argument goes by induction over numbers (the newest
checkpoint, the first pending migration, the list of what is due) it takes the
least number of a set, from `NatLessThanWellFounded` and `WFMin`: the induction
theorems of the library take an operator, which no prover here instantiates.

Only model-checked: `EventuallyFresh`, `EveryJobRuns`, `DueIsRun` and
`EveryoneServes`, since liveness under fairness and ENABLED are beyond what TLAPS
proves here; and the violations, which are counterexamples and need no proof.
That the operators over data compute what the code computes is not a theorem
but the mapping of section 3.

## 6. Not modelled

* The connectors' drivers and introspection queries: I/O whose outcomes (refused,
  rows, rejected, a catalog) are inputs of the models. Of all of them only
  PostgreSQL and SQLite report keys, which `Topology` takes as given.
* Secrets, tenancy and authentication: each model is of one organization and
  project, since every statement of the stores is filtered by them, and a caller
  is one who was let in.
* Kernel and wiring: which store is registered is what `Shared`, `durable`,
  `durably` and `shared` say.
* The PostgreSQL pool, which belongs to psycopg, beyond `connect()` being where
  a coroutine waits.
* The MCP server's listings, token scopes and transport; the search of the audit
  trail; listings of every store. They change nothing and interleave with
  nothing.
* Skills, prompts and the texts models write, but for what a guardrail finds in
  them; the words of feedback and of errors; latencies; how relevance is scored.
* The web application, the command line, notebooks, scripts and the
  documentation site: clients of the API, or text. Of the web application one
  thing is read, which requests its approvals page offers a decision on
  (`DecideWaiting`).
* Seven hazards are listed without a property, each with its reason in
  `PROJECT.json`. In the models four of them are how the code works: a decision
  names a position and no version (`context/validation.py:134`), an approval is
  consumed before the source is connected (`engine/executor.py:188`), an error the
  connector reports, of masking or of evaluation leaves an execution without an
  outcome in the trail (`engine/executor.py:245`), every process runs what is due
  (`defaults/scheduler.py:22`). The preview that asks for no hash
  (`api/app.py:693`) is described with `RebuildQueue`, the fork that labels
  another request's checkpoint (`api/app.py:1079`) with `Checkpoints`. And a
  masked result has lost the plan it was executed with (`engine/masking.py:45`),
  so that its checkpoint holds the plan before the filter: it takes a policy
  engine that filters and a catalog with tags, of which the repository has
  neither.
