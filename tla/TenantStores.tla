---------------------------- MODULE TenantStores ----------------------------
(***************************************************************************)
(* Three small stores of an organization and the handlers of api/app.py    *)
(* over them: prompt templates (defaults/prompts.py, prompts_pg.py),       *)
(* metric definitions (defaults/semantics.py, semantics_pg.py) and         *)
(* evaluation runs (defaults/evaluation.py, evaluation_pg.py,              *)
(* datasets.py).                                                           *)
(*                                                                         *)
(* A handler is split where the store suspends it: templates always, in a  *)
(* thread or connecting to PostgreSQL; the others with PostgreSQL only.    *)
(***************************************************************************)
EXTENDS Naturals, Sequences, FiniteSets

CONSTANTS
  Templates, Metrics,  \* ids
  Definitions,         \* what a metric may be defined as
  Clerks,              \* requests served at the same time
  TemplateLimit,       \* "prompt.templates"
  MaxRecords,          \* bound: evaluation runs
  NoDefinition

ASSUME TenantStoresAssumption ==
  /\ TemplateLimit \in Nat /\ MaxRecords \in Nat
  /\ IsFiniteSet(Clerks) /\ Clerks # {}

VARIABLES
  shared,       \* PostgreSQL is configured
  templates,    \* table prompt_templates
  metrics,      \* table metrics
  records,      \* evaluation runs, oldest first: did the execution succeed?
  used,         \* the ids of templates and metrics ever drawn
  clerk         \* per request, what it does and how far it is

storeVars == <<shared, templates, metrics, records, used, clerk>>

\* The cases of DatasetRunner: what each of the built-in ones expects.
Cases == <<"ok", "denied", "invalid">>

Steps == {"idle", "insert", "drop", "change", "write", "erase", "list", "aggregate",
          "reported", "case"}

\* count: the runs a report lists, then the cases a dataset run has done.
Work == [step : Steps, id : Templates \cup Metrics \cup {NoDefinition},
         definition : Definitions \cup {NoDefinition}, count : Nat, total : Nat]

Resting == [step |-> "idle", id |-> NoDefinition, definition |-> NoDefinition,
            count |-> 0, total |-> 0]

StoresTypeOK ==
  /\ shared \in BOOLEAN
  /\ templates \subseteq Templates
  /\ metrics \in [Metrics -> Definitions \cup {NoDefinition}]
  /\ records \in Seq(BOOLEAN)
  /\ used \subseteq Templates \cup Metrics
  /\ clerk \in [Clerks -> Work]

StoresInit ==
  /\ shared \in BOOLEAN
  /\ templates = {} /\ used = {}
  /\ metrics = [m \in Metrics |-> NoDefinition]
  /\ records = <<>>
  /\ clerk = [c \in Clerks |-> Resting]

Rests(c) == clerk[c].step = "idle"

\* The clerk goes on with step, or is done.
Then(c, step) == clerk' = [clerk EXCEPT ![c].step = step]

Rest(c) == clerk' = [clerk EXCEPT ![c] = Resting]

\* A step of a handler over metrics or evaluations: without PostgreSQL nothing
\* comes between the steps of one.
MayMove(c) == shared \/ \A b \in Clerks \ {c} :
  clerk[b].step \notin {"change", "write", "erase", "list", "aggregate", "case"}

-----------------------------------------------------------------------------
(* Prompt templates.                                                       *)

\* Fault: a template more than the limit is let in.
CountTemplatesLoosely(c, id) ==
  /\ Rests(c) /\ id \notin used
  /\ Cardinality(templates) <= TemplateLimit
  /\ clerk' = [clerk EXCEPT ![c].step = "insert", ![c].id = id]
  /\ used' = used \cup {id}
  /\ UNCHANGED <<shared, templates, metrics, records>>

\* POST /prompts counts the templates ...
CountTemplates(c, id) ==
  /\ Rests(c) /\ id \notin used
  /\ Cardinality(templates) < TemplateLimit
  /\ clerk' = [clerk EXCEPT ![c].step = "insert", ![c].id = id]
  /\ used' = used \cup {id}
  /\ UNCHANGED <<shared, templates, metrics, records>>

\* ... and creates the new one.
InsertTemplate(c) ==
  /\ clerk[c].step = "insert"
  /\ templates' = templates \cup {clerk[c].id}
  /\ Rest(c)
  /\ UNCHANGED <<shared, metrics, records, used>>

\* DELETE /prompts/{id} finds it, then deletes it.
FindTemplate(c, id) ==
  /\ Rests(c) /\ id \in templates
  /\ clerk' = [clerk EXCEPT ![c].step = "drop", ![c].id = id]
  /\ UNCHANGED <<shared, templates, metrics, records, used>>

DropTemplate(c) ==
  /\ clerk[c].step = "drop"
  /\ templates' = templates \ {clerk[c].id}
  /\ Rest(c)
  /\ UNCHANGED <<shared, metrics, records, used>>

-----------------------------------------------------------------------------
(* Metric definitions.                                                     *)

Defined(m) == metrics[m] # NoDefinition

\* POST /semantics.
CreateMetric(c, m, definition) ==
  /\ Rests(c) /\ MayMove(c) /\ m \notin used
  /\ metrics' = [metrics EXCEPT ![m] = definition]
  /\ used' = used \cup {m}
  /\ UNCHANGED <<shared, templates, records, clerk>>

\* PUT /semantics/{id} has found the metric ...
FindMetric(c, m, definition) ==
  /\ Rests(c) /\ MayMove(c) /\ Defined(m)
  /\ clerk' = [clerk EXCEPT ![c].step = "change", ![c].id = m, ![c].definition = definition]
  /\ UNCHANGED <<shared, templates, metrics, records, used>>

\* ... update() reads it again, to merge the patch into it: the patch has all
\* there is to a definition ...
MergeMetric(c) ==
  /\ clerk[c].step = "change" /\ MayMove(c)
  /\ IF Defined(clerk[c].id) THEN Then(c, "write") ELSE Rest(c)
  /\ UNCHANGED <<shared, templates, metrics, records, used>>

\* Fault: the row is inserted when it is not there.
UpsertMetric(c) ==
  /\ clerk[c].step = "write" /\ MayMove(c)
  /\ metrics' = [metrics EXCEPT ![clerk[c].id] = clerk[c].definition]
  /\ Rest(c)
  /\ UNCHANGED <<shared, templates, records, used>>

\* ... and the row is updated, if it is still there.
WriteMetric(c) ==
  /\ clerk[c].step = "write" /\ MayMove(c)
  /\ metrics' = [metrics EXCEPT ![clerk[c].id] =
       IF Defined(clerk[c].id) THEN clerk[c].definition ELSE @]
  /\ Rest(c)
  /\ UNCHANGED <<shared, templates, records, used>>

\* DELETE /semantics/{id} finds it, then deletes it.
FindToErase(c, m) ==
  /\ Rests(c) /\ MayMove(c) /\ Defined(m)
  /\ clerk' = [clerk EXCEPT ![c].step = "erase", ![c].id = m]
  /\ UNCHANGED <<shared, templates, metrics, records, used>>

EraseMetric(c) ==
  /\ clerk[c].step = "erase" /\ MayMove(c)
  /\ metrics' = [metrics EXCEPT ![clerk[c].id] = NoDefinition]
  /\ Rest(c)
  /\ UNCHANGED <<shared, templates, records, used>>

-----------------------------------------------------------------------------
(* Evaluation runs.                                                        *)

\* on_execution_completed(): an execution is scored and recorded.
RecordExecution(passed) ==
  /\ Len(records) < MaxRecords
  /\ \A c \in Clerks : shared \/ clerk[c].step \notin {"list", "aggregate"}
  /\ records' = Append(records, passed)
  /\ UNCHANGED <<shared, templates, metrics, used, clerk>>

\* GET /evaluations: the runs, then their aggregate.
BeginReport(c) ==
  /\ Rests(c) /\ MayMove(c) /\ Then(c, "list")
  /\ UNCHANGED <<shared, templates, metrics, records, used>>

ListRuns(c) ==
  /\ clerk[c].step = "list" /\ MayMove(c)
  /\ clerk' = [clerk EXCEPT ![c].step = "aggregate", ![c].count = Len(records)]
  /\ UNCHANGED <<shared, templates, metrics, records, used>>

AggregateRuns(c) ==
  /\ clerk[c].step = "aggregate" /\ MayMove(c)
  /\ clerk' = [clerk EXCEPT ![c].step = "reported", ![c].total = Len(records)]
  /\ UNCHANGED <<shared, templates, metrics, records, used>>

Reported(c) ==
  /\ clerk[c].step = "reported" /\ Rest(c)
  /\ UNCHANGED <<shared, templates, metrics, records, used>>

\* POST /evaluations/run: the built-in cases go through the engine one by one.
BeginCases(c) ==
  /\ Rests(c) /\ MayMove(c) /\ Then(c, "case")
  /\ UNCHANGED <<shared, templates, metrics, records, used>>

\* One case is run and recorded: only what is executed counts as an execution,
\* though a case that is denied as it should be has passed in the report.
RunCase(c) ==
  /\ clerk[c].step = "case" /\ MayMove(c) /\ Len(records) < MaxRecords
  /\ records' = Append(records, Cases[clerk[c].count + 1] = "ok")
  /\ IF clerk[c].count + 1 = Len(Cases) THEN Rest(c)
     ELSE clerk' = [clerk EXCEPT ![c].count = @ + 1]
  /\ UNCHANGED <<shared, templates, metrics, used>>

\* A statement fails and ends the request.
ClerkFails(c) ==
  /\ ~ Rests(c) /\ Rest(c)
  /\ UNCHANGED <<shared, templates, metrics, records, used>>

StoresNext ==
  \/ \E passed \in BOOLEAN : RecordExecution(passed)
  \/ \E c \in Clerks :
       \/ \E id \in Templates : CountTemplates(c, id) \/ FindTemplate(c, id)
       \/ InsertTemplate(c) \/ DropTemplate(c)
       \/ \E m \in Metrics : FindToErase(c, m) \/
            \E definition \in Definitions :
              CreateMetric(c, m, definition) \/ FindMetric(c, m, definition)
       \/ MergeMetric(c) \/ WriteMetric(c) \/ EraseMetric(c)
       \/ BeginReport(c) \/ ListRuns(c) \/ AggregateRuns(c) \/ Reported(c)
       \/ BeginCases(c) \/ RunCase(c) \/ ClerkFails(c)

StoresSpec == StoresInit /\ [][StoresNext]_storeVars

-----------------------------------------------------------------------------
(* Properties.                                                             *)

\* A metric or a template that was deleted never comes back: no request that
\* found it before writes it again (update_metric, update; create_prompt).
GoneForGood == [][
  /\ \A m \in Metrics : m \in used /\ Defined(m)' => Defined(m)
  /\ \A t \in templates' : t \in templates \/ \E c \in Clerks :
       clerk[c].step = "insert" /\ clerk[c].id = t]_storeVars

\* However requests overlap: no more templates are there than the limit and the
\* requests that were counting; and the total GET /evaluations reports covers
\* the runs it shows, whatever was recorded between its two reads (create_prompt,
\* evaluations).
CountsCover ==
  /\ Cardinality(templates) <= TemplateLimit + Cardinality(Clerks) - 1
  /\ \A c \in Clerks : clerk[c].step = "reported" =>
       /\ clerk[c].total >= clerk[c].count
       /\ ~ shared => clerk[c].total = clerk[c].count

=============================================================================
