--------------------------- MODULE PlanPipeline ---------------------------
(***************************************************************************)
(* From a question to SQL: the planner asks the model for a plan over the  *)
(* schema its context package or the live catalog describes, and asks      *)
(* again with feedback (engine/planner.py); the plan is validated against  *)
(* that schema, and by the engine against the catalog it has then          *)
(* (engine/plan.py, engine/executor.py); the guardrails let it pass, cap   *)
(* its rows or refuse it (engine/guardrails.py); and it is compiled to SQL *)
(* (engine/compile.py).  The source's schema may change at any time.       *)
(*                                                                         *)
(* A plan has one node: compile_sql reads no other.  A reference is a name *)
(* with or without its table, or either inside DATE_TRUNC.  The text of    *)
(* filters, of HAVING and of ORDER BY goes into the SQL unread and is not  *)
(* modelled.  Approvals, policy and execution are in GuardedQuery.         *)
(***************************************************************************)
EXTENDS Naturals, FiniteSets

CONSTANTS
  Catalogs,      \* catalogs: table -> [column -> type family]
  Proposals,     \* plans the model may answer with
  Unqualified,   \* the table of a reference that names none
  Star,          \* the column of count(*) and SELECT *
  Omitted,       \* in a plan: no on_right, or no limit
  NoPlan,        \* nothing planned or compiled
  Aggregates,    \* aggregate functions of the dialect
  Truncates,     \* whether the dialect has DATE_TRUNC
  MaxAttempts,   \* MAX_PLAN_ATTEMPTS
  DefaultLimit,  \* DATAHEK_DEFAULT_LIMIT
  MaxResultRows, \* max_result_rows of the provider
  MaxAlterations \* bound: changes of the source's schema

PlanFields == {"writes", "source", "columns", "groupBy", "aggregates", "joins", "orderBy",
               "having", "limit"}

ASSUME PlanAssumption ==
  /\ MaxAttempts \in Nat \ {0} /\ MaxAlterations \in Nat
  /\ {DefaultLimit, MaxResultRows} \subseteq Nat \ {0}
  /\ \A plan \in Proposals : plan = NoPlan \/ plan.writes \/ DOMAIN plan = PlanFields

VARIABLES
  live,      \* the source's schema
  altered,   \* how often it has changed
  cached,    \* the catalog SchemaService holds
  described, \* the schema the served context describes, if there is one
  question   \* how far the question is

planVars == <<live, altered, cached, described, question>>

NoQuestion == [at |-> "new"]

-----------------------------------------------------------------------------
(* References.                                                             *)

IsStar(ref) == ref.table = Unqualified /\ ref.name = Star

ColumnsIn(catalog, t) == IF t \in DOMAIN catalog THEN DOMAIN catalog[t] ELSE {}

\* same_plan_ref(): bare names alike, or the same truncation.
SameRef(left, right) ==
  IF left.truncated /\ right.truncated THEN left = right
  ELSE ~ left.truncated /\ ~ right.truncated /\ left.name = right.name

JoinTables(node) == { j.table : j \in node.joins }

\* _resolve()
Resolves(ref, default, node, catalog) ==
  \/ IsStar(ref)
  \/ /\ ref.truncated => Truncates
     /\ IF ref.table = Unqualified THEN ref.name \in ColumnsIn(catalog, default)
        ELSE /\ ref.table \in JoinTables(node) \cup {node.source}
             /\ ref.name \in ColumnsIn(catalog, ref.table)

\* _type_of(): the family of the reference's type, where one is known.
KnownFamily(ref, default, catalog) ==
  LET t == IF ref.table = Unqualified THEN default ELSE ref.table
  IN { catalog[t][name] : name \in { n \in ColumnsIn(catalog, t) :
                                       ~ ref.truncated /\ n = ref.name } }

-----------------------------------------------------------------------------
(* validate_plan()                                                         *)

ComparableTypes(j, node, catalog) ==
  j.right # Omitted =>
    \A left \in KnownFamily(j.left, node.source, catalog),
       right \in KnownFamily(j.right, j.table, catalog) :
      "other" \in {left, right} \/ left = right

JoinValid(j, node, catalog) ==
  /\ j.table # node.source /\ j.table \in DOMAIN catalog
  /\ Resolves(j.left, node.source, node, catalog)
  /\ j.right # Omitted => Resolves(j.right, j.table, node, catalog)
  /\ ComparableTypes(j, node, catalog)

Aliases(node) == { a.alias : a \in node.aggregates }

\* An aggregate's alias repeated in the select or the group list is let pass.
IsAlias(ref, node) ==
  ref.table = Unqualified /\ ~ ref.truncated /\ ref.name \in Aliases(node)

GroupValid(ref, node) ==
  IsAlias(ref, node) \/ \E column \in node.columns : column = ref \/ SameRef(ref, column)

OrderValid(name, node, catalog) ==
  name \in Aliases(node) \cup { column.name : column \in node.columns }
           \cup ColumnsIn(catalog, node.source)

AggregateValid(a, node, catalog) ==
  /\ a.function \in Aggregates
  /\ a.function \in {"sum", "avg"} /\ ~ IsStar(a.column)
       => KnownFamily(a.column, node.source, catalog) \subseteq {"number"}
  /\ ~ (a.function = "count_distinct" /\ IsStar(a.column))
  /\ Resolves(a.column, node.source, node, catalog)

\* A node that writes is not looked at: the read-only guardrail refuses it.
Valid(node, catalog) ==
  /\ node # NoPlan
  /\ ~ node.writes =>
       /\ node.source \in DOMAIN catalog
       /\ \A j \in node.joins : JoinValid(j, node, catalog)
       /\ \A ref \in node.columns : IsAlias(ref, node) \/ Resolves(ref, node.source, node, catalog)
       /\ \A ref \in node.groupBy : GroupValid(ref, node)
       /\ \A name \in node.orderBy : OrderValid(name, node, catalog)
       /\ node.having => node.aggregates # {}
       /\ \A a \in node.aggregates : AggregateValid(a, node, catalog)

-----------------------------------------------------------------------------
(* Planner.plan                                                            *)

\* _normalize_join_refs(): a bare name the source does not have and exactly one
\* joined table has gets that table.
Qualify(ref, node, catalog) ==
  LET having == { j \in node.joins : ref.name \in ColumnsIn(catalog, j.table) }
  IN IF /\ ref.table = Unqualified /\ ~ ref.truncated
        /\ ref.name \notin ColumnsIn(catalog, node.source) /\ Cardinality(having) = 1
     THEN [ref EXCEPT !.table = (CHOOSE j \in having : TRUE).table]
     ELSE ref

Normalize(node, catalog) ==
  IF node = NoPlan \/ node.writes \/ node.joins = {} THEN node
  ELSE [node EXCEPT
          !.columns = { Qualify(ref, node, catalog) : ref \in @ },
          !.groupBy = { Qualify(ref, node, catalog) : ref \in @ },
          !.aggregates = { [a EXCEPT !.column = IF IsStar(@) THEN @
                                                ELSE Qualify(@, node, catalog)] : a \in @ }]

Conclude(result) == question' = [at |-> result]

UnchangedSource == UNCHANGED <<live, altered, cached, described>>

\* SchemaService.get_catalog: what the cache has, or the source's when it is old.
ReadCatalog(catalog) == catalog \in {cached, live} /\ cached' = catalog

Slices == { [t \in tables |-> described[t]] : tables \in SUBSET DOMAIN described \ {{}} }

\* The input guardrail lets the question pass and the schema to plan over is
\* known: the slice of a context, or the live catalog when there is none, the
\* layer fails, or it has none for the question.
StartPlanning ==
  /\ question.at = "new"
  /\ \/ /\ described # NoPlan
        /\ \E slice \in Slices :
             question' = [at |-> "asking", schema |-> slice, attempt |-> 1]
        /\ UNCHANGED cached
     \/ \E catalog \in {cached, live} :
          /\ ReadCatalog(catalog)
          /\ question' = [at |-> "asking", schema |-> catalog, attempt |-> 1]
  /\ UNCHANGED <<live, altered, described>>

\* The input guardrail refuses, or the package is insufficient.
RefuseToPlan ==
  /\ question.at = "new"
  /\ Conclude("refused") \/ (described # NoPlan /\ Conclude("clarified"))
  /\ UnchangedSource

\* The model is rate limited or unavailable, or it asks back or answers with
\* what is no plan.
NoAnswer ==
  /\ question.at = "asking"
  /\ Conclude("unavailable") \/ Conclude("clarified")
  /\ UnchangedSource

\* A plan that is valid over the schema it was asked for ends the loop; another
\* is asked for again, and after the last attempt the user is asked to rephrase.
Answer ==
  /\ question.at = "asking"
  /\ \E proposal \in Proposals :
       LET plan == Normalize(proposal, question.schema) IN
       IF Valid(plan, question.schema) THEN question' = [at |-> "planned", plan |-> plan]
       ELSE IF question.attempt < MaxAttempts
            THEN question' = [question EXCEPT !.attempt = @ + 1]
            ELSE Conclude("clarified")
  /\ UnchangedSource

-----------------------------------------------------------------------------
(* Engine.execute                                                          *)

\* Fault: the planner has validated the plan.
TrustPlanner ==
  /\ question.at = "planned"
  /\ \E catalog \in {cached, live} :
       /\ ReadCatalog(catalog)
       /\ question' = [at |-> "validated", plan |-> question.plan, catalog |-> catalog]
  /\ UNCHANGED <<live, altered, described>>

\* The plan is validated again, against the catalog the engine has now.
Revalidate ==
  /\ question.at = "planned"
  /\ \E catalog \in {cached, live} :
       /\ ReadCatalog(catalog)
       /\ IF Valid(question.plan, catalog)
          THEN question' = [at |-> "validated", plan |-> question.plan, catalog |-> catalog]
          ELSE Conclude("invalid")
  /\ UNCHANGED <<live, altered, described>>

\* PlanComplexityGuardrail
Cap(plan) ==
  IF plan.limit = Omitted \/ plan.limit > MaxResultRows
  THEN [plan EXCEPT !.limit = MaxResultRows] ELSE plan

\* The guardrails: a plan that writes is refused, or gated by policy before
\* that; one that policy filters or an approval lets pass skips the cap.
Guardrails ==
  /\ question.at = "validated"
  /\ \/ Conclude("denied")
     \/ /\ ~ question.plan.writes
        /\ \E plan \in {question.plan, Cap(question.plan)} :
             question' = [question EXCEPT !.at = "cleared", !.plan = plan]
  /\ UnchangedSource

-----------------------------------------------------------------------------
(* compile_sql()                                                           *)

\* "<table>.<name>"
OfTable(ref, t) == [table |-> t, name |-> ref.name, truncated |-> ref.truncated]

\* _qualified()
Qualified(ref, node) ==
  IF node.joins = {} \/ ref.truncated \/ IsStar(ref) \/ ref.table # Unqualified THEN ref
  ELSE OfTable(ref, node.source)

OnLeft(j, node) ==
  IF j.left.table = Unqualified THEN OfTable(j.left, node.source) ELSE j.left

OnRight(j) ==
  LET ref == IF j.right = Omitted THEN OfTable(j.left, Unqualified) ELSE j.right
  IN IF ref.table = Unqualified THEN OfTable(ref, j.table) ELSE ref

\* With aggregates only what is grouped is selected.
Selected(node) ==
  { column \in node.columns :
      node.aggregates = {} \/ \E grouped \in node.groupBy : SameRef(column, grouped) }

Sql(node) ==
  [from |-> node.source,
   joins |-> { [table |-> j.table, left |-> OnLeft(j, node), right |-> OnRight(j),
                implied |-> j.right = Omitted] : j \in node.joins },
   select |-> { Qualified(ref, node) : ref \in Selected(node) },
   computed |-> { Qualified(a.column, node) : a \in node.aggregates },
   aliases |-> Aliases(node),
   limit |-> IF node.limit \in {Omitted, 0} THEN DefaultLimit ELSE node.limit]

CompileSql ==
  /\ question.at = "cleared"
  /\ question' = [at |-> "compiled", sql |-> Sql(question.plan), catalog |-> question.catalog]
  /\ UnchangedSource

-----------------------------------------------------------------------------
\* The source's schema changes under all of this.
Alteration ==
  /\ altered < MaxAlterations
  /\ live' \in Catalogs \ {live}
  /\ altered' = altered + 1
  /\ UNCHANGED <<cached, described, question>>

PlanInit ==
  /\ live \in Catalogs /\ altered = 0
  /\ cached = live /\ described \in {live, NoPlan}
  /\ question = NoQuestion

PlanNext ==
  \/ StartPlanning \/ RefuseToPlan \/ NoAnswer \/ Answer
  \/ Revalidate \/ Guardrails \/ CompileSql
  \/ Alteration

PlanSpec == PlanInit /\ [][PlanNext]_planVars

-----------------------------------------------------------------------------
(* Properties.                                                             *)

PlanTypeOK ==
  /\ live \in Catalogs /\ cached \in Catalogs /\ altered \in 0 .. MaxAlterations
  /\ described \in Catalogs \cup {NoPlan}
  /\ question.at \in {"new", "asking", "planned", "validated", "cleared", "compiled",
                      "refused", "unavailable", "clarified", "invalid", "denied"}
  /\ question.at = "asking" => question.attempt \in 1 .. MaxAttempts

\* A reference of the SQL is to a table it reads and to a column of that table.
Grounded(ref, sql, catalog) ==
  \/ IsStar(ref)
  \/ LET tables == {sql.from} \cup { j.table : j \in sql.joins } IN
     IF ref.table = Unqualified THEN \E t \in tables : ref.name \in ColumnsIn(catalog, t)
     ELSE ref.table \in tables /\ ref.name \in ColumnsIn(catalog, ref.table)

\* Whatever the model answered, and however old the schema it was asked over,
\* the SQL selects, aggregates and joins on columns of the tables it reads, as
\* the catalog the engine has knows them.  Let pass by validate_plan, and so
\* excepted: an alias among the selected columns, the column an absent on_right
\* stands for, and a join on "*", which _resolve() takes for SELECT *.
SqlIsGrounded ==
  question.at = "compiled" =>
    LET sql == question.sql
        grounded(ref) == Grounded(ref, sql, question.catalog) IN
    /\ {sql.from} \cup { j.table : j \in sql.joins } \subseteq DOMAIN question.catalog
    /\ \A ref \in sql.select : ref.name \in sql.aliases \/ grounded(ref)
    /\ \A ref \in sql.computed : grounded(ref)
    /\ \A j \in sql.joins :
         /\ grounded(j.left) \/ j.left.name = Star
         /\ j.implied \/ grounded(j.right) \/ j.right.name = Star

=============================================================================
