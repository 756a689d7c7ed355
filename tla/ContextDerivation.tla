------------------------- MODULE ContextDerivation -------------------------
(***************************************************************************)
(* What a context build derives from an introspected schema, as the        *)
(* ContextBuildJob calls it stage by stage: the statistics and roles of    *)
(* the columns (context/profiler.py), the taxonomy (context/taxonomy.py),  *)
(* the joins (context/topology.py), the grain of each table                *)
(* (context/granularity.py) and the quality of it all                      *)
(* (context/quality.py).                                                   *)
(*                                                                         *)
(* A schema maps each table's name to its rows, its columns in order, its  *)
(* primary key and its foreign keys.  A column has a type family, and the  *)
(* numbers of its values that are not null and that are distinct, which    *)
(* is what the profiler's queries count.  Ratios and confidences are       *)
(* percentages; how names are matched (what looks sensitive, which table   *)
(* an "<entity>_id" may mean) is given by constants.                       *)
(***************************************************************************)
EXTENDS Naturals, FiniteSets, Sequences, SequencesExt, FiniteSetsExt

CONSTANTS
  TableNames,       \* names of tables
  ColumnNames,      \* names of columns
  Sensitive,        \* the names that look sensitive
  FreeText,         \* the names that look like free text
  Refers,           \* the tables an <entity>_id column may mean, best first
  MaxDimension,     \* _DIMENSION_MAX_DISTINCT
  MaxHinted,        \* DATAHEK_PROFILE_HINT_MAX_DISTINCT
  HintColumns,      \* DATAHEK_PROFILE_HINT_MAX_COLUMNS
  NoSection         \* an artifact that is not there

\* The families type_family() sorts types into; a blank type is "other" too.
Families == {"number", "string", "time", "bool", "other"}

ColumnRecords == [name : ColumnNames, family : Families, notnull : Nat, distinct : Nat,
                  typed : BOOLEAN]

TableRecords == [rows : Nat, columns : Seq(ColumnRecords), key : SUBSET ColumnNames,
                 foreign : SUBSET [column : ColumnNames, table : TableNames, key : ColumnNames]]

\* What an introspection may find.
IsSchema(schema) ==
  /\ DOMAIN schema \subseteq TableNames /\ IsFiniteSet(DOMAIN schema)
  /\ \A t \in DOMAIN schema : schema[t] \in TableRecords /\ IsFiniteSet(schema[t].foreign)

ASSUME DerivationAssumption ==
  /\ Sensitive \cup FreeText \subseteq ColumnNames
  /\ Refers \in [ColumnNames -> Seq(TableNames)]
  /\ {MaxDimension, MaxHinted, HintColumns} \subseteq Nat

\* build_schema_context() keeps the catalog's columns in the catalog's order.
Columns(schema, t) == Range(schema[t].columns)

AllColumns(schema) == UNION { {t} \X Columns(schema, t) : t \in DOMAIN schema }

-----------------------------------------------------------------------------
(* SchemaProfiler *)

Unique(column, rows) ==
  column.notnull = rows /\ 100 * column.distinct >= 99 * column.notnull

IsDimension(column) == column.family = "string" /\ column.distinct <= MaxDimension

RolesOf(column, rows) ==
  IF column.family = "time" THEN <<"temporal">>
  ELSE IF Unique(column, rows) THEN <<"identifier">>
  ELSE LET flag == column.family = "bool" \/ column.distinct = 2
       IN SelectSeq(<<"flag", "measure", "dimension">>, LAMBDA role :
            \/ role = "flag" /\ flag
            \/ role = "measure" /\ ~ flag /\ column.family = "number"
            \/ role = "dimension" /\ IsDimension(column))

\* Fault: a column gets roles whatever its name.
RolesOfAny(column, rows) == IF column.notnull = 0 THEN <<>> ELSE RolesOf(column, rows)

\* _role_candidates(): at most one of identifier, flag and measure, and then
\* perhaps dimension; none for a column that looks sensitive or is all null.
Roles(column, rows) ==
  IF column.name \in Sensitive \/ column.notnull = 0 THEN <<>> ELSE RolesOf(column, rows)

\* Columns whose most frequent values are read: the first few string columns
\* that are neither sensitive nor free text, those of them with few values.
Hinted(table) ==
  LET columns == table.columns
      texts == { i \in DOMAIN columns :
                   columns[i].family = "string" /\ columns[i].name \notin Sensitive \cup FreeText }
  IN { columns[i] : i \in { j \in texts :
         /\ Cardinality({ k \in texts : k <= j }) <= HintColumns
         /\ table.rows > 0 /\ columns[j].distinct <= MaxHinted } }

\* The values that profiling reads of a column: bounds and average, or samples.
ReadsValues(column, table) ==
  \/ column.name \notin Sensitive /\ column.family \in {"number", "time"}
  \/ column \in Hinted(table)

\* _profile_table()
ProfileTable(table) ==
  { [name |-> column.name, roles |-> Roles(column, table.rows),
     sensitive |-> column.name \in Sensitive,
     shown |-> ReadsValues(column, table)] : column \in Range(table.columns) }

\* profile(), of the tables the build was asked for.
Profiles(schema, tables) == [t \in tables \cap DOMAIN schema |-> ProfileTable(schema[t])]

-----------------------------------------------------------------------------
(* build_taxonomy_context(): the table's node, and one for each category,  *)
(* which is a column's first role.                                         *)

Categorised(profile, role) ==
  { p.name : p \in { q \in profile : ~ q.sensitive /\ q.roles # <<>> /\ q.roles[1] = role } }

CategoryRoles == {"identifier", "flag", "measure", "temporal", "dimension"}

Taxonomy(profiles) ==
  UNION { {[kind |-> "subdomain", table |-> t, category |-> "none", members |-> {}]}
          \cup { n \in { [kind |-> "category", table |-> t, category |-> role,
                          members |-> Categorised(profiles[t], role)] : role \in CategoryRoles } :
                 n.members # {} }
        : t \in DOMAIN profiles }

-----------------------------------------------------------------------------
(* build_topology_context(): the foreign keys, and the joins inferred from *)
(* names.                                                                  *)

Edge(t, name, target, key, kind) ==
  [left |-> <<t, name>>, right |-> <<target, key>>, kind |-> kind]

ForeignKeys(schema) ==
  UNION { { Edge(t, fk.column, fk.table, fk.key, "fk") : fk \in schema[t].foreign }
          : t \in DOMAIN schema }

\* The first table of the schema an <entity>_id column may mean.
Meant(schema, name) ==
  SelectSeq(Refers[name], LAMBDA t : t \in DOMAIN schema)

IsForeignKey(schema, t, name) == \E fk \in schema[t].foreign : fk.column = name

\* An unconstrained column that means the table another is the whole key of.
MayJoin(schema, p, k) ==
  LET meant == Meant(schema, p[2].name) IN
  /\ ~ IsForeignKey(schema, p[1], p[2].name)
  /\ meant # <<>> /\ Head(meant) = k[1] /\ k[1] # p[1]
  /\ schema[k[1]].key = {k[2].name}
  /\ p[2].family = k[2].family

\* infer_join_edges()
InferredJoins(schema) ==
  UNION { { Edge(p[1], p[2].name, k[1], k[2].name, "inferred") :
              k \in { key \in AllColumns(schema) : MayJoin(schema, p, key) } }
          : p \in AllColumns(schema) }

Topology(schema) == ForeignKeys(schema) \cup InferredJoins(schema)

-----------------------------------------------------------------------------
(* build_granularity_context() *)

\* _pk_confidence()
KeyConfidence(schema, profiles, t) ==
  LET key == schema[t].key
      profiled == { p \in IF profiles = NoSection \/ t \notin DOMAIN profiles
                          THEN {} ELSE profiles[t] : p.name \in key }
  IN CASE key = {} -> 30
       [] Cardinality(key) > 1 -> 80
       [] Cardinality(key) = 1 /\ profiled = {} -> 70
       [] OTHER -> IF \E p \in profiled : "identifier" \in Range(p.roles) THEN 90 ELSE 60

Grains(schema, profiles) ==
  { [table |-> t, confidence |-> KeyConfidence(schema, profiles, t)] : t \in DOMAIN schema }

\* A metric is valid at its table's grain, with a caveat when that is unsure.
MetricGrains(grains, metrics) ==
  { LET of == { grain \in grains : grain.table = m.table } IN
    [metric |-> m.name,
     valid_at |-> IF of = {} THEN "unknown" ELSE m.table,
     caveat |-> of = {} \/ \E grain \in of : grain.confidence < 50] : m \in metrics }

-----------------------------------------------------------------------------
(* evaluate_quality(), of an artifact whose freshness is of its own moment *)
(* (evaluate_freshness without a time to live: "fresh").                   *)

ProposalConfidence == 60  \* of what the model proposes, also once approved

AtLeast(part, whole, percent) == whole > 0 /\ 100 * part >= percent * whole

Completeness(schema, percent) ==
  AtLeast(Cardinality({ c \in AllColumns(schema) : c[2].typed }),
          Cardinality(AllColumns(schema)), percent)

Coverage(schema, profiles, percent) ==
  profiles # NoSection /\
  AtLeast(MapThenSumSet(LAMBDA t : Cardinality(profiles[t]), DOMAIN profiles),
          Cardinality(AllColumns(schema)), percent)

Connected(schema, topology, percent) ==
  AtLeast(Cardinality({ t \in DOMAIN schema :
            \E edge \in topology : t \in {edge.left[1], edge.right[1]} }),
          Cardinality(DOMAIN schema), percent)

GrainConfidence(grains, percent) ==
  AtLeast(MapThenSumSet(LAMBDA grain : grain.confidence, grains), 100 * Cardinality(grains), percent)

\* Confidence in what was proposed; nothing proposed counts as none.
Meaning(ontology, percent) ==
  ontology # NoSection /\ ontology.concepts # {} /\ ProposalConfidence >= percent

\* reviewed: a human has approved every item there is.
Quality(schema, profiles, topology, grains, ontology, reviewed) ==
  CASE ~ Completeness(schema, 50) -> "insufficient"
    [] Completeness(schema, 50) /\ ~ Coverage(schema, profiles, 50) -> "partial"
    [] Completeness(schema, 50) /\ Coverage(schema, profiles, 50) ->
         IF /\ reviewed /\ Completeness(schema, 80) /\ Coverage(schema, profiles, 80)
            /\ Meaning(ontology, 80) /\ Connected(schema, topology, 80)
            /\ GrainConfidence(grains, 80)
         THEN "validated" ELSE "sufficient"

=============================================================================
