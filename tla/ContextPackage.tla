-------------------------- MODULE ContextPackage --------------------------
(***************************************************************************)
(* How a question gets its context: a build derives the artifacts from the *)
(* schema (context/jobs/build_context.py), a human may review them, the    *)
(* retriever takes the slices the question touches (context/retriever.py), *)
(* the composer fits them into a budget (context/composer.py) and the      *)
(* compiler makes the package the planner reads (context/compiler.py).     *)
(*                                                                         *)
(* Publishing and concurrent versions are ContextRegistry and              *)
(* ContextBuild; here one context is served.  What a question matches is   *)
(* chosen: its words are not modelled.  The cost of a section, in code a   *)
(* quarter of the length of its text, is the number of its items.          *)
(***************************************************************************)
EXTENDS ContextDerivation

CONSTANTS
  SourceSchemas,  \* schemas the source may have
  MetricSets,     \* sets of metrics the semantic store may hold
  OntologySets,   \* sets of concepts a model may propose
  Budgets,        \* token budgets a request may ask for
  TableCap,       \* DATAHEK_CONTEXT_TABLE_CAP
  ColumnCap       \* DATAHEK_CONTEXT_COLUMN_CAP

ASSUME PackageAssumption ==
  /\ \A schema \in SourceSchemas : IsSchema(schema)
  /\ \A metrics \in MetricSets : IsFiniteSet(metrics)
  /\ \A concepts \in OntologySets : IsFiniteSet(concepts)
  /\ Budgets \subseteq Nat
  /\ TableCap \in Nat \ {0} /\ ColumnCap \in Nat \ {0}

VARIABLES
  artifacts,  \* what the last build published
  package     \* the question's context: sections while it is made, then the package

packageVars == <<artifacts, package>>

NoPackage == [at |-> "none"]

Artifact(items, trust) == [items |-> items, trust |-> trust]

-----------------------------------------------------------------------------
(* ContextBuildJob.run: the derivations in their order.                    *)

\* enrich(): an error leaves an empty ontology that nobody trusts.
Ontologies == {NoSection, [concepts |-> {}, trust |-> "untrusted"]}
              \cup { [concepts |-> concepts, trust |-> "proposed"] : concepts \in OntologySets }

Derive(schema, profiled, ontology, reviewed, metrics) ==
  LET profiles == IF profiled THEN Profiles(schema, DOMAIN schema) ELSE NoSection
      grains == Grains(schema, profiles)
      topology == Topology(schema)
  IN [schema |-> schema, profiles |-> profiles, topology |-> topology,
      granularity |-> grains, metricGrains |-> MetricGrains(grains, metrics),
      taxonomy |-> IF profiled THEN Taxonomy(profiles) ELSE NoSection,
      ontology |-> ontology,
      quality |-> Quality(schema, profiles, topology, grains, ontology, reviewed)]

\* Profiling may fail, and the enrichment is off without a taxonomy or fails.
Build ==
  /\ package.at = "none"
  /\ \E schema \in SourceSchemas, profiled \in BOOLEAN, ontology \in Ontologies,
        metrics \in MetricSets :
       /\ ~ profiled => ontology = NoSection
       /\ artifacts' = Derive(schema, profiled, ontology, FALSE, metrics)
  /\ UNCHANGED package

\* A human has approved every item (ContextBuild has the single decisions).
Review ==
  /\ artifacts # NoSection /\ package.at = "none"
  /\ artifacts' = [artifacts EXCEPT !.quality =
       Quality(artifacts.schema, artifacts.profiles, artifacts.topology,
               artifacts.granularity, artifacts.ontology, TRUE)]
  /\ UNCHANGED package

-----------------------------------------------------------------------------
(* ContextRetrieverService.retrieve                                        *)

Best(tables) == { S \in SUBSET tables : Cardinality(S) = IF Cardinality(tables) < TableCap
                                          THEN Cardinality(tables) ELSE TableCap }

\* _select_tables(): of the tables that match, of all of them when none does,
\* the TableCap highest; the scores and so their order are not modelled.
Selections(matched) == Best(IF matched = {} THEN DOMAIN artifacts.schema ELSE matched)

\* _select_columns(): those the question names, then primary and foreign keys.
Rank(t, column, named) ==
  LET schema == artifacts.schema
      key == IF column.name \in schema[t].key THEN 0 ELSE 2
      foreign == IF IsForeignKey(schema, t, column.name) THEN 0 ELSE 1
  IN IF column.name \in named THEN 0 ELSE 1 + key + foreign

SelectedColumns(t, named) ==
  LET columns == artifacts.schema[t].columns
      before(i, j) == \/ Rank(t, columns[i], named) < Rank(t, columns[j], named)
                      \/ Rank(t, columns[i], named) = Rank(t, columns[j], named) /\ i < j
  IN { columns[i].name : i \in { j \in DOMAIN columns :
         Cardinality({ k \in DOMAIN columns : before(k, j) }) < ColumnCap } }

RetrievedProfiles(tables, named) ==
  IF artifacts.profiles = NoSection THEN [t \in {} |-> {}]
  ELSE [t \in tables \cap DOMAIN artifacts.profiles |->
          { p \in artifacts.profiles[t] : p.name \in SelectedColumns(t, named) }]

RetrievedJoins(tables) ==
  { edge \in artifacts.topology : {edge.left[1], edge.right[1]} \subseteq tables }

Touching(tables) ==
  IF artifacts.taxonomy = NoSection THEN NoSection
  ELSE Artifact({ n \in artifacts.taxonomy : n.table \in tables }, "structural")

\* _filter_ontology()
MeantBy(tables) ==
  IF artifacts.ontology = NoSection THEN NoSection
  ELSE Artifact({ concept \in artifacts.ontology.concepts : concept.maps_to \cap tables # {} },
                artifacts.ontology.trust)

RetrievedGrains(tables, metrics) ==
  { grain \in artifacts.granularity : grain.table \in tables }
  \cup { mg \in artifacts.metricGrains : \E m \in metrics : m.name = mg.metric }

Retrieved(tables, named, metrics, relevant, budget) ==
  [at |-> "retrieved", budget |-> budget, relevant |-> relevant,
   schema |-> [t \in tables |-> artifacts.schema[t]],
   granularity |-> Artifact(RetrievedGrains(tables, metrics), "structural"),
   sections |->
     [profiles |-> RetrievedProfiles(tables, named),
      topology |-> Artifact(RetrievedJoins(tables), "structural"),
      taxonomy |-> Touching(tables), ontology |-> MeantBy(tables), metrics |-> metrics]]

Retrieve ==
  /\ artifacts # NoSection /\ package.at = "none"
  /\ \E matched \in SUBSET DOMAIN artifacts.schema, named \in SUBSET ColumnNames,
        metrics \in MetricSets, budget \in Budgets :
     \E tables \in Selections(matched), relevant \in SUBSET metrics :
       package' = Retrieved(tables, named, metrics, relevant, budget)
  /\ UNCHANGED artifacts

-----------------------------------------------------------------------------
(* BudgetContextComposer.compose                                           *)

OptionalSections == {"profiles", "taxonomy", "topology", "ontology", "metrics"}

\* estimate_tokens()
Cost(name, section) ==
  CASE name = "profiles" ->
         Cardinality(DOMAIN section)
         + Cardinality(UNION { {t} \X section[t] : t \in DOMAIN section })
    [] name = "metrics" -> Cardinality(section)
    [] name \notin {"profiles", "metrics"} /\ section = NoSection -> 0
    [] OTHER -> 1 + Cardinality(section.items)

SchemaCost(schema) == Cardinality(DOMAIN schema) + Cardinality(AllColumns(schema))

\* The schema and the grain; no build makes a governance artifact.
Mandatory == SchemaCost(package.schema) + Cost("granularity", package.granularity)

Absent(name) == CASE name = "profiles" -> [t \in {} |-> {}]
                  [] name = "metrics" -> {}
                  [] OTHER -> NoSection

\* Fault: each section is held against the whole budget.
FitsAlone(tokens, cost) == cost <= package.budget

Fits(tokens, cost) == tokens + cost <= package.budget

With(so_far, name, section) ==
  [so_far EXCEPT !.tokens = @ + Cost(name, section), !.sections[name] = section]

Without(so_far, name) ==
  [so_far EXCEPT !.sections[name] = Absent(name), !.dropped = @ \cup {name}]

\* An optional section is kept, trimmed to the relevant metrics, or dropped.
\* An empty one costs nothing, so it is kept.
Consider(name, so_far) ==
  LET fits(section) == Fits(so_far.tokens, Cost(name, section)) IN
  IF fits(so_far.sections[name]) THEN With(so_far, name, so_far.sections[name])
  ELSE IF name = "metrics" /\ package.relevant # {} /\ fits(package.relevant)
  THEN With(so_far, name, package.relevant)
  ELSE Without(so_far, name)

Start == [sections |-> package.sections, tokens |-> Mandatory, dropped |-> {}]

\* The order of _OPTIONAL_ORDER.
Composed ==
  IF Mandatory > package.budget THEN Start
  ELSE Consider("metrics", Consider("ontology", Consider("topology",
         Consider("taxonomy", Consider("profiles", Start)))))

Compose ==
  /\ package.at = "retrieved"
  /\ package' =
       [at |-> "composed", budget |-> package.budget, schema |-> package.schema,
        granularity |-> package.granularity, retrieved |-> package.sections,
        sections |-> Composed.sections, tokens |-> Composed.tokens,
        dropped |-> Composed.dropped, insufficient |-> Mandatory > package.budget]
  /\ UNCHANGED artifacts

-----------------------------------------------------------------------------
(* PackageContextCompiler.compile                                          *)

\* _semantics(): by the taxonomy's categories; by the profiles' roles when those
\* name no identifier, dimension or time.
Named == {"identifier", "dimension", "temporal"}

ByCategory(taxonomy) ==
  IF taxonomy = NoSection THEN {}
  ELSE UNION { { <<n.category, n.table, name>> : name \in n.members } :
               n \in { m \in taxonomy.items : m.kind = "category" /\ m.category \in Named } }

ByRole(profiles) ==
  UNION { UNION { { <<role, t, p.name>> : role \in Named \cap Range(p.roles) } :
                  p \in profiles[t] } : t \in DOMAIN profiles }

Semantics(sections) ==
  IF ByCategory(sections.taxonomy) # {} THEN ByCategory(sections.taxonomy)
  ELSE ByRole(sections.profiles)

Trusts == <<"untrusted", "proposed", "structural", "validated", "system">>

Level(trust) == CHOOSE i \in DOMAIN Trusts : Trusts[i] = trust

\* _trust_floor(): the least of what the package holds.
TrustFloor(sections) ==
  LET held == { sections[name] : name \in {"topology", "taxonomy", "ontology"} } \ {NoSection}
  IN Trusts[Min({ Level(section.trust) : section \in held } \cup {Level("structural")})]

Compile ==
  /\ package.at = "composed"
  /\ package' =
       [at |-> "compiled", budget |-> package.budget, schema |-> package.schema,
        granularity |-> package.granularity, retrieved |-> package.retrieved,
        sections |-> package.sections, tokens |-> package.tokens,
        degraded |-> package.dropped,
        semantics |-> Semantics(package.sections), trust |-> TrustFloor(package.sections),
        quality |-> IF package.insufficient THEN "insufficient" ELSE artifacts.quality]
  /\ UNCHANGED artifacts

PackageInit == artifacts = NoSection /\ package = NoPackage

PackageNext == Build \/ Review \/ Retrieve \/ Compose \/ Compile

PackageSpec == PackageInit /\ [][PackageNext]_packageVars

-----------------------------------------------------------------------------
(* Properties.                                                             *)

PackageTypeOK ==
  /\ package.at \in {"none", "retrieved", "composed", "compiled"}
  /\ package.at = "compiled" =>
       /\ package.tokens \in Nat /\ package.trust \in Range(Trusts)
       /\ package.degraded \subseteq OptionalSections
       /\ package.quality \in {"insufficient", "partial", "sufficient", "validated"}
       /\ DOMAIN package.schema \subseteq TableNames

\* Whatever sections survive the budget, nothing the package says of meaning is
\* about a column that looks sensitive, and no value of one was read: the
\* fallback from categories to roles goes by what profiling left out
\* (taxonomy.py: "never includes sensitive columns"; compiler.py, _semantics).
SensitiveUnnamed ==
  package.at = "compiled" =>
    /\ \A meaning \in package.semantics : meaning[3] \notin Sensitive
    /\ \A t \in DOMAIN package.sections.profiles :
         \A p \in package.sections.profiles[t] : p.name \in Sensitive => ~ p.shown

\* What the optional sections cost together.
Spent(sections) ==
  Cost("profiles", sections.profiles) + Cost("taxonomy", sections.taxonomy)
  + Cost("topology", sections.topology) + Cost("ontology", sections.ontology)
  + Cost("metrics", sections.metrics)

\* A package is marked insufficient or it keeps to its budget, counting all it
\* holds, and every section that was retrieved and is not there is listed as
\* degraded (composer.py, compose).
WithinBudget ==
  package.at = "compiled" =>
    \/ package.quality = "insufficient" /\ Mandatory > package.budget
    \/ /\ Mandatory + Spent(package.sections) <= package.budget
       /\ \A name \in OptionalSections :
            Cost(name, package.sections[name]) = 0 /\ Cost(name, package.retrieved[name]) > 0
              => name \in package.degraded

=============================================================================
