---------------------------- MODULE ContextGraph ----------------------------
(***************************************************************************)
(* The schema knowledge graph of a connection: what SchemaGraphBuilder     *)
(* (context/graph/builder.py) writes of the artifacts of a build, and the  *)
(* repositories it writes to (context/graph/memory.py, neo4j.py).          *)
(*                                                                         *)
(* Every call of the repository is a step: with Neo4j each is a session of *)
(* its own.  Builds of one connection may overlap.                         *)
(***************************************************************************)
EXTENDS Naturals, FiniteSets

CONSTANTS
  Snapshots,   \* the artifacts a build may have
  Builders,    \* builds under way at the same time
  FindLimit,   \* limit of find_nodes() when pruning, per label
  MaxBuilds,   \* bound
  NoSnapshot

ASSUME ContextGraphAssumption ==
  /\ FindLimit \in Nat /\ MaxBuilds \in Nat
  /\ \A s \in Snapshots : \A c \in s.columns : c[1] \in s.tables

VARIABLES
  nodes, relationships,  \* the graph
  builder,               \* per build, where it is and what it has still to do
  builds,                \* how many began
  exact                  \* history: the snapshot the graph should be of, if any

graphVars == <<nodes, relationships, builder, builds, exact>>

Labels == {"Connection", "Table", "Column", "Metric", "Concept"}

\* A node is its label and its name in the connection, its stable id.
ConnectionNode == <<"Connection", <<>>>>
TableNode(t) == <<"Table", <<t>>>>
ColumnNode(c) == <<"Column", c>>
MetricNode(m) == <<"Metric", <<m>>>>
ConceptNode(k) == <<"Concept", <<k>>>>

Rel(type, source, target) == [type |-> type, source |-> source, target |-> target]

\* A snapshot has tables, columns (of a table), joins of two columns, metrics
\* (of a table that may be gone), concepts (mapped to tables) and what relates
\* them.
Described(s) == {TableNode(t) : t \in s.tables} \cup {ColumnNode(c) : c \in s.columns}

NodesOf(s) ==
  {ConnectionNode} \cup Described(s)
  \cup {MetricNode(m[1]) : m \in {m \in s.metrics : m[2] \in s.tables}}
  \cup {ConceptNode(k[1]) : k \in s.concepts}

\* What names a column, a table or a concept that is not there is left out, and
\* so is a join of a column with itself.
RelationshipsOf(s) ==
  {Rel("HAS_TABLE", ConnectionNode, TableNode(t)) : t \in s.tables}
  \cup {Rel("HAS_COLUMN", TableNode(c[1]), ColumnNode(c)) : c \in s.columns}
  \cup {Rel(j.kind, ColumnNode(j.left), ColumnNode(j.right)) :
          j \in {j \in s.joins : j.left # j.right /\ {j.left, j.right} \subseteq s.columns}}
  \cup {Rel("HAS_METRIC", TableNode(m[2]), MetricNode(m[1])) :
          m \in {m \in s.metrics : m[2] \in s.tables}}
  \cup {Rel("DESCRIBES", ConceptNode(k[1]), TableNode(k[2])) :
          k \in {k \in s.concepts : k[2] \in s.tables}}
  \cup {Rel("SEMANTICALLY_RELATED_TO", ConceptNode(r[1]), ConceptNode(r[2])) :
          r \in {r \in s.related : {r[1], r[2]} \subseteq {k[1] : k \in s.concepts}}}

AllNodes == UNION {NodesOf(s) : s \in Snapshots}

AllRelationships == UNION {RelationshipsOf(s) : s \in Snapshots}

\* write: nodes to be created.  relate: relationships.  find: labels to be
\* pruned.  prune: nodes found that are not the build's own.
Building == [snapshot : Snapshots, write : SUBSET AllNodes, relate : SUBSET AllRelationships,
             find : SUBSET Labels, prune : SUBSET AllNodes, clean : BOOLEAN]

GraphTypeOK ==
  /\ nodes \subseteq AllNodes /\ relationships \subseteq AllRelationships
  /\ builder \in [Builders -> Building \cup {NoSnapshot}]
  /\ builds \in 0 .. MaxBuilds
  /\ exact \in Snapshots \cup {NoSnapshot}

GraphInit ==
  /\ nodes = {} /\ relationships = {}
  /\ builder = [b \in Builders |-> NoSnapshot]
  /\ builds = 0 /\ exact = NoSnapshot

NotBuilding(b) == builder[b] = NoSnapshot

\* health_check() is fine and the projection is made; other builds under way
\* are not alone any more.
BeginGraph(b, s) ==
  /\ NotBuilding(b) /\ builds < MaxBuilds
  /\ builds' = builds + 1
  /\ builder' = [c \in Builders |->
       IF c = b
       THEN [snapshot |-> s, write |-> NodesOf(s), relate |-> RelationshipsOf(s),
             find |-> Labels, prune |-> {}, clean |-> \A d \in Builders \ {b} : NotBuilding(d)]
       ELSE IF NotBuilding(c) THEN NoSnapshot ELSE [builder[c] EXCEPT !.clean = FALSE]]
  /\ exact' = NoSnapshot
  /\ UNCHANGED <<nodes, relationships>>

\* create_node(): MERGE on the id.
CreateNode(b) ==
  /\ ~ NotBuilding(b)
  /\ \E n \in builder[b].write :
       /\ nodes' = nodes \cup {n}
       /\ builder' = [builder EXCEPT ![b].write = @ \ {n}]
  /\ UNCHANGED <<relationships, builds, exact>>

Fails(b) == builder' = [builder EXCEPT ![b] = NoSnapshot]

\* create_relationship(): NOT_FOUND when an end is gone, which fails the build.
CreateRelationship(b) ==
  /\ ~ NotBuilding(b) /\ builder[b].write = {}
  /\ \E r \in builder[b].relate :
       IF {r.source, r.target} \subseteq nodes
       THEN /\ relationships' = relationships \cup {r}
            /\ builder' = [builder EXCEPT ![b].relate = @ \ {r}]
       ELSE Fails(b) /\ UNCHANGED relationships
  /\ UNCHANGED <<nodes, builds, exact>>

Related(b) == ~ NotBuilding(b) /\ builder[b].write = {} /\ builder[b].relate = {}

\* Fault: the nodes of the labels that have no node now are left.
OwnLabels(b) == {n[1] : n \in NodesOf(builder[b].snapshot)}

PrunedLabels(b) == Labels

OfLabel(label) == {n \in nodes : n[1] = label}

\* find_nodes(): the nodes of one label, the first FindLimit of them in some
\* order.
Found(label) == {found \in SUBSET OfLabel(label) :
  Cardinality(found) = FindLimit \/ (found = OfLabel(label) /\ Cardinality(found) < FindLimit)}

FindStale(b) ==
  /\ Related(b) /\ builder[b].prune = {}
  /\ \E label \in builder[b].find : \E found \in Found(label) :
       builder' = [builder EXCEPT ![b].find = @ \ {label},
         ![b].prune = IF label \in PrunedLabels(b)
                      THEN found \ NodesOf(builder[b].snapshot) ELSE {},
         ![b].clean = @ /\ found = OfLabel(label)]
  /\ UNCHANGED <<nodes, relationships, builds, exact>>

\* DETACH DELETE.
Detach(n) == relationships' = {r \in relationships : n \notin {r.source, r.target}}

DeleteNode(b) ==
  /\ Related(b)
  /\ \E n \in builder[b].prune :
       /\ nodes' = nodes \ {n}
       /\ Detach(n)
       /\ builder' = [builder EXCEPT ![b].prune = @ \ {n}]
  /\ UNCHANGED <<builds, exact>>

\* The report.
EndGraph(b) ==
  /\ Related(b) /\ builder[b].find = {} /\ builder[b].prune = {}
  /\ exact' = IF builder[b].clean THEN builder[b].snapshot ELSE NoSnapshot
  /\ Fails(b)
  /\ UNCHANGED <<nodes, relationships, builds>>

\* A call of the repository raises.
GraphFails(b) ==
  /\ ~ NotBuilding(b) /\ Fails(b)
  /\ UNCHANGED <<nodes, relationships, builds, exact>>

GraphNext == \E b \in Builders :
  \/ \E s \in Snapshots : BeginGraph(b, s)
  \/ CreateNode(b) \/ CreateRelationship(b) \/ FindStale(b) \/ DeleteNode(b)
  \/ EndGraph(b) \/ GraphFails(b)

GraphSpec == GraphInit /\ [][GraphNext]_graphVars

-----------------------------------------------------------------------------
(* Properties.                                                             *)

\* Whatever earlier builds left behind, failed or overlapping: after a build
\* that ended well, overlapped none and looked at every node of each label, the
\* nodes of the graph are those of its artifacts and their relationships are
\* there; and no relationship ever dangles (build, delete_node).
GraphIsCurrent ==
  /\ \A r \in relationships : {r.source, r.target} \subseteq nodes
  /\ exact # NoSnapshot =>
       nodes = NodesOf(exact) /\ RelationshipsOf(exact) \subseteq relationships

=============================================================================
