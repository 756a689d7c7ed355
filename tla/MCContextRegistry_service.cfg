\* Two overlapping clients using all of the service, two scopes, failures.
SPECIFICATION Spec
CONSTANTS
  Clients = {c1, c2}
  ContextIds = {x1, x2, x3}
  Scopes = {connection, table}
  Hashes = {h1}
  Kinds = {schema, ontology}
  SchemaKind = schema
  ProposalKinds = {ontology}
  Payloads = {p1}
  NoContext = NoContext
INVARIANTS TypeOK ServedIsComplete PredecessorRetired
PROPERTIES PublishedIsImmutable WithdrawnIsNeverServed
SYMMETRY Symmetry
