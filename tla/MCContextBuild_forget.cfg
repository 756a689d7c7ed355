\* A review, then a build of a changed schema.
SPECIFICATION AppBuildSpec
CONSTANTS
  Clients = {c1}
  ContextIds = {x1, x2, x3}
  Scopes = {connection}
  Hashes = {h1, h2}
  schemaKind = schema
  ontologyKind = ontology
  Kinds <- AllKinds
  SchemaKind <- schemaKind
  OntologyKind <- ontologyKind
  ProposalKinds = {}
  Payloads <- AllPayloads
  Slots = {1}
  Concepts = {order}
  MaxRetries = 0
  MaxChanges = 1
  NoContext = NoContext
PROPERTIES HumanDecisionsStand
SYMMETRY Symmetry
\* A client whose ids have run out stops before its next registration.
CHECK_DEADLOCK FALSE
