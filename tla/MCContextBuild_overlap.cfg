\* Builds and reviews overlap, the schema changes, and any step may fail.
SPECIFICATION BuildSpec
CONSTANTS
  Clients = {c1, c2}
  ContextIds = {x1, x2}
  Scopes = {connection}
  Hashes = {h1, h2}
  schemaKind = schema
  ontologyKind = ontology
  Kinds <- AllKinds
  SchemaKind <- schemaKind
  OntologyKind <- ontologyKind
  ProposalKinds = {}
  Payloads <- AllPayloads
  Slots = {1}
  Concepts = {order}
  MaxRetries = 1
  MaxChanges = 1
  NoContext = NoContext
INVARIANTS BuildTypeOK HashMatchesSnapshot AnswerIsServed
PROPERTIES ServesVersionsInOrder
SYMMETRY Symmetry
\* A client whose ids have run out stops before its next registration.
CHECK_DEADLOCK FALSE
