\* One builder, called again and again while the schema changes twice.
SPECIFICATION RebuildSpec
CONSTANTS
  Clients = {c1}
  ContextIds = {x1, x2, x3, x4}
  Scopes = {connection}
  Hashes = {h1, h2}
  schemaKind = schema
  ontologyKind = ontology
  Kinds <- AllKinds
  SchemaKind <- schemaKind
  OntologyKind <- ontologyKind
  ProposalKinds = {}
  Payloads <- AllPayloads
  Slots = {1}
  Concepts = {order}
  MaxRetries = 0
  MaxChanges = 2
  NoContext = NoContext
PROPERTIES EventuallyFresh
