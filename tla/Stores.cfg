SPECIFICATION Spec
CONSTANTS
  a = a
  b = b
  e1 = e1
  e2 = e2
  d1 = d1
  d2 = d2
  people = people
  groups = groups
  ann = ann
  bob = bob
  clubNode = clubNode
  firmNode = firmNode
  firm = firm
  club = club
  knows = knows
  belongs = belongs
  None = None
  Clients = {a, b}
  Engines = {e1, e2}
  Databases = {d1, d2}
  Collections = {people, groups}
  Ids = {ann, bob, clubNode, firmNode}
  Sets = {firm, club}
  Labels = {knows, belongs}
  SetLabel = belongs
  BelongsTo <- MCBelongsTo
  NameOf <- MCNameOf
  TypeOf <- MCTypeOf
  Jobs <- MCJobs
  Servers <- MCServers
  Homes <- MCHomes
  InUse = {"typedb", "qdrant", "singlestore", "weaviate", "milvus", "opengauss", "redis", "valkey", "turbopuffer", "pinecone", "azure", "opensearch", "moss", "duckdb", "memgraph", "turingdb", "arcadedb_graph", "spanner", "turbopuffer_graph", "networkx", "pggraph", "falkor", "arcadedb", "helix"}
  MaxCalls = 3
  MaxFaults = 1
SYMMETRY Symmetry
INVARIANTS
  AcknowledgedIsStored
  DeletedIsGone
  ReadsAgree
  SomeCallGoesOn
PROPERTIES
  PruneEmpties
CHECK_DEADLOCK FALSE
