SPECIFICATION FairSpec
CONSTANTS
  Handles = {h1, h2}
  Clients = {a, b}
  ReadFrom = {h1}
  WrittenTo = {h1, h2}
  Closed = {h1}
  Dropped = {h2}
  Found = {"absent", "legacy"}
  Cancellable = {"write"}
  PoolSize = 1
  MaxCalls = 4
  MaxCancels = 1
  MaxDrops = 1
  None = None
INVARIANTS
  NoDriverLeft
  WorkersHaveTheirDriver
  KnowledgeGoesWithDriver
  WritesFindSchema
PROPERTIES
  NoDriverWhileDraining
  CallsEnd
CHECK_DEADLOCK FALSE
