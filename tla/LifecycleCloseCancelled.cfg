SPECIFICATION Spec
CONSTANTS
  Handles = {h1}
  Clients = {a, b}
  ReadFrom = {h1}
  WrittenTo = {h1}
  Closed = {h1}
  Dropped = {}
  Found = {"ready"}
  Cancellable = {"close"}
  PoolSize = 2
  MaxCalls = 2
  MaxCancels = 1
  MaxDrops = 0
  None = None
PROPERTIES
  NoDriverWhileDraining
CHECK_DEADLOCK FALSE
