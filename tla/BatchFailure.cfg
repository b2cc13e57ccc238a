SPECIFICATION FairSpec
CONSTANTS
  Calls = {{x, y}, {z}}
  Refs = refs
  Concurrency = 1
  Cancellable = {{z}}
  MaxTries = 2
  MaxCancels = 1
INVARIANTS
  EndedCallsAreQuiet
  ReturnedMeansCommitted
  InFlightCapped
  RefsBeforeChunks
PROPERTIES
  NoStartAfterFailure
  CallsEnd
CHECK_DEADLOCK FALSE
