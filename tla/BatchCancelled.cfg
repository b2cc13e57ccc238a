SPECIFICATION Spec
CONSTANTS
  Calls = {{x, y}}
  Refs = refs
  Concurrency = 2
  Cancellable = {{x, y}}
  MaxTries = 2
  MaxCancels = 1
INVARIANTS
  EndedCallsAreQuiet
CHECK_DEADLOCK FALSE
