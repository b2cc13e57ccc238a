SPECIFICATION Spec
CONSTANTS
  Messages = {m}
  PageSize = 1
  MaxChanges = 3
  MaxExpiries = 1
  MaxErrors = 0
  None = None
INVARIANTS
  BackfillReconciles
