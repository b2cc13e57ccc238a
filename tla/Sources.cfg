SPECIFICATION FairSpec
CONSTANTS
  Items = {x, y}
  Folder = Folder
  None = None
  PageSize = 1
  Nested = {y}
  MaxDriveChanges = 3
  MaxChanges = 2
  MaxErrors = 1
INVARIANTS
  SyncedUpToCursor
PROPERTIES
  ForgottenWasOut
  GoneAreForgotten
