SPECIFICATION FairSpec
CONSTANTS
  Pages = {p, q}
  Requests = 2
  MaxEdits = 2
  MaxMoves = 2
  MaxErrors = 1
INVARIANTS
  TypeOK
  KnownIsIngested
  StaleIsAhead
PROPERTIES
  NeverEmptied
  ForgottenHadMoved
  PagesArrive
