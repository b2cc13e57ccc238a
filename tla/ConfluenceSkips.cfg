SPECIFICATION Spec
CONSTANTS
  Pages = {p, q}
  Requests = 2
  MaxEdits = 2
  MaxMoves = 0
  MaxErrors = 0
PROPERTIES
  SkipsAreIngested
