SPECIFICATION Spec
CONSTANTS
  Process = {p1, p2}
  Other = {"x", "y"}
  DefaultOther = "x"
  Unknown = {"future"}
  NoUnknown = "no unknown"
  Missing = Missing
  NotJson = NotJson
  Closed = Closed
  Foreign <- MCNone
  Imports <- MCNone
  MayForget = FALSE
  IOFailures = TRUE
SYMMETRY Symmetry
INVARIANTS TypeOK
PROPERTIES UnknownKept
