SPECIFICATION Spec
CONSTANTS
  Process = {p1}
  Other = {"x", "y"}
  DefaultOther = "x"
  Unknown = {"future"}
  NoUnknown = "no unknown"
  Missing = Missing
  NotJson = NotJson
  Closed = Closed
  Foreign <- MCForeign
  Imports <- MCNone
  MayForget = TRUE
  IOFailures = TRUE
INVARIANTS NoEscape
