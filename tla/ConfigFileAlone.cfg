SPECIFICATION Spec
CONSTANTS
  Process = {p1}
  Other = {"x", "y"}
  DefaultOther = "x"
  Unknown = {"future"}
  NoUnknown = "no unknown"
  Missing = Missing
  NotJson = NotJson
  Closed = Closed
  Foreign <- MCBroken
  Imports <- MCImports
  MayForget = TRUE
  IOFailures = FALSE
 
PROPERTIES DefaultsStayInMemory
