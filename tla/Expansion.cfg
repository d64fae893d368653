SPECIFICATION Spec
CONSTANTS
  Char = {"x", "e", " ", "tab"}
  Boundary = {" ", "tab"}
  Tab = "tab"
  Rules <- MCRules
  Number <- MCNumber
  CursorMark = "|"
  NoRule = NoRule
  MaxTrigger = 2
  MaxExpanded = 6
  MaxCarets = 3
  NoChar = NoChar
  NoSession = NoSession
  Documents <- MCDocuments
  Typeable = {"x", " ", "tab"}
  Selections <- MCSelections
  Foreign <- MCForeign
  MaxLength = 4
INVARIANTS TypeOK TabstopsFollowText
PROPERTIES VisitedInOrder FillingKeepsTabstop CaretsLand AllWithinLimit
