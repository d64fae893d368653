SPECIFICATION Spec
CONSTANTS
  NoGroup = ""
  Name = {"g", "h"}
  Word <- MCWord
  GroupEdits <- MCGroupEdits
  Files <- MCFiles
  Edits <- MCEdits
  Imports <- MCImports
  Queries = {"b"}
  NoQuery = ""
  Filters = {"g"}
  Columns = {"state", "trigger"}
  WordOrder <- MCWordOrder
  New = "b"
  Copy = "copy"
  Numerals <- MCNumerals
  FirstId = 3
  MaxChanges = 2
  MaxLook = 1
INVARIANTS TypeOK DetailsShowSelected RowsShowTheirRules
PROPERTIES OnlyChosenRulesChange RulesKeepTheirGroups
