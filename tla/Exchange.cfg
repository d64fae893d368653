SPECIFICATION Spec
CONSTANTS
  NoGroup <- MCNoGroup
  Delimiter = ","
  Lower <- MCLower
  Objects <- MCObjects
  Numerals <- MCNumerals
  Supported <- MCSupported
  Drafts <- MCDrafts
  Symbol <- MCSymbol
  Tables <- MCTables
  Texts <- MCTexts
  MaxRules = 3
  MaxLength = 6
INVARIANTS ParserIsGrammar
PROPERTIES ExportIsLossless RowsBecomeRules
