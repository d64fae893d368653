SPECIFICATION Spec
CONSTANTS
  a = a
  A = A
  b = b
  Star = Star
  One = One
  Nothing = Nothing
  Letter = {a, A, b}
  Lower <- MCLower
  Code <- MCCode
  Activation = {"space", "immediate"}
  Immediate = "immediate"
  Item <- MCItem
  GroupList <- MCGroupList
  Text <- MCText
  Context <- MCContext
  MaxItems = 3
  MaxKept = 1
INVARIANTS TypeOK FindIsSearch CaptureIsFirst GlobsAreRight DiagnosisAgrees PrefixesAreCaught
