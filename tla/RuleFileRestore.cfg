SPECIFICATION Spec
CONSTANTS
  Process = {p1, p2}
  Document <- MCDocument
  Broken = {"broken"}
  Empty = "empty"
  Torn = "torn"
  NoHash = NoHash
  Free = Free
  Abandoned = Abandoned
  Dump <- MCDump
  Edits = {"a", "b"}
  Foreign = {}
  Overwrites = {"restore"}
  BackupEnabled = TRUE
  MaxBackups = 3
  IOFailures = FALSE
SYMMETRY Symmetry
PROPERTIES RestoreLeavesBackup
