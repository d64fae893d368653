SPECIFICATION Spec
CONSTANTS
  Process = {p1, p2}
  Document <- MCDocument
  Broken = {"broken"}
  Empty = "empty"
  Torn = "torn"
  NoHash = NoHash
  Free = Free
  Abandoned = Abandoned
  Dump <- MCDump
  Edits = {"a", "b"}
  Foreign = {}
  Overwrites = {}
  BackupEnabled = TRUE
  MaxBackups = 2
  IOFailures = TRUE
SYMMETRY Symmetry
INVARIANTS TypeOK CleanIsSaved
PROPERTIES NoLostUpdate SaveLeavesBackup IsRegister
