SPECIFICATION FairSpec
CONSTANTS
  Process = {p1, p2}
  Document = {"empty"}
  Broken = {"broken"}
  Empty = "empty"
  Torn = "torn"
  NoHash = NoHash
  Free = Free
  Abandoned = Abandoned
  Dump <- MCOneDump
  Edits = {"empty"}
  Foreign = {"broken"}
  Overwrites = {"restore", "import"}
  BackupEnabled = FALSE
  MaxBackups = 1
  IOFailures = TRUE
PROPERTIES MutexReleased ChangeNoticed
