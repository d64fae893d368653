SPECIFICATION FairSpec
CONSTANTS
  Process = {p1}
  Document = {"default", "a"}
  Broken = {"broken"}
  Missing = "missing"
  Default = "default"
  NoRules = NoRules
  Absent = Absent
  Unread = Unread
  Writes = {"a"}
  Foreign = {"default", "a", "broken", "missing"}
  Settings = {"on", "off", "odd", "invalid"}
  MaxBackups = 2
  IOFailures = TRUE
INVARIANTS TypeOK TimerOnlyWhenReady
PROPERTIES TickIsFaithful LastRulesKept ChangeLoaded
