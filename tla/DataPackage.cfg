SPECIFICATION PackageSpec
CONSTANTS
  Process = {p1, p2}
  Config = {"c1", "c2"}
  Rules = {"r1", "r2"}
  Invalid = "invalid"
  Missing = "missing"
  Touched = Touched
  Others <- MCOthers
  IOFailures = TRUE
SYMMETRY Symmetry
INVARIANTS PackageTypeOK Recoverable
PROPERTIES AllOrNothing ExportsAreValid
