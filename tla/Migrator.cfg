\* Two jobs, each started up to three times with any of four releases.
SPECIFICATION Spec
CONSTANTS
  Jobs = {j1, j2}
  r1 = r1
  r2 = r2
  swapped = swapped
  broken = broken
  Releases = {r1, r2, swapped, broken}
  Directory <- MCDirectory
  Versions = {1, 2, 3}
  Names = {"initial", "force_rls", "later"}
  MaxStarts = 3
  None = None
INVARIANTS
  TypeOK
  LedgerIsTheSchema
PROPERTIES
  JobsEnd
CHECK_DEADLOCK FALSE
