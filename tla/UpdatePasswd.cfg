SPECIFICATION FairSpec
CONSTANTS
  Procs = {"p1", "p2"}
  Keys = {"n1", "n2"}
  Values = {"v1", "v2"}
  Members = {"m1"}
  Calls <- AllCalls
  InitialFiles <- Files
  Tries = 2
  MaxVersions = 3
  Faults = {"crash", "io", "link"}
INVARIANTS UpdateTypeOK ExclusiveWriter
PROPERTIES BackupIsPrevious CallReturns
CHECK_DEADLOCK FALSE
