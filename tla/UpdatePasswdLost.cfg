SPECIFICATION UpdateSpec
CONSTANTS
  Procs = {"p1", "p2"}
  Keys = {"n1", "n2"}
  Values = {"v1", "v2"}
  Members = {"m1"}
  Calls <- TwoCalls
  InitialFiles <- Files
  Tries = 2
  MaxVersions = 4
  Faults = {}
PROPERTY NoLostUpdate
CHECK_DEADLOCK FALSE
