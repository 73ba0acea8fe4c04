SPECIFICATION RepairSpec
CONSTANTS
  Texts = {"a", "b"}
  MaxMsgs = 4
  MaxCrashes = 1
  logFileSize = 1
  logFileRotate = 2
  Dup = TRUE
  Faults = {"admin", "open", "write", "dir"}
INVARIANTS TypeOK SizeBounded KeepsLatest
PROPERTIES DropsOnlyRepeats LogReturns
CHECK_DEADLOCK FALSE
