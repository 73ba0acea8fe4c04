SPECIFICATION FairSpec
CONSTANTS
  Hosts = {h1, h2}
  Addrs = {a1, a2}
  PROBE_NUM = 3
  ANNOUNCE_NUM = 2
  ScriptLag = 2
  MaxRx = 3
  MaxSplits = 1
  Prompt = TRUE
  Faults = {"script", "linkdown", "syscall"}
INVARIANTS TypeOK AddressUnique OneClaimSurvives InterfaceMatches
PROPERTIES GivesUpOnlyDefending ConflictResolved
CHECK_DEADLOCK FALSE
