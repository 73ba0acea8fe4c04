SPECIFICATION Spec
CONSTANTS
  Devs = {"disk"}
  Nums = {1}
  Aliases = {}
  Confs <- MCDefault
  Seeds <- MCEmpty
  FirstSeq = 8
  MaxEvents = 3
  Tries = 1
  Scans = FALSE
  Faults = {}
INVARIANT PlugRacesPrevented
CHECK_DEADLOCK FALSE
