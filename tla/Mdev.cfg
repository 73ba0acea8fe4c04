SPECIFICATION FairSpec
CONSTANTS
  Devs = {"disk"}
  Nums = {1, 2}
  Aliases = {"alias", "target"}
  Confs <- MCConfs
  Seeds <- MCSeeds
  FirstSeq = 8
  MaxEvents = 3
  Tries = 1
  Scans = TRUE
  Faults = {"timeout", "kill"}
INVARIANTS TypeOK Serialized NodesMatch
PROPERTY EveryMdevEnds
CHECK_DEADLOCK FALSE
