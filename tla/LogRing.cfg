SPECIFICATION FairSpec
CONSTANTS
  size = 5
  Lens = {1, 2, 3}
  MaxMsgs = 3
  Readers = {"d", "f"}
  Follow = {"f"}
  MaxKills = 1
INVARIANTS TypeOK ReadersShow NoTornRead
 
CHECK_DEADLOCK FALSE
