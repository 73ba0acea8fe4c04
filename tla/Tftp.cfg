SPECIFICATION FairSpec
CONSTANTS
  MaxLen = 4
  BlkDefault = 1
  BlkWanted = {1, 2}
  OptionsBuilt = {TRUE, FALSE}
  Retries = 2
  Modulus = 4
  MaxAge = 2
  Faults = {"refuse", "open", "read", "write", "send", "poll", "unreach"}
INVARIANTS TypeOK LockStep NoPartialFile
PROPERTIES ResendOnlyOnTimeout TransferSpec Termination
CHECK_DEADLOCK FALSE
