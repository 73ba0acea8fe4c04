SPECIFICATION Spec
CONSTANTS
  MaxLen = 2
  BlkDefault = 2
  BlkWanted = {1}
  OptionsBuilt = {TRUE, FALSE}
  Retries = 2
  Modulus = 4
  MaxAge = 2
  Faults = {}
INVARIANT CompleteOnSuccess
CHECK_DEADLOCK FALSE
