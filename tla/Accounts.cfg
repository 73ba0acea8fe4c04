SPECIFICATION Spec
CONSTANTS
  Admins = {a}
  Names = {"u", "v"}
  Ids = {1, 2, 3}
  Hashes = {"h"}
  MaxFaults = 1
INVARIANTS TypeOK Consistent IdsUnique
PROPERTY PasswordOldOrNew
CHECK_DEADLOCK FALSE
