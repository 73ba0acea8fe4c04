SPECIFICATION Spec
CONSTANTS
  c1 = c1
  c2 = c2
  Clients = {c1, c2}
  start_ip = 1
  end_ip = 2
  Skipped = {1}
  Squatted = {}
  Static <- MCStatic
  Requests = {2}
  MaxLeases = 2
  Lease = 4
  OfferTime = 1
  ConflictTime = 1
  RenewMin = 1
  Retries = 1
  SelectTries = 1
  Delay = 0
  ArpTime = 1
  FileTime = 1
  Horizon = 1
  InFlight = 2
  MaxFaults = 2
  Options = {"a"}
SYMMETRY Symmetry
INVARIANTS TypeOK TableUnique HeldIsLeased
CHECK_DEADLOCK FALSE
