SPECIFICATION FairSpec
CONSTANTS
  Procs = {p1, p2}
  Ifaces = {"lo", "eth"}
  Logicals = {"lo", "eth", "home", "nowhere"}
  Stanzas <- MCStanzas
  Maps <- MCMaps
  Commands <- MCCommands
  MaxCmds = 2
  Waits = 1
  Faults = {"script", "crash"}
INVARIANTS TypeOK NoLostUpdate StateTruth
PROPERTY CommandEnds
CHECK_DEADLOCK FALSE
