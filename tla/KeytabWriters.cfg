CONSTANTS
  old = old
  new = new
  incomplete = incomplete
  None = None
  Interval = Interval
  REALMS <- MCREALMS
  PRINCIPALS <- MCPRINCIPALS
  Usernames = {"alice", "service_1"}
  Envs = {old, new, incomplete}
  Incomplete = {incomplete}
  MaxBoots = 1
  MaxRestarts = 0
SPECIFICATION Spec
INVARIANTS PrincipalsAsConfigured
CHECK_DEADLOCK FALSE
