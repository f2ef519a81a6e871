CONSTANTS
  old = old
  new = new
  incomplete = incomplete
  None = None
  Interval = Interval
  REALMS <- MCREALMS
  PRINCIPALS <- MCPRINCIPALS
  Usernames = {"service_1", "interval"}
  Envs = {old, new, incomplete}
  Incomplete = {incomplete}
  MaxBoots = 2
  MaxRestarts = 1
SPECIFICATION FairSpec
INVARIANTS TypeOK ListeningMeansSeeded PolicyMeansPrincipals
PROPERTIES UsersKept SeedingEnds
CHECK_DEADLOCK FALSE
