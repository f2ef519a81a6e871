CONSTANTS
  insat = insat
  enit = enit
  here = here
  there = there
  r1 = r1
  r2 = r2
  r3 = r3
  None = None
  Principals = {"tgs", "service_1"}
  Users = {"alice", "bob"}
  Registered = {"alice"}
  Ips = {here, there}
  Lifetimes = {2, 9}
  LifetimeInterval <- MCInterval
  Realms = {insat}
  Timestamps = {2, 3}
  Requests = {r1, r2}
  AsInputs <- OneAs
  TgsInputs <- OneTgs
  SKEW_MS = 2
  MaxClock = 6
  MaxRestarts = 0
SPECIFICATION Spec
INVARIANTS AtLeastMinimum
CHECK_DEADLOCK FALSE
