CONSTANTS
  insat = insat
  enit = enit
  here = here
  there = there
  r1 = r1
  r2 = r2
  r3 = r3
  None = None
  Principals = {"tgs", "service_1"}
  Users = {"alice", "bob"}
  Registered = {"alice"}
  Ips = {here, there}
  Lifetimes = {1, 9}
  LifetimeInterval <- MCInterval
  Realms = {insat}
  Timestamps = {2, 3}
  Requests = {r1, r2, r3}
  AsInputs <- OneAs
  TgsInputs <- ChainTgs
  SKEW_MS = 1
  MaxClock = 5
  MaxRestarts = 1
SPECIFICATION Spec
SYMMETRY Symmetry
INVARIANTS TracesToPreAuthentication WithinGrant ShortOnlyWithTgt RepeatedOnlyLate
PROPERTIES ReplayPromise RefusedOnlyIfRecorded
CHECK_DEADLOCK FALSE
