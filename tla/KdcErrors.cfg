CONSTANTS
  insat = insat
  enit = enit
  here = here
  there = there
  r1 = r1
  r2 = r2
  r3 = r3
  None = None
  Principals = {"tgs", "service_1"}
  Users = {"alice", "bob"}
  Registered = {"alice"}
  Ips = {here, there}
  Lifetimes = {2, 9}
  LifetimeInterval <- MCInterval
  Realms = {insat, enit}
  Timestamps = {2}
  Requests = {r1, r2}
  AsInputs <- AllAs
  TgsInputs <- AllTgs
  SKEW_MS = 2
  MaxClock = 5
  MaxRestarts = 1
SPECIFICATION FairSpec
INVARIANTS TypeOK RecordedThenIssued
PROPERTIES Answered
CHECK_DEADLOCK FALSE
