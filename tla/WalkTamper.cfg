CONSTANTS
  insat = insat
  here = here
  phrase = phrase
  w1 = w1
  w2 = w2
  None = None
  Walks = {w1}
  Realm = insat
  Target = "service_1"
  Principals = {"tgs", "service_1"}
  Password = phrase
  Here = here
  RequestedLifetime = 3
  LifetimeInterval <- MCInterval
  SKEW_MS = 1
  DH_TTL = 1
  MaxClock = 2
  MaxRestarts = 0
SPECIFICATION Spec
INVARIANTS TamperedRefused
CHECK_DEADLOCK FALSE
