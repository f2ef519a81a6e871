CONSTANTS
  insat = insat
  here = here
  phrase = phrase
  w1 = w1
  w2 = w2
  None = None
  Walks = {w1}
  Realm = insat
  Target = "service_1"
  Principals = {"tgs", "service_1"}
  Password = phrase
  Here = here
  RequestedLifetime = 1
  LifetimeInterval <- MCInterval
  SKEW_MS = 1
  DH_TTL = 1
  MaxClock = 3
  MaxRestarts = 1
SPECIFICATION FairSpec
INVARIANTS TypeOK WalkCompletes AcceptedWithinGrant
PROPERTIES WalkEnds RegistryPromise
CHECK_DEADLOCK FALSE
