CONSTANTS
  e1 = e1
  e2 = e2
  c1 = c1
  c2 = c2
  None = None
  alice = alice
  insat = insat
  enit = enit
  other = other
  one = one
  two = two
  short = short
  Exchanges = {e1, e2}
  Creates = {c1, c2}
  Users = {alice}
  Realms = {insat, other}
  Configured = {insat}
  Passwords = {one, two, short}
  Short = {short}
  Groups = {"modp1", "modp15"}
  GROUPS = {"modp15"}
  MaxRestarts = 1
SPECIFICATION FairSpec
INVARIANTS TypeOK KeytabAgreesWithDb CreatedIsExclusive HalfRegisteredOnlyAfterFailure RefusedOnlyAfterRival
PROPERTIES KeyNeverReplaced RegistryPromise Answered
CHECK_DEADLOCK FALSE
