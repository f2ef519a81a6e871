CONSTANTS
  e1 = e1
  e2 = e2
  c1 = c1
  c2 = c2
  None = None
  alice = alice
  insat = insat
  enit = enit
  other = other
  one = one
  two = two
  short = short
  Exchanges = {e1, e2}
  Creates = {c1, c2}
  Users = {alice}
  Realms = {insat, enit}
  Configured = {insat, enit}
  Passwords = {one}
  Short = {}
  Groups = {"modp15"}
  GROUPS = {"modp15"}
  MaxRestarts = 0
SPECIFICATION Spec
INVARIANTS SecretRegistersOnce
CHECK_DEADLOCK FALSE
