CONSTANTS
  insat = insat
  service_1 = service_1
  service_2 = service_2
  alice = alice
  bob = bob
  here = here
  there = there
  r1 = r1
  r2 = r2
  None = None
  Realms = {insat}
  Principals = {service_1, service_2}
  Users = {alice, bob}
  Ips = {here, there}
  SERVICE_NAME = service_1
  SessionKeys <- MCSessionKeys
  Timestamps = {3}
  Requests = {r1, r2}
  Inputs <- MCFewInputs
  SKEW_MS = 2
  MaxClock = 6
  MaxRestarts = 0
SPECIFICATION Spec
INVARIANTS AcceptedAtMostOnce
CHECK_DEADLOCK FALSE
