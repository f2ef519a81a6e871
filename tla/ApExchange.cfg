CONSTANTS
  insat = insat
  service_1 = service_1
  service_2 = service_2
  alice = alice
  bob = bob
  here = here
  there = there
  r1 = r1
  r2 = r2
  None = None
  Realms = {insat}
  Principals = {service_1, service_2}
  Users = {alice, bob}
  Ips = {here, there}
  SERVICE_NAME = service_1
  SessionKeys <- MCSessionKeys
  Timestamps = {2, 3}
  Requests = {r1, r2}
  Inputs <- MCInputs
  SKEW_MS = 1
  MaxClock = 5
  MaxRestarts = 1
SPECIFICATION FairSpec
INVARIANTS TypeOK RecordOutlivesWindow RepeatedOnlyLate
PROPERTIES ReplayPromise RefusedOnlyIfRecorded Answered
CHECK_DEADLOCK FALSE
