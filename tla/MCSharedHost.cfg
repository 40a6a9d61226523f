SPECIFICATION LiveSpec
CONSTANTS
  Clients = {c1, c2}
  None = none
  Digests = {d1, d2}
  Truncated = td
  Addresses = {a1, a2}
  Ports = {1, 2}
  MaxAttempts = 2
  Foreign = foreign
  Contested <- LastPort
INVARIANTS
  DeployedIsWhole
  LeaseCoversPorts
  NoLeaseOrProbeLeaks
PROPERTIES
  InstallationEnds
