CONSTANTS
  r1 = r1
  r2 = r2
  r3 = r3
  known = known
  unknown = unknown
  Requests = {r1, r2, r3}
  Addresses = {known, unknown}
  Address <- MCAddress
  Provisioned = {known}
  MaxLinks = 3
  MaxCrashes = 2
CHECK_DEADLOCK FALSE
SPECIFICATION Spec
INVARIANT StoredTokenIsMailed
