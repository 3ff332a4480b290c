SPECIFICATION LimiterSpec
CONSTANTS
  Doors = {panel, dav}
  IPs = {ip}
  Tries = {t1, t2}
  Limit = 3
  Window = 3
INVARIANTS FailuresBounded AnyStretchBounded
PROPERTY LockoutEnds
