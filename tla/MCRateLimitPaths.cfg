\* Two paths, one bucket.
CONSTANTS
  free = free
  strict = strict
  Key = {k1}
  Path = {free, strict}
  Burst <- BurstOf
  Period <- PeriodOf
  Request = {r1, r2, r3}
  Interval = 3
  MaxStall = 1
  MaxTime = 3
SYMMETRY Symmetry
SPECIFICATION Spec
INVARIANTS
  EndpointLimits
CHECK_DEADLOCK FALSE
