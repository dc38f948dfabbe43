\* Three requests of one visitor through two cleanups, safety.
CONSTANTS
  free = free
  strict = strict
  Key = {k1}
  Path = {free, strict}
  Burst <- BurstOf
  Period <- PeriodOf
  Request = {r1, r2, r3}
  Interval = 3
  MaxStall = 1
  MaxTime = 7
SYMMETRY Symmetry
SPECIFICATION Spec
INVARIANTS
  TypeOK
  AdmissionBound
  RefusedGainNothing
  VisitorsForgotten
CHECK_DEADLOCK FALSE
