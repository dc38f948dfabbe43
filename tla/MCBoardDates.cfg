\* The date of the last post, against its author.
CONSTANTS
  Member = {m1, m2}
  Request = {r1, r2, r3}
  MaxConns = 2
SYMMETRY Symmetry
SPECIFICATION Spec
INVARIANTS
  LastPostDated
CHECK_DEADLOCK FALSE
