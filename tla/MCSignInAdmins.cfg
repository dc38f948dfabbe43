\* Two first visits at once.
CONSTANTS
  Address = {a1, a2}
  Spelling = {s1}
  Request = {r1, r2}
  MaxConns = 2
SPECIFICATION Spec
PROPERTIES AdminOnlyOfEmptyBoard
CHECK_DEADLOCK FALSE
