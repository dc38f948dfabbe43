\* Three requests for two connections: everyone is answered.
CONSTANTS
  Member = {m1}
  Request = {r1, r2, r3}
  MaxConns = 2
SPECIFICATION FairSpec
PROPERTIES
  EveryRequestAnswered
CHECK_DEADLOCK FALSE
