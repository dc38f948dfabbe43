\* Three requests on two connections from two addresses in two spellings.
CONSTANTS
  Address = {a1, a2}
  Spelling = {s1, s2}
  Request = {r1, r2, r3}
  MaxConns = 2
SPECIFICATION FairSpec
INVARIANTS
  TypeOK
  SignUpIsWhole
  OneMemberPerAddress
  SomeoneIsAdmin
  BlockedStaysOut
PROPERTIES EveryRequestAnswered
CHECK_DEADLOCK FALSE
