\* Three posting requests of two members: invariants and the atomic board.
CONSTANTS
  Member = {m1, m2}
  Request = {r1, r2, r3}
  MaxConns = 3
SYMMETRY Symmetry
SPECIFICATION Spec
INVARIANTS
  TypeOK
  BoardTotals
  MemberTotals
  ThreadTotals
  OpeningPost
  LastPoster
  OneViewPerPoster
  AnsweredIsStored
PROPERTIES
  PostingIsAtomic
CHECK_DEADLOCK FALSE
