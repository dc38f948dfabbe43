\* Two edits among the posts of two members, windows open and closed.
CONSTANTS
  Member = {m1, m2}
  Request = {r1, r2}
  Subject = {s1, s2}
  Body = {b1, b2}
  Title = {t1}
  Empty = Empty
  Blank = Blank
  NotANumber = NotANumber
  Seconds = {0}
  Window = 1
  MaxPosts = 2
  MaxClock = 2
SYMMETRY Symmetry
SPECIFICATION Spec
INVARIANTS
  TypeOK
  OfferedIsAccepted
  PageIsWhole
PROPERTIES EditsAreOwn
CHECK_DEADLOCK FALSE
