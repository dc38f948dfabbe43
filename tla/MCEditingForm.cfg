\* A thread form of a member who has replied to their own thread.
CONSTANTS
  Member = {m1, m2}
  Request = {r1}
  Subject = {s1, s2}
  Body = {b1, b2}
  Title = {t1}
  Empty = Empty
  Blank = Blank
  NotANumber = NotANumber
  Seconds = {0}
  Window = 1
  MaxPosts = 2
  MaxClock = 1
SPECIFICATION Spec
PROPERTIES FormWritesItsPost
CHECK_DEADLOCK FALSE
