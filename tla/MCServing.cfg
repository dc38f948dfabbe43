\* Two requests for any of the routes.
CONSTANTS
  Request = {r1, r2}
SYMMETRY Symmetry
SPECIFICATION Spec
INVARIANTS
  TypeOK
  ReportedIsSent
  GaugeIsBalanced
  HandlersAreGuarded
  AnswersAreSecured
  PanicIsAnswered
CHECK_DEADLOCK FALSE
