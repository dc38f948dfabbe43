\* Two requests on two servers, up to three signals.
CONSTANTS
  Request = {r1, r2}
  MaxSignals = 3
SPECIFICATION FairSpec
INVARIANTS
  TypeOK
  OnlyTheDeadlineCuts
  PoolOutlivesRequests
  ExitNamesFirstSignal
  ForcedByRepeat
PROPERTIES SignalEndsProcess
CHECK_DEADLOCK FALSE
