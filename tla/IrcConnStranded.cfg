SPECIFICATION Spec
CONSTANTS
  Sock = {a1, a2, a3}
  NULL = NULL
  MaxTries = 2
  ConnectWait = 1
  PingWait = 3
  StonedWait = 6
  ClosedWait = 1
  ErrorWait = 1
  TimeoutWait = 2
CHECK_DEADLOCK FALSE
INVARIANT NotStranded
