\* A start, then a stop by the page of the service that was started.
SPECIFICATION AdminSpec
CONSTANTS
  MaxPid = 1
  Run = {1, 2}
  AtOnce = 1
  MaxAsks = 0
  MaxCrashes = 0
  None = None
  a1 = a1  a2 = a2
  Admin = {a1}
  Port = {8080}
  EnvPort = {None}
  Typed = {}
  NotInt = NotInt
INVARIANTS OwnStopWorks
CHECK_DEADLOCK FALSE
