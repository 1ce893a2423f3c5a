\* A start, then a restart by the page of the service with an ask in flight.
SPECIFICATION FairSpec
CONSTANTS
  MaxPid = 3
  Run = {1, 2}
  AtOnce = 1
  MaxAsks = 1
  MaxCrashes = 0
  None = None
  a1 = a1  a2 = a2
  Admin = {a1}
  Port = {8080}
  EnvPort = {None}
  Typed = {}
  NotInt = NotInt
PROPERTIES RestartComesBack
CHECK_DEADLOCK FALSE
