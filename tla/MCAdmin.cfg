\* Two scripts that may overlap, from a shell or from the page, a crash, also in a write,
\* a request in flight, an environment that may change from service to service, and an
\* administrator who fills in the form and submits raw texts meanwhile.
SPECIFICATION FairSpec
CONSTANTS
  MaxPid = 2
  Run = {1, 2}
  AtOnce = 2
  MaxAsks = 1
  MaxCrashes = 1
  None = None
  a1 = a1  a2 = a2
  Admin = {a1}
  Port = {8080}
  EnvPort = {8080, None}
  Typed <- MCTyped
  NotInt = NotInt
INVARIANTS AdminTypeOK FileNamesService FilesLoad
PROPERTIES SignalledEnds
CHECK_DEADLOCK FALSE
