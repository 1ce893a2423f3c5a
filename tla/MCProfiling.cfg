\* An ask, a chat completion and a forced profiling, one edit, one restart; a chat
\* completion that has to probe stops the service (MCProbeOnLoop).
SPECIFICATION FairSpec
CONSTANTS
  vec = vec  graph = graph  ext = ext
  ask = ask  chat = chat  forced = forced
  Enabled <- MCEnabled
  External = {ext}
  Summarised = {graph}
  Req = {ask, chat, forced}
  Forced = {forced}
  Target <- MCTarget
  OnLoop = {chat}
  MaxEdits = 1
  MaxRestarts = 1
  None = None
INVARIANTS TypeOK ReadyToPlan ForceRefreshes
PROPERTIES ThreadedRequestsEnd
CHECK_DEADLOCK FALSE
