\* Does a chat completion that has to probe a tool end?
SPECIFICATION FairSpec
CONSTANTS
  vec = vec  graph = graph  ext = ext
  ask = ask  chat = chat  forced = forced
  Enabled <- MCEnabled
  External = {ext}
  Summarised = {graph}
  Req = {chat}
  Forced = {}
  Target <- MCTarget
  OnLoop = {chat}
  MaxEdits = 1
  MaxRestarts = 1
  None = None
PROPERTIES RequestsEnd
CHECK_DEADLOCK FALSE
