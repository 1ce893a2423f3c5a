\* Does a change of TOOLS.md re-profile the tool?
SPECIFICATION Spec
CONSTANTS
  vec = vec  graph = graph  ext = ext
  ask = ask  chat = chat  forced = forced
  Enabled <- MCEnabled
  External = {ext}
  Summarised = {graph}
  Req = {ask}
  Forced = {}
  Target <- MCTarget
  OnLoop = {}
  MaxEdits = 1
  MaxRestarts = 1
  None = None
INVARIANTS ReprofiledAfterChange
