\* Is an ask downgraded for wanting more steps only when it still wants them?
SPECIFICATION Spec
CONSTANTS
  vec = vec  ext = ext
  ToolId = {vec, ext}
  External = {ext}
  Split = {ext}
  Required = {vec}
  CandidateLists <- MCCandidateLists
  StopLists <- MCStopLists
  Replies <- MCReplies
  MaxSteps = 2
  EvidenceMin = 1
  EvidenceMax = 2
  MustCite = TRUE
  MaxWorkers = 2
  MaxQuestions = 1
  MaxPicks = 1
  MaxMissing = 1
INVARIANTS NeedsMoreIsCurrent
