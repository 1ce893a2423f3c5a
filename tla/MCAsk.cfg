\* One ask of up to two steps: the external tool is asked up to two questions, a
\* pick may repeat, and the response shows two items.  Does it end?
SPECIFICATION FairSpec
CONSTANTS
  vec = vec  ext = ext
  ToolId = {vec, ext}
  External = {ext}
  Split = {ext}
  Required = {vec, ext}
  CandidateLists <- MCCandidateLists
  StopLists <- MCStopLists
  Replies <- MCReplies
  MaxSteps = 2
  EvidenceMin = 1
  EvidenceMax = 2
  MustCite = TRUE
  MaxWorkers = 2
  MaxQuestions = 2
  MaxPicks = 2
  MaxMissing = 1
INVARIANTS TypeOK StepBudget RecordsInOrder NoCallLeftBehind SuccessIsBacked BestShown
PROPERTIES AskEnds
