\* Both endpoints, two steps of two calls, an error or a leaving client anywhere.
SPECIFICATION FairSpec
CONSTANTS
  Endpoints = {"openai", "sse"}
  MaxSteps = 2
  MaxCalls = 2
INVARIANTS TypeOK NothingLost StatusGrouped
PROPERTIES  AskOutlivesClient StreamEnds
