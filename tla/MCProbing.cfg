\* Two writers of one tool's records, each a process of its own: one asks three questions
\* with two slots, the other one question; two records, over the turn of the year.
SPECIFICATION FairSpec
CONSTANTS
  tool = tool  p1 = p1  p2 = p2
  Probe = {p1, p2}
  Prefix <- MCPrefix
  MaxQuestions <- MCMaxQuestions
  RetryMax = 2
  Limit = 2
  Tool = {tool}
  ToolOf <- MCToolOf
  Process = {{p1}, {p2}}
  Year = 2
  MaxMinutes = 2
  MaxSaves = 2
  NoFile = NoFile  Empty = Empty  Mixed = Mixed
  None = None
INVARIANTS ProbingTypeOK ProbeLimited NothingStrays WholeProfile LatestIsNewest
PROPERTIES ProbeEnds
CHECK_DEADLOCK FALSE
