\* The service may answer a create without an id; every call is throttled.
SPECIFICATION FairSpec
CONSTANTS
  c1 = c1  c2 = c2  c3 = c3  c4 = c4
  vec = vec  ext = ext  graph = graph
  u = u  w = w
  Call = {c1, c2, c3, c4}
  Tool = {vec, ext, graph}
  Url = {u, w}
  ToolOf <- MCToolOf
  UrlOf <- MCUrlOf
  Hybrid = {vec, graph}
  Limit = 2
  IdAlways = FALSE
  None = None
  Absent = Absent
INVARIANTS TypeOK RateLimited PermitsReturned OneChatPerTool
PROPERTIES EveryCallReturns
