SPECIFICATION Spec
CONSTANTS
  n1 = n1
  n2 = n2
  k1 = k1
  k2 = k2
  r1 = r1
  r2 = r2
  rel = rel
  NoRun = NoRun
  Nodes <- MCNodes
  Edges <- MCEdges
  Rels <- MCRels
  Keys <- MCKeys
  Runs <- MCRuns
  Writers = {w1, w2}
  Jobs <- MCListJobs
  MaxCalls = 4
PROPERTIES
  ImplementsPromise
  AttachOrderKept
INVARIANTS
  LinksAreLists
  RunRefsFollowKeys
CHECK_DEADLOCK FALSE
