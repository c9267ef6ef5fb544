SPECIFICATION Spec
CONSTANTS
  n1 = n1
  n2 = n2
  c1 = c1
  c2 = c2
  v = v
  w = w
  None = None
  Replicas = {r1, r2}
  NodeIds = {n1, n2}
  ChildKeys = {c1, c2}
  NodeDatas <- MCNodeDatas
  Puts <- MCPuts
INVARIANTS
  NewestEverywhere
  RepliesComplete
PROPERTIES
  ImplementsLwwStore
