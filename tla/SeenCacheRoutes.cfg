SPECIFICATION Spec
CONSTANTS
  GetIds = {g1, g2, g3}
  PutIds = {p1, p2}
  Addrs = {a}
  Checksums = {}
  None = None
  SeenMsgsMaxSize = 3
  MaxAccepted = 9
INVARIANT SeenGetsHaveRoutes
