SPECIFICATION Spec
CONSTANTS
  GetIds = {g1, g2, g3}
  PutIds = {p1, p2}
  Addrs = {a, b}
  Checksums = {c}
  None = None
  SeenMsgsMaxSize = 3
  MaxAccepted = 7
INVARIANTS
  CachesAreWindows
  RepliesAreRoutable
  NoEarlyRepeat
