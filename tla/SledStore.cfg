SPECIFICATION Spec
CONSTANTS
  mine = mine
  signed = signed
  public = public
  meta = meta
  a = a
  b = b
  None = None
  BasePriority <- OfThree
  Warmth <- MCWarmth
  NodeDatas <- StoreDatas
  NodeIds = {public, meta}
  Reserved = {meta}
  ChildKeys = {a, b}
  Limit = None
  Puts <- StorePuts
  Gets <- StoreGets
  Known <- StoreKnown
  MaxIds = 2
  MaxMessages = 5
  MaxRestarts = 0
INVARIANTS
  PutsAreAccounted
CHECK_DEADLOCK FALSE
