SPECIFICATION FairSpec
CONSTANTS
  mine = mine
  signed = signed
  public = public
  meta = meta
  a = a
  b = b
  None = None
  BasePriority <- OfThree
  Warmth <- MCWarmth
  NodeDatas <- GrowDatas
  NodeIds = {public}
  Reserved = {}
  ChildKeys = {a}
  Limit = 60
  Puts <- GrowPuts
  Gets = {}
  Known <- OnlyNone
  MaxIds = 2
  MaxMessages = 3
  MaxRestarts = 0
PROPERTY EvictionEnds
CHECK_DEADLOCK FALSE
