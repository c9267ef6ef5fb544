SPECIFICATION Spec
CONSTANTS
  mine = mine
  signed = signed
  public = public
  meta = meta
  a = a
  b = b
  None = None
  BasePriority <- OfThree
  Warmth <- MCWarmth
  NodeDatas <- StoreDatas
  NodeIds = {mine, signed, public}
  Reserved = {}
  ChildKeys = {a}
  Limit = 10
  Puts <- EvictPuts
  Gets <- EvictGets
  Known <- OnlyNone
  MaxIds = 3
  MaxMessages = 4
  MaxRestarts = 1
INVARIANTS
  TypeOK
PROPERTIES
  ImplementsLwwStore
  ClassesLeaveInOrder
CHECK_DEADLOCK FALSE
