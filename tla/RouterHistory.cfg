SPECIFICATION HSpec
CONSTANTS
  t1 = t1
  x = x
  Conns = {c1, c2}
  GraphNodes = {}
  ServerPeers = {}
  StorageAdapters = {}
  Topics = {t1}
  Gets <- HistoryGets
  Puts <- HistoryPuts
  SeenMsgsMaxSize = 2
  FanOut = 4
  None = None
  MaxAccepted = 5
INVARIANTS
  NoRepeatedAnswer
PROPERTIES
  ImplementsSeenCache
  ReplyReachesRequesterOnly
  FreshReplyForwarded
