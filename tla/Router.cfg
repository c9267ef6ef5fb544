SPECIFICATION Spec
CONSTANTS
  c1 = c1
  c2 = c2
  node = node
  multicast = multicast
  storage = storage
  t1 = t1
  t2 = t2
  x = x
  Conns = {c1, c2}
  GraphNodes = {node}
  ServerPeers = {multicast}
  StorageAdapters = {storage}
  Topics = {t1, t2}
  Gets <- MixedGets
  Puts <- MixedPuts
  SeenMsgsMaxSize = 1
  FanOut = 2
  None = None
SYMMETRY ConnSymmetry
INVARIANTS
  SubscriptionsKept
  PublicationSentOnce
  RelayedToFew
  PublicationReachesInterested
