SPECIFICATION FairSpec
CONSTANTS
  node = node
  router = router
  server = server
  by_default = by_default
  multicast = multicast
  manager = manager
  c1 = c1
  c2 = c2
  c3 = c3
  Root = root
  Actors = {router, server, by_default, multicast, manager, c1, c3}
  Parent <- MCParent
  Adapters = {server, by_default, multicast, manager}
  Conns = {c1, c3}
  Servers = {server, by_default}
  Detached = {server}
  Stats = {by_default}
  Endless = {manager}
  Multicasts = {multicast}
INVARIANTS
  StopFindsAll
  OneEndIsLocal
PROPERTY StopCascades
