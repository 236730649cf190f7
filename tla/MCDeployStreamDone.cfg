CONSTANTS
  d1 = d1
  d2 = d2
  c1 = c1
  c2 = c2
  shop = shop
  web = web
  Deploys = {d1}
  Clients = {c1}
  Stalled = {}
  Slow = {c1}
  Topics = {shop}
  Plans <- OneTopic
  Cap = 1
  Shutdown = FALSE
SPECIFICATION TimedSpec
PROPERTY
  ClosesWhenDeployFinishes
CHECK_DEADLOCK FALSE
