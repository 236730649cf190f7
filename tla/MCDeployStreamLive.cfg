CONSTANTS
  d1 = d1
  d2 = d2
  c1 = c1
  c2 = c2
  shop = shop
  web = web
  Deploys = {d1}
  Clients = {c1, c2}
  Stalled = {c2}
  Slow = {c2}
  Topics = {shop}
  Plans <- OneTopic
  Cap = 1
  Shutdown = FALSE
SPECIFICATION Spec
PROPERTIES
  DeployEnds
  StreamEnds
  EndedIsForgotten
CHECK_DEADLOCK FALSE
