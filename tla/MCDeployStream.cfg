CONSTANTS
  d1 = d1
  d2 = d2
  c1 = c1
  c2 = c2
  shop = shop
  web = web
  Deploys = {d1, d2}
  Clients = {c1}
  Stalled = {}
  Slow = {c1}
  Topics = {shop, web}
  Plans <- TwoTopics
  Cap = 2
  Shutdown = TRUE
SPECIFICATION Spec
INVARIANTS
  TypeOK
  StreamIsFaithful
  RegisteredOpen
  OutcomeIsRecorded
CHECK_DEADLOCK FALSE
