CONSTANTS
  a2 = a2
  k2 = k2
  v3 = v3
  None = None
  Relay = Relay
  Servers = {server}
  Conns = {a1, a2}
  Calls = {k1, k2}
  ServerOf <- OneServer
  i1 = i1
  i2 = i2
  p1 = p1
  p3 = p3
  Instances = {i1, i2}
  Publishers = {p1, p2, p3}
  At <- TwoInstances
  Subscribers = {i1}
  Capacity = 1
  MaxEvents = 2
  Viewers = {v1, v2, v3}
  Tickets = {t1, t2}
  AppOf <- TwoApps
  ViewSockets = {a1, a2}
  MaxRetries = 2
  MaxFetches = 2
  MaxTimers = 2
SPECIFICATION Spec
INVARIANTS
  TunnelHolds
  OnceAndInOrder
  LogViewersHold
  ViewHolds
  TypeOK
PROPERTIES
  CommandsReturn
CHECK_DEADLOCK FALSE
