SPECIFICATION StartupSpec
CONSTANTS
  None = None
  Root = root
  u1 = u1
  u2 = u2
  w1 = w1
  w2 = w2
  g1 = g1
  g2 = g2
  Mode = "LocalCollector"
  Workers = {w1}
  Groups = {g1}
  Upstreams = {u1}
  RootConfigs <- FollowerRootConfigs
  FilterConfigs <- PlainFilterConfigs
  Unreliable = {}
  StreamIds = {s1}
  CallIds = {}
  PingTimeout = 0
  PingInterval = 1
  MaxPolicies = 1
  MaxQueued = 3
PROPERTIES
  FilterJoins
