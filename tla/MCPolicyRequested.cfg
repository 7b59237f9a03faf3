SPECIFICATION Spec
CONSTANTS
  None = None
  Root = root
  u1 = u1
  u2 = u2
  w1 = w1
  w2 = w2
  g1 = g1
  g2 = g2
  Mode = "DirectFilter"
  Workers = {}
  Groups = {g1}
  Upstreams = {u1}
  RootConfigs <- AllRootConfigs
  FilterConfigs <- NoFilterConfigs
  Unreliable = {}
  StreamIds = {s1}
  CallIds = {}
  PingTimeout = 0
  PingInterval = 1
  MaxPolicies = 2
  MaxQueued = 3
INVARIANTS
  PolicyRequested
