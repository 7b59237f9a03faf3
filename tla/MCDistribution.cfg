SPECIFICATION Spec
CONSTANTS
  None = None
  Root = root
  u1 = u1
  u2 = u2
  w1 = w1
  w2 = w2
  g1 = g1
  g2 = g2
  Mode = "LocalCollector"
  Workers = {w1, w2}
  Groups = {g1, g2}
  Upstreams = {u1, u2}
  RootConfigs <- GroupRootConfigs
  FilterConfigs <- MixedFilterConfigs
  Unreliable = {w2}
  StreamIds = {s1}
  CallIds = {}
  PingTimeout = 0
  PingInterval = 1
  MaxPolicies = 2
  MaxQueued = 2
INVARIANTS
  GroupIsolation
  PolicyInSync
  UpstreamInSync
PROPERTIES
  ReplicationSpec
