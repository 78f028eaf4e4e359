CONSTANTS
  e1 = e1
  e2 = e2
  s1 = s1
  s2 = s2
  h1 = h1
  h2 = h2
  c1 = c1
  c2 = c2
  A = A
  B = B
  Requests = {e1, e2}
  Plan <- Asked
  Codes = {A, B}
  Servers = {s1, s2}
  ServerOf <- TwoServers
  Hosts = {h1, h2}
  Compilers = {c1, c2}
  HostOf <- TwoHosts
  Probes = {e2}
  Dataset = A
  Unnamed = Unnamed
  MaxFaults = 1
SPECIFICATION Spec
SYMMETRY Mirror
CHECK_DEADLOCK FALSE
INVARIANT DiscardedStayAway
