\* Two goroutines, one address, and everything that may go wrong.
SPECIFICATION Spec
CONSTANTS
  n1 = n1  n2 = n2  d1 = d1  d2 = d2  h1 = h1  h2 = h2  g1 = g1  g2 = g2
  Nodes = {n1, n2}
  NoNode = NoNode
  CIDRs = {d1, d2}
  Hops = {h1}
  NoHop = NoHop
  UserRoutes <- MCUserRoutes
  Callers = {g1, g2}
  NoCaller = NoCaller
  Hazards = {"error", "lost", "crash", "address", "user"}
  MaxStray = 1
SYMMETRY AnyOne
INVARIANTS
  TypeOK
  OneRoutePerNode
  SnapshotFresh
  FilterFaithful
PROPERTIES
  Atomically
