\* Two nodes, two CIDRs, a route of a user; MaxTrouble changes and faults.
SPECIFICATION RoundSpec
CONSTANTS
  n1 = n1  n2 = n2  d1 = d1  d2 = d2  h = h
  Nodes = {n1, n2}
  NoNode = NoNode
  CIDRs = {d1, d2}
  Hops = {h}
  NoHop = NoHop
  UserRoutes <- MCUserRoutes
  Callers <- Requests
  NoCaller = NoCaller
  Hazards = {"error", "crash", "lost", "address", "user"}
  MaxStray = 1
  MaxTrouble = 4
PROPERTIES
  Converges
  RoundsImprove
