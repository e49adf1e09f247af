\* One Service, two callers, and operations that outlive their wait.
SPECIFICATION Spec
CONSTANTS
  c1 = c1  c2 = c2  http = http  api = api  p1 = p1  p2 = p2
  t1 = t1  t2 = t2  any = any  g1 = g1  g2 = g2  k1 = k1
  ListenerNames = {http, api}
  Ports = {p1, p2}
  NodePorts = {t1, t2}
  Addresses = {any}
  Groups = {g1, g2}
  Checks = {k1}
  Specs <- MCSpecs
  Ids = {1, 2, 3}
  NoId = 0
  Callers = {c1, c2}
  Hazards = {"error", "lost", "crash"}
  MaxInflight = 1
SYMMETRY AnyCaller
INVARIANTS
  TypeOK
  
  CallsKnow
PROPERTIES
  UpdateExact
  ServingKept
  RemovedIsGone
