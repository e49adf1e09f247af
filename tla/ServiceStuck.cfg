\* Three services, two groups, one node, and nothing that goes wrong.
SPECIFICATION ServiceSpec
CONSTANTS
  w = w  ns = ns  n1 = n1  n2 = n2  A = A  B = B  t1 = t1  t2 = t2  t3 = t3
  s1 = s1  s2 = s2  s3 = s3
  Nodes = {n1}
  Provider <- Yandex
  Networks = {A, B}
  Targets = {t1, t3}
  NoTarget = NoTarget
  Nics <- TwoNets
  Prefixes = {"none"}
  Labels <- NoPrefix
  Truncate <- PlainName
  Foreign = {}
  Matching = {}
  Callers = {w, ns}
  NoCaller = NoCaller
  Hazards = {}
  MaxInflight = 0
  Services = {s1, s2, s3}
  NoService = NoService
  AtStart = {s1, s2}
  GroupOf <- InAAndB
  Worker = w
  NodeSyncer = ns
  Fleets <- Fixed
  MaxTrouble = 0
CHECK_DEADLOCK FALSE
PROPERTIES
  AlwaysServed
