\* One service, and a node that comes.
SPECIFICATION ServiceSpec
CONSTANTS
  w = w  ns = ns  n1 = n1  n2 = n2  A = A  B = B  t1 = t1  t2 = t2  t3 = t3
  s1 = s1  s2 = s2  s3 = s3
  Nodes = {n1, n2}
  Provider <- Yandex
  Networks = {A}
  Targets = {t1, t2}
  NoTarget = NoTarget
  Nics <- OneNet
  Prefixes = {"none"}
  Labels <- NoPrefix
  Truncate <- PlainName
  Foreign = {}
  Matching = {}
  Callers = {w, ns}
  NoCaller = NoCaller
  Hazards = {}
  MaxInflight = 0
  Services = {s1}
  NoService = NoService
  AtStart = {s1}
  GroupOf <- InA
  Worker = w
  NodeSyncer = ns
  Fleets <- Growing
  MaxTrouble = 1
CHECK_DEADLOCK FALSE
INVARIANTS
  NodesInGroups
