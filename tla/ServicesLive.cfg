\* Two services, and a failing call or a crash; an operation may outlive it.
SPECIFICATION ServiceSpec
CONSTANTS
  w = w  ns = ns  n1 = n1  n2 = n2  A = A  B = B  t1 = t1  t2 = t2  t3 = t3
  s1 = s1  s2 = s2  s3 = s3
  Nodes = {n1}
  Provider <- Yandex
  Networks = {A}
  Targets = {t1}
  NoTarget = NoTarget
  Nics <- OneVM
  Prefixes = {"none"}
  Labels <- NoPrefix
  Truncate <- PlainName
  Foreign = {}
  Matching = {}
  Callers = {w, ns}
  NoCaller = NoCaller
  Hazards = {"error", "lost", "crash"}
  MaxInflight = 1
  Services = {s1, s2}
  NoService = NoService
  AtStart = {s1}
  GroupOf <- InA
  Worker = w
  NodeSyncer = ns
  Fleets <- Fixed
  MaxTrouble = 1
CHECK_DEADLOCK FALSE
PROPERTIES
  DeletionEnds
  Served
