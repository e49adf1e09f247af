\* Two services come and go, with a node that may go too, and two changes, failing
\* calls or crashes; operations may outlive their waits and the process.
SPECIFICATION MCHistorySpec
CONSTANTS
  w = w  ns = ns  n1 = n1  n2 = n2  A = A  B = B  t1 = t1  t2 = t2  t3 = t3
  s1 = s1  s2 = s2  s3 = s3
  Nodes = {n1}
  Provider <- Yandex
  Networks = {A}
  Targets = {t1}
  NoTarget = NoTarget
  Nics <- MaybeVM
  Prefixes = {"none"}
  Labels <- NoPrefix
  Truncate <- PlainName
  Foreign = {}
  Matching = {}
  Callers = {w, ns}
  NoCaller = NoCaller
  Hazards = {"error", "lost", "crash"}
  MaxInflight = 1
  Services = {s1, s2}
  NoService = NoService
  AtStart = {}
  GroupOf <- InA
  Worker = w
  NodeSyncer = ns
  Fleets <- Emptying
  MaxTrouble = 2
SYMMETRY AnyService
CHECK_DEADLOCK FALSE
INVARIANTS
  ServiceTypeOK
  NothingForgotten
  OrphanOnlyLate
  SweptStaysClean
