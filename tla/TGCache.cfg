\* Calls fail, the process crashes, the VM of a node changes, and one operation at a time may outlive its wait.
SPECIFICATION MemoSpec
CONSTANTS
  c1 = c1  c2 = c2  n1 = n1  n2 = n2  n3 = n3
  A = A  B = B  t1 = t1  t2 = t2  t3 = t3  prod2 = prod2
  Nodes = {n1, n2, n3}
  Provider <- ThreeKinds
  Networks = {A, B}
  Targets = {t1, t2, t3}
  NoTarget = NoTarget
  Nics <- MovingVM
  Prefixes = {"none"}
  Labels <- MovingLabels
  Truncate <- NoneIsNone
  Foreign = {prod2}
  Matching = {}
  Callers = {c1, c2}
  NoCaller = NoCaller
  Hazards = {"error", "lost", "cancel", "crash", "recreate"}
  MaxInflight = 1
SYMMETRY AnyCaller
INVARIANTS
  CacheTruth
