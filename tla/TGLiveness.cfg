\* A VM is replaced, operations may outlive their wait and make a call panic, and two callers compete for the lock.
SPECIFICATION FairSpec
CONSTANTS
  c1 = c1  c2 = c2  n1 = n1  n2 = n2  n3 = n3
  A = A  B = B  t1 = t1  t2 = t2  t3 = t3  prod2 = prod2
  Nodes = {n1}
  Provider <- OneYandex
  Networks = {A, B}
  Targets = {t1, t2, t3}
  NoTarget = NoTarget
  Nics <- OneVM
  Prefixes = {"none"}
  Labels <- NoLabel
  Truncate <- NoneIsNone
  Foreign = {prod2}
  Matching = {}
  Callers = {c1, c2}
  NoCaller = NoCaller
  Hazards = {"error", "lost", "cancel", "recreate"}
  MaxInflight = 1
PROPERTIES
  CallsReturn
