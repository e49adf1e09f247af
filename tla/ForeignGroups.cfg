\* A cluster called prod beside one called prod2: unique names, one a part of the other.
SPECIFICATION Spec
CONSTANTS
  c1 = c1  c2 = c2  n1 = n1  n2 = n2  n3 = n3
  A = A  B = B  t1 = t1  t2 = t2  t3 = t3  prod2 = prod2
  Nodes = {n1, n2}
  Provider <- AllYandex
  Networks = {A}
  Targets = {t1, t3}
  NoTarget = NoTarget
  Nics <- TwoVMs
  Prefixes = {"none", "long", "cut"}
  Labels <- TwoLabels
  Truncate <- LongIsCut
  Foreign = {prod2}
  Matching = {prod2}
  Callers = {c1, c2}
  NoCaller = NoCaller
  Hazards = {}
  MaxInflight = 0
PROPERTIES
  ForeignUntouched
