\* Three VMs of one name, one after the other, and four network configurations.
SPECIFICATION Spec
CONSTANTS
  v1 = v1  v2 = v2  v3 = v3  n1 = n1  A = A  B = B
  a1 = a1  a2 = a2  a3 = a3  b1 = b1  b2 = b2  x1 = x1  x2 = x2  none = none
  Ids = {v1, v2, v3}
  Names = {n1}
  VM <- MCVM
  Networks = {A, B}
  Settings <- MCSettings
  NoAddress = none
  Given <- MCGiven
  MaxTrouble = 1
CHECK_DEADLOCK FALSE
INVARIANTS
  TypeOK
  AddressesDocumented
PROPERTIES
  OnlyGoneRemoved
  GoneRemoved
  EachDescribed
