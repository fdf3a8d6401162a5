SPECIFICATION Spec
CONSTANTS
  Procs = {p1, p2}
  Values = {v1, v2}
  None = None
  Torn = Torn
  Chunks = 2
  MaxFiles = 3
INVARIANTS
  TypeOK
  NeverTorn
  OwnTemp
  NoLitter
PROPERTIES
  NeverVanishes
  IsAtomic
