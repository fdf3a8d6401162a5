SPECIFICATION FairSpec
CONSTANTS
  None = None
  ScreenId = {s1, s2}
  Token = {t1}
INVARIANTS
  TypeOK
  Told
PROPERTIES
  CleansUp
  IsLauncher
  Ends
CHECK_DEADLOCK FALSE
