SPECIFICATION FairSpec
CONSTANTS
  None = None
  Mac = {m1}
  ScreenId = {s1, s2}
  Token = {t1}
  Timeout = 4
  RequestTimeout = 2
  PollInterval = 1
  Settle = 2
INVARIANTS
  TypeOK
  Patient
  TimeBound
  ScreenIsReported
PROPERTIES
  IsLauncher
  Ends
CHECK_DEADLOCK FALSE
