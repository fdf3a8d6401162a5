SPECIFICATION FairSpec
CONSTANTS
  None = None
  a1 = a1
  a2 = a2
  n1 = n1
  n2 = n2
  Answer <- Answers
  Junk = Junk
  Timeout = 2
  Delay = 1
  Buffer = 2
INVARIANTS
  OnTime
  Collected
  Verdict
  NothingMissed
PROPERTIES
  IsSearch
  Ends
CHECK_DEADLOCK FALSE
