SPECIFICATION FairSpec
CONSTANTS
  Jobs = {j1, j2}
INVARIANTS
  TypeOK
  DoneWhenReturned
  Closes
PROPERTIES
  CallersEnd
CHECK_DEADLOCK FALSE
