SPECIFICATION CommandSpec
CONSTANTS
  None = None
  s1 = s1
  a1 = a1
  n1 = n1
  u1 = u1
  u2 = u2
  ScreenId = {s1, s2}
  Address = {a1}
  Usn = {n1}
  Uuid = {u1, u2}
  Tag = {t1}
  Procs = {p1, p2}
  Calls <- Made
  Commands <- Typed
  YtcastFiles <- AnyFile
  Ytcast <- Migrated
  Replies <- OneReply
  MaxCalls = 4
SYMMETRY People
INVARIANTS
  TokenForItsScreen
  UniqueIdentity
  PlaysWhereItPaired
  DoneMeansSent
  AtMostTwice
CHECK_DEADLOCK FALSE
