SPECIFICATION CommandSpec
CONSTANTS
  None = None
  s1 = s1
  a1 = a1
  n1 = n1
  u1 = u1
  u2 = u2
  ScreenId = {s1, s2}
  Address = {a1}
  Usn = {n1}
  Uuid = {u1, u2}
  Tag = {t1}
  Procs = {p1}
  Calls <- Made
  Commands <- OneVideo
  YtcastFiles <- OnlyBroken
  Ytcast <- Migrated
  Replies <- OneReply
  MaxCalls = 2
INVARIANTS
  OnlyYttvErrors
CHECK_DEADLOCK FALSE
