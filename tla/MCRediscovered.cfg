SPECIFICATION Spec
CONSTANTS
  None = None
  s1 = s1
  s2 = s2
  a1 = a1
  n1 = n1
  u1 = u1
  u2 = u2
  ScreenId = {s1, s2}
  Address = {a1}
  Usn = {n1}
  Uuid = {u1, u2}
  Tag = {t1}
  Procs = {p1}
  Calls <- Searched
  Replies <- OneReply
  Ytcast <- TwoFromYtcast
  MaxCalls = 2
PROPERTIES
  DiscoverRefreshesAddresses
CHECK_DEADLOCK FALSE
