SPECIFICATION ClientSpec
CONSTANTS
  u1 = u1
  u2 = u2
  r1 = r1
  r2 = r2
  t1 = t1
  t2 = t2
  c1 = c1
  c2 = c2
  c3 = c3
  NoUser = NoUser
  NoOne = NoOne
  Users <- OneUser
  Requests <- OneRequest
  MaxSessions = 2
  MaxResets = 0
  MaxEnds = 1
  AuditMayFail = FALSE
  Tabs <- TwoTabs
  Calls <- ThreeCalls
  TabOf <- Where
SYMMETRY Interchangeable
CONSTRAINT Calm
INVARIANTS
  CalmPairIsLive
PROPERTIES
  CalmCallsSucceed
CHECK_DEADLOCK FALSE
