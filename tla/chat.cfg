SPECIFICATION Spec
CONSTANTS
  me = me
  m1 = m1
  m2 = m2
  TopK = 1
  a1 = a1
  a2 = a2
  NoMeeting = NoMeeting
  NoSession = NoSession
  Me = me
  Users <- OneUser
  Meetings <- TwoMeetings
  OrgOf <- TwoOrgs
  Sessions <- TwoSessions
  Asks <- TwoAsks
  PageAsks <- OneAsk
  MaxLoads = 1
  MaxUnlisted = 1
INVARIANTS
  WholeExchanges
  CitesOwn
  NamedByQuestion
  HistoryByExchange
  CalmPageIsStored
PROPERTIES
  FormComesBack
CHECK_DEADLOCK FALSE
