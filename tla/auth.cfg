SPECIFICATION Spec
CONSTANTS
  u1 = u1
  r1 = r1
  r2 = r2
  NoUser = NoUser
  Users <- OneUser
  Requests <- TwoRequests
  MaxSessions = 3
  MaxResets = 1
  MaxEnds = 2
  AuditMayFail = TRUE
CONSTRAINT Small
INVARIANTS
  TypeOK
  AncestorsBurned
  OneOrgPerAccount
PROPERTIES
  RotationIsSingleUse
  SweepsAreFinal
  ResetIsSingleUse
CHECK_DEADLOCK FALSE
