\* Three requests after a login of the first administrator.
SPECIFICATION Spec
CONSTANTS
  u1 = u1
  u2 = u2
  u3 = u3
  n1 = n1
  n2 = n2
  n3 = n3
  r1 = r1
  r2 = r2
  r3 = r3
  None = None
  First = First
  User <- ThreeUsers
  Name <- ThreeNames
  Request <- ThreeRequests
  Form <- SomeForms
  Founder = u1
  InitialUsers <- TwoExist
  Workers <- OneOrTwo
CHECK_DEADLOCK FALSE
INVARIANTS
  ChangeEndsEarlierSessions
  OneServerSessions
  UsedSessionsAreAudited
PROPERTIES
  ReactivationIsExplicit
  SessionsEndForAReason
SYMMETRY Symmetry
