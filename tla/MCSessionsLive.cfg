SPECIFICATION FairSpec
CONSTANTS
  User = {u1}
  Session = {s1, s2, s3}
  Mortal = {}
  Request = {r1, r2}
  NoUser = NoUser
  NoSession = NoSession
  Unborn = Unborn
  Dead = Dead
PROPERTIES
  RequestsEnd
CHECK_DEADLOCK FALSE
