SPECIFICATION Spec
CONSTANTS
  User = {u1}
  Session = {s1, s2}
  Mortal = {}
  Request = {r1, r2}
  NoUser = NoUser
  NoSession = NoSession
  Unborn = Unborn
  Dead = Dead
INVARIANTS
  LogoutAllKillsFamilies
CHECK_DEADLOCK FALSE
