SPECIFICATION Spec
CONSTANTS
  User = {u1}
  Token = {t1, t2}
  Request = {r1, r2}
  NoUser = NoUser
  NoToken = NoToken
  Cooldown = 1
  Lifetime = 2
  MaxTime = 2
SYMMETRY Symmetry
INVARIANT ResetEndsOldSessions
CHECK_DEADLOCK FALSE
