SPECIFICATION Spec
CONSTANTS
  User = {u1, u2}
  Token = {t1, t2}
  Request = {r1, r2}
  NoUser = NoUser
  NoToken = NoToken
  Cooldown = 1
  Lifetime = 2
  MaxTime = 3
SYMMETRY Symmetry
INVARIANTS TypeOK SupersedesEarlier CooldownHolds VerificationIsEffective
PROPERTIES LiveUntilReplaced OneTimeSpec
CHECK_DEADLOCK FALSE
