SPECIFICATION Spec
CONSTANTS
  User = {u1}
  Token = {t1, t2, t3}
  Request = {r1, r2}
  NoUser = NoUser
  NoToken = NoToken
  Cooldown = 1
  Lifetime = 2
  MaxTime = 2
SYMMETRY Symmetry
INVARIANTS TypeOK SupersedesEarlier CooldownHolds ResetIsEffective
PROPERTY OneTimeSpec
CHECK_DEADLOCK FALSE
