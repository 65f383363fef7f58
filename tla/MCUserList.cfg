SPECIFICATION UserListSpec
CONSTANTS
  u1 = u1
  u2 = u2
  u3 = u3
  Position <- MCPosition
  Limit = 1
  MaxBusy = 2
  User = {u1, u2, u3}
  Founder = u1
  Email = {e1, e2, e3}
  FounderEmail = e1
  Status = {"ACTIVE", "SUSPENDED"}
  Request = {r1, r2}
  MaxNip = 3
  NoUser = NoUser
  NoEmail = NoEmail
SYMMETRY Symmetry
INVARIANTS UserListTypeOK NipsAreConsecutive WalkMissesNobody
  WalkRepeatsNobody
PROPERTIES DeletedAreFrozen UndisturbedDeleteKeepsOwner PersonnelSpec
CHECK_DEADLOCK FALSE
