SPECIFICATION Spec
CONSTANTS
  User = {u1, u2, u3}
  Founder = u1
  Email = {e1, e2, e3}
  FounderEmail = e1
  Status = {"ACTIVE", "SUSPENDED"}
  Request = {r1, r2}
  MaxNip = 3
  NoUser = NoUser
  NoEmail = NoEmail
SYMMETRY Symmetry
PROPERTY NextNipIsAvailable
CHECK_DEADLOCK FALSE
