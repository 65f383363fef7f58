SPECIFICATION Spec
CONSTANTS
  User = {u1}
  Session = {s1, s2, s3}
  Mortal = {s1}
  Request = {r1, r2}
  NoUser = NoUser
  NoSession = NoSession
  Unborn = Unborn
  Dead = Dead
SYMMETRY Symmetry
INVARIANTS
  TypeOK
  OneLivePerFamily
  ReplayRevokesSuccessor
PROPERTIES
  RotationSpendsItsParent
  FamilySpec
CHECK_DEADLOCK FALSE
