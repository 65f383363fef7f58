SPECIFICATION AccessSpec
CONSTANTS
  n1 = n1
  n2 = n2
  home = home
  other = other
  Role = {x1, x2, x3}
  Name = {n1, n2, n3}
  SystemName = {n1}
  SeedName = {n1, n2}
  OwnerName = n1
  SeedGrants <- MCSeedGrants
  Permission = {p1}
  User = {u1, u2}
  Founder = u1
  Caller = {u2}
  Request = {r1, r2}
  Seeder = {s1, s2}
  Slug = {home, other}
  Home = home
  Host = {"own", "another", "www", "localhost"}
  LocalHost = {"localhost"}
  Label <- MCLabel
  DefaultSlug = home
  NoSlug = NoSlug
  NoRole = NoRole
  NoName = NoName
  NoUser = NoUser
  MaxBusy = 2
SYMMETRY Symmetry
INVARIANTS AccessTypeOK GrantsHaveARole SeededIsComplete
  AdmittedWasPermitted
PROPERTIES SystemRolesUntouched UsersKeepARole SeedersTakeNothing
  RefusedWasUnpermitted CatalogueSpec
CHECK_DEADLOCK FALSE
