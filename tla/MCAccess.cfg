SPECIFICATION Spec
CONSTANTS
  seed = seed
  Seed = seed
  NoUser = NoUser
  NoToken = NoToken
  NoWriter = NoWriter
  Requests = {r1, r2, r3}
  Users = {admin}
  SeedRows <- MCSeedRows
  Scopes = {"api", "ldap"}
  Ops = {"setup", "login", "refresh", "use", "mfa", "connect", "callback", "bind"}
  AccessLife = 1
  RefreshLife = 2
  FactorLife = 2
  Leeway = 1
  LastTime = 3
  MaxActive = 2
SYMMETRY RequestSymmetry
INVARIANTS TypeOK SetupOnce BoundedSession SecondFactor PairsMatch DeletedRefused
CHECK_DEADLOCK FALSE
