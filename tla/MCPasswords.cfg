SPECIFICATION Spec
CONSTANTS
  p1 = p1
  p2 = p2
  p3 = p3
  u1 = u1
  NoPassword = NoPassword
  NoPolicy = NoPolicy
  NotSet = NotSet
  Forced = Forced
  Requests = {r1, r2, r3}
  Users = {u1}
  Passwords = {p1, p2, p3}
  Weak = {p3}
  Settings <- MCSettings
  DefaultPolicy <- MCDefault
  SeedPolicies <- MCSeedPolicies
  Asks <- MCAsks
  SeedHashes = {p1}
  LastDay = 1
  MaxChanges = 2
  MaxActive = 2
SYMMETRY RequestSymmetry
INVARIANTS TypeOK NoEarlyReturn CurrentRecorded
CHECK_DEADLOCK FALSE
