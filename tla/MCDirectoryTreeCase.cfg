SPECIFICATION Spec
CONSTANTS
  Rdns <- MCRdns
  Lower <- MCLower
  Names <- MCNames
  NameOf <- MCNameOf
  NoParent = NoParent
  Free = Free
  Gone = Gone
  NoOwner = NoOwner
  NoSuperior = NoSuperior
  BaseDn = BaseDn
  Seed <- MCMixed
  Ids = {1, 2, 3, 4}
  Requests = {r1, r2}
  AddDns <- MixedDns
  DeleteDns <- MixedDns
  Moves <- MCMoveA
  MaxActive = 1
  Alone = {}
  Crashes = FALSE
INVARIANT PathsFollowTree
CHECK_DEADLOCK FALSE
