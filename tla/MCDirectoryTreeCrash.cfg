SPECIFICATION Spec
CONSTANTS
  Rdns <- MCRdns
  Lower <- MCLower
  Names <- MCNames
  NameOf <- MCNameOf
  NoParent = NoParent
  Free = Free
  Gone = Gone
  NoOwner = NoOwner
  NoSuperior = NoSuperior
  BaseDn = BaseDn
  Seed <- MCMixed
  Ids = {1, 2, 3, 4, 5}
  Requests = {r1, r2, r3}
  AddDns <- CrashAdds
  DeleteDns <- CrashDeletes
  Moves <- MCMoves
  MaxActive = 3
  Alone = {"modifyDN"}
  Crashes = TRUE
PROPERTY OnlyDeleteRemoves
SYMMETRY RequestSymmetry
CHECK_DEADLOCK FALSE
