SPECIFICATION Spec
CONSTANTS
  Rdns <- LowerRdns
  Lower <- MCLower
  Names <- MCNames
  NameOf <- MCNameOf
  NoParent = NoParent
  Free = Free
  Gone = Gone
  NoOwner = NoOwner
  NoSuperior = NoSuperior
  BaseDn = BaseDn
  Seed <- MCChain
  Ids = {1, 2, 3, 4, 5, 6}
  Requests = {r1, r2, r3}
  AddDns <- AddedDns
  DeleteDns <- LowerDns
  Moves <- MCRenames
  MaxActive = 3
  Alone = {"modifyDN"}
  Crashes = FALSE
INVARIANTS TypeOK PathsFollowTree UniqueDns
PROPERTY ImplementsService
SYMMETRY RequestSymmetry
CHECK_DEADLOCK FALSE
