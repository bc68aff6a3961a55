SPECIFICATION Spec
CONSTANTS
  alice = alice
  bob = bob
  carol = carol
  admins = admins
  staff = staff
  Upper = Upper
  devs = devs
  unit = unit
  x = x
  y = y
  z = z
  NoValue = NoValue
  NoRequest = NoRequest
  Requests = {r1, r2}
  Entries = {alice, bob, carol, admins, staff, Upper, devs, unit}
  Kind <- MCKind
  Findable = {admins, staff, devs}
  Bare = {unit}
  Values = {x, y, z}
  Args <- MCArgs
  SeedAlive <- MCSeedAlive
  SeedMember <- MCSeedMember
  SeedColumn <- MCSeedColumn
  SeedValues <- MCSeedValues
INVARIANTS TypeOK TakesEffect AddsSurvive
CHECK_DEADLOCK FALSE
