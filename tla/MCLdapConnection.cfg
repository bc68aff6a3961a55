SPECIFICATION FairSpec
CONSTANTS
  bind1 = bind1
  bind2 = bind2
  unbind1 = unbind1
  search1 = search1
  update1 = update1
  abandon1 = abandon1
  anonymous1 = anonymous1
  bad1 = bad1
  alice = alice
  bob = bob
  NoUser = NoUser
  NoWorker = NoWorker
  NoRequest = NoRequest
  Workers = {w1, w2}
  Requests = {bind1, bind2, unbind1, search1, update1, abandon1, anonymous1}
  Malformed = {bad1}
  Users = {alice, bob}
  Kind <- MCKind
  Account <- MCAccount
  Offered <- MCOffered
INVARIANTS TypeOK GracefulDrain Accounting SearchIdentity ExactlyOnce SequentialIdentity
PROPERTIES AcceptedServed QuietClose
CHECK_DEADLOCK FALSE
