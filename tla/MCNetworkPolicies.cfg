SPECIFICATION FairSpec
CONSTANTS
  lan = lan
  vpn = vpn
  dmz = dmz
  lab = lab
  wifi = wifi
  Free = Free
  Gone = Gone
  NoRequest = NoRequest
  Requests = {r1, r2}
  Ids = {1, 2, 3, 4, 5}
  Keys = {lan, vpn, dmz, lab, wifi}
  Priorities = {2, 5}
  Seed <- MCSeedFull
  MaxActive = 2
INVARIANTS TypeOK PositivePriorities SerialKeepsActive NoOwnConflict SwitchesCount
PROPERTIES SwapExchanges DeleteKeepsOrder AllAnswered
CHECK_DEADLOCK FALSE
