SPECIFICATION Spec
CONSTANTS
  lan = lan
  vpn = vpn
  dmz = dmz
  lab = lab
  wifi = wifi
  Free = Free
  Gone = Gone
  NoRequest = NoRequest
  Requests = {r1, r2}
  Ids = {1, 2, 3}
  Keys = {lan, vpn, dmz, lab, wifi}
  Priorities = {2}
  Seed <- MCSeed
  MaxActive = 2
INVARIANT AtLeastOneActive
CHECK_DEADLOCK FALSE
