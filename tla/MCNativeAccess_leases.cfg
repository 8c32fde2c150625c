CONSTANTS
  d1 = d1
  d2 = d2
  n1 = n1
  n2 = n2
  k1 = k1
  k2 = k2
  h1 = h1
  h2 = h2
  Device <- TwoDevices
  Node <- TwoNodes
  Key <- TwoKeys
  Address <- Addresses
  Handler <- TwoHandlers
  InPlace <- TwoNodes
  Configs = 0
  Limits <- One
  AccessUntil = 4
  Ttl = 2
  Slack = 1
  SessionLife = 5
  MaxPending = 1
  MaxOpen = 1
  Grace = 3
  MaxClock = 4
  MaxRequests = 2
  MaxEvents = 1
SYMMETRY Symmetry
SPECIFICATION Spec
CHECK_DEADLOCK FALSE
INVARIANTS TunnelsWithinLimit AddressHeldOnce ReadyIsBound
