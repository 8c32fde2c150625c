SPECIFICATION SurfacesSpec
CONSTANTS
  None = None
  Problems = {"node-offline", "service"}
  Silent = {"node-offline"}
  Delay <- MCDelay
  Recipients <- TwoRecipients
  QuietStart = 1
  MaxAlertChanges = 2
  MaxTrouble = 1
  MaxRestarts = 1
  Ids = {"s1", "s2", "s3"}
  Names = {"a", "b", "c"}
  Requests = {"r1", "r2"}
  Agents = {"a1", "a2"}
  Domains = {"env", "d1"}
  Own = "env"
  SwitchBreaks = FALSE
  MaxMoves = 3
  LogLines = {1, 2, 3, 4, 5}
  Time <- MCTime
  Filters = {"all", "errors"}
  KeptLines <- MCKept
  Limit = 2
  Patient = TRUE
  MaxPageClicks = 3
  MaxLogChanges = 1
  MaxLosses = 1
  MaxAsked = 2
  Nodes = {"a", "b"}
  Focuses = {"a"}
  MaxWork = 2
  MaxClicks = 1
  MaxFaults = 1
  MaxLines = 3
  MaxCrashes = 1
  MaxPurges = 1
  PrintsLate = FALSE
  Sources = {"v1", "v2", "broken"}
  Good = {"v1", "v2"}
  FirstSource = "v1"
  MaxActions = 2
  MaxUpgradeEvents = 3
  RebootsMidUpgrade = FALSE
  Connections = {1, 2}
  Subscriptions = {1, 2}
  Existing = {1}
  MaxDeskEvents = 3
  MaxFlying = 1
  PlacedNodes = {"n1", "n2"}
  Protocols = {"wireguard", "vless"}
  Regional = {"wireguard"}
  Window = 3
  MaxPlacementEvents = 2
INVARIANTS UpgradesAreSafe SettingsHold WhatIsShownIsTrue
PROPERTIES ComesBack EveryoneIsTold ShowsTheServer PlacedWhereServed
CHECK_DEADLOCK FALSE
