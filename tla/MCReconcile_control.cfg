CONSTANTS
  n1 = n1
  n2 = n2
  p1 = p1
  p2 = p2
  h1 = h1
  h2 = h2
  Node <- OneNode
  Fresh <- NoNode
  Peer <- OnePeer
  Handler <- TwoHandlers
  RestartApplies = TRUE
  MaxAttempts = 2
  Env <- Requests
  MaxEvents = 3
SYMMETRY Symmetry
SPECIFICATION ControlSpec
INVARIANTS RevisionNamesOnePayload BuildsQueueInOrder StaleUnlessMarkLost FaultsEndInStep
PROPERTIES NeverOlder
