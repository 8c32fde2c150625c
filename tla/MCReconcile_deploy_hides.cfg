CONSTANTS
  n1 = n1
  n2 = n2
  p1 = p1
  p2 = p2
  h1 = h1
  h2 = h2
  Node <- OneNode
  Fresh <- OneNode
  Peer <- OnePeer
  Handler <- OneHandler
  RestartApplies = TRUE
  MaxAttempts = 2
  Env <- DeployHidesChange
  MaxEvents = 1
SPECIFICATION OneScene
SYMMETRY Symmetry
INVARIANTS StaleIsNoticed
