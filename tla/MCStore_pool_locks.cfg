SPECIFICATION StoreSpec
CONSTANTS
  None = None
  c1 = c1
  c2 = c2
  c3 = c3
  c4 = c4
  k1 = k1
  k2 = k2
  Call <- FourCalls
  Key <- TwoKeys
  KeyOf <- ThreeShareAKey
  Statements = {"s1", "s2"}
  Builders = {"b1", "b2", "r1"}
  Realities = {"r1"}
  PoolKeys = {"stealth", "reality"}
  PoolKeyOf <- BuildKey
  PoolMax = 3
  MaxFailures = 1
  Nodes = {"n1", "n2", "n3"}
  Machines = {"m1", "m2", "m3"}
  Endpoints = {"e1", "e2", "e3"}
  Regions = {"r1"}
  Names = {"tokyo", "osaka"}
  HostKey <- CloneKey
  At <- MachineAt
  Known <- KnownAt
  Ops = {"o1", "o2"}
  MaxStarts = 3
  Kinds = {"vless", "stealth"}
  Sources = {"u1", "u2", "u3"}
  ValueOf <- UserList
  MaxAttempts = 2
  MaxBundles = 2
  MaxTasks = 1
  MaxDays = 1
  MaxBundleEvents = 2
  CertNodes = {"n1"}
  Creds = {"c1"}
  Requests = {"r1", "r2"}
  MaxCerts = 2
  MaxCertEvents = 3
  Containers = {"c1", "c2"}
  Accounts = {"a1"}
  Later <- Changes
  MaxCrashes = 2
  RolloutNodes = {"n1", "n2"}
  Protocols = {"p1"}
  Rollouts = {"r1"}
  Custom = {}
  MaxRolloutEvents = 2
  Users = {"u1", "u2"}
  Devices = {"d1", "d2", "d3"}
  Wan = "wan"
  PaidBy <- Payer
  Protocol <- ProtocolOf
  Native = {"d3"}
  Region = "region"
  Handlers = {1, 2}
  Quota = 1
  MaxMoves = 2
  MaxTrafficEvents = 1
INVARIANTS NeverStuck
CHECK_DEADLOCK FALSE
