SPECIFICATION MCSpec
INVARIANTS AccessIsCovered CacheFollowsGrants EveryByteIsBilled
INVARIANTS SleepersAreWoken StatusMatchesSwitch ClosedMeansBlocked RightMachine SuccessIsHeard
CHECK_DEADLOCK FALSE
CONSTANTS
  Parts = {"grants", "line", "operations"}
  None = None
  Welcome <- WelcomeQuota
  Terms <- AllTerms
  Bytes = {1, 2}
  Window = 2
  MaxGap = 2
  MaxTime = 4
  MaxGrants = 3
  MaxBytes = 2
  Env = {"jobFail", "registerFail"}
  Nothing = Nothing
  h1 = h1
  h2 = h2
  c1 = c1
  c2 = c2
  p1 = p1
  Handler <- TwoHandlers
  Console <- TwoConsoles
  Port <- OnePort
  MaxTasks = 2
  MaxChecks = 2
  MaxJobs = 2
  MaxEvents = 1
  LookupFails = FALSE
  Nodes = {"n1", "n2"}
  Addresses = {"a1", "a2"}
  Servers = {"m1", "m2"}
  Leads <- LeadsTo
  MaxRemote = 2
  MaxActions = 2
  MaxTokens = 2
  MaxBeats = 1
  MaxOperatorEvents = 1
