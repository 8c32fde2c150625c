SPECIFICATION PeopleSpec
CONSTANTS
  here = here
  there = there
  Kinds = {"console", "api", "app"}
  Role = "admin"
  Addresses <- MCAddresses
  Handlers <- MCHandlers
  LinkTimes <- MCLinkTimes
  AccountLimit = 2
  AddressLimit = 2
  BanThreshold = 2
  WindowTime = 2
  FailureTime = 1
  BanTime = 1
  MaxEntries = 2
  SessionTime = 1
  AccessTime = 1
  MaxTime = 1
  MaxEvents = 4
  Architectures = {"universal", "x64", "arm64"}
  Builds <- MCBuilds
  First <- MCFirst
  Requests = {1, 2}
  Percents = {50, 100}
  MirrorAttempts = 1
  MaxReleaseEvents = 3
INVARIANTS SignedOut OneUse BanIsEarned ServesWhatItRecorded 
CHECK_DEADLOCK FALSE
