SPECIFICATION Spec
CONSTANTS
    Creds <- MCCreds
    Addresses <- MCAddresses
    DeviceLimit = 2
    Requests <- MCRequests
    MaxEvents = 2
INVARIANTS AddressIsItsOwn ServedIsApplied
PROPERTIES WithdrawnLeaves
CHECK_DEADLOCK FALSE
