------------------------------- MODULE MCPeople -------------------------------
(* An account used from two addresses by two requests at once; and two builds  *)
(* of an app, for two architectures, that two requests release.                *)
EXTENDS People

CONSTANTS here, there

MCAddresses == {here, there}
MCHandlers == {1, 2}
MCLinkTimes == {1, 2}
MCFirst == [arch |-> "universal", number |-> 1]
MCBuilds == {MCFirst, [arch |-> "x64", number |-> 2]}
==============================================================================
