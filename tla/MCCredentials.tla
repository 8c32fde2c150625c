---------------------------- MODULE MCCredentials ----------------------------
(* Two credentials and a pool of one or two addresses.                      *)
EXTENDS Credentials

MCCreds == 1..2
MCAddresses == 1..1
MCRequests == 1..2
=============================================================================
