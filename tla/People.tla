-------------------------------- MODULE People --------------------------------
(* Accounts and sessions (the module this one extends) and the releases of the *)
(* apps, side by side: they share no state. The initial state picks the part   *)
(* that runs, and leaves the other part as it is.                              *)
EXTENDS Accounts

CONSTANTS   \* those of Releases
    Architectures, Builds, First, Requests, Percents, MirrorAttempts, MaxReleaseEvents

VARIABLES
    part,   \* the part that runs
    \* the variables of Releases:
    releases, file, cdn, minBuild, uploads, request, copying, releaseEvents, crossed, outdated

releaseVars == <<releases, file, cdn, minBuild, uploads, request, copying, releaseEvents, crossed, outdated>>

Re == INSTANCE Releases WITH
    Handlers <- Requests, MaxEvents <- MaxReleaseEvents, rows <- releases, handler <- request, events <- releaseEvents

PeopleInit == Init /\ Re!Init /\ part \in {"accounts", "releases"}

PeopleNext ==
    /\ UNCHANGED part
    /\ \/ part = "accounts" /\ Next /\ UNCHANGED releaseVars
       \/ part = "releases" /\ Re!Next /\ UNCHANGED vars

PeopleSpec == PeopleInit /\ [][PeopleNext]_<<part, vars, releaseVars>>

ASSUME Assumption == Re!ReleasesAssumption

-----------------------------------------------------------------------------
(* Properties: those of the two modules, which the other part never steps,     *)
(* are taken as they are.                                                      *)

(* Releases: what a download serves is the file whose digest was recorded.     *)
ServesWhatItRecorded == Re!ServesWhatItRecorded

(* Releases: the build that every app must have is one that the apps of some   *)
(* architecture can get.                                                       *)
MinimumIsOffered == Re!MinimumIsOffered
==============================================================================
