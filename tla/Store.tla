-------------------------------- MODULE Store --------------------------------
(* What the Controller keeps in PostgreSQL and how requests share it: eight     *)
(* small models side by side, each of a part that shares no state with the     *)
(* others. The initial state picks the part that runs, and leaves the others   *)
(* as they are. The keyed lock is the module this one extends.                 *)
EXTENDS KeyedLock

CONSTANTS
    \* of ConnectionPool
    Statements, Builders, Realities, PoolKeys, PoolKeyOf, PoolMax, MaxFailures,
    \* of NodeRegistry
    Nodes, Machines, Endpoints, Regions, Names, HostKey, At, Known, Ops, MaxStarts,
    \* of UserBundles
    Kinds, Sources, ValueOf, MaxAttempts, MaxBundles, MaxTasks, MaxDays, MaxBundleEvents,
    \* of Certificates
    CertNodes, Creds, Requests, MaxCerts, MaxCertEvents,
    \* of Migrations
    Containers, Accounts, Later, MaxCrashes,
    \* of Rollouts
    RolloutNodes, Protocols, Rollouts, Custom, MaxRolloutEvents,
    \* of Traffic
    Users, Devices, Wan, PaidBy, Protocol, Native, Region, Handlers, Quota, MaxMoves, MaxTrafficEvents

VARIABLES
    part,   \* the part that runs
    ready, idle, at, got, open, lock, keys, result, failures,                            \* of ConnectionPool
    row, region, op, advisory, locked, starts,                                           \* of NodeRegistry
    today, users, bundle, desired, tasks, build, bundleEvents,                           \* of UserBundles
    issuers, minted, cert, cred, profile, files, wanted, refused, call, certEvents,      \* of Certificates
    recorded, effects, schema, granted, creds, limit, chosen, owner, mutex, run, crashes,  \* of Migrations
    service, policy, online, runs, rollout, target, job, seen, apart, rolloutEvents,     \* of Rollouts
    moved, counter, handler, stored, daily, month, day, charged, quota, served, due, elapsed, suspect,
    trafficEvents                                                                        \* of Traffic

poolVars == <<ready, idle, at, got, open, lock, keys, result, failures>>
nodeVars == <<row, region, op, advisory, locked, starts>>
bundleVars == <<today, users, bundle, desired, tasks, build, bundleEvents>>
certVars == <<issuers, minted, cert, cred, profile, files, wanted, refused, call, certEvents>>
migrationVars == <<recorded, effects, schema, granted, creds, limit, chosen, owner, mutex, run, crashes>>
rolloutVars == <<service, policy, online, runs, rollout, target, job, seen, apart, rolloutEvents>>
trafficVars == <<moved, counter, handler, stored, daily, month, day, charged, quota, served, due, elapsed, suspect,
                 trafficEvents>>
storeVars == <<part, vars, poolVars, nodeVars, bundleVars, certVars, migrationVars, rolloutVars, trafficVars>>

-----------------------------------------------------------------------------
Cn == INSTANCE ConnectionPool WITH Keys <- PoolKeys, KeyOf <- PoolKeyOf
Nr == INSTANCE NodeRegistry WITH KeyOf <- HostKey
Ub == INSTANCE UserBundles WITH MaxEvents <- MaxBundleEvents, events <- bundleEvents
Ce == INSTANCE Certificates WITH
    Nodes <- CertNodes, MaxEvents <- MaxCertEvents, bundle <- files, desired <- wanted, events <- certEvents
Mi == INSTANCE Migrations WITH lock <- mutex
Ro == INSTANCE Rollouts WITH Nodes <- RolloutNodes, MaxEvents <- MaxRolloutEvents, events <- rolloutEvents
Tr == INSTANCE Traffic WITH Owner <- PaidBy, Keys <- Devices, MaxEvents <- MaxTrafficEvents, today <- day, events <- trafficEvents

(* Where the initial state is a choice, a part that does not run makes one.    *)
Chosen ==
    /\ part # "nodes" =>
          /\ region = CHOOSE name \in [Regions -> Names] : \A r, q \in Regions : r # q => name[r] # name[q]
          /\ \A n \in Nodes : row[n].machine = None
    /\ part # "bundles" => users = [k \in Kinds |-> CHOOSE s \in Sources : TRUE]

StoreInit ==
    /\ Init /\ Cn!Init /\ Nr!Init /\ Ub!Init /\ Ce!Init /\ Mi!Init /\ Ro!Init /\ Tr!Init
    /\ part \in {"turns", "pool", "nodes", "bundles", "certificates", "migrations", "rollouts", "traffic"}
    /\ Chosen

StoreNext ==
    /\ UNCHANGED part
    /\ \/ part = "turns" /\ Next
          /\ UNCHANGED <<poolVars, nodeVars, bundleVars, certVars, migrationVars, rolloutVars, trafficVars>>
       \/ part = "pool" /\ Cn!Next
          /\ UNCHANGED <<vars, nodeVars, bundleVars, certVars, migrationVars, rolloutVars, trafficVars>>
       \/ part = "nodes" /\ Nr!Next
          /\ UNCHANGED <<vars, poolVars, bundleVars, certVars, migrationVars, rolloutVars, trafficVars>>
       \/ part = "bundles" /\ Ub!Next
          /\ UNCHANGED <<vars, poolVars, nodeVars, certVars, migrationVars, rolloutVars, trafficVars>>
       \/ part = "certificates" /\ Ce!Next
          /\ UNCHANGED <<vars, poolVars, nodeVars, bundleVars, migrationVars, rolloutVars, trafficVars>>
       \/ part = "migrations" /\ Mi!Next
          /\ UNCHANGED <<vars, poolVars, nodeVars, bundleVars, certVars, rolloutVars, trafficVars>>
       \/ part = "rollouts" /\ Ro!Next
          /\ UNCHANGED <<vars, poolVars, nodeVars, bundleVars, certVars, migrationVars, trafficVars>>
       \/ part = "traffic" /\ Tr!Next
          /\ UNCHANGED <<vars, poolVars, nodeVars, bundleVars, certVars, migrationVars, rolloutVars>>

(* The fairness of the parts whose liveness is checked here, as their modules  *)
(* have it. A behaviour of the lock is finite, so that one condition is enough *)
(* for its three.                                                              *)
Fair ==
    /\ WF_vars(part = "turns" /\ Next)
    /\ \A r \in Rollouts : WF_rolloutVars(part = "rollouts" /\ Ro!JobStep(r))
    /\ WF_rolloutVars(part = "rollouts" /\ (Ro!Show \/ Ro!Refresh))
    /\ \A n \in RolloutNodes, p \in Protocols : WF_rolloutVars(part = "rollouts" /\ Ro!AgentStep(n, p))

StoreSpec == StoreInit /\ [][StoreNext]_storeVars /\ Fair

ASSUME Assumptions ==
    /\ Cn!PoolAssumption /\ Nr!RegistryAssumption /\ Ub!BundleAssumption /\ Ce!CertificateAssumption
    /\ Mi!MigrationAssumption /\ Ro!RolloutAssumption /\ Tr!TrafficAssumption

-----------------------------------------------------------------------------
(* Properties: those of the modules, where they are explained. The parts that  *)
(* do not run never step, so that each is taken as it is.                      *)

(* ConnectionPool: racing builders make one set of keys and all work with it.   *)
OneServer == Cn!OneServer

(* ConnectionPool: somebody can always go on, whoever waits for a connection   *)
(* (server/stealth.ts:58). The code does not give this.                        *)
NeverStuck == Cn!NeverStuck

(* NodeRegistry and Certificates: what must be one is one. Two rows never stand *)
(* for one machine, and the authority that signs is the one nodes trust.       *)
OneOfEach == Nr!OneRowPerMachine /\ Ce!IssuersAgree

(* UserBundles: a task that can still be handed out finds its bundle.          *)
BundlesReadable == Ub!BundlesReadable

(* Migrations: every change takes effect once, in the order of the list.       *)
OnceInOrder == Mi!OnceInOrder

(* Rollouts: a rollout that runs comes to its end.                             *)
RolloutsEnd == []<>(part = "rollouts" => Ro!AllEnded)

(* Traffic: no byte is charged twice, and none is charged that did not move.   *)
CountedOnce == Tr!CountedOnce
==============================================================================
