----------------------------- MODULE Credentials -----------------------------
(***************************************************************************)
(* One account's WireGuard credentials (subscriptions and node configs) on *)
(* one node: creating a credential, giving it an address of the node's     *)
(* pool, activating its profile, serving it in a subscription once the     *)
(* node has it, withdrawing it, and the peers the node ends up with.       *)
(* Requests interleave at every statement they send to the database; a     *)
(* build of the desired state is one step, because builds of one node      *)
(* exclude each other (KeyedLock) and Reconcile models their inside.       *)
(***************************************************************************)
EXTENDS Naturals, FiniteSets, Sequences

CONSTANTS
    Creds,       \* credentials, numbered in the order they are created
    Addresses,   \* client addresses of the node's pool, numbered from 1
    DeviceLimit, \* the most devices a plan allows
    Requests,    \* numbers of the requests that run at once
    MaxEvents    \* bound: withdrawals, returns, expiries and restarts

ASSUME CredentialsAssumption ==
    /\ Creds \subseteq Nat \ {0} /\ IsFiniteSet(Creds)
    /\ Addresses \subseteq Nat \ {0} /\ IsFiniteSet(Addresses)
    /\ DeviceLimit \in Nat /\ Requests \subseteq Nat

None == 0                                  \* no address, no credential
NeverIncluded == 0                         \* included_revision IS NULL

VARIABLES
    cred,      \* credential -> [status, user, admin]: disabled by its owner, by an administrator
    account,   \* devices the account may connect now; 0: suspended, expired or out of traffic
    lease,     \* address -> [holder, held]: the rows of ip_leases of this node
    profile,   \* credential -> [status, address, included]: its connection profile on this node
    desired,   \* [revision, peers]: the row of desired_configs
    tasks,     \* the queued apply tasks, each [revision, peers]
    running,   \* the peers of the node's interface
    observed,  \* the revision in observed_configs
    request,   \* what each request is doing
    dropped,   \* credentials a build left out after their profile was included
    events     \* rare things so far, for the bound

vars == <<cred, account, lease, profile, desired, tasks, running, observed, request, dropped, events>>

Idle == [at |-> "idle"]
Free(r) == request[r] = Idle /\ \A q \in Requests : request[q] = Idle => r <= q
Go(r, state) == request' = [request EXCEPT ![r] = state]
Done(r) == Go(r, Idle)
Happens == events < MaxEvents /\ events' = events + 1

NoPeers == [c \in Creds |-> None]
NoProfile == [status |-> "none", address |-> None, included |-> NeverIncluded]
NoLease == [holder |-> None, held |-> FALSE]

\* The account has one subscription, which nobody has fetched yet.
First == CHOOSE c \in Creds : \A d \in Creds : c <= d

Init ==
    /\ cred = [c \in Creds |-> [status |-> IF c = First THEN "active" ELSE "none", user |-> FALSE, admin |-> FALSE]]
    /\ account = DeviceLimit
    /\ lease = [a \in Addresses |-> NoLease]
    /\ profile = [c \in Creds |-> NoProfile]
    /\ desired = [revision |-> 1, peers |-> NoPeers]
    /\ tasks = <<>>
    /\ running = NoPeers
    /\ observed = 1
    /\ request = [r \in Requests |-> Idle]
    /\ dropped = {}
    /\ events = 0

-----------------------------------------------------------------------------
(* Who may connect.                                                        *)

Slots == {c \in Creds : cred[c].status = "active"}
DeviceSlotFree == Cardinality(Slots) < account
WithinDeviceLimit(c) == Cardinality({s \in Slots : s < c}) < account

EnabledCredential(c) == cred[c] = [status |-> "active", user |-> FALSE, admin |-> FALSE]
Usable(c) == EnabledCredential(c) /\ WithinDeviceLimit(c)

RowOf(c) == {a \in Addresses : lease[a].holder = c}
\* A slip: a reuse that forgets to ask for released rows.
AnyRow == {a \in Addresses : lease[a].holder # None}
Reusable == {a \in Addresses : lease[a].holder # None /\ ~lease[a].held}

\* A slip: an owner's switch that builds do not look at.
SwitchlessPeers ==
    [c \in Creds |->
        IF cred[c].status = "active" /\ profile[c].status = "active" /\ RowOf(c) # {}
        THEN CHOOSE a \in RowOf(c) : TRUE ELSE None]
ActivePeers ==
    [c \in Creds |->
        IF Usable(c) /\ profile[c].status = "active" /\ \E a \in RowOf(c) : lease[a].held
        THEN CHOOSE a \in RowOf(c) : TRUE ELSE None]

\* rebuildDesiredState for this node: a new revision and its task when the peers
\* differ.  (A forced build sends the same peers again: Reconcile has those.)
Build ==
    LET next == [revision |-> desired.revision + 1, peers |-> ActivePeers]
    IN IF desired.peers = ActivePeers THEN UNCHANGED <<desired, tasks, dropped>>
       ELSE /\ desired' = next
            /\ tasks' = Append(tasks, next)
            /\ dropped' = dropped \cup {c \in Creds : desired.peers[c] # None /\ ActivePeers[c] = None}

-----------------------------------------------------------------------------
(* Creating a credential, and an address for its profile.                  *)

NodeUnchanged == UNCHANGED <<desired, tasks, running, observed, dropped>>

\* Creations of subscriptions wait for each other; those of node configs do not.
CreationMayStart(op) == op = "subscription" => \A q \in Requests : request[q].at = "create" => request[q].op # "subscription"

\* Both ways to create one count the devices before they insert it; nothing
\* locks the account in between.
StartCreate(r, op) ==
    /\ Free(r)
    /\ \E c \in Creds : cred[c].status = "none"
    /\ CreationMayStart(op)
    /\ DeviceSlotFree
    /\ Go(r, [at |-> "create", op |-> op])
    /\ NodeUnchanged /\ UNCHANGED <<cred, account, lease, profile, events>>

Create(r) ==
    /\ request[r].at = "create"
    /\ LET c == CHOOSE d \in Creds : cred[d].status = "none" /\ \A e \in Creds : cred[e].status = "none" => d <= e
       IN IF \E d \in Creds : cred[d].status = "none"
          THEN /\ cred' = [cred EXCEPT ![c].status = "active"]
               /\ IF request[r].op = "config" THEN Go(r, [at |-> "issue", op |-> "config", cred |-> c]) ELSE Done(r)
          ELSE Done(r) /\ UNCHANGED cred
    /\ NodeUnchanged /\ UNCHANGED <<account, lease, profile, events>>

Locked(c) == \E q \in Requests : request[q] # Idle /\ request[q].at # "create" /\ request[q].op = "download" /\ request[q].cred = c

\* A client fetches its subscription: one download of a link at a time.
Download(r, c) ==
    /\ Free(r) /\ ~Locked(c) /\ Usable(c)
    /\ Go(r, [op |-> "download", cred |-> c,
              at |-> CASE profile[c].status = "issued" -> "activate"
                       [] profile[c].status = "active" -> "desired"
                       [] OTHER -> "lookup"])
    /\ NodeUnchanged /\ UNCHANGED <<cred, account, lease, profile, events>>

\* The page that asked for a node config revokes the credential it made when no
\* profile came of it; a subscription skips the node.
GiveUp(r) ==
    IF request[r].op = "download" THEN Done(r)
    ELSE Go(r, [at |-> "manage", op |-> "manage", cred |-> {request[r].cred}, action |-> "revoke", admin |-> FALSE])

\* issueConnectionProfile checks the credential before it asks for an address
\* (a download has just done so).
Issue(r) ==
    /\ request[r].at = "issue"
    /\ IF Usable(request[r].cred) THEN Go(r, [request[r] EXCEPT !.at = "lookup"]) ELSE GiveUp(r)
    /\ NodeUnchanged /\ UNCHANGED <<cred, account, lease, profile, events>>

\* allocateIpLease: the credential's own row, whatever its state.
Lookup(r) ==
    /\ request[r].at = "lookup"
    /\ LET c == request[r].cred
           a == CHOOSE x \in RowOf(c) : TRUE
       IN Go(r, IF RowOf(c) = {} THEN [request[r] EXCEPT !.at = "reuse"]
                ELSE [op |-> request[r].op, cred |-> c, address |-> a,
                      at |-> IF lease[a].held THEN "save" ELSE "reactivate"])
    /\ NodeUnchanged /\ UNCHANGED <<cred, account, lease, profile, events>>

\* The row is named by its id: by now it may belong to another credential.
Reactivate(r) ==
    /\ request[r].at = "reactivate"
    /\ lease' = [lease EXCEPT ![request[r].address].held = TRUE]
    /\ Go(r, [request[r] EXCEPT !.at = "save"])
    /\ NodeUnchanged /\ UNCHANGED <<cred, account, profile, events>>

\* Takes a released row in one statement, unless the credential has got a row
\* meanwhile (UNIQUE per device); with none released, notes which addresses are taken.
Reuse(r) ==
    /\ request[r].at = "reuse"
    /\ LET c == request[r].cred
       IN IF Reusable = {}
          THEN /\ Go(r, [at |-> "insert", op |-> request[r].op, cred |-> c,
                         tried |-> {a \in Addresses : lease[a].holder # None}])
               /\ UNCHANGED lease
          ELSE IF RowOf(c) # {} THEN GiveUp(r) /\ UNCHANGED lease
          ELSE \E a \in Reusable :
                  /\ lease' = [lease EXCEPT ![a] = [holder |-> c, held |-> TRUE]]
                  /\ Go(r, [at |-> "save", op |-> request[r].op, cred |-> c, address |-> a])
    /\ NodeUnchanged /\ UNCHANGED <<cred, account, profile, events>>

\* Inserts the lowest address it believes free; a conflict moves it to the next.
Insert(r) ==
    /\ request[r].at = "insert"
    /\ LET c == request[r].cred
           left == Addresses \ request[r].tried
           a == CHOOSE a \in left : \A b \in left : a <= b
       IN IF left = {} THEN GiveUp(r) /\ UNCHANGED lease
          ELSE IF lease[a].holder = None /\ RowOf(c) = {}
          THEN /\ lease' = [lease EXCEPT ![a] = [holder |-> c, held |-> TRUE]]
               /\ Go(r, [at |-> "save", op |-> request[r].op, cred |-> c, address |-> a])
          ELSE Go(r, [request[r] EXCEPT !.tried = @ \cup {a}]) /\ UNCHANGED lease
    /\ NodeUnchanged /\ UNCHANGED <<cred, account, profile, events>>

\* createConnectionProfile: a new row in front of the credential's older ones.
Save(r) ==
    /\ request[r].at = "save"
    /\ profile' = [profile EXCEPT ![request[r].cred] =
                     [status |-> "issued", address |-> request[r].address, included |-> NeverIncluded]]
    /\ Go(r, [at |-> "activate", op |-> request[r].op, cred |-> request[r].cred])
    /\ NodeUnchanged /\ UNCHANGED <<cred, account, lease, events>>

-----------------------------------------------------------------------------
(* Activating and serving a profile.                                       *)

Activate(r) ==
    /\ request[r].at = "activate"
    /\ LET c == request[r].cred
       IN IF Usable(c) /\ profile[c].status \in {"issued", "active"}
          THEN /\ profile' = [profile EXCEPT ![c].status = "active"]
               /\ Go(r, [at |-> "build", op |-> request[r].op, cred |-> c])
          ELSE Done(r) /\ UNCHANGED profile
    /\ NodeUnchanged /\ UNCHANGED <<cred, account, lease, events>>

ActivationBuild(r) ==
    /\ request[r].at = "build"
    /\ Build
    /\ IF request[r].op = "download" THEN Go(r, [request[r] EXCEPT !.at = "desired"]) ELSE Done(r)
    /\ UNCHANGED <<cred, account, lease, profile, running, observed, events>>

\* accessApplied, first statement: the desired state and whether it has this key.
ReadDesired(r) ==
    /\ request[r].at = "desired"
    /\ Go(r, [at |-> "observed", op |-> "download", cred |-> request[r].cred,
              member |-> desired.peers[request[r].cred] # None, revision |-> desired.revision])
    /\ NodeUnchanged /\ UNCHANGED <<cred, account, lease, profile, events>>

\* A slip: waits for nothing at all.
Unawaited(c, revision) == NeverIncluded
Included(c, revision) == IF profile[c].included = NeverIncluded THEN revision ELSE profile[c].included

\* ... then what the Agent reported, and the first revision that had the key.
CheckObserved(r) ==
    /\ request[r].at = "observed"
    /\ LET c == request[r].cred
           included == IF request[r].member THEN Included(c, request[r].revision) ELSE NeverIncluded
       IN /\ profile' = [profile EXCEPT ![c].included = included]
          /\ dropped' = IF request[r].member THEN dropped ELSE dropped \ {c}
          /\ IF request[r].member /\ observed >= included
             THEN Go(r, [at |-> "serve", op |-> "download", cred |-> c]) ELSE Done(r)
    /\ UNCHANGED <<cred, account, lease, desired, tasks, running, observed, events>>

\* The credential is checked once more before the file is written.
Serve(r) ==
    /\ request[r].at = "serve"
    /\ Done(r)
    /\ NodeUnchanged /\ UNCHANGED <<cred, account, lease, profile, events>>

-----------------------------------------------------------------------------
(* Withdrawing and returning access.                                       *)

\* What an owner or an administrator may do to a credential.
Allowed(c, action, admin) ==
    /\ cred[c].status = "active"
    /\ action = "enable" => IF admin THEN cred[c].admin ELSE cred[c].user /\ ~cred[c].admin
    /\ action = "disable" => IF admin THEN ~cred[c].admin ELSE ~cred[c].user

Switched(c, action, admin) ==
    IF admin THEN [cred[c] EXCEPT !.admin = action = "disable"] ELSE [cred[c] EXCEPT !.user = action = "disable"]

Released(c) == [a \in Addresses |-> IF lease[a].holder = c THEN [lease[a] EXCEPT !.held = FALSE] ELSE lease[a]]

\* revokeAccessCredential is one transaction; a switch is one guarded UPDATE.
ChangeOne(c, action, admin) ==
    IF action = "revoke"
    THEN /\ cred' = [cred EXCEPT ![c].status = "revoked"]
         /\ profile' = [profile EXCEPT ![c].status = IF @ \in {"issued", "active"} THEN "revoked" ELSE @]
         /\ lease' = Released(c)
    ELSE /\ cred' = [cred EXCEPT ![c] = IF @.status = "active" THEN Switched(c, action, admin) ELSE @]
         /\ UNCHANGED <<profile, lease>>

Change(r, ids, action, admin) ==
    LET c == CHOOSE d \in ids : \A e \in ids : d <= e
    IN /\ ChangeOne(c, action, admin)
       /\ Go(r, IF ids = {c} THEN Idle
                ELSE [at |-> "manage", op |-> "manage", cred |-> ids \ {c}, action |-> action, admin |-> admin])
       /\ NodeUnchanged /\ UNCHANGED account

\* A page changes one credential or all of them in turn; one Rebuild follows.
Manage(r, ids, action, admin) ==
    /\ Free(r) /\ ids # {} /\ \A c \in ids : Allowed(c, action, admin)
    /\ Happens
    /\ Change(r, ids, action, admin)

\* The Portal offers an owner one credential, or "disable" and "revoke" for all.
OwnerManages(r) ==
    \E action \in {"enable", "disable", "revoke"} :
        \/ \E c \in Creds : Manage(r, {c}, action, FALSE)
        \/ action # "enable" /\ Manage(r, {c \in Creds : Allowed(c, action, FALSE)}, action, FALSE)

\* The Console offers an administrator the same, and the device a credential is on.
AdminManages(r) ==
    \E action \in {"enable", "disable", "revoke"} :
        \/ \E c \in Creds : Manage(r, {c}, action, TRUE)
        \/ action # "enable" /\ Manage(r, {c \in Creds : Allowed(c, action, TRUE)}, action, TRUE)

ManageNext(r) ==
    /\ request[r].at = "manage"
    /\ Change(r, request[r].cred, request[r].action, request[r].admin)
    /\ UNCHANGED events

\* The account's status, time, traffic or plan; a Rebuild follows.
AccountChanges ==
    /\ Happens
    /\ account' \in 0..DeviceLimit \ {account}
    /\ NodeUnchanged /\ UNCHANGED <<cred, lease, profile, request>>

\* A credential and its profiles share one expiry; its address stays taken.
Expires(c) ==
    /\ cred[c].status = "active" /\ Happens
    /\ cred' = [cred EXCEPT ![c].status = "expired"]
    /\ profile' = [profile EXCEPT ![c].status = IF @ \in {"issued", "active"} THEN "expired" ELSE @]
    /\ NodeUnchanged /\ UNCHANGED <<account, lease, request>>

-----------------------------------------------------------------------------
(* The node and the controller process.                                    *)

\* What changed access rebuilds at the end of its handler (reconcileUserAccess); when
\* that is lost, a heartbeat that is due or the first one after a restart does.
Rebuild ==
    /\ desired.peers # ActivePeers
    /\ Build
    /\ UNCHANGED <<cred, account, lease, profile, running, observed, request, events>>

\* The Agent applies tasks in order and reports one before it takes the next; until
\* it does, observed_configs only lags behind, so the report is part of the step.
Apply ==
    /\ tasks # <<>>
    /\ running' = Head(tasks).peers
    /\ observed' = Head(tasks).revision
    /\ tasks' = Tail(tasks)
    /\ UNCHANGED <<cred, account, lease, profile, desired, request, dropped, events>>

ControllerRestarts ==
    /\ \E r \in Requests : request[r] # Idle
    /\ Happens
    /\ request' = [r \in Requests |-> Idle]
    /\ NodeUnchanged /\ UNCHANGED <<cred, account, lease, profile>>

Proceeds(r) ==
    \/ Create(r) \/ Issue(r) \/ Lookup(r) \/ Reactivate(r) \/ Reuse(r) \/ Insert(r) \/ Save(r) \/ Activate(r)
    \/ ActivationBuild(r) \/ ReadDesired(r) \/ CheckObserved(r) \/ Serve(r) \/ ManageNext(r)

Next ==
    \/ \E r \in Requests :
         \/ \E op \in {"subscription", "config"} : StartCreate(r, op)
         \/ \E c \in Creds : Download(r, c)
         \/ Proceeds(r)
         \/ OwnerManages(r) \/ AdminManages(r)
    \/ AccountChanges
    \/ \E c \in Creds : Expires(c)
    \/ Rebuild \/ Apply \/ ControllerRestarts

\* Nodes keep sending heartbeats and their Agents keep pulling and reporting.
Fairness == WF_vars(Rebuild) /\ WF_vars(Apply)

Spec == Init /\ [][Next]_vars /\ Fairness

-----------------------------------------------------------------------------
(* Properties.                                                             *)

\* An active profile of a credential that may connect tells its client an address
\* that is the credential's own in the pool, whatever else was released, reused or
\* inserted at the same time (allocateIpLease, issueConnectionProfile).
AddressIsItsOwn ==
    \A c \in Creds : Usable(c) /\ profile[c].status = "active" => lease[profile[c].address] = [holder |-> c, held |-> TRUE]

Serving(c) == Usable(c) /\ \E r \in Requests : request[r].at = "serve" /\ request[r].cred = c
OnTheNode(c) == running[c] = profile[c].address

\* What a subscription hands out works: at that moment the node's interface has this
\* key at this address, unless a build had left it out once before (downloadSubscription:
\* "A healthy process alone doesn't prove that THIS user's access has reached the node").
ServedIsApplied == \A c \in Creds : Serving(c) /\ c \notin dropped => OnTheNode(c)

\* The same without the exception.
ServedIsAlwaysApplied == \A c \in Creds : Serving(c) => OnTheNode(c)

\* Whoever may no longer connect (revoked, disabled, expired, over the plan's devices or
\* out of time) leaves the node's interface, through every interleaving and restart:
\* again and again the node has nobody it should not have.
WithdrawnLeaves == []<>(\A c \in Creds : running[c] # None => Usable(c))
=============================================================================
