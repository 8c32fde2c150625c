---------------------------- MODULE NativeAccess ----------------------------
(***************************************************************************)
(* How the apps of one account get a tunnel: sign-in, single-use signed    *)
(* requests, the enrollment that takes a device slot, the short lease on   *)
(* one node, the desired configuration that carries the lease's deadline,  *)
(* and the Agent that lets the peer through until that deadline.           *)
(*                                                                         *)
(* A tick is 150 seconds, so a lease lasts two ticks.  A revision admits a *)
(* set of peers; a peer's `dev` (whose it is) and `ext` (extended offline) *)
(* are for the properties only.  How rebuilds become due, and lost reports *)
(* and retries, are in Reconcile.tla; here a node's newest task replaces   *)
(* the ones it did not pull yet, as applying them in turn does.            *)
(***************************************************************************)
EXTENDS Naturals, FiniteSets, FiniteSetsExt

CONSTANTS
  Device,       \* app installations, by their identity key's thumbprint
  Node, Key,    \* nodes with WireGuard; public keys the apps make
  Address,      \* the host addresses of a node's pool
  Handler,      \* requests the Controller serves at the same time
  InPlace,      \* nodes whose Agent renews deadlines in place (nativeLeaseRenewal)
  Configs,      \* slots taken by older subscriptions and node configs
  Limits,       \* device limits the grants may give
  AccessUntil,  \* users.access_until
  Ttl, Slack,   \* lease length and the allowance after it (2 ticks; 20 seconds rounded up to 1)
  SessionLife,  \* sessionDays
  MaxPending,   \* unconsumed challenges of a session (10 in the code)
  Grace,        \* NATIVE_OFFLINE_GRACE
  MaxOpen,      \* challenges outstanding at a time (bound of the model)
  MaxClock, MaxRequests, MaxEvents   \* bounds of the model

ASSUME SetAssumption == IsFiniteSet(Device) /\ Configs \in Nat /\ Limits \subseteq Nat /\ InPlace \subseteq Node /\ Address \subseteq Nat
ASSUME TimeAssumption == {AccessUntil, Ttl, Slack, SessionLife, Grace, MaxPending, MaxOpen, MaxClock, MaxRequests, MaxEvents} \subseteq Nat /\ MaxClock # 0

VARIABLES
  clock,
  account,     \* users: active (status), ok (access_ok), limit (access_device_limit)
  session,     \* native_sessions: when the device's session ends, 0 without one
  challenges,  \* native_challenges not consumed
  enrolled,    \* native_enrollments: status and release_after
  older,       \* for each enrollment, those created before it
  lease,       \* native_leases by enrollment and node
  taken,       \* ip_leases: addresses of each node that are assigned
  paused,      \* nodes.paused_at
  desired,     \* desired_configs
  queue,       \* the task waiting for the Agent, revision 0 for none
  answer,      \* the pull answer the Agent has not handled yet
  agent,       \* the node: peers in its file, the revision and peers it applied last, the last contact
  observed,    \* observed_configs.applied_revision
  call,        \* requests in progress: connect and the rebuilds after any change
  dropped,     \* history: the device ended its leases itself and has not connected since
  withdrawn,   \* history: when access or a device's place in the limit was last taken away
  connects,    \* connects so far, for the milliseconds of their deadlines
  requests, events

rows == <<account, session, challenges, enrolled, older, lease, taken, paused>>
control == <<desired, queue, observed>>
history == <<dropped, withdrawn>>
vars == <<clock, rows, control, answer, agent, call, history, connects, requests, events>>

Never == MaxClock + 1
NoLease == [key |-> "none", addr |-> 0, until |-> 0, stamp |-> 0, req |-> 0]
Idle == [pc |-> "idle", dev |-> "none", node |-> "none", key |-> "none", until |-> 0, stamp |-> 0, rev |-> 0]

-----------------------------------------------------------------------------
(* What the database says. *)

Allowed == account.active /\ account.ok /\ clock < AccessUntil
Slots == {d \in Device : enrolled[d].st \in {"active", "revoking"}}
WithinLimit(d) == Configs + Cardinality(Slots \intersect older[d]) < account.limit
LiveLease(d, n) == lease[d][n].until > clock
HasLease(d) == {n \in Node : lease[d][n] # NoLease}
Lapsed(d) == enrolled[d].st = "revoking" /\ enrolled[d].release <= clock
Settled(e) == [d \in Device |-> IF e[d].st = "revoking" /\ e[d].release <= clock THEN [e[d] EXCEPT !.st = "revoked"] ELSE e[d]]

(* listNativeLeasePeers. *)
PeerOf(d, n) == [key |-> lease[d][n].key, addr |-> lease[d][n].addr, until |-> lease[d][n].until, dev |-> d, ext |-> FALSE]
LeasePeers(n) == {PeerOf(d, n) : d \in {d \in Device : LiveLease(d, n) /\ enrolled[d].st = "active" /\ Allowed /\ WithinLimit(d)}}

(* The part of a configuration its hash covers. *)
Hashed(n, peers) == IF n \in InPlace THEN {[p EXCEPT !.until = 0] : p \in peers} ELSE peers

(* buildDesiredStateLocked of the wireguard service: returns the revision in use afterwards. *)
Changed(n) == Hashed(n, LeasePeers(n)) # Hashed(n, desired[n].peers)
NextRev(n) == IF Changed(n) THEN desired[n].rev + 1 ELSE desired[n].rev
Rebuild(n) ==
  /\ desired' = [desired EXCEPT ![n] = [rev |-> NextRev(n), peers |-> LeasePeers(n)]]
  /\ queue' = IF Changed(n) THEN [queue EXCEPT ![n] = [rev |-> NextRev(n), peers |-> LeasePeers(n)]] ELSE queue

-----------------------------------------------------------------------------
(* Signing in and asking for a challenge. *)

SessionEnd == Min({clock + SessionLife, Never})

(* nativeLogin with the right password: a slot that was given back is forgotten, its addresses are not. *)
Login(d) ==
  /\ account.active
  /\ session[d] <= clock \/ enrolled[d].st = "revoked" \/ Lapsed(d)
  /\ session' = [session EXCEPT ![d] = SessionEnd]
  /\ IF enrolled[d].st = "revoked" \/ Lapsed(d)
       THEN /\ enrolled' = [enrolled EXCEPT ![d] = [st |-> "none", release |-> 0]]
            /\ older' = [e \in Device |-> IF e = d THEN {} ELSE older[e] \ {d}]
            /\ lease' = [lease EXCEPT ![d] = [n \in Node |-> NoLease]]
       ELSE UNCHANGED <<enrolled, older, lease>>
  /\ challenges' = {c \in challenges : c.until > clock}
  /\ UNCHANGED <<clock, account, taken, paused, control, answer, agent, call, history, connects, requests, events>>

Logout(d) ==
  /\ session[d] > clock /\ events < MaxEvents /\ events' = events + 1
  /\ session' = [session EXCEPT ![d] = 0]
  /\ challenges' = {c \in challenges : c.dev # d}
  /\ UNCHANGED <<clock, account, enrolled, older, lease, taken, paused, control, answer, agent, call, history, connects, requests>>

SignedIn(d) == session[d] > clock /\ account.active

Request(d) == [dev : {d}, act : {"connect"}, node : Node, key : Key, target : {d}, until : {clock + 1}]
  \union [dev : {d}, act : {"disconnect"}, node : {"none"}, key : {"none"}, target : {d}, until : {clock + 1}]
  \union [dev : {d}, act : {"revoke"}, node : {"none"}, key : {"none"}, target : Device, until : {clock + 1}]
(* nativeChallenge: the request (a node and key to connect with, or a device to revoke) is bound to it. *)
Challenge(d) ==
  /\ SignedIn(d) /\ requests < MaxRequests /\ requests' = requests + 1
  /\ Cardinality({c \in challenges : c.dev = d /\ c.until > clock}) < MaxPending
  /\ Cardinality(challenges) < MaxOpen
  /\ \E c \in Request(d) : challenges' = challenges \union {c}
  /\ UNCHANGED <<clock, account, session, enrolled, older, lease, taken, paused, control, answer, agent, call, history, connects, events>>

Consumable(c, act) == c.act = act /\ c.until > clock /\ SignedIn(c.dev)

-----------------------------------------------------------------------------
(* nativeConnect. *)

KeyFree(d, k) == \A e \in Device \ {d}, n \in Node : lease[e][n].key # k
FreeAddresses(n) == Address \ taken[n]

(* What a connect is refused for, in its order (a paused node only serves devices connected there): *)
(* every refusal rolls the transaction back.                                                      *)
Used == Configs + Cardinality(Slots)
SlotGranted(d) == IF enrolled[d].st = "none" THEN Used < account.limit ELSE WithinLimit(d)
Admissible(d, n, k) ==
  /\ paused[n] => LiveLease(d, n)
  /\ Allowed /\ session[d] > clock
  /\ enrolled[d].st \in {"none", "active"}
  /\ SlotGranted(d)
  /\ KeyFree(d, k)
  /\ lease[d][n] = NoLease => FreeAddresses(n) # {}
(* A slip: the account's end does not cut the lease. *)
ExpiryUncut == clock + Ttl
Expiry == Min({clock + Ttl, AccessUntil})
(* expires_at has milliseconds: two leases of one tick differ (stamp), unless both are cut to the account's end. *)
Stamp == IF clock + Ttl >= AccessUntil THEN 0 ELSE connects + 1
(* The lease rows after the transaction: the key and deadline change, readiness starts over, other nodes' leases end. *)
LeaseRows(d, n, k) ==
  [m \in Node |-> IF m = n THEN [key |-> k, addr |-> IF lease[d][n] = NoLease THEN Min(FreeAddresses(n)) ELSE lease[d][n].addr,
                                 until |-> Expiry, stamp |-> Stamp, req |-> 0]
                  ELSE IF LiveLease(d, m) THEN [lease[d][m] EXCEPT !.until = clock, !.stamp = 0] ELSE lease[d][m]]
(* The challenge is consumed whatever follows. *)
Refuse ==
  /\ \E c \in challenges :
       /\ Consumable(c, "connect") /\ ~Admissible(c.dev, c.node, c.key)
       /\ challenges' = challenges \ {c}
  /\ UNCHANGED <<clock, account, session, enrolled, older, lease, taken, paused, control, answer, agent, call, history, connects, requests, events>>

Connect(h) ==
  /\ call[h].pc = "idle"
  /\ \E c \in challenges :
       LET d == c.dev  n == c.node  k == c.key IN
       /\ Consumable(c, "connect") /\ Admissible(d, n, k)
       /\ challenges' = challenges \ {c}
       /\ session' = [session EXCEPT ![d] = SessionEnd]
       /\ enrolled' = IF enrolled[d].st = "none" THEN [Settled(enrolled) EXCEPT ![d].st = "active"] ELSE Settled(enrolled)
       /\ older' = IF enrolled[d].st = "none" THEN [older EXCEPT ![d] = {e \in Device : enrolled[e].st # "none"}] ELSE older
       /\ lease' = [lease EXCEPT ![d] = LeaseRows(d, n, k)]
       /\ taken' = IF lease[d][n] = NoLease THEN [taken EXCEPT ![n] = @ \union {Min(FreeAddresses(n))}] ELSE taken
       /\ call' = [call EXCEPT ![h] = [pc |-> "build", dev |-> d, node |-> n, key |-> k, until |-> Expiry, stamp |-> Stamp, rev |-> 0]]
       /\ dropped' = [dropped EXCEPT ![d] = FALSE] /\ connects' = connects + 1
  /\ UNCHANGED <<clock, account, paused, control, answer, agent, withdrawn, requests, events>>

Build(h) ==
  /\ call[h].pc = "build"
  /\ Rebuild(call[h].node)
  /\ call' = [call EXCEPT ![h] = [@ EXCEPT !.pc = "record", !.rev = NextRev(call[h].node)]]
  /\ UNCHANGED <<clock, rows, answer, agent, observed, history, connects, requests, events>>

(* A slip: the row is found by its id alone. *)
SameLeaseAny(h, l) == l # NoLease
(* The revision is bound to the lease as this call left it, or the connect was superseded. *)
SameLease(h, l) == l.until = call[h].until /\ l.stamp = call[h].stamp /\ l.key = call[h].key
Record(h) ==
  LET d == call[h].dev  n == call[h].node IN
  /\ call[h].pc = "record"
  /\ IF SameLease(h, lease[d][n])
       THEN lease' = [lease EXCEPT ![d][n].req = call[h].rev]
       ELSE UNCHANGED lease
  /\ call' = [call EXCEPT ![h] = Idle]
  /\ UNCHANGED <<clock, account, session, challenges, enrolled, older, taken, paused, control, answer, agent, history, connects, requests, events>>

(* The build throws (the service was switched off) or the Controller stops: what was committed stays. *)
Dies(h) ==
  /\ call[h].pc # "idle" /\ events < MaxEvents /\ events' = events + 1
  /\ call' = [call EXCEPT ![h] = Idle]
  /\ UNCHANGED <<clock, rows, control, answer, agent, history, connects, requests>>

-----------------------------------------------------------------------------
(* Giving a device up. *)

EndedLeases(d) == [lease EXCEPT ![d] = [n \in Node |-> IF lease[d][n] = NoLease THEN NoLease ELSE [lease[d][n] EXCEPT !.until = clock, !.stamp = 0]]]
(* A slip: the slot waits from now on, not from the last deadline. *)
ReleaseSoon(d) == clock + Slack
ReleaseAfter(d) == Max({clock} \union {lease[d][n].until : n \in HasLease(d)}) + Slack
Revoked(d) == IF enrolled[d].st = "active" THEN [enrolled EXCEPT ![d] = [st |-> "revoking", release |-> ReleaseAfter(d)]] ELSE enrolled

(* nativeEnd: the device disconnects itself, or revokes one of the account's devices. *)
Disconnect ==
  /\ \E c \in challenges :
       /\ Consumable(c, "disconnect") /\ enrolled[c.dev].st # "none"
       /\ challenges' = challenges \ {c}
       /\ lease' = EndedLeases(c.dev)
       /\ dropped' = [dropped EXCEPT ![c.dev] = TRUE]
  /\ UNCHANGED <<clock, account, session, enrolled, older, taken, paused, control, answer, agent, call, withdrawn, connects, requests, events>>

RevokeDevice ==
  /\ \E c \in challenges :
       /\ Consumable(c, "revoke") /\ enrolled[c.target].st # "none"
       /\ challenges' = challenges \ {c}
       /\ enrolled' = Revoked(c.target)
       /\ lease' = EndedLeases(c.target)
  /\ UNCHANGED <<clock, account, session, older, taken, paused, control, answer, agent, call, history, connects, requests, events>>

(* The Portal signs a device out, its sessions included. *)
SignOut(d) ==
  /\ enrolled[d].st = "active" /\ events < MaxEvents /\ events' = events + 1
  /\ enrolled' = Revoked(d)
  /\ lease' = EndedLeases(d)
  /\ session' = [session EXCEPT ![d] = 0]
  /\ challenges' = {c \in challenges : c.dev # d}
  /\ UNCHANGED <<clock, account, older, taken, paused, control, answer, agent, call, history, connects, requests>>

(* The console revokes a device and leaves its sessions. *)
AdminRevoke(d) ==
  /\ enrolled[d].st = "active" /\ events < MaxEvents /\ events' = events + 1
  /\ enrolled' = Revoked(d)
  /\ lease' = EndedLeases(d)
  /\ UNCHANGED <<clock, account, session, challenges, older, taken, paused, control, answer, agent, call, history, connects, requests>>

(* GET account closes what was released. *)
ReadAccount(d) ==
  /\ SignedIn(d) /\ Settled(enrolled) # enrolled
  /\ enrolled' = Settled(enrolled)
  /\ UNCHANGED <<clock, account, session, challenges, older, lease, taken, paused, control, answer, agent, call, history, connects, requests, events>>

-----------------------------------------------------------------------------
(* The account, the nodes and time change. *)

(* An administrator changes the account's status, or its grants change access or limit: reconcileUserAccess follows. *)
AccountChanges ==
  /\ events < MaxEvents /\ events' = events + 1
  /\ \/ account' = [account EXCEPT !.active = ~@]
     \/ account' = [account EXCEPT !.ok = ~@]
     \/ \E limit \in Limits \ {account.limit} : account' = [account EXCEPT !.limit = limit]
  /\ withdrawn' = IF (account.active /\ ~account'.active) \/ (account.ok /\ ~account'.ok) \/ account'.limit < account.limit
                  THEN clock ELSE withdrawn
  /\ IF account'.active THEN UNCHANGED <<session, challenges>>
     ELSE session' = [d \in Device |-> 0] /\ challenges' = {}
  /\ UNCHANGED <<clock, enrolled, older, lease, taken, paused, control, answer, agent, call, dropped, connects, requests>>

PauseOrResume(n) ==
  /\ events < MaxEvents /\ events' = events + 1
  /\ paused' = [paused EXCEPT ![n] = ~@]
  /\ UNCHANGED <<clock, account, session, challenges, enrolled, older, lease, taken, control, answer, agent, call, history, connects, requests>>

(* The rebuilds that follow every change above, each in a request of its own and allowed to fail, and the heartbeat's *)
(* rebuild when anything may have changed, a passed deadline included.                                                *)
RebuildChanged(n) ==
  /\ Changed(n)
  /\ Rebuild(n)
  /\ UNCHANGED <<clock, rows, observed, answer, agent, call, history, connects, requests, events>>

(* A request takes less than a tick; the watchdog's timer fires every two seconds, and before WireGuard starts after a reboot. *)
Tick ==
  /\ \A h \in Handler : call[h] = Idle
  /\ clock < MaxClock /\ clock' = clock + 1
  /\ agent' = [n \in Node |-> [agent[n] EXCEPT !.file = {p \in @ : p.until > clock'}]]
  /\ challenges' = {c \in challenges : c.until > clock'}
  /\ UNCHANGED <<account, session, enrolled, older, lease, taken, paused, control, answer, call, history, connects, requests, events>>

-----------------------------------------------------------------------------
(* The Agent. *)

NoTask == [rev |-> 0, peers |-> {}]
NoAnswer == [open |-> FALSE, task |-> NoTask, peers |-> {}]

(* One poller: the next pull starts when the last answer was handled. *)
Pull(n) ==
  /\ ~answer[n].open
  /\ queue[n] # NoTask \/ \E p \in LeasePeers(n) : \A q \in agent[n].file : p # q
  /\ answer' = [answer EXCEPT ![n] = [open |-> TRUE, task |-> queue[n], peers |-> LeasePeers(n)]]
  /\ queue' = [queue EXCEPT ![n] = NoTask]
  /\ agent' = [agent EXCEPT ![n].contact = clock]
  /\ UNCHANGED <<clock, rows, desired, observed, call, history, connects, requests, events>>

Applied(n) == IF answer[n].task = NoTask THEN agent[n].file ELSE {p \in answer[n].task.peers : p.until > clock}

(* refresh_native_peers: known keys get the new deadline; a missing one comes back if nobody has its address. *)
Wanted(n) == {p \in answer[n].peers : p.until > clock /\ p.until <= clock + Ttl}
(* A slip: the address is not looked at. *)
RestoredByKey(file, wanted) == {w \in wanted : \A p \in file : p.key # w.key}
Restored(file, wanted) == {w \in wanted : \A p \in file : p.key # w.key /\ p.addr # w.addr}
Refreshed(file, wanted) ==
  {IF \E w \in wanted : w.key = p.key THEN [(CHOOSE w \in wanted : w.key = p.key) EXCEPT !.addr = p.addr] ELSE p : p \in file}
    \union Restored(file, wanted)

(* Tasks first, each reported, then the deadlines that came with them. *)
Handle(n) ==
  /\ answer[n].open
  /\ agent' = [agent EXCEPT ![n].file = Refreshed(Applied(n), Wanted(n)),
                            ![n].keys = IF answer[n].task = NoTask THEN @ ELSE {p.key : p \in answer[n].task.peers}]
  /\ observed' = IF answer[n].task = NoTask THEN observed ELSE [observed EXCEPT ![n] = answer[n].task.rev]
  /\ answer' = [answer EXCEPT ![n] = NoAnswer]
  /\ UNCHANGED <<clock, rows, desired, queue, call, history, connects, requests, events>>

(* No contact for 90 seconds: leases about to end are kept up, at most Grace after the contact. *)
ExtendOffline(n) ==
  LET target == Min({clock + Ttl, agent[n].contact + Grace})
      due == {p \in agent[n].file : clock < p.until /\ p.until <= clock + 1 /\ p.until < target} IN
  /\ clock > agent[n].contact /\ ~answer[n].open /\ due # {} /\ events < MaxEvents /\ events' = events + 1
  /\ agent' = [agent EXCEPT ![n].file = (@ \ due) \union {[p EXCEPT !.until = target, !.ext = TRUE] : p \in due}]
  /\ UNCHANGED <<clock, rows, control, answer, call, history, connects, requests>>

-----------------------------------------------------------------------------
Init ==
  /\ clock = 1 /\ requests = 0 /\ events = 0
  /\ \E limit \in Limits : account = [active |-> TRUE, ok |-> TRUE, limit |-> limit]
  /\ session = [d \in Device |-> Never] /\ challenges = {} /\ older = [d \in Device |-> {}] /\ connects = 0
  /\ enrolled = [d \in Device |-> [st |-> "none", release |-> 0]]
  /\ lease = [d \in Device |-> [n \in Node |-> NoLease]]
  /\ taken = [n \in Node |-> {}] /\ paused = [n \in Node |-> FALSE]
  /\ desired = [n \in Node |-> [rev |-> 1, peers |-> {}]]
  /\ queue = [n \in Node |-> NoTask] /\ answer = [n \in Node |-> NoAnswer]
  /\ agent = [n \in Node |-> [file |-> {}, keys |-> {}, contact |-> 1]]
  /\ observed = [n \in Node |-> 1]
  /\ call = [h \in Handler |-> Idle]
  /\ dropped = [d \in Device |-> FALSE] /\ withdrawn = Never

Next ==
  \/ \E d \in Device : Login(d) \/ Logout(d) \/ Challenge(d) \/ ReadAccount(d)
  \/ \E h \in Handler : Connect(h) \/ Build(h) \/ Record(h) \/ Dies(h)
  \/ Disconnect \/ RevokeDevice \/ AccountChanges \/ \E d \in Device : SignOut(d) \/ AdminRevoke(d)
  \/ \E n \in Node : PauseOrResume(n) \/ RebuildChanged(n) \/ Pull(n) \/ Handle(n) \/ ExtendOffline(n)
  \/ Refuse \/ Tick

Spec == Init /\ [][Next]_vars

-----------------------------------------------------------------------------
(* Properties. *)

(* Every variable has its type. *)
ChallengeRow == [dev : Device, act : {"connect", "disconnect", "revoke"}, node : Node \union {"none"},
                 key : Key \union {"none"}, target : Device, until : Nat]
AccountRow == [active : BOOLEAN, ok : BOOLEAN, limit : Nat]
EnrollmentRow == [st : {"none", "active", "revoking", "revoked"}, release : Nat]
LeaseRow == [key : Key \union {"none"}, addr : Nat, until : Nat, stamp : Nat, req : Nat]
Peer == [key : Key \union {"none"}, addr : Nat, until : Nat, dev : Device, ext : BOOLEAN]
Payload == [rev : Nat, peers : SUBSET Peer]
AnswerRow == [open : BOOLEAN, task : Payload, peers : SUBSET Peer]
AgentRow == [file : SUBSET Peer, keys : SUBSET (Key \union {"none"}), contact : Nat]
CallRow == {Idle} \union [pc : {"build", "record"}, dev : Device, node : Node, key : Key, until : Nat \ {0}, stamp : Nat, rev : Nat]
TypeOK ==
  /\ clock \in Nat \ {0} /\ clock <= MaxClock /\ account \in AccountRow /\ session \in [Device -> Nat]
  /\ challenges \subseteq ChallengeRow
  /\ \A c \in challenges : c.act = "connect" => c.node \in Node /\ c.key \in Key
  /\ enrolled \in [Device -> EnrollmentRow] /\ older \in [Device -> SUBSET Device]
  /\ lease \in [Device -> [Node -> LeaseRow]] /\ taken \in [Node -> SUBSET Address] /\ paused \in [Node -> BOOLEAN]
  /\ desired \in [Node -> Payload] /\ queue \in [Node -> Payload] /\ observed \in [Node -> Nat]
  /\ answer \in [Node -> AnswerRow] /\ agent \in [Node -> AgentRow]
  /\ call \in [Handler -> CallRow]
  /\ dropped \in [Device -> BOOLEAN] /\ withdrawn \in Nat /\ connects \in Nat /\ requests \in Nat /\ events \in Nat

Live(n) == {p \in agent[n].file : p.until > clock}
Tunnels == UNION {Live(n) : n \in Node}

(* nativeEnd and signOutDevice: a slot is given to the next device only when no node lets the old one through any  *)
(* more.  So the devices with a working tunnel never exceed the limit, whatever is revoked, moved or signed in     *)
(* again; a node cut off from the Controller, and a device that disconnected before it was revoked, excepted.      *)
TunnelsWithinLimit ==
  LET devices == {p.dev : p \in {q \in Tunnels : ~q.ext /\ ~dropped[q.dev]}} IN
  withdrawn = Never /\ devices # {} => Cardinality(devices) + Configs <= account.limit

(* refresh_native_peers: two keys never share an address on a node, whatever order tasks, deadlines and key changes *)
(* arrive in (the second peer would take the first one's route).                                                    *)
AddressHeldOnce == \A n \in Node : \A p, q \in agent[n].file : p.addr = q.addr => p = q

(* nativeStatus: "ready" means that the node was given the key the device will use, not an older key of the same  *)
(* lease.  Excepted: access was withdrawn meanwhile and came back, and leases cut to the account's end, whose     *)
(* equal deadlines connects cannot tell apart.                                                                    *)
StatusReady(d, n) ==
  /\ LiveLease(d, n) /\ enrolled[d].st = "active" /\ Allowed /\ WithinLimit(d)
  /\ lease[d][n].req # 0 /\ observed[n] >= lease[d][n].req
ReadyIsBound == \A d \in Device, n \in Node : StatusReady(d, n) /\ withdrawn = Never /\ lease[d][n].until < AccessUntil => lease[d][n].key \in agent[n].keys

(* Without access no tunnel outlives the longest lease: whoever renews, restores or reorders, every node that is  *)
(* not cut off has shut the account out one lease after access ended.                                             *)
TunnelsEndWithAccess ==
  /\ clock >= AccessUntil => \A p \in Tunnels : p.ext
  /\ ~account.active /\ withdrawn # Never /\ clock >= withdrawn + Ttl => \A p \in Tunnels : p.ext
=============================================================================
