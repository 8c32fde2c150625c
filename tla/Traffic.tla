------------------------------ MODULE Traffic ------------------------------
(***************************************************************************)
(* Traffic: what the Agent samples (agent/agent.py, the *_usage_snapshots  *)
(* functions), what a heartbeat adds to the usage tables and charges to    *)
(* the accounts (server/traffic.ts, server/node-traffic.ts, the heartbeat  *)
(* route), how an account that runs out leaves the node                    *)
(* (server/reconcile-schedule.ts), and the reports over those tables.      *)
(*                                                                         *)
(* One node. A key is one identity under one protocol, of one device. The  *)
(* node's public interface is a counter like the others. The grants an     *)
(* account pays from are module Entitlements; here it has one quota, and   *)
(* the rebuild of a node's services, module Reconcile, is one step.        *)
(***************************************************************************)
EXTENDS Naturals, FiniteSets, FiniteSetsExt

CONSTANTS
    Users,
    Keys,           \* identities the node counts
    Wan,            \* the public interface
    Owner,          \* the account a key belongs to
    Protocol,       \* of a key: "wireguard" (and openvpn), "vless", "stealth"
    Native,         \* keys of app devices: no access_credentials row
    Region,         \* the node's region, or None
    None,
    Handlers,       \* heartbeat requests the Controller may be working on at once, numbered
    Quota,          \* bytes of a grant
    MaxMoves,       \* bound: units of traffic in all
    MaxEvents       \* bound: faults, restarts, midnights

TrafficAssumption ==
    /\ Wan \notin Keys /\ Owner \in [Keys -> Users] /\ Native \subseteq Keys
    /\ Handlers \subseteq Nat /\ Quota \in Nat \ {0} /\ MaxMoves \in Nat /\ MaxEvents \in Nat

Counters == Keys \cup {Wan}
Days == 1..2

VARIABLES
    moved,      \* bytes that really went over a counter, ever
    counter,    \* what the counter shows, and its epoch
    handler,    \* heartbeat requests in the Controller
    stored,     \* traffic_counters and node_network_counters
    daily,      \* traffic_daily, by day and device
    month,      \* node_traffic_monthly of the node
    today,
    charged,    \* bytes taken off an account's grants
    quota,      \* bytes its grants hold
    served,     \* accounts the node has peers for
    due,        \* the access epoch has moved on since the node's last rebuild
    elapsed,    \* SAFETY_INTERVAL_MS has passed since then
    suspect,    \* two requests of one Agent were worked on at once, or a sample was torn
    events

vars == <<moved, counter, handler, stored, daily, month, today, charged, quota, served, due, elapsed, suspect, events>>

Node == <<moved, counter>>
Books == <<stored, daily, month, charged, quota>>

Idle == [at |-> "idle", older |-> FALSE, old |-> FALSE, snap |-> << >>, write |-> << >>, owed |-> << >>, ended |-> FALSE]

Init ==
    /\ moved = [c \in Counters |-> 0]
    /\ counter = [c \in Counters |-> [value |-> 0, epoch |-> 0]]
    /\ handler = [h \in Handlers |-> Idle]
    /\ stored = [c \in Counters |-> None]
    /\ daily = [d \in Days |-> [k \in Keys |-> 0]] /\ month = 0 /\ today = 1
    /\ charged = [u \in Users |-> 0] /\ quota = [u \in Users |-> Quota]
    /\ served = Users /\ due = TRUE /\ elapsed = FALSE /\ suspect = FALSE /\ events = 0

Event == events < MaxEvents /\ events' = events + 1
HasAccess(u) == charged[u] < quota[u]

Total(f, S) == MapThenSumSet(LAMBDA x : f[x], S)

(***************************************************************************)
(* The node.                                                               *)
(***************************************************************************)
Move(k) ==
    /\ Owner[k] \in served /\ moved[Wan] < MaxMoves
    /\ moved' = [moved EXCEPT ![k] = @ + 1, ![Wan] = @ + 1]
    /\ counter' = [counter EXCEPT ![k].value = @ + 1, ![Wan].value = @ + 1]
    /\ UNCHANGED <<handler, Books, today, served, due, elapsed, suspect, events>>

(* A counter starts again: all of them and the epoch with a reboot (boot_id), a VLESS counter with  *)
(* its service (InvocationID), a stealth counter with the Agent (STEALTH_EPOCH).                     *)
Restarted(S) == [c \in Counters |-> IF c \in S THEN [value |-> 0, epoch |-> counter[c].epoch + 1] ELSE counter[c]]

Restart ==
    /\ Event
    /\ \E S \in {Counters} \cup {{k \in Keys : Protocol[k] = p} : p \in {"vless", "stealth"}} : counter' = Restarted(S)
    /\ UNCHANGED <<moved, handler, Books, today, served, due, elapsed, suspect>>

(***************************************************************************)
(* A heartbeat, as recordTrafficSnapshots and recordAgentHeartbeat work on *)
(* it: load, one transaction, one charge per account, the monthly counter, *)
(* the rebuild.                                                            *)
(***************************************************************************)
To(h, next) == handler' = [handler EXCEPT ![h] = next]
Others(h) == {g \in Handlers \ {h} : handler[g].at # "idle"}
Free(h) == handler[h].at = "idle" /\ \A g \in Handlers : g < h => handler[g].at # "idle"

(* A slip in wireguard_usage_snapshots: the epoch of the process, not of the counter. *)
AsOfProcess == [c \in Counters |-> [value |-> counter[c].value, epoch |-> counter[c].epoch + events]]
(* The usage snapshots and the interface counters of a heartbeat. *)
Sampled == counter

(* The Agent sends the next heartbeat when the last is answered, or given up after 15 s while the *)
(* Controller still works on it. A VLESS service that restarts between the reading of its          *)
(* counters and of its InvocationID tears the sample.                                              *)
Sample(h) ==
    /\ Free(h)
    /\ IF Others(h) = {} THEN UNCHANGED events ELSE Event
    /\ handler' = [g \in Handlers |->
           IF g = h THEN [Idle EXCEPT !.at = "arrived", !.snap = Sampled]
           ELSE IF handler[g].at = "arrived" THEN [handler[g] EXCEPT !.older = TRUE] ELSE handler[g]]
    /\ suspect' = (suspect \/ Others(h) # {})
    /\ UNCHANGED <<Node, Books, today, served, due, elapsed>>

TornSample(h) ==
    /\ Free(h) /\ Others(h) = {} /\ Event /\ suspect' = TRUE
    /\ LET S == {k \in Keys : Protocol[k] = "vless"} IN
       /\ counter' = Restarted(S)
       /\ To(h, [Idle EXCEPT !.at = "arrived",
                    !.snap = [c \in Counters |-> IF c \in S THEN [counter[c] EXCEPT !.epoch = @ + 1] ELSE counter[c]]])
    /\ UNCHANGED <<moved, Books, today, served, due, elapsed>>

(* What a snapshot adds: a new epoch counts from zero, a lower value of the same epoch not at all. *)
Delta(before, now) ==
    IF before = None \/ before.epoch # now.epoch THEN now.value
    ELSE IF now.value > before.value THEN now.value - before.value ELSE 0

(* The rows loaded before the transaction; a row newer than this request keeps it from counting. *)
Load(h) ==
    /\ handler[h].at = "arrived"
    /\ LET deltas == [k \in Keys |-> IF handler[h].old THEN 0 ELSE Delta(stored[k], handler[h].snap[k])]
       IN  To(h, [handler[h] EXCEPT !.at = "loaded", !.write = deltas])
    /\ UNCHANGED <<Node, Books, today, served, due, elapsed, suspect, events>>

(* The transaction: counters are replaced, days are added to. *)
Commit(h) ==
    /\ handler[h].at = "loaded"
    /\ stored' = [c \in Counters |-> IF c = Wan \/ handler[h].old THEN stored[c] ELSE handler[h].snap[c]]
    /\ daily' = [daily EXCEPT ![today] = [k \in Keys |-> @[k] + handler[h].write[k]]]
    /\ handler' = [g \in Handlers |->
           IF g = h THEN [Idle EXCEPT !.at = "charge", !.snap = [c \in {Wan} |-> handler[h].snap[Wan]],
                             !.owed = [u \in Users |-> Total(handler[h].write, {k \in Keys : Owner[k] = u})]]
           ELSE IF handler[g].older THEN [handler[g] EXCEPT !.old = TRUE] ELSE handler[g]]
    /\ UNCHANGED <<Node, month, today, charged, quota, served, due, elapsed, suspect, events>>

(* chargeTraffic, one account at a time; without a usable grant nothing is written. *)
Charge(h, u) ==
    /\ handler[h].at = "charge" /\ handler[h].owed[u] > 0
    /\ charged' = IF HasAccess(u) THEN [charged EXCEPT ![u] = @ + handler[h].owed[u]] ELSE charged
    /\ To(h, [handler[h] EXCEPT !.owed[u] = 0, !.ended = @ \/ (HasAccess(u) /\ charged'[u] >= quota[u])])
    /\ UNCHANGED <<Node, stored, daily, month, today, quota, served, due, elapsed, suspect, events>>

(* A charge throws: the rest of the request is dropped, the accounts that ended before it included. *)
ChargeFails(h) ==
    /\ handler[h].at = "charge" /\ (\E u \in Users : handler[h].owed[u] > 0) /\ Event
    /\ To(h, Idle)
    /\ UNCHANGED <<Node, Books, today, served, due, elapsed, suspect>>

(* counterDelta: a lower value means a restart, too; the first sample only starts the count. *)
WanDelta(before, now) ==
    IF before = None THEN 0
    ELSE IF before.epoch # now.epoch \/ now.value < before.value THEN now.value ELSE now.value - before.value

(* A slip in nodeReconcileDue: without the safety interval. *)
DueByEpoch(h) == due \/ handler[h].ended
(* nodeReconcileDue, after markAccessChanged *)
ReconcileDue(h) == due \/ elapsed \/ handler[h].ended

(* The transaction of recordNodeNetworkCounters, and the rebuild. An account without access loses its *)
(* peers, and their counters go with them; the epoch stays.                                            *)
Finish(h) ==
    /\ handler[h].at = "charge" /\ \A u \in Users : handler[h].owed[u] = 0
    /\ month' = month + WanDelta(stored[Wan], handler[h].snap[Wan])
    /\ stored' = [stored EXCEPT ![Wan] = handler[h].snap[Wan]]
    /\ To(h, Idle)
    /\ IF ReconcileDue(h)
       THEN /\ served' = {u \in Users : HasAccess(u)} /\ due' = FALSE /\ elapsed' = FALSE
            /\ counter' = [c \in Counters |->
                  IF c # Wan /\ Owner[c] \in served \ served' THEN [counter[c] EXCEPT !.value = 0] ELSE counter[c]]
       ELSE UNCHANGED <<counter, served, due, elapsed>>
    /\ UNCHANGED <<moved, daily, today, charged, quota, suspect, events>>

(* Ten minutes; a request takes seconds. *)
SafetyPasses ==
    /\ \A h \in Handlers : handler[h].at = "idle"
    /\ ~due /\ ~elapsed /\ elapsed' = TRUE
    /\ UNCHANGED <<Node, handler, Books, today, served, due, suspect, events>>

ControllerRestarts ==
    /\ Event /\ handler' = [h \in Handlers |-> Idle] /\ due' = TRUE
    /\ UNCHANGED <<Node, Books, today, served, elapsed, suspect>>

(* The Console gives a grant, and rebuilds the account's nodes at once. *)
Renew(u) ==
    /\ ~HasAccess(u) /\ quota' = [quota EXCEPT ![u] = charged[u] + Quota] /\ served' = served \cup {u}
    /\ UNCHANGED <<Node, handler, stored, daily, month, today, charged, due, elapsed, suspect, events>>

Midnight ==
    /\ today = 1 /\ Event /\ today' = 2
    /\ UNCHANGED <<Node, handler, Books, served, due, elapsed, suspect>>

HandlerStep(h) == Load(h) \/ Commit(h) \/ (\E u \in Users : Charge(h, u)) \/ Finish(h)

Next ==
    \/ \E k \in Keys : Move(k)
    \/ \E h \in Handlers : Sample(h) \/ TornSample(h) \/ HandlerStep(h) \/ ChargeFails(h)
    \/ \E u \in Users : Renew(u)
    \/ Restart \/ SafetyPasses \/ ControllerRestarts \/ Midnight

(* The Agent's loop sends on, requests are worked on, the interval passes however often they send. *)
Spec ==
    /\ Init /\ [][Next]_vars
    /\ WF_vars(\E h \in Handlers : (Others(h) = {} /\ Sample(h)) \/ HandlerStep(h)) /\ SF_vars(SafetyPasses)

(***************************************************************************)
(* The reports: sums over traffic_daily between two days.                  *)
(***************************************************************************)
KeysOf(u) == {k \in Keys : Owner[k] = u}
InRange(k, from, to) == Total([d \in Days |-> daily[d][k]], {d \in Days : from <= d /\ d <= to})

(* range: a range the wrong way round is turned. *)
UsageRange(from, to) == IF from <= to THEN <<from, to>> ELSE <<to, from>>

UsageByDevices(u, from, to) == [k \in KeysOf(u) |-> InRange(k, from, to)]

UsageSummary(u, from, to) ==
    [total |-> Total(UsageByDevices(u, from, to), KeysOf(u)),
     daily |-> [d \in from..to |-> Total(daily[d], KeysOf(u))]]

(* A slip in usageByRegions: nodes without a region fall out of the join. *)
UsageByRegionsInner(u, from, to) == IF Region = None THEN << >> ELSE [r \in {Region} |-> UsageSummary(u, from, to).total]
UsageByRegions(u, from, to) == [r \in {Region} |-> UsageSummary(u, from, to).total]

(* By credential; the bytes of app devices have none. *)
CredentialOverview(u, from, to) == [k \in KeysOf(u) \ Native |-> InRange(k, from, to)]

(* The profile list: each active profile with what its device used. *)
UsageByCredentials(u, from, to) == [k \in KeysOf(u) \ Native |-> InRange(k, from, to)]

AccessSummaries == [u \in Users |-> UsageSummary(u, 1, 2).total]

AccessOverview(u, from, to) ==
    [total |-> UsageSummary(u, from, to).total,
     devices |-> UsageByDevices(u, from, to), credentials |-> CredentialOverview(u, from, to)]

(***************************************************************************)
(* Properties                                                              *)
(***************************************************************************)
Counted(k) == Total([d \in Days |-> daily[d][k]], Days)

(* docs/architecture/09-c-user-web.md: observedAt and counterEpoch "avoid counting repeated reports       *)
(* twice". Whatever restarts, is dropped or fails half-way, neither a device nor the node's month shows   *)
(* more bytes than moved, and no account is charged for more than its devices show; the two cases in      *)
(* which the code does count twice are set apart in "suspect".                                            *)
CountedOnce ==
    ~suspect => /\ \A k \in Keys : Counted(k) <= moved[k]
                /\ month <= moved[Wan]
                /\ \A u \in Users : charged[u] <= Total([k \in Keys |-> Counted(k)], KeysOf(u))

(* An account that used up its traffic leaves the node, also when the charge of another account failed    *)
(* after it and the change was never announced.                                                           *)
ExhaustedLeaves == \A u \in Users : (~HasAccess(u) /\ u \in served) ~> (u \notin served \/ HasAccess(u))

(* The portal's summary, its devices, its regions and the Console's account list add up to the same bytes. *)
ReportsAgree ==
    \A u \in Users :
        LET from == UsageRange(today, 1)[1]  to == UsageRange(today, 1)[2]
            total == UsageSummary(u, from, to).total
            byRegion == UsageByRegions(u, from, to)
        IN  /\ total = Total(UsageSummary(u, from, to).daily, from..to)
            /\ total = Total(byRegion, DOMAIN byRegion)
            /\ total = AccessOverview(u, from, to).total
            /\ Total(UsageByCredentials(u, from, to), KeysOf(u) \ Native) <= AccessSummaries[u]
=============================================================================
