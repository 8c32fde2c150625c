# Verification of the VPN control plane

TLA+ models of the Controller, the node Agent and the web pages of this repository,
checked with TLC on small instances, with theorems that the TLA+ proof system
(TLAPS) checks for every instance. Paths are relative to the repository root.

## 1. The system

The **Controller** (one Node.js process, `server/`, `app/api/`) keeps accounts,
credentials, nodes and their VPN services in PostgreSQL. An **Agent**
(`agent/agent.py`, one process per node) runs WireGuard, OpenVPN, VLESS REALITY
and Hysteria2 ("stealth") as the Controller says. Console and Portal (`admin-web/`,
`portal-web/`) and the apps (`clients/`) call the Controller's API.

The Agent never receives a call. It sends a heartbeat every 30 s, holds a long
poll open for tasks, and posts the result of each task:

```text
 access changes ──► build desired state ──► desired_configs (revision, payload)
 (time, quota,      under the reconcile        │
  Console, app)     lock of node+protocol      ▼
       │                 ▲               reconcile_tasks ◄── restart, disable
       ▼                 │                     │   ▲
  epoch += 1        heartbeat when             │   └── retries, once a minute
  (node is due)     due or "attention"    pull │
                         ▲                     ▼
                         └──────────────── Agent ──► report ──► task row, service
                                                                status, observed_configs
```

Several requests of one process interleave at every `await`. Most of the state is
in rows written one statement at a time, without a transaction around a handler;
`epoch`, `reconciled`, locks, listeners, rate limits, port checks and caches are in
memory and vanish with the process. Requests time out and are lost; tasks are handed
out again after five minutes or a failure, whether or not something newer was applied
meanwhile. What is hard is listed with lines under `hazards` in `PROJECT.json`.

### Inventory

| Part | State | Operations | Correct when | Module |
|---|---|---|---|---|
| Desired-state builds, schedule, services, task queue, Agent task loop (`control-plane.ts`, `reconcile-schedule.ts`, `vpn-services.ts`, `control-db.ts`, `jobs.ts`, `agent.py`) | `desired_configs`, `epoch`, `reconciled`, `vpn_services`, `reconcile_tasks`, `observed_configs`, files of the node | build, mark, deploy, enable, disable, restart, retry, pull, apply, report | a revision names one payload; a change is noticed; the node converges and the fleet comes to rest | `Reconcile` |
| Keyed lock (`reconcile-lock.ts`) | map of promise chains | `withKeyedLock` | first come, first served; nothing left behind | `KeyedLock`, `Turns` |
| Long poll, port checks (`agent-wake.ts`, `tasks/pull`, `port-check.ts`) | listeners, one check per node | wait, wake, claim, report, probe | nobody sleeps with work to do; "closed" was measured | `AgentLine` |
| Entitlements (`entitlements.ts`, `access-jobs.ts`) | grants, cached access | grant, revoke, charge, refresh, register | the cache follows the grants; every byte is billed | `Entitlements` |
| App access (`native-access.ts`, the Agent's watchdog) | sessions, enrolments, leases, deadlines on the node | sign in, connect, renew, disconnect, revoke, expire | tunnels within the limit; one address, one tunnel | `NativeAccess` |
| Credentials and subscriptions (`credential-access.ts`, `subscriptions.ts`, `control-db.ts`) | credentials, `ip_leases`, profiles | create, address, activate, serve, withdraw | one address, one client; what is withdrawn leaves | `Credentials` |
| Accounts, sessions, rate limits (`auth.ts`, `device-auth.ts`, `password-reset.ts`, `rate-limit.ts`) | password, status, sessions, windows | sign in, refresh, reset, suspend | signed out is out; a link works once; a ban is earned | `Accounts` |
| Traffic (`traffic.ts`, `node-traffic.ts`) | counters, daily rows | snapshot, charge, report | a byte is charged once | `Traffic` |
| Node actions (`bootstrap.ts`, `node-join.ts`, `db.ts`) | `node_actions`, tokens, jobs in memory | add, install, restart, edit, delete | the right machine; a success that was heard | `NodeOperations` |
| Node rows (`db.ts`) | `nodes`, `regions`, row and advisory locks | insert, bind, adopt, update, delete | one row for a machine | `NodeRegistry` |
| Agent upgrade (`agent-self-upgrade.ts`, `agent-upgrade.ts`, `agent.py`) | sources, markers, timer, request | offer, take, stage, confirm, roll back | there is always a way back | `AgentUpgrade` |
| Agent domain (`agent-domain.ts`, `agent.py`) | setting, memory copy, `config.env` | announce, try, keep, take down | no Agent stays on a dead domain | `AgentDomain` |
| User bundles (`reality.ts`, `stealth.ts`) | encrypted lists | create, name, collect | a list that can be asked for exists | `UserBundles` |
| OpenVPN PKI (`openvpn-pki.ts`) | authority, issuances | mint, sign, revoke, list | one issuer | `Certificates` |
| Migrations (`migrate.mjs`) | schema, records | baseline, apply, seed | once, in order | `Migrations` |
| Connection pool (`db.ts`, `stealth.ts`, `reality.ts`) | connections, advisory locks | borrow, transact, look inside a transaction | somebody can go on | `ConnectionPool` |
| Deployment policy (`deployment-policy.ts`) | rollouts, targets | start, deploy, refresh | a rollout ends | `Rollouts` |
| Client releases (`client-releases.ts`, `release-storage.ts`) | rows, files, mirror | upload, publish, withdraw, copy | what is served is what was hashed; a build at the minimum is on offer | `Releases` |
| Sites (`sites.ts`) | rows, copy | create, change, default, delete | one default | `Sites` |
| Alerts and mail (`alerts.ts`, `mail.ts`) | problems, notices, cached settings | evaluate, send, remind | everyone is told | `Alerts` |
| Placement (`control-plane.ts`, `connectivity.ts`) | service rows, heartbeats | choose, issue, show | placed where served | `Placement` |
| Log of an action (`bootstrap.ts`, `db.ts`) | rows, a buffer of writes | record, flush, recover | what is done stays done | `ActionLog` |
| Log pages, node detail, portal dashboard (`operational-logs.ts`, `nodes.tsx`, `credential-dashboard.tsx`) | page state, answers under way | ask, show, turn, operate | what is shown is so | `LogPages`, `NodeDetail`, `Dashboard` |
| Protocol adapters, client apps, deployment scripts | payload formats, other processes | | | not modelled (section 8) |

## 2. Modules

A module per part, named above, with its state, one action per handler step (what runs
between two awaits), its fairness and its properties. Four modules hold parts that share no
state side by side. A theorem stands in the `...Proofs` module of its part or group of parts.
An operator with the comment "A slip" is a plausible
mistake of the code that the model does not use; it is there so that each property can
be seen to fail.

| Group | Contents | Theorems |
|---|---|---|
| `Agents` | extends `AgentLine`; `NodeOperations` beside it | `AgentsProofs` |
| `People` | extends `Accounts`; `Releases` beside it | `PeopleProofs` |
| `Store` | extends `KeyedLock`; beside it `ConnectionPool`, `NodeRegistry`, `UserBundles`, `Certificates`, `Migrations`, `Rollouts`, `Traffic` | `StoreProofs` |
| `Surfaces` | `Alerts`, `Sites`, `AgentDomain`, `LogPages`, `NodeDetail`, `ActionLog`, `AgentUpgrade`, `Dashboard`, `Placement` | `SurfacesProofs` |

`MCReconcile` (scenes: the initial state picks the events the environment may raise),
`MCNativeAccess`, `MCCredentials`, `MCPeople`, `MCStore`, `MCSurfaces` and `MCAgents` (the group
`Agents` with `Entitlements` beside it) give the constants their values for TLC. The specification
of `Entitlements` is `AccessSpec`, so that both can be taken into one module.

In a group (and in `MCAgents`) the variable `part`, chosen in the initial state, says which part runs; the variables
of the others never change. A behaviour is therefore a
behaviour of one part, and a property of the group speaks of its part: nothing is said
about parts running together, because nothing connects them. What does connect parts is
composed inside a module: `Reconcile` holds Controller, queue and Agent, `NativeAccess`
apps, Controller and Agent, `Traffic` the Agent's counters, the tables and the accounts,
`Credentials` requests, builds and the node.

### What one module takes from another

`Reconcile` uses the lock as `Turns` describes it, and `KeyedLock` implements `Turns`
(refinement, proved). `Credentials` and `NativeAccess` take a build of a node as one
step, which `Reconcile` justifies (builds of one node exclude each other, proved).
`Traffic` has one quota for an account where `Entitlements` has grants. `AgentLine` has
the statements of a pull and of a report one by one where `Reconcile` has one action.

### Abstractions worth knowing

* `Reconcile` has one protocol; rows, queue and lock are per node, as the keys
  `(node_id, protocol)` are. The one tie between protocols is the epoch, which is kept.
  A payload is the set of peers it admits. A pull takes all pending tasks; the code
  takes ten, and more on the next pull. An apply that fails leaves the old
  configuration, or the new one with the unit stopped. `RestartApplies` tells the
  protocols whose restart is an apply (VLESS, stealth) from those whose restart is not.
* Ages (30 s, 5 min, 45 s) are nondeterminism where only the order matters, ticks where
  their ratio does (`Entitlements`, `NativeAccess`, `Accounts`, `Placement`, `Alerts`).
* The shell scripts that run over SSH appear as what they leave on the machine at each
  of their outputs.
* A file, an installer, a list of users or a source is a name or a number; a digest is
  equality.
* What the environment may do in `Reconcile` is the set `Env` (`boundary`, `quota`,
  `console`, `lost`, `applyFail`, `restart`, ...), bounded by `MaxEvents`.
* `AgentUpgrade`: an upgrade goes over SSH only when the last heartbeat is 90 s old
  (`hasFreshAgentHeartbeat`, `bootstrap.ts:51`), and its timer fires 90 s after it was armed. By
  then a request for an upgrade over the Agent's own channel that an earlier action left behind is
  past its 120 s. The model has no clock for this and states it as the guard `RequestsAreOver`
  of the timer.
* `chargeTraffic` commits one transaction per account and `markAccessChanged` comes after the last of
  them (`traffic.ts:195`): `Reconcile` has the change (`QuotaEnds`), the mark (`QuotaMark`) and the
  throw of a later account's charge (`ChargeThrows`, event `chargeFail`) as three actions; `charge`
  counts the marks still owed and remembers the epoch in which one was lost.
* `NodeOperations` checks the token of a heartbeat (`CheckToken`) and records it (`RecordHeartbeat`)
  in two steps: the traffic of the request is awaited in between. `MaxBeats` bounds the heartbeats at
  work at once.
* `Releases` has one platform with several architectures, of which one is "universal".
* `LogPages` has no nanosecond with more lines than a page (200): `operational-logs.ts:174` cuts a
  page at a whole nanosecond where it can, and where it cannot a cursor cannot tell the lines apart
  (`PagesAssumption`).
* Bounds are constants called `Max...`, and they stand in guards.

## 3. State and actions

`Reconcile`: `access` is the result of `listActivePeers` at this moment; `epoch` and
`reconciled` are the variables of `reconcile-schedule.ts`; `service`, `desired`, `tasks`
and `observed` are rows; `queue` is the promise chain of one key; `call` is a request, its
position between two awaits and the locals that outlive them; `agent` is the node: unit,
configuration file, tasks in hand; `results` are reports on their way. A throw is an action
of its own (`BuildThrows`, `EnqueueThrows`, `SendThrows`, `MinuteAbort`).
`ControllerRestart` clears what is in memory and keeps the rows.

`KeyedLock`: a call is one evaluation of `withKeyedLock`, its promise bears its name;
`queues` is the map, `previous` the local, `ahead` a history variable for the refinement.

`Entitlements`: `grants` are the rows of one account in the order of `created_at`, `cache`
the three columns that `store` writes, `due` and `swept` the minute job between its query
and `refreshAccess`. Every operation takes the account's row lock for its whole
transaction, so one is one action; what lies outside is its own (`Register` and
`GrantWelcome`, `JobSelect` and `JobRefresh`). Days are ticks.

`AgentLine`: rows of tasks, handlers of pulls with their place between two statements,
listeners, reports, the port check with its socket, the Agent. `NativeAccess`: sessions,
enrolments, slots and leases as rows, `desired` with deadlines, the Agent's peers with
the deadline each was given; a tick is 150 s. `Accounts`: the account row, the four
kinds of session rows, requests between their reads and writes, the limiter's entries.
`Credentials`: rows, requests, the build in one step. The header of each module says
what its variables are, and `map` in `PROJECT.json` names the lines of every definition.

## 4. Properties

The control loop. `RevisionNamesOnePayload` and `BuildsQueueInOrder` are what the lock is
for. `StaleUnlessMarkLost`: no healthy service admits the wrong peers with nothing left that
would rebuild it (`StaleIsNoticed`); it relates the payload, `access`, the epoch, the minute job and
every request in progress. Excepted is the time from a charge that failed before the mark of another
account's end to the next epoch (section 6). `FaultsEndInStep`: with a node that fails, dies and loses answers, when
nothing is left to do the node runs what the database says, unless the last task it applied
was one handed out before. `NeverOlder`: only a redelivered task takes a node back to an
older revision. `Converges`, `ChangesComeToRest`: liveness.

Access. `AccessIsCovered`, `CacheFollowsGrants`: the cached answer outlives none of the grants
it was computed from, and the minute job repairs it in both directions. `EveryByteIsBilled`: a
report that is spread over several grants loses nothing. `TunnelsWithinLimit`: the devices that
some node still lets through are no more than the account may have, although slots are
given on before the old node knows. `AddressHeldOnce`: two peers of a node never hold one
address. `ReadyIsBound`: an app is told "ready" only about its own key. `AddressIsItsOwn`,
`ServedIsApplied`, `WithdrawnLeaves`: the same questions for subscriptions and node configs.

Agents. `SleepersAreWoken`: an Agent that waits while a task or a port check waits for it has
a wake-up on its way. `StatusMatchesSwitch`: a report of a task from before a switch does not
overwrite what the switch wrote. `ClosedMeansBlocked`: a port shown as closed was measured by
this check. `RightMachine`: an install works on the machine that its row is bound to.
`SuccessIsHeard`: success was heard from the new Agent with the new token, unless a heartbeat whose
old token had been checked was still on its way when the new one was registered (section 6).

People. `SignedOut`: after a reset or suspension is through, no session opened with what it
replaced is left (the module says which races of the code are excepted). `OneUse`: of all links
made for one password at most one is used. `BanIsEarned`: enough failures of one window stand
behind each ban. `ServesWhatItRecorded`: what is downloaded is what the row records. `MinimumIsOffered`:
a minimum build is met by what the apps of one architecture are offered (of the others, section 6).

Shared rows and memory. `OneServer` (racing builds use one set of keys), `OneOfEach`, `BundlesReadable`, `OnceInOrder`,
`CountedOnce`, `TakesTurns` (a refinement), `RolloutsEnd`; and at the edges `UpgradesAreSafe`,
`ComesBack`, `SettingsHold`, `WhatIsShownIsTrue`, `EveryoneIsTold`, `ShowsTheServer`,
`PlacedWhereServed`. A property of a root module that is a conjunction has a conjunct for
each part; the comments at the conjuncts' definitions, in the modules, explain them.

Some modules define more properties than the runs check, among them some that the code does
not have (section 6); their comments say so.

## 5. Runs

| Run | Instance | Distinct states | Shows |
|---|---|---|---|
| `control` | scenes `requests` (1 node, 2 requests, 3 events), `nodes` (2 nodes, 1 event), `faults` (3 events) | 895 369 | lock, epochs and queue under torn writes, failed jobs, restarts, lost answers and a failing Agent |
| `live` | scenes `live` (2 requests, 2 events), `operations` (new node, 2 events) | 191 382 | convergence and rest |
| `access_and_agents` | 1 account, 3 grants, 4 units of time; 2 pulls, 2 tasks, 2 checks; 2 rows and 2 machines | 1 948 856 | cache and charge under every order of grants, switches, revocations, traffic and failed jobs; the long poll; the remote operations |
| `leases` | 2 devices, 2 nodes, 2 keys, 2 requests, limit 1 | 848 180 | slots, addresses and "ready" against what the nodes still let through |
| `people` | 2 requests, limits of 2; 2 builds of 2 architectures, 2 requests | 1 122 527 | sign-out, links, bans; downloads and the minimum build |
| `credentials` | 2 credentials, 1 address, 2 requests | 832 411 | a full pool, subscriptions and withdrawals |
| `store` | 8 parts | 636 401 | what is shared through PostgreSQL and the lock map |
| `surfaces` | 9 parts | 597 523 | what people and Agents see |
| `retry_after_newer` | violation | | a failed task retried after a newer one is applied last |
| `deploy_hides` | violation | | an access change during a deployment is marked as done |
| `overlapping_grants` | violation | | revoking a grant makes paid days run at the same time |
| `pool_locks` | violation | | as many builds as connections hold the whole pool, and nobody goes on |

Bounds. One peer tells "admitted" from "not admitted" and an old payload from a new one; a
change and its reversal need two events, an overlap with a third party the third. Two requests
overlap in every pair of steps; a third would only wait behind the second. Two attempts
(`MaxAttempts`; five in the code) give a first delivery, a redelivery and a task left alone.
Two nodes show what the shared epoch and the `node_id` condition of a pull are for; the
properties of that scene look at the first, and the two are alike. Three calls with one key are one that works, one that
waits and one that comes; the fourth shows that keys are apart. Three grants give one that is
revoked or used up, one behind it and one behind that. Two bytes against quotas of one let a
report fill one grant and overrun the next. `Window = MaxGap`: ten minutes without a run of the
job is the longest pause its query makes up for. One address for two credentials is a full
pool; a limit of one for two devices is a full account. Three connections (`PoolMax`; ten by default in
the code) for two statements and three builders: there are as many builders as connections, as
there may be in the code, which does not bound them; `pool_locks` shows that they can lock up the
pool, and `OneServer` is checked on the same instance. Symmetry (requests, devices, nodes, keys) is used only in runs without liveness.

Choices that narrow a part, each the constant of that name: `SwitchBreaks = FALSE` (an Agent does
not restart between the test of a domain and the write of `config.env`), `LookupFails = FALSE` (no
name lookup of a port check fails), `PrintsLate = FALSE` (a remote command is silent after it was
given up), `Patient = TRUE` (a reader waits for a page before turning on),
`RebootsMidUpgrade = FALSE` (the machine does not reboot while the rollback timer runs). With the
other value the property of the part fails; what happens then is in section 6.

Deadlock is checked in the runs of `Reconcile`. The other parts are bounded
bursts of work that come to an end.

## 6. Findings

The violation runs are disagreements with a comment or document, quoted in `PROJECT.json`.
The following were found with the same models, by another value of a constant or by checking a
property that the module states and no run claims.

Control loop (one node, `Env` from `MCReconcile`):

| `Env` | Property | What happens |
|---|---|---|
| `OldTaskHeals` | `RestoredWhenCurrent` | the success of an older task turns an attention service healthy (`control-db.ts:770`, against the comment at `vpn-services.ts:48`) |
| `DisableComesBack` | `QuietMeansInStep` | a Disable taken by an Agent that died is handed out again after the service was enabled; the node goes off, the status stays healthy |
| `RestartRaces`, two requests, `RestartApplies` | `QuietMeansInStep` | the restart payload is read outside the lock (`vpn-services.ts:102`), a build in between is undone |
| `DisableRaces`, two requests | `QuietMeansInStep` | a build past the enabled check enqueues its Apply after the Disable (`vpn-services.ts:114`) |
| `EnqueueThrowsOnce` | `QuietMeansInStep` | the revision is stored and its task is not (`control-plane.ts:152`); later builds see no change |
| `console`, `boundary`, `applyFail`, `lost`, `slow` | `QuietUnlessRedelivered` | the report of an older task outlives the Agent's timeout and is served after the newer task failed for good; its success makes the service healthy (`control-db.ts:770`) |
| `console`, `restart`, `tornWrite` | `QuietUnlessRedelivered` | as in `EnqueueThrowsOnce`, by a restart between the revision and its task |
| `quota`, `chargeFail` | `StaleIsNoticed` | the charge of one account ends its access and commits; the charge of the next one throws before `markAccessChanged` (`traffic.ts:195`), and no node becomes due. The account stays admitted until the next epoch or the safety interval; `StaleUnlessMarkLost`, `FaultsEndInStep` and `QuietUnlessRedelivered` except this (`MarkLost`) |
| `OperatorRebuildFails` | `StaleIsNoticed` | a swallowed rebuild error (`control-plane.ts:382`) does not make the node due; the safety interval repairs it |
| `UnlistedChange` | `StaleIsNoticed` | `reconcileUserAccess` rebuilds lease and profile nodes only, while app devices are users of every VLESS and stealth node |
| `RestartMidDeploy`, new node | `DeployingHasWork` | a restart between `vpn-services.ts:84` and the first task leaves the service in deploying |
| `RestartAfterFailure`, `RestartApplies = FALSE` | `AcknowledgedIsApplied` | a restart after a failed apply acknowledges the revision that was not applied |

Accounts and access. A registration that stops before its welcome grant keeps the column
defaults and connects without a grant (`register/route.ts:27`, `OnlyGrantsGiveAccess`). A grant
that starts while the Controller is down for more than ten minutes, behind one whose traffic ran
out, stays without effect until the account's next operation (`access-jobs.ts:15`). A sign-in or
a refresh that read the account before a reset inserts its session after the sessions were
deleted. A lost answer to a refresh consumes the token. Leases cut to the account's end can be
cut differently for two requests. Disconnect and then revoke frees a slot before the node's
deadline. `nativeStatus` says "ready" for a moment after access was withdrawn and restored.

Credentials. The revision that included a connection is taken after the build, and a build of
another request in between can make a subscription serve what the node does not have yet
(`ServedIsAlwaysApplied`). An issue in flight while its credential is revoked leaves an active
address row. Two issues for one device at once end in a unique violation, told as "No VPN
addresses available".

Agents and nodes. A retried task wakes nobody (up to 25 s late). An aborted pull still claims
tasks, port check and upgrade. A failed name lookup leaves a port check without an end. A switch
row without its task, after a crash, stays in deploying. An installation
is reported as succeeded when a heartbeat was recorded after the new token was registered
(`bootstrap.ts:377`, `node-join.ts:82`); a heartbeat of the old Agent whose token was checked before,
and which was still counting its traffic (`heartbeat/route.ts:38` to `:46`), passes for it
(`SuccessIsHeard` excepts it: `overlap`). `agent.py:1821` says "A timer restores the previous source
after 90 s unless the new one confirms itself with a successful heartbeat"; but the result of the
restart is ignored (`agent.py:1853`), the old process goes on with its heartbeats, and
`confirm_staged_upgrade` does not look which source runs: when the restart fails or comes late, the
old Agent confirms a source that never ran, and neither marker nor timer is left to bring the old
one back if it does not work. `UpgradesAreSafe` and `ComesBack` except such a source (`unrun`).
The rollback timer is lost at a reboot (`UpgradesAreSafe`, `ComesBack`
fail with `RebootsMidUpgrade`). An Agent that restarts between the test of a domain and the write
of `config.env` can be left behind (`SwitchBreaks`). Nodes added by install command skip the check
for a machine that is already managed. `README.md:363` says that the Controller rejects reused SSH
host keys. It does when a node is added or deployed; but an edit of a node writes back the host key
that it had read before its locks (`app/api/nodes/[id]/route.ts:90`), and an installation the one of
its session, minutes later (`bootstrap.ts:374`). When another row took that key in between, two
rows have it. `OneRowPerMachine` therefore excepts a row whose key was written back (`restored`);
the proof attempt found this.

Shared rows. `pool_locks`: the default pool has ten connections (`db.ts:107`), without a connection
timeout, and nothing bounds the builds that `stealth.ts:56` and `reality.ts` start; `PoolMax` builds at
once, each holding one connection and asking for a second one, wait for ever. Two first
issues of one OpenVPN credential leave two active certificates. A crash between schema and grants
of the baseline loses the grants of old accounts (`OldAccountsKeepWorking`, `migrate.mjs:461`).
Overlapping heartbeats can count bytes of a VLESS restart twice. A crash between the commit of
usage rows and the charge loses the charge. A rollout that was "partly done" can be reopened by
an old page (`ChoiceIsKept`), and a crash leaves it "running".

Edges. After a restart of the Controller a silent node is not listed for three minutes: its row is
deleted, a false recovery mail goes out and the alert fires again (`SentIsRemembered`,
`alerts.ts:9`). One refused address makes the earlier recipients get the same mail each minute.
Two requests can leave no default site (`DefaultStays`) or two sites with one domain
(`DomainsApart`). A page turned before the last one arrived shows lines twice or never
(`Patient = FALSE`). A command that prints after it was given up changes the log of an action
that is over (`PrintsLate`). A URL that names an unknown node leaves the previous detail
(`nodes.tsx:159`). A link shown again after a lost answer is dead (`credential-dashboard.tsx:56`).
A deleted release can leave its files (`NothingStaysBehind`). Two administrators who lower and check the
minimum build at once can leave one above every release that is offered: it is checked only when it is
higher than the one that was read (`client-releases.ts:363`), so `MinimumIsOffered` excepts a minimum written
over releases or an older minimum that had changed since (`outdated`); this too was found by the proof.
"Never strand users" (`client-releases.ts:327`) is kept per platform only: a minimum counts as reached
when a stable build of any architecture reaches it (`client-releases.ts:355`), while an app is offered a
build of its own architecture or a universal one (`shared/client-releases.ts:105`). Apps of an
architecture without a build at the minimum are told to update and offered nothing that would do, and
so are apps whose own architecture has an older build than the universal one, which is not offered to
them. `MinimumIsOffered` therefore asks for one architecture that is served, not for all.
A request for a page of logs that fails leaves the table and its cursor of the page before under the
offset of the new one (`logs.tsx:48`), and the next click asks with that cursor (`shared.tsx:229`): the
same page stands twice and the rows are numbered wrongly, for a patient reader too; and when Loki does
not answer, a page is empty and ends the list. `EveryLineOnce` speaks of pages whose last request was
answered (`failed`).

## 7. Fairness and proofs

### Fairness

`Reconcile`, `ControllerFairness`: the event loop runs every continuation that is ready (weak
fairness per request), timers fire (the minute job and its retries, the safety interval), a
report that arrived is handled. Heartbeats are strongly fair: the Agent sends one every 30 s, but
another request of the same node can keep the handler busy in between. Applying is strongly
fair in `live`: on a node that works, what is tried again and again succeeds. Nothing the
environment does is fair.

`KeyedLock`: every continuation that is ready runs, and the work of a call ends: it is database
statements and key generation. `Rollouts`: the job's loop, the page's refresh and the Agents go
on. `AgentUpgrade`: the timer fires, scripts and Agent go on. `Alerts`: the job runs every minute,
and a send that was tried ends. `Dashboard`: the browser asks again every minute and the server
answers. The other modules state no liveness and assume no fairness. Leads-to with a hypothesis
about the environment is written into the property (`EveryoneIsTold`).

### Proofs

TLC checks instances of a few nodes, requests and devices; the theorems below hold for all
values of the constants that satisfy the assumptions of the modules (which TLC evaluates in
every run). Where a theorem needs more, the extra condition stands in its statement. The
invariants named below are the strengthenings that are inductive, checked with TLC on small
instances before they were proved.

`ReconcileProofs` proves for every `Node`, `Fresh`, `Peer`, `Handler`, `Env`,
`MaxAttempts` and `MaxEvents` that satisfy the assumptions of `Reconcile`:

* `TypeCorrect`: `Spec => []TypeOK`;
* `BuildsExclude`: a request inside a build is the head of its node's queue, so two
  requests never build one node and protocol at the same time;
* `RevisionsAgree`: `Spec => []RevisionNamesOnePayload`;
* `BuildsInOrder`: `Spec => []BuildsQueueInOrder`.

Neither of the last two is inductive: a build carries a revision and a payload it has
read but not stored, or stored but not queued, and only the lock says that nothing
else moves meanwhile. The inductive invariant is

    IInv == TypeOK /\ LockHeld /\ BuildKnows /\ NotAhead /\ OneName /\ BuildsQueueInOrder

`LockHeld`: a request in a build step is the head of the queue of its node and
appears there once. `BuildKnows`: between its read and its write a build holds the
stored revision, and after the write it holds the stored revision and payload.
`NotAhead`: no task, queued or about to be sent, is of a later revision than the one
stored. `OneName`: all these places, the stored row, tasks, builds that wrote,
restarts that read, give one revision one payload. Each action preserves the parts it
can disturb; the throws and the restart only take requests away.

Three theorems about the node build on it:

* `NodesGoForward`: `Spec => NeverOlder`, where no restart of a service is applied like a
  build (`RestartsKeep`; else the payload read outside the lock is the counterexample of
  section 6). A pull takes every pending task, so the tasks never taken are the youngest
  (`TakenInOrder`), and what a node applies for the first time is not older than what it
  runs (`AgentBehind`).
* `StaleNoticed`: `Spec => []StaleUnlessMarkLost`, with Controller restarts, torn writes, failing
  enqueues, throwing jobs and any number of overlapping heartbeats, under `NoticeAssumed`: no
  node is new, nobody enables or restarts a service, every change names the nodes it is about,
  and no build is given up by a throw. None of it can be spared: `deploy_hides` refutes the
  property with a new node, and any one of `enable`, `restartService`, `unlisted`, `readFail` and
  `opFail` does so beside `console` and `boundary` (a deploying service is passed over, a build
  that was given up is not repeated, a change names no node). The theorem therefore marks
  exactly where the mechanism works. `Noticed` is the
  property without its quantifier over everything in progress: a node whose stored payload is
  not the present access is not marked with the present epoch, or is watched by the minute
  job, by an access change that still has it on its list or by a build that has read what is
  true now. Only a charge that threw before its mark
  (`MarkLost`) takes a node out of this, until the epoch moves on.
  `Seen` says the same of a heartbeat on its way to the mark, `NotAfterEpoch` that no
  mark comes from a later epoch, `Settled` that no service is deploying.

* `NodesCatchUp`: `Spec => []QuietUnlessRedelivered`, with failing tasks, lost answers, crashing
  agents, restarts of the Controller and throwing jobs, under `CatchUpAssumed`: `NoticeAssumed`,
  and no disabling, no throw or restart between a revision and its task, no request that
  outlives the Agent's timeout. With any of these (each beside `console` and `boundary`, the late
  request beside `applyFail` and `lost` too) TLC finds the property false; section 6 tells what
  happens. `HealthyMeans` is the heart: a service called healthy runs the stored revision on its
  node, or something is still open that will bring it there or report that it did not. What was
  called healthy for an older task is so only while the task of the stored revision, which is
  younger, waits or runs (`FirstOut`, `NewerIsOpen`, `HasTask`); a report is true of the node
  until it was served (`Honest`); an acknowledged revision is not ahead of the node, so a heartbeat
  that restores a service is right to (`Acked`, `HeartKnows`). `StaleIsNoticed` then gives that what
  is stored is what the database says.

All three scenes of the run `control` satisfy the conditions of the first two, and its scene of
a node that fails and dies, the one `FaultsEndInStep` is about, that of the third.

`AgentsProofs` proves of `AgentLine`, for any number of pulls, tasks, checks, ports and consoles:

* `WakesReach`: `Spec => []SleepersAreWoken`. The listeners are exactly the pulls that wait
  (`Listening`), and nothing is announced before it is stored (`KnownTasks`).
* `ReportsAgree`: `Spec => []StatusMatchesSwitch`. `Owed`: a status that is wrong, or about to
  be written from a row that was switched since, is not the last word: the switch is still at
  work, or an open task or report of the present position will correct it.
* `ClosedWasClosed` and `ChecksAreSent` (`Spec => []ClosedMeansBlocked`, `[]ChecksEnd`) where
  the node's host name resolves (`LookupFails = FALSE`): a check that has not ended has a
  sender (`Sending`), and a port called closed was blocked at some time (`Measured`).

and of `NodeOperations`, for any nodes, addresses, machines and actions:

* `InstallsWhereBound`: `AgentsSpec => []RightMachine`, and `HeardBeforeSuccess`:
  `AgentsSpec => []SuccessIsHeard`, where `overlap` says that a heartbeat checked before the token was
  registered was on its way. A node has one active action and a live job is its job, unless
  the node was deleted meanwhile (`OneActive`, `JobsOfActions`, `Queued`). A job past the binding
  knows the machine its row is bound to, and no other row has that machine (`JobsKnow`,
  `RowsApart`); what it heard is as new as its own token, because tokens of a node only grow
  (`TokensGrow`).

`NativeAccessProofs` proves for any devices, nodes, keys, addresses, requests, limits and
lengths of leases and sessions:

* `NativeTyped`: the types, and that a lease ends within `Ttl` and not after the account.
* `AddressesApart`: `Spec => []AddressHeldOnce`. No two leases of a node have one address, and
  neither have two peers of one task, one answer or one file (`LeasesApart`, `PayloadsApart`).
* `LimitIsKept`: `Spec => []TunnelsWithinLimit`. Every deadline a node was given, or is about
  to be given, is covered (`AllAccounted`): by a lease its device still has, by the wait for
  the release of its slot, or by the device's word that it is down. With `SlotsKept`, which
  counts slots and configurations, the tunnels are no more than the limit.
* `AccessEndsTunnels`: `Spec => []TunnelsEndWithAccess`, which no run claims: what is admitted
  ends within one lease of the withdrawal (`ShutOut`), except on a node that is cut off.
* `ReadyMeansGiven`: `Spec => []ReadyIsBound`. The revision that a lease waits for gives its key,
  and so does every later one on its way (`Bound`), because one revision means one set of keys
  (`OneByOne`), a connect that was overtaken is known by its deadline (`StampsDiffer`), and
  devices that are admitted stay so while nothing is withdrawn (`StillAllowed`, `NewcomersLast`).

`PeopleProofs` proves of `Accounts`, for any ways to sign in, addresses, requests and lengths of sessions
`AccountTyped`, `OneUseOnly` (`Spec => []OneUse`) and `SignsOutEverywhere` (`Spec => []SignedOut`). A
password that was replaced is not the account's, and was replaced once (`Replaced`). Of a
sign-out that is between two tables, `Remaining` says that the tables behind it hold no session
from before, and `AllOut` that after the last none is left anywhere. The limiter's maps have no
type in these theorems, which do not look at them.

Of `Releases` it proves, for any builds, requests and bounds:

* `DownloadsAreRecorded`: `PeopleSpec => []ServesWhatItRecorded`. `ReleaseInv` speaks of the builds
  that no two requests changed at once: a request that uploads holds the key (`UploadKnows`), one
  that changes knows the row that is there (`ChangeKnows`), and a copy under way is of the installer of
  the row it read, or of a row that is gone, known by its number (`CopyKnows`, `CopyNumbered`).
* `MinimumIsMet`: `PeopleSpec => []MinimumIsOffered`. `MinMet`: a release at or above the minimum is
  offered to everyone of its architecture, or a request that took the last one away will give it back in its check.

`CredentialsProofs` proves for any credentials, addresses, requests and device limits:

* `AddressesAreOwn`: `Spec => []AddressIsItsOwn`, from `Owned`: released rows belong to revoked
  credentials, no credential has two rows, a request between its lookup and its write knows a row
  that is still so, and a usable profile tells an address that its credential holds.
* `ServedAfterApplied`: `Spec => []ServedIsApplied`, from `Owned` and `Served`: the node runs
  revisions in their order (`InOrder`), a working credential is listed under the address its profile
  tells in every revision on its way (`PeersKnown`), the revision that included it and each later
  one list it (`IncludedSince`), and what a download has read of this stays true until it serves
  (`OneDownload`, `ReadersKnow`).

`StoreProofs` proves of `KeyedLock`, for any number of calls and keys, `MutualExclusion`,
`MapIsCleared` and `ImplementsTurns` (`Spec => TakesTurns`). The invariant follows the
two pointers of the chain: an entry of the map names the last call with its key, and
every other unsettled one is ahead of it (`EntriesAreLast`); the promise a call waits
for stands for all it found (`WaitsForAll`); nothing is ahead of a call that works
(`NoneAhead`). A `finally` block that deleted the entry without looking would break the
first, and the proof fails at that step. Of the parts beside it:

* `PoolBlocksOnBuilds`: `StoreSpec => []OnlyBuildsBlock`, for any size of the pool: when nobody can go on,
  `PoolMax` builds are inside their transactions and hold every connection. `pool_locks` shows that this
  happens; the theorem, that no failure, rollback or plain statement does it. Connections are
  conserved (`Conserved`), and a transaction keeps one from BEGIN to its end and no longer (`Borrowed`).
* `OneSetOfKeys`: `StoreSpec => []OneServer`: what the look under the advisory lock told a builder stays true until it
  commits (`Knows`), although the look went through another connection.
* `ChangesTakeEffectOnce`: `StoreSpec => []OnceInOrder`. `Migrated(c)`: only the container that holds
  the advisory lock is between two changes, and it has read the number that is recorded.
* `ListsStayReadable`: `StoreSpec => []BundlesReadable`. The list that a build holds is the newest of
  its kind, which the collection spares (`BuildHolds`); what is stored or queued takes it over
  before the build lets go (`DesiredThere`, `TaskThere`).
* `OneMachineOneIssuer`: `StoreSpec => []OneOfEach`. A request that knows a machine holds the advisory
  lock of its host key from before its look to its write (`HoldsKey`), so what the look cleared is
  still clear (`Clears`), row by row although candidates are locked one at a time; a deployment holds
  its own row all the while (`BindsRow`), an addition has a row of its own (`Adds`). Of certificates,
  all that signs, is signed or is on a node is of the one issuer (`CertInv`).

`EntitlementsProofs` proves for every `Terms`, `Welcome`, `Bytes`, `Env` and every bound:

* `AccessNeedsGrant`: `AccessSpec => []AccessIsCovered`;
* `JobKeepsCache`: `AccessSpec => []CacheFollowsGrants`, where no gap between two runs of the
  minute job is wider than its window (`WindowSuffices`).

Excepted is an account that never had a grant while its registration is not complete
(`OnDefaults`, section 6). Both rest on one invariant, `IInv`: the cache is exactly what
`evaluate` would have said of *today's* grants at some moment, after the job's last run
when `WindowSuffices`. It holds because every change of the grants stores the cache, and
because the job's query leaves an account alone only when no active grant started or
ended meanwhile, in which case `evaluate` says the same (`NothingPassed`). `CoveredUntil`
is the heart of the first theorem: before the end that `evaluate` finds, some live grant
covers each moment (take the latest end that has passed; were it uncovered, it would be an
earlier gap). That the ends of finitely many grants have a maximum is proved by a least
counterexample (`PrefixBounded`), and what a grant has used is left without a type, because
a fold computes it.

`SurfacesProofs` proves, for any values of the constants and with the conditions it states:

* `UpgradesComeBack`: `SurfacesSpec => []UpgradesAreSafe`, where no machine reboots while the rollback timer
  runs, and except for sources that an older process confirmed (`unrun`). `Ways` is the first two conjuncts
  strengthened: while the Agent's file is a source that never reached the Controller, the timer is armed, the lock is free and the Agent runs that file or is about to.
  `Succeeds` follows an action from the end of its script: the node holds the release, or its timer
  has undone the upgrade and nothing is left to start it again. `Locks` and `Told` say who holds the
  lock and what the node may still be told.
* `SettingsStayWhole`: `SurfacesSpec => []SettingsHold`, where no switch of a domain breaks off between its
  test and `config.env`. What Console shows of an Agent is what it runs on, not taken down, and what
  it would start from (`AgentHolds`); of sites, a statement that would set a second
  default fails on the unique index, and the request goes on without it (`OneFlag`).
* `PlacesWhereServed`: `SurfacesSpec => PlacedWhereServed`, an action property without a condition.
  What an Agent says it serves, served when it looked, and what it said is no older than its beat
  (`Grounded`), through every report that is lost, late or overtaken by a stop.
* `PagesShowWhatIs`: `SurfacesSpec => []WhatIsShownIsTrue`, of a reader who waits for a page before turning
  it and commands that are silent after they were given up. `Fits`: an answer has every line of its
  filter between its cursor and the next. `RequestsInv`: the last request is under way at most once and
  is for the page shown. `PageInv`: the pages read go down in time without a gap,
  down to the first page whose last request failed (`failed`). The details of a node
  and the log need no more than their guards and where each writer is (`LogInv`).

The conditions of the four are the disagreements of section 6: with the other value of `RebootsMidUpgrade`,
`SwitchBreaks`, `Patient` or `PrintsLate` TLC finds the property false.

What is only model-checked:

* liveness (`Converges`, `ChangesComeToRest`, `WithdrawnLeaves`, `RolloutsEnd`, `ComesBack`,
  `EveryoneIsTold`, `ShowsTheServer`) and everything that rests on fairness or ENABLED;
* what a fold over the data computes: `EveryByteIsBilled`, `BanIsEarned` and `CountedOnce`. They sum
  over grants, failures or rows, and the induction over the data that this needs is beyond the provers;
* `FaultsEndInStep` by its name: it is a property of one scene of the run `control`. Its content without
  the scene is `QuietUnlessRedelivered`, which `NodesCatchUp` proves.
## 8. Not modelled

Protocol adapters (payload formats without state), the client apps' own connection states (their
calls are the operations of `NativeAccess`), operator scripts (`scripts/backup.sh`,
`one-click-update.sh`), the probing of REALITY targets, X.509 and encryption, host metrics, wording
of mails and pages. Of the daily pruning only what user bundles need is modelled; it deletes tasks
that nothing reads. The editing of plans has no effect on grants, which copy their terms; a
repeated `reference` returns the earlier grant before anything is written.
