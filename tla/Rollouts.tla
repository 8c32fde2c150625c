-------------------------------- MODULE Rollouts --------------------------------
(* Standard policy rollouts (server/deployment-policy.ts): the nodes whose     *)
(* services drifted from the standard set are brought back to it, one after    *)
(* the other, while an administrator switches services, Agents apply or refuse *)
(* what they are sent and nodes come and go.  A rollout counts its targets     *)
(* again whenever Console shows the page, and the next one may only start when *)
(* no other is on its way.                                                     *)
EXTENDS Naturals, FiniteSets

CONSTANTS
    Nodes, Protocols,
    Rollouts,    \* POST /api/deployment-policy, each once
    Custom,      \* nodes an administrator keeps apart from the policy at the start
    MaxEvents    \* bound: switches, outages, lost runtimes and a crash

RolloutAssumption == Custom \subseteq Nodes /\ MaxEvents \in Nat

VARIABLES
    service,   \* vpn_services: [enabled, status] of each node and protocol
    policy,    \* nodes.deployment_policy: "standard" (current version), "old" (an older version) or "custom"
    online,    \* does each node send heartbeats
    runs,      \* the protocols each Agent advertises
    rollout,   \* policy_rollouts: status
    target,    \* policy_rollout_targets: status, "none" without a row
    job,       \* the request that runs each rollout: [at, nodes, node, todo, protocol, errors]
    seen,      \* what a GET that refreshes the rollouts has read
    apart,     \* services switched off by an administrator and not switched on by one since
    events

vars == <<service, policy, online, runs, rollout, target, job, seen, apart, events>>
world == <<service, policy, online, runs, apart, events>>
table == <<rollout, target>>

Off == [at |-> "off", nodes |-> {}, node |-> "none", todo |-> {}, protocol |-> "none", errors |-> 0]
Nothing == [on |-> FALSE]
Goes(r, at) == job' = [job EXCEPT ![r].at = at]
Set(n, p, status) == service' = [service EXCEPT ![n][p].status = status]
Happens == events < MaxEvents /\ events' = events + 1
Underway == {"reconciling", "reconciling_with_errors"}

TypeOK ==
    /\ \A n \in Nodes, p \in Protocols :
          service[n][p].status \in {"pending", "deploying", "healthy", "attention", "unsupported"}
    /\ policy \in [Nodes -> {"standard", "old", "custom"}]
    /\ rollout \in [Rollouts -> {"none", "running", "failed", "completed", "completed_with_errors"} \cup Underway]
    /\ target \in [Rollouts -> [Nodes -> {"none", "running", "queued", "succeeded", "blocked", "failed"}]]
    /\ \A r \in Rollouts : job[r].at \in {"off", "insert", "node", "upsert", "deploy", "close", "over"}

Init ==
    /\ service = [n \in Nodes |-> [p \in Protocols |-> [enabled |-> n \notin Custom, status |-> "pending"]]]
    /\ policy = [n \in Nodes |-> IF n \in Custom THEN "custom" ELSE "old"]
    /\ online = [n \in Nodes |-> TRUE]
    /\ runs = [n \in Nodes |-> Protocols]
    /\ rollout = [r \in Rollouts |-> "none"]
    /\ target = [r \in Rollouts |-> [n \in Nodes |-> "none"]]
    /\ job = [r \in Rollouts |-> Off]
    /\ seen = Nothing
    /\ apart = {<<n, p>> : n \in Custom, p \in Protocols}
    /\ events = 0

Good(s) == s.enabled /\ s.status = "healthy"

-----------------------------------------------------------------------------
(* rolloutStandardPolicy                                                       *)

(* standardPolicyDrift: nodes of the policy with an old version or a service   *)
(* that is not healthy; eligible when online and able to run every protocol.   *)
Eligible == {n \in Nodes :
    /\ policy[n] # "custom"
    /\ policy[n] = "old" \/ \E p \in Protocols : ~Good(service[n][p])
    /\ online[n] /\ runs[n] = Protocols}

Request(r) ==
    /\ job[r] = Off
    /\ \A q \in Rollouts : rollout[q] \notin {"running"} \cup Underway
    /\ \E chosen \in SUBSET Eligible : job' = [job EXCEPT ![r].at = "insert", ![r].nodes = chosen]
    /\ UNCHANGED <<world, table, seen>>

Insert(r) ==
    /\ job[r].at = "insert"
    /\ rollout' = [rollout EXCEPT ![r] = "running"]
    /\ Goes(r, "node")
    /\ UNCHANGED <<world, target, seen>>

NextNode(r) ==
    /\ job[r].at = "node"
    /\ \E n \in job[r].nodes :
          /\ target' = [target EXCEPT ![r][n] = "running"]
          /\ job' = [job EXCEPT ![r] = [at |-> "upsert", nodes |-> @.nodes \ {n}, node |-> n, todo |-> Protocols, protocol |-> "none", errors |-> 0]]
    /\ UNCHANGED <<world, rollout, seen>>

(* The row is read and written back switched on, whoever switched it off.      *)
Upsert(r) ==
    /\ job[r].at = "upsert"
    /\ LET n == job[r].node IN
       \E p \in job[r].todo :
          /\ job' = [job EXCEPT ![r].todo = @ \ {p}, ![r].protocol = p,
                                ![r].at = IF ~Good(service[n][p]) THEN "deploy" ELSE IF job[r].todo = {p} THEN "close" ELSE "upsert"]
          /\ service' = [service EXCEPT ![n][p] = [enabled |-> TRUE, status |-> IF Good(@) THEN "healthy" ELSE "pending"]]
    /\ UNCHANGED <<policy, online, runs, apart, events, table, seen>>

(* "deploying" and a task; or the Agent has no runtime; or the build throws.    *)
(* The status is written over whatever a heartbeat or a switch put there.      *)
Deploy(r) ==
    /\ job[r].at = "deploy"
    /\ LET n == job[r].node
           p == job[r].protocol IN
       \E thrown \in BOOLEAN :
          /\ Set(n, p, IF p \notin runs[n] THEN "unsupported" ELSE IF thrown THEN "attention" ELSE "deploying")
          /\ job' = [job EXCEPT ![r].at = IF job[r].todo = {} THEN "close" ELSE "upsert",
                                ![r].errors = IF p \in runs[n] /\ thrown THEN @ + 1 ELSE @]
    /\ UNCHANGED <<policy, online, runs, apart, events, table, seen>>

CloseNode(r) ==
    /\ job[r].at = "close"
    /\ LET n == job[r].node
           failed == job[r].errors >= Cardinality(Protocols)
       IN /\ target' = [target EXCEPT ![r][n] = IF failed THEN "failed" ELSE "queued"]
          /\ policy' = IF failed THEN policy ELSE [policy EXCEPT ![n] = "standard"]
    /\ Goes(r, "node")
    /\ UNCHANGED <<service, online, runs, apart, events, rollout, seen>>

Close(r) ==
    /\ job[r].at = "node" /\ job[r].nodes = {}
    /\ LET queued == \E n \in Nodes : target[r][n] \in {"queued", "succeeded", "blocked"}
           failed == \E n \in Nodes : target[r][n] = "failed"
       IN rollout' = [rollout EXCEPT ![r] = IF queued THEN IF failed THEN "reconciling_with_errors" ELSE "reconciling"
                                            ELSE IF failed THEN "failed" ELSE "completed"]
    /\ Goes(r, "over")
    /\ UNCHANGED <<world, target, seen>>

-----------------------------------------------------------------------------
(* refreshPolicyRollouts: Console reads the page; the rollouts on their way    *)
(* are read first, then services and nodes, then each target is counted.       *)

(* A slip: rollouts with errors are not looked at again.                       *)
WithoutErrors == [on |-> TRUE, rollouts |-> {r \in Rollouts : rollout[r] = "reconciling"}, service |-> service, online |-> online]

Page == [on |-> TRUE, rollouts |-> {r \in Rollouts : rollout[r] \in Underway}, service |-> service, online |-> online]

Show ==
    /\ ~seen.on /\ \E r \in Rollouts : rollout[r] \in Underway
    /\ seen' = Page
    /\ UNCHANGED <<world, table, job>>

Counted(r, n) ==
    LET s == seen.service[n]
    IN CASE target[r][n] \in {"none", "failed"} -> target[r][n]
         [] target[r][n] \notin {"none", "failed"} /\ ~seen.online[n] -> "blocked"
         [] OTHER -> IF \A p \in Protocols : Good(s[p]) THEN "succeeded"
                     ELSE IF \E p \in Protocols : s[p].status \in {"attention", "unsupported"} THEN "blocked" ELSE "queued"

Refresh ==
    /\ seen.on
    /\ target' = [r \in Rollouts |-> IF r \in seen.rollouts THEN [n \in Nodes |-> Counted(r, n)] ELSE target[r]]
    /\ rollout' = [r \in Rollouts |->
          IF r \notin seen.rollouts THEN rollout[r]
          ELSE LET is == {Counted(r, n) : n \in Nodes}
               IN IF "queued" \notin is THEN IF is \cap {"blocked", "failed"} # {} THEN "completed_with_errors" ELSE "completed"
                  ELSE IF "failed" \in is THEN "reconciling_with_errors" ELSE "reconciling"]
    /\ seen' = Nothing
    /\ UNCHANGED <<world, job>>

-----------------------------------------------------------------------------
(* The Agent's side: heartbeats move services that wait, tasks end.            *)

Finishes(n, p) ==
    /\ service[n][p].status = "deploying" /\ service[n][p].enabled
    /\ \E result \in {"healthy", "attention"} : Set(n, p, result)
    /\ UNCHANGED <<policy, online, runs, apart, events, table, job, seen>>

Heartbeat(n, p) ==
    /\ online[n] /\ service[n][p].enabled
    /\ \/ service[n][p].status \in {"pending", "unsupported"} /\ p \in runs[n] /\ Set(n, p, "deploying")
       \/ service[n][p].status = "pending" /\ p \notin runs[n] /\ Set(n, p, "unsupported")
    /\ UNCHANGED <<policy, online, runs, apart, events, table, job, seen>>

Recovers(n, p) ==
    /\ service[n][p] = [enabled |-> TRUE, status |-> "attention"] /\ Happens
    /\ Set(n, p, "healthy")
    /\ UNCHANGED <<policy, online, runs, apart, table, job, seen>>

Outage(n) ==
    /\ Happens
    /\ \/ online' = [online EXCEPT ![n] = ~@] /\ runs' = runs
       \/ \E p \in Protocols : runs' = [runs EXCEPT ![n] = IF p \in @ THEN @ \ {p} ELSE @ \cup {p}] /\ online' = online
    /\ UNCHANGED <<service, policy, apart, table, job, seen>>

(* An administrator switches a service off, which takes the node out of the    *)
(* policy, or on.                                                              *)
SwitchOff(n, p) ==
    /\ service[n][p].enabled /\ Happens
    /\ service' = [service EXCEPT ![n][p] = [enabled |-> FALSE, status |-> "deploying"]]
    /\ policy' = [policy EXCEPT ![n] = "custom"]
    /\ apart' = apart \cup {<<n, p>>}
    /\ UNCHANGED <<online, runs, table, job, seen>>

SwitchOn(n, p) ==
    /\ ~service[n][p].enabled /\ Happens
    /\ service' = [service EXCEPT ![n][p] = [enabled |-> TRUE, status |-> "deploying"]]
    /\ policy' = [policy EXCEPT ![n] = IF \A q \in Protocols : q = p \/ service[n][q].enabled THEN "standard" ELSE "custom"]
    /\ apart' = apart \ {<<n, p>>}
    /\ UNCHANGED <<online, runs, table, job, seen>>

(* The Controller stops: nothing takes up a rollout it was running.            *)
Crash ==
    /\ Happens /\ \E r \in Rollouts : job[r].at \notin {"off", "over"}
    /\ job' = [r \in Rollouts |-> IF job[r].at = "off" THEN Off ELSE [Off EXCEPT !.at = "over"]]
    /\ seen' = Nothing
    /\ UNCHANGED <<service, policy, online, runs, apart, table>>

JobStep(r) ==
    Insert(r) \/ NextNode(r) \/ Upsert(r) \/ Deploy(r) \/ CloseNode(r) \/ Close(r)
AgentStep(n, p) == Finishes(n, p) \/ Heartbeat(n, p)

Next ==
    \/ \E r \in Rollouts : Request(r) \/ JobStep(r)
    \/ Show \/ Refresh \/ Crash
    \/ \E n \in Nodes, p \in Protocols : AgentStep(n, p) \/ Recovers(n, p) \/ SwitchOff(n, p) \/ SwitchOn(n, p)
    \/ \E n \in Nodes : Outage(n)

(* Requests run on, an administrator keeps the page open, tasks end.           *)
Fairness ==
    /\ \A r \in Rollouts : WF_vars(JobStep(r))
    /\ WF_vars(Show \/ Refresh)
    /\ \A n \in Nodes, p \in Protocols : WF_vars(AgentStep(n, p))

Spec == Init /\ [][Next]_vars /\ Fairness

-----------------------------------------------------------------------------
(* Only two things keep a rollout from ending, and every later one from        *)
(* starting: the Controller stopped while it ran, or an administrator switched *)
(* off a service of one of its targets.  Failed builds, refused tasks, lost    *)
(* runtimes and nodes that go away all lead to an end.                         *)
Abandoned(r) == rollout[r] = "running" /\ job[r].at = "over"
Held(r) == rollout[r] \in Underway
           /\ \E n \in Nodes, p \in Protocols : target[r][n] = "queued" /\ ~service[n][p].enabled
AllEnded == \A r \in Rollouts : rollout[r] \in {"running"} \cup Underway => Abandoned(r) \/ Held(r)
RolloutsEnd == []<>AllEnded

(* An administrator's switch takes the node out of the policy "so that a later *)
(* rollout does not override the explicit choice"                              *)
(* (docs/architecture/08-decision-log.md): what was switched off stays off     *)
(* until an administrator switches it on.                                      *)
ChoiceIsKept == \A c \in apart : ~service[c[1]][c[2]].enabled
=================================================================================
