----------------------------- MODULE Reconcile -----------------------------
(***************************************************************************)
(* How the Controller keeps every node's Agent in step with who may        *)
(* connect: desired-state builds under the per-node reconcile lock, the    *)
(* reconcile_tasks queue the Agents pull, their reports, the heartbeat     *)
(* that rebuilds what is due, the minute job, and the console handlers.    *)
(*                                                                         *)
(* One protocol is modelled; its service, desired configuration, task      *)
(* queue and lock are per node, as the (node_id, protocol) keys are.  A    *)
(* payload is the set of peers (or users) it admits.                       *)
(***************************************************************************)
EXTENDS Naturals, Sequences, FiniteSets, FiniteSetsExt

CONSTANTS
  Node,            \* nodes that run an Agent
  Fresh,           \* nodes whose service was never deployed yet
  Peer,            \* devices and users that may be admitted
  Handler,         \* requests the Controller serves at the same time
  RestartApplies,  \* TRUE for VLESS and stealth: Restart* is handled by the apply function
  MaxAttempts,     \* attempts after which a failed task is left alone (5 in the code)
  Env,             \* which things the environment may do (names below)
  MaxEvents        \* how many of them happen in one behaviour (bound of the model)

EnvEvents == { "boundary", "quota", "chargeFail", "console", "unlisted", "enable", "restartService", "disable",
               "unadvertised", "interval", "readFail", "opFail", "enableFail", "enqueueFail",
               "jobFail", "applyFail", "lost", "slow", "agentCrash", "restart", "tornWrite" }

ASSUME NodeAssumption == Node # {} /\ Fresh \subseteq Node /\ IsFiniteSet(Node)
ASSUME BoundAssumption == MaxAttempts \in Nat \ {0} /\ MaxEvents \in Nat
ASSUME EnvAssumption == Env \subseteq EnvEvents /\ RestartApplies \in BOOLEAN

VARIABLES
  access,      \* listActivePeers: whom the database admits on each node right now
  boundary,    \* a time boundary passed that the minute job has not looked at
  minute,      \* the minute job: "idle", or "passed" between its query and its mark
  charge,      \* traffic.ts: heartbeats that owe a mark, and the epoch in which one lost its mark
  epoch,       \* reconcile-schedule.ts: epoch
  reconciled,  \* reconcile-schedule.ts: the epoch of the node's last rebuild, 0 when absent
  service,     \* vpn_services: enabled and status
  advertised,  \* the Agent advertises the protocol's runtime in its heartbeat
  desired,     \* desired_configs: revision (0 = no row) and payload
  tasks,       \* reconcile_tasks in created_at order
  observed,    \* observed_configs: revision acknowledged and observed status
  queue,       \* reconcile-lock.ts: handlers in the promise chain, the head runs
  call,        \* the requests in progress
  agent,       \* the node: what it runs, and the pulled tasks not yet applied
  results,     \* reconcile-result requests the Controller is serving
  events       \* environment events so far (bound of the model)

controllerMemory == <<minute, charge, epoch, reconciled, queue, call, results>>
database == <<service, desired, tasks, observed>>
vars == <<access, boundary, advertised, agent, events, controllerMemory, database>>

ServiceStatus == {"pending", "deploying", "healthy", "attention", "unsupported", "disabled"}
TaskStatus == {"pending", "running", "succeeded", "failed"}
TaskKind == {"Apply", "Restart", "Disable"}
Job == {"heartbeat", "access", "enable", "disable", "restart"}

TaskRow == [node : Node, kind : TaskKind, rev : Nat, peers : SUBSET Peer, status : TaskStatus, attempts : Nat]

ServiceRow == [enabled : BOOLEAN, status : ServiceStatus]
AgentRow == [on : BOOLEAN, rev : Nat, peers : SUBSET Peer, redelivered : BOOLEAN, batch : SUBSET Nat]
ReportRow == [task : Nat, ok : BOOLEAN, phase : {"task", "service", "observed"}]

(* A request: what it is for, and the local variables that live across its awaits. *)
Call == [pc : {"idle", "queued", "read", "wrote", "back", "restore", "send"}, job : Job, node : Node,
         due : Nat, was : ServiceStatus, live : BOOLEAN, force : BOOLEAN,
         peers : SUBSET Peer, rev : Nat, changed : BOOLEAN, todo : SUBSET Node, ok : BOOLEAN]

Idle == [pc |-> "idle", job |-> "heartbeat", node |-> CHOOSE n \in Node : TRUE, due |-> 0, was |-> "healthy",
         live |-> FALSE, force |-> FALSE, peers |-> {}, rev |-> 0, changed |-> FALSE,
         todo |-> {}, ok |-> TRUE]

-----------------------------------------------------------------------------
(* Reading the state. *)

Busy(h) == call[h].pc # "idle"
InBuild(h) == call[h].pc \in {"queued", "read", "wrote"}
(* A slip in withKeyedLock: `work` starts without waiting for the previous promise. *)
HoldsLockAnyTurn(h, n) == \E i \in DOMAIN queue[n] : queue[n][i] = h
HoldsLock(h, n) == queue[n] # <<>> /\ Head(queue[n]) = h
Due(n) == IF reconciled[n] = epoch THEN 0 ELSE epoch
TasksOf(n) == {i \in DOMAIN tasks : tasks[i].node = n}
InHand(i) == i \in agent[tasks[i].node].batch \/ \E r \in results : r.task = i
Retryable(i) == tasks[i].status = "failed" /\ tasks[i].attempts < MaxAttempts
Unfinished(i) == tasks[i].status \in {"pending", "running"} \/ Retryable(i)

(* The Agent's main loop does one thing at a time and waits for each answer; only a       *)
(* request that outlives the Agent's timeout ("slow") overlaps with what it does next.    *)
MainLoopFree(n) ==
  \/ "slow" \in Env
  \/ /\ \A r \in results : tasks[r.task].node # n
     /\ \A h \in Handler : Busy(h) => ~(call[h].job = "heartbeat" /\ call[h].node = n)

Happens(e) == e \in Env /\ events < MaxEvents /\ events' = events + 1

SetStatus(n, s) == service' = [service EXCEPT ![n].status = s]
(* Slips in markNodeReconciled: the epoch of the end of the rebuild, or one too low. *)
MarkCurrentEpoch(n, due) == IF due = 0 THEN UNCHANGED reconciled
                            ELSE reconciled' = [reconciled EXCEPT ![n] = epoch]
MarkEarlierEpoch(n, due) == IF due = 0 THEN UNCHANGED reconciled
                            ELSE reconciled' = [reconciled EXCEPT ![n] = due - 1]
MarkNodeReconciled(n, due) == IF due = 0 THEN UNCHANGED reconciled
                              ELSE reconciled' = [reconciled EXCEPT ![n] = due]

-----------------------------------------------------------------------------
Init ==
  /\ access \in [Node -> SUBSET Peer]
  /\ boundary = FALSE /\ minute = "idle" /\ epoch = 1 /\ events = 0
  /\ charge = [owed |-> 0, lost |-> 0]
  /\ reconciled = [n \in Node |-> IF n \in Fresh THEN 0 ELSE 1]
  /\ service = [n \in Node |-> [enabled |-> TRUE, status |-> IF n \in Fresh THEN "pending" ELSE "healthy"]]
  /\ advertised = [n \in Node |-> TRUE]
  /\ desired = [n \in Node |-> IF n \in Fresh THEN [rev |-> 0, peers |-> {}] ELSE [rev |-> 1, peers |-> access[n]]]
  /\ tasks = <<>>
  /\ observed = [n \in Node |-> IF n \in Fresh THEN [rev |-> 0, status |-> "none"] ELSE [rev |-> 1, status |-> "applied"]]
  /\ queue = [n \in Node |-> <<>>]
  /\ call = [h \in Handler |-> Idle]
  /\ agent = [n \in Node |-> [on |-> n \notin Fresh, rev |-> desired[n].rev, peers |-> desired[n].peers,
                              redelivered |-> FALSE, batch |-> {}]]
  /\ results = {}

-----------------------------------------------------------------------------
(* What changes who may connect, and the minute job (jobs.ts, traffic.ts). *)

AccessBoundary ==
  /\ Happens("boundary")
  /\ access' \in [Node -> SUBSET Peer] \ {access}
  /\ boundary' = TRUE
  /\ UNCHANGED <<advertised, agent, controllerMemory, database>>

(* recordTrafficSnapshots with chargeTraffic: each account is charged in a transaction of its own;  *)
(* the mark for those that ran out comes after the last of them, and is lost when a later one fails. *)
QuotaEnds ==
  /\ Happens("quota")
  /\ \E p \in Peer : access' = [n \in Node |-> access[n] \ {p}] /\ access' # access
  /\ charge' = [charge EXCEPT !.owed = @ + 1]
  /\ UNCHANGED <<boundary, minute, epoch, reconciled, queue, call, results, advertised, agent, database>>

QuotaMark ==
  /\ charge.owed > 0
  /\ charge' = [charge EXCEPT !.owed = @ - 1]
  /\ epoch' = epoch + 1
  /\ UNCHANGED <<access, boundary, advertised, agent, events, minute, reconciled, queue, call, results, database>>

ChargeThrows ==
  /\ charge.owed > 0 /\ Happens("chargeFail")
  /\ charge' = [owed |-> charge.owed - 1, lost |-> epoch]
  /\ UNCHANGED <<access, boundary, advertised, agent, minute, epoch, reconciled, queue, call, results, database>>

MinuteStart ==
  /\ minute = "idle" /\ boundary
  /\ minute' = "passed" /\ boundary' = FALSE
  /\ UNCHANGED <<access, advertised, agent, events, charge, epoch, reconciled, queue, call, results, database>>

MinuteMark ==
  /\ minute = "passed"
  /\ minute' = "idle" /\ epoch' = epoch + 1
  /\ UNCHANGED <<access, boundary, advertised, agent, events, charge, reconciled, queue, call, results, database>>

MinuteAbort ==
  /\ minute = "passed" /\ Happens("jobFail")
  /\ minute' = "idle" /\ boundary' = TRUE
  /\ UNCHANGED <<access, advertised, agent, charge, epoch, reconciled, queue, call, results, database>>

(* A slip in nodeReconcileDue: the age of the last rebuild is never looked at. *)
SafetyIntervalIgnored(n) == "interval" \in Env /\ reconciled[n] # epoch /\ UNCHANGED vars

SafetyInterval(n) ==
  /\ "interval" \in Env
  /\ reconciled[n] = epoch
  /\ reconciled' = [reconciled EXCEPT ![n] = 0]
  /\ UNCHANGED <<access, boundary, advertised, agent, events, minute, charge, epoch, queue, call, results, database>>

RetryStale(i) ==
  /\ tasks[i].status = "running"
  /\ IF InHand(i) THEN Happens("slow") ELSE UNCHANGED events
  /\ tasks' = [tasks EXCEPT ![i].status = "pending"]
  /\ UNCHANGED <<access, boundary, advertised, agent, controllerMemory, service, desired, observed>>

RetryFailed(i) ==
  /\ Retryable(i)
  /\ tasks' = [tasks EXCEPT ![i].status = "pending"]
  /\ UNCHANGED <<access, boundary, advertised, agent, events, controllerMemory, service, desired, observed>>

-----------------------------------------------------------------------------
(* withReconcileLock and buildDesiredStateLocked: one action between two awaits. *)

(* A slip in the callers: a first deployment or redeployment without `force`. *)
EnterLockUnforced(h, n, request) ==
  /\ queue' = [queue EXCEPT ![n] = Append(@, h)]
  /\ call' = [call EXCEPT ![h] = [request EXCEPT !.pc = "queued", !.node = n, !.force = FALSE]]

EnterLock(h, n, request) ==
  /\ queue' = [queue EXCEPT ![n] = Append(@, h)]
  /\ call' = [call EXCEPT ![h] = [request EXCEPT !.pc = "queued", !.node = n]]

LeaveLock(h, ok) ==
  /\ queue' = [queue EXCEPT ![call[h].node] = Tail(@)]
  /\ call' = [call EXCEPT ![h].pc = "back", ![h].ok = ok]

Enqueue(task) == tasks' = Append(tasks, task)

Task(kind, n, rev, peers) ==
  [node |-> n, kind |-> kind, rev |-> rev, peers |-> peers, status |-> "pending", attempts |-> 0]

(* Reads the service row, the peers and the stored configuration. *)
BuildRead(h) ==
  LET n == call[h].node IN
  /\ call[h].pc = "queued" /\ HoldsLock(h, n)
  /\ service[n].enabled
  /\ call' = [call EXCEPT ![h].pc = "read", ![h].peers = access[n], ![h].rev = desired[n].rev,
                          ![h].changed = (desired[n].rev = 0 \/ desired[n].peers # access[n])]
  /\ UNCHANGED <<access, boundary, advertised, agent, events, minute, charge, epoch, reconciled, queue, results, database>>

BuildRefused(h) ==
  /\ call[h].pc = "queued" /\ HoldsLock(h, call[h].node)
  /\ ~service[call[h].node].enabled
  /\ LeaveLock(h, FALSE)
  /\ UNCHANGED <<access, boundary, advertised, agent, events, minute, charge, epoch, reconciled, results, database>>

BuildThrows(h) ==
  /\ call[h].pc \in {"queued", "read"} /\ HoldsLock(h, call[h].node)
  /\ Happens(CASE call[h].job = "heartbeat" -> "readFail" [] call[h].job = "access" -> "opFail" [] OTHER -> "enableFail")
  /\ LeaveLock(h, FALSE)
  /\ UNCHANGED <<access, boundary, advertised, agent, minute, charge, epoch, reconciled, results, database>>

(* A slip in upsertDesiredConfig: a changed payload is stored without a new revision. *)
BuildWriteSameRevision(h) ==
  LET n == call[h].node IN
  /\ call[h].pc = "read"
  /\ \/ /\ call[h].changed \/ call[h].force
        /\ desired' = [desired EXCEPT ![n] = [rev |-> Max({call[h].rev, 1}), peers |-> call[h].peers]]
        /\ epoch' = IF call[h].changed THEN epoch + 1 ELSE epoch
        /\ call' = [call EXCEPT ![h].pc = "wrote"]
        /\ UNCHANGED queue
     \/ /\ ~call[h].changed /\ ~call[h].force
        /\ LeaveLock(h, TRUE)
        /\ UNCHANGED <<desired, epoch>>
  /\ UNCHANGED <<access, boundary, advertised, agent, events, minute, charge, reconciled, results, service, tasks, observed>>

(* Writes the revision that follows the one read above; no work for an unforced rebuild without a change. *)
BuildWrite(h) ==
  LET n == call[h].node IN
  /\ call[h].pc = "read"
  /\ \/ /\ call[h].changed
        /\ desired' = [desired EXCEPT ![n] = [rev |-> call[h].rev + 1, peers |-> call[h].peers]]
        /\ epoch' = epoch + 1
        /\ call' = [call EXCEPT ![h].pc = "wrote", ![h].rev = @ + 1]
        /\ UNCHANGED queue
     \/ /\ ~call[h].changed /\ call[h].force
        /\ call' = [call EXCEPT ![h].pc = "wrote"]
        /\ UNCHANGED <<desired, epoch, queue>>
     \/ /\ ~call[h].changed /\ ~call[h].force
        /\ LeaveLock(h, TRUE)
        /\ UNCHANGED <<desired, epoch>>
  /\ UNCHANGED <<access, boundary, advertised, agent, events, minute, charge, reconciled, results, service, tasks, observed>>

BuildEnqueue(h) ==
  /\ call[h].pc = "wrote"
  /\ Enqueue(Task("Apply", call[h].node, call[h].rev, call[h].peers))
  /\ LeaveLock(h, TRUE)
  /\ UNCHANGED <<access, boundary, advertised, agent, events, minute, charge, epoch, reconciled, results, service, desired, observed>>

EnqueueThrows(h) ==
  /\ call[h].pc = "wrote" /\ Happens("enqueueFail")
  /\ LeaveLock(h, FALSE)
  /\ UNCHANGED <<access, boundary, advertised, agent, minute, charge, epoch, reconciled, results, database>>

-----------------------------------------------------------------------------
(* The heartbeat route with reconcileEnabledVpnServices. *)

Heartbeat(h, n) == ~Busy(h) /\ MainLoopFree(n)

HeartbeatRebuild(h, n) ==
  /\ Heartbeat(h, n)
  /\ service[n].enabled
  /\ service[n].status = "attention" \/ (service[n].status = "healthy" /\ Due(n) # 0)
  /\ EnterLock(h, n, [Idle EXCEPT !.due = Due(n), !.was = service[n].status, !.live = agent[n].on])
  /\ UNCHANGED <<access, boundary, advertised, agent, events, minute, charge, epoch, reconciled, results, database>>

(* A slip: an unsupported service is not looked at again. *)
DeployableOnce == {"pending", "disabled"}
Deployable == {"pending", "unsupported", "disabled"}

HeartbeatDeploy(h, n) ==
  /\ Heartbeat(h, n)
  /\ service[n].enabled /\ service[n].status \in Deployable
  /\ advertised[n]
  /\ SetStatus(n, "deploying")
  /\ EnterLock(h, n, [Idle EXCEPT !.due = Due(n), !.was = service[n].status, !.live = agent[n].on, !.force = TRUE])
  /\ UNCHANGED <<access, boundary, advertised, agent, events, minute, charge, epoch, reconciled, results, desired, tasks, observed>>

HeartbeatUnsupported(h, n) ==
  /\ Heartbeat(h, n)
  /\ service[n].enabled /\ service[n].status \in {"pending", "disabled"}
  /\ ~advertised[n]
  /\ SetStatus(n, "unsupported")
  /\ MarkNodeReconciled(n, Due(n))
  /\ UNCHANGED <<access, boundary, advertised, agent, events, minute, charge, epoch, queue, call, results, desired, tasks, observed>>

(* Nothing to rebuild (disabled, deploying, still unsupported): the node is marked all the same. *)
HeartbeatSkip(h, n) ==
  /\ Heartbeat(h, n)
  /\ Due(n) # 0
  /\ \/ ~service[n].enabled
     \/ service[n].status = "deploying"
     \/ service[n].status = "unsupported" /\ ~advertised[n]
  /\ MarkNodeReconciled(n, Due(n))
  /\ UNCHANGED <<access, boundary, advertised, agent, events, minute, charge, epoch, queue, call, results, database>>

(* Nothing is due: the heartbeat leaves all of this alone. *)
HeartbeatIdle(h, n) ==
  /\ Heartbeat(h, n)
  /\ Due(n) = 0
  /\ service[n].enabled => service[n].status \in {"healthy", "deploying"} \/ (service[n].status = "unsupported" /\ ~advertised[n])
  /\ UNCHANGED vars

Acknowledged(n) == desired[n].rev # 0 /\ observed[n] = [rev |-> desired[n].rev, status |-> "applied"]

HeartbeatBuilt(h) ==
  LET n == call[h].node
      restores == call[h].ok /\ call[h].was = "attention" /\ call[h].live /\ Acknowledged(n)
  IN
  /\ call[h].pc = "back" /\ call[h].job = "heartbeat"
  /\ IF call[h].ok THEN UNCHANGED service ELSE SetStatus(n, "attention")
  /\ IF restores THEN /\ call' = [call EXCEPT ![h].pc = "restore"]
                      /\ UNCHANGED reconciled
                 ELSE /\ call' = [call EXCEPT ![h] = Idle]
                      /\ MarkNodeReconciled(n, call[h].due)
  /\ UNCHANGED <<access, boundary, advertised, agent, events, minute, charge, epoch, queue, results, desired, tasks, observed>>

HeartbeatRestore(h) ==
  /\ call[h].pc = "restore"
  /\ SetStatus(call[h].node, "healthy")
  /\ MarkNodeReconciled(call[h].node, call[h].due)
  /\ call' = [call EXCEPT ![h] = Idle]
  /\ UNCHANGED <<access, boundary, advertised, agent, events, minute, charge, epoch, queue, results, desired, tasks, observed>>

-----------------------------------------------------------------------------
(* Console, Portal and app handlers that change access, then rebuild the nodes they affect. *)

ConsoleAccess(h) ==
  /\ ~Busy(h)
  /\ Happens("console")
  /\ access' \in [Node -> SUBSET Peer] \ {access}
  /\ \E force \in BOOLEAN, todo \in IF "unlisted" \in Env THEN {{}} ELSE {{n \in Node : access'[n] # access[n]}} :
       call' = [call EXCEPT ![h] = [Idle EXCEPT !.pc = "back", !.job = "access", !.todo = todo, !.force = force]]
  /\ UNCHANGED <<boundary, advertised, agent, minute, charge, epoch, reconciled, queue, results, database>>

AccessRebuild(h) ==
  /\ call[h].pc = "back" /\ call[h].job = "access"
  /\ \/ /\ call[h].todo = {}
        /\ call' = [call EXCEPT ![h] = Idle]
        /\ UNCHANGED queue
     \/ \E n \in call[h].todo : EnterLock(h, n, [Idle EXCEPT !.job = "access", !.force = call[h].force, !.todo = call[h].todo \ {n}])
  /\ UNCHANGED <<access, boundary, advertised, agent, events, minute, charge, epoch, reconciled, results, database>>

(* configureVpnService *)

ConsoleEnable(h, n) ==
  /\ ~Busy(h)
  /\ Happens("enable")
  /\ service' = [service EXCEPT ![n] = [enabled |-> TRUE, status |-> "deploying"]]
  /\ EnterLock(h, n, [Idle EXCEPT !.job = "enable", !.force = TRUE])
  /\ UNCHANGED <<access, boundary, advertised, agent, minute, charge, epoch, reconciled, results, desired, tasks, observed>>

EnableBuilt(h) ==
  /\ call[h].pc = "back" /\ call[h].job = "enable"
  /\ IF call[h].ok THEN UNCHANGED service ELSE SetStatus(call[h].node, "attention")
  /\ call' = [call EXCEPT ![h] = Idle]
  /\ UNCHANGED <<access, boundary, advertised, agent, events, minute, charge, epoch, reconciled, queue, results, desired, tasks, observed>>

ConsoleDisable(h, n) ==
  /\ ~Busy(h)
  /\ Happens("disable")
  /\ service' = [service EXCEPT ![n] = [enabled |-> FALSE, status |-> "deploying"]]
  /\ call' = [call EXCEPT ![h] = [Idle EXCEPT !.pc = "send", !.job = "disable", !.node = n]]
  /\ UNCHANGED <<access, boundary, advertised, agent, minute, charge, epoch, reconciled, queue, results, desired, tasks, observed>>

DisableSend(h) ==
  /\ call[h].pc = "send" /\ call[h].job = "disable"
  /\ Enqueue(Task("Disable", call[h].node, desired[call[h].node].rev, {}))
  /\ call' = [call EXCEPT ![h] = Idle]
  /\ UNCHANGED <<access, boundary, advertised, agent, events, minute, charge, epoch, reconciled, queue, results, service, desired, observed>>

(* The restart payload is read here, outside the reconcile lock, and sent in the next step. *)
ConsoleRestart(h, n) ==
  /\ ~Busy(h)
  /\ Happens("restartService")
  /\ service[n].enabled /\ desired[n].rev # 0
  /\ SetStatus(n, "deploying")
  /\ call' = [call EXCEPT ![h] = [Idle EXCEPT !.pc = "send", !.job = "restart", !.node = n,
                                              !.rev = desired[n].rev, !.peers = desired[n].peers]]
  /\ UNCHANGED <<access, boundary, advertised, agent, minute, charge, epoch, reconciled, queue, results, desired, tasks, observed>>

RestartSend(h) ==
  /\ call[h].pc = "send" /\ call[h].job = "restart"
  /\ Enqueue(Task("Restart", call[h].node, call[h].rev, call[h].peers))
  /\ call' = [call EXCEPT ![h] = Idle]
  /\ UNCHANGED <<access, boundary, advertised, agent, events, minute, charge, epoch, reconciled, queue, results, service, desired, observed>>

SendThrows(h) ==
  /\ call[h].pc = "send" /\ Happens("enqueueFail")
  /\ call' = [call EXCEPT ![h] = Idle]
  /\ UNCHANGED <<access, boundary, advertised, agent, minute, charge, epoch, reconciled, queue, results, database>>

-----------------------------------------------------------------------------
(* The task queue and the Agent (tasks/pull, agent.py). *)

(* A slip in pullReconcileTasks: no WHERE node_id. *)
PendingAnywhere(n) == {i \in DOMAIN tasks : tasks[i].status = "pending"}
Pending(n) == {i \in TasksOf(n) : tasks[i].status = "pending"}

(* A slip in pullReconcileTasks: attempts is not incremented. *)
TakeUncounted(n) ==
  tasks' = [i \in DOMAIN tasks |-> IF i \in Pending(n) THEN [tasks[i] EXCEPT !.status = "running"] ELSE tasks[i]]
Take(n) ==
  tasks' = [i \in DOMAIN tasks |->
              IF i \in Pending(n) THEN [tasks[i] EXCEPT !.status = "running", !.attempts = @ + 1] ELSE tasks[i]]

(* The poller asks again only when the main loop has handled the previous answer. *)
Polling(n) ==
  /\ agent[n].batch = {} /\ Pending(n) # {}
  /\ "slow" \in Env \/ \A r \in results : tasks[r.task].node # n

Pull(n) ==
  /\ Polling(n)
  /\ Take(n)
  /\ agent' = [agent EXCEPT ![n].batch = Pending(n)]
  /\ UNCHANGED <<access, boundary, advertised, events, controllerMemory, service, desired, observed>>

PullLost(n) ==
  /\ Polling(n) /\ Happens("lost")
  /\ Take(n)
  /\ UNCHANGED <<access, boundary, advertised, agent, controllerMemory, service, desired, observed>>

(* A slip in the pull's ORDER BY: the newest task first. *)
NewestTask(n) == Max(agent[n].batch)
NextTask(n) == Min(agent[n].batch)
Reconfigures(t) == t.kind = "Apply" \/ (t.kind = "Restart" /\ RestartApplies)

(* The configuration after a task was applied: rev = 0 stands for no configuration file. *)
Applied(n, t) ==
  LET rest == agent[n].batch \ {NextTask(n)} IN
  CASE Reconfigures(t) -> [on |-> TRUE, rev |-> t.rev, peers |-> t.peers, redelivered |-> t.attempts > 1, batch |-> rest]
    [] t.kind = "Disable" -> [on |-> FALSE, rev |-> 0, peers |-> {}, redelivered |-> t.attempts > 1, batch |-> rest]
    [] OTHER -> [agent[n] EXCEPT !.on = TRUE, !.batch = rest]

(* A failure leaves the old configuration, or the service stopped (on the new one once written). *)
Failed(n, t) ==
  LET rest == agent[n].batch \ {NextTask(n)} IN
  { [agent[n] EXCEPT !.batch = rest],
    IF Reconfigures(t)
      THEN [on |-> FALSE, rev |-> t.rev, peers |-> t.peers, redelivered |-> t.attempts > 1, batch |-> rest]
      ELSE [agent[n] EXCEPT !.on = FALSE, !.batch = rest] }

Report(i, ok) == [task |-> i, ok |-> ok, phase |-> "task"]
Applying(n) == agent[n].batch # {} /\ MainLoopFree(n)
NotConfigured(n, t) == t.kind = "Restart" /\ ~RestartApplies /\ agent[n].rev = 0

ApplyTask(n) ==
  LET i == NextTask(n) IN
  /\ Applying(n)
  /\ ~NotConfigured(n, tasks[i])
  /\ agent' = [agent EXCEPT ![n] = Applied(n, tasks[i])]
  /\ \/ /\ results' = results \union {Report(i, TRUE)}
        /\ UNCHANGED events
     \/ /\ Happens("lost")
        /\ UNCHANGED results
  /\ UNCHANGED <<access, boundary, advertised, minute, charge, epoch, reconciled, queue, call, database>>

ApplyFails(n) ==
  LET i == NextTask(n) IN
  /\ Applying(n)
  /\ "applyFail" \in Env \/ NotConfigured(n, tasks[i])
  /\ \E after \in Failed(n, tasks[i]) : agent' = [agent EXCEPT ![n] = after]
  /\ results' = results \union {Report(i, FALSE)}
  /\ UNCHANGED <<access, boundary, advertised, events, minute, charge, epoch, reconciled, queue, call, database>>

AdvertisedChanges(n) ==
  /\ Happens("unadvertised")
  /\ advertised' = [advertised EXCEPT ![n] = ~@]
  /\ UNCHANGED <<access, boundary, agent, controllerMemory, database>>

AgentCrash(n) ==
  /\ agent[n].batch # {} /\ Happens("agentCrash")
  /\ agent' = [agent EXCEPT ![n].batch = {}]
  /\ UNCHANGED <<access, boundary, advertised, controllerMemory, database>>

-----------------------------------------------------------------------------
(* finishReconcileTask, one action per statement group. *)

Advance(r, phase) == (results \ {r}) \union {[r EXCEPT !.phase = phase]}

FinishTask(r) ==
  /\ r.phase = "task"
  /\ tasks' = [tasks EXCEPT ![r.task].status = IF r.ok THEN "succeeded" ELSE "failed"]
  /\ results' = Advance(r, "service")
  /\ UNCHANGED <<access, boundary, advertised, agent, events, minute, charge, epoch, reconciled, queue, call, service, desired, observed>>

FinishService(r) ==
  LET n == tasks[r.task].node
      disables == tasks[r.task].kind = "Disable"
  IN
  /\ r.phase = "service"
  /\ IF disables = ~service[n].enabled
       THEN SetStatus(n, IF ~r.ok THEN "attention" ELSE IF disables THEN "disabled" ELSE "healthy")
       ELSE UNCHANGED service
  /\ results' = IF r.ok THEN Advance(r, "observed") ELSE results \ {r}
  /\ UNCHANGED <<access, boundary, advertised, agent, events, minute, charge, epoch, reconciled, queue, call, desired, tasks, observed>>

(* A slip: the acknowledged revision is taken from desired_configs instead of the report. *)
FinishObservedDesired(r) ==
  LET t == tasks[r.task] IN
  /\ r.phase = "observed"
  /\ observed' = [observed EXCEPT ![t.node] = [rev |-> desired[t.node].rev, status |-> IF t.kind = "Disable" THEN "disabled" ELSE "applied"]]
  /\ results' = results \ {r}
  /\ UNCHANGED <<access, boundary, advertised, agent, events, minute, charge, epoch, reconciled, queue, call, service, desired, tasks>>

FinishObserved(r) ==
  LET t == tasks[r.task] IN
  /\ r.phase = "observed"
  /\ observed' = [observed EXCEPT ![t.node] = [rev |-> t.rev, status |-> IF t.kind = "Disable" THEN "disabled" ELSE "applied"]]
  /\ results' = results \ {r}
  /\ UNCHANGED <<access, boundary, advertised, agent, events, minute, charge, epoch, reconciled, queue, call, service, desired, tasks>>

-----------------------------------------------------------------------------
(* The Controller process restarts: everything that is in memory only is gone. *)

(* A request that has written one row and not yet the row that belongs to it. *)
TornCall(h) ==
  \/ call[h].pc \in {"wrote", "send"}
  \/ InBuild(h) /\ service[call[h].node].status = "deploying"

ControllerRestart ==
  /\ Happens("restart")
  /\ \/ "tornWrite" \in Env
     \/ (\A h \in Handler : ~TornCall(h)) /\ (\A r \in results : r.phase = "task")
  /\ minute' = "idle" /\ boundary' = FALSE /\ epoch' = 1
  /\ charge' = [owed |-> 0, lost |-> 0]
  /\ reconciled' = [n \in Node |-> 0]
  /\ queue' = [n \in Node |-> <<>>]
  /\ call' = [h \in Handler |-> Idle]
  /\ results' = {}
  /\ UNCHANGED <<access, advertised, agent, database>>

-----------------------------------------------------------------------------
BuildStep(h) == BuildRead(h) \/ BuildRefused(h) \/ BuildWrite(h) \/ BuildEnqueue(h)
Return(h) == HeartbeatBuilt(h) \/ HeartbeatRestore(h) \/ AccessRebuild(h) \/ EnableBuilt(h)
             \/ DisableSend(h) \/ RestartSend(h)
HeartbeatStart(h, n) == HeartbeatRebuild(h, n) \/ HeartbeatDeploy(h, n)
                        \/ HeartbeatUnsupported(h, n) \/ HeartbeatSkip(h, n) \/ HeartbeatIdle(h, n)
Finish(r) == FinishTask(r) \/ FinishService(r) \/ FinishObserved(r)

Next ==
  \/ AccessBoundary \/ QuotaEnds \/ QuotaMark \/ ChargeThrows \/ MinuteStart \/ MinuteMark \/ MinuteAbort \/ ControllerRestart
  \/ \E i \in DOMAIN tasks : RetryStale(i) \/ RetryFailed(i)
  \/ \E h \in Handler : BuildStep(h) \/ Return(h) \/ BuildThrows(h) \/ EnqueueThrows(h) \/ SendThrows(h) \/ ConsoleAccess(h)
  \/ \E h \in Handler, n \in Node : HeartbeatStart(h, n) \/ ConsoleEnable(h, n) \/ ConsoleDisable(h, n) \/ ConsoleRestart(h, n)
  \/ \E n \in Node : SafetyInterval(n) \/ Pull(n) \/ PullLost(n) \/ ApplyTask(n) \/ ApplyFails(n)
                     \/ AdvertisedChanges(n) \/ AgentCrash(n)
  \/ \E r \in results : Finish(r)

Spec == Init /\ [][Next]_vars

(* The event loop runs every ready continuation; timers fire; a live Agent keeps polling and   *)
(* heartbeating, each in turn with what else its main loop does. The environment owes nothing. *)
ControllerFairness ==
  /\ WF_vars(MinuteStart) /\ WF_vars(MinuteMark) /\ WF_vars(QuotaMark)
  /\ WF_vars(\E i \in DOMAIN tasks : RetryStale(i)) /\ WF_vars(\E i \in DOMAIN tasks : RetryFailed(i))
  /\ \A h \in Handler : WF_vars(BuildStep(h)) /\ WF_vars(Return(h))
  /\ \A n \in Node : WF_vars(SafetyInterval(n)) /\ SF_vars(\E h \in Handler : HeartbeatStart(h, n))
  /\ WF_vars(\E r \in results : Finish(r))

(* A node that works: what is tried again and again succeeds in the end. *)
FairSpec == Spec /\ ControllerFairness /\ \A n \in Node : WF_vars(Pull(n)) /\ SF_vars(ApplyTask(n))

(* A node that only answers: every task it takes may fail for ever. *)
AnsweringSpec == Spec /\ ControllerFairness
                 /\ \A n \in Node : WF_vars(Pull(n)) /\ SF_vars(ApplyTask(n) \/ ApplyFails(n))

-----------------------------------------------------------------------------
(* Properties. *)

(* Every variable keeps its shape; a handler that runs inside the lock is the head of its queue. *)
TypeOK ==
  /\ access \in [Node -> SUBSET Peer] /\ boundary \in BOOLEAN /\ minute \in {"idle", "passed"}
  /\ epoch \in Nat \ {0} /\ events \in Nat /\ charge \in [owed : Nat, lost : Nat]
  /\ reconciled \in [Node -> Nat]
  /\ service \in [Node -> ServiceRow]
  /\ advertised \in [Node -> BOOLEAN]
  /\ desired \in [Node -> [rev : Nat, peers : SUBSET Peer]]
  /\ tasks \in Seq(TaskRow)
  /\ observed \in [Node -> [rev : Nat, status : {"none", "applied", "disabled"}]]
  /\ queue \in [Node -> Seq(Handler)]
  /\ call \in [Handler -> Call]
  /\ agent \in [Node -> AgentRow]
  /\ \A n \in Node : \A i \in agent[n].batch : i \in DOMAIN tasks /\ tasks[i].node = n
  /\ results \subseteq ReportRow /\ \A r \in results : r.task \in DOMAIN tasks

(* A node and revision name one payload: the Agent's acknowledgement of a revision, and the   *)
(* readiness an app waits for, say which peers the node admits. Two builds of one node at the *)
(* same time would give two payloads the same number.                                          *)
RevisionNamesOnePayload ==
  /\ \A i, j \in DOMAIN tasks :
       (tasks[i].node = tasks[j].node /\ tasks[i].rev = tasks[j].rev /\ tasks[i].kind # "Disable" /\ tasks[j].kind # "Disable")
         => tasks[i].peers = tasks[j].peers
  /\ \A i \in DOMAIN tasks :
       (tasks[i].kind # "Disable" /\ tasks[i].rev = desired[tasks[i].node].rev) => tasks[i].peers = desired[tasks[i].node].peers

(* Builds reach the queue in the order of their revisions, so an Agent that takes each task once *)
(* never goes back. It needs the enqueue inside the lock, not only the write.                     *)
BuildsQueueInOrder ==
  \A i, j \in DOMAIN tasks :
    (i < j /\ tasks[i].node = tasks[j].node /\ tasks[i].kind = "Apply" /\ tasks[j].kind = "Apply")
      => tasks[i].rev <= tasks[j].rev

(* An access change still to be noticed: somebody is bound to look at the node again.            *)
WillBeNoticed(n) ==
  \/ boundary \/ minute = "passed" \/ charge.owed > 0
  \/ reconciled[n] # epoch
  \/ \E h \in Handler :
       \/ call[h].job = "access" /\ Busy(h) /\ n \in call[h].todo
       \/ call[h].pc = "queued" /\ call[h].node = n
       \/ call[h].pc = "read" /\ call[h].node = n /\ call[h].peers = access[n]

(* No healthy service keeps a configuration that admits somebody who lost access (or misses     *)
(* somebody who has it) with nothing left that would rebuild it: epoch and reconciled together   *)
(* must not lose a change that arrives while a heartbeat is rebuilding.                           *)
StaleIsNoticed ==
  \A n \in Node :
    (service[n].enabled /\ service[n].status = "healthy" /\ desired[n].peers # access[n]) => WillBeNoticed(n)

(* The one other way to lose a change: a heartbeat whose later charge failed after an account of it *)
(* had run out never marks. The loss lasts until the epoch moves on for another reason, or the        *)
(* safety interval rebuilds the node.                                                                 *)
MarkLost == charge.lost = epoch
StaleUnlessMarkLost == MarkLost \/ StaleIsNoticed

(* "deploying" is never the end: heartbeats pass over a deploying service, so a task, a report or *)
(* a request must still be there to move it on.                                                    *)
DeployingHasWork ==
  \A n \in Node :
    (service[n].enabled /\ service[n].status = "deploying") =>
      \/ \E i \in TasksOf(n) : Unfinished(i) \/ InHand(i)
      \/ \E h \in Handler : InBuild(h) \/ call[h].pc \in {"back", "send", "restore"}

(* Nothing is going on anywhere: no request, no report, no task that will still be taken. *)
Quiet ==
  /\ ~boundary /\ minute = "idle" /\ charge.owed = 0 /\ results = {}
  /\ \A h \in Handler : ~Busy(h)
  /\ \A n \in Node : reconciled[n] = epoch /\ agent[n].batch = {}
  /\ \A i \in DOMAIN tasks : ~Unfinished(i)

InStep(n) ==
  IF service[n].enabled THEN agent[n].on /\ agent[n].peers = access[n] ELSE ~agent[n].on

(* Once everything is quiet, a healthy or disabled service runs on its node exactly as the *)
(* database says it should.                                                                 *)
QuietMeansInStep ==
  Quiet => \A n \in Node : service[n].status \in {"healthy", "disabled"} => InStep(n)

(* The same with crashes, losses and failures: what can leave a node behind a quiet Controller is *)
(* a task delivered a second time after a newer one, or the lost mark of a charge that failed.     *)
QuietUnlessRedelivered ==
  Quiet => \A n \in Node : service[n].status \in {"healthy", "disabled"} => InStep(n) \/ agent[n].redelivered \/ MarkLost

(* What the Controller believes the node acknowledged is not ahead of what the node runs. *)
AcknowledgedIsApplied ==
  \A n \in Node :
    (observed[n].status = "applied" /\ agent[n].on /\ ~agent[n].redelivered) => observed[n].rev <= agent[n].rev

(* A node goes back to an older configuration only through a task it is given again. *)
NeverOlder ==
  [][\A n \in Node : (agent'[n].rev # 0 /\ agent'[n].rev < agent[n].rev) => agent'[n].redelivered]_vars

(* A service leaves "attention" for "healthy" when its node runs the current revision. *)
RestoredWhenCurrent ==
  [][\A n \in Node : (service[n].status = "attention" /\ service'[n].status = "healthy")
                        => agent[n].rev = desired[n].rev]_vars

(* Once the environment is quiet every node that can run its service ends up running it as the *)
(* database says.                                                                              *)
Converges ==
  <>[](\A n \in Node : advertised[n] => service[n].status \in {"healthy", "disabled"} /\ InStep(n))

(* Rebuilding comes to rest: a rebuild that finds nothing new does not cause another one. *)
AtRest == \A n \in Node : reconciled[n] = epoch
ComesToRest == <>[]AtRest

(* Every task is settled in the end, however often the Agent fails at it. *)
TasksSettle == <>[](\A i \in DOMAIN tasks : ~Unfinished(i))

=============================================================================
