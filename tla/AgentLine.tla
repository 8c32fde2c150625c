------------------------------ MODULE AgentLine ------------------------------
(***************************************************************************)
(* The line between the Controller and one node's Agent: the long poll     *)
(* that hands out tasks, the reports that finish them, and the port check  *)
(* that is handed out the same way.                                        *)
(*                                                                         *)
(* A pull is served by a handler with its own steps: it selects rows,      *)
(* claims them one by one, takes the port check, and only then starts to   *)
(* listen.  The connection may be gone long before the handler knows.      *)
(* Times (25 s of waiting, 45 s of sending, 5 min until a task in hand     *)
(* goes back) are steps that may happen at any moment.  Failed tasks,      *)
(* their retries and what a task holds are in Reconcile.tla.               *)
(***************************************************************************)
EXTENDS Naturals, FiniteSets, FiniteSetsExt

CONSTANTS
  Handler,      \* pulls the Controller serves at a time, those of dead connections included
  Console,      \* port-check requests served at a time
  Port,         \* the node's UDP ports
  MaxTasks, MaxChecks, MaxJobs, MaxEvents,   \* bounds of the model
  LookupFails   \* the node's host name may not resolve

ASSUME BoundAssumption == {MaxTasks, MaxChecks, MaxJobs, MaxEvents} \subseteq Nat /\ LookupFails \in BOOLEAN

Task == 1 .. MaxTasks
Check == 1 .. MaxChecks

VARIABLES
  service,     \* the vpn_services row: on (enabled) and status
  tasks,       \* reconcile_tasks: state, and whether the task disables the service
  woken,       \* tasks in the queue that a wakeAgent announced
  switching,   \* the request that switches the service: its next step; "cut" when a restart fell between two statements
  pulls,       \* the pull requests: step, rows selected, tasks claimed, port check, second try
  waiting,     \* the listeners of agent-wake.ts
  missed,      \* history: tasks whose wake found the handler not listening yet
  agent,       \* what the Agent does, the pull it asks with, the tasks and port check in hand
  report,      \* the report being recorded
  checks,      \* port checks ever started: status, and what became of their sender
  current,     \* the node's entry in store, 0 for none
  starting,    \* console requests between looking for a running check and storing theirs
  reach,       \* node_transport_reach: the last check, and whether an app got an answer since
  blocked, everBlocked,  \* ports that packets do not reach now; that they once did not
  events

tasking == <<service, tasks, woken, switching>>
polling == <<pulls, waiting, missed>>
probing == <<checks, current, starting, reach>>
network == <<blocked, everBlocked>>
vars == <<tasking, polling, agent, report, probing, network, events>>

NoPull == [pc |-> "idle", rows |-> {}, got |-> {}, check |-> 0, again |-> FALSE]
NoReport == [pc |-> "none", task |-> 0, on |-> FALSE]
IdleAgent == [pc |-> "idle", asks |-> "none", tasks |-> {}, check |-> 0]

Pending == {t \in Task : tasks[t].st = "pending"}
Jobs == Cardinality({t \in Task : tasks[t].st # "none"}) + Cardinality({c \in Check : checks[c].st # "none"})
Created == {t \in Task : tasks[t].st # "none"}
Held == agent.tasks \union {report.task} \union UNION {pulls[h].got : h \in Handler}

-----------------------------------------------------------------------------
(* Tasks are made and announced. *)

(* configureVpnService: the row, then the task, then the wake. *)
Switch ==
  /\ switching \in {"no", "cut"} /\ Created # Task /\ Jobs < MaxJobs
  /\ service' = [on |-> ~service.on, status |-> "deploying"]
  /\ switching' = "insert"
  /\ UNCHANGED <<tasks, woken, polling, agent, report, probing, network, events>>

Insert ==
  /\ switching = "insert" /\ Created # Task
  /\ tasks' = [tasks EXCEPT ![Min(Task \ Created)] = [st |-> "pending", disables |-> ~service.on]]
  /\ switching' = "wake"
  /\ UNCHANGED <<service, woken, polling, agent, report, probing, network, events>>

(* wakeAgent: whoever listens goes on to a second try. *)
WakeAgent ==
  /\ pulls' = [h \in Handler |-> IF h \in waiting THEN [pulls[h] EXCEPT !.pc = "select", !.again = TRUE] ELSE pulls[h]]
  /\ waiting' = {} /\ missed' = [h \in Handler |-> {}]

Wake ==
  /\ switching = "wake"
  /\ WakeAgent
  /\ woken' = Pending
  /\ switching' = "no"
  /\ UNCHANGED <<service, tasks, agent, report, probing, network, events>>

-----------------------------------------------------------------------------
(* A pull. *)

Ask(h) ==
  /\ agent.pc = "idle" /\ pulls[h].pc = "idle"
  /\ agent' = [agent EXCEPT !.pc = "asking", !.asks = h]
  /\ pulls' = [pulls EXCEPT ![h].pc = "claim", ![h].rows = Pending]
  /\ UNCHANGED <<tasking, waiting, missed, report, probing, network, events>>

(* The second try. *)
Select(h) ==
  /\ pulls[h].pc = "select"
  /\ pulls' = [pulls EXCEPT ![h].pc = "claim", ![h].rows = Pending]
  /\ UNCHANGED <<tasking, waiting, missed, agent, report, probing, network, events>>

Claim(h) ==
  LET t == Min(pulls[h].rows) IN
  /\ pulls[h].pc = "claim" /\ pulls[h].rows # {}
  /\ woken' = woken \ {t}
  /\ IF t \in Pending
       THEN /\ tasks' = [tasks EXCEPT ![t].st = "running"]
            /\ pulls' = [pulls EXCEPT ![h].rows = @ \ {t}, ![h].got = @ \union {t}]
       ELSE /\ pulls' = [pulls EXCEPT ![h].rows = @ \ {t}]
            /\ UNCHANGED tasks
  /\ UNCHANGED <<service, switching, waiting, missed, agent, report, probing, network, events>>

(* takePortCheckFor, and in the same breath the decision to listen. *)
Waits(h, c) == ~pulls[h].again /\ pulls[h].got = {} /\ c = 0
Take(h) ==
  LET c == IF current # 0 /\ checks[current].st = "waiting" THEN current ELSE 0 IN
  /\ pulls[h].pc = "claim" /\ pulls[h].rows = {}
  /\ checks' = IF c = 0 THEN checks ELSE [checks EXCEPT ![c].st = "counting"]
  /\ IF Waits(h, c)
       THEN /\ pulls' = [pulls EXCEPT ![h].pc = "wait"]
            /\ waiting' = waiting \union {h}
            /\ missed' = [missed EXCEPT ![h] = Pending \intersect woken]
       ELSE /\ pulls' = [pulls EXCEPT ![h].pc = "answer", ![h].check = c]
            /\ UNCHANGED <<waiting, missed>>
  /\ UNCHANGED <<tasking, agent, report, current, starting, reach, network, events>>

(* A slip: the node's listeners are forgotten with the first that gives up. *)
ForgottenAll(h) == {}
(* waitForAgentWork's finish: this listener only. *)
Forgotten(h) == waiting \ {h}
(* A slip: only a wake ends the wait. *)
NoTimer(h) == FALSE
(* The timer, or the connection's abort. *)
Timer(h) == pulls[h].pc = "wait"
StopWaiting(h) ==
  /\ Timer(h)
  /\ pulls' = [pulls EXCEPT ![h].pc = "select", ![h].again = TRUE]
  /\ waiting' = Forgotten(h) /\ missed' = [missed EXCEPT ![h] = {}]
  /\ UNCHANGED <<tasking, agent, report, probing, network, events>>

(* What was claimed for a connection that is gone is lost. *)
Answer(h) ==
  /\ pulls[h].pc = "answer"
  /\ pulls' = [pulls EXCEPT ![h] = NoPull]
  /\ IF agent.asks = h
       THEN agent' = [pc |-> "busy", asks |-> "none", tasks |-> pulls[h].got, check |-> pulls[h].check]
       ELSE UNCHANGED agent
  /\ UNCHANGED <<tasking, waiting, missed, report, probing, network, events>>

(* The connection breaks; the Agent asks again. *)
Disconnect ==
  /\ agent.pc = "asking" /\ events < MaxEvents /\ events' = events + 1
  /\ agent' = IdleAgent
  /\ UNCHANGED <<tasking, polling, report, probing, network>>

-----------------------------------------------------------------------------
(* The Agent counts packets first, then applies its tasks in their order; each report is answered before the next. *)

RunTask ==
  /\ agent.pc = "busy" /\ agent.check = 0 /\ agent.tasks # {} /\ report = NoReport
  /\ report' = [NoReport EXCEPT !.pc = "finish", !.task = Min(agent.tasks)]
  /\ agent' = [agent EXCEPT !.tasks = @ \ {Min(agent.tasks)}]
  /\ UNCHANGED <<tasking, polling, probing, network, events>>

Handled ==
  /\ agent.pc = "busy" /\ agent.check = 0 /\ agent.tasks = {} /\ report = NoReport
  /\ agent' = IdleAgent
  /\ UNCHANGED <<tasking, polling, report, probing, network, events>>

(* finishReconcileTask in its three statements. *)
Finish ==
  /\ report.pc = "finish"
  /\ tasks' = [tasks EXCEPT ![report.task].st = "done"]
  /\ report' = [report EXCEPT !.pc = "read"]
  /\ UNCHANGED <<service, woken, switching, polling, agent, probing, network, events>>

ReadService ==
  /\ report.pc = "read"
  /\ report' = [report EXCEPT !.pc = "write", !.on = service.on]
  /\ UNCHANGED <<tasking, polling, agent, probing, network, events>>

(* A report about a service that was switched since says nothing of it. *)
About(on, disables) == disables = ~on
(* A slip: what succeeds makes the service healthy, also the task that disables it. *)
WriteHealthy ==
  /\ report.pc = "write"
  /\ service' = IF About(report.on, tasks[report.task].disables) THEN [service EXCEPT !.status = "healthy"] ELSE service
  /\ report' = NoReport
  /\ UNCHANGED <<tasks, woken, switching, polling, agent, probing, network, events>>
WriteStatus ==
  /\ report.pc = "write"
  /\ service' = IF About(report.on, tasks[report.task].disables)
                THEN [service EXCEPT !.status = IF tasks[report.task].disables THEN "disabled" ELSE "healthy"]
                ELSE service
  /\ report' = NoReport
  /\ UNCHANGED <<tasks, woken, switching, polling, agent, probing, network, events>>

(* retryReconcileTasks: nobody is left to report it; nobody is woken either. *)
GiveBack(t) ==
  /\ tasks[t].st = "running" /\ t \notin Held
  /\ tasks' = [tasks EXCEPT ![t].st = "pending"]
  /\ woken' = woken \ {t}
  /\ UNCHANGED <<service, switching, polling, agent, report, probing, network, events>>

-----------------------------------------------------------------------------
(* Port checks. *)

Running(c) == c # 0 /\ checks[c].st \in {"waiting", "counting"}
NextCheck == CHOOSE c \in Check : checks[c].st = "none" /\ \A d \in Check : d < c => checks[d].st # "none"

(* startPortCheck: nothing runs, the node is read, and only then the check is stored; the Agent is woken before *)
(* the host name is resolved.                                                                                 *)
StartPortCheck(s) ==
  /\ starting[s] = FALSE /\ ~Running(current) /\ Jobs < MaxJobs /\ \E c \in Check : checks[c].st = "none"
  /\ starting' = [starting EXCEPT ![s] = TRUE]
  /\ events' = IF \E o \in Console : starting[o] THEN events + 1 ELSE events
  /\ events' <= MaxEvents
  /\ UNCHANGED <<tasking, polling, agent, report, checks, current, reach, network>>

StoreCheck(s) ==
  /\ starting[s] /\ starting' = [starting EXCEPT ![s] = FALSE]
  /\ IF \E c \in Check : checks[c].st = "none"
       THEN /\ checks' = [checks EXCEPT ![NextCheck] = [st |-> "waiting", sender |-> "lookup"]]
            /\ current' = NextCheck
            /\ WakeAgent
       ELSE UNCHANGED <<checks, current, polling>>
  /\ UNCHANGED <<tasking, agent, report, reach, network, events>>

Lookup(c) ==
  /\ checks[c].sender = "lookup"
  /\ \/ checks' = [checks EXCEPT ![c].sender = "on"]
     \/ LookupFails /\ checks' = [checks EXCEPT ![c].sender = "never"]
  /\ UNCHANGED <<tasking, polling, agent, report, current, starting, reach, network, events>>

(* A slip: a check the Agent has taken is left to it. *)
UnansweredOnly(c) == checks[c].st = "waiting"
Unanswered(c) == checks[c].st \in {"waiting", "counting"}
(* The sender's interval: it stops once the check has ended, and ends it itself after 45 seconds. *)
StopSending(c) ==
  /\ checks[c].sender = "on"
  /\ checks' = [checks EXCEPT ![c] = [st |-> IF Unanswered(c) THEN "failed" ELSE checks[c].st, sender |-> "off"]]
  /\ UNCHANGED <<tasking, polling, agent, report, current, starting, reach, network, events>>

(* A slip: a result is taken whatever became of the check. *)
AcceptsLate(c) == current = c
Accepts(c) == current = c /\ checks[c].st = "counting"
(* recordPortCheck and saveControllerReach. *)
Record(c, open) ==
  /\ reach' = [p \in Port |-> [check |-> IF p \in open THEN "open" ELSE "closed", app |-> FALSE]]
  /\ checks' = [checks EXCEPT ![c].st = "done"]
(* run_port_check and its report.  Counting takes 8 seconds, longer than a name takes to resolve. *)
Count(lost) ==
  LET c == agent.check  open == IF checks[c].sender = "on" THEN Port \ blocked ELSE {} IN
  /\ agent.pc = "busy" /\ c # 0 /\ checks[c].sender # "lookup"
  /\ lost => events < MaxEvents
  /\ events' = IF lost THEN events + 1 ELSE events
  /\ agent' = [agent EXCEPT !.check = 0]
  /\ IF Accepts(c) /\ ~lost
       THEN Record(c, open)
       ELSE UNCHANGED <<reach, checks>>
  /\ UNCHANGED <<tasking, polling, report, current, starting, network>>

(* recordTransportProbe: an app reached the port. *)
AppProbe(p) ==
  /\ p \notin blocked
  /\ reach' = [reach EXCEPT ![p].app = TRUE]
  /\ UNCHANGED <<tasking, polling, agent, report, checks, current, starting, network, events>>

(* udpStatus. *)
PortStatus(p) ==
  IF reach[p].check = "open" \/ reach[p].app THEN "reachable"
  ELSE IF reach[p].check = "closed" THEN "unreachable" ELSE "unverified"

BlockOrOpen(p) ==
  /\ events < MaxEvents /\ events' = events + 1
  /\ blocked' = IF p \in blocked THEN blocked \ {p} ELSE blocked \union {p}
  /\ everBlocked' = everBlocked \union {p}
  /\ UNCHANGED <<tasking, polling, agent, report, probing>>

-----------------------------------------------------------------------------
(* Either side restarts. *)

(* A report that is on its way is recorded all the same. *)
AgentRestarts ==
  /\ events < MaxEvents /\ events' = events + 1
  /\ agent' = IdleAgent
  /\ UNCHANGED <<tasking, polling, report, probing, network>>

ControllerRestarts ==
  /\ events < MaxEvents /\ events' = events + 1
  /\ switching' = IF switching \in {"insert", "cut"} \/ report.pc \in {"read", "write"} THEN "cut" ELSE "no"
  /\ pulls' = [h \in Handler |-> NoPull] /\ waiting' = {} /\ missed' = [h \in Handler |-> {}]
  /\ report' = NoReport
  /\ agent' = IF agent.pc = "asking" THEN IdleAgent ELSE agent
  /\ current' = 0 /\ starting' = [s \in Console |-> FALSE]
  /\ checks' = [c \in Check |-> IF Running(c) THEN [st |-> "failed", sender |-> "off"] ELSE [checks[c] EXCEPT !.sender = "off"]]
  /\ UNCHANGED <<service, tasks, woken, reach, network>>

-----------------------------------------------------------------------------
Init ==
  /\ service = [on |-> TRUE, status |-> "healthy"]
  /\ tasks = [t \in Task |-> [st |-> "none", disables |-> FALSE]]
  /\ woken = {} /\ switching = "no"
  /\ pulls = [h \in Handler |-> NoPull] /\ waiting = {} /\ missed = [h \in Handler |-> {}]
  /\ agent = IdleAgent /\ report = NoReport
  /\ checks = [c \in Check |-> [st |-> "none", sender |-> "off"]]
  /\ current = 0 /\ starting = [s \in Console |-> FALSE]
  /\ reach = [p \in Port |-> [check |-> "none", app |-> FALSE]]
  /\ blocked = {} /\ everBlocked = {}
  /\ events = 0

PullSteps(h) == Select(h) \/ Claim(h) \/ Take(h) \/ Answer(h)
ReportSteps == Finish \/ ReadService \/ WriteStatus

Next ==
  \/ Switch \/ Insert \/ Wake
  \/ \E h \in Handler : Ask(h) \/ PullSteps(h) \/ StopWaiting(h)
  \/ Disconnect \/ RunTask \/ Handled \/ ReportSteps
  \/ \E t \in Task : GiveBack(t)
  \/ \E s \in Console : StartPortCheck(s) \/ StoreCheck(s)
  \/ \E c \in Check : Lookup(c) \/ StopSending(c)
  \/ \E lost \in BOOLEAN : Count(lost)
  \/ \E p \in Port : AppProbe(p) \/ BlockOrOpen(p)
  \/ AgentRestarts \/ ControllerRestarts

(* The Agent's poller and main loop go on, requests are served to their end, timers fire. *)
Fairness ==
  /\ WF_vars(\E h \in Handler : Ask(h))
  /\ \A h \in Handler : WF_vars(PullSteps(h) \/ StopWaiting(h))
  /\ WF_vars(Insert \/ Wake)
  /\ WF_vars(RunTask \/ Handled \/ ReportSteps \/ Count(FALSE))
  /\ WF_vars(\E t \in Task : GiveBack(t))
  /\ WF_vars(\E c \in Check : Lookup(c))

Spec == Init /\ [][Next]_vars /\ Fairness

-----------------------------------------------------------------------------
(* Properties. *)

(* Every variable has its type. *)
ServiceRow == [on : BOOLEAN, status : {"deploying", "healthy", "disabled"}]
TaskRow == [st : {"none", "pending", "running", "done"}, disables : BOOLEAN]
PullRow == [pc : {"idle", "claim", "select", "wait", "answer"}, rows : SUBSET Task, got : SUBSET Task,
            check : Check \union {0}, again : BOOLEAN]
AgentRow == [pc : {"idle", "asking", "busy"}, asks : Handler \union {"none"}, tasks : SUBSET Task, check : Check \union {0}]
ReportRow == [pc : {"none", "finish", "read", "write"}, task : Task \union {0}, on : BOOLEAN]
CheckRow == [st : {"none", "waiting", "counting", "failed", "done"}, sender : {"lookup", "on", "off", "never"}]
ReachRow == [check : {"none", "open", "closed"}, app : BOOLEAN]
TypeOK ==
  /\ service \in ServiceRow /\ tasks \in [Task -> TaskRow]
  /\ woken \subseteq Task /\ switching \in {"no", "insert", "wake", "cut"}
  /\ pulls \in [Handler -> PullRow] /\ waiting \subseteq Handler /\ missed \in [Handler -> SUBSET Task]
  /\ agent \in AgentRow /\ report \in ReportRow
  /\ checks \in [Check -> CheckRow] /\ current \in Check \union {0} /\ starting \in [Console -> BOOLEAN]
  /\ reach \in [Port -> ReachRow]
  /\ blocked \subseteq Port /\ everBlocked \subseteq Port /\ events \in Nat

(* agent-wake.ts: a pull never sleeps on work it was told of.  A task that is pending while a pull waits either has *)
(* not been announced yet or was announced before the pull began to listen, whatever other pulls of the node end    *)
(* meanwhile.                                                                                                       *)
SleepersAreWoken ==
  \A h \in Handler, t \in Task : pulls[h].pc = "wait" /\ t \in Pending /\ t \in woken => t \in missed[h]

(* A task announced in the gap before the wait, claimed for a dead connection or lost with a restart is applied and *)
(* reported in the end: the wait ends by itself, and what nobody holds goes back to the queue.                      *)
TasksAreDone == \A t \in Task : tasks[t].st = "pending" ~> tasks[t].st = "done"

(* finishReconcileTask: when all is reported, the service does not show "disabled" while it is switched on, nor     *)
(* "healthy" while it is off, though it reads the row in one statement and writes it in another, and though a task  *)
(* from before the switch may come back after it (a switch or a report that a restart cut in two excepted).         *)
Quiet == report = NoReport /\ switching = "no" /\ \A t \in Task : tasks[t].st \in {"none", "done"}
StatusMatchesSwitch == Quiet => service.status # (IF service.on THEN "disabled" ELSE "healthy")

(* port-check.ts: "none means it is closed somewhere between the Controller and the node": a port shown as closed   *)
(* was closed, whichever of two checks the Agent answered and however late.                                         *)
ClosedMeansBlocked == \A p \in Port : PortStatus(p) = "unreachable" => p \in everBlocked

(* One check at a time: the one that runs always has a sender that will end it, answered or not, or no other could *)
(* ever be started.                                                                                                *)
ChecksEnd == Running(current) => checks[current].sender \in {"lookup", "on"}
=============================================================================
